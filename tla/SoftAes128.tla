----------------------------- MODULE SoftAes128 -----------------------------
(***************************************************************************)
(* SoftAes128.cpp: AES-128 in software, which decrypts CBC on the OnChip   *)
(* backend (encryption is done by the ECB peripheral) and computes the     *)
(* keystream of SoftAesGcm.  CipherModes takes the two block functions as  *)
(* inverses of each other; this module shows that they are.                *)
(*                                                                         *)
(* A byte is the set of its bits, so that XOR is symmetric difference; a   *)
(* block is a tuple of 16 bytes, first column first.                       *)
(***************************************************************************)
EXTENDS Integers, Sequences

Byte == SUBSET (0..7)
Bits(n) == {i \in 0..7 : (n \div 2^i) % 2 = 1}
ValueOf(b) ==
  LET sum[i \in 0..8] == IF i = 0 THEN 0 ELSE sum[i - 1] + IF i - 1 \in b THEN 2^(i - 1) ELSE 0
  IN sum[8]

\* a ^ b
Xor(a, b) == (a \ b) \cup (b \ a)

\* A tuple of n bytes, evaluated
Bytes(n, byte(_)) == [i \in 1..n |-> byte(i)] \o <<>>

sbox == <<
  99, 124, 119, 123, 242, 107, 111, 197, 48, 1, 103, 43, 254, 215, 171, 118,
  202, 130, 201, 125, 250, 89, 71, 240, 173, 212, 162, 175, 156, 164, 114, 192,
  183, 253, 147, 38, 54, 63, 247, 204, 52, 165, 229, 241, 113, 216, 49, 21,
  4, 199, 35, 195, 24, 150, 5, 154, 7, 18, 128, 226, 235, 39, 178, 117,
  9, 131, 44, 26, 27, 110, 90, 160, 82, 59, 214, 179, 41, 227, 47, 132,
  83, 209, 0, 237, 32, 252, 177, 91, 106, 203, 190, 57, 74, 76, 88, 207,
  208, 239, 170, 251, 67, 77, 51, 133, 69, 249, 2, 127, 80, 60, 159, 168,
  81, 163, 64, 143, 146, 157, 56, 245, 188, 182, 218, 33, 16, 255, 243, 210,
  205, 12, 19, 236, 95, 151, 68, 23, 196, 167, 126, 61, 100, 93, 25, 115,
  96, 129, 79, 220, 34, 42, 144, 136, 70, 238, 184, 20, 222, 94, 11, 219,
  224, 50, 58, 10, 73, 6, 36, 92, 194, 211, 172, 98, 145, 149, 228, 121,
  231, 200, 55, 109, 141, 213, 78, 169, 108, 86, 244, 234, 101, 122, 174, 8,
  186, 120, 37, 46, 28, 166, 180, 198, 232, 221, 116, 31, 75, 189, 139, 138,
  112, 62, 181, 102, 72, 3, 246, 14, 97, 53, 87, 185, 134, 193, 29, 158,
  225, 248, 152, 17, 105, 217, 142, 148, 155, 30, 135, 233, 206, 85, 40, 223,
  140, 161, 137, 13, 191, 230, 66, 104, 65, 153, 45, 15, 176, 84, 187, 22>>

\* Mutant of xtime: the carry is lost
XtimeNoCarry(x) == {i + 1 : i \in x \ {7}}

xtime(x) == Xor({i + 1 : i \in x \ {7}}, IF 7 \in x THEN Bits(27) ELSE {})

Sub == [b \in Byte |-> Bits(sbox[ValueOf(b) + 1])]

\* initRsbox: rsbox[sbox[i]] = i
InvSub == [b \in Byte |-> CHOOSE c \in Byte : Sub[c] = b]

\* mul: a is doubled and added for each bit of b
mul(a, b) ==
  LET double[i \in 0..7] == IF i = 0 THEN a ELSE xtime(double[i - 1])
      p[i \in 0..8] == IF i = 0 THEN {}
                       ELSE Xor(p[i - 1], IF i - 1 \in b THEN double[i - 1] ELSE {})
  IN p[8]

-----------------------------------------------------------------------------
(* The steps of a round *)

addRoundKey(s, k) == Bytes(16, LAMBDA i : Xor(s[i], k[i]))
subBytes(s) == Bytes(16, LAMBDA i : Sub[s[i]])
invSubBytes(s) == Bytes(16, LAMBDA i : InvSub[s[i]])

\* The byte each place gets, places counted from 0 as in the code
ShiftFrom    == <<0, 5, 10, 15, 4, 9, 14, 3, 8, 13, 2, 7, 12, 1, 6, 11>>
InvShiftFrom == <<0, 13, 10, 7, 4, 1, 14, 11, 8, 5, 2, 15, 12, 9, 6, 3>>

shiftRows(s) == Bytes(16, LAMBDA i : s[ShiftFrom[i] + 1])
invShiftRows(s) == Bytes(16, LAMBDA i : s[InvShiftFrom[i] + 1])

\* The byte k places below place i in its column
Below(s, i, k) == s[((i - 1) \div 4) * 4 + ((i - 1 + k) % 4) + 1]

mixColumns(s) ==
  Bytes(16, LAMBDA i :
    Xor(Xor(xtime(Below(s, i, 0)), Xor(xtime(Below(s, i, 1)), Below(s, i, 1))),
        Xor(Below(s, i, 2), Below(s, i, 3))))

invMixColumns(s) ==
  Bytes(16, LAMBDA i :
    Xor(Xor(mul(Below(s, i, 0), Bits(14)), mul(Below(s, i, 1), Bits(11))),
        Xor(mul(Below(s, i, 2), Bits(13)), mul(Below(s, i, 3), Bits(9)))))

rcon == <<1, 2, 4, 8, 16, 32, 64, 128, 27, 54>>

\* keyExpansion: the words w, four bytes each
keyExpansion(key) ==
  LET \* the word before a round key, rotated, substituted and with the constant
      turned(t, r) == <<Xor(Sub[t[2]], Bits(rcon[r])), Sub[t[3]], Sub[t[4]], Sub[t[1]]>>
      words[i \in 3..43] ==
        IF i = 3 THEN [j \in 1..4 |-> SubSeq(key, 4 * j - 3, 4 * j)]
        ELSE LET w == words[i - 1]
                 temp == IF i % 4 = 0 THEN turned(w[i], i \div 4) ELSE w[i]
             IN Append(w, Bytes(4, LAMBDA j : Xor(w[i - 3][j], temp[j])))
  IN words[43]

\* The 16 bytes from roundKeys + 16 * r
RoundKey(w, r) == w[4 * r + 1] \o w[4 * r + 2] \o w[4 * r + 3] \o w[4 * r + 4]

-----------------------------------------------------------------------------
(* cipher(), in its two directions *)

encryptBlock(key, in) ==
  LET w == keyExpansion(key)
      state[r \in 0..9] ==
        IF r = 0 THEN addRoundKey(in, RoundKey(w, 0))
        ELSE addRoundKey(mixColumns(shiftRows(subBytes(state[r - 1]))), RoundKey(w, r))
  IN addRoundKey(shiftRows(subBytes(state[9])), RoundKey(w, 10))

\* Mutant of decryptBlock: the round key is added after invMixColumns
AddsKeyLate(key, in) ==
  LET w == keyExpansion(key)
      state[r \in 1..10] ==
        IF r = 10 THEN addRoundKey(in, RoundKey(w, 10))
        ELSE addRoundKey(invMixColumns(invSubBytes(invShiftRows(state[r + 1]))), RoundKey(w, r))
  IN addRoundKey(invSubBytes(invShiftRows(state[1])), RoundKey(w, 0))

decryptBlock(key, in) ==
  LET w == keyExpansion(key)
      state[r \in 1..10] ==
        IF r = 10 THEN addRoundKey(in, RoundKey(w, 10))
        ELSE invMixColumns(addRoundKey(invSubBytes(invShiftRows(state[r + 1])), RoundKey(w, r)))
  IN addRoundKey(invSubBytes(invShiftRows(state[1])), RoundKey(w, 0))

-----------------------------------------------------------------------------
(* FIPS-197 *)

\* 5.1.1: the affine map, which is applied to the inverse in GF(2^8)
Rotated(b, k) == {i \in 0..7 : (i + k) % 8 \in b}
Affine(b) ==
  Xor(Xor(Xor(b, Rotated(b, 4)), Xor(Rotated(b, 5), Rotated(b, 6))),
      Xor(Rotated(b, 7), Bits(99)))

One == Bits(1)

\* The blocks with a single bit set
UnitBlocks == {Bytes(16, LAMBDA i : IF i = n THEN {k} ELSE {}) : n \in 1..16, k \in 0..7}

\* A block whose bytes are all different, and their rows moved as 5.1.2 says
Numbered == Bytes(16, LAMBDA i : Bits(i))
RowsShifted == Bytes(16, LAMBDA i : Numbered[((i - 1 + 4 * ((i - 1) % 4)) % 16) + 1])

\* The example of Appendix C.1
FipsKey == Bytes(16, LAMBDA i : Bits(i - 1))
FipsPlain == Bytes(16, LAMBDA i : Bits(17 * (i - 1)))
FipsCipher == Bytes(16, LAMBDA i : Bits(
  <<105, 196, 224, 216, 106, 123, 4, 48, 216, 205, 183, 128, 112, 180, 197, 90>>[i]))

-----------------------------------------------------------------------------
(* What is checked of these functions; CipherModes states it of its calls *)

\* Every entry of the table is FIPS-197's S-box of its index, and mul is a field
\* multiplication in which every byte but 0 has an inverse
TableIsFips ==
  /\ Sub[{}] = Affine({})
  /\ \A a \in Byte \ {{}} : \E b \in Byte : mul(a, b) = One /\ Sub[a] = Affine(b)

\* Rows move as in FIPS-197, and encryptBlock gives its example's ciphertext
ExampleIsFips ==
  /\ shiftRows(Numbered) = RowsShifted
  /\ encryptBlock(FipsKey, FipsPlain) = FipsCipher

\* Each inverse step undoes its step (invSubBytes on every byte; invMixColumns on
\* the unit blocks, which is enough because both are linear, being sums of xtime's
\* powers), and the rounds are undone in reverse order, whichever of the two
\* functions comes first
InverseUndoes ==
  /\ \A b \in Byte : InvSub[Sub[b]] = b
  /\ invShiftRows(shiftRows(Numbered)) = Numbered
  /\ \A a, b \in Byte : xtime(Xor(a, b)) = Xor(xtime(a), xtime(b))
  /\ \A u \in UnitBlocks : invMixColumns(mixColumns(u)) = u
  /\ \A x, y \in {FipsKey, FipsPlain, Numbered} :
       /\ decryptBlock(x, encryptBlock(x, y)) = y
       /\ encryptBlock(x, decryptBlock(x, y)) = y
=============================================================================
