---------------------------- MODULE CipherModes ----------------------------
(***************************************************************************)
(* AES-CBC and AES-CTR of the OnChip backend, one step per block, and the  *)
(* PKCS#7 helpers an application puts around them.  Two buffers are read   *)
(* and written by the calls, in place or from one to the other.  The ECB   *)
(* peripheral may fail at any block.                                       *)
(*                                                                         *)
(* A byte is a set of terms and XOR is symmetric difference.  Lit(n) is    *)
(* the byte of value n.  The block cipher is symbolic: byte j of the       *)
(* encryption of block x is the term <<"E", j, x>>, and decryption undoes  *)
(* encryption and the other way round, which SoftAes128 shows of the code; *)
(* nothing else is assumed of AES.                                         *)
(***************************************************************************)
EXTENDS CryptoUtil, SoftAes128

CONSTANTS
  BlockLen,    \* kAesBlockLen
  ByteMod,     \* the values of a byte: 256
  Cap,         \* the length of the two buffers
  Texts,       \* what the application may have in the first buffer
  Ivs,         \* the initial vectors and counters, as tuples of byte values
  Lens,        \* the lengths passed to the calls
  MaxCalls     \* bound: calls before the application starts over

ASSUME SizeAssumption ==
  /\ BlockLen \in Nat \ {0} /\ ByteMod \in Nat \ {0} /\ Cap \in Nat /\ MaxCalls \in Nat
  /\ Lens \subseteq 0..Cap
ASSUME InputAssumption ==
  /\ Texts \subseteq [1..Cap -> Nat]
  /\ Ivs \subseteq [1..BlockLen -> 0 .. ByteMod - 1]
\* A count of padding bytes is a byte: pkcs7Pad refuses a blockSize above 255
ASSUME PaddingAssumption == BlockLen < ByteMod

VARIABLES
  mem,         \* the two buffers
  iv,          \* the initial vector the application uses
  call,        \* the call being made, or the last one
  sealed,      \* ghost: for each buffer, the plaintext it is an encryption of
  before,      \* ghost: mem and sealed when the call began
  calls        \* the number of calls made

vars == <<mem, iv, call, sealed, before, calls>>

Buffers == {"a", "b"}
Blocks == 1..BlockLen

-----------------------------------------------------------------------------
(* Bytes and blocks *)

Lit(n) == {<<"v", n>>}
Junk == {<<"junk", 0>>}

\* dst[i] = a[i] ^ b[i]
xorBlock(x, y) == [j \in DOMAIN x |-> Xor(x[j], y[j])]

Image(f, x) == [j \in Blocks |-> {<<f, j, x>>}]

\* The block f turns into y, if y is such an image
Preimages(f, y) == {x \in {t[3] : t \in {t \in y[1] : t[1] = f}} : y = Image(f, x)}

\* NrfEcb::encrypt
E(x) == IF Preimages("D", x) # {} THEN CHOOSE y \in Preimages("D", x) : TRUE
        ELSE Image("E", x)

\* SoftAes128::decryptBlock
D(y) == IF Preimages("E", y) # {} THEN CHOOSE x \in Preimages("E", y) : TRUE
        ELSE Image("D", y)

\* Mutant of incrementCounter: only the last byte is incremented
CountsInLastByte(ctr) == [ctr EXCEPT ![BlockLen] = (@ + 1) % ByteMod]

\* Big-endian +1 over the whole block: a byte changes when all after it wrap
incrementCounter(ctr) ==
  [i \in Blocks |-> IF \A k \in i + 1 .. BlockLen : ctr[k] = ByteMod - 1
                    THEN (ctr[i] + 1) % ByteMod ELSE ctr[i]]

\* The block (n bytes of it) of buffer b at offset off, and its replacement
BlockAt(b, off, n) == [j \in 1..n |-> mem[b][off + j]]
Put(b, off, bytes) ==
  [mem EXCEPT ![b] = [i \in 1..Cap |->
     IF off < i /\ i <= off + Len(bytes) THEN bytes[i - off] ELSE @[i]]]

-----------------------------------------------------------------------------
\* st is "running" inside a call; ans and text are for the PKCS#7 helpers: what
\* they return and the byte string they were given
NoCall == [op |-> "none", in |-> "a", out |-> "a", len |-> 0, off |-> 0,
           prev |-> <<>>, ctr |-> <<>>, st |-> "Ok", ans |-> 0, text |-> <<>>]

Unknown == [how |-> "none", text |-> <<>>]
NothingSealed == [b \in Buffers |-> Unknown]

\* A text in the first buffer, and whatever was in the second
Filled(t) == [b \in Buffers |-> [i \in 1..Cap |-> IF b = "a" THEN Lit(t[i]) ELSE Junk]]

Init ==
  /\ mem \in {Filled(t) : t \in Texts}
  /\ iv \in Ivs
  /\ call = NoCall
  /\ sealed = NothingSealed
  /\ before = [mem |-> mem, sealed |-> NothingSealed]
  /\ calls = 0

Running == call.st = "running"

\* A call begins.  It answers at once when it is refused or has nothing to do
Enter(op, in, out, len, st) ==
  /\ ~Running /\ calls < MaxCalls
  /\ call' = [NoCall EXCEPT !.op = op, !.in = in, !.out = out, !.len = len, !.st = st,
                            !.prev = [j \in Blocks |-> Lit(iv[j])], !.ctr = iv]
  /\ before' = [mem |-> mem, sealed |-> sealed]
  /\ calls' = calls + 1
  /\ UNCHANGED <<mem, iv, sealed>>

StartOf(len) == IF len = 0 THEN "Ok" ELSE "running"

\* CryptoEngine::aesCbcEncrypt and ::aesCbcDecrypt
aesCbc(op, in, out, len) ==
  Enter(op, in, out, len, IF len % BlockLen # 0 THEN "BadParam" ELSE StartOf(len))

aesCtr(in, out, len) == Enter("ctr", in, out, len, StartOf(len))

\* A block was written to out: the loop goes on or the call returns Ok
Advance(n, prev, ctr) ==
  LET done == call.off + n >= call.len IN
  /\ call' = [call EXCEPT !.off = @ + n, !.prev = prev, !.ctr = ctr,
                          !.st = IF done THEN "Ok" ELSE @]
  /\ sealed' = [sealed EXCEPT ![call.out] =
       IF done /\ call.op # "cbcDec"
       THEN [how |-> call.op, text |-> SubSeq(before.mem[call.in], 1, call.len)] ELSE Unknown]
  /\ UNCHANGED <<iv, before, calls>>

\* Mutant of CbcEncryptBlock: the chain goes on with the plaintext block
ChainsOnInput ==
  LET x == xorBlock(BlockAt(call.in, call.off, BlockLen), call.prev) IN
  /\ Running /\ call.op = "cbcEnc"
  /\ mem' = Put(call.out, call.off, E(x))
  /\ Advance(BlockLen, BlockAt(call.in, call.off, BlockLen), call.ctr)

\* One pass of the loop of OnChipBackend::aes128CbcEncrypt
CbcEncryptBlock ==
  LET x == xorBlock(BlockAt(call.in, call.off, BlockLen), call.prev) IN
  /\ Running /\ call.op = "cbcEnc"
  /\ mem' = Put(call.out, call.off, E(x))
  /\ Advance(BlockLen, E(x), call.ctr)

\* One pass of the loop of OnChipBackend::aes128CbcDecrypt: the block chained on
\* is read from in after out was written
CbcDecryptBlock ==
  LET block == D(BlockAt(call.in, call.off, BlockLen)) IN
  /\ Running /\ call.op = "cbcDec"
  /\ mem' = Put(call.out, call.off, xorBlock(block, call.prev))
  /\ Advance(BlockLen, [j \in Blocks |-> mem'[call.in][call.off + j]], call.ctr)

\* Mutant of CtrChunk: the last block is written whole
WholeBlock == BlockLen

\* The bytes one pass of aes128Ctr writes
CtrChunk == IF call.len - call.off > BlockLen THEN BlockLen ELSE call.len - call.off

\* One pass of the loop of OnChipBackend::aes128Ctr
CtrBlock ==
  LET ks == E([j \in Blocks |-> Lit(call.ctr[j])]) IN
  /\ Running /\ call.op = "ctr"
  /\ mem' = Put(call.out, call.off,
                [j \in 1..CtrChunk |-> Xor(mem[call.in][call.off + j], ks[j])])
  /\ Advance(CtrChunk, call.prev, incrementCounter(call.ctr))

\* NrfEcb::encrypt fails: aes128CbcEncrypt passes out + off to it, aes128Ctr a
\* buffer of its own
EcbFails ==
  /\ Running /\ call.op \in {"cbcEnc", "ctr"}
  /\ call' = [call EXCEPT !.st = "InternalError"]
  /\ \/ mem' = mem
     \/ call.op = "cbcEnc" /\ mem' = Put(call.out, call.off, [j \in Blocks |-> Junk])
  /\ sealed' = [sealed EXCEPT ![call.out] = Unknown]
  /\ UNCHANGED <<iv, before, calls>>

-----------------------------------------------------------------------------
(* The helpers, on bytes the application can read as numbers *)

ByteVals == 0 .. ByteMod - 1
IsText(bytes) == \A i \in 1..Len(bytes) : \E n \in ByteVals : bytes[i] = Lit(n)

TextOf(bytes) == [i \in 1..Len(bytes) |-> CHOOSE n \in ByteVals : bytes[i] = Lit(n)]

\* A helper is called on the first len bytes of in, which are the byte string s
Helper(op, in, out, len, s, ans, off) ==
  /\ ~Running
  /\ call' = [NoCall EXCEPT !.op = op, !.in = in, !.out = out, !.len = len,
                            !.off = off, !.ans = ans, !.text = s]
  /\ before' = [mem |-> mem, sealed |-> sealed]
  /\ UNCHANGED iv

\* pkcs7Pad(in, len, out, Cap, BlockLen) of a text
Pad(in, out, len) ==
  LET s == TextOf(SubSeq(mem[in], 1, len))
      p == pkcs7Pad(s, Cap, BlockLen)
  IN /\ calls < MaxCalls
     /\ IsText(SubSeq(mem[in], 1, len))
     /\ Helper("pad", in, out, len, s, Len(p), Len(p))
     /\ mem' = Put(out, 0, [i \in 1..Len(p) |-> Lit(p[i])])
     /\ sealed' = IF p = <<>> THEN sealed ELSE [sealed EXCEPT ![out] = Unknown]
     /\ calls' = calls + 1

\* pkcs7Unpad(in, len, BlockLen), the last thing done with the data: of a text,
\* or before any other call of a buffer with any contents
Unpad(in, len) ==
  LET bytes == SubSeq(mem[in], 1, len) IN
  /\ call.op # "unpad"
  /\ IsText(bytes) \/ calls = 0
  /\ \E s \in IF IsText(bytes) THEN {TextOf(bytes)} ELSE [1..len -> ByteVals] :
       Helper("unpad", in, in, len, s, pkcs7Unpad(s, BlockLen), 0)
  /\ calls' = MaxCalls
  /\ UNCHANGED <<mem, sealed>>

\* The application starts over with other data
StartOver ==
  /\ ~Running /\ calls = MaxCalls
  /\ mem' \in {Filled(t) : t \in Texts}
  /\ iv' \in Ivs
  /\ call' = NoCall
  /\ sealed' = NothingSealed
  /\ before' = [mem |-> mem', sealed |-> NothingSealed]
  /\ calls' = 0

Start ==
  \E in \in Buffers, len \in Lens :
    \/ Unpad(in, len)
    \/ \E out \in Buffers :
         \/ aesCbc("cbcEnc", in, out, len) \/ aesCbc("cbcDec", in, out, len)
         \/ aesCtr(in, out, len) \/ Pad(in, out, len)

Next ==
  \/ Start \/ StartOver
  \/ CbcEncryptBlock \/ CbcDecryptBlock \/ CtrBlock \/ EcbFails

Spec == Init /\ [][Next]_vars

-----------------------------------------------------------------------------
(* The modes as NIST SP 800-38A defines them *)

\* The i-th block of a byte string
BlockOf(text, i) == [j \in Blocks |-> text[(i - 1) * BlockLen + j]]
IvBlock == [j \in Blocks |-> Lit(iv[j])]

\* C_i = E(P_i XOR C_{i-1}), with C_0 the initial vector
CbcCipherBlock(text, n) ==
  LET C[i \in 0..n] == IF i = 0 THEN IvBlock ELSE E(xorBlock(BlockOf(text, i), C[i - 1]))
  IN C[n]

\* P_i = D(C_i) XOR C_{i-1}
CbcPlainBlock(text, n) ==
  xorBlock(D(BlockOf(text, n)), IF n = 1 THEN IvBlock ELSE BlockOf(text, n - 1))

\* A counter block as a number and back, most significant byte first
Weight[j \in 1..BlockLen] == IF j = BlockLen THEN 1 ELSE ByteMod * Weight[j + 1]
NumberOf(ctr) ==
  LET sum[j \in 0..BlockLen] == IF j = 0 THEN 0 ELSE sum[j - 1] + ctr[j] * Weight[j]
  IN sum[BlockLen]
CounterOf(n) == [j \in Blocks |-> (n \div Weight[j]) % ByteMod]

\* The text XOR the encryptions of the counter, the counter + 1, ...
CtrBlockOf(text, n) ==
  xorBlock(BlockOf(text, n),
           E([j \in Blocks |-> Lit(CounterOf(NumberOf(iv) + n - 1)[j])]))

\* The i-th byte the call is to write
Expected(i) ==
  LET text == before.mem[call.in]
      n == (i - 1) \div BlockLen + 1
      block == CASE call.op = "cbcEnc" -> CbcCipherBlock(text, n)
                 [] call.op = "cbcDec" -> CbcPlainBlock(text, n)
                 [] call.op = "ctr"    -> CtrBlockOf(text, n)
  IN block[i - (n - 1) * BlockLen]

-----------------------------------------------------------------------------
(* Properties *)

IsCipher == call.op \in {"cbcEnc", "cbcDec", "ctr"}

\* API_REFERENCE.md 560 leaves overlapping buffers to the backend: this one
\* decrypts CBC in place wrongly from the second block on
OverlapsBadly == call.op = "cbcDec" /\ call.in = call.out /\ call.len > BlockLen

\* At every block of every call, what has been written is what the mode defines
\* over the input as it was before the call, in place too (but for CBC
\* decryption), up to the last ragged block and over every carry and wrap of the
\* counter; a call cut short by the ECB peripheral leaves a right prefix
ModeIsStandard ==
  IsCipher /\ ~OverlapsBadly => \A i \in 1..call.off : mem[call.out][i] = Expected(i)

\* A call writes its buffers in order and never past the length it was given:
\* beyond the current offset (or the block the ECB peripheral failed on) out is
\* as before the call, and the other buffer does not change at all
WritesOnlyItsRange ==
  \A b \in Buffers : \A i \in 1..Cap :
    \/ mem[b][i] = before.mem[b][i]
    \/ /\ b = call.out /\ (IsCipher => i <= call.len)
       /\ i <= call.off + IF call.st = "InternalError" THEN BlockLen ELSE 0

\* What was encrypted comes back: CBC decryption of a CBC ciphertext and CTR of a
\* CTR ciphertext, of the whole or of the first blocks of it, give the plaintext
OpensToPlaintext ==
  LET s == before.sealed[call.in]
      undoes == \/ call.op = "cbcDec" /\ s.how = "cbcEnc"
                \/ call.op = "ctr" /\ s.how = "ctr"
  IN undoes /\ call.st = "Ok" /\ call.len <= Len(s.text) /\ ~OverlapsBadly
       => SubSeq(mem[call.out], 1, call.len) = SubSeq(s.text, 1, call.len)

\* CryptoUtil.h 16-24: pkcs7Pad writes the padding of the message and refuses only
\* when there is no room for it; pkcs7Unpad answers the length of the message a
\* padding is of, and 0 for anything else (and for the padding of no message)
Pkcs7Exact ==
  /\ call.op = "pad" =>
       IF call.ans = 0 THEN call.len + BlockLen > Cap
       ELSE LET p == SubSeq(mem[call.out], 1, call.ans) IN
            /\ IsText(p)
            /\ IsPaddingOf(TextOf(p), call.len, BlockLen)
            /\ SubSeq(TextOf(p), 1, call.len) = call.text
  /\ call.op = "unpad" =>
       /\ \A n \in 0..call.len : IsPaddingOf(call.text, n, BlockLen) => call.ans = n
       /\ call.ans # 0 => IsPaddingOf(call.text, call.ans, BlockLen)

\* A call runs on the AES of FIPS-197: SoftAes128's 256-entry table, written by
\* hand, is that standard's S-box, its multiplication the field's, and
\* encryptBlock, which is the cipher of the ECB peripheral, gives its example
AesIsFips == IsCipher => TableIsFips /\ ExampleIsFips

\* What D stands for in a CBC decryption is the inverse of what E stands for:
\* decryptBlock undoes encryptBlock step by step, in the reverse order, and
\* encryptBlock undoes decryptBlock
DecryptUndoesEncrypt == call.op = "cbcDec" => InverseUndoes
=============================================================================
