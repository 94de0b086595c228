--------------------------- MODULE SoftAeadProofs ---------------------------
(***************************************************************************)
(* Proofs about SoftAead, for any sets of keys, nonces, associated data    *)
(* and plaintexts, any block lengths and any number of packets.            *)
(***************************************************************************)
EXTENDS SoftAead, SequenceTheorems, TLAPS

\* The keystream bytes there are, and a byte masked by some of them
Mask == Keys \X Nonces \X Nat \X Nat
SymByte == [v : Nat, ks : SUBSET Mask]

\* aeadPoly1305 has room for every packet of the application, cut short or not.
\* GCM hashes block by block and has no such limit
EveryPacketFits ==
  \A aad \in Aads, p \in Plains : \A n \in 0..Len(p) :
    Len(aad) + PadLen(Len(aad)) + n + PadLen(n) + MacBlock <= StackBuf

Room == alg = "gcm" \/ EveryPacketFits

\* What is kept of a sealed packet is what the cipher makes of it
IsPacket(s) ==
  /\ s.key \in Keys /\ s.nonce \in Nonces /\ s.aad \in Aads /\ s.plain \in Plains
  /\ s.ct = Xor(s.key, s.nonce, Clear(s.plain))
  /\ Room => s.tag = TagOf(s.key, s.nonce, s.aad, s.ct)

Types ==
  /\ alg \in Algs
  /\ mem \in [Bufs -> [1..BufLen -> SymByte]]

AeadInv ==
  /\ Types
  /\ \A s \in sealed : IsPacket(s)
  /\ Room => OpensWhatWasSealed

-----------------------------------------------------------------------------
(* The keystream *)

\* The sizes, one by one.
LEMMA Sizes ==
  /\ MacBlock \in Nat \ {0} /\ BufLen \in Nat /\ StackBuf \in Nat
  /\ CtrMod \in Nat /\ BufLen + 2 < CtrMod
  /\ alg \in Algs => XorBlock[alg] \in Nat \ {0}
  /\ \A a \in Aads : a \in Seq(Nat)
  /\ \A p \in Plains : p \in Seq(Nat) /\ Len(p) <= BufLen
  BY BlockAssumption, CounterAssumption, InputAssumption

\* Quotient and remainder.
LEMMA DivMod ==
  ASSUME NEW a \in Nat, NEW b \in Nat \ {0}
  PROVE  /\ a \div b \in Nat /\ (a % b) \in 0 .. b - 1
         /\ (a \div b) * b + (a % b) = a
  <1>1. a \div b \in Nat
    OBVIOUS
  <1>2. (a % b) \in 0 .. b - 1
    OBVIOUS
  <1>3. (a \div b) * b + (a % b) = a
    OBVIOUS
  <1> QED BY <1>1, <1>2, <1>3

\* A quotient is no larger than what is divided.
LEMMA DivLeq ==
  ASSUME NEW a \in Nat, NEW b \in Nat \ {0}
  PROVE  a \div b <= a
  <1>1. PICK q \in Nat, r \in Nat : q = a \div b /\ q * b + r = a
    BY DivMod
  <1>2. q * 1 <= q * b
    OBVIOUS
  <1> QED BY <1>1, <1>2

\* The i-th keystream byte: its block counter does not wrap, so it is never the
\* one of the block that masks the tag.
LEMMA StreamFacts ==
  ASSUME alg \in Algs, NEW k \in Keys, NEW n \in Nonces, NEW i \in 1..BufLen
  PROVE  /\ KeyStream(k, n, i) \in Mask
         /\ KeyStream(k, n, i)[3] = FirstBlock + ((i - 1) \div XorBlock[alg])
         /\ KeyStream(k, n, i)[4] = (i - 1) % XorBlock[alg]
         /\ KeyStream(k, n, i)[3] # TagBlock
  <1>1. PICK b \in Nat \ {0} : b = XorBlock[alg]
    BY Sizes
  <1>2. i - 1 \in Nat /\ i - 1 < BufLen
    BY Sizes
  <1>3. PICK q \in Nat, r \in Nat :
          q = (i - 1) \div b /\ r = (i - 1) % b /\ q <= i - 1
    <2>1. PICK x \in Nat : x = i - 1
      BY <1>2
    <2>2. x \div b \in Nat /\ x % b \in 0 .. b - 1 /\ x \div b <= x
      BY DivMod, DivLeq
    <2> QED BY <2>1, <2>2
  <1>4. PICK f \in Nat : f = FirstBlock /\ f \in {1, 2} /\ TagBlock = f - 1
    BY DEF FirstBlock, TagBlock, Algs
  <1>5. f + q \in 0 .. CtrMod - 1
    BY <1>2, <1>3, <1>4, Sizes
  <1>6. (f + q) % CtrMod = f + q
    BY <1>5, Sizes
  <1>7. KeyStream(k, n, i) = <<k, n, f + q, r>>
    BY <1>1, <1>3, <1>4, <1>6 DEF KeyStream
  <1> QED BY <1>1, <1>3, <1>4, <1>7 DEF Mask

\* Different places have different keystream bytes.
LEMMA StreamsDiffer ==
  ASSUME alg \in Algs, NEW k \in Keys, NEW n \in Nonces,
         NEW i \in 1..BufLen, NEW j \in 1..BufLen, i # j
  PROVE  KeyStream(k, n, i) # KeyStream(k, n, j)
  <1> SUFFICES ASSUME KeyStream(k, n, i) = KeyStream(k, n, j) PROVE FALSE
    OBVIOUS
  <1>1. PICK b \in Nat \ {0}, x \in Nat, y \in Nat :
          b = XorBlock[alg] /\ x = i - 1 /\ y = j - 1 /\ x # y
    BY Sizes
  <1>2. PICK qx \in Nat, rx \in Nat : qx = x \div b /\ rx = x % b /\ qx * b + rx = x
    <2>1. x \div b \in Nat /\ x % b \in 0 .. b - 1 /\ (x \div b) * b + (x % b) = x
      BY DivMod
    <2> QED BY <2>1
  <1>3. PICK qy \in Nat, ry \in Nat : qy = y \div b /\ ry = y % b /\ qy * b + ry = y
    <2>1. y \div b \in Nat /\ y % b \in 0 .. b - 1 /\ (y \div b) * b + (y % b) = y
      BY DivMod
    <2> QED BY <2>1
  <1>4. /\ KeyStream(k, n, i)[3] = FirstBlock + qx /\ KeyStream(k, n, i)[4] = rx
        /\ KeyStream(k, n, j)[3] = FirstBlock + qy /\ KeyStream(k, n, j)[4] = ry
    BY <1>1, <1>2, <1>3, StreamFacts
  <1>5. FirstBlock \in Nat
    BY DEF FirstBlock
  <1>6. qx = qy /\ rx = ry
    BY <1>4, <1>5
  <1> QED BY <1>1, <1>2, <1>3, <1>6

-----------------------------------------------------------------------------
(* Bytes and buffers *)

\* A plaintext as bytes.
LEMMA ClearFacts ==
  ASSUME NEW p \in Seq(Nat)
  PROVE  /\ Clear(p) \in Seq(SymByte) /\ Len(Clear(p)) = Len(p)
         /\ \A i \in 1..Len(p) : Clear(p)[i] = [v |-> p[i], ks |-> {}]
  <1>1. \A i \in 1..Len(p) : [v |-> p[i], ks |-> {}] \in SymByte
    BY DEF SymByte
  <1>2. Len(p) \in Nat
    OBVIOUS
  <1> QED BY <1>1, <1>2 DEF Clear

\* A keystream byte applied twice is gone.
LEMMA XorByteFacts ==
  ASSUME NEW x \in SymByte, NEW s \in Mask
  PROVE  /\ XorByte(x, s) \in SymByte
         /\ XorByte(XorByte(x, s), s) = x
         /\ x.ks = {} => XorByte(x, s).ks = {s}
  <1>1. ASSUME NEW b \in SymByte
        PROVE  /\ XorByte(b, s) \in SymByte /\ XorByte(b, s).v = b.v
               /\ XorByte(b, s).ks = (b.ks \ {s}) \cup ({s} \ b.ks)
    <2>1. b.v \in Nat /\ b.ks \in SUBSET Mask /\ b = [v |-> b.v, ks |-> b.ks]
      BY DEF SymByte
    <2>2. PICK e : e = (b.ks \ {s}) \cup ({s} \ b.ks)
      OBVIOUS
    <2>3. XorByte(b, s) = [v |-> b.v, ks |-> e]
      BY <2>1, <2>2 DEF XorByte
    <2>4. e \in SUBSET Mask
      BY <2>1, <2>2
    <2>5. [v |-> b.v, ks |-> e] \in SymByte
      BY <2>1, <2>4 DEF SymByte
    <2> QED BY <2>2, <2>3, <2>5
  <1>2. PICK y \in SymByte :
          y = XorByte(x, s) /\ y.v = x.v /\ y.ks = (x.ks \ {s}) \cup ({s} \ x.ks)
    BY <1>1
  <1>3. PICK z \in SymByte :
          z = XorByte(y, s) /\ z.v = x.v /\ z.ks = (y.ks \ {s}) \cup ({s} \ y.ks)
    BY <1>1, <1>2
  <1>4. z = x
    <2>1. z.ks = x.ks
      BY <1>2, <1>3
    <2> QED BY <1>3, <2>1 DEF SymByte
  <1>5. x.ks = {} => y.ks = {s}
    BY <1>2
  <1> QED BY <1>2, <1>3, <1>4, <1>5

\* A message and the keystream.
LEMMA XorFacts ==
  ASSUME alg \in Algs, NEW k \in Keys, NEW n \in Nonces, NEW in \in Seq(SymByte),
         Len(in) <= BufLen
  PROVE  /\ Xor(k, n, in) \in Seq(SymByte) /\ Len(Xor(k, n, in)) = Len(in)
         /\ \A i \in 1..Len(in) : Xor(k, n, in)[i] = XorByte(in[i], KeyStream(k, n, i))
  <1>1. Len(in) \in Nat
    OBVIOUS
  <1>2. ASSUME NEW i \in 1..Len(in) PROVE XorByte(in[i], KeyStream(k, n, i)) \in SymByte
    <2>1. i \in 1..BufLen /\ in[i] \in SymByte
      BY <1>1, Sizes
    <2> QED BY <2>1, StreamFacts, XorByteFacts
  <1> QED BY <1>1, <1>2 DEF Xor

\* Decryption undoes encryption.
LEMMA XorTwice ==
  ASSUME alg \in Algs, NEW k \in Keys, NEW n \in Nonces, NEW in \in Seq(SymByte),
         Len(in) <= BufLen
  PROVE  Xor(k, n, Xor(k, n, in)) = in
  <1>1. PICK x \in Seq(SymByte) :
          /\ x = Xor(k, n, in) /\ Len(x) = Len(in)
          /\ \A i \in 1..Len(in) : x[i] = XorByte(in[i], KeyStream(k, n, i))
    BY XorFacts
  <1>2. PICK y \in Seq(SymByte) :
          /\ y = Xor(k, n, x) /\ Len(y) = Len(x)
          /\ \A i \in 1..Len(x) : y[i] = XorByte(x[i], KeyStream(k, n, i))
    BY <1>1, XorFacts
  <1>3. ASSUME NEW i \in 1..Len(y) PROVE y[i] = in[i]
    <2>1. i \in 1..Len(in) /\ i \in 1..BufLen /\ in[i] \in SymByte
      BY <1>1, <1>2, Sizes
    <2>2. XorByte(XorByte(in[i], KeyStream(k, n, i)), KeyStream(k, n, i)) = in[i]
      BY <2>1, StreamFacts, XorByteFacts
    <2> QED BY <1>1, <1>2, <2>1, <2>2
  <1>4. y = in
    BY <1>1, <1>2, <1>3, SeqEqual
  <1> QED BY <1>1, <1>2, <1>4

\* A buffer that was written: the other one is as before, and what was written
\* is read back.
LEMMA PutFacts ==
  ASSUME NEW m \in [Bufs -> [1..BufLen -> SymByte]], NEW b \in Bufs,
         NEW data \in Seq(SymByte), Len(data) <= BufLen
  PROVE  /\ Put(m, b, data) \in [Bufs -> [1..BufLen -> SymByte]]
         /\ \A o \in Bufs : o # b => Put(m, b, data)[o] = m[o]
         /\ Get(Put(m, b, data), b, Len(data)) = data
  <1>1. Len(data) \in Nat /\ \A i \in 1..Len(data) : data[i] \in SymByte
    OBVIOUS
  <1> DEFINE buf == [i \in 1..BufLen |-> IF i <= Len(data) THEN data[i] ELSE m[b][i]]
  <1>2. buf \in [1..BufLen -> SymByte]
    BY <1>1, Sizes
  <1>3. Put(m, b, data) = [m EXCEPT ![b] = buf]
    BY DEF Put
  <1>4. \A i \in 1..Len(data) : buf[i] = data[i]
    BY <1>1, Sizes
  <1> HIDE DEF buf
  <1>5. SubSeq(buf, 1, Len(data)) = data
    <2>1. Len(data) <= BufLen /\ BufLen \in Nat
      BY Sizes
    <2>2. buf \in Seq(SymByte) /\ Len(buf) = BufLen
      BY <1>2, <2>1
    <2>3. /\ SubSeq(buf, 1, Len(data)) \in Seq(SymByte)
          /\ Len(SubSeq(buf, 1, Len(data))) = Len(data)
          /\ \A i \in 1..Len(data) : SubSeq(buf, 1, Len(data))[i] = buf[i]
      BY <1>1, <2>1, <2>2, SubSeqProperties
    <2> QED BY <1>1, <1>4, <2>3, SeqEqual
  <1> QED BY <1>2, <1>3, <1>5 DEF Get

-----------------------------------------------------------------------------
(* What the tag is computed over *)

\* The padding of a part.
LEMMA PadFacts ==
  ASSUME NEW len \in Nat
  PROVE  PadLen(len) \in Nat
  <1>1. PICK b \in Nat \ {0}, r \in Nat : b = MacBlock /\ r = len % b /\ r < b
    <2>1. PICK b \in Nat \ {0} : b = MacBlock
      BY Sizes
    <2>2. (len % b) \in 0 .. b - 1
      BY DivMod
    <2> QED BY <2>1, <2>2
  <1>2. b - r \in Nat
    BY <1>1
  <1>3. ((b - r) % b) \in 0 .. b - 1
    BY <1>2, DivMod
  <1>4. PadLen(len) = (b - r) % b
    BY <1>1 DEF PadLen
  <1> QED BY <1>3, <1>4

\* The length of a padded part.
LEMMA PaddedLen ==
  ASSUME NEW S, NEW s \in Seq(S)
  PROVE  \E n \in Nat : n = Len(s) + PadLen(Len(s)) /\ Len(s) <= n
  <1>1. PICK l \in Nat : l = Len(s)
    OBVIOUS
  <1>2. PICK d \in Nat : d = PadLen(l)
    BY PadFacts
  <1>3. l + d \in Nat /\ l <= l + d
    OBVIOUS
  <1> QED BY <1>1, <1>2, <1>3

\* w is the p bytes of x and the q bytes of y.
IsJoin(w, x, p, y, q) ==
  /\ w \in Seq(SymByte) /\ Len(w) = p + q
  /\ \A i \in 1..p : w[i] = x[i]
  /\ \A i \in 1..q : w[p + i] = y[i]

\* m is the p bytes of x, the q bytes of y and the two bytes of z.
IsJoinOfThree(m, x, p, y, q, z) ==
  /\ m \in Seq(SymByte) /\ Len(m) = p + q + 2
  /\ \A i \in 1..p : m[i] = x[i]
  /\ \A i \in 1..q : m[p + i] = y[i]
  /\ m[p + q + 1] = z[1] /\ m[p + q + 2] = z[2]

\* Two sequences, one after the other.
LEMMA Joined ==
  ASSUME NEW x \in Seq(SymByte), NEW y \in Seq(SymByte),
         NEW p \in Nat, Len(x) = p, NEW q \in Nat, Len(y) = q
  PROVE  IsJoin(x \o y, x, p, y, q)
  BY DEF IsJoin

\* Three sequences, one after the other.
LEMMA JoinedThrice ==
  ASSUME NEW m, NEW w, NEW r \in Nat, NEW z, IsJoin(m, w, r, z, 2),
         NEW x, NEW p \in Nat, NEW y, NEW q \in Nat, IsJoin(w, x, p, y, q), r = p + q
  PROVE  IsJoinOfThree(m, x, p, y, q, z)
  <1>1. r = p + q
    OBVIOUS
  <1>2. /\ m \in Seq(SymByte) /\ Len(m) = r + 2
        /\ \A i \in 1..r : m[i] = w[i]
        /\ \A i \in 1..2 : m[r + i] = z[i]
    BY DEF IsJoin
  <1>3. \A i \in 1..p : w[i] = x[i]
    BY DEF IsJoin
  <1>4. \A i \in 1..q : w[p + i] = y[i]
    BY DEF IsJoin
  <1>5. m[r + 1] = z[1] /\ m[r + 2] = z[2]
    BY <1>2
  <1>6. \A i \in 1..p : m[i] = x[i]
    BY <1>1, <1>2, <1>3
  <1>7. \A i \in 1..q : m[p + i] = y[i]
    <2> TAKE i \in 1..q
    <2>1. p + i \in 1..r
      BY <1>1
    <2> QED BY <1>2, <1>4, <2>1
  <1> QED BY <1>1, <1>2, <1>5, <1>6, <1>7 DEF IsJoinOfThree

\* A padded part starts with the part.
LEMMA PaddedFacts ==
  ASSUME NEW data \in Seq(SymByte)
  PROVE  /\ Padded(data) \in Seq(SymByte)
         /\ Len(Padded(data)) = Len(data) + PadLen(Len(data))
         /\ \A i \in 1..Len(data) : Padded(data)[i] = data[i]
  <1>1. PICK n \in Nat : n = PadLen(Len(data))
    BY PadFacts
  <1>2. Zero \in SymByte
    BY DEF Zero, SymByte
  <1>3. PICK pad \in Seq(SymByte) : pad = [i \in 1..n |-> Zero] /\ Len(pad) = n
    <2>1. [i \in 1..n |-> Zero] \in Seq(SymByte) /\ Len([i \in 1..n |-> Zero]) = n
      BY <1>2
    <2> QED BY <2>1
  <1>4. Padded(data) = data \o pad
    BY <1>1, <1>3 DEF Padded
  <1>5. Len(data) \in Nat
    OBVIOUS
  <1>6. IsJoin(Padded(data), data, Len(data), pad, n)
    BY <1>3, <1>4, <1>5, Joined
  <1> QED BY <1>1, <1>6 DEF IsJoin

\* m is associated data a and ciphertext c, padded to p and q bytes, and the
\* length block.
HasParts(m, a, c, p, q) ==
  /\ Len(m) = p + q + 2
  /\ \A i \in 1..Len(a) : m[i] = [v |-> a[i], ks |-> {}]
  /\ \A i \in 1..Len(c) : m[p + i] = c[i]
  /\ m[p + q + 1] = [v |-> Len(a), ks |-> {}]
  /\ m[p + q + 2] = [v |-> Len(c), ks |-> {}]

\* Where the parts of the authenticated input are.
LEMMA MacInputParts ==
  ASSUME NEW a \in Seq(Nat), NEW c \in Seq(SymByte),
         NEW P \in Nat, P = Len(a) + PadLen(Len(a)),
         NEW Q \in Nat, Q = Len(c) + PadLen(Len(c))
  PROVE  MacInput(a, c) \in Seq(SymByte) /\ HasParts(MacInput(a, c), a, c, P, Q)
  <1>1. PICK A \in Seq(SymByte) :
          /\ A = Padded(Clear(a)) /\ Len(A) = P
          /\ \A i \in 1..Len(a) : A[i] = [v |-> a[i], ks |-> {}]
    BY ClearFacts, PaddedFacts, SMTT(30)
  <1>2. PICK C \in Seq(SymByte) :
          C = Padded(c) /\ Len(C) = Q /\ \A i \in 1..Len(c) : C[i] = c[i]
    BY PaddedFacts
  <1>3. PICK la \in Nat, lc \in Nat : la = Len(a) /\ lc = Len(c) /\ la <= P /\ lc <= Q
    <2>1. Len(a) \in Nat /\ Len(c) \in Nat
      OBVIOUS
    <2>2. Len(a) <= P /\ Len(c) <= Q
      BY PaddedLen
    <2> QED BY <2>1, <2>2
  <1>4. PICK L \in Seq(SymByte) :
          /\ L = Clear(<<la, lc>>) /\ Len(L) = 2
          /\ L[1] = [v |-> la, ks |-> {}] /\ L[2] = [v |-> lc, ks |-> {}]
    <2>1. PICK l \in Seq(Nat) : l = <<la, lc>> /\ Len(l) = 2 /\ l[1] = la /\ l[2] = lc
      <3>1. <<la, lc>> \in Seq(Nat)
        OBVIOUS
      <3> QED BY <3>1
    <2>2. /\ Clear(l) \in Seq(SymByte) /\ Len(Clear(l)) = 2
          /\ \A i \in 1..2 : Clear(l)[i] = [v |-> l[i], ks |-> {}]
      BY <2>1, ClearFacts
    <2>3. Clear(l)[1] = [v |-> la, ks |-> {}] /\ Clear(l)[2] = [v |-> lc, ks |-> {}]
      BY <2>1, <2>2
    <2> QED BY <2>1, <2>2, <2>3
  <1>5. PICK M \in Seq(SymByte) :
          /\ M = (A \o C) \o L /\ Len(M) = P + Q + 2
          /\ \A i \in 1..P : M[i] = A[i]
          /\ \A i \in 1..Q : M[P + i] = C[i]
          /\ M[P + Q + 1] = L[1] /\ M[P + Q + 2] = L[2]
    <2>1. A \in Seq(SymByte) /\ Len(A) = P /\ C \in Seq(SymByte) /\ Len(C) = Q
      BY <1>1, <1>2
    <2>2. IsJoin(A \o C, A, P, C, Q)
      BY <2>1, Joined
    <2>3. A \o C \in Seq(SymByte) /\ Len(A \o C) = P + Q
      BY <2>2 DEF IsJoin
    <2>4. L \in Seq(SymByte) /\ Len(L) = 2 /\ 2 \in Nat /\ P + Q \in Nat
      BY <1>4
    <2>5. IsJoin((A \o C) \o L, A \o C, P + Q, L, 2)
      BY <2>3, <2>4, Joined
    <2>6. PICK r \in Nat : r = P + Q
      BY <2>4
    <2>7. PICK m, w : IsJoin(m, w, r, L, 2) /\ IsJoin(w, A, P, C, Q)
                      /\ m = (A \o C) \o L
      BY <2>2, <2>5, <2>6
    <2>8. IsJoinOfThree(m, A, P, C, Q, L)
      BY <2>6, <2>7, JoinedThrice
    <2> QED BY <2>7, <2>8 DEF IsJoinOfThree
  <1>6. M = MacInput(a, c)
    BY <1>1, <1>2, <1>3, <1>4, <1>5 DEF MacInput
  <1>7. \A i \in 1..Len(a) : M[i] = [v |-> a[i], ks |-> {}]
    <2> TAKE i \in 1..Len(a)
    <2>1. i \in 1..P
      BY <1>3
    <2> QED BY <1>1, <1>5, <2>1
  <1>8. \A i \in 1..Len(c) : M[P + i] = c[i]
    <2> TAKE i \in 1..Len(c)
    <2>1. i \in 1..Q
      BY <1>3
    <2> QED BY <1>2, <1>5, <2>1
  <1> QED BY <1>3, <1>4, <1>5, <1>6, <1>7, <1>8 DEF HasParts

\* The padding is not ambiguous: what is authenticated determines the associated
\* data and the ciphertext, since the length block ends it.
LEMMA MacInputInjective ==
  ASSUME NEW a \in Seq(Nat), NEW c \in Seq(SymByte),
         NEW x \in Seq(Nat), NEW y \in Seq(SymByte),
         MacInput(a, c) = MacInput(x, y)
  PROVE  a = x /\ c = y
  <1>1. PICK P \in Nat, Q \in Nat :
          P = Len(a) + PadLen(Len(a)) /\ Q = Len(c) + PadLen(Len(c))
    BY PaddedLen
  <1>2. PICK R \in Nat, S \in Nat :
          R = Len(x) + PadLen(Len(x)) /\ S = Len(y) + PadLen(Len(y))
    BY PaddedLen
  <1>3. PICK M \in Seq(SymByte) : M = MacInput(a, c) /\ HasParts(M, a, c, P, Q)
    BY <1>1, MacInputParts
  <1>4. HasParts(M, x, y, R, S)
    BY <1>2, <1>3, MacInputParts
  <1>5. P + Q = R + S
    BY <1>3, <1>4 DEF HasParts
  <1>6. M[P + Q + 1].v = Len(a) /\ M[P + Q + 2].v = Len(c)
    BY <1>3 DEF HasParts
  <1>7. M[P + Q + 1].v = Len(x) /\ M[P + Q + 2].v = Len(y)
    BY <1>4, <1>5, SMTT(30) DEF HasParts
  <1>8. Len(a) = Len(x) /\ Len(c) = Len(y)
    BY <1>6, <1>7
  <1>9. P = R
    BY <1>1, <1>2, <1>8
  <1>10. a = x
    <2>1. ASSUME NEW i \in 1..Len(a) PROVE a[i] = x[i]
      <3>1. M[i] = [v |-> a[i], ks |-> {}]
        BY <1>3 DEF HasParts
      <3>2. M[i] = [v |-> x[i], ks |-> {}]
        BY <1>4, <1>8 DEF HasParts
      <3> QED BY <3>1, <3>2
    <2> QED BY <1>8, <2>1, SeqEqual
  <1>11. c = y
    <2>1. ASSUME NEW i \in 1..Len(c) PROVE c[i] = y[i]
      <3>1. M[P + i] = c[i]
        BY <1>3 DEF HasParts
      <3>2. M[P + i] = y[i]
        BY <1>4, <1>8, <1>9 DEF HasParts
      <3> QED BY <3>1, <3>2
    <2> QED BY <1>8, <2>1, SeqEqual
  <1> QED BY <1>10, <1>11

\* Tags are equal when all that went into them is.
LEMMA TagInjective ==
  ASSUME NEW k, NEW n, NEW a \in Seq(Nat), NEW c \in Seq(SymByte),
         NEW l, NEW m, NEW x \in Seq(Nat), NEW y \in Seq(SymByte),
         TagOf(k, n, a, c) = TagOf(l, m, x, y)
  PROVE  k = l /\ n = m /\ a = x /\ c = y
  <1>1. k = l /\ n = m /\ MacInput(a, c) = MacInput(x, y)
    BY DEF TagOf
  <1> QED BY <1>1, MacInputInjective

\* The tag of no packet is the tag of none that was sealed.
LEMMA NoTagIsNone ==
  ASSUME NEW k, NEW n, NEW a \in Seq(Nat), NEW c \in Seq(SymByte)
  PROVE  TagOf(k, n, a, c) # NoTag
  <1>1. PICK P \in Nat, Q \in Nat :
          P = Len(a) + PadLen(Len(a)) /\ Q = Len(c) + PadLen(Len(c))
    BY PaddedLen
  <1>2. Len(MacInput(a, c)) = P + Q + 2
    BY <1>1, MacInputParts, ZenonT(30) DEF HasParts
  <1>3. MacInput(a, c) # <<>>
    BY <1>2
  <1> QED BY <1>3 DEF TagOf, NoTag

\* A packet of the application, cut short or not, gets its tag.
LEMMA PacketFits ==
  ASSUME Room, alg \in Algs, NEW k, NEW n, NEW a \in Aads, NEW p \in Plains,
         NEW c \in Seq(SymByte), Len(c) <= Len(p), NEW old
  PROVE  Authenticate(k, n, a, c, old) = {TagOf(k, n, a, c)}
  <1>1. CASE alg = "gcm"
    BY <1>1 DEF Authenticate, NoRoom
  <1>2. CASE alg # "gcm"
    <2>1. Len(c) \in 0..Len(p)
      BY Sizes
    <2>2. MacBytes(a, c) <= StackBuf
      BY <1>2, <2>1 DEF Room, EveryPacketFits, MacBytes
    <2>3. PICK m \in Nat : m = MacBytes(a, c)
      <3>1. Len(a) \in Nat /\ Len(c) \in Nat /\ MacBlock \in Nat
        BY Sizes
      <3>2. PadLen(Len(a)) \in Nat /\ PadLen(Len(c)) \in Nat
        BY <3>1, PadFacts
      <3> QED BY <3>1, <3>2 DEF MacBytes
    <2>4. ~ (MacBytes(a, c) > StackBuf)
      BY <2>2, <2>3, Sizes
    <2> QED BY <2>4 DEF Authenticate, NoRoom
  <1> QED BY <1>1, <1>2

-----------------------------------------------------------------------------
(* The steps *)

\* A sealed packet: it is in the output buffer, and as long as its plaintext.
LEMMA PacketFacts ==
  ASSUME alg \in Algs, NEW k \in Keys, NEW n \in Nonces, NEW p \in Plains
  PROVE  /\ Clear(p) \in Seq(SymByte) /\ Len(Clear(p)) = Len(p) /\ Len(p) <= BufLen
         /\ Xor(k, n, Clear(p)) \in Seq(SymByte)
         /\ Len(Xor(k, n, Clear(p))) = Len(p)
         /\ Xor(k, n, Xor(k, n, Clear(p))) = Clear(p)
  <1>1. p \in Seq(Nat) /\ Len(p) <= BufLen
    BY Sizes
  <1>2. Clear(p) \in Seq(SymByte) /\ Len(Clear(p)) = Len(p)
    BY <1>1, ClearFacts
  <1> QED BY <1>1, <1>2, XorFacts, XorTwice

\* What is made of a packet depends on the cipher only.
LEMMA SameCipher ==
  ASSUME UNCHANGED alg
  PROVE  /\ Room <=> Room'
         /\ \A s : IsPacket(s) <=> IsPacket(s)'
  BY DEF Room, IsPacket, Xor, KeyStream, FirstBlock

\* aesGcmSeal, chachaPolySeal.
LEMMA SealInv ==
  ASSUME Types, \A s \in sealed : IsPacket(s),
         NEW k \in Keys, NEW n \in Nonces, NEW aad \in Aads, NEW p \in Plains,
         NEW o \in Bufs, Seal(k, n, aad, p, "A", o)
  PROVE  AeadInv'
  <1> DEFINE ct == Xor(k, n, Clear(p))
             before == Put(mem, "A", Clear(p))
             after == Put(before, o, ct)
  <1>1. alg \in Algs /\ mem \in [Bufs -> [1..BufLen -> SymByte]] /\ "A" \in Bufs
    BY DEF Types, Bufs
  <1>2. /\ Clear(p) \in Seq(SymByte) /\ Len(Clear(p)) = Len(p) /\ Len(p) <= BufLen
        /\ ct \in Seq(SymByte) /\ Len(ct) = Len(p)
    BY <1>1, PacketFacts
  <1>3. before \in [Bufs -> [1..BufLen -> SymByte]]
    BY <1>1, <1>2, PutFacts
  <1>4. after \in [Bufs -> [1..BufLen -> SymByte]] /\ Get(after, o, Len(p)) = ct
    <2> HIDE DEF before, ct
    <2> QED BY <1>2, <1>3, PutFacts
  <1>5. /\ mem' = after
        /\ tag' \in Authenticate(k, n, aad, ct, {tag})
        /\ sealed' = sealed \cup
             {[key |-> k, nonce |-> n, aad |-> aad, plain |-> p, ct |-> ct, tag |-> tag']}
        /\ ret'.op = "seal" /\ UNCHANGED alg
    BY <1>4 DEF Seal, Return
  <1>6. Types'
    BY <1>1, <1>4, <1>5 DEF Types
  <1>7. Room => tag' = TagOf(k, n, aad, ct)
    <2> SUFFICES ASSUME Room PROVE tag' = TagOf(k, n, aad, ct)
      OBVIOUS
    <2>1. PICK c \in Seq(SymByte) : c = ct /\ Len(c) <= Len(p)
      BY <1>2, Sizes
    <2>2. alg \in Algs
      BY <1>1
    <2>3. Authenticate(k, n, aad, c, {tag}) = {TagOf(k, n, aad, c)}
      BY <2>1, <2>2, PacketFits
    <2> QED BY <1>5, <2>1, <2>3
  <1>8. IsPacket([key |-> k, nonce |-> n, aad |-> aad, plain |-> p, ct |-> ct, tag |-> tag'])
    BY <1>7 DEF IsPacket
  <1>9. \A s \in sealed' : IsPacket(s)'
    BY <1>5, <1>8, SameCipher
  <1> QED BY <1>5, <1>6, <1>9 DEF AeadInv, OpensWhatWasSealed

\* The tags of two packets: one that was sealed has the tag of another one when
\* it is the same.
LEMMA SamePacket ==
  ASSUME Room, alg \in Algs, NEW u, IsPacket(u),
         NEW k, NEW n, NEW aad \in Aads, NEW c \in Seq(SymByte)
  PROVE  /\ u.tag = TagOf(k, n, aad, c) <=> <<u.key, u.nonce, u.aad, u.ct>> = <<k, n, aad, c>>
         /\ u.tag # NoTag
  <1>1. /\ u.key \in Keys /\ u.nonce \in Nonces /\ u.aad \in Aads /\ u.plain \in Plains
        /\ u.ct = Xor(u.key, u.nonce, Clear(u.plain))
        /\ u.tag = TagOf(u.key, u.nonce, u.aad, u.ct)
    BY DEF IsPacket
  <1>2. u.ct \in Seq(SymByte) /\ u.aad \in Seq(Nat) /\ aad \in Seq(Nat)
    BY <1>1, PacketFacts, Sizes
  <1>3. ASSUME u.tag = TagOf(k, n, aad, c)
        PROVE  u.key = k /\ u.nonce = n /\ u.aad = aad /\ u.ct = c
    <2>1. PICK l \in Keys, m \in Nonces, x \in Seq(Nat), y \in Seq(SymByte) :
            l = u.key /\ m = u.nonce /\ x = u.aad /\ y = u.ct
      BY <1>1, <1>2
    <2>2. TagOf(l, m, x, y) = TagOf(k, n, aad, c)
      BY <1>1, <1>3, <2>1
    <2>3. l = k /\ m = n /\ x = aad /\ y = c
      BY <1>2, <2>2, TagInjective
    <2> QED BY <2>1, <2>3
  <1>4. u.tag # NoTag
    BY <1>1, <1>2, NoTagIsNone
  <1> QED BY <1>1, <1>3, <1>4

\* aesGcmOpen, chachaPolyOpen.
LEMMA OpenInv ==
  ASSUME Types, \A s \in sealed : IsPacket(s),
         NEW s \in sealed, NEW k \in Keys, NEW n \in Nonces, NEW aad \in Aads, NEW o \in Bufs,
         NEW len \in 0..Len(s.ct), NEW t \in {u.tag : u \in sealed} \cup {NoTag},
         Open(k, n, aad, SubSeq(s.ct, 1, len), t, "A", o)
  PROVE  AeadInv'
  <1>1. alg \in Algs /\ mem \in [Bufs -> [1..BufLen -> SymByte]] /\ "A" \in Bufs
    BY DEF Types, Bufs
  <1>2. PICK p \in Plains : /\ s.ct \in Seq(SymByte) /\ Len(s.ct) = Len(p)
                            /\ Len(p) <= BufLen /\ Len(p) \in Nat /\ BufLen \in Nat
    <2>1. /\ s.key \in Keys /\ s.nonce \in Nonces /\ s.plain \in Plains
          /\ s.ct = Xor(s.key, s.nonce, Clear(s.plain))
      BY DEF IsPacket
    <2>2. s.ct \in Seq(SymByte) /\ Len(s.ct) = Len(s.plain) /\ Len(s.plain) <= BufLen
      BY <1>1, <2>1, PacketFacts
    <2>3. Len(s.plain) \in Nat /\ BufLen \in Nat
      BY <2>1, Sizes
    <2> QED BY <2>1, <2>2, <2>3
  <1>3. PICK c \in Seq(SymByte) : /\ c = SubSeq(s.ct, 1, len) /\ Len(c) = len
                                  /\ Len(c) <= Len(p) /\ Len(c) <= BufLen
    <2>1. len \in 0 .. Len(p) /\ \A i \in 1..len : s.ct[i] \in SymByte
      BY <1>2
    <2>2. SubSeq(s.ct, 1, len) \in Seq(SymByte) /\ Len(SubSeq(s.ct, 1, len)) = len
      BY <2>1, SubSeqProperties
    <2>3. len <= Len(p) /\ len <= BufLen
      BY <1>2, <2>1
    <2> QED BY <2>2, <2>3
  <1>4. PICK out \in Seq(SymByte) : out = Xor(k, n, c) /\ Len(out) = Len(c)
    BY <1>1, <1>3, XorFacts
  <1>5. PICK before \in [Bufs -> [1..BufLen -> SymByte]] : before = Put(mem, "A", c)
    BY <1>1, <1>3, PutFacts
  <1>6. PICK after \in [Bufs -> [1..BufLen -> SymByte]] :
          after = Put(before, o, out) /\ Get(after, o, Len(c)) = out
    BY <1>3, <1>4, <1>5, PutFacts
  <1>7. PICK expected \in Authenticate(k, n, aad, c, {t, NoTag}) :
          /\ sealed' = sealed /\ UNCHANGED alg
          /\ \/ /\ t # expected /\ mem' = before
                /\ Return("open", "AuthFailed", "A", o, <<k, n, aad, c, t>>)
             \/ /\ t = expected /\ mem' = after
                /\ Return("open", "Ok", "A", o, <<k, n, aad, c, t>>)
    BY <1>3, <1>4, <1>5, <1>6 DEF Open
  <1>8. Types'
    BY <1>1, <1>5, <1>6, <1>7 DEF Types
  <1>9. \A u \in sealed' : IsPacket(u)'
    BY <1>7, SameCipher
  <1>10. ASSUME Room PROVE OpensWhatWasSealed'
    <2>1. expected = TagOf(k, n, aad, c)
      <3>1. Authenticate(k, n, aad, c, {t, NoTag}) = {TagOf(k, n, aad, c)}
        <4>1. alg \in Algs /\ p \in Plains /\ c \in Seq(SymByte) /\ Len(c) <= Len(p)
          BY <1>1, <1>2, <1>3
        <4> QED BY <1>10, <4>1, PacketFits
      <3> QED BY <1>7, <3>1
    <2>2. \A u \in sealed :
            /\ u.tag = expected <=> <<u.key, u.nonce, u.aad, u.ct>> = <<k, n, aad, c>>
            /\ u.tag # NoTag
      <3> TAKE u \in sealed
      <3>1. IsPacket(u) /\ alg \in Algs /\ c \in Seq(SymByte)
        BY <1>1, <1>3
      <3> QED BY <1>10, <2>1, <3>1, SamePacket
    <2>3. expected # NoTag
      <3>1. aad \in Seq(Nat)
        BY Sizes
      <3> QED BY <1>3, <2>1, <3>1, NoTagIsNone
    <2> DEFINE mine == {u \in sealed :
                         <<u.key, u.nonce, u.aad, u.ct, u.tag>> = <<k, n, aad, c, t>>}
    <2>4. t = expected <=> mine # {}
      BY <2>2, <2>3
    <2>5. ASSUME t = expected, mem' = after, NEW u \in mine
          PROVE  Get(mem', o, Len(u.plain)) = Clear(u.plain)
      <3>1. u \in sealed /\ u.key = k /\ u.nonce = n /\ u.ct = c
        BY <2>5
      <3>2. u.plain \in Plains /\ c = Xor(k, n, Clear(u.plain))
        BY <3>1 DEF IsPacket
      <3>3. Len(c) = Len(u.plain) /\ Xor(k, n, c) = Clear(u.plain)
        BY <1>1, <3>2, PacketFacts
      <3> QED BY <1>4, <1>6, <2>5, <3>3
    <2>6. /\ {u \in sealed' : <<u.key, u.nonce, u.aad, u.ct, u.tag>> = ret'.packet} = mine
          /\ ret'.out = o
      BY <1>7 DEF Return
    <2>7. ret'.st = "Ok" <=> t = expected
      BY <1>7 DEF Return
    <2>8. t = expected => mem' = after
      BY <1>7
    <2> HIDE DEF mine
    <2> QED BY <2>4, <2>5, <2>6, <2>7, <2>8 DEF OpensWhatWasSealed
  <1> QED BY <1>7, <1>8, <1>9, <1>10, SameCipher DEF AeadInv

-----------------------------------------------------------------------------
(* The theorems *)

\* The invariant of every call.
LEMMA AeadInductive == Spec => []AeadInv
  <1>1. Init => AeadInv
    <2> SUFFICES ASSUME Init PROVE AeadInv
      OBVIOUS
    <2>1. Zero \in SymByte
      BY DEF Zero, SymByte
    <2>2. Types
      BY <2>1 DEF Init, Types
    <2> QED BY <2>2 DEF AeadInv, Init, OpensWhatWasSealed
  <1>2. AeadInv /\ [Next]_vars => AeadInv'
    <2> SUFFICES ASSUME AeadInv, [Next]_vars PROVE AeadInv'
      OBVIOUS
    <2>1. Types /\ \A s \in sealed : IsPacket(s)
      BY DEF AeadInv
    <2>2. CASE SealSome
      BY <2>1, <2>2, SealInv DEF SealSome
    <2>3. CASE OpenSome
      BY <2>1, <2>3, OpenInv DEF OpenSome
    <2>4. ASSUME NEW op \in {"seal", "open"}, Refuse(op) PROVE AeadInv'
      <3>1. UNCHANGED <<alg, mem, tag, sealed>> /\ ret'.st = "BadParam"
        BY <2>4 DEF Refuse, Return
      <3> QED BY <2>1, <3>1, SameCipher DEF AeadInv, Types, OpensWhatWasSealed
    <2>5. CASE UNCHANGED vars
      BY <2>5, SameCipher DEF vars, AeadInv, Types, OpensWhatWasSealed
    <2> QED BY <2>2, <2>3, <2>4, <2>5 DEF Next
  <1> QED BY <1>1, <1>2, PTL DEF Spec

\* With GCM, whatever the lengths: open answers Ok exactly for what was sealed,
\* and gives back its plaintext.
THEOREM GcmOpensSealed == Spec => [](alg = "gcm" => OpensWhatWasSealed)
  <1>1. AeadInv => (alg = "gcm" => OpensWhatWasSealed)
    BY DEF AeadInv, Room
  <1> QED BY <1>1, AeadInductive, PTL

\* With either cipher, when aeadPoly1305 has room for every packet: open answers
\* Ok exactly for what was sealed, and gives back its plaintext, also when it
\* decrypts in place.
THEOREM OpensSealed ==
  ASSUME EveryPacketFits
  PROVE  Spec => []OpensWhatWasSealed
  <1>1. AeadInv => OpensWhatWasSealed
    BY DEF AeadInv, Room
  <1> QED BY <1>1, AeadInductive, PTL

\* No keystream byte masks two bytes of a message, and none comes from the block
\* that masks the tag (gctr from J0 + 1) or keys Poly1305 (chachaXor from 1).
THEOREM KeystreamOnce == Spec => []KeystreamUsedOnce
  <1>1. AeadInv => KeystreamUsedOnce
    <2> SUFFICES ASSUME AeadInv, NEW s \in sealed
                 PROVE  /\ \A i \in 1..Len(s.ct) : \A ks \in s.ct[i].ks : ks[3] # TagBlock
                        /\ \A i, j \in 1..Len(s.ct) :
                             i # j => s.ct[i].ks \cap s.ct[j].ks = {}
      BY DEF KeystreamUsedOnce
    <2>1. /\ alg \in Algs /\ s.key \in Keys /\ s.nonce \in Nonces /\ s.plain \in Plains
          /\ s.ct = Xor(s.key, s.nonce, Clear(s.plain))
      BY DEF AeadInv, Types, IsPacket
    <2>2. PICK k \in Keys, n \in Nonces, p \in Plains :
            k = s.key /\ n = s.nonce /\ p = s.plain
      BY <2>1
    <2>3. PICK in \in Seq(SymByte) :
            in = Clear(p) /\ Len(in) <= BufLen /\ \A i \in 1..Len(in) : in[i].ks = {}
      <3>1. p \in Seq(Nat) /\ Len(p) <= BufLen
        BY Sizes
      <3>2. /\ Clear(p) \in Seq(SymByte) /\ Len(Clear(p)) = Len(p)
            /\ \A i \in 1..Len(p) : Clear(p)[i] = [v |-> p[i], ks |-> {}]
        BY <3>1, ClearFacts
      <3>3. \A i \in 1..Len(Clear(p)) : Clear(p)[i].ks = {}
        <4> TAKE i \in 1..Len(Clear(p))
        <4>1. Clear(p)[i] = [v |-> p[i], ks |-> {}]
          BY <3>2
        <4> QED BY <4>1
      <3>4. Len(Clear(p)) <= BufLen
        BY <3>1, <3>2
      <3> QED BY <3>2, <3>3, <3>4
    <2>4. PICK ct \in Seq(SymByte) :
            /\ ct = s.ct /\ Len(ct) = Len(in)
            /\ \A i \in 1..Len(in) : ct[i] = XorByte(in[i], KeyStream(k, n, i))
      BY <2>1, <2>2, <2>3, XorFacts
    <2>5. ASSUME NEW i \in 1..Len(ct)
          PROVE  i \in 1..BufLen /\ ct[i].ks = {KeyStream(k, n, i)}
      <3>1. i \in 1..BufLen /\ i \in 1..Len(in) /\ in[i] \in SymByte
        BY <2>3, <2>4, Sizes
      <3>2. KeyStream(k, n, i) \in Mask
        BY <2>1, <3>1, StreamFacts
      <3> QED BY <2>3, <2>4, <3>1, <3>2, XorByteFacts
    <2>6. ASSUME NEW i \in 1..Len(ct), NEW ks \in ct[i].ks PROVE ks[3] # TagBlock
      BY <2>1, <2>5, StreamFacts
    <2>7. ASSUME NEW i \in 1..Len(ct), NEW j \in 1..Len(ct), i # j
          PROVE  ct[i].ks \cap ct[j].ks = {}
      <3>1. KeyStream(k, n, i) # KeyStream(k, n, j)
        BY <2>1, <2>5, <2>7, StreamsDiffer
      <3> QED BY <2>5, <3>1
    <2> QED BY <2>4, <2>6, <2>7
  <1> QED BY <1>1, AeadInductive, PTL

\* A packet that open rejects leaves the output buffer as it was: the tag is
\* compared before gctr or chachaXor writes.
THEOREM RejectedUntouched == Spec => RejectWritesNothing
  <1> DEFINE Untouched == ret'.op = "open" /\ ret'.st = "AuthFailed" /\ ret'.in # ret'.out
                            => mem'[ret'.out] = mem[ret'.out]
  <1>1. AeadInv /\ [Next]_vars => [Untouched]_vars
    <2> SUFFICES ASSUME AeadInv, Next PROVE Untouched
      OBVIOUS
    <2>1. CASE SealSome
      BY <2>1 DEF SealSome, Seal, Return
    <2>2. CASE OpenSome
      <3>1. PICK o, c :
              /\ o \in Bufs
              /\ ret'.in = "A" /\ ret'.out = o
              /\ ret'.st = "AuthFailed" => mem' = Put(mem, "A", c)
        BY <2>2 DEF OpenSome, Open, Return
      <3>2. mem \in [Bufs -> [1..BufLen -> SymByte]]
        BY DEF AeadInv, Types
      <3>3. o # "A" => Put(mem, "A", c)[o] = mem[o]
        BY <3>1, <3>2 DEF Put
      <3> QED BY <3>1, <3>3
    <2>3. ASSUME NEW op \in {"seal", "open"}, Refuse(op) PROVE Untouched
      BY <2>3 DEF Refuse, Return
    <2> QED BY <2>1, <2>2, <2>3 DEF Next
  <1> QED BY <1>1, AeadInductive, PTL DEF Spec, RejectWritesNothing
=============================================================================
