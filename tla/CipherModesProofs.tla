------------------------- MODULE CipherModesProofs -------------------------
(***************************************************************************)
(* Proofs about CipherModes, for any block length, buffers of any size and *)
(* any texts, initial vectors and number of calls; and about the software  *)
(* AES it calls, SoftAes128: that decryptBlock undoes encryptBlock, for    *)
(* every key and every block.                                              *)
(***************************************************************************)
EXTENDS CipherModes, SequenceTheorems, FiniteSetTheorems, TLAPS

\* The symbolic cipher nests: a byte is made of terms, and a term of a block of
\* bytes.  A set of terms is closed when it has the terms of its blocks, and the
\* inverse of the cipher is only taken of blocks that are not encryptions
Encrypted(x) == Preimages("E", x) # {}

Closed(T) ==
  /\ \A t \in T : t[1] \in {"E", "D"} => t[3] \in [Blocks -> SUBSET T]
  /\ \A t \in T : t[1] = "D" => ~Encrypted(t[3])

Memory(T) == [Buffers -> [1..Cap -> SUBSET T]]

Fields == {"op", "in", "out", "len", "off", "prev", "ctr", "st", "ans", "text"}

CallFits ==
  /\ Fields \subseteq DOMAIN call
  /\ call.in \in Buffers /\ call.out \in Buffers
  /\ call.len \in 0..Cap /\ call.off \in Nat

Cbc == {"cbcEnc", "cbcDec"}

\* Inside a call there is a byte to go, and CBC has whole blocks to go
Ongoing ==
  Running =>
    /\ call.op \in Cbc \cup {"ctr"}
    /\ call.off < call.len
    /\ call.op \in Cbc => \E q \in Nat : call.len - call.off = q * BlockLen

\* The bytes of the buffers and of the block chained on
Contents ==
  \E T : /\ Closed(T) /\ mem \in Memory(T)
         /\ Running => call.prev \in [Blocks -> SUBSET T]

ModeInv == CallFits /\ Ongoing /\ Contents /\ WritesOnlyItsRange

USE SizeAssumption DEF Buffers

-----------------------------------------------------------------------------
(* Bytes, blocks and what Put writes *)

\* Terms that hold no block keep a set of terms closed.
LEMMA ClosedPlain ==
  ASSUME NEW T, Closed(T), NEW P, \A p \in P : p[1] \notin {"E", "D"}
  PROVE  Closed(T \cup P)
  BY DEF Closed

\* A memory of terms is one of more terms.
LEMMA MemoryGrows ==
  ASSUME NEW T, NEW U, T \subseteq U
  PROVE  Memory(T) \subseteq Memory(U) /\ [Blocks -> SUBSET T] \subseteq [Blocks -> SUBSET U]
  BY DEF Memory

\* The image of a block under the cipher or its inverse adds terms of that block.
LEMMA ImageBlock ==
  ASSUME NEW T, Closed(T), NEW x \in [Blocks -> SUBSET T], NEW f \in {"E", "D"},
         f = "D" => ~Encrypted(x)
  PROVE  \E U : T \subseteq U /\ Closed(U) /\ Image(f, x) \in [Blocks -> SUBSET U]
  <1>1. PICK U : U = T \cup {<<f, j, x>> : j \in Blocks}
    OBVIOUS
  <1>2. T \subseteq U /\ x \in [Blocks -> SUBSET U]
    BY <1>1
  <1>3. Closed(U)
    <2> SUFFICES ASSUME NEW t \in U, t[1] \in {"E", "D"}
                 PROVE  /\ t[3] \in [Blocks -> SUBSET U]
                        /\ t[1] = "D" => ~Encrypted(t[3])
      BY DEF Closed
    <2>1. CASE t \in T
      <3>1. t[3] \in [Blocks -> SUBSET T] /\ (t[1] = "D" => ~Encrypted(t[3]))
        BY <2>1 DEF Closed
      <3> QED BY <1>2, <3>1, MemoryGrows
    <2>2. CASE \E j \in Blocks : t = <<f, j, x>>
      <3>1. t[1] = f /\ t[3] = x
        BY <2>2
      <3> QED BY <1>2, <3>1
    <2> QED BY <1>1, <2>1, <2>2
  <1>4. Image(f, x) \in [Blocks -> SUBSET U]
    BY <1>1 DEF Image
  <1> QED BY <1>2, <1>3, <1>4

\* A block whose image is known is made of terms of that image.
LEMMA PreimageBlock ==
  ASSUME NEW T, Closed(T), NEW x \in [Blocks -> SUBSET T], NEW f \in {"E", "D"},
         NEW y \in Preimages(f, x)
  PROVE  y \in [Blocks -> SUBSET T]
  <1>1. PICK t \in x[1] : t[1] = f /\ y = t[3]
    BY DEF Preimages
  <1>2. t \in T
    BY <1>1 DEF Blocks
  <1> QED BY <1>1, <1>2 DEF Closed

\* The cipher turns a block into a block.
LEMMA EncryptedBlock ==
  ASSUME NEW T, Closed(T), NEW x \in [Blocks -> SUBSET T]
  PROVE  \E U : T \subseteq U /\ Closed(U) /\ E(x) \in [Blocks -> SUBSET U]
  <1>1. CASE Preimages("D", x) # {}
    <2>1. E(x) \in Preimages("D", x)
      BY <1>1 DEF E
    <2>2. E(x) \in [Blocks -> SUBSET T]
      BY <2>1, PreimageBlock
    <2> QED BY <2>2
  <1>2. CASE Preimages("D", x) = {}
    <2>1. E(x) = Image("E", x)
      BY <1>2 DEF E
    <2> QED BY <2>1, ImageBlock
  <1> QED BY <1>1, <1>2

\* So does its inverse.
LEMMA DecryptedBlock ==
  ASSUME NEW T, Closed(T), NEW y \in [Blocks -> SUBSET T]
  PROVE  \E U : T \subseteq U /\ Closed(U) /\ D(y) \in [Blocks -> SUBSET U]
  <1>1. CASE Preimages("E", y) # {}
    <2>1. D(y) \in Preimages("E", y)
      BY <1>1 DEF D
    <2>2. D(y) \in [Blocks -> SUBSET T]
      BY <2>1, PreimageBlock
    <2> QED BY <2>2
  <1>2. CASE Preimages("E", y) = {}
    <2>1. D(y) = Image("D", y) /\ ~Encrypted(y)
      BY <1>2 DEF D, Encrypted
    <2> QED BY <2>1, ImageBlock
  <1> QED BY <1>1, <1>2

\* m is the memory with n bytes of a buffer replaced
Overwrites(m, b, off, n, bytes) ==
  \A c \in Buffers, i \in 1..Cap :
    m[c][i] = IF c = b /\ off < i /\ i <= off + n THEN bytes[i - off] ELSE mem[c][i]

\* Put replaces the bytes from off on, and nothing else.
LEMMA PutEffect ==
  ASSUME NEW T, mem \in Memory(T), NEW b \in Buffers, NEW off \in Nat, NEW n \in Nat,
         NEW bytes \in [1..n -> SUBSET T]
  PROVE  /\ Put(b, off, bytes) \in Memory(T)
         /\ Overwrites(Put(b, off, bytes), b, off, n, bytes)
  <1>1. Len(bytes) = n
    BY IsASeq, LenProperties
  <1>2. Put(b, off, bytes) =
          [mem EXCEPT ![b] = [i \in 1..Cap |->
             IF off < i /\ i <= off + n THEN bytes[i - off] ELSE mem[b][i]]]
    BY <1>1 DEF Put
  <1>3. \A i \in 1..Cap : off < i /\ i <= off + n => bytes[i - off] \in SUBSET T
    OBVIOUS
  <1>4. Put(b, off, bytes) \in Memory(T)
    <2>1. PICK f \in [1..Cap -> SUBSET T] :
            f = [i \in 1..Cap |->
                   IF off < i /\ i <= off + n THEN bytes[i - off] ELSE mem[b][i]]
      BY <1>3 DEF Memory
    <2>2. Put(b, off, bytes) = [mem EXCEPT ![b] = f]
      BY <1>2, <2>1
    <2> QED BY <2>2 DEF Memory
  <1>5. Overwrites(Put(b, off, bytes), b, off, n, bytes)
    BY <1>2 DEF Memory, Overwrites
  <1> QED BY <1>4, <1>5

-----------------------------------------------------------------------------
(* One pass of a loop *)

\* What Advance does to the call.
LEMMA AdvanceEffect ==
  ASSUME CallFits, Running, NEW n \in Nat, call.off + n <= call.len,
         NEW prev, NEW ctr, Advance(n, prev, ctr)
  PROVE  /\ CallFits'
         /\ call'.op = call.op /\ call'.in = call.in /\ call'.out = call.out
         /\ call'.len = call.len /\ call'.off = call.off + n /\ call'.prev = prev
         /\ call'.ctr = ctr
         /\ call'.st = IF call.off + n >= call.len THEN "Ok" ELSE "running"
         /\ before' = before /\ iv' = iv
  <1>1. PICK st : /\ st = IF call.off + n >= call.len THEN "Ok" ELSE "running"
                  /\ call' = [call EXCEPT !.off = call.off + n, !.prev = prev,
                                          !.ctr = ctr, !.st = st]
    BY DEF Advance, Running
  <1>2. /\ DOMAIN call' = DOMAIN call
        /\ call'.op = call.op /\ call'.in = call.in /\ call'.out = call.out
        /\ call'.len = call.len /\ call'.off = call.off + n /\ call'.prev = prev
        /\ call'.ctr = ctr /\ call'.st = st
    BY <1>1 DEF CallFits, Fields
  <1>3. before' = before /\ iv' = iv
    BY DEF Advance
  <1> QED BY <1>1, <1>2, <1>3 DEF CallFits

\* A pass writes the next bytes of out, and CBC keeps whole blocks to go.
LEMMA BlockStep ==
  ASSUME ModeInv, Running, NEW T, Closed(T), mem \in Memory(T), NEW n \in Nat \ {0},
         call.off + n <= call.len, call.op \in Cbc => n = BlockLen,
         NEW bytes \in [1..n -> SUBSET T], mem' = Put(call.out, call.off, bytes),
         NEW prev \in [Blocks -> SUBSET T], NEW ctr, Advance(n, prev, ctr)
  PROVE  ModeInv'
  <1>1. CallFits
    BY DEF ModeInv
  <1>2. /\ CallFits'
        /\ call'.op = call.op /\ call'.in = call.in /\ call'.out = call.out
        /\ call'.len = call.len /\ call'.off = call.off + n /\ call'.prev = prev
        /\ call'.st = IF call.off + n >= call.len THEN "Ok" ELSE "running"
        /\ before' = before /\ iv' = iv
    BY <1>1, AdvanceEffect
  <1>3. Ongoing'
    <2> SUFFICES ASSUME Running' PROVE Ongoing'
      BY DEF Ongoing
    <2>1. call.off + n < call.len
      BY <1>1, <1>2 DEF Running, CallFits
    <2>2. ASSUME call.op \in Cbc
          PROVE  \E q \in Nat : call.len - (call.off + n) = q * BlockLen
      <3>1. PICK q \in Nat : call.len - call.off = q * BlockLen
        BY <2>2 DEF ModeInv, Ongoing
      <3>2. q # 0
        BY <1>1, <2>1, <3>1 DEF CallFits
      <3>3. q - 1 \in Nat /\ (q - 1) * BlockLen = q * BlockLen - BlockLen
        BY <3>2
      <3>4. call.len - (call.off + n) = (q - 1) * BlockLen
        BY <1>1, <2>2, <3>1, <3>3 DEF CallFits
      <3> QED BY <3>3, <3>4
    <2>3. call.op \in Cbc \cup {"ctr"}
      BY DEF ModeInv, Ongoing
    <2> QED BY <1>2, <2>1, <2>2, <2>3 DEF Ongoing
  <1>4. /\ mem' \in Memory(T)
        /\ Overwrites(mem', call.out, call.off, n, bytes)
    <2>1. call.out \in Buffers /\ call.off \in Nat /\ n \in Nat
      BY <1>1 DEF CallFits
    <2>2. /\ Put(call.out, call.off, bytes) \in Memory(T)
          /\ Overwrites(Put(call.out, call.off, bytes), call.out, call.off, n, bytes)
      BY <2>1, PutEffect
    <2> QED BY <2>2
  <1>5. Contents'
    BY <1>2, <1>4 DEF Contents
  <1>6. WritesOnlyItsRange'
    <2> SUFFICES ASSUME NEW b \in Buffers, NEW i \in 1..Cap,
                        mem'[b][i] # before'.mem[b][i]
                 PROVE  b = call.out /\ i <= call.len /\ i <= call.off + n
      BY <1>1, <1>2 DEF WritesOnlyItsRange, CallFits
    <2>1. CASE b = call.out /\ call.off < i /\ i <= call.off + n
      BY <1>1, <2>1 DEF CallFits
    <2>2. CASE ~(b = call.out /\ call.off < i /\ i <= call.off + n)
      <3>1. mem[b][i] # before.mem[b][i]
        BY <1>2, <1>4, <2>2 DEF Overwrites
      <3>2. b = call.out /\ i <= call.off
        BY <3>1 DEF ModeInv, WritesOnlyItsRange, Running, CallFits
      <3> QED BY <1>1, <3>2 DEF CallFits
    <2> QED BY <2>1, <2>2
  <1> QED BY <1>2, <1>3, <1>5, <1>6 DEF ModeInv

\* CBC always has a whole block to go.
LEMMA WholeBlockLeft ==
  ASSUME CallFits, Ongoing, Running, call.op \in Cbc
  PROVE  call.off + BlockLen <= call.len
  <1>1. PICK q \in Nat : call.len - call.off = q * BlockLen
    BY DEF Ongoing
  <1>2. q # 0
    BY <1>1 DEF CallFits, Ongoing
  <1>3. q - 1 \in Nat /\ (q - 1) * BlockLen = q * BlockLen - BlockLen
    BY <1>2
  <1>4. (q - 1) * BlockLen >= 0
    BY <1>3
  <1> QED BY <1>1, <1>3, <1>4 DEF CallFits

\* What is read from a buffer is made of its terms.
LEMMA ReadBytes ==
  ASSUME NEW T, mem \in Memory(T), NEW b \in Buffers, NEW off \in Nat, NEW n \in Nat,
         off + n <= Cap
  PROVE  BlockAt(b, off, n) \in [1..n -> SUBSET T]
  BY DEF BlockAt, Memory

\* XOR makes no terms.
LEMMA XorBlocks ==
  ASSUME NEW T, NEW x \in [Blocks -> SUBSET T], NEW y \in [Blocks -> SUBSET T]
  PROVE  xorBlock(x, y) \in [Blocks -> SUBSET T]
  BY DEF xorBlock, Xor

\* One block of CBC encryption.
LEMMA CbcEncryptKeeps == ModeInv /\ CbcEncryptBlock => ModeInv'
  <1> SUFFICES ASSUME ModeInv, CbcEncryptBlock PROVE ModeInv'
    OBVIOUS
  <1>1. CallFits /\ Ongoing /\ Running /\ call.op = "cbcEnc"
    BY DEF ModeInv, CbcEncryptBlock
  <1>2. call.off + BlockLen <= call.len
    BY <1>1, WholeBlockLeft DEF Cbc
  <1>3. PICK T : Closed(T) /\ mem \in Memory(T) /\ call.prev \in [Blocks -> SUBSET T]
    BY <1>1 DEF ModeInv, Contents
  <1>4. PICK x : x = xorBlock(BlockAt(call.in, call.off, BlockLen), call.prev)
    OBVIOUS
  <1>5. x \in [Blocks -> SUBSET T]
    <2>1. BlockAt(call.in, call.off, BlockLen) \in [Blocks -> SUBSET T]
      BY <1>1, <1>2, <1>3, ReadBytes DEF CallFits, Blocks
    <2> QED BY <1>3, <1>4, <2>1, XorBlocks
  <1>6. PICK U : T \subseteq U /\ Closed(U) /\ E(x) \in [Blocks -> SUBSET U]
    BY <1>3, <1>5, EncryptedBlock
  <1>7. PICK y : y = E(x)
    OBVIOUS
  <1>8. mem \in Memory(U) /\ y \in [Blocks -> SUBSET U] /\ y \in [1..BlockLen -> SUBSET U]
    BY <1>3, <1>6, <1>7, MemoryGrows DEF Blocks
  <1>9. mem' = Put(call.out, call.off, y) /\ Advance(BlockLen, y, call.ctr)
    BY <1>4, <1>7 DEF CbcEncryptBlock
  <1> QED BY <1>1, <1>2, <1>6, <1>8, <1>9, BlockStep

\* One block of CBC decryption, in place or not.
LEMMA CbcDecryptKeeps == ModeInv /\ CbcDecryptBlock => ModeInv'
  <1> SUFFICES ASSUME ModeInv, CbcDecryptBlock PROVE ModeInv'
    OBVIOUS
  <1>1. CallFits /\ Ongoing /\ Running /\ call.op = "cbcDec"
    BY DEF ModeInv, CbcDecryptBlock
  <1>2. call.off + BlockLen <= call.len /\ call.off + BlockLen <= Cap
    BY <1>1, WholeBlockLeft DEF Cbc, CallFits
  <1>3. PICK T : Closed(T) /\ mem \in Memory(T) /\ call.prev \in [Blocks -> SUBSET T]
    BY <1>1 DEF ModeInv, Contents
  <1>4. PICK y : y = BlockAt(call.in, call.off, BlockLen)
    OBVIOUS
  <1>5. y \in [Blocks -> SUBSET T]
    BY <1>1, <1>2, <1>3, <1>4, ReadBytes DEF CallFits, Blocks
  <1>6. PICK U : T \subseteq U /\ Closed(U) /\ D(y) \in [Blocks -> SUBSET U]
    BY <1>3, <1>5, DecryptedBlock
  <1>7. PICK x : x = xorBlock(D(y), call.prev)
    OBVIOUS
  <1>8. mem \in Memory(U) /\ x \in [1..BlockLen -> SUBSET U]
    BY <1>3, <1>6, <1>7, MemoryGrows, XorBlocks DEF Blocks
  <1>9. mem' = Put(call.out, call.off, x)
    BY <1>4, <1>7 DEF CbcDecryptBlock
  <1>10. PICK prev : /\ prev = [j \in Blocks |-> mem'[call.in][call.off + j]]
                     /\ Advance(BlockLen, prev, call.ctr)
    BY DEF CbcDecryptBlock
  <1>11. prev \in [Blocks -> SUBSET U]
    <2>1. mem' \in Memory(U)
      BY <1>1, <1>8, <1>9, PutEffect DEF CallFits
    <2>2. mem'[call.in] \in [1..Cap -> SUBSET U]
      BY <1>1, <2>1 DEF Memory, CallFits
    <2>3. \A j \in Blocks : call.off + j \in 1..Cap
      BY <1>1, <1>2 DEF Blocks, CallFits
    <2> QED BY <1>10, <2>2, <2>3
  <1> QED BY <1>1, <1>2, <1>6, <1>8, <1>9, <1>10, <1>11, BlockStep

\* One block of CTR, the last one partial or not.
LEMMA CtrKeeps == ModeInv /\ CtrBlock => ModeInv'
  <1> SUFFICES ASSUME ModeInv, CtrBlock PROVE ModeInv'
    OBVIOUS
  <1>1. CallFits /\ Ongoing /\ Running /\ call.op = "ctr"
    BY DEF ModeInv, CtrBlock
  <1>2. PICK n \in Nat \ {0} : /\ n = CtrChunk /\ n <= BlockLen
                               /\ call.off + n <= call.len /\ call.off + n <= Cap
    <2>1. /\ CtrChunk \in Nat \ {0} /\ CtrChunk <= BlockLen
          /\ call.off + CtrChunk <= call.len /\ call.off + CtrChunk <= Cap
      BY <1>1 DEF CtrChunk, CallFits, Ongoing
    <2> QED BY <2>1
  <1>3. PICK T : Closed(T) /\ mem \in Memory(T) /\ call.prev \in [Blocks -> SUBSET T]
    BY <1>1 DEF ModeInv, Contents
  <1>4. PICK c : c = [j \in Blocks |-> Lit(call.ctr[j])]
    OBVIOUS
  <1>5. PICK V : V = T \cup {<<"v", call.ctr[j]>> : j \in Blocks}
    OBVIOUS
  <1>6. Closed(V) /\ c \in [Blocks -> SUBSET V]
    <2>1. Closed(V)
      <3>1. PICK P : P = {<<"v", call.ctr[j]>> : j \in Blocks}
        OBVIOUS
      <3>2. \A p \in P : p[1] \notin {"E", "D"}
        BY <3>1
      <3> QED BY <1>3, <1>5, <3>1, <3>2, ClosedPlain
    <2>2. c \in [Blocks -> SUBSET V]
      BY <1>4, <1>5 DEF Lit
    <2> QED BY <2>1, <2>2
  <1>7. PICK U : V \subseteq U /\ Closed(U) /\ E(c) \in [Blocks -> SUBSET U]
    BY <1>6, EncryptedBlock
  <1>8. PICK ks \in [Blocks -> SUBSET U] : ks = E(c)
    BY <1>7
  <1>9. PICK x : x = [j \in 1..n |-> Xor(mem[call.in][call.off + j], ks[j])]
    OBVIOUS
  <1>10. mem \in Memory(U) /\ call.prev \in [Blocks -> SUBSET U]
    BY <1>3, <1>5, <1>7, MemoryGrows
  <1>11. x \in [1..n -> SUBSET U]
    <2>1. mem[call.in] \in [1..Cap -> SUBSET U]
      BY <1>1, <1>10 DEF Memory, CallFits
    <2>2. \A j \in 1..n : call.off + j \in 1..Cap /\ j \in Blocks
      BY <1>1, <1>2 DEF Blocks, CallFits
    <2>3. \A j \in 1..n : Xor(mem[call.in][call.off + j], ks[j]) \in SUBSET U
      BY <1>8, <2>1, <2>2 DEF Xor
    <2> QED BY <1>9, <2>3
  <1>12. PICK d : /\ mem' = Put(call.out, call.off, x)
                  /\ Advance(n, call.prev, d)
    BY <1>2, <1>4, <1>8, <1>9 DEF CtrBlock
  <1> QED BY <1>1, <1>2, <1>7, <1>10, <1>11, <1>12, BlockStep DEF Cbc

\* The ECB peripheral fails, and the call returns.
LEMMA EcbFailsKeeps == ModeInv /\ EcbFails => ModeInv'
  <1> SUFFICES ASSUME ModeInv, EcbFails PROVE ModeInv'
    OBVIOUS
  <1>1. CallFits /\ Ongoing /\ Running /\ call.op \in {"cbcEnc", "ctr"}
    BY DEF ModeInv, EcbFails
  <1>2. call' = [call EXCEPT !.st = "InternalError"] /\ before' = before
    BY DEF EcbFails
  <1>3. /\ CallFits' /\ call'.st = "InternalError"
        /\ call'.op = call.op /\ call'.out = call.out
        /\ call'.len = call.len /\ call'.off = call.off
    BY <1>1, <1>2 DEF CallFits, Fields
  <1>4. ~Running'
    BY <1>3 DEF Running
  <1>5. PICK T : Closed(T) /\ mem \in Memory(T)
    BY DEF ModeInv, Contents
  <1>6. CASE mem' = mem
    <2>1. Contents'
      BY <1>4, <1>5, <1>6 DEF Contents
    <2>2. WritesOnlyItsRange'
      BY <1>1, <1>2, <1>3, <1>6 DEF ModeInv, WritesOnlyItsRange, CallFits, Ongoing, IsCipher,
         Running
    <2> QED BY <1>3, <1>4, <2>1, <2>2 DEF ModeInv, Ongoing
  <1>7. CASE call.op = "cbcEnc" /\ mem' = Put(call.out, call.off, [j \in Blocks |-> Junk])
    <2>1. call.off + BlockLen <= call.len
      BY <1>1, <1>7, WholeBlockLeft DEF Cbc
    <2>2. PICK U : Closed(U) /\ mem \in Memory(U) /\ <<"junk", 0>> \in U
      <3>1. PICK U : U = T \cup {<<"junk", 0>>}
        OBVIOUS
      <3>2. Closed(U)
        <4>1. \A p \in {<<"junk", 0>>} : p[1] \notin {"E", "D"}
          OBVIOUS
        <4> QED BY <1>5, <3>1, <4>1, ClosedPlain
      <3> QED BY <1>5, <3>1, <3>2, MemoryGrows
    <2>3. PICK x \in [1..BlockLen -> SUBSET U] : x = [j \in Blocks |-> Junk]
      BY <2>2 DEF Junk, Blocks
    <2>4. /\ mem' \in Memory(U)
          /\ Overwrites(mem', call.out, call.off, BlockLen, x)
      <3>1. call.out \in Buffers /\ call.off \in Nat /\ BlockLen \in Nat
        BY <1>1 DEF CallFits
      <3> QED BY <1>7, <2>2, <2>3, <3>1, PutEffect
    <2>5. Contents'
      BY <1>4, <2>2, <2>4 DEF Contents
    <2>6. WritesOnlyItsRange'
      <3> SUFFICES ASSUME NEW b \in Buffers, NEW i \in 1..Cap,
                          mem'[b][i] # before'.mem[b][i]
                   PROVE  b = call.out /\ i <= call.len /\ i <= call.off + BlockLen
        BY <1>1, <1>3 DEF WritesOnlyItsRange, CallFits
      <3>1. CASE b = call.out /\ call.off < i /\ i <= call.off + BlockLen
        BY <1>1, <2>1, <3>1 DEF CallFits
      <3>2. CASE ~(b = call.out /\ call.off < i /\ i <= call.off + BlockLen)
        <4>1. mem[b][i] # before.mem[b][i]
          BY <1>2, <2>4, <3>2 DEF Overwrites
        <4>2. b = call.out /\ i <= call.off
          BY <1>1, <4>1 DEF ModeInv, WritesOnlyItsRange, Running, CallFits
        <4> QED BY <1>1, <2>1, <4>2 DEF CallFits
      <3> QED BY <3>1, <3>2
    <2> QED BY <1>3, <1>4, <2>5, <2>6 DEF ModeInv, Ongoing
  <1> QED BY <1>6, <1>7 DEF EcbFails

-----------------------------------------------------------------------------
(* The other steps *)

\* A multiple of the block length.
LEMMA Multiple ==
  ASSUME NEW n \in Nat, n % BlockLen = 0
  PROVE  \E q \in Nat : n = q * BlockLen
  <1>1. n \div BlockLen \in Nat
    OBVIOUS
  <1>2. (n \div BlockLen) * BlockLen + (n % BlockLen) = n
    OBVIOUS
  <1> QED BY <1>1, <1>2

\* A call begins, with nothing written.
LEMMA EnterKeeps ==
  ASSUME ModeInv, NEW op \in Cbc \cup {"ctr"}, NEW in \in Buffers, NEW out \in Buffers,
         NEW len \in Lens, NEW st \in {"BadParam", "Ok", "running"},
         st = "running" => len > 0,
         st = "running" /\ op \in Cbc => len % BlockLen = 0,
         Enter(op, in, out, len, st)
  PROVE  ModeInv'
  <1>1. PICK prev : /\ prev = [j \in Blocks |-> Lit(iv[j])]
                    /\ call' = [NoCall EXCEPT !.op = op, !.in = in, !.out = out, !.len = len,
                                              !.st = st, !.prev = prev, !.ctr = iv]
    BY DEF Enter
  <1>2. /\ CallFits'
        /\ call'.op = op /\ call'.len = len /\ call'.off = 0
        /\ call'.st = st /\ call'.prev = prev
    BY <1>1 DEF NoCall, CallFits, Fields
  <1>3. mem' = mem /\ before'.mem = mem
    BY DEF Enter
  <1>4. Ongoing'
    <2>1. op \in Cbc /\ st = "running" => \E q \in Nat : len - 0 = q * BlockLen
      <3> SUFFICES ASSUME len % BlockLen = 0 PROVE \E q \in Nat : len - 0 = q * BlockLen
        OBVIOUS
      <3>1. len \in Nat
        OBVIOUS
      <3>2. PICK q \in Nat : len = q * BlockLen
        BY <3>1, Multiple
      <3> QED BY <3>1, <3>2
    <2> QED BY <1>2, <2>1 DEF Ongoing, Running
  <1>5. Contents'
    <2>1. PICK T : Closed(T) /\ mem \in Memory(T)
      BY DEF ModeInv, Contents
    <2>2. PICK P, U : P = {<<"v", iv[j]>> : j \in Blocks} /\ U = T \cup P
      OBVIOUS
    <2>3. \A p \in P : p[1] \notin {"E", "D"}
      BY <2>2
    <2>4. Closed(U) /\ mem \in Memory(U)
      BY <2>1, <2>2, <2>3, ClosedPlain, MemoryGrows
    <2>5. prev \in [Blocks -> SUBSET U]
      BY <1>1, <2>2 DEF Lit
    <2> QED BY <1>2, <1>3, <2>4, <2>5 DEF Contents
  <1>6. WritesOnlyItsRange'
    BY <1>3 DEF WritesOnlyItsRange
  <1> QED BY <1>2, <1>4, <1>5, <1>6 DEF ModeInv

\* What a helper leaves of the call: it is over, and was no cipher call.
LEMMA HelperEffect ==
  ASSUME CallFits, NEW op \in {"pad", "unpad"}, NEW in \in Buffers, NEW out \in Buffers,
         NEW len \in Lens, NEW s, NEW ans, NEW off \in Nat,
         Helper(op, in, out, len, s, ans, off)
  PROVE  /\ CallFits' /\ ~Running' /\ ~IsCipher' /\ Ongoing'
         /\ call'.out = out /\ call'.off = off
         /\ before'.mem = mem
  <1>1. call' = [NoCall EXCEPT !.op = op, !.in = in, !.out = out, !.len = len,
                              !.off = off, !.ans = ans, !.text = s]
    BY DEF Helper
  <1>2. /\ CallFits' /\ call'.op = op /\ call'.st = "Ok" /\ call'.out = out
        /\ call'.off = off
    BY <1>1 DEF NoCall, CallFits, Fields
  <1> QED BY <1>2 DEF Helper, Running, IsCipher, Ongoing

\* The padding of a text is a text.
LEMMA PaddingBytes ==
  ASSUME NEW s \in Seq(Nat)
  PROVE  pkcs7Pad(s, Cap, BlockLen) \in Seq(Nat)
  <1>1. PICK padLen \in Nat : padLen = BlockLen - (Len(s) % BlockLen)
    <2>1. PICK n \in Nat : n = Len(s)
      BY LenProperties
    <2>2. (n % BlockLen) \in 0 .. BlockLen - 1
      OBVIOUS
    <2>3. PICK r \in 0 .. BlockLen - 1 : r = n % BlockLen
      BY <2>2
    <2>4. BlockLen - r \in Nat
      OBVIOUS
    <2> QED BY <2>1, <2>3, <2>4
  <1>2. Repeat(padLen, padLen) \in Seq(Nat)
    <2>1. Repeat(padLen, padLen) \in [1..padLen -> Nat]
      BY DEF Repeat
    <2> QED BY <2>1, IsASeq
  <1>3. s \o Repeat(padLen, padLen) \in Seq(Nat) /\ << >> \in Seq(Nat)
    BY <1>2, ConcatProperties
  <1> QED BY <1>1, <1>3 DEF pkcs7Pad

\* pkcs7Pad writes behind the message, inside the buffer it was given.
LEMMA PadKeeps ==
  ASSUME ModeInv, NEW in \in Buffers, NEW out \in Buffers, NEW len \in Lens,
         Pad(in, out, len)
  PROVE  ModeInv'
  <1>1. PICK s, p : /\ s = TextOf(SubSeq(mem[in], 1, len))
                    /\ p = pkcs7Pad(s, Cap, BlockLen)
                    /\ Helper("pad", in, out, len, s, Len(p), Len(p))
                    /\ mem' = Put(out, 0, [i \in 1..Len(p) |-> Lit(p[i])])
    BY DEF Pad
  <1>2. PICK T : Closed(T) /\ mem \in Memory(T)
    BY DEF ModeInv, Contents
  <1>3. s \in Seq(Nat)
    <2>1. PICK bytes : bytes = SubSeq(mem[in], 1, len)
      OBVIOUS
    <2>2. mem[in] \in Seq(SUBSET T) /\ Len(mem[in]) = Cap
      <3>1. mem[in] \in [1..Cap -> SUBSET T] /\ Cap \in Nat
        BY <1>2 DEF Memory
      <3> QED BY <3>1, IsASeq, LenProperties
    <2>3. Len(bytes) \in Nat
      <3>1. bytes \in Seq(SUBSET T)
        BY <2>1, <2>2, SubSeqProperties
      <3> QED BY <3>1, LenProperties
    <2>4. IsText(bytes)
      BY <2>1 DEF Pad
    <2>5. TextOf(bytes) \in [1..Len(bytes) -> Nat]
      BY <2>4 DEF TextOf, IsText, ByteVals
    <2> QED BY <1>1, <2>1, <2>3, <2>5, IsASeq
  <1>4. p \in Seq(Nat) /\ Len(p) \in Nat
    BY <1>1, <1>3, PaddingBytes, LenProperties
  <1>5. PICK n \in Nat : n = Len(p)
    BY <1>4
  <1>6. PICK P, U : P = {<<"v", p[i]>> : i \in 1..n} /\ U = T \cup P
    OBVIOUS
  <1>7. Closed(U) /\ mem \in Memory(U)
    <2>1. \A t \in P : t[1] \notin {"E", "D"}
      BY <1>6
    <2> QED BY <1>2, <1>6, <2>1, ClosedPlain, MemoryGrows
  <1>8. PICK x \in [1..n -> SUBSET U] : x = [i \in 1..n |-> Lit(p[i])]
    BY <1>6 DEF Lit
  <1>9. mem' \in Memory(U) /\ Overwrites(mem', out, 0, n, x)
    BY <1>1, <1>5, <1>7, <1>8, PutEffect
  <1>10. /\ CallFits' /\ ~Running' /\ ~IsCipher' /\ Ongoing'
         /\ call'.out = out /\ call'.off = n
         /\ before'.mem = mem
    BY <1>1, <1>5, HelperEffect DEF ModeInv
  <1>11. Contents'
    BY <1>7, <1>9, <1>10 DEF Contents
  <1>12. WritesOnlyItsRange'
    <2> SUFFICES ASSUME NEW b \in Buffers, NEW i \in 1..Cap,
                        mem'[b][i] # before'.mem[b][i]
                 PROVE  b = call'.out /\ i <= call'.off
      BY <1>5, <1>10 DEF WritesOnlyItsRange
    <2> QED BY <1>9, <1>10 DEF Overwrites
  <1> QED BY <1>10, <1>11, <1>12 DEF ModeInv

\* pkcs7Unpad writes nothing.
LEMMA UnpadKeeps ==
  ASSUME ModeInv, NEW in \in Buffers, NEW len \in Lens, Unpad(in, len)
  PROVE  ModeInv'
  <1>1. PICK s : Helper("unpad", in, in, len, s, pkcs7Unpad(s, BlockLen), 0)
    BY DEF Unpad
  <1>2. /\ CallFits' /\ ~Running' /\ Ongoing' /\ before'.mem = mem /\ mem' = mem
    BY <1>1, HelperEffect DEF ModeInv, Unpad
  <1> QED BY <1>2 DEF ModeInv, Contents, WritesOnlyItsRange

\* The application has filled the buffers.
LEMMA FilledBuffers ==
  ASSUME NEW t \in Texts
  PROVE  \E T : Closed(T) /\ Filled(t) \in Memory(T)
  <1>1. PICK T : T = {<<"v", t[i]>> : i \in 1..Cap} \cup {<<"junk", 0>>}
    OBVIOUS
  <1>2. \A p \in T : p[1] \notin {"E", "D"}
    BY <1>1
  <1>3. Filled(t) \in Memory(T)
    BY <1>1 DEF Filled, Memory, Lit, Junk
  <1> QED BY <1>2, <1>3 DEF Closed

\* The next call finds fresh buffers.
LEMMA StartOverKeeps == StartOver => ModeInv'
  <1> SUFFICES ASSUME StartOver PROVE ModeInv'
    OBVIOUS
  <1>1. PICK t \in Texts : mem' = Filled(t)
    BY DEF StartOver
  <1>2. call' = NoCall /\ before'.mem = mem'
    BY DEF StartOver
  <1>3. CallFits' /\ call'.st = "Ok"
    BY <1>2 DEF NoCall, CallFits, Fields
  <1> QED BY <1>1, <1>2, <1>3, FilledBuffers
        DEF ModeInv, Contents, Ongoing, Running, WritesOnlyItsRange

\* The invariant holds before the first call.
LEMMA ModeInit == Init => ModeInv
  <1> SUFFICES ASSUME Init PROVE ModeInv
    OBVIOUS
  <1>1. PICK t \in Texts : mem = Filled(t)
    BY DEF Init
  <1>2. call = NoCall /\ before.mem = mem
    BY DEF Init
  <1>3. CallFits /\ call.st = "Ok"
    BY <1>2 DEF NoCall, CallFits, Fields
  <1> QED BY <1>1, <1>2, <1>3, FilledBuffers
        DEF ModeInv, Contents, Ongoing, Running, WritesOnlyItsRange

\* Every step keeps the invariant.
LEMMA ModeInductive == ModeInv /\ [Next]_vars => ModeInv'
  <1> SUFFICES ASSUME ModeInv, [Next]_vars PROVE ModeInv'
    OBVIOUS
  <1>1. ASSUME NEW in \in Buffers, NEW out \in Buffers, NEW len \in Lens,
               NEW op \in Cbc, aesCbc(op, in, out, len)
        PROVE  ModeInv'
    <2>1. PICK st \in {"BadParam", "Ok", "running"} :
            /\ st = IF len % BlockLen # 0 THEN "BadParam" ELSE StartOf(len)
            /\ Enter(op, in, out, len, st)
      BY <1>1 DEF aesCbc, StartOf
    <2>2. st = "running" => len > 0 /\ len % BlockLen = 0
      BY <2>1 DEF StartOf
    <2> QED BY <2>1, <2>2, EnterKeeps
  <1>2. ASSUME NEW in \in Buffers, NEW out \in Buffers, NEW len \in Lens,
               aesCtr(in, out, len)
        PROVE  ModeInv'
    <2>1. PICK st \in {"BadParam", "Ok", "running"} :
            st = StartOf(len) /\ Enter("ctr", in, out, len, st)
      BY <1>2 DEF aesCtr, StartOf
    <2>2. (st = "running" => len > 0) /\ "ctr" \notin Cbc
      BY <2>1 DEF StartOf, Cbc
    <2> QED BY <2>1, <2>2, EnterKeeps
  <1>3. CASE Start
    BY <1>1, <1>2, <1>3, PadKeeps, UnpadKeeps DEF Start, Cbc
  <1>4. CASE UNCHANGED vars
    BY <1>4 DEF vars, ModeInv, CallFits, Ongoing, Running, Contents, WritesOnlyItsRange, IsCipher
  <1> QED BY <1>3, <1>4, StartOverKeeps, CbcEncryptKeeps, CbcDecryptKeeps, CtrKeeps,
             EcbFailsKeeps DEF Next

\* No call writes past the length it was given or into the other buffer, nor, at
\* any block, past what it has done so far (WritesOnlyItsRange): in place or not,
\* with a ragged last block, and when the ECB peripheral fails.
THEOREM OnlyItsRange == Spec => []WritesOnlyItsRange
  <1>1. ModeInv => WritesOnlyItsRange
    BY DEF ModeInv
  <1> QED BY <1>1, ModeInit, ModeInductive, PTL DEF Spec

-----------------------------------------------------------------------------
(* CBC decryption *)

\* The i-th byte of the CBC plaintext of a text under the initial vector v
PlainByte(text, v, i) ==
  LET n == ((i - 1) \div BlockLen) + 1
  IN xorBlock(D(BlockOf(text, n)), IF n = 1 THEN v ELSE BlockOf(text, n - 1))
       [i - (n - 1) * BlockLen]

\* Whole blocks are done, each is the plaintext block, and the block chained on is
\* the last ciphertext block of the input as it was
DecInv ==
  call.op = "cbcDec" /\ ~OverlapsBadly =>
    /\ \E k \in Nat : call.off = k * BlockLen
    /\ Running => \A j \in Blocks :
         call.prev[j] = IF call.off = 0 THEN IvBlock[j]
                        ELSE before.mem[call.in][call.off - BlockLen + j]
    /\ \A i \in 1..call.off :
         mem[call.out][i] = PlainByte(before.mem[call.in], IvBlock, i)

\* Byte j of block k + 1, block 1 being the first.
LEMMA BlockIndex ==
  ASSUME NEW k \in Nat, NEW j \in Blocks
  PROVE  ((k * BlockLen + j) - 1) \div BlockLen = k
  <1>1. PICK r \in 0 .. BlockLen - 1 : r = j - 1
    BY DEF Blocks
  <1>2. PICK i \in Nat : i = k * BlockLen + r
    OBVIOUS
  <1>3. PICK q \in Nat : q = i \div BlockLen
    OBVIOUS
  <1>4. PICK m \in 0 .. BlockLen - 1 : q * BlockLen + m = i
    <2>1. (i % BlockLen) \in 0 .. BlockLen - 1
      OBVIOUS
    <2>2. (i \div BlockLen) * BlockLen + (i % BlockLen) = i
      OBVIOUS
    <2> QED BY <1>3, <2>1, <2>2
  <1>5. ~(q < k)
    <2>1. q < k => (q + 1) * BlockLen <= k * BlockLen
      OBVIOUS
    <2>2. (q + 1) * BlockLen = q * BlockLen + BlockLen
      OBVIOUS
    <2> QED BY <1>2, <1>4, <2>1, <2>2
  <1>6. ~(k < q)
    <2>1. k < q => (k + 1) * BlockLen <= q * BlockLen
      OBVIOUS
    <2>2. (k + 1) * BlockLen = k * BlockLen + BlockLen
      OBVIOUS
    <2> QED BY <1>2, <1>4, <2>1, <2>2
  <1>7. (k * BlockLen + j) - 1 = i
    BY <1>1, <1>2 DEF Blocks
  <1> QED BY <1>3, <1>5, <1>6, <1>7

\* A byte of the plaintext of a block.
LEMMA PlainByteIs ==
  ASSUME NEW text, NEW v, NEW k \in Nat, NEW j \in Blocks
  PROVE  PlainByte(text, v, k * BlockLen + j) =
           xorBlock(D(BlockOf(text, k + 1)), IF k = 0 THEN v ELSE BlockOf(text, k))[j]
  <1>1. PICK i \in Int : i = k * BlockLen + j
    BY DEF Blocks
  <1>2. (i - 1) \div BlockLen = k
    BY <1>1, BlockIndex
  <1>3. i - (k + 1 - 1) * BlockLen = j
    BY <1>1 DEF Blocks
  <1>4. PlainByte(text, v, i) =
          xorBlock(D(BlockOf(text, k + 1)), IF k + 1 = 1 THEN v ELSE BlockOf(text, k + 1 - 1))[j]
    BY <1>2, <1>3 DEF PlainByte
  <1>5. (k + 1 = 1 <=> k = 0) /\ k + 1 - 1 = k
    OBVIOUS
  <1> QED BY <1>1, <1>4, <1>5

\* As the chaining writes it.
LEMMA PlainByteOf ==
  ASSUME NEW text, NEW v, NEW k \in Nat, NEW j \in Blocks,
         DOMAIN D(BlockOf(text, k + 1)) = Blocks
  PROVE  PlainByte(text, v, k * BlockLen + j) =
           Xor(D(BlockOf(text, k + 1))[j],
               IF k = 0 THEN v[j] ELSE text[(k - 1) * BlockLen + j])
  <1>1. k # 0 => BlockOf(text, k)[j] = text[(k - 1) * BlockLen + j]
    BY DEF BlockOf
  <1>2. PlainByte(text, v, k * BlockLen + j) =
          xorBlock(D(BlockOf(text, k + 1)), IF k = 0 THEN v ELSE BlockOf(text, k))[j]
    BY PlainByteIs
  <1> QED BY <1>1, <1>2 DEF xorBlock

\* One more block of CBC decryption is the standard's.
LEMMA DecryptStep == ModeInv /\ DecInv /\ CbcDecryptBlock => DecInv'
  <1> SUFFICES ASSUME ModeInv, DecInv, CbcDecryptBlock, ~OverlapsBadly' PROVE DecInv'
    BY DEF DecInv
  <1>1. CallFits /\ Ongoing /\ Running /\ call.op = "cbcDec"
    BY DEF ModeInv, CbcDecryptBlock
  <1>2. call.off + BlockLen <= call.len /\ call.off + BlockLen <= Cap
    BY <1>1, WholeBlockLeft DEF Cbc, CallFits
  <1>3. PICK T : Closed(T) /\ mem \in Memory(T) /\ call.prev \in [Blocks -> SUBSET T]
    BY <1>1 DEF ModeInv, Contents
  <1>4. PICK text, v, y, x :
          /\ text = before.mem[call.in] /\ v = IvBlock
          /\ y = BlockAt(call.in, call.off, BlockLen)
          /\ x = xorBlock(D(y), call.prev)
    OBVIOUS
  <1>5. PICK prev : /\ prev = [j \in Blocks |-> mem'[call.in][call.off + j]]
                    /\ Advance(BlockLen, prev, call.ctr)
    BY DEF CbcDecryptBlock
  <1>6. /\ call'.op = call.op /\ call'.in = call.in /\ call'.out = call.out
        /\ call'.len = call.len /\ call'.off = call.off + BlockLen /\ call'.prev = prev
        /\ call'.st = IF call.off + BlockLen >= call.len THEN "Ok" ELSE "running"
        /\ before' = before /\ iv' = iv
    BY <1>1, <1>2, <1>5, AdvanceEffect
  <1>7. ~OverlapsBadly
    BY <1>6 DEF OverlapsBadly
  <1>8. PICK k \in Nat : call.off = k * BlockLen
    BY <1>1, <1>7 DEF DecInv
  <1>9. \A j \in Blocks : mem[call.in][call.off + j] = text[call.off + j]
    <2> SUFFICES ASSUME NEW j \in Blocks PROVE mem[call.in][call.off + j] = text[call.off + j]
      OBVIOUS
    <2>1. call.off + j \in 1..Cap /\ ~(call.off + j <= call.off)
      BY <1>1, <1>2 DEF CallFits, Blocks
    <2> QED BY <1>1, <1>4, <2>1 DEF ModeInv, WritesOnlyItsRange, Running, CallFits
  <1>10. y = BlockOf(text, k + 1)
    <2>1. PICK off \in Nat : off = call.off /\ off = (k + 1 - 1) * BlockLen
      BY <1>1, <1>8 DEF CallFits
    <2>2. BlockOf(text, k + 1) = [j \in Blocks |-> text[off + j]]
      BY <2>1 DEF BlockOf
    <2>3. y = [j \in Blocks |-> mem[call.in][off + j]]
      BY <1>4, <2>1 DEF BlockAt, Blocks
    <2>4. \A j \in Blocks : mem[call.in][off + j] = text[off + j]
      BY <1>9, <2>1
    <2> QED BY <2>2, <2>3, <2>4
  <1>11. PICK U : T \subseteq U /\ Closed(U) /\ D(y) \in [Blocks -> SUBSET U]
    <2>1. y \in [Blocks -> SUBSET T]
      BY <1>1, <1>2, <1>3, <1>4, ReadBytes DEF CallFits, Blocks
    <2> QED BY <1>3, <2>1, DecryptedBlock
  <1>12. \A j \in Blocks :
           x[j] = Xor(D(y)[j], call.prev[j])
    BY <1>4, <1>11 DEF xorBlock
  <1>13. \A j \in Blocks : x[j] = PlainByte(text, v, call.off + j)
    <2> SUFFICES ASSUME NEW j \in Blocks PROVE x[j] = PlainByte(text, v, call.off + j)
      OBVIOUS
    <2>1. call.prev[j] = IF call.off = 0 THEN v[j] ELSE text[call.off - BlockLen + j]
      BY <1>1, <1>4, <1>7 DEF DecInv
    <2>2. call.off = 0 <=> k = 0
      BY <1>8
    <2>3. k # 0 => call.off - BlockLen + j = (k - 1) * BlockLen + j
      BY <1>8 DEF Blocks
    <2>4. call.prev[j] = IF k = 0 THEN v[j] ELSE text[(k - 1) * BlockLen + j]
      BY <2>1, <2>2, <2>3
    <2>5. PlainByte(text, v, k * BlockLen + j) =
            Xor(D(y)[j], IF k = 0 THEN v[j] ELSE text[(k - 1) * BlockLen + j])
      <3>1. DOMAIN D(BlockOf(text, k + 1)) = Blocks
        BY <1>10, <1>11
      <3>2. PlainByte(text, v, k * BlockLen + j) =
              Xor(D(BlockOf(text, k + 1))[j],
                  IF k = 0 THEN v[j] ELSE text[(k - 1) * BlockLen + j])
        BY <3>1, PlainByteOf
      <3> QED BY <1>10, <3>2
    <2> QED BY <1>8, <1>12, <2>4, <2>5
  <1>14. Overwrites(mem', call.out, call.off, BlockLen, x)
    <2>1. mem \in Memory(U) /\ x \in [1..BlockLen -> SUBSET U]
      BY <1>3, <1>4, <1>11, MemoryGrows, XorBlocks DEF Blocks
    <2>2. mem' = Put(call.out, call.off, x)
      BY <1>4 DEF CbcDecryptBlock
    <2>3. call.out \in Buffers /\ call.off \in Nat /\ BlockLen \in Nat
      BY <1>1 DEF CallFits
    <2> QED BY <2>1, <2>2, <2>3, PutEffect
  <1>15. call'.off = (k + 1) * BlockLen
    BY <1>6, <1>8
  <1>16. ASSUME Running', NEW j \in Blocks
         PROVE  /\ prev[j] = text[call'.off - BlockLen + j]
                /\ call'.off # 0
    <2>1. call.off + BlockLen < call.len
      BY <1>1, <1>6, <1>16 DEF Running, CallFits
    <2>2. call.in # call.out
      BY <1>1, <1>7, <2>1 DEF OverlapsBadly, CallFits
    <2>3. call.off + j \in 1..Cap /\ call'.off - BlockLen + j = call.off + j /\ call'.off # 0
      BY <1>1, <1>2, <1>6 DEF CallFits, Blocks
    <2>4. mem'[call.in][call.off + j] = mem[call.in][call.off + j]
      BY <1>1, <1>14, <2>2, <2>3 DEF Overwrites, CallFits
    <2> QED BY <1>5, <1>9, <2>3, <2>4
  <1>17. ASSUME NEW i \in 1 .. call'.off
         PROVE  mem'[call.out][i] = PlainByte(text, v, i)
    <2>1. i \in 1..Cap /\ i <= call.off + BlockLen /\ call.off \in Nat
      BY <1>1, <1>2, <1>6, <1>17 DEF CallFits
    <2>2. CASE i <= call.off
      <3>1. mem'[call.out][i] = mem[call.out][i]
        BY <1>1, <1>14, <2>1, <2>2 DEF Overwrites, CallFits
      <3> QED BY <1>1, <1>4, <1>7, <2>1, <2>2, <3>1 DEF DecInv
    <2>3. CASE call.off < i
      <3>1. PICK j \in Blocks : j = i - call.off
        BY <2>1, <2>3 DEF Blocks
      <3>2. mem'[call.out][i] = x[j] /\ i = call.off + j
        BY <1>1, <1>14, <2>1, <2>3, <3>1 DEF Overwrites, CallFits
      <3> QED BY <1>13, <3>2
    <2> QED BY <2>1, <2>2, <2>3
  <1>18. IvBlock' = v /\ before'.mem[call'.in] = text
    BY <1>4, <1>6 DEF IvBlock
  <1>19. \E n \in Nat : call'.off = n * BlockLen
    BY <1>15
  <1>20. Running' => \A j \in Blocks :
           call'.prev[j] = IF call'.off = 0 THEN IvBlock'[j]
                           ELSE before'.mem[call'.in][call'.off - BlockLen + j]
    BY <1>6, <1>16, <1>18
  <1>21. \A i \in 1..call'.off :
           mem'[call'.out][i] = PlainByte(before'.mem[call'.in], IvBlock', i)
    BY <1>6, <1>17, <1>18
  <1> QED BY <1>19, <1>20, <1>21, Zenon DEF DecInv

\* The other steps do not decrypt, or begin to.
LEMMA DecInductive == ModeInv /\ DecInv /\ [Next]_vars => DecInv'
  <1> SUFFICES ASSUME ModeInv, DecInv, [Next]_vars PROVE DecInv'
    OBVIOUS
  <1>1. ASSUME NEW op \in Cbc \cup {"ctr"}, NEW in, NEW out, NEW len, NEW st,
               Enter(op, in, out, len, st)
        PROVE  DecInv'
    <2>1. /\ call' = [NoCall EXCEPT !.op = op, !.in = in, !.out = out, !.len = len, !.st = st,
                                    !.prev = [j \in Blocks |-> Lit(iv[j])], !.ctr = iv]
          /\ iv' = iv
      BY <1>1 DEF Enter
    <2>2. call'.off = 0 /\ call'.prev = IvBlock'
      BY <2>1 DEF NoCall, IvBlock
    <2>3. 0 \in Nat /\ 0 = 0 * BlockLen
      OBVIOUS
    <2> QED BY <2>2, <2>3 DEF DecInv
  <1>2. ASSUME call'.op # "cbcDec" PROVE DecInv'
    BY <1>2 DEF DecInv
  <1>3. CASE Start
    <2>1. PICK in \in Buffers, len \in Lens :
            \/ Unpad(in, len)
            \/ \E out \in Buffers :
                 \/ aesCbc("cbcEnc", in, out, len) \/ aesCbc("cbcDec", in, out, len)
                 \/ aesCtr(in, out, len) \/ Pad(in, out, len)
      BY <1>3 DEF Start
    <2>2. ASSUME NEW op \in {"pad", "unpad"}, NEW out, NEW s, NEW ans, NEW off,
                 Helper(op, in, out, len, s, ans, off)
          PROVE  call'.op # "cbcDec"
      BY <2>2 DEF Helper, NoCall
    <2>3. Unpad(in, len) => DecInv'
      BY <1>2, <2>2 DEF Unpad
    <2>4. ASSUME NEW out \in Buffers, Pad(in, out, len) PROVE DecInv'
      BY <1>2, <2>2, <2>4 DEF Pad
    <2>5. ASSUME NEW out \in Buffers,
                 aesCbc("cbcEnc", in, out, len) \/ aesCbc("cbcDec", in, out, len)
                   \/ aesCtr(in, out, len)
          PROVE  DecInv'
      BY <1>1, <2>5 DEF aesCbc, aesCtr, Cbc
    <2> QED BY <2>1, <2>3, <2>4, <2>5
  <1>4. CASE StartOver
    BY <1>2, <1>4 DEF StartOver, NoCall
  <1>5. ASSUME CbcEncryptBlock \/ CtrBlock \/ EcbFails PROVE DecInv'
    <2>1. call.op # "cbcDec" /\ "op" \in DOMAIN call
      BY <1>5 DEF CbcEncryptBlock, CtrBlock, EcbFails, ModeInv, CallFits, Fields
    <2>2. ASSUME NEW n, NEW prev, NEW ctr, Advance(n, prev, ctr) PROVE call'.op = call.op
      BY <2>1, <2>2 DEF Advance
    <2>3. call'.op = call.op
      BY <1>5, <2>1, <2>2 DEF CbcEncryptBlock, CtrBlock, EcbFails
    <2> QED BY <1>2, <2>1, <2>3
  <1>6. CASE UNCHANGED vars
    BY <1>6 DEF vars, DecInv, OverlapsBadly, Running, IvBlock
  <1> QED BY <1>3, <1>4, <1>5, <1>6, DecryptStep DEF Next

-----------------------------------------------------------------------------
(* Numbers, and a counter block as the digits of one *)

\* Induction over the natural numbers, for a set of them.
LEMMA SetInduction ==
  ASSUME NEW S, 0 \in S, \A n \in Nat : n \in S => n + 1 \in S
  PROVE  Nat \subseteq S
  <1> DEFINE R == OpToRel(<, Nat)
             rest == Nat \ S
  <1>1. \A m, n \in Nat : m < n => <<m, n>> \in R
    BY DEF OpToRel
  <1>2. IsWellFoundedOn(R, Nat)
    BY NatLessThanWellFounded
  <1> HIDE DEF R
  <1>3. ASSUME rest # {} PROVE FALSE
    <2>1. PICK x \in rest : \A y \in rest : ~(<<y, x>> \in R)
      BY <1>2, <1>3, WFMin, Zenon
    <2>2. x \in Nat /\ x # 0
      OBVIOUS
    <2>3. x - 1 \in Nat /\ (x - 1) + 1 = x /\ x - 1 < x
      BY <2>2
    <2>4. x - 1 \in rest
      BY <2>2, <2>3
    <2> QED BY <1>1, <2>1, <2>2, <2>3, <2>4
  <1> QED BY <1>3

\* Of two quotients with remainder, neither is larger.
LEMMA QuotientLeq ==
  ASSUME NEW m \in Nat \ {0}, NEW p \in Nat, NEW q \in Nat,
         NEW r \in 0 .. m - 1, NEW s \in 0 .. m - 1, p * m + r = q * m + s
  PROVE  ~(p < q)
  <1> SUFFICES ASSUME p < q PROVE FALSE
    OBVIOUS
  <1>1. PICK d \in Nat : q = (p + 1) + d
    <2>1. q - (p + 1) \in Nat /\ q = (p + 1) + (q - (p + 1))
      OBVIOUS
    <2> QED BY <2>1
  <1>2. q * m = p * m + m + d * m /\ d * m >= 0 /\ p * m \in Nat
    BY <1>1
  <1> QED BY <1>2

\* A number is its quotient and its remainder.
LEMMA Division ==
  ASSUME NEW m \in Nat \ {0}, NEW a \in Nat
  PROVE  \E q \in Nat, r \in 0 .. m - 1 :
           q = a \div m /\ r = a % m /\ a = q * m + r
  <1>1. a \div m \in Nat /\ (a % m) \in 0 .. m - 1 /\ (a \div m) * m + (a % m) = a
    OBVIOUS
  <1> QED BY <1>1

\* And of no other two.
LEMMA DivisionIs ==
  ASSUME NEW m \in Nat \ {0}, NEW q \in Nat, NEW r \in 0 .. m - 1,
         NEW a \in Nat, a = q * m + r
  PROVE  a \div m = q /\ a % m = r
  <1>1. PICK p \in Nat, s \in 0 .. m - 1 : p = a \div m /\ s = a % m /\ a = p * m + s
    BY Division
  <1>2. p * m + s = q * m + r /\ q * m + r = p * m + s
    BY <1>1
  <1>3. p = q
    BY <1>2, QuotientLeq
  <1> QED BY <1>1, <1>2, <1>3

\* The next number has the next quotient when the remainder is the largest one.
LEMMA NextDivision ==
  ASSUME NEW m \in Nat \ {0}, NEW a \in Nat
  PROVE  /\ a % m = m - 1 => (a + 1) \div m = (a \div m) + 1 /\ (a + 1) % m = 0
         /\ a % m # m - 1 => (a + 1) \div m = a \div m /\ (a + 1) % m = (a % m) + 1
  <1>1. PICK q \in Nat, r \in 0 .. m - 1 : q = a \div m /\ r = a % m /\ a = q * m + r
    BY Division
  <1>2. PICK b \in Nat : b = a + 1
    OBVIOUS
  <1>3. CASE r = m - 1
    <2>1. PICK p \in Nat : p = q + 1
      OBVIOUS
    <2>2. b = p * m + 0 /\ 0 \in 0 .. m - 1
      BY <1>1, <1>2, <1>3, <2>1
    <2>3. b \div m = p /\ b % m = 0
      BY <2>2, DivisionIs
    <2> QED BY <1>1, <1>2, <1>3, <2>1, <2>3
  <1>4. CASE r # m - 1
    <2>1. PICK s \in 0 .. m - 1 : s = r + 1
      BY <1>4
    <2>2. b = q * m + s
      BY <1>1, <1>2, <2>1
    <2>3. b \div m = q /\ b % m = s
      BY <2>2, DivisionIs
    <2> QED BY <1>1, <1>2, <1>4, <2>1, <2>3
  <1> QED BY <1>3, <1>4

\* The next residue.
LEMMA NextResidue ==
  ASSUME NEW m \in Nat \ {0}, NEW a \in Nat
  PROVE  ((a % m) + 1) % m = (a + 1) % m
  <1>1. PICK q \in Nat, r \in 0 .. m - 1 : q = a \div m /\ r = a % m /\ a = q * m + r
    BY Division
  <1>2. PICK c \in Nat : c = r + 1
    OBVIOUS
  <1>3. CASE r = m - 1
    <2>1. c = 1 * m + 0 /\ 0 \in 0 .. m - 1
      BY <1>2, <1>3
    <2>2. c % m = 0
      BY <2>1, DivisionIs
    <2> QED BY <1>1, <1>2, <1>3, <2>2, NextDivision
  <1>4. CASE r # m - 1
    <2>1. c = 0 * m + c /\ c \in 0 .. m - 1
      BY <1>2, <1>4
    <2>2. c % m = c
      BY <2>1, DivisionIs
    <2> QED BY <1>1, <1>2, <1>4, <2>2, NextDivision
  <1> QED BY <1>3, <1>4

\* f is m * x + d[i] applied again and again
Iterates(f, m, a, d, n) ==
  /\ f \in [0..n -> Nat]
  /\ f[0] = a
  /\ \A i \in 1..n : f[i] = m * f[i - 1] + d[i]

\* There is such a function.
LEMMA IteratesExists ==
  ASSUME NEW m \in Nat, NEW a \in Nat, NEW n \in Nat, NEW d \in [1..n -> Nat]
  PROVE  \E f : Iterates(f, m, a, d, n)
  <1> DEFINE S == {k \in Nat : k <= n => \E f : Iterates(f, m, a, d, k)}
  <1>1. 0 \in S
    <2>1. PICK f \in [0..0 -> Nat] : f = [i \in 0..0 |-> a]
      OBVIOUS
    <2>2. Iterates(f, m, a, d, 0)
      BY <2>1 DEF Iterates
    <2> QED BY <2>2
  <1>2. ASSUME NEW k \in Nat, k \in S PROVE k + 1 \in S
    <2> SUFFICES ASSUME k + 1 <= n PROVE \E f : Iterates(f, m, a, d, k + 1)
      OBVIOUS
    <2>1. PICK f : Iterates(f, m, a, d, k)
      BY <1>2
    <2>2. PICK e \in Nat : e = d[k + 1]
      OBVIOUS
    <2>3. PICK v \in Nat : v = m * f[k] + e
      <3>1. PICK x \in Nat : x = f[k]
        BY <2>1 DEF Iterates
      <3>2. m * x + e \in Nat
        OBVIOUS
      <3> QED BY <3>1, <3>2
    <2>4. PICK g \in [0..k + 1 -> Nat] : g = [i \in 0..k + 1 |-> IF i <= k THEN f[i] ELSE v]
      <3>1. \A i \in 0..k + 1 : (IF i <= k THEN f[i] ELSE v) \in Nat
        BY <2>1 DEF Iterates
      <3> QED BY <3>1
    <2>5. ASSUME NEW i \in 1..k + 1 PROVE g[i] = m * g[i - 1] + d[i]
      <3>1. CASE i <= k
        <4>1. g[i] = f[i] /\ g[i - 1] = f[i - 1] /\ i \in 1..k
          BY <2>4, <3>1
        <4> QED BY <2>1, <4>1 DEF Iterates
      <3>2. CASE i = k + 1
        <4>1. g[i] = v /\ g[i - 1] = f[k]
          BY <2>4, <3>2
        <4> QED BY <2>2, <2>3, <3>2, <4>1
      <3> QED BY <3>1, <3>2
    <2>6. g[0] = a
      BY <2>1, <2>4 DEF Iterates
    <2>7. Iterates(g, m, a, d, k + 1)
      BY <2>5, <2>6 DEF Iterates
    <2> QED BY <2>7
  <1> HIDE DEF S
  <1>3. Nat \subseteq S
    BY <1>1, <1>2, SetInduction
  <1> QED BY <1>3 DEF S

\* The weights of the bytes of a counter.
LEMMA WeightFacts ==
  /\ Weight \in [Blocks -> Nat \ {0}]
  /\ Weight[BlockLen] = 1
  /\ \A j \in Blocks : j # BlockLen => j + 1 \in Blocks /\ Weight[j] = ByteMod * Weight[j + 1]
  <1> DEFINE IsWeight(w) ==
        w = [j \in 1..BlockLen |-> IF j = BlockLen THEN 1 ELSE ByteMod * w[j + 1]]
  <1>1. \E w : IsWeight(w)
    <2>1. PICK d \in [1..BlockLen -> Nat] : d = [i \in 1..BlockLen |-> 0]
      OBVIOUS
    <2>2. PICK f : Iterates(f, ByteMod, 1, d, BlockLen)
      BY IteratesExists
    <2>3. PICK w : w = [j \in 1..BlockLen |-> f[BlockLen - j]]
      OBVIOUS
    <2>4. ASSUME NEW j \in 1..BlockLen
          PROVE  w[j] = IF j = BlockLen THEN 1 ELSE ByteMod * w[j + 1]
      <3>1. CASE j = BlockLen
        <4>1. w[j] = f[0]
          BY <2>3, <3>1
        <4> QED BY <2>2, <3>1, <4>1 DEF Iterates
      <3>2. CASE j # BlockLen
        <4>1. PICK i \in 1..BlockLen : i = BlockLen - j /\ i - 1 = BlockLen - (j + 1)
          BY <3>2
        <4>2. w[j] = f[i] /\ w[j + 1] = f[i - 1]
          BY <2>3, <3>2, <4>1
        <4>3. f[i] = ByteMod * f[i - 1] + d[i]
          BY <2>2 DEF Iterates
        <4>4. PICK x \in Nat, y \in Nat : x = f[i - 1] /\ y = ByteMod * x
          <5>1. f[i - 1] \in Nat
            BY <2>2 DEF Iterates
          <5> QED BY <5>1
        <4>5. d[i] = 0
          BY <2>1
        <4> QED BY <3>2, <4>2, <4>3, <4>4, <4>5
      <3> QED BY <3>1, <3>2
    <2>5. IsWeight(w)
      BY <2>3, <2>4
    <2> QED BY <2>5
  <1>2. Weight = CHOOSE w : IsWeight(w)
    BY DEF Weight
  <1>3. IsWeight(Weight)
    BY <1>1, <1>2
  <1>4. Weight = [j \in Blocks |-> Weight[j]] /\ \A j \in Blocks :
          Weight[j] = IF j = BlockLen THEN 1 ELSE ByteMod * Weight[j + 1]
    BY <1>3 DEF Blocks
  <1> HIDE DEF IsWeight
  <1>5. BlockLen \in Blocks /\ \A j \in Blocks : j # BlockLen => j + 1 \in Blocks
    BY DEF Blocks
  <1>6. \A j \in Blocks : Weight[j] \in Nat \ {0}
    <2> DEFINE S == {k \in Nat : k < BlockLen => Weight[BlockLen - k] \in Nat \ {0}}
    <2>1. 0 \in S
      <3>1. Weight[BlockLen] = 1 /\ BlockLen - 0 = BlockLen
        BY <1>4, <1>5
      <3>2. Weight[BlockLen - 0] \in Nat \ {0}
        BY <3>1
      <3> QED BY <3>2
    <2>2. ASSUME NEW k \in Nat, k \in S PROVE k + 1 \in S
      <3> SUFFICES ASSUME k + 1 < BlockLen PROVE Weight[BlockLen - (k + 1)] \in Nat \ {0}
        OBVIOUS
      <3>1. PICK j \in Blocks : j = BlockLen - (k + 1) /\ j # BlockLen /\ j + 1 = BlockLen - k
        BY DEF Blocks
      <3>2. PICK w \in Nat \ {0} : w = Weight[j + 1]
        BY <2>2, <3>1
      <3>3. Weight[j] = ByteMod * w
        BY <1>4, <3>1, <3>2
      <3>4. ByteMod * w \in Nat \ {0}
        OBVIOUS
      <3> QED BY <3>1, <3>3, <3>4
    <2> HIDE DEF S
    <2>3. Nat \subseteq S
      BY <2>1, <2>2, SetInduction
    <2> SUFFICES ASSUME NEW j \in Blocks PROVE Weight[j] \in Nat \ {0}
      OBVIOUS
    <2>4. PICK k \in Nat : k = BlockLen - j /\ k < BlockLen /\ BlockLen - k = j
      BY DEF Blocks
    <2> QED BY <2>3, <2>4 DEF S
  <1>7. Weight \in [Blocks -> Nat \ {0}]
    BY <1>4, <1>6, Zenon
  <1> QED BY <1>4, <1>5, <1>7
\* One digit and the rest below it.
LEMMA SplitDigit ==
  ASSUME NEW w \in Nat \ {0}, NEW n \in Nat
  PROVE  n % (ByteMod * w) = (ByteMod * w) - 1
           <=> (n \div w) % ByteMod = ByteMod - 1 /\ n % w = w - 1
  <1>0. PICK b \in Nat \ {0} : b = ByteMod
    OBVIOUS
  <1>1. PICK q \in Nat, r \in 0 .. w - 1 : q = n \div w /\ r = n % w /\ n = q * w + r
    BY Division
  <1>2. PICK p \in Nat, e \in 0 .. b - 1 : p = q \div b /\ e = q % b /\ q = p * b + e
    BY Division
  <1>3. PICK u \in Nat \ {0} : u = b * w
    OBVIOUS
  <1>4. PICK s \in Nat : s = e * w + r
    OBVIOUS
  <1>5. s < u
    <2>1. PICK g \in Nat : g = (b - 1) - e
      OBVIOUS
    <2>2. b * w = e * w + g * w + w /\ g * w >= 0
      BY <2>1
    <2> QED BY <1>3, <1>4, <2>2
  <1>6. n = p * u + s /\ s \in 0 .. u - 1
    <2>1. q * w = (p * b) * w + e * w
      BY <1>2
    <2>2. (p * b) * w = p * (b * w)
      OBVIOUS
    <2>3. n = p * (b * w) + s
      BY <1>1, <1>4, <2>1, <2>2
    <2> QED BY <1>3, <1>5, <2>3
  <1>7. n % u = s
    BY <1>6, DivisionIs
  <1>8. s = u - 1 <=> e = b - 1 /\ r = w - 1
    <2>1. CASE e = b - 1
      <3>1. u = e * w + w
        BY <1>3, <2>1
      <3> QED BY <1>4, <2>1, <3>1
    <2>2. CASE e # b - 1
      <3>1. PICK g \in Nat : g = (b - 2) - e
        BY <2>2
      <3>2. b * w = e * w + g * w + w + w /\ g * w >= 0
        BY <3>1
      <3> QED BY <1>3, <1>4, <2>2, <3>2
    <2> QED BY <2>1, <2>2
  <1>9. n % (b * w) = (b * w) - 1 <=> (n \div w) % b = b - 1 /\ n % w = w - 1
    BY <1>1, <1>2, <1>3, <1>7, <1>8
  <1> QED BY <1>0, <1>9

\* All digits below place i are the largest exactly when the number's remainder is.
LEMMA LastDigits ==
  ASSUME NEW n \in Nat
  PROVE  \A i \in Blocks :
           n % Weight[i] = Weight[i] - 1 <=>
             \A k \in i + 1 .. BlockLen : (n \div Weight[k]) % ByteMod = ByteMod - 1
  <1> DEFINE Largest(k) == (n \div Weight[k]) % ByteMod = ByteMod - 1
             Full(i) == n % Weight[i] = Weight[i] - 1
             S == {m \in Nat : \A i \in Blocks : i = BlockLen - m =>
                     (Full(i) <=> \A k \in i + 1 .. BlockLen : Largest(k))}
  <1>1. 0 \in S
    <2>1. n % 1 = 1 - 1
      <3>1. n = n * 1 + 0 /\ 0 \in 0 .. 1 - 1
        OBVIOUS
      <3>2. n % 1 = 0
        BY <3>1, DivisionIs
      <3> QED BY <3>2
    <2>2. Full(BlockLen)
      BY <2>1, WeightFacts
    <2> HIDE DEF Full, Largest
    <2>3. \A i \in Blocks : i = BlockLen - 0 => i = BlockLen /\ i + 1 .. BlockLen = {}
      BY DEF Blocks
    <2> QED BY <2>2, <2>3
  <1>2. ASSUME NEW m \in Nat, m \in S PROVE m + 1 \in S
    <2> SUFFICES ASSUME NEW i \in Blocks, i = BlockLen - (m + 1)
                 PROVE  Full(i) <=> \A k \in i + 1 .. BlockLen : Largest(k)
      OBVIOUS
    <2>1. PICK j \in Blocks : j = i + 1 /\ j = BlockLen - m /\ i # BlockLen
      BY DEF Blocks
    <2>2. Full(j) <=> \A k \in j + 1 .. BlockLen : Largest(k)
      BY <1>2, <2>1
    <2>3. Full(i) <=> Largest(j) /\ Full(j)
      <3>1. PICK w \in Nat \ {0} : w = Weight[j]
        BY WeightFacts
      <3>2. Weight[i] = ByteMod * w
        BY <2>1, <3>1, WeightFacts
      <3>3. n % (ByteMod * w) = (ByteMod * w) - 1
              <=> (n \div w) % ByteMod = ByteMod - 1 /\ n % w = w - 1
        BY SplitDigit
      <3> QED BY <3>1, <3>2, <3>3
    <2> HIDE DEF Full, Largest, S
    <2>4. i + 1 .. BlockLen = {j} \cup (j + 1 .. BlockLen)
      BY <2>1 DEF Blocks
    <2> QED BY <2>2, <2>3, <2>4
  <1> HIDE DEF S
  <1>3. Nat \subseteq S
    BY <1>1, <1>2, SetInduction
  <1> HIDE DEF Full, Largest
  <1>4. ASSUME NEW i \in Blocks
        PROVE  Full(i) <=> \A k \in i + 1 .. BlockLen : Largest(k)
    <2>1. PICK m \in Nat : m = BlockLen - i /\ i = BlockLen - m
      BY DEF Blocks
    <2> QED BY <1>3, <2>1 DEF S
  <1> QED BY <1>4 DEF Full, Largest

\* incrementCounter adds one to the number its block stands for.
LEMMA IncrementAdds ==
  ASSUME NEW n \in Nat
  PROVE  incrementCounter(CounterOf(n)) = CounterOf(n + 1)
  <1>1. PICK c : c = CounterOf(n)
    OBVIOUS
  <1>2. ASSUME NEW i \in Blocks
        PROVE  (IF \A k \in i + 1 .. BlockLen : c[k] = ByteMod - 1
                THEN (c[i] + 1) % ByteMod ELSE c[i]) = CounterOf(n + 1)[i]
    <2>1. PICK w \in Nat \ {0} : w = Weight[i]
      BY WeightFacts
    <2>2. PICK q \in Nat : q = n \div w
      BY Division
    <2>3. c[i] = q % ByteMod /\ CounterOf(n + 1)[i] = ((n + 1) \div w) % ByteMod
      BY <1>1, <2>1, <2>2 DEF CounterOf
    <2>4. (\A k \in i + 1 .. BlockLen : c[k] = ByteMod - 1) <=> n % w = w - 1
      <3>1. \A k \in i + 1 .. BlockLen : k \in Blocks
        BY DEF Blocks
      <3>2. \A k \in i + 1 .. BlockLen : c[k] = (n \div Weight[k]) % ByteMod
        BY <1>1, <3>1 DEF CounterOf
      <3> QED BY <2>1, <3>2, LastDigits
    <2>5. CASE n % w = w - 1
      <3>1. (n + 1) \div w = q + 1
        BY <2>2, <2>5, NextDivision
      <3>2. ((q % ByteMod) + 1) % ByteMod = (q + 1) % ByteMod
        BY NextResidue
      <3> QED BY <2>3, <2>4, <2>5, <3>1, <3>2
    <2>6. CASE n % w # w - 1
      <3>1. (n + 1) \div w = q
        BY <2>2, <2>6, NextDivision
      <3> QED BY <2>3, <2>4, <2>6, <3>1
    <2> QED BY <2>5, <2>6
  <1>3. CounterOf(n + 1) = [i \in Blocks |-> CounterOf(n + 1)[i]]
    BY DEF CounterOf
  <1>4. incrementCounter(c) = [i \in Blocks |-> CounterOf(n + 1)[i]]
    BY <1>2 DEF incrementCounter
  <1> QED BY <1>1, <1>3, <1>4

\* The sum a counter's number is.
LEMMA NumberSum ==
  ASSUME NEW c \in [Blocks -> 0 .. ByteMod - 1]
  PROVE  \E f \in [0..BlockLen -> Nat] :
           /\ f[0] = 0
           /\ \A j \in Blocks : f[j] = f[j - 1] + c[j] * Weight[j]
           /\ NumberOf(c) = f[BlockLen]
  <1> DEFINE IsSum(f) ==
        f = [j \in 0..BlockLen |-> IF j = 0 THEN 0 ELSE f[j - 1] + c[j] * Weight[j]]
  <1>1. PICK d \in [1..BlockLen -> Nat] : d = [j \in 1..BlockLen |-> c[j] * Weight[j]]
    <2>1. ASSUME NEW j \in 1..BlockLen PROVE c[j] * Weight[j] \in Nat
      <3>1. PICK x \in Nat, w \in Nat : x = c[j] /\ w = Weight[j]
        <4>1. j \in Blocks
          BY DEF Blocks
        <4>2. c[j] \in Nat /\ Weight[j] \in Nat
          BY <4>1, WeightFacts
        <4> QED BY <4>2
      <3>2. x * w \in Nat
        OBVIOUS
      <3> QED BY <3>1, <3>2
    <2> QED BY <2>1
  <1>2. \E f : IsSum(f)
    <2>1. PICK f : Iterates(f, 1, 0, d, BlockLen)
      BY IteratesExists
    <2>2. f \in [0..BlockLen -> Nat] /\ f[0] = 0
      BY <2>1 DEF Iterates
    <2>3. ASSUME NEW j \in 1..BlockLen PROVE f[j] = f[j - 1] + c[j] * Weight[j]
      <3>1. f[j] = 1 * f[j - 1] + d[j]
        BY <2>1 DEF Iterates
      <3>2. PICK x \in Nat : x = f[j - 1]
        BY <2>2
      <3>3. f[j] = x + d[j]
        BY <3>1, <3>2
      <3> QED BY <1>1, <3>2, <3>3
    <2>4. ASSUME NEW j \in 0..BlockLen
          PROVE  f[j] = IF j = 0 THEN 0 ELSE f[j - 1] + c[j] * Weight[j]
      BY <2>2, <2>3
    <2>5. f = [j \in 0..BlockLen |-> f[j]]
      BY <2>2
    <2>6. IsSum(f)
      BY <2>4, <2>5
    <2> QED BY <2>6
  <1>3. PICK f : f = CHOOSE g : IsSum(g)
    OBVIOUS
  <1>4. IsSum(f)
    BY <1>2, <1>3
  <1>5. NumberOf(c) = f[BlockLen]
    BY <1>3 DEF NumberOf
  <1>6. f = [j \in 0..BlockLen |-> f[j]] /\ f[0] = 0
        /\ \A j \in 1..BlockLen : f[j] = f[j - 1] + d[j]
    <2>1. f = [j \in 0..BlockLen |-> f[j]] /\ \A j \in 0..BlockLen :
            f[j] = IF j = 0 THEN 0 ELSE f[j - 1] + c[j] * Weight[j]
      BY <1>4
    <2> HIDE DEF IsSum
    <2>2. \A j \in 1..BlockLen : j \in 0..BlockLen /\ j # 0 /\ d[j] = c[j] * Weight[j]
      BY <1>1
    <2>3. 0 \in 0..BlockLen
      OBVIOUS
    <2> QED BY <2>1, <2>2, <2>3
  <1> HIDE DEF IsSum
  <1>7. \A j \in 0..BlockLen : f[j] \in Nat
    <2> DEFINE S == {j \in Nat : j <= BlockLen => f[j] \in Nat}
    <2>1. 0 \in S
      BY <1>6
    <2>2. ASSUME NEW j \in Nat, j \in S PROVE j + 1 \in S
      <3> SUFFICES ASSUME j + 1 <= BlockLen PROVE f[j + 1] \in Nat
        OBVIOUS
      <3>1. f[j] \in Nat /\ j + 1 \in 1..BlockLen /\ (j + 1) - 1 = j
        BY <2>2
      <3>2. f[j + 1] = f[j] + d[j + 1] /\ d[j + 1] \in Nat
        BY <1>6, <3>1
      <3> QED BY <3>1, <3>2
    <2> HIDE DEF S
    <2>3. Nat \subseteq S
      BY <2>1, <2>2, SetInduction
    <2> QED BY <2>3 DEF S
  <1>8. f \in [0..BlockLen -> Nat]
    BY <1>6, <1>7, Zenon
  <1>9. \A j \in Blocks : f[j] = f[j - 1] + c[j] * Weight[j]
    BY <1>1, <1>6 DEF Blocks
  <1> QED BY <1>5, <1>6, <1>8, <1>9

\* The last digit.
LEMMA DigitIs ==
  ASSUME NEW b \in Nat \ {0}, NEW p \in Nat, NEW y \in 0 .. b - 1
  PROVE  (p * b + y) % b = y
  <1>1. PICK n \in Nat : n = p * b + y
    OBVIOUS
  <1>2. n % b = y
    BY <1>1, DivisionIs
  <1> QED BY <1>1, <1>2

\* A digit and what is below it.
LEMMA DigitFits ==
  ASSUME NEW b \in Nat \ {0}, NEW w \in Nat \ {0}, NEW y \in 0 .. b - 1,
         NEW r \in Nat, r < w
  PROVE  y * w + r \in Nat /\ y * w + r < b * w
  <1>1. PICK g \in Nat : g = (b - 1) - y
    OBVIOUS
  <1>2. b * w = y * w + g * w + w /\ g * w >= 0 /\ y * w >= 0 /\ y * w \in Nat
    BY <1>1
  <1> QED BY <1>2

\* A counter block is the digits of its number.
LEMMA DigitsOfNumber ==
  ASSUME NEW c \in [Blocks -> 0 .. ByteMod - 1]
  PROVE  NumberOf(c) \in Nat /\ CounterOf(NumberOf(c)) = c
  <1>1. PICK f \in [0..BlockLen -> Nat] :
           /\ f[0] = 0
           /\ \A j \in Blocks : f[j] = f[j - 1] + c[j] * Weight[j]
           /\ NumberOf(c) = f[BlockLen]
    BY NumberSum
  <1>2. PICK n \in Nat : n = f[BlockLen]
    OBVIOUS
  \* the sum up to j is a multiple of the weight of j, and of digit c[j]
  <1>3. \A j \in Blocks : \E p \in Nat : f[j] = (p * ByteMod + c[j]) * Weight[j]
    <2> DEFINE S == {k \in Nat : \A j \in Blocks : j = k + 1 =>
                       \E p \in Nat : f[j] = (p * ByteMod + c[j]) * Weight[j]}
    <2>1. 0 \in S
      <3> SUFFICES ASSUME NEW j \in Blocks, j = 1
                   PROVE  \E p \in Nat : f[j] = (p * ByteMod + c[j]) * Weight[j]
        OBVIOUS
      <3>1. f[j] = f[j - 1] + c[j] * Weight[j] /\ f[j - 1] = 0
        BY <1>1
      <3>2. PICK x \in Nat, w \in Nat : x = c[j] /\ w = Weight[j]
        BY WeightFacts
      <3>3. 0 + x * w = (0 * ByteMod + x) * w /\ 0 \in Nat
        OBVIOUS
      <3> QED BY <3>1, <3>2, <3>3
    <2>2. ASSUME NEW k \in Nat, k \in S PROVE k + 1 \in S
      <3> SUFFICES ASSUME NEW j \in Blocks, j = (k + 1) + 1
                   PROVE  \E p \in Nat : f[j] = (p * ByteMod + c[j]) * Weight[j]
        OBVIOUS
      <3>1. PICK i \in Blocks : i = k + 1 /\ i = j - 1 /\ i # BlockLen /\ i + 1 = j
        BY DEF Blocks
      <3>2. PICK p \in Nat : f[i] = (p * ByteMod + c[i]) * Weight[i]
        BY <2>2, <3>1
      <3>3. PICK x \in Nat, y \in Nat, w \in Nat : x = c[i] /\ y = c[j] /\ w = Weight[j]
        BY WeightFacts
      <3>4. Weight[i] = ByteMod * w
        BY <3>1, <3>3, WeightFacts
      <3>5. f[j] = f[i] + y * w
        BY <1>1, <3>1, <3>3
      <3>6. PICK q \in Nat : q = p * ByteMod + x
        OBVIOUS
      <3>7. q * (ByteMod * w) + y * w = (q * ByteMod + y) * w
        OBVIOUS
      <3>8. f[j] = (q * ByteMod + y) * w
        BY <3>2, <3>3, <3>4, <3>5, <3>6, <3>7
      <3> QED BY <3>3, <3>8
    <2> HIDE DEF S
    <2>3. Nat \subseteq S
      BY <2>1, <2>2, SetInduction
    <2> SUFFICES ASSUME NEW j \in Blocks
                 PROVE  \E p \in Nat : f[j] = (p * ByteMod + c[j]) * Weight[j]
      OBVIOUS
    <2>4. PICK k \in Nat : j = k + 1
      BY DEF Blocks
    <2> QED BY <2>3, <2>4 DEF S
  \* and what comes after it is less than that weight
  <1>4. \A j \in Blocks : \E r \in Nat : n = f[j] + r /\ r < Weight[j]
    <2> DEFINE S == {k \in Nat : \A j \in Blocks : j = BlockLen - k =>
                       \E r \in Nat : n = f[j] + r /\ r < Weight[j]}
    <2>1. 0 \in S
      <3> SUFFICES ASSUME NEW j \in Blocks, j = BlockLen - 0
                   PROVE  \E r \in Nat : n = f[j] + r /\ r < Weight[j]
        OBVIOUS
      <3>1. Weight[j] = 1 /\ n = f[j]
        BY <1>2, WeightFacts
      <3>2. n = n + 0 /\ 0 < 1 /\ 0 \in Nat
        OBVIOUS
      <3> QED BY <3>1, <3>2
    <2>2. ASSUME NEW k \in Nat, k \in S PROVE k + 1 \in S
      <3> SUFFICES ASSUME NEW i \in Blocks, i = BlockLen - (k + 1)
                   PROVE  \E r \in Nat : n = f[i] + r /\ r < Weight[i]
        OBVIOUS
      <3>1. PICK j \in Blocks : j = i + 1 /\ j = BlockLen - k /\ i # BlockLen /\ j - 1 = i
        BY DEF Blocks
      <3>2. PICK r \in Nat : n = f[j] + r /\ r < Weight[j]
        <4>1. \A b \in Blocks : b = BlockLen - k => \E r \in Nat : n = f[b] + r /\ r < Weight[b]
          BY <2>2
        <4> QED BY <3>1, <4>1
      <3>3. PICK y \in 0 .. ByteMod - 1, w \in Nat \ {0} : y = c[j] /\ w = Weight[j]
        BY WeightFacts
      <3>4. Weight[i] = ByteMod * w
        BY <3>1, <3>3, WeightFacts
      <3>5. PICK a \in Nat : a = f[i]
        BY DEF Blocks
      <3>6. f[j] = a + y * w
        BY <1>1, <3>1, <3>3, <3>5
      <3>7. y * w + r \in Nat /\ y * w + r < ByteMod * w
        BY <3>2, <3>3, DigitFits
      <3>8. PICK s \in Nat : s = y * w + r /\ s < ByteMod * w
        BY <3>7
      <3>9. n = a + s
        BY <3>2, <3>6, <3>8
      <3> QED BY <3>4, <3>5, <3>8, <3>9
    <2> HIDE DEF S
    <2>3. Nat \subseteq S
      BY <2>1, <2>2, SetInduction
    <2> SUFFICES ASSUME NEW j \in Blocks
                 PROVE  \E r \in Nat : n = f[j] + r /\ r < Weight[j]
      OBVIOUS
    <2>4. PICK k \in Nat : k = BlockLen - j /\ j = BlockLen - k
      BY DEF Blocks
    <2> QED BY <2>3, <2>4 DEF S
  <1>5. ASSUME NEW j \in Blocks PROVE (n \div Weight[j]) % ByteMod = c[j]
    <2>1. PICK p \in Nat : f[j] = (p * ByteMod + c[j]) * Weight[j]
      BY <1>3
    <2>2. PICK r \in Nat : n = f[j] + r /\ r < Weight[j]
      BY <1>4
    <2>3. PICK x \in 0 .. ByteMod - 1, w \in Nat \ {0} : x = c[j] /\ w = Weight[j]
      BY WeightFacts
    <2>4. PICK q \in Nat : q = p * ByteMod + x
      OBVIOUS
    <2>5. n = q * w + r /\ r \in 0 .. w - 1
      BY <2>1, <2>2, <2>3, <2>4
    <2>6. n \div w = q
      BY <2>5, DivisionIs
    <2>7. q % ByteMod = x
      <3>1. (p * ByteMod + x) % ByteMod = x
        BY DigitIs
      <3> QED BY <2>4, <3>1
    <2> QED BY <2>3, <2>6, <2>7
  <1>6. CounterOf(n) = [j \in Blocks |-> c[j]]
    BY <1>5 DEF CounterOf
  <1> QED BY <1>1, <1>2, <1>6

-----------------------------------------------------------------------------
(* Encryption can be undone, and CBC encryption unfolded *)

\* A block's image is the image of no other block.
LEMMA OnlyPreimage ==
  ASSUME NEW f, NEW x, NEW z \in Preimages(f, Image(f, x))
  PROVE  z = x
  <1>1. 1 \in Blocks
    BY DEF Blocks
  <1>2. PICK y : y = Image(f, x)
    OBVIOUS
  <1>3. y[1] = {<<f, 1, x>>}
    BY <1>1, <1>2 DEF Image
  <1>4. PICK t : t \in y[1] /\ z = t[3]
    BY <1>2 DEF Preimages
  <1>5. t = <<f, 1, x>>
    BY <1>3, <1>4
  <1> QED BY <1>4, <1>5

\* A block is found again from its image.
LEMMA HasPreimage ==
  ASSUME NEW f, NEW x
  PROVE  x \in Preimages(f, Image(f, x))
  <1>1. 1 \in Blocks
    BY DEF Blocks
  <1>2. PICK y : y = Image(f, x)
    OBVIOUS
  <1>3. y[1] = {<<f, 1, x>>}
    BY <1>1, <1>2 DEF Image
  <1>4. PICK t : t = <<f, 1, x>> /\ t \in y[1] /\ t[1] = f /\ t[3] = x
    <2>1. PICK t : t = <<f, 1, x>>
      OBVIOUS
    <2>2. t[1] = f /\ t[3] = x
      BY <2>1
    <2> QED BY <1>3, <2>1, <2>2
  <1>5. x \in Preimages(f, y)
    <2>1. PICK S : S = {s \in y[1] : s[1] = f}
      OBVIOUS
    <2>2. t \in S
      BY <1>4, <2>1
    <2>3. x \in {s[3] : s \in S}
      BY <1>4, <2>2
    <2> QED BY <1>2, <2>1, <2>3 DEF Preimages
  <1> QED BY <1>2, <1>5

\* Decryption undoes encryption.
LEMMA DecryptsEncrypted ==
  ASSUME NEW T, Closed(T), NEW x \in [Blocks -> SUBSET T]
  PROVE  D(E(x)) = x
  <1>1. CASE Preimages("D", x) # {}
    <2>1. PICK y : y = E(x) /\ y \in Preimages("D", x)
      BY <1>1 DEF E
    <2>2. PICK t \in x[1] : t[1] = "D" /\ y = t[3]
      BY <2>1 DEF Preimages
    <2>3. x = Image("D", y)
      BY <2>1 DEF Preimages
    <2>4. t \in T
      BY <2>2 DEF Blocks
    <2>5. ~Encrypted(y)
      BY <2>2, <2>4 DEF Closed
    <2>6. D(y) = Image("D", y)
      BY <2>5 DEF D, Encrypted
    <2> QED BY <2>1, <2>3, <2>6
  <1>2. CASE Preimages("D", x) = {}
    <2>1. PICK y : y = E(x) /\ y = Image("E", x)
      BY <1>2 DEF E
    <2>2. x \in Preimages("E", y) /\ \A z \in Preimages("E", y) : z = x
      BY <2>1, HasPreimage, OnlyPreimage
    <2>3. D(y) \in Preimages("E", y)
      BY <2>2 DEF D
    <2> QED BY <2>1, <2>2, <2>3
  <1> QED BY <1>1, <1>2

\* f is the function CbcCipherBlock is defined by
IsChain(f, text, v, n) ==
  f = [i \in 0..n |-> IF i = 0 THEN v ELSE E(xorBlock(BlockOf(text, i), f[i - 1]))]

\* The n-th ciphertext block of a text under the initial vector v
CbcBlock(text, v, n) == (CHOOSE f : IsChain(f, text, v, n))[n]

\* What CbcCipherBlock stands for.
LEMMA CipherBlockIs ==
  ASSUME NEW text, NEW n
  PROVE  CbcCipherBlock(text, n) = CbcBlock(text, IvBlock, n)
  BY DEF CbcCipherBlock, CbcBlock, IsChain

\* A chain and one block more.
LEMMA ChainGrows ==
  ASSUME NEW text, NEW v, NEW n \in Nat, NEW f, IsChain(f, text, v, n)
  PROVE  \E g : IsChain(g, text, v, n + 1)
  <1> DEFINE next == E(xorBlock(BlockOf(text, n + 1), f[n]))
             g == [i \in 0..n + 1 |-> IF i <= n THEN f[i] ELSE next]
  <1> HIDE DEF next
  <1>1. \A i \in 0..n : f[i] = IF i = 0 THEN v ELSE E(xorBlock(BlockOf(text, i), f[i - 1]))
    BY DEF IsChain
  <1>2. \A i \in 0..n + 1 :
          g[i] = IF i = 0 THEN v ELSE E(xorBlock(BlockOf(text, i), g[i - 1]))
    <2> TAKE i \in 0..n + 1
    <2>1. CASE i <= n
      <3>1. i \in 0..n /\ (i # 0 => i - 1 \in 0..n /\ i - 1 <= n /\ i - 1 \in 0..n + 1)
        BY <2>1
      <3>2. g[i] = f[i] /\ (i # 0 => g[i - 1] = f[i - 1])
        BY <3>1
      <3> HIDE DEF g
      <3> QED BY <1>1, <3>1, <3>2
    <2>2. CASE ~(i <= n)
      <3>1. i = n + 1 /\ n \in 0..n + 1 /\ i # 0 /\ i - 1 = n
        BY <2>2
      <3>2. g[i] = next /\ g[n] = f[n]
        BY <2>2, <3>1
      <3> HIDE DEF g
      <3> QED BY <3>1, <3>2 DEF next
    <2> QED BY <2>1, <2>2
  <1>3. g = [i \in 0..n + 1 |-> g[i]]
    OBVIOUS
  <1> HIDE DEF g
  <1>4. IsChain(g, text, v, n + 1)
    BY <1>2, <1>3 DEF IsChain
  <1> QED BY <1>4

\* There is a chain of every length.
LEMMA ChainExists ==
  ASSUME NEW text, NEW v
  PROVE  \A n \in Nat : \E f : IsChain(f, text, v, n)
  <1> DEFINE S == {n \in Nat : \E f : IsChain(f, text, v, n)}
  <1>1. 0 \in S
    <2>1. \A i \in 0..0 : i = 0
      OBVIOUS
    <2>2. PICK f : f = [i \in 0..0 |-> v]
      OBVIOUS
    <2>3. [i \in 0..0 |-> v]
            = [i \in 0..0 |-> IF i = 0 THEN v ELSE E(xorBlock(BlockOf(text, i), f[i - 1]))]
      BY <2>1
    <2>4. IsChain(f, text, v, 0)
      BY <2>2, <2>3 DEF IsChain
    <2> QED BY <2>4
  <1>2. \A n \in Nat : n \in S => n + 1 \in S
    BY ChainGrows
  <1> HIDE DEF S
  <1>3. Nat \subseteq S
    BY <1>1, <1>2, SetInduction
  <1> QED BY <1>3 DEF S

\* Two chains agree as far as both go.
LEMMA ChainsAgree ==
  ASSUME NEW text, NEW v, NEW m \in Nat, NEW n \in Nat,
         NEW f, IsChain(f, text, v, m), NEW g, IsChain(g, text, v, n)
  PROVE  \A i \in Nat : i <= m /\ i <= n => f[i] = g[i]
  <1> DEFINE S == {i \in Nat : i <= m /\ i <= n => f[i] = g[i]}
             next(i, c) == E(xorBlock(BlockOf(text, i), c))
  <1>1. \A i \in 0..m : f[i] = IF i = 0 THEN v ELSE next(i, f[i - 1])
    BY DEF IsChain
  <1>2. \A i \in 0..n : g[i] = IF i = 0 THEN v ELSE next(i, g[i - 1])
    BY DEF IsChain
  <1> HIDE DEF next
  <1>3. 0 \in S
    BY <1>1, <1>2
  <1>4. ASSUME NEW i \in Nat, i \in S PROVE i + 1 \in S
    <2> SUFFICES ASSUME i + 1 <= m, i + 1 <= n PROVE f[i + 1] = g[i + 1]
      OBVIOUS
    <2>1. f[i] = g[i]
      BY <1>4
    <2>2. i + 1 \in 0..m /\ i + 1 \in 0..n /\ i + 1 # 0 /\ (i + 1) - 1 = i
      OBVIOUS
    <2>3. f[i + 1] = next(i + 1, f[i])
      BY <1>1, <2>2
    <2>4. g[i + 1] = next(i + 1, g[i])
      BY <1>2, <2>2
    <2> QED BY <2>1, <2>3, <2>4
  <1> HIDE DEF S
  <1>5. Nat \subseteq S
    BY <1>3, <1>4, SetInduction
  <1> QED BY <1>5 DEF S

\* CBC: the first block is chained to the initial vector, each other one to the one
\* before.
LEMMA CbcUnfolds ==
  ASSUME NEW text, NEW v
  PROVE  /\ CbcBlock(text, v, 0) = v
         /\ \A n \in Nat : CbcBlock(text, v, n + 1) =
                             E(xorBlock(BlockOf(text, n + 1), CbcBlock(text, v, n)))
  <1>1. \A n \in Nat : \E f : IsChain(f, text, v, n) /\ CbcBlock(text, v, n) = f[n]
    <2> TAKE n \in Nat
    <2>1. PICK f : f = CHOOSE h : IsChain(h, text, v, n)
      OBVIOUS
    <2>2. \E h : IsChain(h, text, v, n)
      BY ChainExists
    <2>3. IsChain(f, text, v, n)
      BY <2>1, <2>2
    <2> QED BY <2>1, <2>3 DEF CbcBlock
  <1>2. CbcBlock(text, v, 0) = v
    <2>1. PICK f : IsChain(f, text, v, 0) /\ CbcBlock(text, v, 0) = f[0]
      BY <1>1
    <2> QED BY <2>1 DEF IsChain
  <1>3. ASSUME NEW n \in Nat
        PROVE  CbcBlock(text, v, n + 1) = E(xorBlock(BlockOf(text, n + 1), CbcBlock(text, v, n)))
    <2>1. PICK f : IsChain(f, text, v, n) /\ CbcBlock(text, v, n) = f[n]
      BY <1>1
    <2>2. PICK m \in Nat : m = n + 1 /\ m \in 0..m /\ m # 0 /\ m - 1 = n
      OBVIOUS
    <2>3. PICK g : IsChain(g, text, v, m) /\ CbcBlock(text, v, m) = g[m]
      BY <1>1
    <2>4. f[n] = g[n]
      BY <2>1, <2>2, <2>3, ChainsAgree
    <2>5. g[m] = E(xorBlock(BlockOf(text, m), g[m - 1]))
      BY <2>2, <2>3 DEF IsChain
    <2> QED BY <2>1, <2>2, <2>3, <2>4, <2>5
  <1> QED BY <1>2, <1>3

-----------------------------------------------------------------------------
(* CBC encryption and CTR, block by block *)

\* Byte i of the keystream under the initial counter v
KeyByte(v, i) ==
  LET n == (i - 1) \div BlockLen
  IN E([j \in Blocks |-> Lit(CounterOf(NumberOf(v) + n)[j])])[i - n * BlockLen]

\* Whole blocks are done, each is the standard's and can be decrypted, and the
\* block chained on is the last of them
EncInv ==
  call.op = "cbcEnc" =>
    \E k \in Nat :
      /\ call.off = k * BlockLen
      /\ Running => call.prev = CbcBlock(before.mem[call.in], IvBlock, k)
      /\ \A m \in 0 .. k - 1 :
           /\ BlockOf(mem[call.out], m + 1) = CbcBlock(before.mem[call.in], IvBlock, m + 1)
           /\ D(CbcBlock(before.mem[call.in], IvBlock, m + 1)) =
                xorBlock(BlockOf(before.mem[call.in], m + 1),
                         CbcBlock(before.mem[call.in], IvBlock, m))

\* Whole blocks are done inside the call, the counter is the number of the next
\* one, and each byte is the input's under the keystream
CtrInv ==
  call.op = "ctr" =>
    /\ Running => \E k \in Nat : /\ call.off = k * BlockLen
                                 /\ call.ctr = CounterOf(NumberOf(iv) + k)
    /\ \A i \in 1..call.off :
         mem[call.out][i] = Xor(before.mem[call.in][i], KeyByte(iv, i))

\* What a loop has not come to is still the input.
LEMMA InputKept ==
  ASSUME ModeInv, Running, NEW i \in 1..Cap, call.off < i
  PROVE  mem[call.in][i] = before.mem[call.in][i]
  BY DEF ModeInv, WritesOnlyItsRange, CallFits, Running

\* The next whole block of it.
LEMMA InputBlock ==
  ASSUME ModeInv, Running, call.off + BlockLen <= call.len,
         NEW k \in Nat, call.off = k * BlockLen
  PROVE  BlockAt(call.in, call.off, BlockLen) = BlockOf(before.mem[call.in], k + 1)
  <1>1. PICK off \in Nat : off = call.off /\ off = (k + 1 - 1) * BlockLen
    BY DEF ModeInv, CallFits
  <1>2. BlockOf(before.mem[call.in], k + 1) = [j \in Blocks |-> before.mem[call.in][off + j]]
    BY <1>1 DEF BlockOf
  <1>3. BlockAt(call.in, call.off, BlockLen) = [j \in Blocks |-> mem[call.in][off + j]]
    BY <1>1 DEF BlockAt, Blocks
  <1>4. ASSUME NEW j \in Blocks PROVE mem[call.in][off + j] = before.mem[call.in][off + j]
    <2>1. PICK i \in 1..Cap : i = off + j /\ call.off < i
      BY <1>1 DEF ModeInv, CallFits, Blocks
    <2> QED BY <2>1, InputKept
  <1> QED BY <1>2, <1>3, <1>4

\* One more block of CBC encryption is the standard's, and can be decrypted.
LEMMA EncryptStep == ModeInv /\ EncInv /\ CbcEncryptBlock => EncInv'
  <1> SUFFICES ASSUME ModeInv, EncInv, CbcEncryptBlock PROVE EncInv'
    OBVIOUS
  <1>1. CallFits /\ Ongoing /\ Running /\ call.op = "cbcEnc"
    BY DEF ModeInv, CbcEncryptBlock
  <1>2. call.off + BlockLen <= call.len
    BY <1>1, WholeBlockLeft DEF Cbc
  <1>3. PICK T : Closed(T) /\ mem \in Memory(T) /\ call.prev \in [Blocks -> SUBSET T]
    BY <1>1 DEF ModeInv, Contents
  <1>4. PICK text, v, in, out : /\ text = before.mem[call.in] /\ v = IvBlock
                                /\ in = call.in /\ out = call.out
    OBVIOUS
  <1>5. PICK k \in Nat :
          /\ call.off = k * BlockLen
          /\ call.prev = CbcBlock(text, v, k)
          /\ \A m \in 0 .. k - 1 :
               /\ BlockOf(mem[out], m + 1) = CbcBlock(text, v, m + 1)
               /\ D(CbcBlock(text, v, m + 1)) =
                    xorBlock(BlockOf(text, m + 1), CbcBlock(text, v, m))
    BY <1>1, <1>4 DEF EncInv
  <1>6. PICK x, y : /\ x = xorBlock(BlockAt(call.in, call.off, BlockLen), call.prev)
                    /\ y = E(x)
    OBVIOUS
  <1>7. x = xorBlock(BlockOf(text, k + 1), CbcBlock(text, v, k))
    <2>1. BlockAt(call.in, call.off, BlockLen) = BlockOf(before.mem[call.in], k + 1)
      BY <1>1, <1>2, <1>5, InputBlock
    <2> QED BY <1>4, <1>5, <1>6, <2>1
  <1>8. y = CbcBlock(text, v, k + 1)
    <2>1. CbcBlock(text, v, k + 1) = E(xorBlock(BlockOf(text, k + 1), CbcBlock(text, v, k)))
      <3>1. \A n \in Nat : CbcBlock(text, v, n + 1) =
                              E(xorBlock(BlockOf(text, n + 1), CbcBlock(text, v, n)))
        BY CbcUnfolds, Zenon
      <3> QED BY <3>1
    <2> QED BY <1>6, <1>7, <2>1
  <1>9. x \in [Blocks -> SUBSET T]
    <2>1. BlockAt(call.in, call.off, BlockLen) \in [Blocks -> SUBSET T]
      BY <1>1, <1>2, <1>3, ReadBytes DEF CallFits, Blocks
    <2> QED BY <1>3, <1>6, <2>1, XorBlocks
  <1>10. D(y) = x
    BY <1>3, <1>6, <1>9, DecryptsEncrypted
  <1>11. PICK U : T \subseteq U /\ Closed(U) /\ y \in [Blocks -> SUBSET U]
    BY <1>3, <1>6, <1>9, EncryptedBlock
  <1>12. mem' = Put(call.out, call.off, y) /\ Advance(BlockLen, y, call.ctr)
    BY <1>6 DEF CbcEncryptBlock
  <1>13. /\ call'.op = call.op /\ call'.in = call.in /\ call'.out = call.out
         /\ call'.off = call.off + BlockLen /\ call'.prev = y
         /\ before' = before /\ iv' = iv
    BY <1>1, <1>2, <1>12, AdvanceEffect
  <1>14. Overwrites(mem', out, call.off, BlockLen, y)
    <2>1. mem \in Memory(U) /\ y \in [1..BlockLen -> SUBSET U]
      BY <1>3, <1>11, MemoryGrows DEF Blocks
    <2>2. call.out \in Buffers /\ call.off \in Nat /\ BlockLen \in Nat
      BY <1>1 DEF CallFits
    <2> QED BY <1>4, <1>12, <2>1, <2>2, PutEffect
  <1>15. ASSUME NEW m \in 0..k
         PROVE  /\ BlockOf(mem'[out], m + 1) = CbcBlock(text, v, m + 1)
                /\ D(CbcBlock(text, v, m + 1)) =
                     xorBlock(BlockOf(text, m + 1), CbcBlock(text, v, m))
    <2>1. PICK at \in Nat : at = (m + 1 - 1) * BlockLen /\ at = m * BlockLen
      OBVIOUS
    <2>2. BlockOf(mem'[out], m + 1) = [j \in Blocks |-> mem'[out][at + j]]
      BY <2>1 DEF BlockOf
    <2>3. at + BlockLen <= Cap
      <3>1. PICK g \in Nat : k = m + g
        <4>1. k - m \in Nat /\ k = m + (k - m)
          OBVIOUS
        <4> QED BY <4>1
      <3>2. PICK u \in Nat : u = g * BlockLen
        OBVIOUS
      <3>3. k * BlockLen = at + u
        BY <2>1, <3>1, <3>2
      <3> QED BY <1>1, <1>2, <1>5, <3>3 DEF CallFits
    <2>4. CASE m = k
      <3>1. \A j \in Blocks : mem'[out][at + j] = y[j]
        BY <1>1, <1>4, <1>5, <1>14, <2>1, <2>3, <2>4 DEF Overwrites, CallFits, Blocks
      <3>2. BlockOf(mem'[out], m + 1) = y
        BY <1>11, <2>2, <3>1
      <3> QED BY <1>7, <1>8, <1>10, <2>4, <3>2
    <2>5. CASE m # k
      <3>1. at + BlockLen <= call.off
        <4>1. PICK g \in Nat : k = (m + 1) + g
          <5>1. k - (m + 1) \in Nat /\ k = (m + 1) + (k - (m + 1))
            BY <2>5
          <5> QED BY <5>1
        <4>2. PICK u \in Nat : u = g * BlockLen
          OBVIOUS
        <4>3. k * BlockLen = at + BlockLen + u
          BY <2>1, <4>1, <4>2
        <4> QED BY <1>5, <4>3
      <3>2. \A j \in Blocks : mem'[out][at + j] = mem[out][at + j]
        BY <1>1, <1>4, <1>14, <2>1, <2>3, <3>1 DEF Overwrites, CallFits, Blocks
      <3>3. BlockOf(mem[out], m + 1) = [j \in Blocks |-> mem[out][at + j]]
        BY <2>1 DEF BlockOf
      <3>4. BlockOf(mem'[out], m + 1) = BlockOf(mem[out], m + 1)
        BY <2>2, <3>2, <3>3
      <3>5. m \in 0 .. k - 1
        BY <2>5
      <3> QED BY <1>5, <3>4, <3>5
    <2> QED BY <2>4, <2>5
  <1>16. PICK n \in Nat : n = k + 1 /\ 0 .. n - 1 = 0..k
    OBVIOUS
  <1>17. call'.off = n * BlockLen
    BY <1>5, <1>13, <1>16
  <1>18. before'.mem[call'.in] = text /\ IvBlock' = v /\ mem'[call'.out] = mem'[out]
    BY <1>4, <1>13 DEF IvBlock
  <1>19. call'.prev = CbcBlock(text, v, n)
    BY <1>8, <1>13, <1>16
  <1>20. \A m \in 0 .. n - 1 :
           /\ BlockOf(mem'[out], m + 1) = CbcBlock(text, v, m + 1)
           /\ D(CbcBlock(text, v, m + 1)) =
                xorBlock(BlockOf(text, m + 1), CbcBlock(text, v, m))
    BY <1>15, <1>16
  <1> QED BY <1>17, <1>18, <1>19, <1>20 DEF EncInv

\* One more block of CTR, the last one partial or not, is the standard's.
LEMMA CtrStep == ModeInv /\ CtrInv /\ iv \in Ivs /\ CtrBlock => CtrInv'
  <1> SUFFICES ASSUME ModeInv, CtrInv, iv \in Ivs, CtrBlock PROVE CtrInv'
    OBVIOUS
  <1>1. CallFits /\ Ongoing /\ Running /\ call.op = "ctr"
    BY DEF ModeInv, CtrBlock
  <1>2. PICK n \in Nat \ {0} : /\ n = CtrChunk /\ n <= BlockLen
                               /\ call.off + n <= call.len /\ call.off + n <= Cap
                               /\ n = BlockLen \/ call.off + n = call.len
    <2>1. /\ CtrChunk \in Nat \ {0} /\ CtrChunk <= BlockLen
          /\ call.off + CtrChunk <= call.len /\ call.off + CtrChunk <= Cap
          /\ CtrChunk = BlockLen \/ call.off + CtrChunk = call.len
      BY <1>1 DEF CtrChunk, CallFits, Ongoing
    <2> QED BY <2>1
  <1>3. PICK N \in Nat : N = NumberOf(iv)
    <2>1. iv \in [Blocks -> 0 .. ByteMod - 1]
      BY InputAssumption DEF Blocks
    <2> QED BY <2>1, DigitsOfNumber
  <1>4. PICK k \in Nat : call.off = k * BlockLen /\ call.ctr = CounterOf(N + k)
    BY <1>1, <1>3 DEF CtrInv
  <1>5. PICK c : c = [j \in Blocks |-> Lit(call.ctr[j])]
    OBVIOUS
  <1>6. PICK text, in, out : /\ text = before.mem[call.in]
                             /\ in = call.in /\ out = call.out
    OBVIOUS
  <1>7. PICK x : x = [j \in 1..n |-> Xor(mem[in][call.off + j], E(c)[j])]
    OBVIOUS
  <1>8. mem' = Put(call.out, call.off, x) /\ Advance(n, call.prev, incrementCounter(call.ctr))
    BY <1>2, <1>5, <1>6, <1>7 DEF CtrBlock
  <1>9. /\ call'.op = call.op /\ call'.in = call.in /\ call'.out = call.out
        /\ call'.off = call.off + n /\ call'.ctr = incrementCounter(call.ctr)
        /\ call'.st = IF call.off + n >= call.len THEN "Ok" ELSE "running"
        /\ before' = before /\ iv' = iv
    BY <1>1, <1>2, <1>8, AdvanceEffect
  <1>10. \E U : mem \in Memory(U) /\ x \in [1..n -> SUBSET U]
    <2>1. PICK T : Closed(T) /\ mem \in Memory(T)
      BY DEF ModeInv, Contents
    <2>2. PICK V : V = T \cup {<<"v", call.ctr[j]>> : j \in Blocks}
      OBVIOUS
    <2>3. Closed(V)
      <3>1. PICK P : P = {<<"v", call.ctr[j]>> : j \in Blocks}
        OBVIOUS
      <3>2. \A p \in P : p[1] \notin {"E", "D"}
        BY <3>1
      <3> QED BY <2>1, <2>2, <3>1, <3>2, ClosedPlain
    <2>4. c \in [Blocks -> SUBSET V]
      BY <1>5, <2>2 DEF Lit
    <2>5. PICK U : V \subseteq U /\ Closed(U) /\ E(c) \in [Blocks -> SUBSET U]
      BY <2>3, <2>4, EncryptedBlock
    <2>6. PICK ks \in [Blocks -> SUBSET U] : ks = E(c)
      BY <2>5
    <2>7. mem \in Memory(U)
      BY <2>1, <2>2, <2>5, MemoryGrows
    <2>8. mem[in] \in [1..Cap -> SUBSET U]
      BY <1>1, <1>6, <2>7 DEF Memory, CallFits
    <2>9. \A j \in 1..n : call.off + j \in 1..Cap /\ j \in Blocks
      BY <1>1, <1>2 DEF Blocks, CallFits
    <2>10. \A j \in 1..n : Xor(mem[in][call.off + j], ks[j]) \in SUBSET U
      BY <2>8, <2>9 DEF Xor
    <2> QED BY <1>7, <2>6, <2>7, <2>10
  <1>11. Overwrites(mem', out, call.off, n, x)
    BY <1>1, <1>6, <1>8, <1>10, PutEffect DEF CallFits
  <1>12. ASSUME NEW j \in 1..n
         PROVE  x[j] = Xor(text[call.off + j], KeyByte(iv, call.off + j))
    <2>1. PICK i \in 1..Cap : i = call.off + j /\ call.off < i
      BY <1>1, <1>2 DEF CallFits
    <2>2. mem[in][i] = text[i]
      BY <1>1, <1>6, <2>1, InputKept
    <2>3. j \in Blocks
      BY <1>2 DEF Blocks
    <2>4. (i - 1) \div BlockLen = k
      BY <1>4, <2>1, <2>3, BlockIndex
    <2>5. i - k * BlockLen = j
      BY <1>4, <2>1
    <2>6. KeyByte(iv, i) = E(c)[j]
      BY <1>3, <1>4, <1>5, <2>4, <2>5 DEF KeyByte
    <2> QED BY <1>7, <2>1, <2>2, <2>6
  <1>13. ASSUME NEW i \in 1 .. call'.off
         PROVE  mem'[out][i] = Xor(text[i], KeyByte(iv, i))
    <2>1. i \in 1..Cap /\ i <= call.off + n /\ call.off \in Nat
      BY <1>1, <1>2, <1>9, <1>13 DEF CallFits
    <2>2. CASE i <= call.off
      <3>1. mem'[out][i] = mem[out][i]
        BY <1>1, <1>6, <1>11, <2>1, <2>2 DEF Overwrites, CallFits
      <3> QED BY <1>1, <1>6, <2>1, <2>2, <3>1 DEF CtrInv
    <2>3. CASE call.off < i
      <3>1. PICK j \in 1..n : j = i - call.off
        BY <2>1, <2>3
      <3>2. mem'[out][i] = x[j] /\ i = call.off + j
        BY <1>1, <1>6, <1>11, <2>1, <2>3, <3>1 DEF Overwrites, CallFits
      <3> QED BY <1>12, <3>2
    <2> QED BY <2>1, <2>2, <2>3
  <1>14. ASSUME Running'
         PROVE  \E m \in Nat : /\ call'.off = m * BlockLen
                               /\ call'.ctr = CounterOf(NumberOf(iv) + m)
    <2>1. n = BlockLen
      BY <1>1, <1>2, <1>9, <1>14 DEF Running, CallFits
    <2>2. PICK m \in Nat : m = k + 1
      OBVIOUS
    <2>3. call'.off = m * BlockLen
      BY <1>4, <1>9, <2>1, <2>2
    <2>4. PICK a \in Nat : a = N + k /\ a + 1 = N + m
      BY <2>2
    <2>5. call'.ctr = CounterOf(a + 1)
      BY <1>4, <1>9, <2>4, IncrementAdds
    <2> QED BY <1>3, <2>3, <2>4, <2>5
  <1>15. before'.mem[call'.in] = text /\ mem'[call'.out] = mem'[out] /\ iv' = iv
    BY <1>6, <1>9
  <1> QED BY <1>13, <1>14, <1>15 DEF CtrInv

\* A cipher call that has answered Ok has done all of its input
Finished == IsCipher /\ call.st = "Ok" => call.off = call.len

RunInv == iv \in Ivs /\ EncInv /\ CtrInv /\ Finished

\* A call begins.
LEMMA RunBegins ==
  ASSUME RunInv, NEW op \in Cbc \cup {"ctr"}, NEW in, NEW out, NEW len,
         NEW st \in {"BadParam", "Ok", "running"}, st = "Ok" => len = 0,
         Enter(op, in, out, len, st)
  PROVE  RunInv'
  <1>1. PICK prev : /\ prev = [j \in Blocks |-> Lit(iv[j])]
                    /\ call' = [NoCall EXCEPT !.op = op, !.in = in, !.out = out, !.len = len,
                                              !.st = st, !.prev = prev, !.ctr = iv]
    BY DEF Enter
  <1>2. /\ call'.op = op /\ call'.in = in /\ call'.len = len /\ call'.off = 0
        /\ call'.st = st /\ call'.prev = prev /\ call'.ctr = iv
    BY <1>1 DEF NoCall
  <1>3. iv' = iv /\ iv \in Ivs
    BY DEF Enter, RunInv
  <1>4. prev = IvBlock'
    BY <1>1, <1>3 DEF IvBlock
  <1>5. 0 \in Nat /\ 0 = 0 * BlockLen /\ 0 .. 0 - 1 = {} /\ 1..0 = {}
    OBVIOUS
  <1>6. EncInv'
    <2>1. call'.prev = CbcBlock(before'.mem[call'.in], IvBlock', 0)
      BY <1>2, <1>4, CbcUnfolds
    <2> QED BY <1>2, <1>5, <2>1 DEF EncInv
  <1>7. CtrInv'
    <2>1. PICK N \in Nat : N = NumberOf(iv) /\ CounterOf(N) = iv /\ N + 0 = N
      <3>1. iv \in [Blocks -> 0 .. ByteMod - 1]
        BY <1>3, InputAssumption DEF Blocks
      <3>2. NumberOf(iv) \in Nat /\ CounterOf(NumberOf(iv)) = iv
        BY <3>1, DigitsOfNumber
      <3> QED BY <3>2
    <2>2. call'.off = 0 * BlockLen /\ call'.ctr = CounterOf(NumberOf(iv') + 0)
      BY <1>2, <1>3, <1>5, <2>1
    <2>3. \A i \in 1..call'.off : FALSE
      BY <1>2, <1>5
    <2> QED BY <1>5, <2>2, <2>3 DEF CtrInv
  <1>8. Finished'
    BY <1>2 DEF Finished
  <1> QED BY <1>3, <1>6, <1>7, <1>8 DEF RunInv

\* A pass that reaches the end of the input is the last one.
LEMMA FinishedStep ==
  ASSUME CallFits, Running, NEW n \in Nat, call.off + n <= call.len,
         NEW prev, NEW ctr, Advance(n, prev, ctr)
  PROVE  Finished'
  <1>1. /\ call'.len = call.len /\ call'.off = call.off + n
        /\ call'.st = IF call.off + n >= call.len THEN "Ok" ELSE "running"
    BY AdvanceEffect
  <1> QED BY <1>1 DEF Finished, CallFits

\* The ECB peripheral fails: what was written before stays.
LEMMA RunFails ==
  ASSUME ModeInv, RunInv, EcbFails
  PROVE  RunInv'
  <1>1. CallFits /\ Ongoing /\ Running /\ call.op \in {"cbcEnc", "ctr"}
    BY DEF ModeInv, EcbFails
  <1>2. call' = [call EXCEPT !.st = "InternalError"] /\ before' = before /\ iv' = iv
    BY DEF EcbFails
  <1>3. /\ call'.st = "InternalError"
        /\ call'.op = call.op /\ call'.in = call.in /\ call'.out = call.out
        /\ call'.len = call.len /\ call'.off = call.off
    BY <1>1, <1>2 DEF CallFits, Fields
  <1>4. PICK out : out = call.out /\ out \in Buffers
    BY <1>1 DEF CallFits
  <1>5. \A i \in 1..call.off : mem'[out][i] = mem[out][i]
    <2>1. CASE mem' = mem
      BY <2>1
    <2>2. CASE mem' = Put(call.out, call.off, [j \in Blocks |-> Junk])
      <3>1. PICK T : Closed(T) /\ mem \in Memory(T)
        BY DEF ModeInv, Contents
      <3>2. PICK U : U = T \cup {<<"junk", 0>>}
        OBVIOUS
      <3>3. mem \in Memory(U)
        BY <3>1, <3>2, MemoryGrows
      <3>4. PICK x \in [1..BlockLen -> SUBSET U] : x = [j \in Blocks |-> Junk]
        BY <3>2 DEF Junk, Blocks
      <3>5. Overwrites(mem', out, call.off, BlockLen, x)
        <4>1. call.off \in Nat /\ BlockLen \in Nat
          BY <1>1 DEF CallFits
        <4> QED BY <1>4, <2>2, <3>3, <3>4, <4>1, PutEffect
      <3>6. \A i \in 1..call.off : i \in 1..Cap /\ ~(call.off < i)
        BY <1>1 DEF CallFits, Ongoing
      <3> QED BY <1>4, <3>5, <3>6 DEF Overwrites
    <2> QED BY <2>1, <2>2 DEF EcbFails
  <1>6. ~Running'
    BY <1>3 DEF Running
  <1>7. PICK text, v : text = before.mem[call.in] /\ v = IvBlock
    OBVIOUS
  <1>8. before'.mem[call'.in] = text /\ IvBlock' = v /\ mem'[call'.out] = mem'[out]
    BY <1>2, <1>3, <1>4, <1>7 DEF IvBlock
  <1>9. EncInv'
    <2> SUFFICES ASSUME call.op = "cbcEnc" PROVE EncInv'
      BY <1>3 DEF EncInv
    <2>1. PICK k \in Nat :
            /\ call.off = k * BlockLen
            /\ \A m \in 0 .. k - 1 :
                 /\ BlockOf(mem[out], m + 1) = CbcBlock(text, v, m + 1)
                 /\ D(CbcBlock(text, v, m + 1)) =
                      xorBlock(BlockOf(text, m + 1), CbcBlock(text, v, m))
      BY <1>4, <1>7 DEF RunInv, EncInv
    <2>2. ASSUME NEW m \in 0 .. k - 1
          PROVE  BlockOf(mem'[out], m + 1) = BlockOf(mem[out], m + 1)
      <3>1. PICK at \in Nat : at = (m + 1 - 1) * BlockLen /\ at = m * BlockLen
        OBVIOUS
      <3>2. at + BlockLen <= call.off
        <4>1. PICK g \in Nat : k = (m + 1) + g
          <5>1. k - (m + 1) \in Nat /\ k = (m + 1) + (k - (m + 1))
            OBVIOUS
          <5> QED BY <5>1
        <4>2. PICK u \in Nat : u = g * BlockLen
          OBVIOUS
        <4>3. k * BlockLen = at + BlockLen + u
          BY <3>1, <4>1, <4>2
        <4> QED BY <2>1, <4>3
      <3>3. \A j \in Blocks : at + j \in 1..call.off
        BY <1>1, <3>2 DEF Blocks, CallFits
      <3>4. \A j \in Blocks : mem'[out][at + j] = mem[out][at + j]
        BY <1>5, <3>3
      <3> QED BY <3>1, <3>4 DEF BlockOf
    <2>3. \A m \in 0 .. k - 1 :
            /\ BlockOf(mem'[out], m + 1) = CbcBlock(text, v, m + 1)
            /\ D(CbcBlock(text, v, m + 1)) =
                 xorBlock(BlockOf(text, m + 1), CbcBlock(text, v, m))
      BY <2>1, <2>2
    <2> QED BY <1>3, <1>6, <1>8, <2>1, <2>3 DEF EncInv
  <1>10. CtrInv'
    <2> SUFFICES ASSUME call.op = "ctr" PROVE CtrInv'
      BY <1>3 DEF CtrInv
    <2>1. \A i \in 1..call.off : mem[out][i] = Xor(text[i], KeyByte(iv, i))
      BY <1>4, <1>7 DEF RunInv, CtrInv
    <2>2. \A i \in 1..call.off : mem'[out][i] = Xor(text[i], KeyByte(iv, i))
      BY <1>5, <2>1
    <2> QED BY <1>2, <1>3, <1>6, <1>8, <2>2 DEF CtrInv
  <1>11. Finished'
    BY <1>3 DEF Finished
  <1> QED BY <1>2, <1>9, <1>10, <1>11 DEF RunInv

\* The other steps are no cipher calls.
LEMMA RunInductive == ModeInv /\ RunInv /\ [Next]_vars => RunInv'
  <1> SUFFICES ASSUME ModeInv, RunInv, [Next]_vars PROVE RunInv'
    OBVIOUS
  <1>1. ASSUME ~IsCipher', iv' \in Ivs PROVE RunInv'
    BY <1>1 DEF RunInv, EncInv, CtrInv, Finished, IsCipher
  <1>2. CallFits /\ Ongoing /\ (Running => call.off < call.len) /\ iv \in Ivs
    BY DEF ModeInv, Ongoing, RunInv
  <1>3. CASE Start
    <2>1. PICK in \in Buffers, len \in Lens :
            \/ Unpad(in, len)
            \/ \E out \in Buffers :
                 \/ aesCbc("cbcEnc", in, out, len) \/ aesCbc("cbcDec", in, out, len)
                 \/ aesCtr(in, out, len) \/ Pad(in, out, len)
      BY <1>3 DEF Start
    <2>2. ASSUME NEW op \in {"pad", "unpad"}, NEW out \in Buffers, NEW s, NEW ans,
                 NEW off, Helper(op, in, out, len, s, ans, off)
          PROVE  ~IsCipher' /\ iv' \in Ivs
      BY <1>2, <2>2 DEF Helper, NoCall, IsCipher
    <2>3. Unpad(in, len) => RunInv'
      BY <1>1, <2>2 DEF Unpad
    <2>4. ASSUME NEW out \in Buffers, Pad(in, out, len) PROVE RunInv'
      BY <1>1, <2>2, <2>4 DEF Pad
    <2>5. ASSUME NEW out \in Buffers, NEW op \in Cbc, aesCbc(op, in, out, len)
          PROVE  RunInv'
      <3>1. PICK st \in {"BadParam", "Ok", "running"} :
              /\ st = "Ok" => len = 0
              /\ Enter(op, in, out, len, st)
        BY <2>5 DEF aesCbc, StartOf
      <3> QED BY <3>1, RunBegins
    <2>6. ASSUME NEW out \in Buffers, aesCtr(in, out, len) PROVE RunInv'
      <3>1. PICK st \in {"BadParam", "Ok", "running"} :
              /\ st = "Ok" => len = 0
              /\ Enter("ctr", in, out, len, st)
        BY <2>6 DEF aesCtr, StartOf
      <3> QED BY <3>1, RunBegins
    <2> QED BY <2>1, <2>3, <2>4, <2>5, <2>6 DEF Cbc
  <1>4. CASE StartOver
    BY <1>1, <1>4 DEF StartOver, NoCall, IsCipher
  <1>5. CASE CbcEncryptBlock
    <2>1. Running /\ call.op = "cbcEnc"
      BY <1>5 DEF CbcEncryptBlock
    <2>2. call.off + BlockLen <= call.len
      BY <1>2, <2>1, WholeBlockLeft DEF Cbc
    <2>3. PICK prev, ctr : Advance(BlockLen, prev, ctr)
      BY <1>5 DEF CbcEncryptBlock
    <2>4. Finished'
      BY <1>2, <2>1, <2>2, <2>3, FinishedStep
    <2>5. call'.op = "cbcEnc" /\ iv' = iv
      BY <1>2, <2>1, <2>2, <2>3, AdvanceEffect
    <2>6. EncInv'
      BY <1>5, EncryptStep DEF RunInv
    <2> QED BY <1>2, <2>4, <2>5, <2>6 DEF RunInv, CtrInv
  <1>6. CASE CbcDecryptBlock
    <2>1. Running /\ call.op = "cbcDec"
      BY <1>6 DEF CbcDecryptBlock
    <2>2. call.off + BlockLen <= call.len
      BY <1>2, <2>1, WholeBlockLeft DEF Cbc
    <2>3. PICK prev, ctr : Advance(BlockLen, prev, ctr)
      BY <1>6 DEF CbcDecryptBlock
    <2>4. Finished'
      BY <1>2, <2>1, <2>2, <2>3, FinishedStep
    <2>5. call'.op = "cbcDec" /\ iv' = iv
      BY <1>2, <2>1, <2>2, <2>3, AdvanceEffect
    <2> QED BY <1>2, <2>4, <2>5 DEF RunInv, CtrInv, EncInv
  <1>7. CASE CtrBlock
    <2>1. Running /\ call.op = "ctr"
      BY <1>7 DEF CtrBlock
    <2>2. PICK n \in Nat : n = CtrChunk /\ call.off + n <= call.len
      BY <1>2, <2>1 DEF CtrChunk, CallFits
    <2>3. PICK prev, ctr : Advance(n, prev, ctr)
      BY <1>7, <2>2 DEF CtrBlock
    <2>4. Finished'
      BY <1>2, <2>1, <2>2, <2>3, FinishedStep
    <2>5. call'.op = "ctr" /\ iv' = iv
      BY <1>2, <2>1, <2>2, <2>3, AdvanceEffect
    <2>6. CtrInv'
      BY <1>7, CtrStep DEF RunInv
    <2> QED BY <1>2, <2>4, <2>5, <2>6 DEF RunInv, EncInv
  <1>8. CASE EcbFails
    BY <1>8, RunFails
  <1>9. CASE UNCHANGED vars
    BY <1>9 DEF vars, RunInv, EncInv, CtrInv, Finished, IsCipher, Running, IvBlock
  <1> QED BY <1>3, <1>4, <1>5, <1>6, <1>7, <1>8, <1>9 DEF Next

\* The block byte i is in, and its place there.
LEMMA PlaceOf ==
  ASSUME NEW i \in Nat \ {0}
  PROVE  \E q \in Nat, j \in Blocks : q = (i - 1) \div BlockLen /\ i = q * BlockLen + j
  <1>1. PICK a \in Nat : a = i - 1
    OBVIOUS
  <1>2. PICK q \in Nat, r \in 0 .. BlockLen - 1 : q = a \div BlockLen /\ a = q * BlockLen + r
    BY Division
  <1>3. PICK j \in Blocks : j = r + 1
    BY DEF Blocks
  <1>4. i = q * BlockLen + j
    BY <1>1, <1>2, <1>3
  <1> QED BY <1>1, <1>2, <1>4

\* At every block CBC encryption, CBC decryption and CTR have written what NIST SP
\* 800-38A defines over the input as it was before the call (ModeIsStandard): in
\* place too (but for CBC decryption), with a ragged last block, over every carry
\* and wrap of a counter of any size, and when the ECB peripheral fails.
THEOREM ModesStandard == Spec => []ModeIsStandard
  <1>1. Init => DecInv /\ RunInv
    BY DEF Init, NoCall, DecInv, RunInv, EncInv, CtrInv, Finished, IsCipher
  <1>2. ModeInv /\ DecInv /\ RunInv => ModeIsStandard
    <2> SUFFICES ASSUME ModeInv, DecInv, RunInv, IsCipher, ~OverlapsBadly,
                        NEW i \in 1..call.off
                 PROVE  mem[call.out][i] = Expected(i)
      BY DEF ModeIsStandard
    <2>1. PICK text, v, out : text = before.mem[call.in] /\ v = IvBlock /\ out = call.out
      OBVIOUS
    <2>2. PICK q \in Nat, j \in Blocks : q = (i - 1) \div BlockLen /\ i = q * BlockLen + j
      <3>1. i \in Nat \ {0}
        BY DEF ModeInv, CallFits
      <3> QED BY <3>1, PlaceOf
    <2>3. (q + 1) - 1 = q /\ i - q * BlockLen = j
      BY <2>2 DEF Blocks
    <2>4. CASE call.op = "cbcDec"
      <3>1. Expected(i) = PlainByte(before.mem[call.in], IvBlock, i)
        BY <2>4 DEF Expected, CbcPlainBlock, PlainByte
      <3> QED BY <2>4, <3>1 DEF DecInv
    <2>5. CASE call.op = "cbcEnc"
      <3>1. PICK k \in Nat :
              /\ call.off = k * BlockLen
              /\ \A m \in 0 .. k - 1 : BlockOf(mem[out], m + 1) = CbcBlock(text, v, m + 1)
        BY <2>1, <2>5 DEF RunInv, EncInv
      <3>2. q < k
        <4>1. ASSUME k <= q PROVE FALSE
          <5>1. PICK g \in Nat : q = k + g
            <6>1. q - k \in Nat /\ q = k + (q - k)
              BY <4>1
            <6> QED BY <6>1
          <5>2. PICK u \in Nat : u = g * BlockLen
            OBVIOUS
          <5>3. q * BlockLen = k * BlockLen + u
            BY <5>1, <5>2
          <5> QED BY <2>2, <3>1, <5>3 DEF Blocks
        <4> QED BY <4>1
      <3>3. BlockOf(mem[out], q + 1) = CbcBlock(text, v, q + 1)
        BY <3>1, <3>2
      <3>4. BlockOf(mem[out], q + 1)[j] = mem[out][i]
        <4>1. PICK b : b = BlockOf(mem[out], q + 1)
          OBVIOUS
        <4>2. b = [h \in Blocks |-> mem[out][q * BlockLen + h]]
          BY <2>3, <4>1 DEF BlockOf
        <4> QED BY <2>2, <4>1, <4>2
      <3>5. Expected(i) = CbcBlock(text, v, q + 1)[j]
        BY <2>1, <2>2, <2>3, <2>5, CipherBlockIs DEF Expected
      <3> QED BY <2>1, <3>3, <3>4, <3>5
    <2>6. CASE call.op = "ctr"
      <3>1. mem[out][i] = Xor(text[i], KeyByte(iv, i))
        BY <2>1, <2>6 DEF RunInv, CtrInv
      <3>2. PICK N \in Nat : N = NumberOf(iv)
        <4>1. iv \in [Blocks -> 0 .. ByteMod - 1]
          BY InputAssumption DEF RunInv, Blocks
        <4> QED BY <4>1, DigitsOfNumber
      <3>3. PICK c : c = E([h \in Blocks |-> Lit(CounterOf(N + q)[h])])
        OBVIOUS
      <3>4. KeyByte(iv, i) = c[j]
        BY <2>2, <2>3, <3>2, <3>3 DEF KeyByte
      <3>5. Expected(i) = CtrBlockOf(text, q + 1)[j]
        BY <2>1, <2>2, <2>3, <2>6 DEF Expected
      <3>6. CtrBlockOf(text, q + 1) = xorBlock(BlockOf(text, q + 1), c)
        <4>1. N + (q + 1) - 1 = N + q
          OBVIOUS
        <4> QED BY <3>2, <3>3, <4>1 DEF CtrBlockOf
      <3>7. PICK b : b = BlockOf(text, q + 1)
        OBVIOUS
      <3>8. b = [h \in Blocks |-> text[q * BlockLen + h]]
        BY <2>3, <3>7 DEF BlockOf
      <3>9. xorBlock(b, c)[j] = Xor(b[j], c[j])
        BY <3>8 DEF xorBlock
      <3>10. b[j] = text[i]
        BY <2>2, <3>8
      <3> QED BY <2>1, <3>1, <3>4, <3>5, <3>6, <3>7, <3>9, <3>10
    <2> QED BY <2>4, <2>5, <2>6 DEF IsCipher
  <1> QED BY <1>1, <1>2, ModeInit, ModeInductive, DecInductive, RunInductive, PTL DEF Spec

-----------------------------------------------------------------------------
(* What was encrypted comes back *)

\* Block m + 1 decrypts to the text's, chained to the block before
OpensBlock(bytes, text, v, m) ==
  D(BlockOf(bytes, m + 1)) =
    xorBlock(BlockOf(text, m + 1), IF m = 0 THEN v ELSE BlockOf(bytes, m))

Whole(len) == \E k \in Nat : len = k * BlockLen

\* What is known of a buffer whose plaintext is known: each ciphertext block
\* decrypts to the plaintext chained to the block before, or each byte is the
\* plaintext's under the keystream
SealedAs(bytes, s, v, c) ==
  /\ Len(s.text) \in Nat
  /\ s.how = "cbcEnc" => \A m \in Nat : (m + 1) * BlockLen <= Len(s.text) =>
       OpensBlock(bytes, s.text, v, m)
  /\ s.how = "ctr" => \A i \in 1..Len(s.text) : bytes[i] = Xor(s.text[i], KeyByte(c, i))

Seals(m, s) ==
  /\ DOMAIN s = Buffers
  /\ \A b \in Buffers : SealedAs(m[b], s[b], IvBlock, iv)

SealInv == Seals(mem, sealed) /\ Seals(before.mem, before.sealed)

\* A text is a sequence.
LEMMA TextFacts ==
  ASSUME NEW bytes, NEW len \in Nat
  PROVE  /\ Len(SubSeq(bytes, 1, len)) = len
         /\ \A i \in 1..len : SubSeq(bytes, 1, len)[i] = bytes[i]
  <1>1. PICK S : S = {bytes[i] : i \in 1..len}
    OBVIOUS
  <1>2. PICK s : s = SubSeq(bytes, 1, len)
    OBVIOUS
  <1>3. \A i \in 1..len : bytes[i] \in S
    BY <1>1
  <1>4. /\ Len(s) = IF 1 <= len THEN len - 1 + 1 ELSE 0
        /\ \A i \in 1 .. len - 1 + 1 : s[i] = bytes[1 + i - 1]
    BY <1>2, <1>3, SubSeqProperties
  <1>5. len - 1 + 1 = len /\ \A i \in 1..len : 1 + i - 1 = i
    OBVIOUS
  <1>6. Len(s) = len
    BY <1>4
  <1>7. \A i \in 1..len : s[i] = bytes[i]
    BY <1>4, <1>5
  <1> QED BY <1>2, <1>6, <1>7

\* Texts that agree up to len are one text up to len.
LEMMA SameText ==
  ASSUME NEW x, NEW y, NEW len \in Nat, \A i \in 1..len : x[i] = y[i]
  PROVE  SubSeq(x, 1, len) = SubSeq(y, 1, len)
  <1>1. PICK S : S = {x[i] : i \in 1..len} \cup {y[i] : i \in 1..len}
    OBVIOUS
  <1>2. (\A i \in 1..len : x[i] \in S) /\ (\A i \in 1..len : y[i] \in S)
    BY <1>1
  <1>3. PICK s, t : s = SubSeq(x, 1, len) /\ t = SubSeq(y, 1, len)
    OBVIOUS
  <1>4. s \in Seq(S) /\ t \in Seq(S)
    BY <1>2, <1>3, SubSeqProperties
  <1>5. /\ Len(s) = len /\ \A i \in 1..len : s[i] = x[i]
        /\ Len(t) = len /\ \A i \in 1..len : t[i] = y[i]
    BY <1>3, TextFacts
  <1>6. s = t
    BY <1>4, <1>5, SeqEqual
  <1> QED BY <1>3, <1>6

\* XOR twice gives the byte back.
LEMMA XorTwice ==
  ASSUME NEW x, NEW y
  PROVE  Xor(Xor(x, y), y) = x
  BY DEF Xor

\* Put leaves the other buffer alone.
LEMMA PutElsewhere ==
  ASSUME Contents, NEW o, NEW off, NEW bytes, NEW b \in Buffers, b # o
  PROVE  Put(o, off, bytes)[b] = mem[b]
  <1>1. DOMAIN mem = Buffers
    BY DEF Contents, Memory
  <1> QED BY <1>1 DEF Put

\* A buffer nothing is known of.
LEMMA UnknownSealed ==
  ASSUME NEW bytes, NEW v, NEW c
  PROVE  SealedAs(bytes, Unknown, v, c)
  BY DEF SealedAs, Unknown

\* A block whole in a text cut off behind it.
LEMMA BlockOfText ==
  ASSUME NEW text, NEW len \in Nat, NEW m \in Nat, (m + 1) * BlockLen <= len
  PROVE  BlockOf(SubSeq(text, 1, len), m + 1) = BlockOf(text, m + 1)
  <1>1. PICK at \in Nat : at = (m + 1 - 1) * BlockLen /\ at = m * BlockLen
    OBVIOUS
  <1>2. at + BlockLen <= len
    BY <1>1
  <1>3. \A j \in Blocks : at + j \in 1..len
    BY <1>2 DEF Blocks
  <1>4. \A j \in Blocks : SubSeq(text, 1, len)[at + j] = text[at + j]
    BY <1>3, TextFacts
  <1>5. PICK t, h : t = SubSeq(text, 1, len) /\ h = m + 1
    OBVIOUS
  <1>8. h - 1 = m
    BY <1>5
  <1>9. (h - 1) * BlockLen = at
    BY <1>1, <1>8
  <1>6. \A j \in Blocks : t[at + j] = text[at + j]
    BY <1>4, <1>5
  <1>7. BlockOf(t, h) = BlockOf(text, h)
    BY <1>6, <1>9 DEF BlockOf
  <1> QED BY <1>5, <1>7

\* A pass: the output is known to be sealed when it is the last one.
LEMMA SealAdvance ==
  ASSUME CallFits, RunInv', SealInv, Running, IsCipher, NEW n \in Nat, call.off + n <= call.len,
         NEW prev, NEW ctr, Advance(n, prev, ctr),
         \A b \in Buffers : b # call.out => mem'[b] = mem[b]
  PROVE  SealInv'
  <1>1. /\ call'.op = call.op /\ call'.in = call.in /\ call'.out = call.out
        /\ call'.len = call.len /\ call'.off = call.off + n
        /\ call'.st = IF call.off + n >= call.len THEN "Ok" ELSE "running"
        /\ before' = before /\ iv' = iv
    BY AdvanceEffect
  <1>2. PICK out, in, text, v, len :
          /\ out = call.out /\ in = call.in /\ text = before.mem[call.in]
          /\ v = IvBlock /\ len = call.len
    OBVIOUS
  <1>3. out \in Buffers /\ len \in Nat
    BY <1>2 DEF CallFits
  <1>4. PICK s : /\ s = IF call.off + n >= len /\ call.op # "cbcDec"
                        THEN [how |-> call.op, text |-> SubSeq(text, 1, len)] ELSE Unknown
                 /\ sealed' = [sealed EXCEPT ![out] = s]
    BY <1>2 DEF Advance
  <1>5. DOMAIN sealed' = Buffers /\ sealed'[out] = s
        /\ \A b \in Buffers : b # out => sealed'[b] = sealed[b]
    BY <1>3, <1>4 DEF SealInv, Seals
  <1>6. IvBlock' = v /\ iv' = iv
    BY <1>1, <1>2 DEF IvBlock
  <1>7. SealedAs(mem'[out], s, v, iv)
    <2>1. CASE s = Unknown
      BY <2>1, UnknownSealed
    <2>2. CASE s # Unknown
      <3>1. /\ call.off + n >= len /\ call.op # "cbcDec"
            /\ s = [how |-> call.op, text |-> SubSeq(text, 1, len)]
        BY <1>4, <2>2
      <3>2. s.how = call.op /\ s.text = SubSeq(text, 1, len) /\ Len(s.text) = len
        BY <1>3, <3>1, TextFacts
      <3>3. call'.off = len
        BY <1>1, <1>2, <3>1 DEF RunInv, Finished, IsCipher
      <3>4. ASSUME call.op = "cbcEnc", NEW m \in Nat, (m + 1) * BlockLen <= len
            PROVE  OpensBlock(mem'[out], s.text, v, m)
        <4>1. PICK k \in Nat :
                /\ len = k * BlockLen
                /\ \A h \in 0 .. k - 1 :
                     /\ BlockOf(mem'[out], h + 1) = CbcBlock(text, v, h + 1)
                     /\ D(CbcBlock(text, v, h + 1)) =
                          xorBlock(BlockOf(text, h + 1), CbcBlock(text, v, h))
          BY <1>1, <1>2, <1>6, <3>3, <3>4 DEF RunInv, EncInv
        <4>2. m \in 0 .. k - 1
          <5>1. ASSUME k <= m PROVE FALSE
            <6>1. PICK g \in Nat : m = k + g
              <7>1. m - k \in Nat /\ m = k + (m - k)
                BY <5>1
              <7> QED BY <7>1
            <6>2. PICK u \in Nat : u = g * BlockLen
              OBVIOUS
            <6>3. (m + 1) * BlockLen = k * BlockLen + u + BlockLen
              BY <6>1, <6>2
            <6> QED BY <1>3, <3>4, <4>1, <6>3
          <5> QED BY <5>1
        <4>3. CbcBlock(text, v, m) = IF m = 0 THEN v ELSE BlockOf(mem'[out], m)
          <5>1. CASE m = 0
            BY <5>1, CbcUnfolds
          <5>2. CASE m # 0
            <6>1. PICK h \in 0 .. k - 1 : m = h + 1
              BY <4>2, <5>2
            <6> QED BY <4>1, <5>2, <6>1
          <5> QED BY <5>1, <5>2
        <4>4. BlockOf(s.text, m + 1) = BlockOf(text, m + 1)
          <5>1. BlockOf(SubSeq(text, 1, len), m + 1) = BlockOf(text, m + 1)
            BY <1>3, <3>4, BlockOfText
          <5> QED BY <3>2, <5>1
        <4> QED BY <4>1, <4>2, <4>3, <4>4 DEF OpensBlock
      <3>5. ASSUME call.op = "ctr", NEW i \in 1..len
            PROVE  mem'[out][i] = Xor(s.text[i], KeyByte(iv, i))
        <4>1. mem'[out][i] = Xor(text[i], KeyByte(iv, i))
          BY <1>1, <1>2, <3>3, <3>5 DEF RunInv, CtrInv
        <4>2. s.text[i] = text[i]
          BY <1>3, <3>2, <3>5, TextFacts
        <4> QED BY <4>1, <4>2
      <3> QED BY <1>3, <3>2, <3>4, <3>5 DEF SealedAs
    <2> QED BY <2>1, <2>2
  <1>8. ASSUME NEW b \in Buffers PROVE SealedAs(mem'[b], sealed'[b], v, iv)
    <2>1. CASE b = out
      BY <1>5, <1>7, <2>1
    <2>2. CASE b # out
      <3>1. SealedAs(mem[b], sealed[b], v, iv)
        BY <1>2 DEF SealInv, Seals
      <3> QED BY <1>2, <1>5, <2>2, <3>1
    <2> QED BY <2>1, <2>2
  <1>9. Seals(mem, sealed)'
    BY <1>5, <1>6, <1>8 DEF Seals
  <1>10. Seals(before.mem, before.sealed)'
    BY <1>1, <1>2, <1>6 DEF SealInv, Seals
  <1> QED BY <1>9, <1>10 DEF SealInv

\* Nothing is known of the buffer that was written, and the rest is as it was.
LEMMA SealForgets ==
  ASSUME Seals(mem, sealed), NEW out \in Buffers, iv' = iv,
         sealed' = [sealed EXCEPT ![out] = Unknown],
         \A b \in Buffers : b # out => mem'[b] = mem[b]
  PROVE  Seals(mem, sealed)'
  <1>1. DOMAIN sealed' = Buffers /\ sealed'[out] = Unknown
        /\ \A b \in Buffers : b # out => sealed'[b] = sealed[b]
    BY DEF Seals
  <1>2. PICK v : v = IvBlock /\ IvBlock' = v
    BY DEF IvBlock
  <1>3. ASSUME NEW b \in Buffers PROVE SealedAs(mem'[b], sealed'[b], v, iv)
    <2>1. CASE b = out
      BY <1>1, <2>1, UnknownSealed
    <2>2. CASE b # out
      <3>1. SealedAs(mem[b], sealed[b], v, iv)
        BY <1>2 DEF Seals
      <3> QED BY <1>1, <2>2, <3>1
    <2> QED BY <2>1, <2>2
  <1> QED BY <1>1, <1>2, <1>3 DEF Seals

\* A call begins: the buffers are as they were before it.
LEMMA SealBegins ==
  ASSUME Seals(mem, sealed), iv' = iv, before' = [mem |-> mem, sealed |-> sealed]
  PROVE  Seals(before.mem, before.sealed)'
  <1>1. before'.mem = mem /\ before'.sealed = sealed
    OBVIOUS
  <1>2. PICK v : v = IvBlock /\ IvBlock' = v
    BY DEF IvBlock
  <1> QED BY <1>1, <1>2 DEF Seals

\* Nothing is sealed when the application starts.
LEMMA NothingSeals ==
  ASSUME NEW m
  PROVE  Seals(m, NothingSealed)
  <1>1. DOMAIN NothingSealed = Buffers /\ \A b \in Buffers : NothingSealed[b] = Unknown
    BY DEF NothingSealed
  <1> QED BY <1>1, UnknownSealed DEF Seals

\* pkcs7Pad that is refused writes nothing.
LEMMA PadSeals ==
  ASSUME ModeInv, SealInv, NEW in \in Buffers, NEW out \in Buffers, NEW len \in Lens,
         Pad(in, out, len)
  PROVE  SealInv'
  <1>0. PICK s, p : /\ s = TextOf(SubSeq(mem[in], 1, len))
                    /\ p = pkcs7Pad(s, Cap, BlockLen)
    OBVIOUS
  <1>1. /\ Helper("pad", in, out, len, s, Len(p), Len(p))
        /\ mem' = Put(out, 0, [i \in 1..Len(p) |-> Lit(p[i])])
        /\ sealed' = IF p = <<>> THEN sealed ELSE [sealed EXCEPT ![out] = Unknown]
    BY <1>0 DEF Pad
  <1>2. iv' = iv /\ before' = [mem |-> mem, sealed |-> sealed]
    BY <1>1 DEF Helper
  <1>3. Contents /\ Seals(mem, sealed)
    BY DEF ModeInv, SealInv
  <1>4. Seals(before.mem, before.sealed)'
    BY <1>2, <1>3, SealBegins
  <1>5. Seals(mem, sealed)'
    <2>1. CASE p = <<>>
      <3>1. PICK T : mem \in Memory(T)
        BY <1>3 DEF Contents
      <3>2. PICK bytes \in [1..0 -> SUBSET T] : bytes = [i \in 1..Len(p) |-> Lit(p[i])]
        <4>1. Len(p) = 0
          BY <2>1
        <4>2. PICK bytes : bytes = [i \in 1..Len(p) |-> Lit(p[i])]
          OBVIOUS
        <4>3. bytes = [i \in 1..0 |-> Lit(p[i])] /\ \A i \in 1..0 : FALSE
          BY <4>1, <4>2
        <4>4. \A i \in 1..0 : Lit(p[i]) \in SUBSET T
          BY <4>3
        <4>5. bytes \in [1..0 -> SUBSET T]
          BY <4>3, <4>4
        <4> QED BY <4>2, <4>5
      <3>3. 0 \in Nat
        OBVIOUS
      <3>4. mem' \in Memory(T) /\ Overwrites(mem', out, 0, 0, bytes)
        BY <1>1, <3>1, <3>2, <3>3, PutEffect
      <3>5. \A b \in Buffers, i \in 1..Cap : mem'[b][i] = mem[b][i]
        BY <3>4 DEF Overwrites
      <3>6. mem' = mem
        BY <3>1, <3>4, <3>5 DEF Memory
      <3>7. sealed' = sealed /\ IvBlock' = IvBlock
        BY <1>1, <1>2, <2>1 DEF IvBlock
      <3> QED BY <1>2, <1>3, <3>6, <3>7 DEF Seals
    <2>2. CASE p # <<>>
      <3>1. \A b \in Buffers : b # out => mem'[b] = mem[b]
        BY <1>1, <1>3, PutElsewhere
      <3> QED BY <1>1, <1>2, <1>3, <2>2, <3>1, SealForgets
    <2> QED BY <2>1, <2>2
  <1> QED BY <1>4, <1>5 DEF SealInv

\* Every step keeps what is known of the buffers.
LEMMA SealInductive == ModeInv /\ RunInv /\ RunInv' /\ SealInv /\ [Next]_vars => SealInv'
  <1> SUFFICES ASSUME ModeInv, RunInv, RunInv', SealInv, [Next]_vars PROVE SealInv'
    OBVIOUS
  <1>1. CallFits /\ Ongoing /\ (Running => call.off < call.len) /\ Contents /\ Seals(mem, sealed)
    BY DEF ModeInv, Ongoing, SealInv
  <1>2. ASSUME mem' = mem, sealed' = sealed, iv' = iv,
               before' = [mem |-> mem, sealed |-> sealed]
        PROVE  SealInv'
    <2>1. Seals(mem, sealed)'
      <3>1. IvBlock' = IvBlock
        BY <1>2 DEF IvBlock
      <3> QED BY <1>1, <1>2, <3>1 DEF Seals
    <2> QED BY <1>1, <1>2, <2>1, SealBegins DEF SealInv
  <1>3. CASE Start
    <2>1. PICK in \in Buffers, len \in Lens :
            \/ Unpad(in, len)
            \/ \E out \in Buffers :
                 \/ aesCbc("cbcEnc", in, out, len) \/ aesCbc("cbcDec", in, out, len)
                 \/ aesCtr(in, out, len) \/ Pad(in, out, len)
      BY <1>3 DEF Start
    <2>2. Unpad(in, len) => SealInv'
      BY <1>2 DEF Unpad, Helper
    <2>3. ASSUME NEW out \in Buffers,
                 aesCbc("cbcEnc", in, out, len) \/ aesCbc("cbcDec", in, out, len)
                   \/ aesCtr(in, out, len)
          PROVE  SealInv'
      BY <1>2, <2>3 DEF aesCbc, aesCtr, Enter
    <2> QED BY <2>1, <2>2, <2>3, PadSeals
  <1>4. CASE StartOver
    <2>1. sealed' = NothingSealed /\ before'.sealed = NothingSealed
      BY <1>4 DEF StartOver
    <2>2. DOMAIN NothingSealed = Buffers /\ \A b \in Buffers : NothingSealed[b] = Unknown
      BY DEF NothingSealed
    <2>3. DOMAIN sealed' = Buffers
          /\ \A b \in Buffers : SealedAs(mem'[b], sealed'[b], IvBlock', iv')
      BY <2>1, <2>2, UnknownSealed
    <2>4. DOMAIN before'.sealed = Buffers
          /\ \A b \in Buffers : SealedAs(before'.mem[b], before'.sealed[b], IvBlock', iv')
      BY <2>1, <2>2, UnknownSealed
    <2> QED BY <2>3, <2>4 DEF SealInv, Seals
  <1>5. CASE CbcEncryptBlock
    <2>1. Running /\ call.op = "cbcEnc"
      BY <1>5 DEF CbcEncryptBlock
    <2>2. call.off + BlockLen <= call.len
      BY <1>1, <2>1, WholeBlockLeft DEF Cbc
    <2>3. PICK bytes, prev, ctr : /\ Advance(BlockLen, prev, ctr)
                                  /\ mem' = Put(call.out, call.off, bytes)
      BY <1>5 DEF CbcEncryptBlock
    <2>4. \A b \in Buffers : b # call.out => mem'[b] = mem[b]
      BY <1>1, <2>3, PutElsewhere
    <2> QED BY <1>1, <2>1, <2>2, <2>3, <2>4, SealAdvance DEF IsCipher
  <1>6. CASE CbcDecryptBlock
    <2>1. Running /\ call.op = "cbcDec"
      BY <1>6 DEF CbcDecryptBlock
    <2>2. call.off + BlockLen <= call.len
      BY <1>1, <2>1, WholeBlockLeft DEF Cbc
    <2>3. PICK bytes, prev, ctr : /\ Advance(BlockLen, prev, ctr)
                                  /\ mem' = Put(call.out, call.off, bytes)
      BY <1>6 DEF CbcDecryptBlock
    <2>4. \A b \in Buffers : b # call.out => mem'[b] = mem[b]
      BY <1>1, <2>3, PutElsewhere
    <2> QED BY <1>1, <2>1, <2>2, <2>3, <2>4, SealAdvance DEF IsCipher
  <1>7. CASE CtrBlock
    <2>1. Running /\ call.op = "ctr"
      BY <1>7 DEF CtrBlock
    <2>2. PICK n \in Nat : n = CtrChunk /\ call.off + n <= call.len
      BY <1>1, <2>1 DEF CtrChunk, CallFits
    <2>3. PICK bytes, prev, ctr : /\ Advance(n, prev, ctr)
                                  /\ mem' = Put(call.out, call.off, bytes)
      BY <1>7, <2>2 DEF CtrBlock
    <2>4. \A b \in Buffers : b # call.out => mem'[b] = mem[b]
      BY <1>1, <2>3, PutElsewhere
    <2> QED BY <1>1, <2>1, <2>2, <2>3, <2>4, SealAdvance DEF IsCipher
  <1>8. CASE EcbFails
    <2>1. /\ sealed' = [sealed EXCEPT ![call.out] = Unknown]
          /\ iv' = iv /\ before' = before /\ IvBlock' = IvBlock
      BY <1>8 DEF EcbFails, IvBlock
    <2>2. \A b \in Buffers : b # call.out => mem'[b] = mem[b]
      <3>1. CASE mem' = mem
        BY <3>1
      <3>2. CASE mem' = Put(call.out, call.off, [j \in Blocks |-> Junk])
        BY <1>1, <3>2, PutElsewhere
      <3> QED BY <1>8, <3>1, <3>2 DEF EcbFails
    <2>3. Seals(mem, sealed)'
      BY <1>1, <2>1, <2>2, SealForgets DEF CallFits
    <2>4. Seals(before.mem, before.sealed)'
      BY <2>1 DEF SealInv, Seals
    <2> QED BY <2>3, <2>4 DEF SealInv
  <1>9. CASE UNCHANGED vars
    BY <1>9 DEF vars, SealInv, Seals, IvBlock
  <1> QED BY <1>3, <1>4, <1>5, <1>6, <1>7, <1>8, <1>9 DEF Next

\* The bytes of a block that decrypts to the text chained to the block before.
LEMMA OpenedByte ==
  ASSUME NEW bytes, NEW text, NEW v, NEW q \in Nat, NEW j \in Blocks,
         OpensBlock(bytes, text, v, q)
  PROVE  PlainByte(bytes, v, q * BlockLen + j) = text[q * BlockLen + j]
  <1>1. PICK b, w, z : /\ b = BlockOf(text, q + 1)
                       /\ w = IF q = 0 THEN v ELSE BlockOf(bytes, q)
                       /\ z = D(BlockOf(bytes, q + 1))
    OBVIOUS
  <1>2. z = xorBlock(b, w)
    BY <1>1 DEF OpensBlock
  <1>3. b = [h \in Blocks |-> text[q * BlockLen + h]]
    BY <1>1 DEF BlockOf
  <1>4. xorBlock(z, w)[j] = Xor(Xor(text[q * BlockLen + j], w[j]), w[j])
    BY <1>2, <1>3 DEF xorBlock
  <1>5. PlainByte(bytes, v, q * BlockLen + j) =
          xorBlock(D(BlockOf(bytes, q + 1)), IF q = 0 THEN v ELSE BlockOf(bytes, q))[j]
    BY PlainByteIs
  <1> QED BY <1>1, <1>4, <1>5, XorTwice

\* A byte of whole blocks of a CBC ciphertext opens to the plaintext's byte.
LEMMA OpenedText ==
  ASSUME NEW bytes, NEW s, NEW v, NEW c, SealedAs(bytes, s, v, c), s.how = "cbcEnc",
         NEW len \in Nat, Whole(len), len <= Len(s.text),
         NEW i \in 1..len
  PROVE  PlainByte(bytes, v, i) = s.text[i]
  <1>0. PICK k \in Nat : len = k * BlockLen
    BY DEF Whole
  <1>1. PICK q \in Nat, j \in Blocks : i = q * BlockLen + j
    <2>1. i \in Nat \ {0}
      OBVIOUS
    <2> QED BY <2>1, PlaceOf
  <1>2. (q + 1) * BlockLen <= Len(s.text)
    <2>1. ASSUME k <= q PROVE FALSE
      <3>1. PICK g \in Nat : q = k + g
        <4>1. q - k \in Nat /\ q = k + (q - k)
          BY <2>1
        <4> QED BY <4>1
      <3>2. PICK u \in Nat : u = g * BlockLen
        OBVIOUS
      <3>3. q * BlockLen = k * BlockLen + u
        BY <3>1, <3>2
      <3> QED BY <1>0, <1>1, <3>3 DEF Blocks
    <2>2. PICK g \in Nat : k = (q + 1) + g
      <3>1. k - (q + 1) \in Nat /\ k = (q + 1) + (k - (q + 1))
        BY <2>1
      <3> QED BY <3>1
    <2>3. PICK u \in Nat : u = g * BlockLen
      OBVIOUS
    <2>4. k * BlockLen = (q + 1) * BlockLen + u
      BY <2>2, <2>3
    <2>5. Len(s.text) \in Nat
      BY DEF SealedAs
    <2> QED BY <1>0, <2>3, <2>4, <2>5
  <1>3. PICK text : text = s.text
    OBVIOUS
  <1>4. OpensBlock(bytes, text, v, q)
    BY <1>2, <1>3 DEF SealedAs
  <1>5. PlainByte(bytes, v, q * BlockLen + j) = text[q * BlockLen + j]
    BY <1>4, OpenedByte
  <1> QED BY <1>1, <1>3, <1>5

\* What was encrypted comes back (OpensToPlaintext): CBC decryption of a CBC
\* ciphertext and CTR of a CTR ciphertext, whole or in part, give the plaintext.
THEOREM OpensPlaintext == Spec => []OpensToPlaintext
  <1>1. Init => DecInv /\ RunInv /\ SealInv
    <2> SUFFICES ASSUME Init PROVE DecInv /\ RunInv /\ SealInv
      OBVIOUS
    <2>1. DecInv /\ RunInv
      BY DEF Init, NoCall, DecInv, RunInv, EncInv, CtrInv, Finished, IsCipher
    <2>2. sealed = NothingSealed /\ before.sealed = NothingSealed
      BY DEF Init
    <2>3. SealInv
      BY <2>2, NothingSeals DEF SealInv
    <2> QED BY <2>1, <2>3
  <1>2. ModeInv /\ DecInv /\ RunInv /\ SealInv => OpensToPlaintext
    <2> SUFFICES ASSUME ModeInv, DecInv, RunInv, SealInv,
                        \/ call.op = "cbcDec" /\ before.sealed[call.in].how = "cbcEnc"
                        \/ call.op = "ctr" /\ before.sealed[call.in].how = "ctr",
                        call.st = "Ok", call.len <= Len(before.sealed[call.in].text),
                        ~OverlapsBadly
                 PROVE  SubSeq(mem[call.out], 1, call.len)
                          = SubSeq(before.sealed[call.in].text, 1, call.len)
      BY DEF OpensToPlaintext
    <2>1. PICK bytes, s, v, out : /\ bytes = before.mem[call.in]
                                  /\ s = before.sealed[call.in]
                                  /\ v = IvBlock /\ out = call.out
      OBVIOUS
    <2>2. PICK len \in Nat : len = call.len /\ call.off = len /\ len <= Len(s.text)
      BY <2>1 DEF ModeInv, CallFits, RunInv, Finished, IsCipher
    <2>3. SealedAs(bytes, s, v, iv)
      BY <2>1 DEF ModeInv, CallFits, SealInv, Seals
    <2>4. ASSUME NEW i \in 1..len PROVE mem[out][i] = s.text[i]
      <3>1. CASE call.op = "ctr"
        <4>1. mem[out][i] = Xor(bytes[i], KeyByte(iv, i))
          BY <2>1, <2>2, <2>4, <3>1 DEF RunInv, CtrInv
        <4>2. bytes[i] = Xor(s.text[i], KeyByte(iv, i))
          BY <2>1, <2>2, <2>3, <2>4, <3>1 DEF SealedAs
        <4> QED BY <4>1, <4>2, XorTwice
      <3>2. CASE call.op = "cbcDec"
        <4>1. Whole(len)
          BY <2>2, <3>2 DEF DecInv, Whole
        <4>2. PlainByte(bytes, v, i) = s.text[i]
          <5>1. s.how = "cbcEnc"
            BY <2>1, <3>2
          <5> QED BY <2>2, <2>3, <2>4, <4>1, <5>1, OpenedText
        <4>3. mem[out][i] = PlainByte(bytes, v, i)
          BY <2>1, <2>2, <2>4, <3>2 DEF DecInv
        <4> QED BY <4>2, <4>3
      <3> QED BY <3>1, <3>2
    <2> QED BY <2>1, <2>2, <2>4, SameText
  <1> QED BY <1>1, <1>2, ModeInit, ModeInductive, DecInductive, RunInductive, SealInductive, PTL
          DEF Spec

-----------------------------------------------------------------------------
(* The PKCS#7 helpers *)

\* bytes are the first len of s, as the application reads them
Spells(bytes, len, s) ==
  Len(bytes) = len /\ \A i \in 1..len : s[i] \in ByteVals /\ bytes[i] = Lit(s[i])

\* A byte the application can read as a number is read as that number.
LEMMA ReadText ==
  ASSUME NEW bytes, NEW len \in Nat, NEW s, Spells(bytes, len, s)
  PROVE  /\ IsText(bytes) /\ TextOf(bytes) \in Seq(ByteVals) /\ Len(TextOf(bytes)) = len
         /\ \A i \in 1..len : TextOf(bytes)[i] = s[i]
  <1>0. Len(bytes) = len /\ \A i \in 1..len : s[i] \in ByteVals /\ bytes[i] = Lit(s[i])
    BY DEF Spells
  <1>1. IsText(bytes)
    BY <1>0 DEF IsText
  <1>2. \A n, m : Lit(n) = Lit(m) => n = m
    BY DEF Lit
  <1>3. ASSUME NEW i \in 1..len
        PROVE  (CHOOSE n \in ByteVals : bytes[i] = Lit(n)) = s[i]
    BY <1>0, <1>2, <1>3
  <1>4. PICK t : t = TextOf(bytes)
    OBVIOUS
  <1>5. t = [i \in 1..len |-> CHOOSE n \in ByteVals : bytes[i] = Lit(n)]
    BY <1>0, <1>4 DEF TextOf
  <1>6. \A i \in 1..len : t[i] = s[i]
    BY <1>3, <1>5
  <1>7. t \in [1..len -> ByteVals]
    BY <1>0, <1>5, <1>6
  <1>8. t \in Seq(ByteVals) /\ Len(t) = len
    BY <1>7, IsASeq
  <1> QED BY <1>1, <1>4, <1>6, <1>8

\* A text is a string of byte values.
LEMMA TextBytes ==
  ASSUME NEW bytes, NEW len \in Nat, Len(bytes) = len, IsText(bytes)
  PROVE  TextOf(bytes) \in Seq(ByteVals) /\ Len(TextOf(bytes)) = len
  <1>1. PICK t : t = TextOf(bytes)
    OBVIOUS
  <1>2. t = [i \in 1..len |-> CHOOSE n \in ByteVals : bytes[i] = Lit(n)]
    BY <1>1 DEF TextOf
  <1>3. ASSUME NEW i \in 1..len
        PROVE  (CHOOSE n \in ByteVals : bytes[i] = Lit(n)) \in ByteVals
    BY <1>3 DEF IsText
  <1>4. t \in [1..len -> ByteVals]
    BY <1>2, <1>3
  <1>5. t \in Seq(ByteVals) /\ Len(t) = len
    BY <1>4, IsASeq
  <1> QED BY <1>1, <1>5

\* pkcs7Pad: refused for want of room, or the message and its padding.
LEMMA PadIs ==
  ASSUME NEW s \in Seq(ByteVals), NEW len \in Nat, Len(s) = len,
         NEW p, p = pkcs7Pad(s, Cap, BlockLen)
  PROVE  \/ p = <<>> /\ len + BlockLen > Cap
         \/ /\ p \in Seq(ByteVals) /\ Len(p) \in Nat /\ Len(p) <= Cap
            /\ IsPaddingOf(p, len, BlockLen)
            /\ \A i \in 1..len : p[i] = s[i]
  <1>1. PICK r \in 0 .. BlockLen - 1, q \in Int : len % BlockLen = r /\ len = q * BlockLen + r
    <2>1. (len % BlockLen) \in 0 .. BlockLen - 1 /\ (len \div BlockLen) \in Int
      OBVIOUS
    <2>2. len = (len \div BlockLen) * BlockLen + (len % BlockLen)
      OBVIOUS
    <2> QED BY <2>1, <2>2
  <1>2. PICK padLen \in 1..BlockLen : padLen = BlockLen - r
    OBVIOUS
  <1>3. PICK pad, total : pad = Repeat(padLen, padLen) /\ total = len + padLen
    OBVIOUS
  <1>4. total \in Nat /\ p = IF total > Cap THEN <<>> ELSE s \o pad
    BY <1>1, <1>2, <1>3 DEF pkcs7Pad
  <1>5. CASE total > Cap
    BY <1>3, <1>4, <1>5
  <1>6. CASE total <= Cap
    <2>1. pad \in Seq(ByteVals) /\ Len(pad) = padLen /\ \A i \in 1..padLen : pad[i] = padLen
      <3>1. padLen \in ByteVals
        BY PaddingAssumption DEF ByteVals
      <3>2. pad = [i \in 1..padLen |-> padLen]
        BY <1>3 DEF Repeat
      <3>3. pad \in [1..padLen -> ByteVals]
        BY <3>1, <3>2
      <3> QED BY <3>2, <3>3, IsASeq
    <2>2. p = s \o pad
      BY <1>4, <1>6
    <2>3. /\ p \in Seq(ByteVals) /\ Len(p) = total
          /\ \A i \in 1..total : p[i] = IF i <= len THEN s[i] ELSE pad[i - len]
      <3>1. /\ s \o pad \in Seq(ByteVals) /\ Len(s \o pad) = Len(s) + Len(pad)
            /\ \A i \in 1 .. Len(s) + Len(pad) :
                 (s \o pad)[i] = IF i <= Len(s) THEN s[i] ELSE pad[i - Len(s)]
        BY <2>1, ConcatProperties
      <3> QED BY <1>3, <2>1, <2>2, <3>1
    <2>4. \A i \in 1..len : p[i] = s[i]
      BY <1>3, <2>3
    <2>5. \A i \in len + 1 .. total : p[i] = padLen
      BY <1>3, <2>1, <2>3
    <2>6. total % BlockLen = 0
      <3>1. PICK k \in Int : k = q + 1
        OBVIOUS
      <3>2. total = k * BlockLen
        BY <1>1, <1>2, <1>3, <3>1
      <3> QED BY <3>2
    <2>7. IsPaddingOf(p, len, BlockLen)
      BY <1>3, <2>3, <2>5, <2>6 DEF IsPaddingOf
    <2> QED BY <1>4, <1>6, <2>3, <2>4, <2>7
  <1> QED BY <1>4, <1>5, <1>6

\* pkcs7Unpad answers the length of the message a padding is of, and nothing else.
LEMMA UnpadIs ==
  ASSUME NEW s \in Seq(ByteVals), NEW len \in Nat, Len(s) = len,
         NEW ans, ans = pkcs7Unpad(s, BlockLen)
  PROVE  /\ \A n \in 0..len : IsPaddingOf(s, n, BlockLen) => ans = n
         /\ ans # 0 => IsPaddingOf(s, ans, BlockLen)
  <1>1. PICK padLen : padLen = s[len]
    OBVIOUS
  <1>2. len # 0 => padLen \in Nat
    BY <1>1, ElementOfSeq DEF ByteVals
  <1>3. ans = IF len = 0 \/ len % BlockLen # 0 THEN 0
              ELSE IF padLen = 0 \/ padLen > BlockLen \/ padLen > len THEN 0
              ELSE IF \E i \in 0 .. padLen - 1 : s[len - i] # padLen THEN 0
              ELSE len - padLen
    BY <1>1 DEF pkcs7Unpad
  <1>4. ASSUME NEW n \in 0..len, IsPaddingOf(s, n, BlockLen) PROVE ans = n
    <2>1. /\ n <= len - 1 /\ len - n \in 1..BlockLen /\ len % BlockLen = 0
          /\ \A i \in n + 1 .. len : s[i] = len - n
      BY <1>4 DEF IsPaddingOf
    <2>2. padLen = len - n
      BY <1>1, <2>1
    <2>3. ASSUME NEW i \in 0 .. padLen - 1 PROVE s[len - i] = padLen
      <3>1. len - i \in n + 1 .. len
        BY <2>2
      <3> QED BY <2>1, <2>2, <3>1
    <2> QED BY <1>3, <2>1, <2>2, <2>3
  <1>5. ASSUME ans # 0 PROVE IsPaddingOf(s, ans, BlockLen)
    <2>1. /\ len # 0 /\ len % BlockLen = 0
          /\ padLen # 0 /\ padLen <= BlockLen /\ padLen <= len
          /\ \A i \in 0 .. padLen - 1 : s[len - i] = padLen
          /\ ans = len - padLen
      BY <1>2, <1>3, <1>5
    <2>2. ASSUME NEW i \in ans + 1 .. len PROVE s[i] = padLen
      <3>1. PICK k \in 0 .. padLen - 1 : k = len - i
        BY <1>2, <2>1
      <3>2. len - k = i
        BY <3>1
      <3> QED BY <2>1, <3>1, <3>2
    <2> QED BY <1>2, <2>1, <2>2 DEF IsPaddingOf
  <1> QED BY <1>4, <1>5

\* What the call record tells of a helper's call.
LEMMA HelperAnswer ==
  ASSUME NEW op, NEW in, NEW out, NEW len, NEW s, NEW ans, NEW off,
         Helper(op, in, out, len, s, ans, off)
  PROVE  /\ call'.op = op /\ call'.out = out /\ call'.len = len
         /\ call'.ans = ans /\ call'.text = s
  BY DEF Helper, NoCall

\* pkcs7Pad's call.
LEMMA PadExact ==
  ASSUME ModeInv, NEW in \in Buffers, NEW out \in Buffers, NEW len \in Lens,
         Pad(in, out, len)
  PROVE  Pkcs7Exact'
  <1>1. PICK bytes, s, p : /\ bytes = SubSeq(mem[in], 1, len)
                           /\ s = TextOf(bytes) /\ p = pkcs7Pad(s, Cap, BlockLen)
    OBVIOUS
  <1>2. /\ IsText(bytes) /\ Helper("pad", in, out, len, s, Len(p), Len(p))
        /\ mem' = Put(out, 0, [i \in 1..Len(p) |-> Lit(p[i])])
    BY <1>1 DEF Pad
  <1>3. len \in Nat /\ len <= Cap
    OBVIOUS
  <1>4. s \in Seq(ByteVals) /\ Len(s) = len
    <2>1. Len(bytes) = len
      BY <1>1, <1>3, TextFacts
    <2> QED BY <1>1, <1>2, <1>3, <2>1, TextBytes
  <1>5. \/ p = <<>> /\ len + BlockLen > Cap
        \/ /\ p \in Seq(ByteVals) /\ Len(p) \in Nat /\ Len(p) <= Cap
           /\ IsPaddingOf(p, len, BlockLen)
           /\ \A i \in 1..len : p[i] = s[i]
    BY <1>1, <1>3, <1>4, PadIs
  <1>6. /\ call'.op = "pad" /\ call'.out = out /\ call'.len = len
        /\ call'.ans = Len(p) /\ call'.text = s
    BY <1>2, HelperAnswer
  <1>7. CASE p = <<>>
    BY <1>5, <1>6, <1>7 DEF Pkcs7Exact, IsPaddingOf
  <1>8. CASE p # <<>>
    <2>1. PICK n \in Nat : n = Len(p)
      BY <1>5, <1>8
    <2>2. /\ p \in Seq(ByteVals) /\ n <= Cap /\ len < n /\ IsPaddingOf(p, len, BlockLen)
          /\ \A i \in 1..len : p[i] = s[i]
      BY <1>3, <1>5, <1>8, <2>1 DEF IsPaddingOf
    <2>3. \A i \in 1..n : p[i] \in ByteVals
      BY <2>1, <2>2, ElementOfSeq
    <2>4. \A i \in 1..n : mem'[out][i] = Lit(p[i])
      <3>1. PICK x : x = [i \in 1..n |-> Lit(p[i])]
        OBVIOUS
      <3>2. mem' = Put(out, 0, x) /\ Len(x) = n
        BY <1>2, <2>1, <3>1
      <3>3. DOMAIN mem = Buffers
        BY DEF ModeInv, Contents, Memory
      <3>4. mem'[out] = [i \in 1..Cap |->
                          IF 0 < i /\ i <= 0 + Len(x) THEN x[i - 0] ELSE mem[out][i]]
        BY <3>2, <3>3 DEF Put
      <3>5. \A i \in 1..n : mem'[out][i] = x[i]
        BY <2>2, <3>2, <3>4
      <3> QED BY <3>1, <3>5
    <2>5. PICK b, t : b = SubSeq(mem'[out], 1, n) /\ t = TextOf(b)
      OBVIOUS
    <2>6. Len(b) = n /\ \A i \in 1..n : b[i] = Lit(p[i])
      BY <2>4, <2>5, TextFacts
    <2>7. /\ IsText(b) /\ t \in Seq(ByteVals) /\ Len(t) = n
          /\ \A i \in 1..n : t[i] = p[i]
      <3>1. Spells(b, n, p)
        BY <2>3, <2>6 DEF Spells
      <3>2. /\ IsText(b) /\ TextOf(b) \in Seq(ByteVals) /\ Len(TextOf(b)) = n
            /\ \A i \in 1..n : TextOf(b)[i] = p[i]
        BY <3>1, ReadText
      <3> QED BY <2>5, <3>2
    <2>8. t = p
      <3>1. Len(t) = Len(p) /\ \A i \in 1..Len(t) : t[i] = p[i]
        BY <2>1, <2>7
      <3>2. t \in Seq(ByteVals) /\ p \in Seq(ByteVals)
        BY <2>2, <2>7
      <3> QED BY <3>1, <3>2, SeqEqual
    <2>9. SubSeq(t, 1, len) = s
      <3>1. PICK w : w = SubSeq(t, 1, len)
        OBVIOUS
      <3>2. \A i \in 1..len : t[i] \in ByteVals
        BY <1>3, <2>2, <2>3, <2>7
      <3>3. w \in Seq(ByteVals)
        BY <1>3, <3>1, <3>2, SubSeqProperties
      <3>4. Len(w) = len /\ \A i \in 1..len : w[i] = t[i]
        BY <1>3, <3>1, TextFacts
      <3>5. \A i \in 1..len : w[i] = s[i]
        BY <2>2, <2>8, <3>4
      <3>6. w = s
        BY <1>4, <3>3, <3>4, <3>5, SeqEqual
      <3> QED BY <3>1, <3>6
    <2>10. n # 0 /\ IsPaddingOf(t, len, BlockLen)
      BY <1>3, <2>2, <2>8
    <2>11. call'.ans = n /\ call'.op # "unpad"
      BY <1>6, <2>1
    <2> QED BY <1>6, <2>5, <2>7, <2>9, <2>10, <2>11 DEF Pkcs7Exact
  <1> QED BY <1>7, <1>8

\* pkcs7Unpad's call.
LEMMA UnpadExact ==
  ASSUME NEW in \in Buffers, NEW len \in Lens, Unpad(in, len)
  PROVE  Pkcs7Exact'
  <1>1. PICK bytes : bytes = SubSeq(mem[in], 1, len)
    OBVIOUS
  <1>2. PICK s : /\ s \in IF IsText(bytes) THEN {TextOf(bytes)} ELSE [1..len -> ByteVals]
                 /\ Helper("unpad", in, in, len, s, pkcs7Unpad(s, BlockLen), 0)
    BY <1>1 DEF Unpad
  <1>3. len \in Nat
    OBVIOUS
  <1>4. s \in Seq(ByteVals) /\ Len(s) = len
    <2>1. CASE IsText(bytes)
      <3>1. Len(bytes) = len
        BY <1>1, <1>3, TextFacts
      <3>2. s = TextOf(bytes)
        BY <1>2, <2>1
      <3> QED BY <1>3, <2>1, <3>1, <3>2, TextBytes
    <2>2. CASE ~IsText(bytes)
      <3>1. s \in [1..len -> ByteVals]
        BY <1>2, <2>2
      <3> QED BY <1>3, <3>1, IsASeq
    <2> QED BY <2>1, <2>2
  <1>5. PICK ans : ans = pkcs7Unpad(s, BlockLen)
    OBVIOUS
  <1>6. /\ call'.op = "unpad" /\ call'.len = len /\ call'.ans = ans /\ call'.text = s
    BY <1>2, <1>5, HelperAnswer
  <1>7. /\ \A n \in 0..len : IsPaddingOf(s, n, BlockLen) => ans = n
        /\ ans # 0 => IsPaddingOf(s, ans, BlockLen)
    BY <1>3, <1>4, <1>5, UnpadIs
  <1> QED BY <1>6, <1>7 DEF Pkcs7Exact

\* The calls of the ciphers are no helper's.
LEMMA Pkcs7Inductive == ModeInv /\ Pkcs7Exact /\ [Next]_vars => Pkcs7Exact'
  <1> SUFFICES ASSUME ModeInv, Pkcs7Exact, [Next]_vars PROVE Pkcs7Exact'
    OBVIOUS
  <1>1. call'.op \notin {"pad", "unpad"} => Pkcs7Exact'
    BY DEF Pkcs7Exact
  <1>2. CASE Start
    <2>1. PICK in \in Buffers, len \in Lens :
            \/ Unpad(in, len)
            \/ \E out \in Buffers :
                 \/ aesCbc("cbcEnc", in, out, len) \/ aesCbc("cbcDec", in, out, len)
                 \/ aesCtr(in, out, len) \/ Pad(in, out, len)
      BY <1>2 DEF Start
    <2>2. ASSUME NEW out \in Buffers,
                 aesCbc("cbcEnc", in, out, len) \/ aesCbc("cbcDec", in, out, len)
                   \/ aesCtr(in, out, len)
          PROVE  Pkcs7Exact'
      <3>1. call'.op \in {"cbcEnc", "cbcDec", "ctr"}
        BY <2>2 DEF aesCbc, aesCtr, Enter, NoCall
      <3> QED BY <1>1, <3>1
    <2> QED BY <2>1, <2>2, PadExact, UnpadExact
  <1>3. CASE StartOver
    <2>1. call'.op = "none"
      BY <1>3 DEF StartOver, NoCall
    <2> QED BY <1>1, <2>1
  <1>4. CASE CbcEncryptBlock \/ CbcDecryptBlock \/ CtrBlock \/ EcbFails
    <2>1. call.op \in {"cbcEnc", "cbcDec", "ctr"}
      BY <1>4 DEF CbcEncryptBlock, CbcDecryptBlock, CtrBlock, EcbFails
    <2>2. call'.op = call.op
      <3>1. CallFits
        BY DEF ModeInv
      <3> QED BY <1>4, <3>1 DEF CbcEncryptBlock, CbcDecryptBlock, CtrBlock, EcbFails,
                                Advance, CallFits, Fields
    <2> QED BY <1>1, <2>1, <2>2
  <1>5. CASE UNCHANGED vars
    BY <1>5 DEF vars, Pkcs7Exact
  <1> QED BY <1>2, <1>3, <1>4, <1>5 DEF Next

\* The PKCS#7 helpers are exact (Pkcs7Exact): pkcs7Pad writes the padding of the
\* message and refuses only for want of room, in place too; pkcs7Unpad answers
\* the length of the message a padding is of, and 0 for anything else.
THEOREM PaddingExact == Spec => []Pkcs7Exact
  <1>1. Init => Pkcs7Exact
    BY DEF Init, NoCall, Pkcs7Exact
  <1> QED BY <1>1, ModeInit, ModeInductive, Pkcs7Inductive, PTL DEF Spec

-----------------------------------------------------------------------------
(* SoftAes128, of any key and block.  First the recursions in it, which have a      *)
(* solution                                                                         *)

HIDE SizeAssumption DEF Buffers

\* f[i] is made of f[i - 1] by the i-th function of G, in the i-th set of V
Recurses(f, n, V, a, G) ==
  /\ f = [i \in 0..n |-> IF i = 0 THEN a ELSE G[i][f[i - 1]]]
  /\ \A i \in 0..n : f[i] \in V[i]

\* There is such a function.
LEMMA RecursionExists ==
  ASSUME NEW n \in Nat, NEW V, NEW a \in V[0], NEW G,
         \A i \in 1..n : \A x \in V[i - 1] : G[i][x] \in V[i]
  PROVE  \E f : Recurses(f, n, V, a, G)
  <1> DEFINE S == {k \in Nat : k <= n => \E f : Recurses(f, k, V, a, G)}
  <1>1. 0 \in S
    <2>1. PICK f : f = [i \in 0..0 |-> a]
      OBVIOUS
    <2>2. f = [i \in 0..0 |-> IF i = 0 THEN a ELSE G[i][f[i - 1]]]
      BY <2>1
    <2>3. Recurses(f, 0, V, a, G)
      BY <2>1, <2>2 DEF Recurses
    <2> QED BY <2>3
  <1>2. ASSUME NEW k \in Nat, k \in S PROVE k + 1 \in S
    <2> SUFFICES ASSUME k + 1 <= n PROVE \E f : Recurses(f, k + 1, V, a, G)
      OBVIOUS
    <2>1. PICK f : Recurses(f, k, V, a, G)
      BY <1>2
    <2>2. PICK v : v = G[k + 1][f[k]]
      OBVIOUS
    <2>3. v \in V[k + 1]
      <3>1. PICK m : m = k + 1 /\ m \in 1..n /\ m - 1 = k
        OBVIOUS
      <3>2. f[k] \in V[k]
        BY <2>1 DEF Recurses
      <3> QED BY <2>2, <3>1, <3>2
    <2>4. PICK g : g = [i \in 0..k + 1 |-> IF i <= k THEN f[i] ELSE v]
      OBVIOUS
    <2>5. ASSUME NEW i \in 0..k + 1
          PROVE  g[i] = (IF i = 0 THEN a ELSE G[i][g[i - 1]]) /\ g[i] \in V[i]
      <3>1. CASE i <= k
        <4>1. g[i] = f[i] /\ (i # 0 => g[i - 1] = f[i - 1]) /\ i \in 0..k
          BY <2>4, <3>1
        <4>2. f[i] = IF i = 0 THEN a ELSE G[i][f[i - 1]]
          BY <2>1, <4>1 DEF Recurses
        <4>3. f[i] \in V[i]
          BY <2>1, <4>1 DEF Recurses
        <4> QED BY <4>1, <4>2, <4>3
      <3>2. CASE i = k + 1
        <4>1. g[i] = v /\ i - 1 = k /\ g[k] = f[k] /\ i # 0
          BY <2>4, <3>2
        <4> QED BY <2>2, <2>3, <3>2, <4>1
      <3> QED BY <3>1, <3>2
    <2>6. g = [i \in 0..k + 1 |-> g[i]]
      BY <2>4
    <2>7. Recurses(g, k + 1, V, a, G)
      BY <2>5, <2>6 DEF Recurses
    <2> QED BY <2>7
  <1> HIDE DEF S
  <1>3. Nat \subseteq S
    BY <1>1, <1>2, SetInduction
  <1> QED BY <1>3 DEF S
-----------------------------------------------------------------------------
(* Bytes: xtime and mul *)

\* Xor stays among bytes, takes itself back and has an identity.
LEMMA XorFacts ==
  /\ \A a, b \in Byte : Xor(a, b) \in Byte /\ Xor(Xor(a, b), b) = a
  /\ \A a : Xor({}, a) = a
  BY DEF Xor, Byte

\* Xor, xtime and doubling bit by bit.
LEMMA XorIn == \A a, b, i : i \in Xor(a, b) <=> ~(i \in a <=> i \in b)
  BY DEF Xor

LEMMA XtimeIn ==
  ASSUME NEW x \in Byte, NEW i
  PROVE  i \in xtime(x) <=>
           ~((i - 1 \in x /\ i # 8 /\ i \in Int) <=> (7 \in x /\ i \in Bits(27)))
  <1>1. i \in {j + 1 : j \in x \ {7}} <=> i - 1 \in x /\ i # 8 /\ i \in Int
    BY DEF Byte
  <1>2. i \in (IF 7 \in x THEN Bits(27) ELSE {}) <=> 7 \in x /\ i \in Bits(27)
    OBVIOUS
  <1> QED BY <1>1, <1>2, XorIn DEF xtime

\* xtime is linear.
LEMMA XtimeLinear ==
  ASSUME NEW a \in Byte, NEW b \in Byte
  PROVE  xtime(a) \in Byte /\ xtime(Xor(a, b)) = Xor(xtime(a), xtime(b))
  <1> DEFINE c == Xor(a, b)
  <1>1. c \in Byte /\ xtime(a) \in Byte
    BY DEF Byte, Xor, xtime, Bits
  <1>2. ASSUME NEW i PROVE i \in xtime(c) <=> i \in Xor(xtime(a), xtime(b))
    <2>1. /\ (i - 1 \in c) <=> ~(i - 1 \in a <=> i - 1 \in b)
          /\ (7 \in c) <=> ~(7 \in a <=> 7 \in b)
          /\ i \in Xor(xtime(a), xtime(b)) <=> ~(i \in xtime(a) <=> i \in xtime(b))
      BY XorIn
    <2> HIDE DEF c
    <2> QED BY <1>1, <2>1, XtimeIn
  <1> QED BY <1>1, <1>2

\* mul's doublings of a and its sums over the bits of b
Doublings(f, a) == f = [i \in 0..7 |-> IF i = 0 THEN a ELSE xtime(f[i - 1])]
Sums(p, b, f) == p = [i \in 0..8 |-> IF i = 0 THEN {}
                                     ELSE Xor(p[i - 1], IF i - 1 \in b THEN f[i - 1] ELSE {})]

\* There are such functions.
LEMMA DoublingsExist ==
  ASSUME NEW a \in Byte
  PROVE  \E f : Doublings(f, a) /\ \A i \in 0..7 : f[i] \in Byte
  <1> DEFINE V == [i \in 0..7 |-> Byte]
             G == [i \in 1..7 |-> [x \in Byte |-> xtime(x)]]
  <1>1. a \in V[0] /\ \A i \in 1..7 : \A x \in V[i - 1] : G[i][x] \in V[i]
    BY XtimeLinear
  <1>2. PICK f : Recurses(f, 7, V, a, G)
    <2> HIDE DEF V, G
    <2> QED BY <1>1, RecursionExists
  <1>3. \A i \in 0..7 : f[i] \in Byte
    BY <1>2 DEF Recurses
  <1>4. \A i \in 0..7 : f[i] = IF i = 0 THEN a ELSE xtime(f[i - 1])
    <2>1. TAKE i \in 0..7
    <2>2. f[i] = IF i = 0 THEN a ELSE G[i][f[i - 1]]
      BY <1>2 DEF Recurses
    <2>3. i # 0 => i - 1 \in 0..7 /\ i \in 1..7
      OBVIOUS
    <2> QED BY <1>3, <2>2, <2>3
  <1>5. f = [i \in 0..7 |-> f[i]]
    BY <1>2 DEF Recurses
  <1>6. Doublings(f, a)
    BY <1>4, <1>5 DEF Doublings
  <1> QED BY <1>3, <1>6

LEMMA SumsExist ==
  ASSUME NEW b, NEW f, \A i \in 0..7 : f[i] \in Byte
  PROVE  \E p : Sums(p, b, f)
  <1> DEFINE V == [i \in 0..8 |-> Byte]
             term(i) == IF i - 1 \in b THEN f[i - 1] ELSE {}
             G == [i \in 1..8 |-> [x \in Byte |-> Xor(x, term(i))]]
  <1>1. {} \in V[0] /\ \A i \in 1..8 : \A x \in V[i - 1] : G[i][x] \in V[i]
    <2>1. \A i \in 1..8 : term(i) \in Byte
      BY DEF Byte
    <2>2. {} \in Byte
      BY DEF Byte
    <2> HIDE DEF term
    <2> QED BY <2>1, <2>2, XorFacts
  <1>2. PICK p : Recurses(p, 8, V, {}, G)
    <2> HIDE DEF V, G
    <2> QED BY <1>1, RecursionExists
  <1>3. \A i \in 0..8 : p[i] \in Byte
    BY <1>2 DEF Recurses
  <1>4. \A i \in 0..8 : p[i] = IF i = 0 THEN {} ELSE Xor(p[i - 1], term(i))
    <2>1. TAKE i \in 0..8
    <2>2. p[i] = IF i = 0 THEN {} ELSE G[i][p[i - 1]]
      BY <1>2 DEF Recurses
    <2>3. i # 0 => i - 1 \in 0..8 /\ i \in 1..8
      OBVIOUS
    <2> HIDE DEF term
    <2> QED BY <1>3, <2>2, <2>3
  <1>5. p = [i \in 0..8 |-> p[i]]
    BY <1>2 DEF Recurses
  <1>6. Sums(p, b, f)
    BY <1>4, <1>5 DEF Sums
  <1> QED BY <1>6

\* mul ends with the last sum.
LEMMA MulIs ==
  ASSUME NEW a \in Byte, NEW b
  PROVE  \E f, p : Doublings(f, a) /\ Sums(p, b, f) /\ mul(a, b) = p[8]
  <1>1. PICK f : f = CHOOSE g : Doublings(g, a)
    OBVIOUS
  <1>2. PICK g : Doublings(g, a) /\ \A i \in 0..7 : g[i] \in Byte
    BY DoublingsExist
  <1>3. Doublings(f, a)
    BY <1>1, <1>2
  <1>4. \A i \in 0..7 : f[i] \in Byte
    BY <1>3, <1>2 DEF Doublings
  <1>5. PICK p : p = CHOOSE q : Sums(q, b, f)
    OBVIOUS
  <1>6. Sums(p, b, f)
    BY <1>4, <1>5, SumsExist
  <1>7. mul(a, b) = p[8]
    BY <1>1, <1>5 DEF mul, Doublings, Sums
  <1> QED BY <1>3, <1>6, <1>7
\* The four factors of invMixColumns.
LEMMA FactorBits ==
  Bits(14) = {1, 2, 3} /\ Bits(11) = {0, 1, 3} /\ Bits(13) = {0, 2, 3} /\ Bits(9) = {0, 3}
  <1>1. /\ 2^0 = 1 /\ 2^1 = 2 /\ 2^2 = 4 /\ 2^3 = 8
        /\ 2^4 = 16 /\ 2^5 = 32 /\ 2^6 = 64 /\ 2^7 = 128
    OBVIOUS
  <1>2. \A i \in 0..7 : i = 0 \/ i = 1 \/ i = 2 \/ i = 3 \/ i = 4 \/ i = 5 \/ i = 6 \/ i = 7
    OBVIOUS
  <1>3. ASSUME NEW i \in 0..7
        PROVE  /\ (14 \div 2^i) % 2 = 1 <=> i \in {1, 2, 3}
               /\ (11 \div 2^i) % 2 = 1 <=> i \in {0, 1, 3}
               /\ (13 \div 2^i) % 2 = 1 <=> i \in {0, 2, 3}
               /\ (9 \div 2^i) % 2 = 1 <=> i \in {0, 3}
    <2>1. CASE i = 0
      BY <1>1, <2>1
    <2>2. CASE i = 1
      BY <1>1, <2>2
    <2>3. CASE i = 2
      BY <1>1, <2>3
    <2>4. CASE i = 3
      BY <1>1, <2>4
    <2>5. CASE i = 4
      BY <1>1, <2>5
    <2>6. CASE i = 5
      BY <1>1, <2>6
    <2>7. CASE i = 6
      BY <1>1, <2>7
    <2>8. CASE i = 7
      BY <1>1, <2>8
    <2> QED BY <1>2, <2>1, <2>2, <2>3, <2>4, <2>5, <2>6, <2>7, <2>8
  <1>4. {0, 1, 2, 3} \subseteq 0..7
    OBVIOUS
  <1>5. Bits(14) = {1, 2, 3}
    BY <1>3, <1>4 DEF Bits
  <1>6. Bits(11) = {0, 1, 3}
    BY <1>3, <1>4 DEF Bits
  <1>7. Bits(13) = {0, 2, 3}
    BY <1>3, <1>4 DEF Bits
  <1>8. Bits(9) = {0, 3}
    BY <1>3, <1>4 DEF Bits
  <1> QED BY <1>5, <1>6, <1>7, <1>8

\* a times 2, 4 and 8
x2(a) == xtime(a)
x4(a) == xtime(xtime(a))
x8(a) == xtime(xtime(xtime(a)))

\* A byte times the four factors, in its doublings.
LEMMA Factors ==
  ASSUME NEW a \in Byte
  PROVE  /\ mul(a, Bits(14)) = Xor(Xor(x2(a), x4(a)), x8(a))
         /\ mul(a, Bits(11)) = Xor(Xor(a, x2(a)), x8(a))
         /\ mul(a, Bits(13)) = Xor(Xor(a, x4(a)), x8(a))
         /\ mul(a, Bits(9)) = Xor(a, x8(a))
  <1>1. ASSUME NEW f, Doublings(f, a)
        PROVE  f[0] = a /\ f[1] = x2(a) /\ f[2] = x4(a) /\ f[3] = x8(a)
    <2>1. f[0] = a /\ f[1] = xtime(f[0]) /\ f[2] = xtime(f[1]) /\ f[3] = xtime(f[2])
      BY <1>1 DEF Doublings
    <2> QED BY <2>1 DEF x2, x4, x8
  <1>2. ASSUME NEW f, NEW p, NEW b, Sums(p, b, f), b \subseteq 0..3
        PROVE  p[8] = Xor(Xor(Xor(Xor({}, IF 0 \in b THEN f[0] ELSE {}),
                                  IF 1 \in b THEN f[1] ELSE {}),
                              IF 2 \in b THEN f[2] ELSE {}),
                          IF 3 \in b THEN f[3] ELSE {})
    <2>1. ASSUME NEW i \in 1..8 PROVE p[i] = Xor(p[i - 1], IF i - 1 \in b THEN f[i - 1] ELSE {})
      BY <1>2, <2>1 DEF Sums
    <2>2. p[0] = {}
      BY <1>2 DEF Sums
    <2>3. ASSUME NEW i \in 5..8 PROVE p[i] = p[i - 1]
      <3>1. i - 1 \notin b
        BY <1>2
      <3>2. \A x : Xor(x, {}) = x
        BY DEF Xor
      <3> QED BY <2>1, <3>1, <3>2
    <2>4. p[8] = p[4]
      BY <2>3
    <2> QED BY <2>1, <2>2, <2>4
  <1>3. \A x : Xor(x, {}) = x /\ Xor({}, x) = x
    BY DEF Xor
  <1>4. Bits(14) \subseteq 0..3 /\ Bits(11) \subseteq 0..3 /\ Bits(13) \subseteq 0..3
        /\ Bits(9) \subseteq 0..3
    BY FactorBits
  <1>5. mul(a, Bits(14)) = Xor(Xor(x2(a), x4(a)), x8(a))
    BY <1>1, <1>2, <1>3, <1>4, FactorBits, MulIs
  <1>6. mul(a, Bits(11)) = Xor(Xor(a, x2(a)), x8(a))
    BY <1>1, <1>2, <1>3, <1>4, FactorBits, MulIs
  <1>7. mul(a, Bits(13)) = Xor(Xor(a, x4(a)), x8(a))
    BY <1>1, <1>2, <1>3, <1>4, FactorBits, MulIs
  <1>8. mul(a, Bits(9)) = Xor(a, x8(a))
    BY <1>1, <1>2, <1>3, <1>4, FactorBits, MulIs
  <1> QED BY <1>5, <1>6, <1>7, <1>8

\* A byte of mixColumns, d and e being the first two of its column doubled
Mix(d, e, b, c, f) == Xor(Xor(d, Xor(e, b)), Xor(c, f))
\* A byte of invMixColumns
InvMix(a, b, c, d) == Xor(Xor(mul(a, Bits(14)), mul(b, Bits(11))),
                          Xor(mul(c, Bits(13)), mul(d, Bits(9))))

\* The doubling of a mixed byte is the mix of the doubled.
LEMMA MixDoubles ==
  ASSUME NEW a \in Byte, NEW b \in Byte, NEW c \in Byte, NEW d \in Byte, NEW e \in Byte
  PROVE  /\ Mix(a, b, c, d, e) \in Byte
         /\ xtime(Mix(a, b, c, d, e)) = Mix(xtime(a), xtime(b), xtime(c), xtime(d), xtime(e))
  <1>1. PICK p \in Byte, q \in Byte, r \in Byte :
            p = Xor(b, c) /\ q = Xor(a, p) /\ r = Xor(d, e)
    BY XorFacts
  <1>2. Mix(a, b, c, d, e) = Xor(q, r)
    BY <1>1 DEF Mix
  <1>3. xtime(Xor(q, r)) = Xor(xtime(q), xtime(r))
    BY XtimeLinear
  <1>4. xtime(p) = Xor(xtime(b), xtime(c)) /\ xtime(q) = Xor(xtime(a), xtime(p))
        /\ xtime(r) = Xor(xtime(d), xtime(e))
    BY <1>1, XtimeLinear
  <1> QED BY <1>1, <1>2, <1>3, <1>4, XorFacts DEF Mix

\* Eleven products, summed mixed byte by mixed byte or factor by factor.
LEMMA XorRegroup ==
  ASSUME NEW m1, NEW m2, NEW m3, NEW n0, NEW n1, NEW n3, NEW p0, NEW p2, NEW p3,
         NEW q0, NEW q3
  PROVE  Xor(Xor(Xor(Xor(m1, m2), m3), Xor(Xor(n0, n1), n3)),
             Xor(Xor(Xor(p0, p2), p3), Xor(q0, q3)))
         = Xor(Xor(Xor(Xor(n0, p0), q0), Xor(m1, n1)),
               Xor(Xor(m2, p2), Xor(Xor(m3, n3), Xor(p3, q3))))
  BY DEF Xor

\* Times 14, 11, 13 and 9 the four mixed bytes of a column give its first byte.
LEMMA MixCancels ==
  ASSUME NEW a0, NEW a1, NEW a2, NEW a3, NEW b0, NEW b1, NEW b2, NEW b3,
         NEW c0, NEW c1, NEW c2, NEW c3, NEW d0, NEW d1, NEW d2, NEW d3,
         NEW e0, NEW e1, NEW e2, NEW e3
  PROVE  Xor(Xor(Xor(Xor(Mix(c0, c1, b1, b2, b3), Mix(d0, d1, c1, c2, c3)),
                     Mix(e0, e1, d1, d2, d3)),
                 Xor(Xor(Mix(b1, b2, a2, a3, a0), Mix(c1, c2, b2, b3, b0)),
                     Mix(e1, e2, d2, d3, d0))),
             Xor(Xor(Xor(Mix(b2, b3, a3, a0, a1), Mix(d2, d3, c3, c0, c1)),
                     Mix(e2, e3, d3, d0, d1)),
                 Xor(Mix(b3, b0, a0, a1, a2), Mix(e3, e0, d0, d1, d2)))) = a0
  <1>1. Xor(Xor(Mix(b1, b2, a2, a3, a0), Mix(b2, b3, a3, a0, a1)), Mix(b3, b0, a0, a1, a2))
          = Xor(a0, Xor(b0, b1))
    BY DEF Xor, Mix
  <1>2. Xor(Mix(c0, c1, b1, b2, b3), Mix(c1, c2, b2, b3, b0)) = Xor(Xor(c0, b0), Xor(b1, c2))
    BY DEF Xor, Mix
  <1>3. Xor(Mix(d0, d1, c1, c2, c3), Mix(d2, d3, c3, c0, c1))
          = Xor(Xor(Xor(d0, c0), d1), Xor(Xor(d2, c2), d3))
    BY DEF Xor, Mix
  <1>4. Xor(Xor(Mix(e0, e1, d1, d2, d3), Mix(e1, e2, d2, d3, d0)),
            Xor(Mix(e2, e3, d3, d0, d1), Mix(e3, e0, d0, d1, d2)))
          = Xor(Xor(d0, d1), Xor(d2, d3))
    <2>1. Xor(Mix(e0, e1, d1, d2, d3), Mix(e1, e2, d2, d3, d0)) = Xor(Xor(e0, d0), Xor(d1, e2))
      BY DEF Xor, Mix
    <2>2. Xor(Mix(e2, e3, d3, d0, d1), Mix(e3, e0, d0, d1, d2)) = Xor(Xor(e2, d2), Xor(d3, e0))
      BY DEF Xor, Mix
    <2>3. Xor(Xor(Xor(e0, d0), Xor(d1, e2)), Xor(Xor(e2, d2), Xor(d3, e0)))
            = Xor(Xor(d0, d1), Xor(d2, d3))
      BY DEF Xor
    <2> QED BY <2>1, <2>2, <2>3
  <1>5. Xor(Xor(Xor(a0, Xor(b0, b1)), Xor(Xor(c0, b0), Xor(b1, c2))),
            Xor(Xor(Xor(Xor(d0, c0), d1), Xor(Xor(d2, c2), d3)),
                Xor(Xor(d0, d1), Xor(d2, d3)))) = a0
    <2>1. Xor(Xor(a0, Xor(b0, b1)), Xor(Xor(c0, b0), Xor(b1, c2))) = Xor(a0, Xor(c0, c2))
      BY DEF Xor
    <2>2. Xor(Xor(Xor(Xor(d0, c0), d1), Xor(Xor(d2, c2), d3)), Xor(Xor(d0, d1), Xor(d2, d3)))
            = Xor(c0, c2)
      BY DEF Xor
    <2>3. Xor(Xor(a0, Xor(c0, c2)), Xor(c0, c2)) = a0
      BY DEF Xor
    <2> QED BY <2>1, <2>2, <2>3
  <1>6. Xor(Xor(Xor(Xor(Mix(c0, c1, b1, b2, b3), Mix(d0, d1, c1, c2, c3)),
                    Mix(e0, e1, d1, d2, d3)),
                Xor(Xor(Mix(b1, b2, a2, a3, a0), Mix(c1, c2, b2, b3, b0)),
                    Mix(e1, e2, d2, d3, d0))),
            Xor(Xor(Xor(Mix(b2, b3, a3, a0, a1), Mix(d2, d3, c3, c0, c1)),
                    Mix(e2, e3, d3, d0, d1)),
                Xor(Mix(b3, b0, a0, a1, a2), Mix(e3, e0, d0, d1, d2))))
        = Xor(Xor(Xor(Xor(Mix(b1, b2, a2, a3, a0), Mix(b2, b3, a3, a0, a1)),
                      Mix(b3, b0, a0, a1, a2)),
                  Xor(Mix(c0, c1, b1, b2, b3), Mix(c1, c2, b2, b3, b0))),
              Xor(Xor(Mix(d0, d1, c1, c2, c3), Mix(d2, d3, c3, c0, c1)),
                  Xor(Xor(Mix(e0, e1, d1, d2, d3), Mix(e1, e2, d2, d3, d0)),
                      Xor(Mix(e2, e3, d3, d0, d1), Mix(e3, e0, d0, d1, d2)))))
    BY XorRegroup
  <1> QED BY <1>1, <1>2, <1>3, <1>4, <1>5, <1>6

\* invMixColumns undoes mixColumns on a column.
LEMMA ColumnBack ==
  ASSUME NEW a \in Byte, NEW b \in Byte, NEW c \in Byte, NEW d \in Byte
  PROVE  InvMix(Mix(xtime(a), xtime(b), b, c, d), Mix(xtime(b), xtime(c), c, d, a),
                Mix(xtime(c), xtime(d), d, a, b), Mix(xtime(d), xtime(a), a, b, c)) = a
  <1> DEFINE m(p, q, r, s) == Mix(xtime(p), xtime(q), q, r, s)
  <1>1. ASSUME NEW p \in Byte, NEW q \in Byte, NEW r \in Byte, NEW s \in Byte
        PROVE  /\ m(p, q, r, s) \in Byte
               /\ xtime(m(p, q, r, s)) = m(xtime(p), xtime(q), xtime(r), xtime(s))
    <2>1. xtime(p) \in Byte /\ xtime(q) \in Byte
      BY XtimeLinear
    <2> QED BY <2>1, MixDoubles
  <1> HIDE DEF m
  <1>2. ASSUME NEW p \in Byte, NEW q \in Byte, NEW r \in Byte, NEW s \in Byte
        PROVE  /\ x2(m(p, q, r, s)) = m(x2(p), x2(q), x2(r), x2(s))
               /\ x4(m(p, q, r, s)) = m(x4(p), x4(q), x4(r), x4(s))
               /\ x8(m(p, q, r, s)) = m(x8(p), x8(q), x8(r), x8(s))
    <2>1. \A v \in Byte : xtime(v) \in Byte
      BY XtimeLinear
    <2>2. xtime(m(p, q, r, s)) = m(xtime(p), xtime(q), xtime(r), xtime(s))
      BY <1>1
    <2>3. xtime(m(xtime(p), xtime(q), xtime(r), xtime(s))) =
            m(xtime(xtime(p)), xtime(xtime(q)), xtime(xtime(r)), xtime(xtime(s)))
      BY <1>1, <2>1
    <2>4. xtime(m(xtime(xtime(p)), xtime(xtime(q)), xtime(xtime(r)), xtime(xtime(s)))) =
            m(xtime(xtime(xtime(p))), xtime(xtime(xtime(q))), xtime(xtime(xtime(r))),
              xtime(xtime(xtime(s))))
      BY <1>1, <2>1
    <2> QED BY <2>2, <2>3, <2>4 DEF x2, x4, x8
  <1>3. InvMix(m(a, b, c, d), m(b, c, d, a), m(c, d, a, b), m(d, a, b, c)) =
          Xor(Xor(Xor(Xor(m(x2(a), x2(b), x2(c), x2(d)), m(x4(a), x4(b), x4(c), x4(d))),
                      m(x8(a), x8(b), x8(c), x8(d))),
                  Xor(Xor(m(b, c, d, a), m(x2(b), x2(c), x2(d), x2(a))),
                      m(x8(b), x8(c), x8(d), x8(a)))),
              Xor(Xor(Xor(m(c, d, a, b), m(x4(c), x4(d), x4(a), x4(b))),
                      m(x8(c), x8(d), x8(a), x8(b))),
                  Xor(m(d, a, b, c), m(x8(d), x8(a), x8(b), x8(c)))))
    <2>1. PICK m0 \in Byte, m1 \in Byte, m2 \in Byte, m3 \in Byte :
            m0 = m(a, b, c, d) /\ m1 = m(b, c, d, a) /\ m2 = m(c, d, a, b) /\ m3 = m(d, a, b, c)
      BY <1>1
    <2>2. InvMix(m0, m1, m2, m3) =
            Xor(Xor(Xor(Xor(x2(m0), x4(m0)), x8(m0)), Xor(Xor(m1, x2(m1)), x8(m1))),
                Xor(Xor(Xor(m2, x4(m2)), x8(m2)), Xor(m3, x8(m3))))
      BY Factors DEF InvMix
    <2> QED BY <1>2, <2>1, <2>2
  <1> QED BY <1>3, MixCancels DEF m, x2, x4, x8
-----------------------------------------------------------------------------
(* The steps of a round *)

AesBlock == [1..16 -> Byte]

\* A tuple that has been evaluated is the function.
LEMMA Evaluated ==
  ASSUME NEW n \in Nat, NEW f, f = [i \in 1..n |-> f[i]]
  PROVE  f \o <<>> = f
  <1> DEFINE S == {f[i] : i \in 1..n}
  <1>1. f \in [1..n -> S]
    OBVIOUS
  <1>2. f \in Seq(S)
    BY <1>1
  <1> QED BY <1>2, ConcatEmptySeq

\* addRoundKey, shiftRows, subBytes and mixColumns place by place, and what undoes
\* each.
LEMMA AddIs ==
  ASSUME NEW s \in AesBlock, NEW k \in AesBlock
  PROVE  /\ addRoundKey(s, k) \in AesBlock
         /\ \A i \in 1..16 : addRoundKey(s, k)[i] = Xor(s[i], k[i])
  <1> DEFINE f == [i \in 1..16 |-> Xor(s[i], k[i])]
  <1>1. addRoundKey(s, k) = f \o <<>>
    BY DEF addRoundKey, Bytes
  <1>2. f = [i \in 1..16 |-> f[i]]
    OBVIOUS
  <1>3. f \o <<>> = f
    <2> HIDE DEF f
    <2> QED BY <1>2, Evaluated
  <1> QED BY <1>1, <1>3, XorFacts DEF AesBlock

LEMMA AddBack ==
  ASSUME NEW s \in AesBlock, NEW k \in AesBlock
  PROVE  addRoundKey(addRoundKey(s, k), k) = s
  <1>1. PICK t \in AesBlock : t = addRoundKey(s, k)
    BY AddIs
  <1>2. PICK u \in AesBlock : u = addRoundKey(t, k)
    BY AddIs
  <1>3. ASSUME NEW i \in 1..16 PROVE u[i] = s[i]
    <2>1. t[i] = Xor(s[i], k[i]) /\ u[i] = Xor(t[i], k[i])
      BY <1>1, <1>2, AddIs
    <2>2. s[i] \in Byte /\ k[i] \in Byte
      BY DEF AesBlock
    <2> QED BY <2>1, <2>2, XorFacts
  <1> QED BY <1>1, <1>2, <1>3 DEF AesBlock

LEMMA ShiftIs ==
  ASSUME NEW s \in AesBlock
  PROVE  /\ shiftRows(s) \in AesBlock /\ invShiftRows(s) \in AesBlock
         /\ \A i \in 1..16 : shiftRows(s)[i] = s[ShiftFrom[i] + 1]
         /\ \A i \in 1..16 : invShiftRows(s)[i] = s[InvShiftFrom[i] + 1]
  <1> DEFINE f == [i \in 1..16 |-> s[ShiftFrom[i] + 1]]
             g == [i \in 1..16 |-> s[InvShiftFrom[i] + 1]]
  <1>1. shiftRows(s) = f \o <<>> /\ invShiftRows(s) = g \o <<>>
    BY DEF shiftRows, invShiftRows, Bytes
  <1>2. \A i \in 1..16 : ShiftFrom[i] + 1 \in 1..16 /\ InvShiftFrom[i] + 1 \in 1..16
    BY DEF ShiftFrom, InvShiftFrom
  <1>3. f = [i \in 1..16 |-> f[i]] /\ g = [i \in 1..16 |-> g[i]]
    OBVIOUS
  <1>4. f \o <<>> = f /\ g \o <<>> = g
    <2> HIDE DEF f, g
    <2> QED BY <1>3, Evaluated
  <1> QED BY <1>1, <1>2, <1>4 DEF AesBlock

LEMMA ShiftBack ==
  ASSUME NEW s \in AesBlock
  PROVE  invShiftRows(shiftRows(s)) = s
  <1>1. \A i \in 1..16 : InvShiftFrom[i] + 1 \in 1..16 /\ ShiftFrom[InvShiftFrom[i] + 1] + 1 = i
    BY DEF ShiftFrom, InvShiftFrom
  <1>2. PICK t \in AesBlock : t = shiftRows(s)
    BY ShiftIs
  <1>3. PICK u \in AesBlock : u = invShiftRows(t)
    BY ShiftIs
  <1>4. ASSUME NEW i \in 1..16 PROVE u[i] = s[i]
    <2>1. PICK j \in 1..16 : j = InvShiftFrom[i] + 1 /\ ShiftFrom[j] + 1 = i
      BY <1>1
    <2>2. u[i] = t[InvShiftFrom[i] + 1]
      BY <1>3, ShiftIs
    <2>3. t[j] = s[ShiftFrom[j] + 1]
      BY <1>2, ShiftIs
    <2> QED BY <2>1, <2>2, <2>3
  <1> QED BY <1>2, <1>3, <1>4 DEF AesBlock

LEMMA SubIs ==
  ASSUME NEW s \in AesBlock
  PROVE  /\ subBytes(s) \in AesBlock
         /\ \A i \in 1..16 : subBytes(s)[i] = Sub[s[i]] /\ invSubBytes(s)[i] = InvSub[s[i]]
         /\ invSubBytes(s) = [i \in 1..16 |-> InvSub[s[i]]]
  <1> DEFINE f == [i \in 1..16 |-> Sub[s[i]]]
             g == [i \in 1..16 |-> InvSub[s[i]]]
  <1>1. subBytes(s) = f \o <<>> /\ invSubBytes(s) = g \o <<>>
    BY DEF subBytes, invSubBytes, Bytes
  <1>2. \A b \in Byte : Sub[b] \in Byte
    BY DEF Sub, Bits, Byte
  <1>3. f = [i \in 1..16 |-> f[i]] /\ g = [i \in 1..16 |-> g[i]]
    OBVIOUS
  <1>4. f \o <<>> = f /\ g \o <<>> = g
    <2> HIDE DEF f, g
    <2> QED BY <1>3, Evaluated
  <1> QED BY <1>1, <1>2, <1>4 DEF AesBlock

LEMMA SubBack ==
  ASSUME NEW s \in AesBlock, \A b \in Byte : InvSub[Sub[b]] = b
  PROVE  invSubBytes(subBytes(s)) = s
  <1>1. PICK t \in AesBlock : t = subBytes(s)
    BY SubIs
  <1>2. PICK u : u = [i \in 1..16 |-> InvSub[t[i]]] /\ u = invSubBytes(t)
    BY SubIs
  <1>3. ASSUME NEW i \in 1..16 PROVE u[i] = s[i]
    <2>1. u[i] = InvSub[t[i]] /\ t[i] = Sub[s[i]]
      BY <1>1, <1>2, SubIs
    <2>2. s[i] \in Byte
      BY DEF AesBlock
    <2> QED BY <2>1, <2>2
  <1> QED BY <1>1, <1>2, <1>3 DEF AesBlock

\* The place k below place i in its column
PlaceBelow(i, k) == ((i - 1) \div 4) * 4 + ((i - 1 + k) % 4) + 1

\* Going down k places and then l is going down k + l.
LEMMA PlacesBelow ==
  ASSUME NEW i \in 1..16
  PROVE  /\ PlaceBelow(i, 0) = i
         /\ \A k \in 0..3 : PlaceBelow(i, k) \in 1..16
         /\ \A k, l \in 0..3 : PlaceBelow(PlaceBelow(i, k), l) = PlaceBelow(i, (k + l) % 4)
  <1>1. PICK c \in 0..3, r \in 0..3 : i = 4 * c + r + 1
    <2>1. (i - 1) \div 4 \in 0..3 /\ (i - 1) % 4 \in 0..3 /\ 
         i - 1 = 4 * ((i - 1) \div 4) + ((i - 1) % 4)
      OBVIOUS
    <2> QED BY <2>1
  <1>2. ASSUME NEW d \in 0..3, NEW p \in 0..3, NEW k \in 0..3
        PROVE  PlaceBelow(4 * d + p + 1, k) = 4 * d + ((p + k) % 4) + 1
    <2>1. (4 * d + p + 1 - 1) \div 4 = d
      OBVIOUS
    <2>2. (4 * d + p + 1 - 1 + k) % 4 = (p + k) % 4
      OBVIOUS
    <2> QED BY <2>1, <2>2 DEF PlaceBelow
  <1>3. \A k \in 0..3 : (r + k) % 4 \in 0..3
    OBVIOUS
  <1>4. \A k, l \in 0..3 : /\ (k + l) % 4 \in 0..3
                          /\ (((r + k) % 4) + l) % 4 = (r + ((k + l) % 4)) % 4
    OBVIOUS
  <1>5. \A k, l \in 0..3 : PlaceBelow(PlaceBelow(i, k), l) = PlaceBelow(i, (k + l) % 4)
    BY <1>1, <1>2, <1>3, <1>4
  <1>6. r % 4 = r
    OBVIOUS
  <1> QED BY <1>1, <1>2, <1>3, <1>5, <1>6

LEMMA MixIs ==
  ASSUME NEW s \in AesBlock
  PROVE  /\ mixColumns(s) \in AesBlock
         /\ \A i \in 1..16 :
              mixColumns(s)[i] =
                Mix(xtime(Below(s, i, 0)), xtime(Below(s, i, 1)), Below(s, i, 1),
                    Below(s, i, 2), Below(s, i, 3))
         /\ invMixColumns(s) = [i \in 1..16 |-> InvMix(Below(s, i, 0), Below(s, i, 1),
                                                       Below(s, i, 2), Below(s, i, 3))]
  <1> DEFINE f == [i \in 1..16 |-> Mix(xtime(Below(s, i, 0)), xtime(Below(s, i, 1)),
                                       Below(s, i, 1), Below(s, i, 2), Below(s, i, 3))]
             g == [i \in 1..16 |-> InvMix(Below(s, i, 0), Below(s, i, 1),
                                          Below(s, i, 2), Below(s, i, 3))]
  <1>1. mixColumns(s) = f \o <<>>
    BY DEF mixColumns, Bytes, Mix
  <1>2. invMixColumns(s) = g \o <<>>
    BY DEF invMixColumns, Bytes, InvMix
  <1>3. f = [i \in 1..16 |-> f[i]] /\ g = [i \in 1..16 |-> g[i]]
    OBVIOUS
  <1>4. f \o <<>> = f /\ g \o <<>> = g
    <2> HIDE DEF f, g
    <2> QED BY <1>3, Evaluated
  <1>5. ASSUME NEW i \in 1..16 PROVE f[i] \in Byte
    <2>1. \A k \in 0..3 : Below(s, i, k) \in Byte
      BY PlacesBelow DEF Below, PlaceBelow, AesBlock
    <2> QED BY <2>1, XtimeLinear, MixDoubles
  <1> HIDE DEF f
  <1>6. f \in AesBlock
    BY <1>3, <1>5 DEF AesBlock
  <1> QED BY <1>1, <1>2, <1>4, <1>6 DEF f

LEMMA MixBack ==
  ASSUME NEW s \in AesBlock
  PROVE  invMixColumns(mixColumns(s)) = s
  <1>1. PICK m \in AesBlock : m = mixColumns(s)
    BY MixIs
  <1>2. ASSUME NEW i \in 1..16
        PROVE  InvMix(Below(m, i, 0), Below(m, i, 1), Below(m, i, 2), Below(m, i, 3)) = s[i]
    <2> DEFINE c(k) == Below(s, i, k)
    <2>1. ASSUME NEW k \in 0..3 PROVE c(k) \in Byte
      BY PlacesBelow DEF Below, PlaceBelow, AesBlock
    <2>2. ASSUME NEW k \in 0..3, NEW l \in 0..3
          PROVE  Below(s, PlaceBelow(i, k), l) = c((k + l) % 4)
      <3>1. PlaceBelow(PlaceBelow(i, k), l) = PlaceBelow(i, (k + l) % 4)
        BY PlacesBelow
      <3> QED BY <3>1 DEF Below, PlaceBelow
    <2>3. ASSUME NEW k \in 0..3
          PROVE  Below(m, i, k) = Mix(xtime(c(k)), xtime(c((k + 1) % 4)), c((k + 1) % 4),
                                      c((k + 2) % 4), c((k + 3) % 4))
      <3>1. PlaceBelow(i, k) \in 1..16
        BY PlacesBelow
      <3>2. (k + 0) % 4 = k
        OBVIOUS
      <3>3. Below(m, i, k) = m[PlaceBelow(i, k)]
        BY DEF Below, PlaceBelow
      <3> HIDE DEF c
      <3> QED BY <1>1, <2>2, <3>1, <3>2, <3>3, MixIs
    <2>4. c(0) = s[i]
      BY PlacesBelow DEF Below, PlaceBelow
    <2> HIDE DEF c
    <2>5. /\ Below(m, i, 0) = Mix(xtime(c(0)), xtime(c(1)), c(1), c(2), c(3))
          /\ Below(m, i, 1) = Mix(xtime(c(1)), xtime(c(2)), c(2), c(3), c(0))
          /\ Below(m, i, 2) = Mix(xtime(c(2)), xtime(c(3)), c(3), c(0), c(1))
          /\ Below(m, i, 3) = Mix(xtime(c(3)), xtime(c(0)), c(0), c(1), c(2))
      BY <2>3
    <2>6. c(0) \in Byte /\ c(1) \in Byte /\ c(2) \in Byte /\ c(3) \in Byte
      BY <2>1
    <2> QED BY <2>4, <2>5, <2>6, ColumnBack
  <1>3. [i \in 1..16 |-> InvMix(Below(m, i, 0), Below(m, i, 1), Below(m, i, 2), Below(m, i, 3))]
          = [i \in 1..16 |-> s[i]]
    BY <1>2
  <1> QED BY <1>1, <1>3, MixIs DEF AesBlock
-----------------------------------------------------------------------------
(* The table *)

\* The place of each byte in sbox, what initRsbox computes
rsbox == <<
  82, 9, 106, 213, 48, 54, 165, 56, 191, 64, 163, 158, 129, 243, 215, 251,
  124, 227, 57, 130, 155, 47, 255, 135, 52, 142, 67, 68, 196, 222, 233, 203,
  84, 123, 148, 50, 166, 194, 35, 61, 238, 76, 149, 11, 66, 250, 195, 78,
  8, 46, 161, 102, 40, 217, 36, 178, 118, 91, 162, 73, 109, 139, 209, 37,
  114, 248, 246, 100, 134, 104, 152, 22, 212, 164, 92, 204, 93, 101, 182, 146,
  108, 112, 72, 80, 253, 237, 185, 218, 94, 21, 70, 87, 167, 141, 157, 132,
  144, 216, 171, 0, 140, 188, 211, 10, 247, 228, 88, 5, 184, 179, 69, 6,
  208, 44, 30, 143, 202, 63, 15, 2, 193, 175, 189, 3, 1, 19, 138, 107,
  58, 145, 17, 65, 79, 103, 220, 234, 151, 242, 207, 206, 240, 180, 230, 115,
  150, 172, 116, 34, 231, 173, 53, 133, 226, 249, 55, 232, 28, 117, 223, 110,
  71, 241, 26, 113, 29, 41, 197, 137, 111, 183, 98, 14, 170, 24, 190, 27,
  252, 86, 62, 75, 198, 210, 121, 32, 154, 219, 192, 254, 120, 205, 90, 244,
  31, 221, 168, 51, 136, 7, 199, 49, 177, 18, 16, 89, 39, 128, 236, 95,
  96, 81, 127, 169, 25, 181, 74, 13, 45, 229, 122, 159, 147, 201, 156, 239,
  160, 224, 59, 77, 174, 42, 245, 176, 200, 235, 187, 60, 131, 83, 153, 97,
  23, 43, 4, 126, 186, 119, 214, 38, 225, 105, 20, 99, 85, 33, 12, 125>>

\* No byte is twice in the table.
LEMMA TableBack == \A v \in 0..255 : sbox[v + 1] \in 0..255 /\ rsbox[sbox[v + 1] + 1] = v
  <1> DEFINE Back(v) == sbox[v + 1] \in 0..255 /\ rsbox[sbox[v + 1] + 1] = v
  <1>1. \A v \in 0..15 : Back(v)
    BY DEF sbox, rsbox
  <1>2. \A v \in 16..31 : Back(v)
    BY DEF sbox, rsbox
  <1>3. \A v \in 32..47 : Back(v)
    BY DEF sbox, rsbox
  <1>4. \A v \in 48..63 : Back(v)
    BY DEF sbox, rsbox
  <1>5. \A v \in 64..79 : Back(v)
    BY DEF sbox, rsbox
  <1>6. \A v \in 80..95 : Back(v)
    BY DEF sbox, rsbox
  <1>7. \A v \in 96..111 : Back(v)
    BY DEF sbox, rsbox
  <1>8. \A v \in 112..127 : Back(v)
    BY DEF sbox, rsbox
  <1>9. \A v \in 128..143 : Back(v)
    BY DEF sbox, rsbox
  <1>10. \A v \in 144..159 : Back(v)
    BY DEF sbox, rsbox
  <1>11. \A v \in 160..175 : Back(v)
    BY DEF sbox, rsbox
  <1>12. \A v \in 176..191 : Back(v)
    BY DEF sbox, rsbox
  <1>13. \A v \in 192..207 : Back(v)
    BY DEF sbox, rsbox
  <1>14. \A v \in 208..223 : Back(v)
    BY DEF sbox, rsbox
  <1>15. \A v \in 224..239 : Back(v)
    BY DEF sbox, rsbox
  <1>16. \A v \in 240..255 : Back(v)
    BY DEF sbox, rsbox
  <1> HIDE DEF Back
  <1>17. ASSUME NEW v \in 0..255
         PROVE  \/ v \in 0..15 \/ v \in 16..31 \/ v \in 32..47 \/ v \in 48..63
                \/ v \in 64..79 \/ v \in 80..95 \/ v \in 96..111 \/ v \in 112..127
                \/ v \in 128..143 \/ v \in 144..159 \/ v \in 160..175 \/ v \in 176..191
                \/ v \in 192..207 \/ v \in 208..223 \/ v \in 224..239 \/ v \in 240..255
    OBVIOUS
  <1>18. \A v \in 0..255 : Back(v)
    BY <1>1, <1>2, <1>3, <1>4, <1>5, <1>6, <1>7, <1>8, <1>9, <1>10,
       <1>11, <1>12, <1>13, <1>14, <1>15, <1>16, <1>17
  <1> QED BY <1>18 DEF Back

\* ValueOf's partial sums
Values(f, b) == f = [i \in 0..8 |-> IF i = 0 THEN 0
                                    ELSE f[i - 1] + IF i - 1 \in b THEN 2^(i - 1) ELSE 0]

\* The weights of the bits.
LEMMA Powers ==
  /\ 2^0 = 1 /\ 2^1 = 2 /\ 2^2 = 4 /\ 2^3 = 8
  /\ 2^4 = 16 /\ 2^5 = 32 /\ 2^6 = 64 /\ 2^7 = 128
  OBVIOUS

\* A byte's value is the weights of its bits.
LEMMA ValueIs ==
  ASSUME NEW b
  PROVE  ValueOf(b) = (IF 0 \in b THEN 1 ELSE 0) + (IF 1 \in b THEN 2 ELSE 0)
                      + (IF 2 \in b THEN 4 ELSE 0) + (IF 3 \in b THEN 8 ELSE 0)
                      + (IF 4 \in b THEN 16 ELSE 0) + (IF 5 \in b THEN 32 ELSE 0)
                      + (IF 6 \in b THEN 64 ELSE 0) + (IF 7 \in b THEN 128 ELSE 0)
  <1> DEFINE V == [i \in 0..8 |-> Nat]
             term(i) == IF i - 1 \in b THEN 2^(i - 1) ELSE 0
             G == [i \in 1..8 |-> [x \in Nat |-> x + term(i)]]
  <1>1. /\ term(1) = (IF 0 \in b THEN 1 ELSE 0) /\ term(2) = (IF 1 \in b THEN 2 ELSE 0)
        /\ term(3) = (IF 2 \in b THEN 4 ELSE 0) /\ term(4) = (IF 3 \in b THEN 8 ELSE 0)
        /\ term(5) = (IF 4 \in b THEN 16 ELSE 0) /\ term(6) = (IF 5 \in b THEN 32 ELSE 0)
        /\ term(7) = (IF 6 \in b THEN 64 ELSE 0) /\ term(8) = (IF 7 \in b THEN 128 ELSE 0)
    BY Powers
  <1>2. \A i \in 1..8 : term(i) \in Nat
    <2>1. \A i \in 1..8 : i = 1 \/ i = 2 \/ i = 3 \/ i = 4 \/ i = 5 \/ i = 6 \/ i = 7 \/ i = 8
      OBVIOUS
    <2> HIDE DEF term
    <2> QED BY <1>1, <2>1
  <1>3. 0 \in V[0] /\ \A i \in 1..8 : \A x \in V[i - 1] : G[i][x] \in V[i]
    <2> HIDE DEF term
    <2> QED BY <1>2
  <1>4. PICK g : Recurses(g, 8, V, 0, G)
    <2> HIDE DEF V, G
    <2> QED BY <1>3, RecursionExists
  <1>5. \A i \in 0..8 : g[i] \in Nat
    BY <1>4 DEF Recurses
  <1>6. \A i \in 0..8 : g[i] = IF i = 0 THEN 0 ELSE g[i - 1] + term(i)
    <2>1. TAKE i \in 0..8
    <2>2. g[i] = IF i = 0 THEN 0 ELSE G[i][g[i - 1]]
      BY <1>4 DEF Recurses
    <2>3. i # 0 => i - 1 \in 0..8 /\ i \in 1..8
      OBVIOUS
    <2> HIDE DEF term
    <2> QED BY <1>5, <2>2, <2>3
  <1>7. g = [i \in 0..8 |-> g[i]]
    BY <1>4 DEF Recurses
  <1>8. Values(g, b)
    BY <1>6, <1>7 DEF Values
  <1>9. PICK f : f = CHOOSE h : Values(h, b)
    OBVIOUS
  <1>10. Values(f, b)
    BY <1>8, <1>9
  <1>11. ValueOf(b) = f[8]
    BY <1>9 DEF ValueOf, Values
  <1>12. /\ f[0] = 0
         /\ \A i \in 1..8 : f[i] = f[i - 1] + term(i)
    BY <1>10 DEF Values
  <1> HIDE DEF term
  <1>13. /\ f[1] = f[0] + term(1) /\ f[2] = f[1] + term(2) /\ f[3] = f[2] + term(3)
         /\ f[4] = f[3] + term(4) /\ f[5] = f[4] + term(5) /\ f[6] = f[5] + term(6)
         /\ f[7] = f[6] + term(7) /\ f[8] = f[7] + term(8)
    BY <1>12
  <1> QED BY <1>1, <1>11, <1>12, <1>13

\* A byte is the bits of its value.
LEMMA BitsOfValue ==
  ASSUME NEW b \in Byte
  PROVE  ValueOf(b) \in 0..255 /\ Bits(ValueOf(b)) = b
  <1>1. PICK d0 \in 0..1, d1 \in 0..1, d2 \in 0..1, d3 \in 0..1,
             d4 \in 0..1, d5 \in 0..1, d6 \in 0..1, d7 \in 0..1 :
          /\ d0 = (IF 0 \in b THEN 1 ELSE 0) /\ d1 = (IF 1 \in b THEN 1 ELSE 0)
          /\ d2 = (IF 2 \in b THEN 1 ELSE 0) /\ d3 = (IF 3 \in b THEN 1 ELSE 0)
          /\ d4 = (IF 4 \in b THEN 1 ELSE 0) /\ d5 = (IF 5 \in b THEN 1 ELSE 0)
          /\ d6 = (IF 6 \in b THEN 1 ELSE 0) /\ d7 = (IF 7 \in b THEN 1 ELSE 0)
    OBVIOUS
  <1>2. PICK v \in 0..255 :
          /\ v = ValueOf(b)
          /\ v = d0 + 2 * d1 + 4 * d2 + 8 * d3 + 16 * d4 + 32 * d5 + 64 * d6 + 128 * d7
    BY <1>1, ValueIs
  <1>3. /\ v % 2 = d0 /\ (v \div 2) % 2 = d1 /\ (v \div 4) % 2 = d2 /\ (v \div 8) % 2 = d3
        /\ (v \div 16) % 2 = d4 /\ (v \div 32) % 2 = d5 /\ (v \div 64) % 2 = d6
        /\ (v \div 128) % 2 = d7
    BY <1>2
  <1>4. ASSUME NEW i \in 0..7 PROVE i \in Bits(v) <=> i \in b
    <2>1. i = 0 \/ i = 1 \/ i = 2 \/ i = 3 \/ i = 4 \/ i = 5 \/ i = 6 \/ i = 7
      OBVIOUS
    <2>2. \A k \in 0..7 : k \in Bits(v) <=> (v \div 2^k) % 2 = 1
      BY DEF Bits
    <2>3. v \div 1 = v
      OBVIOUS
    <2>4. /\ 0 \in Bits(v) <=> d0 = 1
          /\ 1 \in Bits(v) <=> d1 = 1
          /\ 2 \in Bits(v) <=> d2 = 1
          /\ 3 \in Bits(v) <=> d3 = 1
          /\ 4 \in Bits(v) <=> d4 = 1
          /\ 5 \in Bits(v) <=> d5 = 1
          /\ 6 \in Bits(v) <=> d6 = 1
          /\ 7 \in Bits(v) <=> d7 = 1
      BY <1>3, <2>2, <2>3, Powers
    <2> QED BY <1>1, <2>1, <2>4
  <1>5. Bits(v) \subseteq 0..7 /\ b \subseteq 0..7
    BY DEF Bits, Byte
  <1> QED BY <1>2, <1>4, <1>5

\* A number is the value of its bits.
LEMMA ValueOfBits ==
  ASSUME NEW k \in 0..255
  PROVE  ValueOf(Bits(k)) = k
  <1>1. k = (k % 2) + 2 * ((k \div 2) % 2) + 4 * ((k \div 4) % 2) + 8 * ((k \div 8) % 2)
            + 16 * ((k \div 16) % 2) + 32 * ((k \div 32) % 2) + 64 * ((k \div 64) % 2)
            + 128 * ((k \div 128) % 2)
    OBVIOUS
  <1>2. /\ k % 2 = (IF 0 \in Bits(k) THEN 1 ELSE 0)
        /\ (k \div 2) % 2 = (IF 1 \in Bits(k) THEN 1 ELSE 0)
        /\ (k \div 4) % 2 = (IF 2 \in Bits(k) THEN 1 ELSE 0)
        /\ (k \div 8) % 2 = (IF 3 \in Bits(k) THEN 1 ELSE 0)
        /\ (k \div 16) % 2 = (IF 4 \in Bits(k) THEN 1 ELSE 0)
        /\ (k \div 32) % 2 = (IF 5 \in Bits(k) THEN 1 ELSE 0)
        /\ (k \div 64) % 2 = (IF 6 \in Bits(k) THEN 1 ELSE 0)
        /\ (k \div 128) % 2 = (IF 7 \in Bits(k) THEN 1 ELSE 0)
    <2>1. \A i \in 0..7 : i \in Bits(k) <=> (k \div 2^i) % 2 = 1
      BY DEF Bits
    <2>2. /\ 0 \in Bits(k) <=> (k \div 1) % 2 = 1
          /\ 1 \in Bits(k) <=> (k \div 2) % 2 = 1
          /\ 2 \in Bits(k) <=> (k \div 4) % 2 = 1
          /\ 3 \in Bits(k) <=> (k \div 8) % 2 = 1
          /\ 4 \in Bits(k) <=> (k \div 16) % 2 = 1
          /\ 5 \in Bits(k) <=> (k \div 32) % 2 = 1
          /\ 6 \in Bits(k) <=> (k \div 64) % 2 = 1
          /\ 7 \in Bits(k) <=> (k \div 128) % 2 = 1
      BY <2>1, Powers
    <2>3. k \div 1 = k
      OBVIOUS
    <2> QED BY <2>2, <2>3
  <1> QED BY <1>1, <1>2, ValueIs

\* InvSub undoes Sub: no byte has two places in the table.
LEMMA InvSubUndoes == \A b \in Byte : InvSub[Sub[b]] = b
  <1> SUFFICES ASSUME NEW b \in Byte PROVE InvSub[Sub[b]] = b
    OBVIOUS
  <1>1. ASSUME NEW c \in Byte, Sub[c] = Sub[b] PROVE c = b
    <2>1. PICK v \in 0..255, w \in 0..255 : v = ValueOf(b) /\ w = ValueOf(c)
      BY BitsOfValue
    <2>2. Bits(sbox[w + 1]) = Bits(sbox[v + 1])
      BY <1>1, <2>1 DEF Sub
    <2>3. sbox[w + 1] = sbox[v + 1]
      <3>1. PICK m \in 0..255, n \in 0..255 : m = sbox[w + 1] /\ n = sbox[v + 1]
        BY TableBack
      <3> QED BY <2>2, <3>1, ValueOfBits
    <2>4. w = v
      BY <2>3, TableBack
    <2> QED BY <2>1, <2>4, BitsOfValue
  <1>2. Sub[b] \in Byte
    BY DEF Sub, Bits, Byte
  <1>3. InvSub[Sub[b]] = CHOOSE c \in Byte : Sub[c] = Sub[b]
    BY <1>2 DEF InvSub
  <1> QED BY <1>1, <1>3
\* A function on 1..n is a sequence of that length, and the other way round.
LEMMA TupleIsSeq ==
  ASSUME NEW n \in Nat, NEW S, NEW f \in [1..n -> S]
  PROVE  f \in Seq(S) /\ Len(f) = n
  OBVIOUS

LEMMA SeqIsTuple ==
  ASSUME NEW n \in Nat, NEW S, NEW f \in Seq(S), Len(f) = n
  PROVE  f \in [1..n -> S]
  OBVIOUS

LEMMA ConcatTuples ==
  ASSUME NEW S, NEW m \in Nat, NEW n \in Nat,
         NEW f \in [1..m -> S], NEW g \in [1..n -> S]
  PROVE  f \o g \in [1..m + n -> S]
  <1>0. PICK k \in Nat : k = m + n
    OBVIOUS
  <1>1. f \in Seq(S) /\ g \in Seq(S) /\ Len(f) = m /\ Len(g) = n
    BY TupleIsSeq
  <1>2. f \o g \in Seq(S) /\ Len(f \o g) = k
    BY <1>0, <1>1, ConcatProperties
  <1> QED BY <1>0, <1>2, SeqIsTuple

LEMMA AppendTuple ==
  ASSUME NEW S, NEW n \in Nat, NEW f \in [1..n -> S], NEW v \in S
  PROVE  Append(f, v) \in [1..n + 1 -> S]
  <1>0. PICK k \in Nat : k = n + 1
    OBVIOUS
  <1>1. f \in Seq(S) /\ Len(f) = n
    BY TupleIsSeq
  <1>2. Append(f, v) \in Seq(S) /\ Len(Append(f, v)) = k
    BY <1>0, <1>1, AppendProperties
  <1> QED BY <1>0, <1>2, SeqIsTuple

LEMMA PartOfTuple ==
  ASSUME NEW S, NEW n \in Nat, NEW k \in Nat, NEW f \in [1..n -> S],
         NEW i \in 1..n, NEW j \in 1..n, i <= j, k = j - i + 1
  PROVE  SubSeq(f, i, j) \in [1..k -> S]
  <1>1. \A l \in i..j : f[l] \in S
    OBVIOUS
  <1>2. SubSeq(f, i, j) \in Seq(S) /\ Len(SubSeq(f, i, j)) = k
    BY <1>1, SubSeqProperties
  <1> QED BY <1>2, SeqIsTuple

-----------------------------------------------------------------------------
(* The key schedule *)

Word == [1..4 -> Byte]

\* Four words make a round key.
LEMMA FourWords ==
  ASSUME NEW a \in Word, NEW b \in Word, NEW c \in Word, NEW d \in Word
  PROVE  a \o b \o c \o d \in AesBlock
  <1>1. PICK l \in Nat, m \in Nat, n \in Nat : n = 4 /\ m = n + n /\ l = m + n /\ l + n = 16
    OBVIOUS
  <1>2. a \in [1..n -> Byte] /\ b \in [1..n -> Byte] /\ c \in [1..n -> Byte]
        /\ d \in [1..n -> Byte]
    BY <1>1 DEF Word
  <1>3. a \o b \in [1..m -> Byte]
    BY <1>1, <1>2, ConcatTuples
  <1>4. (a \o b) \o c \in [1..l -> Byte]
    BY <1>1, <1>2, <1>3, ConcatTuples
  <1>5. ((a \o b) \o c) \o d \in [1..l + n -> Byte]
    BY <1>2, <1>4, ConcatTuples
  <1> QED BY <1>1, <1>5 DEF AesBlock

\* The word that comes after the words w, the i-th counted from 0
NextTemp(w, i) ==
  IF i % 4 = 0
  THEN <<Xor(Sub[w[i][2]], Bits(rcon[i \div 4])), Sub[w[i][3]], Sub[w[i][4]], Sub[w[i][1]]>>
  ELSE w[i]
NextWord(w, i) == Bytes(4, LAMBDA j : Xor(w[i - 3][j], NextTemp(w, i)[j]))

FirstWords(key) == [j \in 1..4 |-> SubSeq(key, 4 * j - 3, 4 * j)]

\* keyExpansion's words
Schedules(f, key) ==
  f = [i \in 3..43 |-> IF i = 3 THEN FirstWords(key)
                       ELSE Append(f[i - 1], NextWord(f[i - 1], i))]

\* A word more.
LEMMA NextIsWord ==
  ASSUME NEW i \in 4..43, NEW w \in [1..i -> Word]
  PROVE  Append(w, NextWord(w, i)) \in [1..i + 1 -> Word]
  <1>1. i \in 1..i /\ i - 3 \in 1..i
    OBVIOUS
  <1>2. \A b \in Byte : Sub[b] \in Byte
    BY DEF Sub, Bits, Byte
  <1>3. Bits(rcon[i \div 4]) \in Byte
    BY DEF Bits, Byte
  <1>4. PICK p \in Word, q \in Word : p = w[i] /\ q = w[i - 3]
    BY <1>1
  <1>5. \A j \in 1..4 : NextTemp(w, i)[j] \in Byte
    <2>1. p[1] \in Byte /\ p[2] \in Byte /\ p[3] \in Byte /\ p[4] \in Byte
      BY DEF Word
    <2>2. PICK b1 \in Byte, b2 \in Byte, b3 \in Byte, b4 \in Byte :
            b1 = Xor(Sub[p[2]], Bits(rcon[i \div 4])) /\ b2 = Sub[p[3]] /\ b3 = Sub[p[4]]
            /\ b4 = Sub[p[1]]
      BY <1>2, <1>3, <2>1, XorFacts
    <2>3. NextTemp(w, i) = IF i % 4 = 0 THEN <<b1, b2, b3, b4>> ELSE p
      BY <1>4, <2>2 DEF NextTemp
    <2>4. \A j \in 1..4 : <<b1, b2, b3, b4>>[j] \in Byte /\ p[j] \in Byte
      BY DEF Word
    <2> QED BY <2>3, <2>4
  <1>6. NextWord(w, i) \in Word
    <2> DEFINE t == NextTemp(w, i)
               f == [j \in 1..4 |-> Xor(w[i - 3][j], t[j])]
    <2>1. NextWord(w, i) = f \o <<>>
      BY DEF NextWord, Bytes
    <2> HIDE DEF t
    <2>2. f = [j \in 1..4 |-> f[j]]
      OBVIOUS
    <2>3. f \o <<>> = f
      <3> HIDE DEF f
      <3> QED BY <2>2, Evaluated
    <2>4. \A j \in 1..4 : q[j] \in Byte /\ t[j] \in Byte
      BY <1>5 DEF Word, t
    <2>5. \A j \in 1..4 : f[j] \in Byte
      BY <1>4, <2>4, XorFacts
    <2> QED BY <2>1, <2>3, <2>5 DEF Word
  <1>7. PICK v \in Word : v = NextWord(w, i)
    BY <1>6
  <1>8. i \in Nat
    OBVIOUS
  <1>9. Append(w, v) \in [1..i + 1 -> Word]
    BY <1>8, AppendTuple
  <1> QED BY <1>7, <1>9

\* The key is the first four.
LEMMA FirstAreWords ==
  ASSUME NEW key \in AesBlock
  PROVE  FirstWords(key) \in [1..4 -> Word]
  <1>1. ASSUME NEW j \in 1..4 PROVE SubSeq(key, 4 * j - 3, 4 * j) \in Word
    <2>1. PICK m \in 1..16, n \in 1..16 : m = 4 * j - 3 /\ n = 4 * j /\ 4 = n - m + 1 /\ m <= n
      OBVIOUS
    <2>2. SubSeq(key, m, n) \in [1..4 -> Byte]
      BY <2>1, PartOfTuple DEF AesBlock
    <2> QED BY <2>1, <2>2 DEF Word
  <1> QED BY <1>1 DEF FirstWords

\* A key has its schedule: 44 words.
LEMMA ScheduleExists ==
  ASSUME NEW key \in AesBlock
  PROVE  \E f : Schedules(f, key)
  <1> DEFINE V == [i \in 0..40 |-> [1..i + 4 -> Word]]
             G == [i \in 1..40 |-> [w \in [1..i + 3 -> Word] |-> Append(w, NextWord(w, i + 3))]]
  <1>1. FirstWords(key) \in V[0] /\ \A i \in 1..40 : \A w \in V[i - 1] : G[i][w] \in V[i]
    <2>1. FirstWords(key) \in V[0]
      BY FirstAreWords
    <2>2. ASSUME NEW i \in 1..40, NEW w, w \in V[i - 1] PROVE G[i][w] \in V[i]
      <3>1. PICK k \in 4..43 : k = i + 3
        OBVIOUS
      <3>2. V[i - 1] = [1..k -> Word] /\ V[i] = [1..k + 1 -> Word]
        <4>1. i - 1 \in 0..40 /\ i \in 0..40
          OBVIOUS
        <4>2. (i - 1) + 4 = k /\ i + 4 = k + 1
          BY <3>1
        <4> QED BY <4>1, <4>2
      <3>3. G[i][w] = Append(w, NextWord(w, k))
        <4>1. w \in [1..i + 3 -> Word]
          BY <2>2, <3>1, <3>2
        <4>2. G[i] = [v \in [1..i + 3 -> Word] |-> Append(v, NextWord(v, i + 3))]
          OBVIOUS
        <4> HIDE DEF G, V
        <4> QED BY <3>1, <4>1, <4>2
      <3>4. w \in [1..k -> Word]
        BY <2>2, <3>2
      <3>5. Append(w, NextWord(w, k)) \in [1..k + 1 -> Word]
        BY <3>4, NextIsWord
      <3> HIDE DEF G, V
      <3> QED BY <3>2, <3>3, <3>5
    <2> QED BY <2>1, <2>2
  <1>2. PICK g : Recurses(g, 40, V, FirstWords(key), G)
    <2> HIDE DEF V, G
    <2> QED BY <1>1, RecursionExists
  <1>3. PICK f : f = [i \in 3..43 |-> g[i - 3]]
    OBVIOUS
  <1>4. ASSUME NEW i \in 3..43
        PROVE  f[i] = IF i = 3 THEN FirstWords(key) ELSE Append(f[i - 1], NextWord(f[i - 1], i))
    <2>1. PICK k \in 0..40 : k = i - 3
      OBVIOUS
    <2>2. f[i] = g[k]
      BY <1>3, <2>1
    <2>3. g[k] = IF k = 0 THEN FirstWords(key) ELSE G[k][g[k - 1]]
      BY <1>2 DEF Recurses
    <2>4. ASSUME k # 0 PROVE f[i] = Append(f[i - 1], NextWord(f[i - 1], i))
      <3>1. PICK h : h = g[k - 1]
        OBVIOUS
      <3>2. k - 1 \in 0..40 /\ k \in 1..40 /\ k + 3 = i /\ (k - 1) + 4 = k + 3
        BY <2>1, <2>4
      <3>3. h \in V[k - 1]
        BY <1>2, <3>1, <3>2 DEF Recurses
      <3>4. h \in [1..k + 3 -> Word]
        BY <3>2, <3>3
      <3>5. G[k][h] = Append(h, NextWord(h, i))
        BY <3>2, <3>4
      <3>6. f[i - 1] = h
        BY <1>3, <2>1, <2>4, <3>1
      <3> HIDE DEF G
      <3> QED BY <2>2, <2>3, <2>4, <3>1, <3>5, <3>6
    <2>5. i = 3 <=> k = 0
      BY <2>1
    <2> HIDE DEF G
    <2> QED BY <2>2, <2>3, <2>4, <2>5
  <1>5. f = [i \in 3..43 |-> f[i]]
    BY <1>3
  <1>6. Schedules(f, key)
    BY <1>4, <1>5 DEF Schedules
  <1> QED BY <1>6

\* Its words are words.
LEMMA ScheduleWords ==
  ASSUME NEW key \in AesBlock, NEW f, Schedules(f, key)
  PROVE  f[43] \in [1..44 -> Word]
  <1> DEFINE S == {n \in Nat : n <= 40 => f[n + 3] \in [1..n + 4 -> Word]}
  <1>1. \A i \in 3..43 :
          f[i] = IF i = 3 THEN FirstWords(key) ELSE Append(f[i - 1], NextWord(f[i - 1], i))
    BY DEF Schedules
  <1>2. 0 \in S
    <2>1. f[3] = FirstWords(key)
      BY <1>1
    <2> QED BY <2>1, FirstAreWords
  <1>3. ASSUME NEW n \in Nat, n \in S PROVE n + 1 \in S
    <2> SUFFICES ASSUME n + 1 <= 40 PROVE f[(n + 1) + 3] \in [1..(n + 1) + 4 -> Word]
      OBVIOUS
    <2>1. PICK i \in 4..43 :
            i = n + 4 /\ (n + 1) + 3 = i /\ (n + 1) + 4 = i + 1 /\ n + 3 = i - 1
      OBVIOUS
    <2>2. f[i - 1] \in [1..i -> Word]
      BY <1>3, <2>1
    <2>3. f[i] = Append(f[i - 1], NextWord(f[i - 1], i))
      <3>1. i \in 3..43 /\ i # 3
        OBVIOUS
      <3> QED BY <1>1, <3>1
    <2> QED BY <2>1, <2>2, <2>3, NextIsWord
  <1> HIDE DEF S
  <1>4. Nat \subseteq S
    BY <1>2, <1>3, SetInduction
  <1>5. 40 \in S
    BY <1>4
  <1> QED BY <1>5 DEF S

\* Every round key is a block.
LEMMA RoundKeys ==
  ASSUME NEW key \in AesBlock
  PROVE  \A r \in 0..10 : RoundKey(keyExpansion(key), r) \in AesBlock
  <1>1. PICK f : f = CHOOSE g : Schedules(g, key)
    OBVIOUS
  <1>2. Schedules(f, key)
    BY <1>1, ScheduleExists
  <1>3. keyExpansion(key) = f[43]
    BY <1>1 DEF keyExpansion, Schedules, FirstWords, NextWord, NextTemp
  <1>4. PICK w \in [1..44 -> Word] : w = keyExpansion(key)
    BY <1>2, <1>3, ScheduleWords
  <1>5. ASSUME NEW r \in 0..10 PROVE RoundKey(w, r) \in AesBlock
    <2>1. /\ 4 * r + 1 \in 1..44 /\ 4 * r + 2 \in 1..44
          /\ 4 * r + 3 \in 1..44 /\ 4 * r + 4 \in 1..44
      OBVIOUS
    <2> QED BY <2>1, FourWords DEF RoundKey
  <1> QED BY <1>4, <1>5
-----------------------------------------------------------------------------
(* The rounds *)

\* encryptBlock's states, under the words w
EncStates(f, w, in) ==
  f = [r \in 0..9 |->
        IF r = 0 THEN addRoundKey(in, RoundKey(w, 0))
        ELSE addRoundKey(mixColumns(shiftRows(subBytes(f[r - 1]))), RoundKey(w, r))]

\* decryptBlock's
DecStates(f, w, in) ==
  f = [r \in 1..10 |->
        IF r = 10 THEN addRoundKey(in, RoundKey(w, 10))
        ELSE invMixColumns(addRoundKey(invSubBytes(invShiftRows(f[r + 1])), RoundKey(w, r)))]

HasKeys(w) == \A r \in 0..10 : RoundKey(w, r) \in AesBlock

\* What a round does to a state before the key is added, and what undoes it
Substituted(s) == shiftRows(subBytes(s))
Restored(s) == invSubBytes(invShiftRows(s))

LEMMA SubstitutedBack ==
  ASSUME NEW s \in AesBlock
  PROVE  Substituted(s) \in AesBlock /\ Restored(Substituted(s)) = s
  BY SubIs, ShiftIs, ShiftBack, SubBack, InvSubUndoes DEF Substituted, Restored

\* A whole round is undone but for the substitution, which the next one undoes.
LEMMA RoundBack ==
  ASSUME NEW s \in AesBlock, NEW k \in AesBlock
  PROVE  /\ addRoundKey(mixColumns(Substituted(s)), k) \in AesBlock
         /\ invMixColumns(addRoundKey(addRoundKey(mixColumns(Substituted(s)), k), k)) =
              Substituted(s)
  <1>1. PICK t \in AesBlock : t = Substituted(s)
    BY SubstitutedBack
  <1>2. PICK u \in AesBlock : u = mixColumns(t)
    BY MixIs
  <1>3. invMixColumns(u) = t
    BY <1>2, MixBack
  <1> QED BY <1>1, <1>2, <1>3, AddIs, AddBack

\* The states of encryption, and the round between two of them.
LEMMA EncStatesExist ==
  ASSUME NEW w, HasKeys(w), NEW in \in AesBlock
  PROVE  \E f : EncStates(f, w, in)
  <1> DEFINE V == [r \in 0..9 |-> AesBlock]
             next(s, r) == addRoundKey(mixColumns(Substituted(s)), RoundKey(w, r))
             first == addRoundKey(in, RoundKey(w, 0))
             G == [r \in 1..9 |-> [s \in AesBlock |-> next(s, r)]]
  <1>1. \A r \in 0..9 : RoundKey(w, r) \in AesBlock
    BY DEF HasKeys
  <1>2. first \in AesBlock
    BY <1>1, AddIs
  <1>3. ASSUME NEW r \in 1..9, NEW s \in AesBlock PROVE next(s, r) \in AesBlock
    BY <1>1, RoundBack
  <1> HIDE DEF first, next
  <1>4. first \in V[0] /\ \A r \in 1..9 : \A s \in V[r - 1] : G[r][s] \in V[r]
    BY <1>2, <1>3
  <1>5. PICK f : Recurses(f, 9, V, first, G)
    <2> HIDE DEF V, G
    <2> QED BY <1>4, RecursionExists
  <1>6. \A r \in 0..9 : f[r] \in AesBlock
    BY <1>5 DEF Recurses
  <1>7. \A r \in 0..9 : f[r] = IF r = 0 THEN first ELSE next(f[r - 1], r)
    <2>1. TAKE r \in 0..9
    <2>2. f[r] = IF r = 0 THEN first ELSE G[r][f[r - 1]]
      BY <1>5 DEF Recurses
    <2>3. r # 0 => r - 1 \in 0..9 /\ r \in 1..9
      OBVIOUS
    <2> QED BY <1>6, <2>2, <2>3
  <1>8. f = [r \in 0..9 |-> f[r]]
    BY <1>5 DEF Recurses
  <1>9. EncStates(f, w, in)
    BY <1>7, <1>8 DEF EncStates, first, next, Substituted
  <1> QED BY <1>9

LEMMA EncStatesAre ==
  ASSUME NEW w, HasKeys(w), NEW in \in AesBlock, NEW f, EncStates(f, w, in)
  PROVE  /\ \A r \in 0..9 : f[r] \in AesBlock
         /\ f[0] = addRoundKey(in, RoundKey(w, 0))
         /\ \A r \in 1..9 :
              f[r] = addRoundKey(mixColumns(Substituted(f[r - 1])), RoundKey(w, r))
  <1> DEFINE S == {n \in Nat : n <= 9 => f[n] \in AesBlock}
  <1>1. \A r \in 0..9 : RoundKey(w, r) \in AesBlock
    BY DEF HasKeys
  <1>2. f[0] = addRoundKey(in, RoundKey(w, 0))
    BY DEF EncStates
  <1>3. ASSUME NEW r \in 1..9
        PROVE  f[r] = addRoundKey(mixColumns(Substituted(f[r - 1])), RoundKey(w, r))
    BY DEF EncStates, Substituted
  <1>4. 0 \in S
    BY <1>1, <1>2, AddIs
  <1>5. ASSUME NEW n \in Nat, n \in S PROVE n + 1 \in S
    <2> SUFFICES ASSUME n + 1 <= 9 PROVE f[n + 1] \in AesBlock
      OBVIOUS
    <2>1. PICK r \in 1..9 : r = n + 1 /\ r - 1 = n
      OBVIOUS
    <2>2. f[n] \in AesBlock /\ RoundKey(w, r) \in AesBlock
      BY <1>1, <1>5
    <2> QED BY <1>3, <2>1, <2>2, RoundBack
  <1> HIDE DEF S
  <1>6. Nat \subseteq S
    BY <1>4, <1>5, SetInduction
  <1>7. \A r \in 0..9 : f[r] \in AesBlock
    BY <1>6 DEF S
  <1> QED BY <1>2, <1>3, <1>7

\* The states of decryption are those of encryption, backwards and substituted.
LEMMA DecStatesAre ==
  ASSUME NEW w, HasKeys(w), NEW in \in AesBlock, NEW e, EncStates(e, w, in),
         NEW out, out = addRoundKey(Substituted(e[9]), RoundKey(w, 10))
  PROVE  /\ \E d : DecStates(d, w, out)
         /\ \A d : DecStates(d, w, out) => d[1] = Substituted(e[0])
  <1>1. \A r \in 0..10 : RoundKey(w, r) \in AesBlock
    BY DEF HasKeys
  <1>2. \A r \in 0..9 : e[r] \in AesBlock
    BY EncStatesAre
  <1>3. addRoundKey(out, RoundKey(w, 10)) = Substituted(e[9])
    BY <1>1, <1>2, SubstitutedBack, AddBack
  <1>4. ASSUME NEW r \in 1..9
        PROVE  invMixColumns(addRoundKey(Restored(Substituted(e[r])), RoundKey(w, r))) =
                 Substituted(e[r - 1])
    <2>1. e[r] \in AesBlock /\ e[r - 1] \in AesBlock /\ RoundKey(w, r) \in AesBlock
      BY <1>1, <1>2
    <2>2. e[r] = addRoundKey(mixColumns(Substituted(e[r - 1])), RoundKey(w, r))
      BY EncStatesAre
    <2>3. Restored(Substituted(e[r])) = e[r]
      BY <2>1, SubstitutedBack
    <2> QED BY <2>1, <2>2, <2>3, RoundBack
  <1>5. \E d : DecStates(d, w, out)
    <2>1. PICK d : d = [r \in 1..10 |-> Substituted(e[r - 1])]
      OBVIOUS
    <2>2. ASSUME NEW r \in 1..10
          PROVE  d[r] = IF r = 10 THEN addRoundKey(out, RoundKey(w, 10))
                        ELSE invMixColumns(addRoundKey(Restored(d[r + 1]), RoundKey(w, r)))
      <3>1. CASE r = 10
        BY <1>3, <2>1, <3>1
      <3>2. CASE r # 10
        <4>1. r \in 1..9 /\ r + 1 \in 1..10 /\ (r + 1) - 1 = r
          BY <3>2
        <4>2. d[r] = Substituted(e[r - 1]) /\ d[r + 1] = Substituted(e[r])
          BY <2>1, <4>1
        <4> QED BY <1>4, <3>2, <4>1, <4>2
      <3> QED BY <3>1, <3>2
    <2>3. d = [r \in 1..10 |-> d[r]]
      BY <2>1
    <2>4. DecStates(d, w, out)
      BY <2>2, <2>3 DEF DecStates, Restored
    <2> QED BY <2>4
  <1>6. ASSUME NEW d, DecStates(d, w, out) PROVE d[1] = Substituted(e[0])
    <2> DEFINE S == {n \in Nat : n <= 9 => d[10 - n] = Substituted(e[9 - n])}
    <2>1. d[10] = addRoundKey(out, RoundKey(w, 10))
      BY <1>6 DEF DecStates
    <2>2. ASSUME NEW r \in 1..9
          PROVE  d[r] = invMixColumns(addRoundKey(Restored(d[r + 1]), RoundKey(w, r)))
      BY <1>6 DEF DecStates, Restored
    <2>3. 0 \in S
      BY <1>3, <2>1
    <2>4. ASSUME NEW n \in Nat, n \in S PROVE n + 1 \in S
      <3> SUFFICES ASSUME n + 1 <= 9 PROVE d[10 - (n + 1)] = Substituted(e[9 - (n + 1)])
        OBVIOUS
      <3>1. PICK r \in 1..9 :
              r = 10 - (n + 1) /\ r + 1 = 10 - n /\ r = 9 - n /\ r - 1 = 9 - (n + 1)
        OBVIOUS
      <3>2. d[r + 1] = Substituted(e[r])
        BY <2>4, <3>1
      <3> QED BY <1>4, <2>2, <3>1, <3>2
    <2> HIDE DEF S
    <2>5. Nat \subseteq S
      BY <2>3, <2>4, SetInduction
    <2>6. 9 \in S
      BY <2>5
    <2> QED BY <2>6 DEF S
  <1> QED BY <1>5, <1>6

\* SoftAes128's decryptBlock undoes its encryptBlock, for every key and every block:
\* the inverse that CipherModes' D is to E
THEOREM BlockDecrypts ==
  \A key, in \in AesBlock : decryptBlock(key, encryptBlock(key, in)) = in
  <1> SUFFICES ASSUME NEW key \in AesBlock, NEW in \in AesBlock
               PROVE  decryptBlock(key, encryptBlock(key, in)) = in
    OBVIOUS
  <1>1. PICK w : w = keyExpansion(key)
    OBVIOUS
  <1>2. HasKeys(w)
    BY <1>1, RoundKeys DEF HasKeys
  <1>3. PICK e : e = CHOOSE f : EncStates(f, w, in)
    OBVIOUS
  <1>4. EncStates(e, w, in)
    BY <1>2, <1>3, EncStatesExist
  <1>5. PICK out : out = addRoundKey(Substituted(e[9]), RoundKey(w, 10))
    OBVIOUS
  <1>6. encryptBlock(key, in) = out
    BY <1>1, <1>3, <1>5 DEF encryptBlock, EncStates, Substituted
  <1>7. PICK d : d = CHOOSE f : DecStates(f, w, out)
    OBVIOUS
  <1>8. DecStates(d, w, out) /\ d[1] = Substituted(e[0])
    BY <1>2, <1>4, <1>5, <1>7, DecStatesAre
  <1>9. decryptBlock(key, out) = addRoundKey(Restored(d[1]), RoundKey(w, 0))
    BY <1>1, <1>7 DEF decryptBlock, DecStates, Restored
  <1>10. e[0] \in AesBlock /\ e[0] = addRoundKey(in, RoundKey(w, 0))
         /\ RoundKey(w, 0) \in AesBlock
    BY <1>2, <1>4, EncStatesAre DEF HasKeys
  <1>11. Restored(d[1]) = e[0]
    BY <1>8, <1>10, SubstitutedBack
  <1> QED BY <1>6, <1>9, <1>10, <1>11, AddBack

\* There are finitely many blocks: one is told by the places and bits that are set.
LEMMA BlocksFinite == IsFiniteSet(AesBlock)
  <1> DEFINE P == (1..16) \X (0..7)
             f == [s \in AesBlock |-> {p \in P : p[2] \in s[p[1]]}]
  <1>1. IsFiniteSet(P)
    <2>1. IsFiniteSet(1..16) /\ IsFiniteSet(0..7)
      <3>1. \A a, b \in Int : IsFiniteSet(a..b)
        BY FS_Interval
      <3>2. 0 \in Int /\ 1 \in Int /\ 7 \in Int /\ 16 \in Int
        OBVIOUS
      <3> QED BY <3>1, <3>2, Zenon
    <2> QED BY <2>1, FS_Product
  <1>2. IsFiniteSet(SUBSET P)
    BY <1>1, FS_SUBSET
  <1>3. ASSUME NEW s \in AesBlock, NEW t \in AesBlock, f[s] = f[t] PROVE s = t
    <2>1. ASSUME NEW i \in 1..16 PROVE s[i] = t[i]
      <3>1. s[i] \subseteq 0..7 /\ t[i] \subseteq 0..7
        BY DEF AesBlock, Byte
      <3>2. ASSUME NEW k \in 0..7 PROVE k \in s[i] <=> k \in t[i]
        <4>1. <<i, k>> \in P /\ <<i, k>>[1] = i /\ <<i, k>>[2] = k
          OBVIOUS
        <4>2. k \in s[i] <=> <<i, k>> \in f[s]
          BY <4>1
        <4>3. k \in t[i] <=> <<i, k>> \in f[t]
          BY <4>1
        <4> QED BY <1>3, <4>2, <4>3
      <3> QED BY <3>1, <3>2
    <2> QED BY <2>1 DEF AesBlock
  <1>4. f \in Injection(AesBlock, SUBSET P)
    BY <1>3 DEF Injection, IsInjective
  <1> HIDE DEF f, P
  <1> QED BY <1>2, <1>4, FS_Injection

LEMMA EncryptedIsBlock ==
  ASSUME NEW key \in AesBlock, NEW in \in AesBlock
  PROVE  encryptBlock(key, in) \in AesBlock
  <1>1. PICK w : w = keyExpansion(key)
    OBVIOUS
  <1>2. HasKeys(w)
    BY <1>1, RoundKeys DEF HasKeys
  <1>3. PICK e : e = CHOOSE f : EncStates(f, w, in)
    OBVIOUS
  <1>4. EncStates(e, w, in)
    BY <1>2, <1>3, EncStatesExist
  <1>5. e[9] \in AesBlock /\ RoundKey(w, 10) \in AesBlock
    BY <1>2, <1>4, EncStatesAre DEF HasKeys
  <1>6. addRoundKey(Substituted(e[9]), RoundKey(w, 10)) \in AesBlock
    BY <1>5, SubstitutedBack, AddIs
  <1>7. encryptBlock(key, in) = addRoundKey(Substituted(e[9]), RoundKey(w, 10))
    BY <1>1, <1>3 DEF encryptBlock, EncStates, Substituted
  <1> QED BY <1>6, <1>7

\* And encryptBlock undoes decryptBlock, as CipherModes' E does D: no two blocks have
\* one encryption, so that every block is the encryption of one
THEOREM BlockEncrypts ==
  \A key, out \in AesBlock : encryptBlock(key, decryptBlock(key, out)) = out
  <1> SUFFICES ASSUME NEW key \in AesBlock, NEW out \in AesBlock
               PROVE  encryptBlock(key, decryptBlock(key, out)) = out
    OBVIOUS
  <1> DEFINE f == [in \in AesBlock |-> encryptBlock(key, in)]
  <1>1. f \in [AesBlock -> AesBlock]
    BY EncryptedIsBlock
  <1>2. ASSUME NEW s \in AesBlock, NEW t \in AesBlock, f[s] = f[t] PROVE s = t
    <2>1. encryptBlock(key, s) = encryptBlock(key, t)
      BY <1>2
    <2> QED BY <2>1, BlockDecrypts
  <1>3. f \in Injection(AesBlock, AesBlock)
    <2> HIDE DEF f
    <2> QED BY <1>1, <1>2 DEF Injection, IsInjective
  <1>4. f \in Surjection(AesBlock, AesBlock)
    <2> HIDE DEF f
    <2> QED BY <1>3, BlocksFinite, FS_Injection
  <1>5. PICK in \in AesBlock : f[in] = out
    <2> HIDE DEF f
    <2> QED BY <1>4 DEF Surjection
  <1> QED BY <1>5, BlockDecrypts

\* A tuple of bytes by places is a block.
LEMMA BytesAreBlock ==
  ASSUME NEW f \in AesBlock
  PROVE  f \o <<>> = f
  <1>1. f = [i \in 1..16 |-> f[i]]
    BY DEF AesBlock
  <1> QED BY <1>1, Evaluated

LEMMA ExamplesAreBlocks ==
  FipsKey \in AesBlock /\ FipsPlain \in AesBlock /\ Numbered \in AesBlock
  <1> DEFINE k == [i \in 1..16 |-> Bits(i - 1)]
             p == [i \in 1..16 |-> Bits(17 * (i - 1))]
             n == [i \in 1..16 |-> Bits(i)]
  <1>1. k \in AesBlock /\ p \in AesBlock /\ n \in AesBlock
    BY DEF AesBlock, Byte, Bits
  <1>2. FipsKey = k \o <<>> /\ FipsPlain = p \o <<>> /\ Numbered = n \o <<>>
    BY DEF FipsKey, FipsPlain, Numbered, Bytes
  <1> HIDE DEF k, p, n
  <1> QED BY <1>1, <1>2, BytesAreBlock

\* What a CBC decryption rests on (SoftAes128.cpp): every inverse step undoes its step,
\* and each of the two block functions the other
THEOREM CipherInverse == Spec => []DecryptUndoesEncrypt
  <1>1. ASSUME NEW u \in UnitBlocks PROVE u \in AesBlock
    <2> DEFINE f(n, k) == [i \in 1..16 |-> IF i = n THEN {k} ELSE {}]
               g(n, k) == f(n, k) \o <<>>
    <2>1. UnitBlocks = {g(n, k) : n \in 1..16, k \in 0..7}
      BY DEF UnitBlocks, Bytes
    <2>2. ASSUME NEW n \in 1..16, NEW k \in 0..7 PROVE g(n, k) \in AesBlock
      <3>1. f(n, k) \in AesBlock
        BY DEF AesBlock, Byte
      <3> HIDE DEF f
      <3> QED BY <3>1, BytesAreBlock
    <2> HIDE DEF g
    <2> QED BY <2>1, <2>2
  <1>2. \A u \in UnitBlocks : invMixColumns(mixColumns(u)) = u
    BY <1>1, MixBack
  <1>3. invShiftRows(shiftRows(Numbered)) = Numbered
    BY ExamplesAreBlocks, ShiftBack
  <1>4. \A a, b \in Byte : xtime(Xor(a, b)) = Xor(xtime(a), xtime(b))
    BY XtimeLinear
  <1>5. \A x, y \in {FipsKey, FipsPlain, Numbered} :
          /\ decryptBlock(x, encryptBlock(x, y)) = y
          /\ encryptBlock(x, decryptBlock(x, y)) = y
    BY ExamplesAreBlocks, BlockDecrypts, BlockEncrypts
  <1>6. InverseUndoes
    BY <1>2, <1>3, <1>4, <1>5, InvSubUndoes DEF InverseUndoes
  <1>7. DecryptUndoesEncrypt
    BY <1>6 DEF DecryptUndoesEncrypt
  <1> QED BY <1>7, PTL

-----------------------------------------------------------------------------
(* The calls come to an end, and Ok means all of it *)

\* A bound on the passes the running call still makes: each does one byte at least
BytesLeft == IF Running THEN call.len - call.off ELSE 0

\* A cipher call that has returned Ok has been through all of its input
DoneAll == IsCipher /\ call.st = "Ok" => call.off = call.len

LEMMA BytesLeftType ==
  ASSUME ModeInv
  PROVE  BytesLeft \in Nat /\ (Running => BytesLeft > 0)
  <1>1. CallFits /\ Ongoing
    BY DEF ModeInv
  <1> QED BY <1>1 DEF BytesLeft, CallFits, Ongoing

\* A pass advances by the bytes it wrote, and answers Ok behind the last one.
LEMMA PassAdvances ==
  ASSUME ModeInv, Running, NEW n \in Nat \ {0}, call.off + n <= call.len,
         NEW prev, NEW ctr, Advance(n, prev, ctr)
  PROVE  BytesLeft' < BytesLeft /\ DoneAll'
  <1>1. CallFits /\ call.len \in Nat /\ call.off \in Nat
    BY DEF ModeInv, CallFits
  <1>2. /\ call'.off = call.off + n /\ call'.len = call.len
        /\ call'.st = IF call.off + n >= call.len THEN "Ok" ELSE "running"
    BY <1>1, AdvanceEffect
  <1> QED BY <1>1, <1>2 DEF BytesLeft, Running, DoneAll

\* Every step inside a call.
LEMMA ModeAdvances ==
  ASSUME ModeInv, CbcEncryptBlock \/ CbcDecryptBlock \/ CtrBlock \/ EcbFails
  PROVE  BytesLeft' < BytesLeft /\ DoneAll'
  <1>1. CallFits /\ Ongoing /\ Running
    BY DEF ModeInv, CbcEncryptBlock, CbcDecryptBlock, CtrBlock, EcbFails
  <1>2. CASE CbcEncryptBlock \/ CbcDecryptBlock
    <2>1. call.op \in Cbc
      BY <1>2 DEF CbcEncryptBlock, CbcDecryptBlock, Cbc
    <2>2. call.off + BlockLen <= call.len
      BY <1>1, <2>1, WholeBlockLeft
    <2>3. PICK prev : Advance(BlockLen, prev, call.ctr)
      BY <1>2 DEF CbcEncryptBlock, CbcDecryptBlock
    <2>4. BlockLen \in Nat \ {0}
      BY SizeAssumption
    <2> QED BY <1>1, <2>2, <2>3, <2>4, PassAdvances
  <1>3. CASE CtrBlock
    <2>1. CtrChunk \in Nat \ {0} /\ call.off + CtrChunk <= call.len
      <3>1. call.len \in Nat /\ call.off \in Nat /\ call.off < call.len
        BY <1>1 DEF CallFits, Ongoing
      <3>2. BlockLen \in Nat \ {0}
        BY SizeAssumption
      <3> QED BY <3>1, <3>2 DEF CtrChunk
    <2>2. PICK prev, ctr : Advance(CtrChunk, prev, ctr)
      BY <1>3 DEF CtrBlock
    <2> QED BY <1>1, <2>1, <2>2, PassAdvances
  <1>4. CASE EcbFails
    <2>1. call'.st = "InternalError"
      BY <1>1, <1>4 DEF EcbFails, CallFits, Fields
    <2>2. BytesLeft' = 0 /\ DoneAll'
      BY <2>1 DEF BytesLeft, Running, DoneAll
    <2>3. BytesLeft \in Nat /\ BytesLeft > 0
      BY <1>1, BytesLeftType
    <2> QED BY <2>2, <2>3
  <1> QED BY <1>2, <1>3, <1>4

\* A call that begins is Ok at once only when there is nothing to do.
LEMMA StartDoesAll ==
  ASSUME ModeInv, Start \/ StartOver
  PROVE  ~Running /\ DoneAll'
  <1>1. ASSUME NEW op, NEW in, NEW out, NEW len, NEW st, Enter(op, in, out, len, st),
               st = "Ok" => len = 0
        PROVE  ~Running /\ DoneAll'
    <2>1. call'.st = st /\ call'.len = len /\ call'.off = 0
      BY <1>1 DEF Enter, NoCall
    <2> QED BY <1>1, <2>1 DEF Enter, DoneAll
  <1>2. ASSUME NEW op \in {"pad", "unpad"}, NEW in, NEW out, NEW len, NEW s, NEW ans, NEW off,
               Helper(op, in, out, len, s, ans, off)
        PROVE  ~Running /\ DoneAll'
    <2>1. call'.op = op
      BY <1>2 DEF Helper, NoCall
    <2> QED BY <1>2, <2>1 DEF Helper, DoneAll, IsCipher
  <1>3. ASSUME NEW in \in Buffers, NEW out \in Buffers, NEW len \in Lens,
               aesCbc("cbcEnc", in, out, len) \/ aesCbc("cbcDec", in, out, len)
                 \/ aesCtr(in, out, len)
        PROVE  ~Running /\ DoneAll'
    <2>1. PICK op, st : Enter(op, in, out, len, st) /\ st \in {"BadParam", StartOf(len)}
      BY <1>3 DEF aesCbc, aesCtr
    <2>2. st = "Ok" => len = 0
      BY <2>1 DEF StartOf
    <2> QED BY <1>1, <2>1, <2>2
  <1>4. ASSUME NEW in, NEW out, NEW len, Pad(in, out, len) PROVE ~Running /\ DoneAll'
    BY <1>2, <1>4 DEF Pad
  <1>5. ASSUME NEW in, NEW len, Unpad(in, len) PROVE ~Running /\ DoneAll'
    BY <1>2, <1>5 DEF Unpad
  <1>6. CASE StartOver
    <2>1. call'.op = "none" /\ ~Running
      BY <1>6 DEF StartOver, NoCall
    <2> QED BY <2>1 DEF DoneAll, IsCipher
  <1> QED BY <1>3, <1>4, <1>5, <1>6 DEF Start

\* Every pass of the loops of aes128CbcEncrypt, aes128CbcDecrypt and aes128Ctr
\* brings the call's return nearer, for buffers of any size, and the call answers
\* Ok only when it has been through its whole input, ragged last block included:
\* what ModesStandard says of the bytes done so far, Ok says of all of them.
THEOREM ModesRunOut ==
  Spec => /\ [](BytesLeft \in Nat)
          /\ [](IsCipher /\ call.st = "Ok" => call.off = call.len)
          /\ [][Running => BytesLeft' < BytesLeft]_vars
  <1>1. Init => DoneAll
    BY DEF Init, NoCall, DoneAll
  <1>2. ModeInv /\ DoneAll /\ [Next]_vars => DoneAll'
    <2>1. ModeInv /\ Next => DoneAll'
      BY ModeAdvances, StartDoesAll DEF Next
    <2>2. DoneAll /\ UNCHANGED vars => DoneAll'
      BY DEF vars, DoneAll, IsCipher
    <2> QED BY <2>1, <2>2
  <1>3. ModeInv => BytesLeft \in Nat
    BY BytesLeftType
  <1>4. ModeInv /\ [Next]_vars => [Running => BytesLeft' < BytesLeft]_vars
    BY ModeAdvances, StartDoesAll DEF Next
  <1>5. DoneAll <=> (IsCipher /\ call.st = "Ok" => call.off = call.len)
    BY DEF DoneAll
  <1> QED BY <1>1, <1>2, <1>3, <1>4, <1>5, ModeInit, ModeInductive, PTL DEF Spec
=============================================================================
