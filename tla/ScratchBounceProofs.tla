------------------------ MODULE ScratchBounceProofs ------------------------
(***************************************************************************)
(* Proofs about ScratchBounce, for every size of the scratch and of the    *)
(* blocks, every message length and any number of threads.                 *)
(***************************************************************************)
EXTENDS ScratchBounce, SequenceTheorems, TLAPS

\* The sizes, one by one.
LEMMA Sizes ==
  /\ Scratch \in Nat /\ HashBlock \in Nat \ {0} /\ AesBlock \in Nat \ {0}
  /\ KeyRam \in Nat /\ KeyLimit \in Nat /\ RndLimit \in Nat \ {0}
  /\ HashBlock <= Scratch /\ 2 * AesBlock <= Scratch
  BY SizeAssumption

-----------------------------------------------------------------------------
(* Rounding to whole blocks *)

\* Products by a natural number are monotonic, strictly by a whole block.
LEMMA Blocks ==
  ASSUME NEW b \in Nat, NEW p \in Int, NEW q \in Int
  PROVE  /\ p <= q => p * b <= q * b
         /\ p < q => p * b + b <= q * b
         /\ (p + q) * b = p * b + q * b
  <1>1. \A i, j \in Int : i <= j => i * b <= j * b
    OBVIOUS
  <1>2. (p + 1) * b = p * b + b
    OBVIOUS
  <1>3. (p + q) * b = p * b + q * b
    OBVIOUS
  <1>4. ASSUME p < q PROVE p * b + b <= q * b
    BY <1>1, <1>2, <1>4
  <1> QED BY <1>1, <1>3, <1>4

\* Quotient and remainder.
LEMMA DivMod ==
  ASSUME NEW a \in Nat, NEW b \in Nat \ {0}
  PROVE  /\ a \div b \in Nat /\ (a % b) \in 0 .. b - 1
         /\ (a \div b) * b + (a % b) = a
  <1>1. a \div b \in Nat
    OBVIOUS
  <1>2. (a % b) \in 0 .. b - 1
    OBVIOUS
  <1>3. (a \div b) * b + (a % b) = a
    OBVIOUS
  <1> QED BY <1>1, <1>2, <1>3

\* A length rounded down to blocks.
LEMMA RoundDown ==
  ASSUME NEW a \in Nat, NEW b \in Nat \ {0}
  PROVE  (a \div b) * b \in Nat /\ (a \div b) * b <= a /\ a < (a \div b) * b + b
  <1>1. a \div b \in Nat /\ (a % b) \in 0 .. b - 1 /\ (a \div b) * b + (a % b) = a
    BY DivMod
  <1>2. (a \div b) * b \in Nat
    BY <1>1
  <1> QED BY <1>1, <1>2

\* The number of blocks a length is padded to
BlocksOf(a, b) == (a + b - 1) \div b

\* A length padded to blocks is less than a block longer, and stays below every
\* number of blocks the length stays below.
LEMMA RoundUp ==
  ASSUME NEW a \in Nat, NEW b \in Nat \ {0}
  PROVE  /\ BlocksOf(a, b) \in Nat
         /\ a <= BlocksOf(a, b) * b /\ BlocksOf(a, b) * b < a + b
         /\ \A q \in Nat : a <= q * b => BlocksOf(a, b) * b <= q * b
  <1>1. a + b - 1 \in Nat
    OBVIOUS
  <1>2. /\ BlocksOf(a, b) \in Nat
        /\ BlocksOf(a, b) * b <= a + b - 1 /\ a + b - 1 < BlocksOf(a, b) * b + b
    BY <1>1, DivMod, RoundDown DEF BlocksOf
  <1>3. BlocksOf(a, b) * b \in Int
    BY <1>2
  <1>4. ASSUME NEW q \in Nat, a <= q * b PROVE BlocksOf(a, b) * b <= q * b
    <2>1. q * b \in Nat
      OBVIOUS
    <2>2. CASE q < BlocksOf(a, b)
      BY <1>2, <1>3, <1>4, <2>1, <2>2, Blocks
    <2>3. CASE BlocksOf(a, b) <= q
      BY <1>2, <2>3, Blocks
    <2> QED BY <1>2, <2>2, <2>3
  <1> QED BY <1>2, <1>3, <1>4

\* The zero bytes that fill n up to whole blocks
PadOf(n) == (AesBlock - (n % AesBlock)) % AesBlock

\* Whole blocks and a rest: the rest is padded by as much as the whole.
LEMMA PadOfRest ==
  ASSUME NEW q \in Nat, NEW r \in Nat
  PROVE  /\ BlocksOf(r, AesBlock) * AesBlock - r = PadOf(q * AesBlock + r)
         /\ PadOf(q * AesBlock + r) \in Nat
  <1>0. AesBlock \in Nat \ {0} /\ q * AesBlock \in Nat /\ q * AesBlock + r \in Nat
    BY Sizes
  <1>1. PICK m \in Nat : /\ m = BlocksOf(r, AesBlock) /\ r <= m * AesBlock
                         /\ m * AesBlock < r + AesBlock
    BY <1>0, RoundUp
  <1>2. PICK d \in Nat, e \in 0 .. AesBlock - 1 :
          e = (q * AesBlock + r) % AesBlock /\ d * AesBlock + e = q * AesBlock + r
    BY <1>0, DivMod
  <1>3. m * AesBlock - r = IF e = 0 THEN 0 ELSE AesBlock - e
    <2>1. /\ m * AesBlock \in Nat /\ d * AesBlock \in Nat
          /\ (q + m) * AesBlock = q * AesBlock + m * AesBlock
          /\ (d + 1) * AesBlock = d * AesBlock + AesBlock
          /\ \A x, y \in Nat : x < y => x * AesBlock + AesBlock <= y * AesBlock
      BY <1>0, Blocks
    <2>2. d * AesBlock + e = q * AesBlock + r
      BY <1>2
    <2>3. CASE e = 0
      <3>1. ~(q + m < d) /\ ~(d < q + m)
        BY <1>0, <1>1, <2>1, <2>2, <2>3
      <3>2. q + m = d
        BY <3>1
      <3> QED BY <1>0, <2>1, <2>2, <2>3, <3>2
    <2>4. CASE e # 0
      <3>1. ~(q + m < d) /\ q + m # d /\ ~(d + 1 < q + m)
        BY <1>0, <1>1, <2>1, <2>2, <2>4
      <3>2. q + m = d + 1
        BY <3>1
      <3> QED BY <1>0, <2>1, <2>2, <2>4, <3>2
    <2> QED BY <2>3, <2>4
  <1>4. \A x \in 0 .. AesBlock - 1 : x % AesBlock = x
    BY <1>0
  <1>5. AesBlock % AesBlock = 0
    BY <1>0
  <1>6. (AesBlock - e) % AesBlock = IF e = 0 THEN 0 ELSE AesBlock - e
    <2>1. CASE e = 0
      BY <1>0, <1>5, <2>1
    <2>2. CASE e # 0
      <3>1. AesBlock - e \in 0 .. AesBlock - 1
        BY <1>0, <2>2
      <3> QED BY <1>4, <2>2, <3>1
    <2> QED BY <2>1, <2>2
  <1>7. PadOf(q * AesBlock + r) = IF e = 0 THEN 0 ELSE AesBlock - e
    BY <1>2, <1>6 DEF PadOf
  <1> QED BY <1>0, <1>1, <1>3, <1>7

\* The halves of aesRun are whole blocks, not empty, and fit side by side.
LEMMA HalfFacts ==
  /\ Half \in Nat /\ AesBlock <= Half /\ 2 * Half <= Scratch
  /\ \E q \in Nat : Half = q * AesBlock
  <1>1. /\ Scratch \div 2 \in Nat /\ 2 * (Scratch \div 2) <= Scratch
        /\ AesBlock <= Scratch \div 2
    BY Sizes
  <1>2. (Scratch \div 2) \div AesBlock \in Nat
    BY <1>1, Sizes, DivMod
  <1>3. Half \in Nat /\ Half <= Scratch \div 2 /\ Scratch \div 2 < Half + AesBlock
    BY <1>1, Sizes, RoundDown DEF Half
  <1>4. AesBlock <= Half
    <2>1. (Scratch \div 2) \div AesBlock # 0
      <3>1. 0 * AesBlock = 0
        BY Sizes
      <3> QED BY <1>1, <1>3, <3>1, Sizes DEF Half
    <2>2. AesBlock = 1 * AesBlock /\ 1 <= (Scratch \div 2) \div AesBlock
      BY <1>2, <2>1, Sizes
    <2> QED BY <1>2, <2>2, Blocks, Sizes DEF Half
  <1>5. \E q \in Nat : Half = q * AesBlock
    BY <1>2 DEF Half
  <1>6. 2 * Half <= Scratch
    BY <1>1, <1>3, Sizes
  <1> QED BY <1>3, <1>4, <1>5, <1>6

\* The whole hash blocks of the scratch are in it, and at least one.
LEMMA HashStep ==
  LET s == (Scratch \div HashBlock) * HashBlock IN s \in Nat /\ 0 < s /\ s <= Scratch
  <1>1. /\ (Scratch \div HashBlock) * HashBlock \in Nat
        /\ (Scratch \div HashBlock) * HashBlock <= Scratch
        /\ Scratch < (Scratch \div HashBlock) * HashBlock + HashBlock
    BY Sizes, RoundDown
  <1> QED BY <1>1, Sizes

-----------------------------------------------------------------------------
(* Types, and what the step a call is at says about it *)

BufferNames == {"junk", "zero", "enc", "in", "key", "ikm", "salt", "info"} \cup AreaNames
Byte == (Threads \cup {0}) \X BufferNames \X Nat

PCs == {"idle", "key", "init", "ikm", "salt", "info", "derive", "loop", "engine",
        "copyOut", "build", "use"}
Answers == {"none", "Ok", "NotStarted", "BadParam", "InternalError", "AuthFailed"}
LoopOps == {"hash", "sha384", "hmac", "cbc", "ctr", "random", "msg"}

CallType == [pc : PCs, op : LoopOps \cup P256 \cup {"hkdf", "none"}, n : Nat, k : Nat,
             hk : Nat \X Nat \X Nat, off : Nat, fed : Seq(Byte), out : Seq(Byte),
             st : Answers]

ScratchType == [1..Scratch -> Byte]
AreaType == [AreaNames -> Byte]

Types ==
  /\ started \in BOOLEAN
  /\ scratch \in ScratchType
  /\ area \in AreaType
  /\ call \in [Threads -> CallType]
  /\ overrun \in BOOLEAN

\* A loop never passes its end, and a call that bounces its whole message has
\* been refused if it does not fit
Sound(c) ==
  /\ c.pc \in {"loop", "engine", "copyOut"} => c.op \in LoopOps /\ c.off <= c.n
  /\ c.pc = "engine" => c.op # "random" /\ c.off < c.n
  /\ c.pc = "copyOut" => IsAes(c) /\ c.off < c.n
  /\ c.op = "msg" => c.n <= Scratch
  /\ c.pc \in {"key", "init"} =>
       c.op = "hmac" /\ c.k \in KeyLens /\ c.k <= KeyLimit /\ c.off = 0
  /\ c.pc \in {"ikm", "salt", "info", "derive"} => c.op = "hkdf" /\ c.hk \in HkdfLens
  /\ c.pc \in {"build", "use"} => c.op \in P256
  /\ c.pc = "build" => c.off <= Len(Areas(c.op)) /\ (c.op = "ecdsaGenerate" => c.off = 0)
  /\ c.pc = "use" => c.off < 2 /\ (c.op # "ecdsaGenerate" => c.off = 0)

\* The HMAC keys the application uses that do not go to the stack fit in the
\* scratch: the backend itself accepts them up to KeyLimit
KeysFit == \A k \in KeyLens : KeyRam < k /\ k <= KeyLimit => k <= Scratch

FitInv ==
  /\ Types
  /\ \A t \in Threads : Sound(call[t])
  /\ ~overrun

-----------------------------------------------------------------------------
(* Buffers *)

\* Junk, zero and the bytes of a thread's buffers are bytes.
LEMMA ByteFacts ==
  /\ Junk \in Byte /\ Zero \in Byte
  /\ \A t \in Threads, b \in BufferNames, i \in Nat : <<t, b, i>> \in Byte
  /\ \A c \in Byte : Enc(c) \in Byte /\ Aged(c) \in Byte
  <1>1. Junk \in Byte /\ Zero \in Byte
    BY DEF Junk, Zero, Byte, BufferNames
  <1>2. \A t \in Threads, b \in BufferNames, i \in Nat : <<t, b, i>> \in Byte
    BY DEF Byte
  <1>3. ASSUME NEW c \in Byte PROVE Enc(c) \in Byte
    <2>1. c[1] \in Threads \cup {0} /\ c[3] \in Nat /\ "enc" \in BufferNames
      BY DEF Byte, BufferNames
    <2> QED BY <2>1 DEF Enc, Byte
  <1>4. \A c \in Byte : Aged(c) \in Byte
    BY <1>1 DEF Aged
  <1> QED BY <1>1, <1>2, <1>3, <1>4

\* Two sequences of bytes, one after the other.
LEMMA Joined ==
  ASSUME NEW x \in Seq(Byte), NEW y \in Seq(Byte)
  PROVE  /\ x \o y \in Seq(Byte) /\ Len(x \o y) = Len(x) + Len(y)
         /\ \A i \in 1..Len(x) : (x \o y)[i] = x[i]
         /\ \A i \in 1..Len(y) : (x \o y)[Len(x) + i] = y[i]
  OBVIOUS

\* Piece of a buffer: its length and its bytes.
LEMMA BytesFacts ==
  ASSUME NEW t \in Threads, NEW b \in BufferNames, NEW off \in Nat, NEW n \in Nat
  PROVE  /\ Bytes(t, b, off, n) \in Seq(Byte) /\ Len(Bytes(t, b, off, n)) = n
         /\ \A i \in 1..n : Bytes(t, b, off, n)[i] = <<t, b, off + i>>
  <1>1. \A i \in 1..n : <<t, b, off + i>> \in Byte
    BY ByteFacts
  <1> QED BY <1>1 DEF Bytes

\* What is read from the scratch: its length and its bytes.
LEMMA ReadFacts ==
  ASSUME Types, NEW at \in Nat, NEW n \in Nat
  PROVE  /\ Read(at, n) \in Seq(Byte) /\ Len(Read(at, n)) = n
         /\ \A i \in 1..n : at + i <= Scratch => Read(at, n)[i] = scratch[at + i]
  <1>1. \A i \in 1..n : (IF at + i <= Scratch THEN scratch[at + i] ELSE Junk) \in Byte
    BY ByteFacts, Sizes DEF Types, ScratchType
  <1> QED BY <1>1 DEF Read

\* What is written to the scratch: where the bytes go, and when they fit.
LEMMA WriteFacts ==
  ASSUME Types, NEW at \in Nat, NEW bytes \in Seq(Byte), Write(at, bytes)
  PROVE  /\ scratch' \in ScratchType /\ overrun' \in BOOLEAN
         /\ at + Len(bytes) <= Scratch /\ ~overrun => ~overrun'
         /\ \A i \in 1..Len(bytes) : at + i <= Scratch => scratch'[at + i] = bytes[i]
         /\ \A i \in 1..Scratch : i <= at \/ at + Len(bytes) < i => scratch'[i] = scratch[i]
  <1>0. Len(bytes) \in Nat /\ \A j \in 1..Len(bytes) : bytes[j] \in Byte
    OBVIOUS
  <1>1. \A i \in 1..Scratch :
          (IF at < i /\ i <= at + Len(bytes) THEN bytes[i - at] ELSE scratch[i]) \in Byte
    <2> SUFFICES ASSUME NEW i \in 1..Scratch, at < i, i <= at + Len(bytes)
                 PROVE  bytes[i - at] \in Byte
      BY DEF Types, ScratchType
    <2>1. i - at \in 1..Len(bytes)
      BY <1>0, Sizes
    <2> QED BY <1>0, <2>1
  <1>2. scratch' \in ScratchType
    BY <1>1 DEF Write, ScratchType
  <1>3. \A i \in 1..Len(bytes) : at + i <= Scratch => scratch'[at + i] = bytes[i]
    <2> SUFFICES ASSUME NEW i \in 1..Len(bytes), at + i <= Scratch
                 PROVE  scratch'[at + i] = bytes[i]
      OBVIOUS
    <2>1. /\ at + i \in 1..Scratch /\ at < at + i /\ at + i <= at + Len(bytes)
          /\ (at + i) - at = i
      BY <1>0, Sizes
    <2> QED BY <2>1 DEF Write
  <1>4. \A i \in 1..Scratch : i <= at \/ at + Len(bytes) < i => scratch'[i] = scratch[i]
    BY <1>0, Sizes DEF Write
  <1>5. overrun' \in BOOLEAN /\ (at + Len(bytes) <= Scratch /\ ~overrun => ~overrun')
    BY <1>0, Sizes DEF Write, Types
  <1> QED BY <1>2, <1>3, <1>4, <1>5

\* One pass of a loop: what it copies is in the scratch, and aesRun's padded
\* chunk in half of it.
LEMMA ChunkFacts ==
  ASSUME NEW c \in CallType, c.op \in LoopOps, c.off <= c.n, c.op = "msg" => c.n <= Scratch
  PROVE  /\ Chunk(c) \in Nat /\ c.off + Chunk(c) <= c.n
         /\ c.off < c.n => 0 < Chunk(c)
         /\ Padded(c) \in Nat /\ Chunk(c) <= Padded(c)
         /\ c.op # "random" => Padded(c) <= Scratch
         /\ IsAes(c) => Padded(c) <= Half /\ Half + Padded(c) <= Scratch
         /\ ~IsAes(c) => Padded(c) = Chunk(c)
  <1>0. c.n \in Nat /\ c.off \in Nat /\ c.n - c.off \in Nat
    BY DEF CallType
  <1>1. /\ Step(c) \in Nat
        /\ c.op \in {"hash", "sha384", "hmac"} => Step(c) <= Scratch
        /\ IsAes(c) => Step(c) = Half
        /\ c.op # "msg" => 0 < Step(c)
        /\ c.op = "msg" => Step(c) = c.n
    <2>1. CASE c.op = "hash"
      BY <2>1, HashStep DEF Step, IsAes
    <2>2. CASE c.op \in {"sha384", "hmac"}
      BY <2>2, Sizes DEF Step, IsAes
    <2>3. CASE IsAes(c)
      BY <2>3, HalfFacts, Sizes DEF Step, IsAes
    <2>4. CASE c.op = "random"
      BY <2>4, Sizes DEF Step, IsAes
    <2>5. CASE c.op = "msg"
      BY <1>0, <2>5 DEF Step, IsAes
    <2> QED BY <2>1, <2>2, <2>3, <2>4, <2>5 DEF LoopOps, IsAes
  <1>2. /\ Chunk(c) \in Nat /\ Chunk(c) <= c.n - c.off /\ Chunk(c) <= Step(c)
        /\ c.off < c.n => 0 < Chunk(c)
    BY <1>0, <1>1 DEF Chunk, SmallerOf
  <1>3. CASE IsAes(c)
    <2>1. PICK q \in Nat : Half = q * AesBlock
      BY HalfFacts
    <2>2. Padded(c) = BlocksOf(Chunk(c), AesBlock) * AesBlock
      BY <1>3 DEF Padded, BlocksOf
    <2>3. /\ Chunk(c) <= Padded(c) /\ Padded(c) <= Half /\ Padded(c) \in Int
      <3>1. Chunk(c) <= q * AesBlock
        BY <1>1, <1>2, <1>3, <2>1
      <3>2. BlocksOf(Chunk(c), AesBlock) * AesBlock \in Int
        BY <1>2, RoundUp, Sizes
      <3> QED BY <1>2, <2>1, <2>2, <3>1, <3>2, RoundUp, Sizes
    <2> QED BY <1>0, <1>2, <1>3, <2>3, HalfFacts, Sizes
  <1>4. CASE ~IsAes(c)
    <2>1. Padded(c) = Chunk(c)
      BY <1>4 DEF Padded
    <2>2. c.op # "random" => Chunk(c) <= Scratch
      BY <1>0, <1>1, <1>2, <1>4, Sizes DEF IsAes, LoopOps
    <2> QED BY <1>0, <1>2, <1>4, <2>1, <2>2
  <1> QED BY <1>3, <1>4

-----------------------------------------------------------------------------
(* Copies fit, whatever the interleaving *)

\* Only t's call changes, and becomes c
Becomes(t, c) ==
  /\ call' \in [Threads -> CallType]
  /\ \A u \in Threads \ {t} : call'[u] = call[u]
  /\ call'[t] = c

\* No call is a call.
LEMMA NoCallFacts == NoCall \in CallType /\ Sound(NoCall)
  <1>1. <<0, 0, 0>> \in Nat \X Nat \X Nat /\ << >> \in Seq(Byte)
    OBVIOUS
  <1>2. NoCall \in CallType
    BY <1>1 DEF NoCall, CallType, PCs, Answers
  <1>3. Sound(NoCall)
    BY DEF NoCall, Sound
  <1> QED BY <1>2, <1>3

\* The initial state.
LEMMA FitInit == Init => FitInv
  <1> SUFFICES ASSUME Init PROVE FitInv
    OBVIOUS
  <1>1. NoCall \in CallType /\ Sound(NoCall)
    BY NoCallFacts
  <1>2. scratch \in ScratchType /\ area \in AreaType
    BY ByteFacts DEF Init, ScratchType, AreaType
  <1> QED
    BY <1>1, <1>2 DEF Init, FitInv, Types

\* A step of one thread that leaves its call sound and overruns nothing.
LEMMA StepFits ==
  ASSUME FitInv, NEW t \in Threads, NEW c \in CallType, Becomes(t, c), Sound(c),
         started' \in BOOLEAN, scratch' \in ScratchType, area' \in AreaType, overrun' = FALSE
  PROVE  FitInv'
  <1>1. ASSUME NEW u \in Threads PROVE Sound(call'[u])
    BY DEF Becomes, FitInv
  <1> QED
    BY <1>1 DEF FitInv, Types, Becomes

\* Edits of one record of call.
LEMMA Edits ==
  ASSUME Types, NEW t \in Threads
  PROVE  /\ \A pc \in PCs : Go(t, pc) => Becomes(t, [call[t] EXCEPT !.pc = pc])
         /\ \A st \in Answers : Leave(t, st) =>
              Becomes(t, [call[t] EXCEPT !.pc = "idle", !.st = st])
  <1>1. call \in [Threads -> CallType] /\ call[t] \in CallType
    BY DEF Types
  <1>2. ASSUME NEW pc \in PCs, Go(t, pc)
        PROVE  Becomes(t, [call[t] EXCEPT !.pc = pc])
    <2>1. [call[t] EXCEPT !.pc = pc] \in CallType
      BY <1>1 DEF CallType
    <2> QED BY <1>1, <1>2, <2>1 DEF Go, Becomes
  <1>3. ASSUME NEW st \in Answers, Leave(t, st)
        PROVE  Becomes(t, [call[t] EXCEPT !.pc = "idle", !.st = st])
    <2>1. [call[t] EXCEPT !.pc = "idle", !.st = st] \in CallType
      BY <1>1 DEF CallType, PCs
    <2> QED BY <1>1, <1>3, <2>1 DEF Leave, Becomes
  <1> QED BY <1>2, <1>3

\* A call that returns.
LEMMA LeaveFits ==
  ASSUME FitInv, NEW t \in Threads, NEW st \in Answers, Leave(t, st),
         started' \in BOOLEAN, scratch' \in ScratchType, area' \in AreaType, overrun' = FALSE
  PROVE  FitInv'
  <1> DEFINE c == [call[t] EXCEPT !.pc = "idle", !.st = st]
  <1>0. Types /\ Sound(call[t]) /\ call[t] \in CallType
    BY DEF FitInv, Types
  <1>1. Becomes(t, c)
    BY <1>0, Edits
  <1>2. c \in CallType /\ Sound(c)
    BY <1>0 DEF CallType, PCs, Sound
  <1> QED BY <1>1, <1>2, StepFits

\* A call that begins: the calls that are over are forgotten.
LEMMA EnterFits ==
  ASSUME FitInv, NEW t \in Threads, NEW c \in CallType, Sound(c), Enter(t, c)
  PROVE  FitInv'
  <1>1. NoCall \in CallType /\ Sound(NoCall)
    BY NoCallFacts
  <1>2. scratch' \in ScratchType /\ area' \in AreaType
    BY ByteFacts DEF Enter, ScratchType, AreaType, FitInv, Types
  <1>3. \A u \in Threads : call'[u] \in CallType /\ Sound(call'[u])
    BY <1>1 DEF Enter, FitInv, Types
  <1>4. call' \in [Threads -> CallType]
    BY <1>3 DEF Enter
  <1> QED
    BY <1>2, <1>3, <1>4 DEF Enter, FitInv, Types

\* The calls of the engine begin.
LEMMA StartFits ==
  ASSUME FitInv, NEW t \in Threads, Start(t)
  PROVE  FitInv'
  <1>0. NoCall \in CallType
    BY NoCallFacts
  <1>1. ASSUME NEW op \in LoopOps \cup P256 \cup {"hkdf"}, NEW pc \in PCs, NEW n \in Nat
        PROVE  /\ New(op, pc, n) \in CallType /\ Refused(op) \in CallType
               /\ New(op, pc, n).op = op /\ New(op, pc, n).n \in {0, n}
               /\ New(op, pc, n).off = 0 /\ New(op, pc, n).pc \in {pc, "idle"}
               /\ Refused(op).n = 0 /\ Refused(op).pc = "idle" /\ Refused(op).op = op
    <2>1. /\ [NoCall EXCEPT !.op = op, !.pc = pc, !.n = n] \in CallType
          /\ \A st \in Answers : [NoCall EXCEPT !.op = op, !.st = st] \in CallType
      BY <1>0 DEF CallType
    <2>2. New(op, pc, n) \in CallType /\ Refused(op) \in CallType
      BY <2>1 DEF New, Refused, Answers
    <2> QED BY <2>2 DEF New, Refused, NoCall
  <1>2. ASSUME NEW n \in InLens, NEW op \in LoopOps, op = "msg" => n <= Scratch,
               Enter(t, New(op, "loop", n))
        PROVE  FitInv'
    <2>1. n \in Nat /\ "loop" \in PCs
      BY LenAssumption DEF PCs
    <2>2. New(op, "loop", n) \in CallType /\ Sound(New(op, "loop", n))
      BY <1>1, <1>2, <2>1, Sizes DEF Sound
    <2> QED BY <1>2, <2>2, EnterFits
  <1>3. ASSUME NEW op \in LoopOps, Enter(t, Refused(op)) PROVE FitInv'
    <2>1. "idle" \in PCs
      BY DEF PCs
    <2>2. Refused(op) \in CallType /\ Sound(Refused(op))
      BY <1>1, <2>1, Sizes DEF Sound
    <2> QED BY <1>3, <2>2, EnterFits
  <1>4. ASSUME NEW n \in InLens,
               \/ sha256(t, n) \/ sha384(t, n) \/ aes128Ctr(t, n) \/ aes128Cbc(t, n)
               \/ ed25519Sign(t, n) \/ randomBytes(t, n)
        PROVE  FitInv'
    <2>1. n \in Nat
      BY LenAssumption
    <2> QED
      BY <1>2, <1>3, <1>4, <2>1, Sizes
      DEF sha256, sha384, aes128Ctr, aes128Cbc, ed25519Sign, randomBytes, LoopOps
  <1>5. ASSUME NEW n \in InLens, NEW k \in KeyLens, hmacSha256(t, k, n) PROVE FitInv'
    <2>1. n \in Nat /\ k \in Nat /\ "key" \in PCs /\ "hmac" \in LoopOps
      BY LenAssumption DEF PCs, LoopOps
    <2>2. CASE k > KeyLimit
      BY <1>3, <1>5, <2>1, <2>2 DEF hmacSha256
    <2>3. CASE k <= KeyLimit
      <3> DEFINE c == [New("hmac", "key", n) EXCEPT !.k = k]
      <3>1. PICK d \in CallType :
              /\ d = New("hmac", "key", n) /\ d.op = "hmac" /\ d.pc \in {"key", "idle"}
              /\ d.off = 0
        BY <1>1, <2>1
      <3>2. c \in CallType /\ c.op = "hmac" /\ c.pc \in {"key", "idle"} /\ c.k = k /\ c.off = 0
        BY <2>1, <3>1 DEF CallType
      <3>3. Sound(c)
        BY <2>3, <3>2 DEF Sound
      <3>4. Enter(t, c)
        BY <1>5, <2>1, <2>3, Sizes DEF hmacSha256
      <3> QED BY <3>2, <3>3, <3>4, EnterFits
    <2> QED BY <2>1, <2>2, <2>3, Sizes
  <1>6. ASSUME NEW lens \in HkdfLens, hkdfSha256(t, lens) PROVE FitInv'
    <2> DEFINE c == [New("hkdf", "ikm", 0) EXCEPT !.hk = lens]
    <2>1. "ikm" \in PCs /\ lens \in Nat \X Nat \X Nat
      BY LenAssumption DEF PCs
    <2>2. PICK d \in CallType :
            d = New("hkdf", "ikm", 0) /\ d.op = "hkdf" /\ d.pc \in {"ikm", "idle"}
      BY <1>1, <2>1
    <2>3. c \in CallType /\ c.op = "hkdf" /\ c.pc \in {"ikm", "idle"} /\ c.hk = lens
      BY <2>1, <2>2 DEF CallType
    <2>4. Sound(c)
      BY <2>3 DEF Sound
    <2> QED BY <1>6, <2>3, <2>4, EnterFits DEF hkdfSha256
  <1>7. ASSUME NEW op \in P256, ecdsaP256(t, op) PROVE FitInv'
    <2>1. "build" \in PCs /\ Len(Areas(op)) \in Nat
      BY DEF PCs, Areas, P256
    <2>2. PICK d \in CallType :
            d = New(op, "build", 0) /\ d.op = op /\ d.pc \in {"build", "idle"} /\ d.off = 0
      BY <1>1, <2>1
    <2>3. Sound(d)
      BY <2>1, <2>2 DEF Sound, P256
    <2> QED BY <1>7, <2>2, <2>3, EnterFits DEF ecdsaP256
  <1>8. CASE begin(t) \/ end(t)
    <2>1. scratch' \in ScratchType
      BY <1>8, ByteFacts DEF begin, end, FitInv, Types, ScratchType
    <2>2. started' \in BOOLEAN /\ UNCHANGED <<area, call, overrun>>
      BY <1>8 DEF begin, end, FitInv, Types
    <2> QED BY <2>1, <2>2 DEF FitInv, Types
  <1> QED
    BY <1>4, <1>5, <1>6, <1>7, <1>8 DEF Start

\* A step inside a call that writes nothing.
LEMMA QuietFits ==
  ASSUME FitInv, NEW t \in Threads, NEW c \in CallType, Becomes(t, c), Sound(c),
         UNCHANGED <<started, area, scratch, overrun>>
  PROVE  FitInv'
  BY StepFits DEF FitInv, Types

\* The same, returning.
LEMMA QuietLeaveFits ==
  ASSUME FitInv, NEW t \in Threads, NEW st \in Answers, Leave(t, st),
         UNCHANGED <<started, area, scratch, overrun>>
  PROVE  FitInv'
  BY LeaveFits DEF FitInv, Types

\* A step that goes on at pc and writes bytes that fit, or nothing.
LEMMA CopyFits ==
  ASSUME FitInv, NEW t \in Threads, NEW pc \in PCs, Go(t, pc),
         Sound([call[t] EXCEPT !.pc = pc]), UNCHANGED <<started, area>>,
         \/ UNCHANGED <<scratch, overrun>>
         \/ \E bytes \in Seq(Byte) : Len(bytes) <= Scratch /\ Write(0, bytes)
  PROVE  FitInv'
  <1> DEFINE c == [call[t] EXCEPT !.pc = pc]
  <1>1. Types /\ ~overrun /\ Becomes(t, c)
    BY Edits DEF FitInv
  <1>2. c \in CallType
    BY <1>1 DEF Types, CallType
  <1>3. scratch' \in ScratchType /\ overrun' = FALSE
    <2>1. CASE UNCHANGED <<scratch, overrun>>
      BY <1>1, <2>1 DEF Types
    <2>2. ASSUME NEW bytes \in Seq(Byte), Len(bytes) <= Scratch, Write(0, bytes)
          PROVE  scratch' \in ScratchType /\ overrun' = FALSE
      <3>1. 0 + Len(bytes) <= Scratch
        BY <2>2
      <3> QED BY <1>1, <2>2, <3>1, WriteFacts
    <2> QED BY <2>1, <2>2
  <1> QED
    BY <1>1, <1>2, <1>3, StepFits DEF Types

\* hmacSha256 copies its key: the one copy that no check of the code bounds.
LEMMA CopyKeyFits ==
  ASSUME KeysFit, FitInv, NEW t \in Threads, CopyKey(t), UNCHANGED <<started, area>>
  PROVE  FitInv'
  <1>0. Sound(call[t]) /\ call[t] \in CallType /\ call[t].pc = "key"
    BY DEF FitInv, Types, CopyKey
  <1>1. call[t].k \in KeyLens /\ call[t].k <= KeyLimit /\ call[t].op = "hmac" /\ call[t].k \in Nat
    BY <1>0 DEF Sound, CallType
  <1>2. \/ UNCHANGED <<scratch, overrun>>
        \/ \E bytes \in Seq(Byte) : Len(bytes) <= Scratch /\ Write(0, bytes)
    <2>1. CASE call[t].k <= KeyRam
      BY <2>1 DEF CopyKey
    <2>2. CASE ~(call[t].k <= KeyRam)
      <3>1. call[t].k <= Scratch
        BY <1>1, <2>2, Sizes DEF KeysFit
      <3>2. "key" \in BufferNames /\ 0 \in Nat
        BY DEF BufferNames
      <3>3. Bytes(t, "key", 0, call[t].k) \in Seq(Byte)
            /\ Len(Bytes(t, "key", 0, call[t].k)) = call[t].k
        BY <1>1, <3>2, BytesFacts
      <3> QED BY <2>2, <3>1, <3>3 DEF CopyKey
    <2> QED BY <2>1, <2>2
  <1>3. Sound([call[t] EXCEPT !.pc = "init"])
    BY <1>0, <1>1 DEF Sound, CallType
  <1> QED
    BY <1>2, <1>3, CopyFits DEF CopyKey, PCs

\* CRYS_HMAC_Init.
LEMMA HmacInitFits ==
  ASSUME FitInv, NEW t \in Threads, HmacInit(t), UNCHANGED <<started, area>>
  PROVE  FitInv'
  <1>0. Types /\ Sound(call[t]) /\ call[t] \in CallType /\ call[t].pc = "init"
    BY DEF FitInv, Types, HmacInit
  <1> DEFINE key == IF call[t].k <= KeyRam THEN Bytes(t, "key", 0, call[t].k)
                    ELSE Read(0, call[t].k)
  <1>1. key \in Seq(Byte)
    <2>1. call[t].k \in Nat /\ "key" \in BufferNames /\ 0 \in Nat
      BY <1>0 DEF CallType, BufferNames
    <2> QED BY <1>0, <2>1, BytesFacts, ReadFacts
  <1>2. CASE call' = [call EXCEPT ![t].pc = "loop", ![t].fed = key]
    <2> DEFINE c == [call[t] EXCEPT !.pc = "loop", !.fed = key]
    <2> HIDE DEF key
    <2>1. c \in CallType /\ c.op = call[t].op /\ c.pc = "loop" /\ c.off = call[t].off /\ c.n = call[t].n
      BY <1>0, <1>1 DEF CallType, PCs
    <2>2. Becomes(t, c)
      BY <1>0, <1>2, <2>1 DEF Becomes, Types
    <2>3. Sound(c)
      BY <1>0, <2>1 DEF Sound, LoopOps, CallType
    <2> QED BY <2>1, <2>2, <2>3, QuietFits DEF HmacInit
  <1>3. CASE Leave(t, "InternalError")
    BY <1>3, QuietLeaveFits DEF HmacInit, Answers
  <1> QED BY <1>2, <1>3 DEF HmacInit

\* hkdfSha256 copies one of its inputs.
LEMMA CopyInputFits ==
  ASSUME FitInv, NEW t \in Threads, NEW b \in {"ikm", "salt", "info"}, NEW j \in 1..3,
         NEW next \in {"salt", "info", "derive"},
         CopyInput(t, b, j, next), UNCHANGED <<started, area>>
  PROVE  FitInv'
  <1>0. Types /\ Sound(call[t]) /\ call[t] \in CallType /\ call[t].pc = b
    BY DEF FitInv, Types, CopyInput
  <1>1. call[t].hk[j] \in Nat /\ b \in BufferNames /\ next \in PCs /\ 0 \in Nat
    BY <1>0 DEF CallType, BufferNames, PCs
  <1>2. Sound([call[t] EXCEPT !.pc = next])
    BY <1>0 DEF Sound, CallType
  <1>3. CASE Go(t, next) /\ UNCHANGED <<scratch, overrun>>
    BY <1>1, <1>2, <1>3, CopyFits
  <1>4. CASE /\ call[t].hk[j] <= Scratch /\ Write(0, Bytes(t, b, 0, call[t].hk[j]))
             /\ Go(t, next)
    <2>1. Bytes(t, b, 0, call[t].hk[j]) \in Seq(Byte)
          /\ Len(Bytes(t, b, 0, call[t].hk[j])) = call[t].hk[j]
      BY <1>1, BytesFacts
    <2> QED BY <1>1, <1>2, <1>4, <2>1, CopyFits
  <1>5. CASE Leave(t, "BadParam") /\ UNCHANGED <<scratch, overrun>>
    BY <1>5, QuietLeaveFits DEF Answers
  <1> QED BY <1>3, <1>4, <1>5 DEF CopyInput

\* CRYS_HKDF_KeyDerivFunc.
LEMMA DeriveFits ==
  ASSUME FitInv, NEW t \in Threads, Derive(t), UNCHANGED <<started, area>>
  PROVE  FitInv'
  <1>0. Types /\ Sound(call[t]) /\ call[t] \in CallType /\ call[t].pc = "derive"
    BY DEF FitInv, Types, Derive
  <1>1. ASSUME NEW b \in BufferNames, NEW j \in 1..3 PROVE Input(t, b, j) \in Seq(Byte)
    <2>1. call[t].hk[j] \in Nat /\ 0 \in Nat
      BY <1>0 DEF CallType
    <2> QED BY <1>0, <2>1, BytesFacts, ReadFacts DEF Input
  <1> DEFINE all == Input(t, "ikm", 1) \o Input(t, "salt", 2) \o Input(t, "info", 3)
  <1>2. all \in Seq(Byte)
    <2>1. Input(t, "ikm", 1) \in Seq(Byte) /\ Input(t, "salt", 2) \in Seq(Byte)
          /\ Input(t, "info", 3) \in Seq(Byte)
      BY <1>1 DEF BufferNames
    <2> QED BY <2>1
  <1>3. CASE call' = [call EXCEPT ![t].pc = "idle", ![t].st = "Ok", ![t].fed = all]
    <2> DEFINE c == [call[t] EXCEPT !.pc = "idle", !.st = "Ok", !.fed = all]
    <2> HIDE DEF all
    <2>1. c \in CallType /\ c.op = call[t].op /\ c.pc = "idle" /\ c.n = call[t].n
      BY <1>0, <1>2 DEF CallType, PCs, Answers
    <2>2. Becomes(t, c)
      BY <1>0, <1>3, <2>1 DEF Becomes, Types
    <2>3. Sound(c)
      BY <1>0, <2>1 DEF Sound
    <2> QED BY <2>1, <2>2, <2>3, QuietFits DEF Derive
  <1>4. CASE Leave(t, "InternalError")
    BY <1>4, QuietLeaveFits DEF Derive, Answers
  <1> QED BY <1>3, <1>4 DEF Derive

\* What the loop has copied, and the zeros aesRun adds.
LEMMA CopiedFacts ==
  ASSUME NEW t \in Threads, NEW c \in CallType, Sound(c), c.pc \in {"loop", "engine", "copyOut"},
         c.op # "random"
  PROVE  LET bytes == Bytes(t, "in", c.off, Chunk(c))
                        \o [i \in 1 .. Padded(c) - Chunk(c) |-> Zero]
         IN  /\ bytes \in Seq(Byte) /\ Len(bytes) = Padded(c)
             /\ \A i \in 1..Chunk(c) : bytes[i] = <<t, "in", c.off + i>>
             /\ \A i \in 1..Padded(c) : Chunk(c) < i => bytes[i] = Zero
  <1>1. c.off \in Nat /\ Chunk(c) \in Nat /\ Padded(c) \in Nat /\ Chunk(c) <= Padded(c)
    BY ChunkFacts DEF Sound, CallType
  <1> DEFINE head == Bytes(t, "in", c.off, Chunk(c))
             zeros == [i \in 1 .. Padded(c) - Chunk(c) |-> Zero]
  <1>2. /\ head \in Seq(Byte) /\ Len(head) = Chunk(c)
        /\ \A i \in 1..Chunk(c) : head[i] = <<t, "in", c.off + i>>
    <2>1. "in" \in BufferNames
      BY DEF BufferNames
    <2> QED BY <1>1, <2>1, BytesFacts, ZenonT(30)
  <1>3. /\ zeros \in Seq(Byte) /\ Len(zeros) = Padded(c) - Chunk(c)
        /\ \A i \in 1 .. Padded(c) - Chunk(c) : zeros[i] = Zero
    BY <1>1, ByteFacts
  <1> HIDE DEF head, zeros
  <1>4. /\ head \o zeros \in Seq(Byte) /\ Len(head \o zeros) = Len(head) + Len(zeros)
        /\ \A i \in 1..Len(head) : (head \o zeros)[i] = head[i]
        /\ \A i \in 1..Len(zeros) : (head \o zeros)[Len(head) + i] = zeros[i]
    BY <1>2, <1>3, Joined
  <1>5. Len(head \o zeros) = Padded(c)
    BY <1>1, <1>2, <1>3, <1>4
  <1>6. ASSUME NEW i \in 1..Padded(c), Chunk(c) < i PROVE (head \o zeros)[i] = Zero
    <2>1. i - Chunk(c) \in 1 .. Padded(c) - Chunk(c) /\ i = Chunk(c) + (i - Chunk(c))
      BY <1>1, <1>6
    <2> QED BY <1>2, <1>3, <1>4, <2>1
  <1> QED BY <1>2, <1>4, <1>5, <1>6 DEF head, zeros

\* memcpy into the bounce buffer: the chunk of every mode fits.
LEMMA CopyInFits ==
  ASSUME FitInv, NEW t \in Threads, CopyIn(t), UNCHANGED <<started, area>>
  PROVE  FitInv'
  <1>0. /\ Types /\ Sound(call[t]) /\ call[t] \in CallType /\ call[t].pc = "loop"
        /\ call[t].op # "random" /\ call[t].off < call[t].n
    BY DEF FitInv, Types, CopyIn
  <1>1. PICK bytes \in Seq(Byte) : Len(bytes) = Padded(call[t]) /\ Write(0, bytes)
    BY <1>0, CopiedFacts DEF CopyIn
  <1>2. Padded(call[t]) <= Scratch
    BY <1>0, ChunkFacts DEF Sound
  <1>3. Sound([call[t] EXCEPT !.pc = "engine"])
    BY <1>0 DEF Sound, CallType
  <1> QED
    BY <1>1, <1>2, <1>3, CopyFits DEF CopyIn, PCs

\* A pass of a loop that is done: the offset moves on by the chunk.
LEMMA NextChunk ==
  ASSUME NEW c \in CallType, Sound(c), c.pc \in {"loop", "engine", "copyOut"},
         NEW d \in CallType, d.op = c.op, d.n = c.n, d.pc = "loop", d.off = c.off + Chunk(c)
  PROVE  Sound(d)
  <1>1. c.op \in LoopOps /\ d.off <= d.n
    BY ChunkFacts DEF Sound
  <1> QED BY <1>1 DEF Sound

\* The library takes a chunk from the scratch.
LEMMA EngineFits ==
  ASSUME FitInv, NEW t \in Threads, Engine(t), UNCHANGED <<started, area>>
  PROVE  FitInv'
  <1>0. Types /\ Sound(call[t]) /\ call[t] \in CallType /\ call[t].pc = "engine"
    BY DEF FitInv, Types, Engine
  <1>1. /\ Chunk(call[t]) \in Nat /\ call[t].off + Chunk(call[t]) \in Nat
        /\ call[t].fed \in Seq(Byte)
    BY <1>0, ChunkFacts DEF Sound, CallType
  <1>2. PICK fed \in Seq(Byte) : fed = call[t].fed \o Read(0, Chunk(call[t]))
    <2>1. Read(0, Chunk(call[t])) \in Seq(Byte)
      BY <1>0, <1>1, ReadFacts
    <2> QED BY <1>1, <2>1, Joined
  <1>3. CASE call' = [call EXCEPT ![t].pc = "loop", ![t].off = call[t].off + Chunk(call[t]),
                                  ![t].fed = fed]
    <2> DEFINE c == [call[t] EXCEPT !.pc = "loop", !.off = call[t].off + Chunk(call[t]),
                                    !.fed = fed]
    <2>1. /\ c \in CallType /\ c.op = call[t].op /\ c.n = call[t].n /\ c.pc = "loop"
          /\ c.off = call[t].off + Chunk(call[t])
      BY <1>0, <1>1, <1>2 DEF CallType, PCs
    <2>2. Becomes(t, c)
      BY <1>0, <1>3, <2>1 DEF Becomes, Types
    <2>3. Sound(c)
      BY <1>0, <2>1, NextChunk
    <2> QED BY <2>1, <2>2, <2>3, QuietFits DEF Engine
  <1>4. CASE Leave(t, "InternalError")
    BY <1>4, QuietLeaveFits DEF Engine, Answers
  <1> QED BY <1>2, <1>3, <1>4 DEF Engine

\* What SaSi_AesBlock makes of a chunk.
LEMMA EncFacts ==
  ASSUME NEW in \in Seq(Byte)
  PROVE  /\ [i \in 1..Len(in) |-> Enc(in[i])] \in Seq(Byte)
         /\ Len([i \in 1..Len(in) |-> Enc(in[i])]) = Len(in)
  <1>1. \A i \in 1..Len(in) : Enc(in[i]) \in Byte
    BY ByteFacts
  <1>2. Len(in) \in Nat
    OBVIOUS
  <1> QED BY <1>1, <1>2

\* SaSi_AesBlock writes the output half of the scratch: a padded chunk fits there.
LEMMA AesEngineFits ==
  ASSUME FitInv, NEW t \in Threads, AesEngine(t), UNCHANGED <<started, area>>
  PROVE  FitInv'
  <1>0. /\ Types /\ Sound(call[t]) /\ call[t] \in CallType /\ call[t].pc = "engine"
        /\ IsAes(call[t]) /\ ~overrun
    BY DEF FitInv, Types, AesEngine
  <1>1. /\ Padded(call[t]) \in Nat /\ Half + Padded(call[t]) <= Scratch
        /\ call[t].fed \in Seq(Byte) /\ Half \in Nat
    BY <1>0, ChunkFacts, HalfFacts DEF Sound, CallType
  <1>2. PICK in \in Seq(Byte) : in = Read(0, Padded(call[t])) /\ Len(in) = Padded(call[t])
    BY <1>0, <1>1, ReadFacts
  <1>3. CASE /\ call' = [call EXCEPT ![t].pc = "copyOut", ![t].fed = call[t].fed \o in]
             /\ Write(Half, [i \in 1..Len(in) |-> Enc(in[i])])
    <2> DEFINE c == [call[t] EXCEPT !.pc = "copyOut", !.fed = call[t].fed \o in]
    <2>1. /\ c \in CallType /\ c.op = call[t].op /\ c.n = call[t].n /\ c.pc = "copyOut"
          /\ c.off = call[t].off
      BY <1>0, <1>1, <1>2, Joined DEF CallType, PCs
    <2>2. Becomes(t, c)
      BY <1>0, <1>3, <2>1 DEF Becomes, Types
    <2>3. Sound(c)
      BY <1>0, <2>1 DEF Sound, IsAes
    <2>4. scratch' \in ScratchType /\ overrun' = FALSE
      BY <1>0, <1>1, <1>2, <1>3, EncFacts, WriteFacts
    <2> QED BY <1>0, <2>1, <2>2, <2>3, <2>4, StepFits DEF Types
  <1>4. CASE Leave(t, "InternalError") /\ UNCHANGED <<scratch, overrun>>
    BY <1>4, QuietLeaveFits DEF Answers
  <1> QED BY <1>2, <1>3, <1>4 DEF AesEngine

\* memcpy out of the output half.
LEMMA CopyOutFits ==
  ASSUME FitInv, NEW t \in Threads, CopyOut(t), UNCHANGED <<started, area>>
  PROVE  FitInv'
  <1>0. Types /\ Sound(call[t]) /\ call[t] \in CallType /\ call[t].pc = "copyOut"
    BY DEF FitInv, Types, CopyOut
  <1>1. /\ Chunk(call[t]) \in Nat /\ call[t].off + Chunk(call[t]) \in Nat
        /\ call[t].out \in Seq(Byte)
    BY <1>0, ChunkFacts DEF Sound, CallType
  <1>2. PICK out \in Seq(Byte) : out = call[t].out \o Read(Half, Chunk(call[t]))
    <2>1. Read(Half, Chunk(call[t])) \in Seq(Byte)
      BY <1>0, <1>1, ReadFacts, HalfFacts
    <2> QED BY <1>1, <2>1, Joined
  <1> DEFINE c == [call[t] EXCEPT !.pc = "loop", !.off = call[t].off + Chunk(call[t]),
                                  !.out = out]
  <1>3. /\ c \in CallType /\ c.op = call[t].op /\ c.n = call[t].n /\ c.pc = "loop"
        /\ c.off = call[t].off + Chunk(call[t])
    BY <1>0, <1>1, <1>2 DEF CallType, PCs
  <1>4. call' = [call EXCEPT ![t].pc = "loop", ![t].off = call[t].off + Chunk(call[t]),
                             ![t].out = out]
    BY <1>2 DEF CopyOut
  <1>5. Becomes(t, c)
    BY <1>0, <1>3, <1>4 DEF Becomes, Types
  <1>6. Sound(c)
    BY <1>0, <1>3, NextChunk
  <1> QED BY <1>3, <1>5, <1>6, QuietFits DEF CopyOut

\* randomBytes fills a chunk.
LEMMA GenerateFits ==
  ASSUME FitInv, NEW t \in Threads, Generate(t), UNCHANGED <<started, area>>
  PROVE  FitInv'
  <1>0. Types /\ Sound(call[t]) /\ call[t] \in CallType /\ call[t].pc = "loop"
    BY DEF FitInv, Types, Generate
  <1>1. /\ Chunk(call[t]) \in Nat /\ call[t].off + Chunk(call[t]) \in Nat
        /\ call[t].off \in Nat /\ call[t].fed \in Seq(Byte)
    BY <1>0, ChunkFacts DEF Sound, CallType
  <1>2. PICK fed \in Seq(Byte) :
          fed = call[t].fed \o Bytes(t, "in", call[t].off, Chunk(call[t]))
    <2>1. "in" \in BufferNames
      BY DEF BufferNames
    <2>2. Bytes(t, "in", call[t].off, Chunk(call[t])) \in Seq(Byte)
      BY <1>1, <2>1, BytesFacts
    <2> QED BY <1>1, <2>2, Joined
  <1>3. CASE call' = [call EXCEPT ![t].off = call[t].off + Chunk(call[t]), ![t].fed = fed]
    <2> DEFINE c == [call[t] EXCEPT !.off = call[t].off + Chunk(call[t]), !.fed = fed]
    <2>1. /\ c \in CallType /\ c.op = call[t].op /\ c.n = call[t].n /\ c.pc = "loop"
          /\ c.off = call[t].off + Chunk(call[t])
      BY <1>0, <1>1, <1>2 DEF CallType
    <2>2. Becomes(t, c)
      BY <1>0, <1>3, <2>1 DEF Becomes, Types
    <2>3. Sound(c)
      BY <1>0, <2>1, NextChunk
    <2> QED BY <2>1, <2>2, <2>3, QuietFits DEF Generate
  <1>4. CASE Leave(t, "InternalError")
    BY <1>4, QuietLeaveFits DEF Generate, Answers
  <1> QED BY <1>2, <1>3, <1>4 DEF Generate

\* Every step on the scratch.
LEMMA BounceFits ==
  ASSUME KeysFit, FitInv, NEW t \in Threads, Bounce(t), UNCHANGED <<started, area>>
  PROVE  FitInv'
  <1>1. CASE InitFails(t) \/ Finish(t)
    <2>1. /\ \E st \in Answers : Leave(t, st)
          /\ UNCHANGED <<scratch, overrun>>
      BY <1>1 DEF InitFails, Finish, Answers
    <2> QED BY <2>1, QuietLeaveFits
  <1>2. CASE \/ CopyInput(t, "ikm", 1, "salt") \/ CopyInput(t, "salt", 2, "info")
             \/ CopyInput(t, "info", 3, "derive")
    BY <1>2, CopyInputFits
  <1> QED
    BY <1>1, <1>2, CopyKeyFits, HmacInitFits, DeriveFits, CopyInFits, EngineFits,
       AesEngineFits, CopyOutFits, GenerateFits
    DEF Bounce

-----------------------------------------------------------------------------
(* The static key objects *)

\* The key objects of a P-256 call.
LEMMA AreaFacts ==
  ASSUME NEW op \in P256
  PROVE  /\ Len(Areas(op)) \in {1, 2}
         /\ \A i \in 1..Len(Areas(op)) :
              Areas(op)[i] \in AreaNames /\ Areas(op)[i] \in BufferNames
         /\ Areas("ecdsaGenerate") = <<"genPriv", "genPub">>
         /\ \A i, j \in 1..Len(Areas(op)) : Areas(op)[i] = Areas(op)[j] => i = j
  BY DEF Areas, P256, AreaNames, BufferNames

\* A step on the key objects that changes at most them.
LEMMA AreaStepFits ==
  ASSUME FitInv, NEW t \in Threads, NEW c \in CallType, Becomes(t, c), Sound(c),
         UNCHANGED <<started, scratch, overrun>>, area' \in AreaType
  PROVE  FitInv'
  BY StepFits DEF FitInv, Types

\* Every step on the key objects.
LEMMA KeyStepFits ==
  ASSUME FitInv, NEW t \in Threads, KeyStep(t), UNCHANGED <<started, scratch, overrun>>
  PROVE  FitInv'
  <1>0. /\ Types /\ Sound(call[t]) /\ call[t] \in CallType /\ area \in AreaType
        /\ call \in [Threads -> CallType] /\ overrun = FALSE
    BY DEF FitInv, Types
  <1>1. CASE GenKeyPair(t)
    <2>1. area' \in AreaType
      <3>1. /\ <<t, "genPriv", 1>> \in Byte /\ <<t, "genPub", 1>> \in Byte /\ Junk \in Byte
        BY ByteFacts DEF BufferNames, AreaNames
      <3> QED BY <1>0, <1>1, <3>1 DEF GenKeyPair, AreaType
    <2>2. call[t].op = "ecdsaGenerate" /\ call[t].pc = "build" /\ call[t].off = 0
      BY <1>0, <1>1 DEF GenKeyPair, Sound
    <2>3. CASE Go(t, "use")
      <3> DEFINE c == [call[t] EXCEPT !.pc = "use"]
      <3>0. c \in CallType /\ c.op = "ecdsaGenerate" /\ c.pc = "use" /\ c.off = 0
        BY <1>0, <2>2 DEF CallType, PCs
      <3>1. Sound(c)
        BY <3>0 DEF Sound, P256
      <3>2. Becomes(t, c)
        BY <1>0, <2>3, Edits DEF PCs
      <3> QED BY <2>1, <3>0, <3>1, <3>2, AreaStepFits
    <2>4. CASE Leave(t, "InternalError")
      BY <1>0, <2>1, <2>4, LeaveFits DEF Answers, Types
    <2> QED BY <1>1, <2>3, <2>4 DEF GenKeyPair
  <1>2. CASE Build(t)
    <2>0. /\ call[t].op \in P256 /\ call[t].op # "ecdsaGenerate" /\ call[t].off \in Nat
          /\ Len(Areas(call[t].op)) \in {1, 2} /\ call[t].pc = "build"
          /\ call[t].off <= Len(Areas(call[t].op))
      BY <1>0, <1>2, AreaFacts DEF Build, Sound, CallType
    <2>1. CASE /\ call[t].off < Len(Areas(call[t].op))
               /\ area' = [area EXCEPT ![Current(t)] = <<t, Current(t), 1>>]
               /\ call' = [call EXCEPT ![t].off = @ + 1]
      <3>5. PICK n \in Nat : n = call[t].off + 1
        BY <2>0
      <3> DEFINE c == [call[t] EXCEPT !.off = n]
      <3>0. /\ c \in CallType /\ c.op = call[t].op /\ c.pc = "build"
            /\ c.off = n
        BY <1>0, <2>0 DEF CallType
      <3>1. c.off <= Len(Areas(c.op)) /\ Sound(c)
        BY <2>0, <2>1, <3>0, <3>5 DEF Sound, P256
      <3>2. Becomes(t, c)
        BY <1>0, <2>1, <3>0, <3>5 DEF Becomes
      <3>3. Current(t) \in AreaNames /\ Current(t) \in BufferNames
        BY <2>0, <2>1, AreaFacts DEF Current
      <3>4. area' \in AreaType
        BY <1>0, <2>1, <3>3, ByteFacts DEF AreaType
      <3> QED BY <3>0, <3>1, <3>2, <3>4, AreaStepFits
    <2>2. CASE area' \in {area, [area EXCEPT ![Current(t)] = Junk]} /\ call' = AfterFailedBuild(t)
      <3>1. area' \in AreaType
        BY <1>0, <2>2, ByteFacts DEF AreaType
      <3>2. Leave(t, "BadParam")
        BY <2>2 DEF AfterFailedBuild, Leave
      <3> QED BY <1>0, <3>1, <3>2, LeaveFits DEF Answers, Types
    <2>3. CASE /\ call' = [call EXCEPT ![t].off = 0, ![t].pc = "use"]
               /\ UNCHANGED area
      <3> DEFINE c == [call[t] EXCEPT !.off = 0, !.pc = "use"]
      <3>0. c \in CallType /\ c.op = call[t].op /\ c.pc = "use" /\ c.off = 0
        BY <1>0, <2>0 DEF CallType, PCs
      <3>1. Sound(c)
        BY <2>0, <3>0 DEF Sound, P256
      <3>2. Becomes(t, c)
        BY <1>0, <2>3, <3>0 DEF Becomes
      <3> QED BY <1>0, <2>3, <3>0, <3>1, <3>2, AreaStepFits
    <2> QED BY <1>2, <2>1, <2>2, <2>3 DEF Build
  <1>3. CASE Export(t)
    <2>0. /\ call[t].op = "ecdsaGenerate" /\ call[t].off \in {0, 1} /\ call[t].pc = "use"
          /\ UNCHANGED area
      BY <1>0, <1>3 DEF Export, Sound, CallType
    <2>1. CASE Leave(t, "InternalError")
      BY <1>0, <2>0, <2>1, LeaveFits DEF Answers, Types
    <2>2. CASE ~Leave(t, "InternalError")
      <3>1. Current(t) \in AreaNames
        BY <2>0, AreaFacts DEF Current, AreaNames, P256
      <3>2. PICK fed \in Seq(Byte) : fed = call[t].fed \o <<area[Current(t)]>>
        <4>1. <<area[Current(t)]>> \in Seq(Byte) /\ call[t].fed \in Seq(Byte)
          BY <1>0, <3>1 DEF AreaType, CallType
        <4> QED BY <4>1, Joined
      <3>7. PICK n \in Nat, pc \in PCs, st \in Answers :
              /\ n = call[t].off + 1
              /\ pc = IF call[t].off = 1 THEN "idle" ELSE "use"
              /\ st = IF call[t].off = 1 THEN "Ok" ELSE call[t].st
        BY <1>0, <2>0 DEF CallType, PCs, Answers
      <3> DEFINE c == [call[t] EXCEPT !.off = n, !.fed = fed, !.pc = pc, !.st = st]
      <3>3. /\ c \in CallType /\ c.op = "ecdsaGenerate" /\ c.off = n /\ c.pc = pc
        BY <1>0, <2>0, <3>2 DEF CallType
      <3>5. Sound(c)
        BY <2>0, <3>3, <3>7 DEF Sound, P256
      <3>6. call' = [call EXCEPT ![t].off = @ + 1, ![t].fed = fed,
                       ![t].pc = IF call[t].off = 1 THEN "idle" ELSE @,
                       ![t].st = IF call[t].off = 1 THEN "Ok" ELSE @]
        BY <1>3, <2>2, <3>2 DEF Export
      <3>4. Becomes(t, c)
        BY <1>0, <2>0, <3>3, <3>6, <3>7 DEF Becomes
      <3> QED BY <1>0, <2>0, <3>3, <3>5, <3>4, AreaStepFits
    <2> QED BY <2>1, <2>2
  <1>4. CASE UseKeys(t)
    <2>0. call[t].op \in P256 /\ UNCHANGED area
      BY <1>0, <1>4 DEF UseKeys, Sound
    <2>1. CASE \E st \in Answers : Leave(t, st)
      BY <1>0, <2>0, <2>1, LeaveFits DEF Types
    <2>2. CASE ~\E st \in Answers : Leave(t, st)
      <3> DEFINE fed == [i \in 1..Len(Areas(call[t].op)) |-> area[Areas(call[t].op)[i]]]
                 c == [call[t] EXCEPT !.pc = "idle", !.st = "Ok", !.fed = fed]
      <3>1. fed \in Seq(Byte)
        BY <1>0, <2>0, AreaFacts DEF AreaType
      <3> HIDE DEF fed
      <3>2. c \in CallType /\ Sound(c)
        BY <1>0, <3>1, ZenonT(30) DEF CallType, PCs, Answers, Sound
      <3>3. call' = [call EXCEPT ![t].pc = "idle", ![t].st = "Ok", ![t].fed = fed]
        BY <1>4, <2>2 DEF UseKeys, Answers, fed
      <3>4. Becomes(t, c)
        BY <1>0, <3>2, <3>3 DEF Becomes
      <3> QED BY <1>0, <2>0, <3>2, <3>4, AreaStepFits
    <2> QED BY <2>1, <2>2
  <1> QED BY <1>1, <1>2, <1>3, <1>4 DEF KeyStep

\* Every step of every thread.
LEMMA FitInductive ==
  ASSUME KeysFit, FitInv, [Next]_vars
  PROVE  FitInv'
  <1>1. ASSUME NEW t \in Threads, Start(t) \/ Proceed(t) PROVE FitInv'
    BY <1>1, StartFits, BounceFits, KeyStepFits DEF Proceed
  <1>2. CASE UNCHANGED vars
    BY <1>2 DEF vars, FitInv, Types
  <1> QED BY <1>1, <1>2 DEF Next

\* No memcpy, padding or library call goes past the end of g_scratch, for any
\* sizes, any message lengths and any interleaving of any number of calls: the
\* chunk arithmetic of every loop is right, and bounceMsg and HKDF refuse what
\* does not fit.  The one thing the code leaves to the application is the
\* length of a long HMAC key.
THEOREM CopiesAlwaysFit ==
  ASSUME KeysFit
  PROVE  Spec => []CopiesFit
  <1>1. Init => FitInv
    BY FitInit
  <1>2. FitInv /\ [Next]_vars => FitInv'
    BY FitInductive
  <1>3. FitInv => CopiesFit
    BY DEF FitInv, CopiesFit
  <1> QED BY <1>1, <1>2, <1>3, PTL DEF Spec

-----------------------------------------------------------------------------
(* What a call has been fed, when the application makes one call at a time.  *)
(* c is the call of thread t, s the scratch and a the static key objects.    *)

OneCall == \A t, u \in Threads : ~Free(t) /\ ~Free(u) => t = u

\* The first n bytes of the scratch are those of t's buffer b after the first off
InScratch(s, t, b, off, n) == \A i \in 1..n : s[i] = <<t, b, off + i>>

\* A long input of HKDF is in the scratch; a short one is on the stack
HasInput(t, c, s, b, j) ==
  KeyRam < c.hk[j] => c.hk[j] <= Scratch /\ InScratch(s, t, b, 0, c.hk[j])

\* At most one input of an HKDF call is too long for the stack: the code copies
\* every such input to the start of the same scratch
HkdfOneLong ==
  \A h \in HkdfLens : \A i, j \in 1..3 : KeyRam < h[i] /\ KeyRam < h[j] => i = j

Whole(n) == \E q \in Nat : n = q * AesBlock

\* What a loop has fed the library when it has reached offset n
Fed(t, c, n) ==
  CASE c.op = "hmac" -> Bytes(t, "key", 0, c.k) \o Bytes(t, "in", 0, n)
    [] IsAes(c)      -> Bytes(t, "in", 0, n) \o [i \in 1..PadOf(n) |-> Zero]
    [] OTHER         -> Bytes(t, "in", 0, n)

\* What an AES mode has returned by then
Returned(t, n) == [i \in 1..n |-> Enc(<<t, "in", i>>)]

\* The i-th key object of the call, when it is its own
OwnKey(t, c, i) == <<t, Areas(c.op)[i], 1>>

HasKeys(t, c, a, n) == \A i \in 1..n : a[Areas(c.op)[i]] = OwnKey(t, c, i)

\* OkMeansOwnInput of one call: it was fed all of its inputs and returned all
\* of its output
Right(t, c) ==
  /\ c.op \in LoopOps => c.fed = Fed(t, c, c.n)
  /\ c.op = "hkdf" => c.fed = Bytes(t, "ikm", 0, c.hk[1]) \o Bytes(t, "salt", 0, c.hk[2])
                                \o Bytes(t, "info", 0, c.hk[3])
  /\ c.op \in P256 => c.fed = [i \in 1..Len(Areas(c.op)) |-> OwnKey(t, c, i)]
  /\ c.op # "none"
  /\ IsAes(c) => c.out = Returned(t, c.n)

\* A loop has been fed, and an AES mode has returned, all there is before n
Done(t, c, n) ==
  /\ c.fed = Fed(t, c, n)
  /\ IsAes(c) => c.out = Returned(t, n) /\ (n < c.n => Whole(n))

\* The step a call is at says what it has put in the static buffers and been fed
Work(t, c, s, a) ==
  /\ c.st = "Ok" => c.pc = "idle" /\ Right(t, c)
  /\ c.pc = "init" /\ KeyRam < c.k => InScratch(s, t, "key", 0, c.k)
  /\ c.pc \in {"key", "init"} => c.out = <<>>
  /\ c.pc \in {"salt", "info", "derive"} => HasInput(t, c, s, "ikm", 1)
  /\ c.pc \in {"info", "derive"} => HasInput(t, c, s, "salt", 2)
  /\ c.pc = "derive" => HasInput(t, c, s, "info", 3)
  /\ c.pc \in {"loop", "engine"} => Done(t, c, c.off)
  /\ c.pc = "engine" =>
       /\ InScratch(s, t, "in", c.off, Chunk(c))
       /\ \A i \in 1..Padded(c) : Chunk(c) < i => s[i] = Zero
  /\ c.pc = "copyOut" =>
       /\ c.fed = Fed(t, c, c.off + Chunk(c)) /\ c.out = Returned(t, c.off)
       /\ Whole(c.off)
       /\ \A i \in 1..Chunk(c) : s[Half + i] = Enc(<<t, "in", c.off + i>>)
  /\ c.pc = "build" => HasKeys(t, c, a, c.off) /\ c.fed = <<>>
  /\ c.pc = "use" => HasKeys(t, c, a, Len(Areas(c.op)))
  /\ c.pc = "use" /\ c.op = "ecdsaGenerate" =>
       c.fed = [i \in 1..c.off |-> OwnKey(t, c, i)]

LockInv ==
  /\ FitInv
  /\ OneCall
  /\ \A t \in Threads : Work(t, call[t], scratch, area)

-----------------------------------------------------------------------------
(* Sequences of bytes *)

\* Two pieces of a buffer, one after the other.
LEMMA BytesJoin ==
  ASSUME NEW t \in Threads, NEW b \in BufferNames, NEW m \in Nat, NEW n \in Nat
  PROVE  Bytes(t, b, 0, m) \o Bytes(t, b, m, n) = Bytes(t, b, 0, m + n)
  <1> DEFINE x == Bytes(t, b, 0, m)
             y == Bytes(t, b, m, n)
             z == Bytes(t, b, 0, m + n)
  <1>1. /\ x \in Seq(Byte) /\ Len(x) = m /\ \A i \in 1..m : x[i] = <<t, b, 0 + i>>
        /\ y \in Seq(Byte) /\ Len(y) = n /\ \A i \in 1..n : y[i] = <<t, b, m + i>>
        /\ z \in Seq(Byte) /\ Len(z) = m + n /\ \A i \in 1..(m + n) : z[i] = <<t, b, 0 + i>>
    <2>0. 0 \in Nat
      OBVIOUS
    <2>1. x \in Seq(Byte) /\ Len(x) = m /\ \A i \in 1..m : x[i] = <<t, b, 0 + i>>
      BY <2>0, BytesFacts, Zenon
    <2>2. y \in Seq(Byte) /\ Len(y) = n /\ \A i \in 1..n : y[i] = <<t, b, m + i>>
      BY BytesFacts
    <2>3. PICK k \in Nat : k = m + n
      OBVIOUS
    <2>4. 0 \in Nat
      OBVIOUS
    <2>5. /\ Bytes(t, b, 0, k) \in Seq(Byte) /\ Len(Bytes(t, b, 0, k)) = k
          /\ \A i \in 1..k : Bytes(t, b, 0, k)[i] = <<t, b, 0 + i>>
      BY <2>4, BytesFacts
    <2> QED BY <2>1, <2>2, <2>3, <2>5
  <1> HIDE DEF x, y, z
  <1>2. /\ x \o y \in Seq(Byte) /\ Len(x \o y) = m + n
        /\ \A i \in 1..m : (x \o y)[i] = x[i]
        /\ \A i \in 1..n : (x \o y)[m + i] = y[i]
    BY <1>1, Joined
  <1>3. ASSUME NEW i \in 1..(m + n) PROVE (x \o y)[i] = z[i]
    <2>1. CASE i <= m
      <3>1. i \in 1..m
        BY <2>1
      <3> QED BY <1>1, <1>2, <3>1
    <2>2. CASE ~(i <= m)
      <3>1. i - m \in 1..n /\ m + (i - m) = i /\ 0 + i = i
        BY <2>2
      <3>2. (x \o y)[m + (i - m)] = y[i - m] /\ y[i - m] = <<t, b, m + (i - m)>>
        BY <1>1, <1>2, <3>1
      <3> QED BY <1>1, <3>1, <3>2
    <2> QED BY <2>1, <2>2
  <1>4. x \o y = z
    BY <1>1, <1>2, <1>3, SeqEqual
  <1> QED BY <1>4 DEF x, y, z

\* Nothing of a buffer.
LEMMA NoBytes ==
  ASSUME NEW t \in Threads, NEW b, NEW off
  PROVE  Bytes(t, b, off, 0) = <<>>
  BY DEF Bytes

\* The scratch read back.
LEMMA ReadBack ==
  ASSUME Types, NEW t \in Threads, NEW b \in BufferNames, NEW off \in Nat, NEW n \in Nat,
         n <= Scratch, InScratch(scratch, t, b, off, n)
  PROVE  Read(0, n) = Bytes(t, b, off, n)
  <1>1. \A i \in 1..n : 0 + i <= Scratch /\ scratch[0 + i] = <<t, b, off + i>>
    BY Sizes DEF InScratch
  <1> QED BY <1>1 DEF Read, Bytes

\* Nothing is fed before the first chunk, and whole blocks need no padding.
LEMMA NoPad ==
  ASSUME NEW q \in Nat
  PROVE  PadOf(q * AesBlock) = 0
  <1>1. BlocksOf(0, AesBlock) * AesBlock - 0 = PadOf(q * AesBlock + 0)
    BY PadOfRest
  <1>2. q * AesBlock + 0 = q * AesBlock /\ 0 * AesBlock = 0
    BY Sizes
  <1>3. BlocksOf(0, AesBlock) * AesBlock <= 0 * AesBlock
        /\ 0 <= BlocksOf(0, AesBlock) * AesBlock /\ BlocksOf(0, AesBlock) \in Nat
    BY <1>2, RoundUp, Sizes
  <1>4. BlocksOf(0, AesBlock) * AesBlock = 0
    BY <1>2, <1>3, Sizes
  <1> QED BY <1>1, <1>2, <1>4

\* A run of zeros is a sequence of bytes.
LEMMA ZerosFacts ==
  ASSUME NEW n \in Nat
  PROVE  /\ [i \in 1..n |-> Zero] \in Seq(Byte) /\ Len([i \in 1..n |-> Zero]) = n
  BY ByteFacts

\* What a loop but aesRun's has fed, one chunk on.
LEMMA FedStep ==
  ASSUME NEW t \in Threads, NEW c \in CallType, ~IsAes(c), NEW m \in Nat, NEW n \in Nat
  PROVE  Fed(t, c, m) \o Bytes(t, "in", m, n) = Fed(t, c, m + n)
  <1>0. "in" \in BufferNames /\ "key" \in BufferNames /\ c.k \in Nat /\ 0 \in Nat
    BY DEF BufferNames, CallType
  <1>1. Bytes(t, "in", 0, m) \o Bytes(t, "in", m, n) = Bytes(t, "in", 0, m + n)
    BY <1>0, BytesJoin
  <1>2. /\ Bytes(t, "in", 0, m) \in Seq(Byte) /\ Bytes(t, "in", m, n) \in Seq(Byte)
        /\ Bytes(t, "key", 0, c.k) \in Seq(Byte)
    BY <1>0, BytesFacts
  <1>3. (Bytes(t, "key", 0, c.k) \o Bytes(t, "in", 0, m)) \o Bytes(t, "in", m, n)
          = Bytes(t, "key", 0, c.k) \o (Bytes(t, "in", 0, m) \o Bytes(t, "in", m, n))
    BY <1>2, ConcatAssociative, SMTT(30)
  <1> QED BY <1>1, <1>3 DEF Fed

\* Nothing is fed before the first chunk but HMAC's key, nothing is returned,
\* and no block is cut.
LEMMA FedNothing ==
  ASSUME NEW t \in Threads, NEW c \in CallType
  PROVE  /\ Fed(t, c, 0) = IF c.op = "hmac" THEN Bytes(t, "key", 0, c.k) ELSE <<>>
         /\ Returned(t, 0) = <<>> /\ Whole(0)
  <1>1. Bytes(t, "in", 0, 0) = <<>>
    BY NoBytes
  <1>2. 0 = 0 * AesBlock /\ Whole(0) /\ PadOf(0) = 0
    <2>1. 0 = 0 * AesBlock /\ PadOf(0 * AesBlock) = 0
      BY NoPad, Sizes
    <2> QED BY <2>1 DEF Whole
  <1>3. [i \in 1..PadOf(0) |-> Zero] = <<>> /\ Returned(t, 0) = <<>>
    BY <1>2 DEF Returned
  <1>4. Bytes(t, "key", 0, c.k) \in Seq(Byte)
    <2>1. "key" \in BufferNames /\ c.k \in Nat /\ 0 \in Nat
      BY DEF BufferNames, CallType
    <2> QED BY <2>1, BytesFacts
  <1>5. /\ Bytes(t, "key", 0, c.k) \o <<>> = Bytes(t, "key", 0, c.k)
        /\ <<>> \o <<>> = <<>>
    BY <1>4
  <1>6. CASE c.op = "hmac"
    BY <1>1, <1>2, <1>3, <1>5, <1>6 DEF Fed, IsAes
  <1>7. CASE c.op # "hmac" /\ IsAes(c)
    BY <1>1, <1>2, <1>3, <1>5, <1>7 DEF Fed
  <1>8. CASE c.op # "hmac" /\ ~IsAes(c)
    BY <1>1, <1>2, <1>3, <1>8 DEF Fed
  <1> QED BY <1>6, <1>7, <1>8

\* A place behind the first n of n + r is one of the other r.
LEMMA Remainder ==
  \A n, r \in Nat : \A i \in 1..(n + r) :
    ~(i <= n) => i - n \in 1..r /\ n + (i - n) = i /\ n < i
  OBVIOUS

\* What aesRun has fed, one chunk on: the padding of the chunk is that of the
\* whole message so far, and there was none before.
LEMMA AesFedStep ==
  ASSUME Types, NEW t \in Threads, NEW c \in CallType, Sound(c), IsAes(c), c.pc = "engine",
         Whole(c.off), InScratch(scratch, t, "in", c.off, Chunk(c)),
         \A i \in 1..Padded(c) : Chunk(c) < i => scratch[i] = Zero
  PROVE  Fed(t, c, c.off) \o Read(0, Padded(c)) = Fed(t, c, c.off + Chunk(c))
  <1>1. PICK off \in Nat, n \in Nat, p \in Nat, r \in Nat :
          /\ off = c.off /\ n = Chunk(c) /\ p = Padded(c)
          /\ r = PadOf(off + n) /\ n + r = p /\ p <= Scratch
          /\ PadOf(off) = 0
    <2>1. /\ c.off \in Nat /\ Chunk(c) \in Nat
          /\ Padded(c) \in Nat /\ Padded(c) <= Scratch
      BY ChunkFacts, Sizes DEF Sound, CallType, IsAes
    <2>2. PICK q \in Nat : c.off = q * AesBlock
      BY DEF Whole
    <2>3. Padded(c) = BlocksOf(Chunk(c), AesBlock) * AesBlock
      BY DEF Padded, BlocksOf
    <2>4. /\ Padded(c) - Chunk(c) = PadOf(c.off + Chunk(c))
          /\ PadOf(c.off + Chunk(c)) \in Nat /\ PadOf(c.off) = 0
      BY <2>1, <2>2, <2>3, PadOfRest, NoPad
    <2> QED BY <2>1, <2>4
  <1>2. /\ \A i \in 1..n : scratch[i] = <<t, "in", off + i>>
        /\ \A i \in 1..p : n < i => scratch[i] = Zero
    BY <1>1 DEF InScratch
  <1>0. "in" \in BufferNames /\ 0 \in Nat
    BY DEF BufferNames
  <1>3. PICK before \in Seq(Byte) : before = Bytes(t, "in", 0, off)
    BY <1>0, BytesFacts
  <1>4. PICK head \in Seq(Byte) :
          /\ head = Bytes(t, "in", off, n) /\ Len(head) = n
          /\ \A i \in 1..n : head[i] = <<t, "in", off + i>>
    BY <1>0, BytesFacts, ZenonT(30)
  <1>5. PICK zeros \in Seq(Byte) :
          /\ zeros = [i \in 1..r |-> Zero] /\ Len(zeros) = r
          /\ \A i \in 1..r : zeros[i] = Zero
    BY ZerosFacts
  <1>6. PICK got \in Seq(Byte) :
          /\ got = Read(0, p) /\ Len(got) = p /\ \A i \in 1..p : got[i] = scratch[i]
    <2>1. \A i \in 1..p : 0 + i <= Scratch /\ 0 + i = i
      BY <1>1, Sizes
    <2>2. /\ Read(0, p) \in Seq(Byte) /\ Len(Read(0, p)) = p
          /\ \A i \in 1..p : 0 + i <= Scratch => Read(0, p)[i] = scratch[0 + i]
      BY <1>0, ReadFacts
    <2> QED BY <2>1, <2>2
  <1>7. got = head \o zeros
    <2>0. /\ head \o zeros \in Seq(Byte) /\ Len(head \o zeros) = Len(head) + Len(zeros)
          /\ \A i \in 1..Len(head) : (head \o zeros)[i] = head[i]
          /\ \A i \in 1..Len(zeros) : (head \o zeros)[Len(head) + i] = zeros[i]
      BY Joined
    <2>1. /\ head \o zeros \in Seq(Byte) /\ Len(head \o zeros) = n + r
          /\ \A i \in 1..n : (head \o zeros)[i] = head[i]
          /\ \A i \in 1..r : (head \o zeros)[n + i] = zeros[i]
      BY <1>4, <1>5, <2>0
    <2>2. ASSUME NEW i \in 1..p PROVE got[i] = (head \o zeros)[i]
      <3>1. CASE i <= n
        <4>1. i \in 1..n
          BY <3>1
        <4> QED BY <1>2, <1>4, <1>6, <2>1, <4>1
      <3>2. CASE ~(i <= n)
        <4>1. i - n \in 1..r /\ n + (i - n) = i /\ n < i
          <5>1. n \in Nat /\ r \in Nat /\ i \in 1..(n + r)
            BY <1>1
          <5> QED BY <3>2, <5>1, Remainder
        <4>2. (head \o zeros)[n + (i - n)] = zeros[i - n] /\ zeros[i - n] = Zero
          BY <1>5, <2>1, <4>1
        <4> QED BY <1>2, <1>6, <4>1, <4>2
      <3> QED BY <3>1, <3>2
    <2> QED BY <1>1, <1>6, <2>1, <2>2, SeqEqual, ZenonT(30)
  <1>8. Fed(t, c, off) = before
    <2>1. [i \in 1..PadOf(off) |-> Zero] = << >>
      BY <1>1
    <2>2. Fed(t, c, off) = before \o [i \in 1..PadOf(off) |-> Zero]
      BY <1>3 DEF Fed, IsAes
    <2> QED BY <2>1, <2>2, ConcatEmptySeq
  <1>9. Fed(t, c, off + n) = (before \o head) \o zeros
    <2>1. before \o head = Bytes(t, "in", 0, off + n)
      BY <1>0, <1>3, <1>4, BytesJoin
    <2> QED BY <1>1, <1>5, <2>1 DEF Fed, IsAes
  <1>10. (before \o head) \o zeros = before \o (head \o zeros)
    BY <1>3, <1>4, <1>5, ConcatAssociative, SMTT(30)
  <1> QED BY <1>1, <1>6, <1>7, <1>8, <1>9, <1>10

-----------------------------------------------------------------------------
(* The steps of the one call there is *)

\* A call that is over, or none, has done its work unless it answered Ok.
LEMMA IdleWork ==
  ASSUME NEW t \in Threads, NEW c \in CallType, c.pc = "idle", c.st = "Ok" => Right(t, c),
         NEW s, NEW a
  PROVE  Work(t, c, s, a)
  BY DEF Work

\* While t is inside a call the other threads are not, and their calls, which
\* are over, depend on no buffer: a step of t has to do only its own work.
LEMMA LockStep ==
  ASSUME LockInv, NEW t \in Threads, ~Free(t), NEW c \in CallType, Becomes(t, c),
         FitInv', Work(t, c, scratch', area')
  PROVE  LockInv'
  <1>1. ASSUME NEW u \in Threads, u # t
        PROVE  call'[u] = call[u] /\ call'[u] \in CallType /\ call'[u].pc = "idle"
    BY <1>1 DEF LockInv, OneCall, Free, Becomes
  <1>2. OneCall'
    BY <1>1 DEF OneCall, Free
  <1>3. ASSUME NEW u \in Threads PROVE Work(u, call'[u], scratch', area')
    <2>1. CASE u = t
      BY <2>1 DEF Becomes
    <2>2. CASE u # t
      <3>1. call'[u].st = "Ok" => Right(u, call'[u])
        BY <1>1, <2>2 DEF LockInv, Work
      <3> QED BY <1>1, <2>2, <3>1, IdleWork
    <2> QED BY <2>1, <2>2
  <1> QED BY <1>2, <1>3 DEF LockInv

\* A call that returns anything but Ok.
LEMMA LeaveWork ==
  ASSUME LockInv, NEW t \in Threads, ~Free(t), NEW st \in Answers \ {"Ok"}, Leave(t, st),
         FitInv'
  PROVE  LockInv'
  <1> DEFINE c == [call[t] EXCEPT !.pc = "idle", !.st = st]
  <1>1. Types /\ call[t] \in CallType
    BY DEF LockInv, FitInv, Types
  <1>2. Becomes(t, c) /\ c \in CallType
    BY <1>1, Edits DEF CallType, PCs
  <1>3. c.pc = "idle" /\ c.st # "Ok"
    BY <1>1 DEF CallType
  <1>4. Work(t, c, scratch', area')
    BY <1>2, <1>3, IdleWork
  <1> QED BY <1>2, <1>4, LockStep

\* What a call that goes on keeps of what it has fed and returned.
LEMMA SameFed ==
  ASSUME NEW t \in Threads, NEW c \in CallType, NEW d \in CallType,
         d.op = c.op, d.k = c.k, d.n = c.n
  PROVE  /\ (IsAes(d) <=> IsAes(c)) /\ \A n \in Nat : Fed(t, d, n) = Fed(t, c, n)
         /\ d.off = c.off => Chunk(d) = Chunk(c) /\ Padded(d) = Padded(c)
         /\ \A n : d.fed = c.fed /\ d.out = c.out /\ Done(t, c, n) => Done(t, d, n)
  <1>1. (IsAes(d) <=> IsAes(c)) /\ \A n : Fed(t, d, n) = Fed(t, c, n)
    BY DEF IsAes, Fed
  <1>2. d.off = c.off => Chunk(d) = Chunk(c)
    BY DEF Chunk, Step
  <1>3. d.off = c.off => Padded(d) = Padded(c)
    BY <1>1, <1>2 DEF Padded
  <1>4. \A n : d.fed = c.fed /\ d.out = c.out /\ Done(t, c, n) => Done(t, d, n)
    BY <1>1 DEF Done
  <1> QED BY <1>1, <1>2, <1>3, <1>4

\* What a thread inside a call has to know of it.
LEMMA Inside ==
  ASSUME LockInv, NEW t \in Threads
  PROVE  /\ Types /\ FitInv /\ call[t] \in CallType /\ call \in [Threads -> CallType]
         /\ Sound(call[t]) /\ Work(t, call[t], scratch, area)
         /\ call[t].pc # "idle" => ~Free(t) /\ call[t].st # "Ok"
  <1>1. /\ Types /\ FitInv /\ call[t] \in CallType /\ call \in [Threads -> CallType]
        /\ Sound(call[t]) /\ Work(t, call[t], scratch, area)
    BY DEF LockInv, FitInv, Types
  <1> QED BY <1>1 DEF Work, Free

\* HMAC's key is in the scratch, or on the stack.
LEMMA CopyKeyWork ==
  ASSUME KeysFit, LockInv, NEW t \in Threads, CopyKey(t), FitInv', UNCHANGED area
  PROVE  LockInv'
  <1> DEFINE c == [call[t] EXCEPT !.pc = "init"]
  <1>0. /\ call[t].pc = "key" /\ call[t].op = "hmac" /\ call[t].k \in KeyLens
        /\ call[t].k <= KeyLimit /\ call[t].k \in Nat /\ call[t].out = <<>>
    BY Inside DEF CopyKey, Sound, CallType, Work
  <1>1. Becomes(t, c)
    BY Inside, Edits DEF CopyKey, PCs
  <1>2. /\ c \in CallType /\ c.pc = "init" /\ c.k = call[t].k /\ c.st # "Ok" /\ c.out = <<>>
    BY <1>0, Inside DEF CallType, PCs
  <1>3. KeyRam < call[t].k => InScratch(scratch', t, "key", 0, call[t].k)
    <2> SUFFICES ASSUME KeyRam < call[t].k
                 PROVE  InScratch(scratch', t, "key", 0, call[t].k)
      OBVIOUS
    <2>1. call[t].k <= Scratch /\ ~(call[t].k <= KeyRam)
      BY <1>0, Sizes DEF KeysFit
    <2>2. "key" \in BufferNames /\ 0 \in Nat
      BY DEF BufferNames
    <2>3. PICK bytes \in Seq(Byte) :
            /\ bytes = Bytes(t, "key", 0, call[t].k) /\ Len(bytes) = call[t].k
            /\ \A i \in 1..call[t].k : bytes[i] = <<t, "key", 0 + i>>
      BY <1>0, <2>2, BytesFacts
    <2>4. Write(0, bytes)
      BY <2>1, <2>3 DEF CopyKey
    <2>5. \A i \in 1..Len(bytes) : 0 + i <= Scratch => scratch'[0 + i] = bytes[i]
      BY <2>2, <2>3, <2>4, Inside, WriteFacts
    <2>6. \A i \in 1..call[t].k : 0 + i <= Scratch /\ 0 + i = i
      BY <1>0, <2>1, Sizes
    <2> QED BY <2>3, <2>5, <2>6 DEF InScratch
  <1>4. Work(t, c, scratch', area')
    BY <1>2, <1>3 DEF Work
  <1> QED BY <1>0, <1>1, <1>2, <1>4, Inside, LockStep

\* CRYS_HMAC_Init reads the key it was given.
LEMMA HmacInitWork ==
  ASSUME KeysFit, LockInv, NEW t \in Threads, HmacInit(t), FitInv', UNCHANGED area
  PROVE  LockInv'
  <1>0. /\ call[t].pc = "init" /\ call[t].op = "hmac" /\ call[t].k \in KeyLens
        /\ call[t].k <= KeyLimit /\ call[t].k \in Nat /\ call[t].out = <<>> /\ call[t].off = 0
        /\ KeyRam < call[t].k => InScratch(scratch, t, "key", 0, call[t].k)
    BY Inside DEF HmacInit, Sound, CallType, Work
  <1>1. PICK key \in Seq(Byte) : key = Bytes(t, "key", 0, call[t].k)
    <2>1. "key" \in BufferNames /\ 0 \in Nat
      BY DEF BufferNames
    <2> QED BY <1>0, <2>1, BytesFacts
  <1>2. (IF call[t].k <= KeyRam THEN Bytes(t, "key", 0, call[t].k) ELSE Read(0, call[t].k)) = key
    <2>1. CASE call[t].k <= KeyRam
      BY <1>1, <2>1
    <2>2. CASE ~(call[t].k <= KeyRam)
      <3>1. KeyRam < call[t].k /\ call[t].k <= Scratch
        BY <1>0, <2>2, Sizes DEF KeysFit
      <3>2. "key" \in BufferNames /\ 0 \in Nat
        BY DEF BufferNames
      <3>3. Read(0, call[t].k) = Bytes(t, "key", 0, call[t].k)
        BY <1>0, <3>1, <3>2, Inside, ReadBack
      <3> QED BY <1>1, <2>2, <3>3
    <2> QED BY <2>1, <2>2
  <1>3. CASE call' = [call EXCEPT ![t].pc = "loop", ![t].fed = key]
    <2> DEFINE c == [call[t] EXCEPT !.pc = "loop", !.fed = key]
    <2>1. /\ c \in CallType /\ c.op = "hmac" /\ c.pc = "loop" /\ c.fed = key
          /\ c.off = 0 /\ c.k = call[t].k /\ c.st # "Ok"
      BY <1>0, <1>1, Inside, ZenonT(30) DEF CallType, PCs
    <2>2. Becomes(t, c)
      BY <1>3, <2>1, Inside DEF Becomes
    <2>3. Done(t, c, c.off)
      BY <1>1, <2>1, FedNothing DEF Done, IsAes
    <2>4. Work(t, c, scratch', area')
      BY <2>1, <2>3 DEF Work
    <2> QED BY <1>0, <2>1, <2>2, <2>4, Inside, LockStep
  <1>4. CASE Leave(t, "InternalError")
    BY <1>0, <1>4, Inside, LeaveWork DEF Answers
  <1> QED BY <1>2, <1>3, <1>4 DEF HmacInit

\* An input of HKDF goes to the stack, or alone to the scratch.
LEMMA CopyInputWork ==
  ASSUME HkdfOneLong, LockInv, NEW t \in Threads,
         NEW b \in {"ikm", "salt", "info"}, NEW j \in 1..3,
         NEW next \in {"salt", "info", "derive"},
         \/ b = "ikm" /\ j = 1 /\ next = "salt"
         \/ b = "salt" /\ j = 2 /\ next = "info"
         \/ b = "info" /\ j = 3 /\ next = "derive",
         CopyInput(t, b, j, next), FitInv', UNCHANGED area
  PROVE  LockInv'
  <1> DEFINE c == [call[t] EXCEPT !.pc = next]
  <1>0. /\ call[t].pc = b /\ call[t].pc # "idle" /\ call[t].hk \in HkdfLens
        /\ \A i \in 1..3 : call[t].hk[i] \in Nat
        /\ b \in BufferNames /\ 0 \in Nat /\ next \in PCs
    BY Inside DEF CopyInput, Sound, CallType, BufferNames, PCs
  <1>1. CASE Leave(t, "BadParam")
    BY <1>0, <1>1, Inside, LeaveWork DEF Answers
  <1>2. CASE ~Leave(t, "BadParam")
    <2>1. Go(t, next)
      BY <1>2 DEF CopyInput
    <2>2. Becomes(t, c)
      BY <1>0, <2>1, Inside, Edits
    <2>3. c \in CallType /\ c.pc = next /\ c.hk = call[t].hk /\ c.st # "Ok"
      BY <1>0, Inside DEF CallType
    <2>4. HasInput(t, c, scratch', b, j)
      <3> SUFFICES ASSUME KeyRam < call[t].hk[j]
                   PROVE  call[t].hk[j] <= Scratch
                          /\ InScratch(scratch', t, b, 0, call[t].hk[j])
        BY <2>3 DEF HasInput
      <3>1. /\ call[t].hk[j] <= Scratch /\ Write(0, Bytes(t, b, 0, call[t].hk[j]))
        BY <1>0, <1>2, Sizes DEF CopyInput
      <3>2. PICK n \in Nat : n = call[t].hk[j]
        BY <1>0
      <3>3. PICK bytes \in Seq(Byte) :
              /\ bytes = Bytes(t, b, 0, n) /\ Len(bytes) = n
              /\ \A i \in 1..n : bytes[i] = <<t, b, 0 + i>>
        BY <1>0, BytesFacts
      <3>4. \A i \in 1..Len(bytes) : 0 + i <= Scratch => scratch'[0 + i] = bytes[i]
        <4>1. Write(0, bytes)
          BY <3>1, <3>2, <3>3
        <4> QED BY <1>0, <3>3, <4>1, Inside, WriteFacts
      <3>5. \A i \in 1..n : 0 + i <= Scratch /\ 0 + i = i
        BY <3>1, <3>2, Sizes
      <3> QED BY <3>1, <3>2, <3>3, <3>4, <3>5 DEF InScratch
    <2>5. ASSUME NEW d \in {"ikm", "salt"}, NEW i \in 1..2, i < j,
                 HasInput(t, call[t], scratch, d, i)
          PROVE  HasInput(t, c, scratch', d, i)
      <3> SUFFICES ASSUME KeyRam < call[t].hk[i]
                   PROVE  HasInput(t, c, scratch', d, i)
        BY <2>3 DEF HasInput
      <3>1. ~(KeyRam < call[t].hk[j])
        <4>1. i \in 1..3 /\ i # j
          BY <2>5
        <4> QED BY <1>0, <4>1 DEF HkdfOneLong
      <3>2. UNCHANGED scratch
        BY <1>0, <1>2, <3>1 DEF CopyInput
      <3> QED BY <2>3, <2>5, <3>2 DEF HasInput
    <2>6. Work(t, call[t], scratch, area)
      BY Inside
    <2>7. Work(t, c, scratch', area')
      <3>1. CASE b = "ikm"
        BY <2>3, <2>4, <3>1 DEF Work
      <3>2. CASE b = "salt"
        <4>1. HasInput(t, call[t], scratch, "ikm", 1)
          BY <1>0, <2>6, <3>2 DEF Work
        <4>2. HasInput(t, c, scratch', "ikm", 1)
          BY <2>5, <3>2, <4>1
        <4> QED BY <2>3, <2>4, <3>2, <4>2 DEF Work
      <3>3. CASE b = "info"
        <4>1. HasInput(t, call[t], scratch, "ikm", 1) /\ HasInput(t, call[t], scratch, "salt", 2)
          BY <1>0, <2>6, <3>3 DEF Work
        <4>2. HasInput(t, c, scratch', "ikm", 1) /\ HasInput(t, c, scratch', "salt", 2)
          BY <2>5, <3>3, <4>1
        <4> QED BY <2>3, <2>4, <3>3, <4>2 DEF Work
      <3> QED BY <3>1, <3>2, <3>3
    <2> QED BY <1>0, <2>2, <2>3, <2>7, Inside, LockStep
  <1> QED BY <1>1, <1>2

\* CRYS_HKDF_KeyDerivFunc reads the three inputs where they were put.
LEMMA DeriveWork ==
  ASSUME LockInv, NEW t \in Threads, Derive(t), FitInv', UNCHANGED area
  PROVE  LockInv'
  <1>0. /\ call[t].pc = "derive" /\ call[t].pc # "idle" /\ call[t].op = "hkdf"
        /\ \A i \in 1..3 : call[t].hk[i] \in Nat
        /\ HasInput(t, call[t], scratch, "ikm", 1)
        /\ HasInput(t, call[t], scratch, "salt", 2)
        /\ HasInput(t, call[t], scratch, "info", 3)
    <2>1. call[t].pc = "derive" /\ call[t].op = "hkdf"
      BY Inside DEF Derive, Sound
    <2>2. call[t].hk \in Nat \X Nat \X Nat
      BY Inside DEF CallType
    <2>3. /\ HasInput(t, call[t], scratch, "ikm", 1)
          /\ HasInput(t, call[t], scratch, "salt", 2)
          /\ HasInput(t, call[t], scratch, "info", 3)
      BY <2>1, Inside DEF Work
    <2> QED BY <2>1, <2>2, <2>3
  <1>1. ASSUME NEW b \in BufferNames, NEW j \in 1..3, HasInput(t, call[t], scratch, b, j)
        PROVE  /\ Input(t, b, j) = Bytes(t, b, 0, call[t].hk[j])
               /\ Bytes(t, b, 0, call[t].hk[j]) \in Seq(Byte)
    <2>1. call[t].hk[j] \in Nat /\ 0 \in Nat
      BY <1>0
    <2>2. CASE call[t].hk[j] <= KeyRam
      BY <2>1, <2>2, BytesFacts DEF Input
    <2>3. CASE ~(call[t].hk[j] <= KeyRam)
      <3>1. /\ call[t].hk[j] <= Scratch /\ InScratch(scratch, t, b, 0, call[t].hk[j])
        BY <1>1, <2>1, <2>3, Sizes DEF HasInput
      <3>2. Read(0, call[t].hk[j]) = Bytes(t, b, 0, call[t].hk[j])
        BY <2>1, <3>1, Inside, ReadBack
      <3> QED BY <2>1, <2>3, <3>2, BytesFacts DEF Input
    <2> QED BY <2>2, <2>3
  <1>2. "ikm" \in BufferNames /\ "salt" \in BufferNames /\ "info" \in BufferNames
    BY DEF BufferNames
  <1>3. PICK ikm \in Seq(Byte), salt \in Seq(Byte), info \in Seq(Byte) :
          /\ ikm = Bytes(t, "ikm", 0, call[t].hk[1]) /\ ikm = Input(t, "ikm", 1)
          /\ salt = Bytes(t, "salt", 0, call[t].hk[2]) /\ salt = Input(t, "salt", 2)
          /\ info = Bytes(t, "info", 0, call[t].hk[3]) /\ info = Input(t, "info", 3)
    BY <1>0, <1>1, <1>2
  <1>4. PICK all \in Seq(Byte) : all = ikm \o salt \o info
    <2>1. PICK both \in Seq(Byte) : both = ikm \o salt
      BY <1>3, Joined
    <2>2. both \o info \in Seq(Byte)
      BY <1>3, <2>1, Joined
    <2> QED BY <2>1, <2>2
  <1>5. CASE call' = [call EXCEPT ![t].pc = "idle", ![t].st = "Ok", ![t].fed = all]
    <2> DEFINE c == [call[t] EXCEPT !.pc = "idle", !.st = "Ok", !.fed = all]
    <2>1. /\ c \in CallType /\ c.op = "hkdf" /\ c.pc = "idle" /\ c.fed = all /\ c.hk = call[t].hk
      BY <1>0, <1>4, Inside, ZenonT(30) DEF CallType, PCs, Answers
    <2>2. Becomes(t, c)
      BY <1>5, <2>1, Inside DEF Becomes
    <2>3. Right(t, c)
      BY <1>3, <1>4, <2>1 DEF Right, LoopOps, P256, IsAes
    <2>4. Work(t, c, scratch', area')
      BY <2>1, <2>3, IdleWork
    <2> QED BY <1>0, <2>1, <2>2, <2>4, Inside, LockStep
  <1>6. CASE Leave(t, "InternalError")
    BY <1>0, <1>6, Inside, LeaveWork DEF Answers
  <1> QED BY <1>3, <1>4, <1>5, <1>6 DEF Derive

\* memcpy into the bounce buffer: the chunk and its padding are in the scratch.
LEMMA CopyInWork ==
  ASSUME LockInv, NEW t \in Threads, CopyIn(t), FitInv', UNCHANGED area
  PROVE  LockInv'
  <1> DEFINE c == [call[t] EXCEPT !.pc = "engine"]
  <1>0. /\ call[t].pc = "loop" /\ call[t].pc # "idle" /\ call[t].op # "random"
        /\ call[t].op \in LoopOps /\ call[t].off <= call[t].n
        /\ Done(t, call[t], call[t].off)
    BY Inside DEF CopyIn, Sound, Work
  <1>1. Becomes(t, c)
    BY Inside, Edits DEF CopyIn, PCs
  <1>2. /\ c \in CallType /\ c.pc = "engine" /\ c.st # "Ok"
        /\ c.op = call[t].op /\ c.k = call[t].k /\ c.n = call[t].n /\ c.off = call[t].off
        /\ c.fed = call[t].fed /\ c.out = call[t].out
    BY <1>0, Inside DEF CallType, PCs
  <1>3. PICK bytes \in Seq(Byte), m \in Nat, p \in Nat :
          /\ m = Chunk(call[t]) /\ p = Padded(call[t]) /\ p <= Scratch /\ m <= p
          /\ Len(bytes) = p /\ Write(0, bytes)
          /\ \A i \in 1..m : bytes[i] = <<t, "in", call[t].off + i>>
          /\ \A i \in 1..p : m < i => bytes[i] = Zero
    <2>1. /\ Chunk(call[t]) \in Nat /\ Padded(call[t]) \in Nat /\ Chunk(call[t]) <= Padded(call[t])
          /\ Padded(call[t]) <= Scratch
      BY <1>0, Inside, ChunkFacts DEF Sound
    <2> QED BY <1>0, <2>1, Inside, CopiedFacts, ZenonT(30) DEF CopyIn
  <1>4. \A i \in 1..p : scratch'[i] = bytes[i]
    <2>0. 0 \in Nat
      OBVIOUS
    <2>1. \A i \in 1..Len(bytes) : 0 + i <= Scratch => scratch'[0 + i] = bytes[i]
      BY <1>3, <2>0, Inside, WriteFacts
    <2>2. \A i \in 1..p : 0 + i <= Scratch /\ 0 + i = i
      BY <1>3, Sizes
    <2> QED BY <1>3, <2>1, <2>2
  <1>5. Chunk(c) = m /\ Padded(c) = p /\ Done(t, c, c.off)
    BY <1>0, <1>2, <1>3, Inside, SameFed
  <1>6. /\ InScratch(scratch', t, "in", c.off, Chunk(c))
        /\ \A i \in 1..Padded(c) : Chunk(c) < i => scratch'[i] = Zero
    <2>1. \A i \in 1..m : i \in 1..p
      BY <1>3
    <2> QED BY <1>2, <1>3, <1>4, <1>5, <2>1 DEF InScratch
  <1>7. Work(t, c, scratch', area')
    BY <1>2, <1>5, <1>6 DEF Work
  <1> QED BY <1>0, <1>1, <1>2, <1>7, Inside, LockStep

\* The library takes the chunk.
LEMMA EngineWork ==
  ASSUME LockInv, NEW t \in Threads, Engine(t), FitInv', UNCHANGED area
  PROVE  LockInv'
  <1>0. /\ call[t].pc = "engine" /\ call[t].pc # "idle" /\ ~IsAes(call[t])
        /\ call[t].op \in LoopOps /\ call[t].off \in Nat /\ call[t].op # "random"
        /\ call[t].fed = Fed(t, call[t], call[t].off)
        /\ InScratch(scratch, t, "in", call[t].off, Chunk(call[t]))
    BY Inside DEF Engine, Sound, Work, Done, CallType
  <1>1. PICK m \in Nat, off \in Nat :
          m = Chunk(call[t]) /\ m <= Scratch /\ off = call[t].off + Chunk(call[t])
    BY <1>0, Inside, ChunkFacts DEF Sound
  <1>2. Read(0, m) = Bytes(t, "in", call[t].off, m)
    <2>1. "in" \in BufferNames
      BY DEF BufferNames
    <2> QED BY <1>0, <1>1, <2>1, Inside, ReadBack
  <1>3. PICK fed \in Seq(Byte) :
          fed = call[t].fed \o Read(0, m) /\ fed = Fed(t, call[t], off)
    <2>1. Fed(t, call[t], call[t].off) \o Bytes(t, "in", call[t].off, m) = Fed(t, call[t], off)
      BY <1>0, <1>1, Inside, FedStep
    <2>2. Read(0, m) \in Seq(Byte) /\ call[t].fed \in Seq(Byte) /\ 0 \in Nat
      BY <1>1, Inside, ReadFacts DEF CallType
    <2>3. call[t].fed \o Read(0, m) \in Seq(Byte)
      BY <2>2, Joined
    <2> QED BY <1>0, <1>2, <2>1, <2>3
  <1>4. CASE call' = [call EXCEPT ![t].pc = "loop", ![t].off = off, ![t].fed = fed]
    <2> DEFINE c == [call[t] EXCEPT !.pc = "loop", !.off = off, !.fed = fed]
    <2>1. /\ c \in CallType /\ c.op = call[t].op /\ c.k = call[t].k /\ c.n = call[t].n
          /\ c.pc = "loop" /\ c.off = off /\ c.fed = fed /\ c.st # "Ok"
      BY <1>0, <1>1, <1>3, Inside, ZenonT(30) DEF CallType, PCs
    <2>2. Becomes(t, c)
      BY <1>4, <2>1, Inside DEF Becomes
    <2>3. Done(t, c, c.off)
      <3>0. \A n \in Nat : Fed(t, c, n) = Fed(t, call[t], n)
        BY <2>1, Inside, SameFed
      <3>1. ~IsAes(c) /\ Fed(t, c, off) = Fed(t, call[t], off)
        BY <1>0, <1>1, <2>1, <3>0 DEF IsAes
      <3> QED BY <1>3, <2>1, <3>1 DEF Done
    <2>4. Work(t, c, scratch', area')
      BY <2>1, <2>3 DEF Work
    <2> QED BY <1>0, <2>1, <2>2, <2>4, Inside, LockStep
  <1>5. CASE Leave(t, "InternalError")
    BY <1>0, <1>5, Inside, LeaveWork DEF Answers
  <1> QED BY <1>1, <1>3, <1>4, <1>5 DEF Engine

\* What an AES mode returns is a sequence of bytes.
LEMMA ReturnedFacts ==
  ASSUME NEW t \in Threads, NEW n \in Nat
  PROVE  /\ Returned(t, n) \in Seq(Byte) /\ Len(Returned(t, n)) = n
         /\ \A i \in 1..n : Returned(t, n)[i] = Enc(<<t, "in", i>>)
  <1>1. "in" \in BufferNames
    BY DEF BufferNames
  <1>2. \A i \in 1..n : Enc(<<t, "in", i>>) \in Byte
    BY <1>1, ByteFacts
  <1> QED BY <1>2 DEF Returned

\* SaSi_AesBlock: the padded chunk is taken from the input half and its image
\* is put in the output half.
LEMMA AesEngineWork ==
  ASSUME LockInv, NEW t \in Threads, AesEngine(t), FitInv', UNCHANGED area
  PROVE  LockInv'
  <1>0. /\ call[t].pc = "engine" /\ call[t].pc # "idle" /\ IsAes(call[t])
        /\ call[t].op \in LoopOps /\ call[t].off \in Nat /\ call[t].off < call[t].n
        /\ call[t].fed = Fed(t, call[t], call[t].off)
        /\ call[t].out = Returned(t, call[t].off) /\ Whole(call[t].off)
        /\ InScratch(scratch, t, "in", call[t].off, Chunk(call[t]))
        /\ \A i \in 1..Padded(call[t]) : Chunk(call[t]) < i => scratch[i] = Zero
    <2>1. call[t].pc = "engine" /\ IsAes(call[t])
      BY DEF AesEngine
    <2>2. call[t].op \in LoopOps /\ call[t].off \in Nat /\ call[t].off < call[t].n
      BY <2>1, Inside DEF Sound, CallType
    <2>3. Done(t, call[t], call[t].off)
      BY <2>1, Inside DEF Work
    <2>4. /\ InScratch(scratch, t, "in", call[t].off, Chunk(call[t]))
          /\ \A i \in 1..Padded(call[t]) : Chunk(call[t]) < i => scratch[i] = Zero
      BY <2>1, Inside DEF Work
    <2> QED BY <2>1, <2>2, <2>3, <2>4 DEF Done
  <1>1. PICK m \in Nat, p \in Nat, off \in Nat :
          /\ m = Chunk(call[t]) /\ p = Padded(call[t]) /\ m <= p /\ Half + p <= Scratch
          /\ off = call[t].off /\ Half \in Nat
    BY <1>0, Inside, ChunkFacts, HalfFacts DEF Sound
  <1>2. PICK in \in Seq(Byte) :
          /\ in = Read(0, p) /\ Len(in) = p /\ \A i \in 1..p : in[i] = scratch[i]
    <2>1. \A i \in 1..p : 0 + i <= Scratch /\ 0 + i = i
      BY <1>1, Sizes
    <2>2. 0 \in Nat
      OBVIOUS
    <2>3. /\ Read(0, p) \in Seq(Byte) /\ Len(Read(0, p)) = p
          /\ \A i \in 1..p : 0 + i <= Scratch => Read(0, p)[i] = scratch[0 + i]
      BY <1>1, <2>2, Inside, ReadFacts
    <2> QED BY <2>1, <2>3
  <1>3. PICK fed \in Seq(Byte) :
          fed = call[t].fed \o in /\ fed = Fed(t, call[t], off + m)
    <2>1. Fed(t, call[t], call[t].off) \o Read(0, Padded(call[t]))
            = Fed(t, call[t], call[t].off + Chunk(call[t]))
      BY <1>0, Inside, AesFedStep
    <2>2. call[t].fed \o in \in Seq(Byte)
      BY <1>2, Inside, Joined DEF CallType
    <2> QED BY <1>0, <1>1, <1>2, <2>1, <2>2
  <1>4. CASE /\ call' = [call EXCEPT ![t].pc = "copyOut", ![t].fed = fed]
             /\ Write(Half, [i \in 1..Len(in) |-> Enc(in[i])])
    <2> DEFINE c == [call[t] EXCEPT !.pc = "copyOut", !.fed = fed]
    <2>1. /\ c \in CallType /\ c.op = call[t].op /\ c.k = call[t].k /\ c.n = call[t].n
          /\ c.pc = "copyOut" /\ c.off = call[t].off /\ c.fed = fed
          /\ c.out = call[t].out /\ c.st # "Ok"
      BY <1>0, <1>3, Inside, ZenonT(30) DEF CallType, PCs
    <2>2. Becomes(t, c)
      BY <1>4, <2>1, Inside DEF Becomes
    <2>3. \A n \in Nat : Fed(t, c, n) = Fed(t, call[t], n)
      BY <2>1, Inside, SameFed
    <2>4. Chunk(c) = m
      BY <1>1, <2>1, Inside, SameFed
    <2>5. \A i \in 1..m : scratch'[Half + i] = Enc(<<t, "in", off + i>>)
      <3>1. PICK out \in Seq(Byte) :
              /\ Len(out) = p /\ Write(Half, out) /\ \A i \in 1..p : out[i] = Enc(in[i])
        BY <1>2, <1>4, EncFacts
      <3>2. \A i \in 1..Len(out) : Half + i <= Scratch => scratch'[Half + i] = out[i]
        BY <1>1, <3>1, Inside, WriteFacts
      <3>3. ASSUME NEW i \in 1..m PROVE scratch'[Half + i] = Enc(<<t, "in", off + i>>)
        <4>1. i \in 1..p /\ Half + i <= Scratch
          BY <1>1, Sizes
        <4>2. in[i] = <<t, "in", off + i>>
          BY <1>0, <1>1, <1>2, <4>1 DEF InScratch
        <4> QED BY <3>1, <3>2, <4>1, <4>2
      <3> QED BY <3>3
    <2>6. c.fed = Fed(t, c, c.off + Chunk(c))
      BY <1>1, <1>3, <2>1, <2>3, <2>4
    <2>7. Work(t, c, scratch', area')
      BY <1>0, <1>1, <2>1, <2>4, <2>5, <2>6 DEF Work
    <2> QED BY <1>0, <2>1, <2>2, <2>7, Inside, LockStep
  <1>5. CASE Leave(t, "InternalError")
    BY <1>0, <1>5, Inside, LeaveWork DEF Answers
  <1> QED BY <1>1, <1>2, <1>3, <1>4, <1>5 DEF AesEngine

\* memcpy out of the output half: what is returned goes on where it was, and
\* a pass that is not the last copies whole blocks.
LEMMA CopyOutWork ==
  ASSUME LockInv, NEW t \in Threads, CopyOut(t), FitInv', UNCHANGED area
  PROVE  LockInv'
  <1>0. /\ call[t].pc = "copyOut" /\ call[t].pc # "idle" /\ IsAes(call[t])
        /\ call[t].op \in LoopOps /\ call[t].off \in Nat /\ call[t].n \in Nat
        /\ call[t].fed = Fed(t, call[t], call[t].off + Chunk(call[t]))
        /\ call[t].out = Returned(t, call[t].off) /\ Whole(call[t].off)
        /\ \A i \in 1..Chunk(call[t]) :
             scratch[Half + i] = Enc(<<t, "in", call[t].off + i>>)
    <2>1. call[t].pc = "copyOut"
      BY DEF CopyOut
    <2>2. call[t].op \in LoopOps /\ call[t].off \in Nat /\ call[t].n \in Nat /\ IsAes(call[t])
      BY <2>1, Inside DEF Sound, CallType
    <2> QED BY <2>1, <2>2, Inside DEF Work
  <1>01. PICK m \in Nat, off \in Nat :
          /\ m = Chunk(call[t]) /\ off = call[t].off /\ Half + m <= Scratch /\ Half \in Nat
    <2>1. /\ Chunk(call[t]) \in Nat /\ Padded(call[t]) \in Nat /\ Half \in Nat
          /\ Chunk(call[t]) <= Padded(call[t]) /\ Half + Padded(call[t]) <= Scratch
      BY <1>0, Inside, ChunkFacts, HalfFacts DEF Sound
    <2> QED BY <1>0, <2>1, Sizes
  <1>02. PICK next \in Nat : next = off + m
    BY <1>01
  <1>1. /\ m = Chunk(call[t]) /\ off = call[t].off /\ next = call[t].off + Chunk(call[t])
        /\ Half + m <= Scratch /\ Half \in Nat
    BY <1>01, <1>02
  <1>2. PICK got \in Seq(Byte) :
          /\ got = Read(Half, m) /\ Len(got) = m
          /\ \A i \in 1..m : got[i] = Enc(<<t, "in", off + i>>)
    <2>1. \A i \in 1..m : Half + i <= Scratch
      BY <1>1, Sizes
    <2>2. /\ Read(Half, m) \in Seq(Byte) /\ Len(Read(Half, m)) = m
          /\ \A i \in 1..m : Half + i <= Scratch => Read(Half, m)[i] = scratch[Half + i]
      BY <1>1, Inside, ReadFacts
    <2> QED BY <1>0, <1>1, <2>1, <2>2
  <1>3. PICK out \in Seq(Byte) : out = call[t].out \o got /\ out = Returned(t, next)
    <2>2. PICK before \in Seq(Byte) :
            /\ before = call[t].out /\ Len(before) = off
            /\ \A i \in 1..off : before[i] = Enc(<<t, "in", i>>)
      BY <1>0, <1>01, ReturnedFacts
    <2>3. PICK after \in Seq(Byte) :
            /\ after = before \o got /\ Len(after) = Len(before) + Len(got)
            /\ \A i \in 1..Len(before) : after[i] = before[i]
            /\ \A i \in 1..Len(got) : after[Len(before) + i] = got[i]
      BY <1>2, <2>2, Joined, ZenonT(30)
    <2>4. ASSUME NEW i \in 1..next PROVE after[i] = Enc(<<t, "in", i>>)
      <3>1. CASE i <= off
        <4>1. i \in 1..off
          BY <3>1
        <4> QED BY <2>2, <2>3, <4>1
      <3>2. CASE ~(i <= off)
        <4>1. i - off \in 1..m /\ off + (i - off) = i
          BY <1>02, <3>2
        <4>2. after[off + (i - off)] = got[i - off]
          BY <1>2, <2>2, <2>3, <4>1
        <4>3. got[i - off] = Enc(<<t, "in", off + (i - off)>>)
          BY <1>2, <4>1
        <4> QED BY <4>1, <4>2, <4>3
      <3> QED BY <3>1, <3>2
    <2>5. Len(after) = next
      BY <1>02, <1>2, <2>2, <2>3
    <2>6. after = Returned(t, next)
      <3>1. PICK all \in Seq(Byte) :
              /\ all = Returned(t, next) /\ Len(all) = next
              /\ \A i \in 1..next : all[i] = Enc(<<t, "in", i>>)
        BY <1>02, ReturnedFacts
      <3>2. Len(after) = Len(all) /\ \A i \in 1..Len(after) : after[i] = all[i]
        BY <2>4, <2>5, <3>1
      <3>3. after = all
        BY <2>3, <3>1, <3>2, SeqEqual
      <3> QED BY <3>1, <3>3
    <2> QED BY <2>2, <2>3, <2>6
  <1>4. next < call[t].n => Whole(next)
    <2> SUFFICES ASSUME next < call[t].n PROVE Whole(next)
      OBVIOUS
    <2>1. m = Half
      BY <1>0, <1>01, <1>02 DEF Chunk, SmallerOf, Step, IsAes
    <2>2. PICK p \in Nat, q \in Nat : off = p * AesBlock /\ Half = q * AesBlock
      BY <1>0, <1>1, HalfFacts DEF Whole
    <2>3. (p + q) * AesBlock = p * AesBlock + q * AesBlock
      BY <2>2, Sizes, Blocks
    <2>4. p + q \in Nat /\ next = (p + q) * AesBlock
      BY <1>02, <2>1, <2>2, <2>3
    <2> QED BY <2>4 DEF Whole
  <1> DEFINE c == [call[t] EXCEPT !.pc = "loop", !.off = next, !.out = out]
  <1>5. /\ c \in CallType /\ c.op = call[t].op /\ c.k = call[t].k /\ c.n = call[t].n
        /\ c.pc = "loop" /\ c.off = next /\ c.fed = call[t].fed /\ c.out = out /\ c.st # "Ok"
    BY <1>0, <1>1, <1>3, Inside, ZenonT(30) DEF CallType, PCs
  <1>6. Becomes(t, c)
    <2>1. call' = [call EXCEPT ![t].pc = "loop", ![t].off = next, ![t].out = out]
      BY <1>1, <1>2, <1>3 DEF CopyOut
    <2> QED BY <1>5, <2>1, Inside DEF Becomes
  <1>7. Done(t, c, c.off)
    <2>0. \A n \in Nat : Fed(t, c, n) = Fed(t, call[t], n)
      BY <1>5, Inside, SameFed
    <2>1. Fed(t, c, next) = Fed(t, call[t], next)
      BY <2>0
    <2> QED BY <1>0, <1>1, <1>3, <1>4, <1>5, <2>1 DEF Done
  <1>8. Work(t, c, scratch', area')
    BY <1>5, <1>7 DEF Work
  <1> QED BY <1>0, <1>5, <1>6, <1>8, Inside, LockStep

\* randomBytes fills the next chunk.
LEMMA GenerateWork ==
  ASSUME LockInv, NEW t \in Threads, Generate(t), FitInv', UNCHANGED area
  PROVE  LockInv'
  <1>0. /\ call[t].pc = "loop" /\ call[t].pc # "idle" /\ call[t].op = "random"
        /\ ~IsAes(call[t]) /\ call[t].off \in Nat
        /\ call[t].fed = Fed(t, call[t], call[t].off)
    BY Inside DEF Generate, Sound, Work, Done, CallType, IsAes
  <1>1. PICK m \in Nat, off \in Nat : m = Chunk(call[t]) /\ off = call[t].off + Chunk(call[t])
    BY <1>0, Inside, ChunkFacts DEF Sound
  <1>2. PICK fed \in Seq(Byte) :
          /\ fed = call[t].fed \o Bytes(t, "in", call[t].off, m)
          /\ fed = Fed(t, call[t], off)
    <2>1. Fed(t, call[t], call[t].off) \o Bytes(t, "in", call[t].off, m) = Fed(t, call[t], off)
      BY <1>0, <1>1, Inside, FedStep
    <2>2. "in" \in BufferNames
      BY DEF BufferNames
    <2>3. Bytes(t, "in", call[t].off, m) \in Seq(Byte) /\ call[t].fed \in Seq(Byte)
      BY <1>0, <1>1, <2>2, Inside, BytesFacts DEF CallType
    <2>4. call[t].fed \o Bytes(t, "in", call[t].off, m) \in Seq(Byte)
      BY <2>3, Joined
    <2> QED BY <1>0, <2>1, <2>4
  <1>3. CASE call' = [call EXCEPT ![t].off = off, ![t].fed = fed]
    <2> DEFINE c == [call[t] EXCEPT !.off = off, !.fed = fed]
    <2>1. /\ c \in CallType /\ c.op = call[t].op /\ c.k = call[t].k /\ c.n = call[t].n
          /\ c.pc = "loop" /\ c.off = off /\ c.fed = fed /\ c.st # "Ok"
      BY <1>0, <1>1, <1>2, Inside DEF CallType
    <2>2. Becomes(t, c)
      BY <1>3, <2>1, Inside DEF Becomes
    <2>3. Done(t, c, c.off)
      <3>0. \A n \in Nat : Fed(t, c, n) = Fed(t, call[t], n)
        BY <2>1, Inside, SameFed
      <3>1. ~IsAes(c) /\ Fed(t, c, off) = Fed(t, call[t], off)
        BY <1>0, <1>1, <2>1, <3>0 DEF IsAes
      <3> QED BY <1>2, <2>1, <3>1 DEF Done
    <2>4. Work(t, c, scratch', area')
      BY <2>1, <2>3 DEF Work
    <2> QED BY <1>0, <2>1, <2>2, <2>4, Inside, LockStep
  <1>4. CASE Leave(t, "InternalError")
    BY <1>0, <1>4, Inside, LeaveWork DEF Answers
  <1> QED BY <1>1, <1>2, <1>3, <1>4 DEF Generate

\* The loop is done: everything has been fed and returned.
LEMMA FinishWork ==
  ASSUME LockInv, NEW t \in Threads, Finish(t), FitInv', UNCHANGED area
  PROVE  LockInv'
  <1>0. /\ call[t].pc = "loop" /\ call[t].pc # "idle" /\ call[t].op \in LoopOps
        /\ call[t].off = call[t].n /\ Done(t, call[t], call[t].n) /\ call[t].n \in Nat
    <2>1. call[t].pc = "loop" /\ call[t].off >= call[t].n
      BY DEF Finish
    <2>2. call[t].op \in LoopOps /\ call[t].off <= call[t].n
      BY <2>1, Inside DEF Sound
    <2>3. call[t].off = call[t].n /\ call[t].n \in Nat
      BY <2>1, <2>2, Inside DEF CallType
    <2> QED BY <2>1, <2>2, <2>3, Inside DEF Work
  <1>1. CASE Leave(t, "Ok")
    <2> DEFINE c == [call[t] EXCEPT !.pc = "idle", !.st = "Ok"]
    <2>1. Becomes(t, c)
      BY <1>1, Inside, Edits DEF Answers
    <2>2. /\ c \in CallType /\ c.op = call[t].op /\ c.k = call[t].k /\ c.n = call[t].n
          /\ c.pc = "idle" /\ c.fed = call[t].fed /\ c.out = call[t].out
      BY Inside DEF CallType, PCs, Answers
    <2>0. \A n \in Nat : Fed(t, c, n) = Fed(t, call[t], n)
      BY <2>2, Inside, SameFed
    <2>3. Fed(t, c, c.n) = Fed(t, call[t], call[t].n) /\ (IsAes(c) <=> IsAes(call[t]))
      BY <1>0, <2>0, <2>2 DEF IsAes
    <2>4. Right(t, c)
      BY <1>0, <2>2, <2>3 DEF Right, Done, LoopOps, P256
    <2>5. Work(t, c, scratch', area')
      BY <2>2, <2>4, IdleWork
    <2> QED BY <1>0, <2>1, <2>2, <2>5, Inside, LockStep
  <1>2. CASE Leave(t, "InternalError") \/ Leave(t, "AuthFailed")
    BY <1>0, <1>2, Inside, LeaveWork DEF Answers
  <1> QED BY <1>1, <1>2 DEF Finish

\* Every step on the scratch, when no other thread is in a call.
LEMMA BounceWork ==
  ASSUME KeysFit, HkdfOneLong, LockInv, NEW t \in Threads, Bounce(t), UNCHANGED <<started, area>>
  PROVE  LockInv'
  <1>1. FitInv' /\ UNCHANGED area
    BY Inside, BounceFits
  <1>2. CASE InitFails(t)
    <2>1. Leave(t, "InternalError") /\ call[t].pc # "idle"
      BY <1>2 DEF InitFails
    <2> QED BY <1>1, <2>1, Inside, LeaveWork DEF Answers
  <1>3. CASE \/ CopyInput(t, "ikm", 1, "salt") \/ CopyInput(t, "salt", 2, "info")
             \/ CopyInput(t, "info", 3, "derive")
    BY <1>1, <1>3, CopyInputWork
  <1> QED
    BY <1>1, <1>2, <1>3, CopyKeyWork, HmacInitWork, DeriveWork, CopyInWork, EngineWork,
       AesEngineWork, CopyOutWork, GenerateWork, FinishWork
    DEF Bounce

\* One byte, and two, one after the other.
LEMMA Pair ==
  ASSUME NEW x \in Byte, NEW y \in Byte
  PROVE  <<>> \o <<x>> = <<x>> /\ <<x>> \o <<y>> = <<x, y>>
  <1> DEFINE a == <<x>>
             b == <<y>>
             c == <<x, y>>
  <1>1. <<>> \o a = a
    OBVIOUS
  <1>2. a \in Seq(Byte) /\ Len(a) = 1 /\ a[1] = x
    OBVIOUS
  <1>3. b \in Seq(Byte) /\ Len(b) = 1 /\ b[1] = y
    OBVIOUS
  <1>4. c \in Seq(Byte) /\ Len(c) = 2 /\ c[1] = x /\ c[2] = y
    OBVIOUS
  <1> HIDE DEF a, b, c
  <1>5. /\ a \o b \in Seq(Byte) /\ Len(a \o b) = 2
        /\ \A i \in 1..1 : (a \o b)[i] = a[i]
        /\ \A i \in 1..1 : (a \o b)[1 + i] = b[i]
    BY <1>2, <1>3, Joined
  <1>6. (a \o b)[1] = x /\ (a \o b)[2] = y
    <2>1. 1 \in 1..1 /\ 1 + 1 = 2
      OBVIOUS
    <2> QED BY <1>2, <1>3, <1>5, <2>1
  <1>7. \A i \in 1..2 : i = 1 \/ i = 2
    OBVIOUS
  <1>8. a \o b = c
    BY <1>4, <1>5, <1>6, <1>7, SeqEqual
  <1> QED BY <1>1, <1>8 DEF a, b, c

\* The key objects of a P-256 call, built or generated one after the other, are
\* the call's own when they are used.
LEMMA KeyStepWork ==
  ASSUME LockInv, NEW t \in Threads, KeyStep(t), UNCHANGED <<started, scratch, overrun>>
  PROVE  LockInv'
  <1>0. FitInv' /\ area \in AreaType
    BY Inside, KeyStepFits DEF Types
  <1>1. ASSUME NEW st \in Answers \ {"Ok"}, Leave(t, st), call[t].pc # "idle" PROVE LockInv'
    BY <1>0, <1>1, Inside, LeaveWork
  <1>2. CASE GenKeyPair(t)
    <2>0. call[t].pc = "build" /\ call[t].op = "ecdsaGenerate" /\ call[t].off = 0
          /\ call[t].fed = <<>>
      BY <1>2, Inside DEF GenKeyPair, Sound, Work
    <2>1. CASE Leave(t, "InternalError")
      BY <1>1, <2>0, <2>1 DEF Answers
    <2>2. CASE /\ area' = [area EXCEPT !["genPriv"] = <<t, "genPriv", 1>>,
                                       !["genPub"] = <<t, "genPub", 1>>]
               /\ Go(t, "use")
      <3> DEFINE c == [call[t] EXCEPT !.pc = "use"]
      <3>1. Becomes(t, c)
        BY <2>2, Inside, Edits DEF PCs
      <3>2. /\ c \in CallType /\ c.pc = "use" /\ c.op = "ecdsaGenerate" /\ c.off = 0
            /\ c.fed = <<>> /\ c.st # "Ok"
        BY <2>0, Inside DEF CallType, PCs
      <3>3. HasKeys(t, c, area', Len(Areas(c.op)))
        <4>1. Areas(c.op) = <<"genPriv", "genPub">>
          BY <3>2, AreaFacts DEF P256
        <4>2. area'["genPriv"] = <<t, "genPriv", 1>> /\ area'["genPub"] = <<t, "genPub", 1>>
          BY <1>0, <2>2 DEF AreaType, AreaNames
        <4> QED BY <4>1, <4>2 DEF HasKeys, OwnKey
      <3>4. c.fed = [i \in 1..c.off |-> OwnKey(t, c, i)]
        BY <3>2
      <3>5. Work(t, c, scratch', area')
        BY <3>2, <3>3, <3>4 DEF Work
      <3> QED BY <1>0, <2>0, <3>1, <3>2, <3>5, Inside, LockStep
    <2> QED BY <1>2, <2>1, <2>2 DEF GenKeyPair
  <1>3. CASE Build(t)
    <2>0. /\ call[t].pc = "build" /\ call[t].op # "ecdsaGenerate" /\ call[t].op \in P256
          /\ call[t].off \in Nat /\ HasKeys(t, call[t], area, call[t].off)
          /\ call[t].fed = <<>>
      <3>1. call[t].pc = "build" /\ call[t].op # "ecdsaGenerate"
        BY <1>3 DEF Build
      <3>2. call[t].op \in P256 /\ call[t].off \in Nat
        BY <3>1, Inside DEF Sound, CallType
      <3> QED BY <3>1, <3>2, Inside DEF Work
    <2>1. CASE call' = AfterFailedBuild(t)
      <3>1. Leave(t, "BadParam")
        BY <2>1 DEF AfterFailedBuild, Leave
      <3> QED BY <1>1, <2>0, <3>1 DEF Answers
    <2>2. CASE /\ call[t].off < Len(Areas(call[t].op))
               /\ area' = [area EXCEPT ![Current(t)] = <<t, Current(t), 1>>]
               /\ call' = [call EXCEPT ![t].off = @ + 1]
      <3>1. PICK n \in Nat : n = call[t].off + 1
        BY <2>0
      <3> DEFINE c == [call[t] EXCEPT !.off = n]
      <3>2. /\ c \in CallType /\ c.pc = "build" /\ c.op = call[t].op /\ c.off = n
            /\ c.fed = <<>> /\ c.st # "Ok"
        BY <2>0, <3>1, Inside DEF CallType
      <3>3. Becomes(t, c)
        BY <2>2, <3>1, <3>2, Inside DEF Becomes
      <3>4. PICK names :
              /\ names = Areas(call[t].op) /\ n \in 1..Len(names)
              /\ \A i \in 1..Len(names) : names[i] \in AreaNames
              /\ \A i, j \in 1..Len(names) : names[i] = names[j] => i = j
              /\ Current(t) = names[n]
        <4>1. n \in 1..Len(Areas(call[t].op))
          BY <2>0, <2>2, <3>1, AreaFacts
        <4> QED BY <2>0, <3>1, <4>1, AreaFacts DEF Current
      <3>5. \A i \in 1..n : area'[names[i]] = <<t, names[i], 1>>
        <4>1. ASSUME NEW i \in 1..n, i # n PROVE area'[names[i]] = <<t, names[i], 1>>
          <5>1. i \in 1..call[t].off /\ i \in 1..Len(names)
            BY <2>0, <3>1, <3>4, <4>1
          <5>2. names[i] # names[n] /\ names[i] \in AreaNames
            BY <3>4, <4>1, <5>1
          <5>3. area[names[i]] = <<t, names[i], 1>>
            BY <2>0, <3>4, <5>1 DEF HasKeys, OwnKey
          <5> QED BY <1>0, <2>2, <3>4, <5>2, <5>3 DEF AreaType
        <4>2. area'[names[n]] = <<t, names[n], 1>>
          BY <1>0, <2>2, <3>4 DEF AreaType
        <4> QED BY <4>1, <4>2
      <3>6. HasKeys(t, c, area', c.off)
        BY <3>2, <3>4, <3>5 DEF HasKeys, OwnKey
      <3>7. Work(t, c, scratch', area')
        BY <3>2, <3>6 DEF Work
      <3> QED BY <1>0, <2>0, <3>2, <3>3, <3>7, Inside, LockStep
    <2>3. CASE /\ call[t].off = Len(Areas(call[t].op))
               /\ call' = [call EXCEPT ![t].off = 0, ![t].pc = "use"]
               /\ UNCHANGED area
      <3> DEFINE c == [call[t] EXCEPT !.off = 0, !.pc = "use"]
      <3>1. /\ c \in CallType /\ c.pc = "use" /\ c.op = call[t].op /\ c.off = 0 /\ c.st # "Ok"
        BY <2>0, Inside DEF CallType, PCs
      <3>2. Becomes(t, c)
        BY <2>3, <3>1, Inside DEF Becomes
      <3>3. HasKeys(t, c, area', Len(Areas(c.op)))
        BY <2>0, <2>3, <3>1 DEF HasKeys, OwnKey
      <3>4. Work(t, c, scratch', area')
        BY <2>0, <3>1, <3>3 DEF Work
      <3> QED BY <1>0, <2>0, <3>1, <3>2, <3>4, Inside, LockStep
    <2> QED BY <1>3, <2>1, <2>2, <2>3 DEF Build
  <1>4. CASE Export(t)
    <2>0. /\ call[t].pc = "use" /\ call[t].op = "ecdsaGenerate" /\ call[t].off \in {0, 1}
          /\ UNCHANGED area
          /\ Areas(call[t].op) = <<"genPriv", "genPub">>
          /\ area["genPriv"] = <<t, "genPriv", 1>> /\ area["genPub"] = <<t, "genPub", 1>>
          /\ call[t].fed = IF call[t].off = 0 THEN <<>> ELSE <<<<t, "genPriv", 1>>>>
      <3>1. call[t].pc = "use" /\ call[t].op = "ecdsaGenerate" /\ UNCHANGED area
        BY <1>4 DEF Export
      <3>2. call[t].off \in {0, 1}
        BY <3>1, Inside DEF Sound, CallType
      <3>3. Areas(call[t].op) = <<"genPriv", "genPub">>
        BY <3>1, AreaFacts DEF P256
      <3>4. /\ HasKeys(t, call[t], area, Len(Areas(call[t].op)))
            /\ call[t].fed = [i \in 1..call[t].off |-> OwnKey(t, call[t], i)]
        BY <3>1, Inside DEF Work
      <3>5. area["genPriv"] = <<t, "genPriv", 1>> /\ area["genPub"] = <<t, "genPub", 1>>
        <4>1. /\ 1 \in 1..Len(Areas(call[t].op)) /\ 2 \in 1..Len(Areas(call[t].op))
              /\ Areas(call[t].op)[1] = "genPriv" /\ Areas(call[t].op)[2] = "genPub"
          BY <3>3
        <4> QED BY <3>4, <4>1 DEF HasKeys, OwnKey
      <3>6. OwnKey(t, call[t], 1) = <<t, "genPriv", 1>>
        BY <3>3 DEF OwnKey
      <3>7. call[t].fed = IF call[t].off = 0 THEN <<>> ELSE <<<<t, "genPriv", 1>>>>
        BY <3>2, <3>4, <3>6
      <3> QED BY <3>1, <3>2, <3>3, <3>5, <3>7
    <2>1. CASE Leave(t, "InternalError")
      BY <1>1, <2>0, <2>1 DEF Answers
    <2>2. CASE ~Leave(t, "InternalError")
      <3>0. /\ Current(t) = IF call[t].off = 0 THEN "genPriv" ELSE "genPub"
            /\ area[Current(t)] = <<t, Current(t), 1>>
        BY <2>0 DEF Current
      <3>1. PICK fed : /\ fed = IF call[t].off = 0 THEN <<<<t, "genPriv", 1>>>>
                                ELSE <<<<t, "genPriv", 1>>, <<t, "genPub", 1>>>>
                       /\ fed = call[t].fed \o <<area[Current(t)]>>
        <4>1. PICK x \in Byte, y \in Byte : x = <<t, "genPriv", 1>> /\ y = <<t, "genPub", 1>>
          BY ByteFacts DEF BufferNames, AreaNames
        <4>2. <<>> \o <<x>> = <<x>> /\ <<x>> \o <<y>> = <<x, y>>
          BY Pair
        <4>3. CASE call[t].off = 0
          <5>0. call[t].fed = <<>> /\ area[Current(t)] = x
            BY <2>0, <3>0, <4>1, <4>3
          <5>1. call[t].fed \o <<area[Current(t)]>> = <<x>>
            BY <4>2, <5>0
          <5>2. <<x>> = IF call[t].off = 0 THEN <<<<t, "genPriv", 1>>>>
                        ELSE <<<<t, "genPriv", 1>>, <<t, "genPub", 1>>>>
            BY <4>1, <4>3
          <5> QED BY <5>1, <5>2
        <4>4. CASE call[t].off = 1
          <5>0. call[t].fed = <<x>> /\ area[Current(t)] = y
            BY <2>0, <3>0, <4>1, <4>4
          <5>1. call[t].fed \o <<area[Current(t)]>> = <<x, y>>
            BY <4>2, <5>0
          <5>2. <<x, y>> = IF call[t].off = 0 THEN <<<<t, "genPriv", 1>>>>
                           ELSE <<<<t, "genPriv", 1>>, <<t, "genPub", 1>>>>
            BY <4>1, <4>4
          <5> QED BY <5>1, <5>2
        <4> QED BY <2>0, <4>3, <4>4
      <3>2. fed \in Seq(Byte)
        <4>1. /\ <<t, "genPriv", 1>> \in Byte /\ <<t, "genPub", 1>> \in Byte
          BY ByteFacts DEF BufferNames, AreaNames
        <4> QED BY <3>1, <4>1
      <3>3. PICK n \in Nat, pc \in PCs, st \in Answers :
              /\ n = call[t].off + 1
              /\ pc = IF call[t].off = 1 THEN "idle" ELSE "use"
              /\ st = IF call[t].off = 1 THEN "Ok" ELSE call[t].st
        <4>1. call[t].st \in Answers
          BY Inside DEF CallType
        <4>2. "idle" \in PCs /\ "use" \in PCs /\ "Ok" \in Answers
          BY DEF PCs, Answers
        <4> QED BY <2>0, <4>1, <4>2
      <3> DEFINE c == [call[t] EXCEPT !.off = n, !.fed = fed, !.pc = pc, !.st = st]
      <3>4. /\ c \in CallType /\ c.op = "ecdsaGenerate" /\ c.off = n /\ c.pc = pc
            /\ c.st = st /\ c.fed = fed
        BY <2>0, <3>2, Inside DEF CallType
      <3>5. call' = [call EXCEPT ![t].off = @ + 1, ![t].fed = fed,
                       ![t].pc = IF call[t].off = 1 THEN "idle" ELSE @,
                       ![t].st = IF call[t].off = 1 THEN "Ok" ELSE @]
        BY <1>4, <2>2, <3>1 DEF Export
      <3>6. Becomes(t, c)
        BY <2>0, <3>3, <3>4, <3>5, Inside DEF Becomes
      <3>7. /\ OwnKey(t, c, 1) = <<t, "genPriv", 1>> /\ OwnKey(t, c, 2) = <<t, "genPub", 1>>
            /\ Areas(c.op) = <<"genPriv", "genPub">>
        BY <2>0, <3>4 DEF OwnKey
      <3>8. CASE call[t].off = 0
        <4>1. fed = [i \in 1..1 |-> OwnKey(t, c, i)]
          BY <3>1, <3>7, <3>8
        <4>2. HasKeys(t, c, area', Len(Areas(c.op)))
          <5>1. Areas(c.op)[1] = "genPriv" /\ Areas(c.op)[2] = "genPub" /\ Len(Areas(c.op)) = 2
            BY <3>7
          <5>2. \A i \in 1..2 : i = 1 \/ i = 2
            OBVIOUS
          <5> QED BY <2>0, <3>7, <5>1, <5>2 DEF HasKeys
        <4>3. c.pc = "use" /\ c.st # "Ok" /\ c.off = 1 /\ c.fed = fed
          BY <2>0, <3>3, <3>4, <3>8, Inside
        <4>4. Work(t, c, scratch', area')
          <5> HIDE DEF c
          <5> QED BY <4>1, <4>2, <4>3 DEF Work
        <4> QED BY <1>0, <2>0, <3>4, <3>6, <4>4, Inside, LockStep
      <3>9. CASE call[t].off = 1
        <4>1. fed = [i \in 1..2 |-> OwnKey(t, c, i)]
          BY <3>1, <3>7, <3>9
        <4>2. c.op \in P256 /\ c.op \notin LoopOps /\ c.op # "hkdf" /\ c.op # "none" /\ ~IsAes(c)
          BY <3>4 DEF P256, LoopOps, IsAes
        <4>3. Right(t, c)
          BY <3>4, <3>7, <4>1, <4>2 DEF Right
        <4>4. Work(t, c, scratch', area')
          BY <3>3, <3>4, <3>9, <4>3, IdleWork
        <4> QED BY <1>0, <2>0, <3>4, <3>6, <4>4, Inside, LockStep
      <3> QED BY <2>0, <3>8, <3>9
    <2> QED BY <2>1, <2>2
  <1>5. CASE UseKeys(t)
    <2>0. /\ call[t].pc = "use" /\ call[t].op \in P256
          /\ HasKeys(t, call[t], area, Len(Areas(call[t].op)))
      BY <1>5, Inside DEF UseKeys, Sound, Work
    <2>1. CASE \E st \in Answers \ {"Ok"} : Leave(t, st)
      BY <1>1, <2>0, <2>1
    <2>2. CASE ~\E st \in Answers \ {"Ok"} : Leave(t, st)
      <3>1. PICK fed \in Seq(Byte) :
              /\ fed = [i \in 1..Len(Areas(call[t].op)) |-> area[Areas(call[t].op)[i]]]
              /\ fed = [i \in 1..Len(Areas(call[t].op)) |-> OwnKey(t, call[t], i)]
        <4>1. [i \in 1..Len(Areas(call[t].op)) |-> area[Areas(call[t].op)[i]]] \in Seq(Byte)
          BY <1>0, <2>0, AreaFacts DEF AreaType
        <4>2. [i \in 1..Len(Areas(call[t].op)) |-> area[Areas(call[t].op)[i]]]
                = [i \in 1..Len(Areas(call[t].op)) |-> OwnKey(t, call[t], i)]
          BY <2>0 DEF HasKeys
        <4> QED BY <4>1, <4>2
      <3> DEFINE c == [call[t] EXCEPT !.pc = "idle", !.st = "Ok", !.fed = fed]
      <3>2. /\ c \in CallType /\ c.op = call[t].op /\ c.pc = "idle" /\ c.fed = fed
        BY <3>1, Inside, ZenonT(30) DEF CallType, PCs, Answers
      <3>3. Becomes(t, c)
        <4>1. call' = [call EXCEPT ![t].pc = "idle", ![t].st = "Ok", ![t].fed = fed]
          BY <1>5, <2>2, <3>1 DEF UseKeys, Answers
        <4> QED BY <3>2, <4>1, Inside DEF Becomes
      <3>4. c.op \in P256 /\ c.op \notin LoopOps /\ c.op # "hkdf" /\ c.op # "none" /\ ~IsAes(c)
        BY <2>0, <3>2 DEF P256, LoopOps, IsAes
      <3>5. Right(t, c)
        BY <3>1, <3>2, <3>4 DEF Right, OwnKey
      <3>6. Work(t, c, scratch', area')
        BY <3>2, <3>5, IdleWork
      <3> QED BY <1>0, <2>0, <3>2, <3>3, <3>6, Inside, LockStep
    <2> QED BY <2>1, <2>2
  <1> QED BY <1>2, <1>3, <1>4, <1>5 DEF KeyStep

-----------------------------------------------------------------------------
(* A call begins when no other is being made *)

\* The calls that are over are forgotten, and the one that begins has done its
\* work so far.
LEMMA EnterWork ==
  ASSUME LockInv, \A u \in Threads : Free(u), NEW t \in Threads, NEW c, Enter(t, c),
         Work(t, c, scratch', area'), FitInv'
  PROVE  LockInv'
  <1>1. ASSUME NEW u \in Threads, u # t PROVE call'[u] = NoCall
    BY <1>1 DEF Enter
  <1>2. OneCall'
    BY <1>1 DEF OneCall, Free, NoCall
  <1>3. Work(t, call'[t], scratch', area')
    BY DEF Enter
  <1>4. ASSUME NEW u \in Threads, u # t PROVE Work(u, call'[u], scratch', area')
    <2>1. NoCall.pc = "idle" /\ NoCall.st # "Ok"
      BY DEF NoCall
    <2> QED BY <1>1, <1>4, <2>1, NoCallFacts, IdleWork
  <1> QED BY <1>2, <1>3, <1>4 DEF LockInv

\* A call has not been fed or returned anything when it begins.
LEMMA StartWork ==
  ASSUME LockInv, \A u \in Threads : Free(u), NEW t \in Threads, Start(t)
  PROVE  LockInv'
  <1>0. FitInv' /\ NoCall \in CallType
    BY StartFits, NoCallFacts DEF LockInv
  <1>1. ASSUME NEW op \in LoopOps \cup P256 \cup {"hkdf"}, NEW pc \in PCs, NEW n \in Nat
        PROVE  /\ New(op, pc, n) \in CallType /\ Refused(op) \in CallType
               /\ New(op, pc, n).op = op /\ New(op, pc, n).pc \in {pc, "idle"}
               /\ New(op, pc, n).off = 0 /\ New(op, pc, n).fed = <<>>
               /\ New(op, pc, n).out = <<>> /\ New(op, pc, n).st # "Ok"
               /\ Refused(op).pc = "idle" /\ Refused(op).st # "Ok"
    <2>1. /\ [NoCall EXCEPT !.op = op, !.pc = pc, !.n = n] \in CallType
          /\ \A st \in Answers : [NoCall EXCEPT !.op = op, !.st = st] \in CallType
      BY <1>0 DEF CallType
    <2>2. New(op, pc, n) \in CallType /\ Refused(op) \in CallType
      BY <2>1 DEF New, Refused, Answers
    <2> QED BY <2>2 DEF New, Refused, NoCall
  <1>2. ASSUME NEW c \in CallType, c.pc = "idle", c.st # "Ok", Enter(t, c) PROVE LockInv'
    <2>1. Work(t, c, scratch', area')
      BY <1>2, IdleWork
    <2> QED BY <1>0, <1>2, <2>1, EnterWork
  <1>3. ASSUME NEW n \in InLens, NEW op \in LoopOps \ {"hmac"}, Enter(t, New(op, "loop", n))
        PROVE  LockInv'
    <2>0. n \in Nat /\ "loop" \in PCs
      BY LenAssumption DEF PCs
    <2>1. PICK c \in CallType :
            /\ c = New(op, "loop", n) /\ c.op = op /\ c.pc \in {"loop", "idle"} /\ c.off = 0
            /\ c.fed = <<>> /\ c.out = <<>> /\ c.st # "Ok"
      BY <1>1, <2>0
    <2>2. CASE c.pc = "loop"
      <3>1. Done(t, c, c.off)
        BY <2>1, FedNothing DEF Done
      <3>2. Work(t, c, scratch', area')
        BY <2>1, <2>2, <3>1 DEF Work
      <3> QED BY <1>0, <1>3, <2>1, <3>2, EnterWork
    <2>3. CASE c.pc = "idle"
      BY <1>2, <1>3, <2>1, <2>3
    <2> QED BY <2>1, <2>2, <2>3
  <1>4. ASSUME NEW op \in LoopOps, Enter(t, Refused(op)) PROVE LockInv'
    <2>1. "idle" \in PCs /\ 0 \in Nat
      BY DEF PCs
    <2>2. Refused(op) \in CallType /\ Refused(op).pc = "idle" /\ Refused(op).st # "Ok"
      BY <1>1, <2>1
    <2> QED BY <1>2, <1>4, <2>2
  <1>5. ASSUME NEW n \in InLens,
               \/ sha256(t, n) \/ sha384(t, n) \/ aes128Ctr(t, n) \/ aes128Cbc(t, n)
               \/ ed25519Sign(t, n) \/ randomBytes(t, n)
        PROVE  LockInv'
    BY <1>3, <1>4, <1>5
    DEF sha256, sha384, aes128Ctr, aes128Cbc, ed25519Sign, randomBytes, LoopOps
  <1>6. ASSUME NEW n \in InLens, NEW k \in KeyLens, hmacSha256(t, k, n) PROVE LockInv'
    <2>1. n \in Nat /\ k \in Nat /\ "key" \in PCs /\ "hmac" \in LoopOps
      BY LenAssumption DEF PCs, LoopOps
    <2>2. CASE k > KeyLimit
      BY <1>4, <1>6, <2>1, <2>2 DEF hmacSha256
    <2>3. CASE ~(k > KeyLimit)
      <3>1. PICK d \in CallType :
              /\ d = New("hmac", "key", n) /\ d.pc \in {"key", "idle"}
              /\ d.out = <<>> /\ d.st # "Ok"
        BY <1>1, <2>1
      <3> DEFINE c == [d EXCEPT !.k = k]
      <3>2. /\ c \in CallType /\ c.pc \in {"key", "idle"}
            /\ c.out = <<>> /\ c.st # "Ok"
        BY <2>1, <3>1 DEF CallType
      <3>3. Enter(t, c)
        BY <1>6, <2>3, <3>1, <3>2 DEF hmacSha256
      <3> HIDE DEF c
      <3>4. Work(t, c, scratch', area')
        BY <3>2 DEF Work
      <3> QED BY <1>0, <3>2, <3>3, <3>4, EnterWork
    <2> QED BY <2>2, <2>3
  <1>7. ASSUME NEW lens \in HkdfLens, hkdfSha256(t, lens) PROVE LockInv'
    <2>0. "ikm" \in PCs /\ 0 \in Nat
      BY DEF PCs
    <2>1. lens \in Nat \X Nat \X Nat
      BY LenAssumption
    <2>2. PICK d \in CallType :
            d = New("hkdf", "ikm", 0) /\ d.pc \in {"ikm", "idle"} /\ d.st # "Ok"
      BY <1>1, <2>0
    <2> DEFINE c == [d EXCEPT !.hk = lens]
    <2>3. c \in CallType /\ c.pc \in {"ikm", "idle"} /\ c.st # "Ok"
      BY <2>1, <2>2 DEF CallType
    <2>4. Enter(t, c)
      BY <1>7, <2>2, <2>3 DEF hkdfSha256
    <2> HIDE DEF c
    <2>5. Work(t, c, scratch', area')
      BY <2>3 DEF Work
    <2> QED BY <1>0, <2>3, <2>4, <2>5, EnterWork
  <1>8. ASSUME NEW op \in P256, ecdsaP256(t, op) PROVE LockInv'
    <2>1. "build" \in PCs /\ 0 \in Nat
      BY DEF PCs
    <2>2. PICK c \in CallType :
            /\ c = New(op, "build", 0) /\ c.pc \in {"build", "idle"} /\ c.off = 0
            /\ c.fed = <<>> /\ c.st # "Ok"
      BY <1>1, <2>1
    <2>3. HasKeys(t, c, area', c.off)
      BY <2>2 DEF HasKeys
    <2>4. Work(t, c, scratch', area')
      BY <2>2, <2>3 DEF Work
    <2>5. Enter(t, c)
      BY <1>8, <2>2 DEF ecdsaP256
    <2> QED BY <1>0, <2>2, <2>4, <2>5, EnterWork
  <1>9. CASE begin(t) \/ end(t)
    <2>1. UNCHANGED call
      BY <1>9 DEF begin, end
    <2>2. OneCall'
      BY <2>1 DEF LockInv, OneCall, Free
    <2>3. ASSUME NEW u \in Threads PROVE Work(u, call'[u], scratch', area')
      <3>1. call[u].pc = "idle" /\ (call[u].st = "Ok" => Right(u, call[u]))
            /\ call[u] \in CallType
        BY Inside DEF Free, Work
      <3> QED BY <2>1, <3>1, IdleWork
    <2> QED BY <1>0, <2>2, <2>3 DEF LockInv
  <1> QED
    BY <1>5, <1>6, <1>7, <1>8, <1>9 DEF Start

-----------------------------------------------------------------------------
(* A call that answers Ok was fed its own inputs *)

\* Every step of the application that locks its calls.
LEMMA LockInductive ==
  ASSUME KeysFit, HkdfOneLong, LockInv, [LockedNext]_vars
  PROVE  LockInv'
  <1>1. ASSUME NEW t \in Threads, \A u \in Threads : Free(u), Start(t) PROVE LockInv'
    BY <1>1, StartWork
  <1>2. ASSUME NEW t \in Threads, Proceed(t) PROVE LockInv'
    BY <1>2, BounceWork, KeyStepWork DEF Proceed
  <1>3. CASE UNCHANGED vars
    <2>1. UNCHANGED <<started, scratch, area, call, overrun>>
      BY <1>3 DEF vars
    <2>2. FitInv' /\ OneCall'
      BY <2>1 DEF LockInv, FitInv, Types, OneCall, Free
    <2> QED BY <2>1, <2>2 DEF LockInv
  <1> QED BY <1>1, <1>2, <1>3 DEF LockedNext

\* What the invariant says of a call is what the property asks.
LEMMA RightMeansOwn == LockInv => OkMeansOwnInput
  <1> SUFFICES ASSUME LockInv, NEW t \in Threads, call[t].st = "Ok"
               PROVE  /\ call[t].fed = Expected(t)
                      /\ IsAes(call[t]) => call[t].out
                           = [i \in 1..call[t].n |-> Enc(Bytes(t, "in", 0, i)[i])]
    BY DEF OkMeansOwnInput
  <1>1. PICK c \in CallType : c = call[t] /\ Right(t, c) /\ c.n \in Nat
    BY Inside DEF Work, CallType
  <1>2. c.fed = Expected(t)
    <2>1. CASE c.op \in LoopOps
      BY <1>1, <2>1 DEF Right, Expected, Fed, PadOf, IsAes, LoopOps, P256
    <2>2. CASE c.op = "hkdf"
      BY <1>1, <2>2 DEF Right, Expected, IsAes, P256
    <2>3. CASE c.op \in P256
      BY <1>1, <2>3 DEF Right, Expected, OwnKey, IsAes, P256
    <2> QED BY <1>1, <2>1, <2>2, <2>3 DEF CallType, Right
  <1>3. ASSUME NEW i \in 1..c.n PROVE Bytes(t, "in", 0, i)[i] = <<t, "in", i>>
    BY <1>1 DEF Bytes
  <1>4. IsAes(c) => c.out = [i \in 1..c.n |-> Enc(Bytes(t, "in", 0, i)[i])]
    BY <1>1, <1>3 DEF Right, Returned
  <1> QED BY <1>1, <1>2, <1>4

\* With one call of the backend at a time, a call that answers Ok was fed
\* exactly its own inputs, whatever earlier calls left in the static buffers:
\* for any sizes, lengths, chunk counts and number of threads.  The chunks join
\* without a gap, aesRun pads only the last one, and a key object is used only
\* after this call has built it.  The code leaves two things to the
\* application: an HMAC key that fits in the scratch, and no second long input
\* of one HKDF call.
THEOREM OkMeansOwn ==
  ASSUME KeysFit, HkdfOneLong
  PROVE  LockedSpec => []OkMeansOwnInput
  <1>1. Init => LockInv
    <2> SUFFICES ASSUME Init PROVE LockInv
      OBVIOUS
    <2>1. FitInv
      BY FitInit
    <2>2. \A t \in Threads : call[t] = NoCall
      BY DEF Init
    <2>3. NoCall.pc = "idle" /\ NoCall.st # "Ok"
      BY DEF NoCall
    <2>4. OneCall
      BY <2>2, <2>3 DEF OneCall, Free
    <2>5. \A t \in Threads : Work(t, call[t], scratch, area)
      BY <2>2, <2>3, NoCallFacts, IdleWork
    <2> QED BY <2>1, <2>4, <2>5 DEF LockInv
  <1>2. LockInv /\ [LockedNext]_vars => LockInv'
    BY LockInductive
  <1>3. LockInv => OkMeansOwnInput
    BY RightMeansOwn
  <1> QED BY <1>1, <1>2, <1>3, PTL DEF LockedSpec

-----------------------------------------------------------------------------
(* The calls come to an end *)

\* A bound on the steps call c still takes: three for each byte its loop has yet
\* to pass, which is one chunk at worst, or one for each input or key object it
\* has yet to copy, build or use
StepsLeft(c) ==
  CASE c.pc = "key"     -> 3 * c.n + 5
    [] c.pc = "init"    -> 3 * c.n + 4
    [] c.pc = "loop"    -> 3 * (c.n - c.off) + 3
    [] c.pc = "engine"  -> 3 * (c.n - c.off) + 2
    [] c.pc = "copyOut" -> 3 * (c.n - c.off) + 1
    [] c.pc = "ikm"     -> 5
    [] c.pc = "salt"    -> 4
    [] c.pc = "info"    -> 3
    [] c.pc = "derive"  -> 2
    [] c.pc = "build"   -> 3 + (Len(Areas(c.op)) - c.off)
    [] c.pc = "use"     -> 2 - c.off
    [] OTHER            -> 0

\* The bound at each point of a call.
LEMMA LeftAt ==
  ASSUME NEW c
  PROVE  /\ c.pc = "key" => StepsLeft(c) = 3 * c.n + 5
         /\ c.pc = "init" => StepsLeft(c) = 3 * c.n + 4
         /\ c.pc = "loop" => StepsLeft(c) = 3 * (c.n - c.off) + 3
         /\ c.pc = "engine" => StepsLeft(c) = 3 * (c.n - c.off) + 2
         /\ c.pc = "copyOut" => StepsLeft(c) = 3 * (c.n - c.off) + 1
         /\ c.pc = "ikm" => StepsLeft(c) = 5
         /\ c.pc = "salt" => StepsLeft(c) = 4
         /\ c.pc = "info" => StepsLeft(c) = 3
         /\ c.pc = "derive" => StepsLeft(c) = 2
         /\ c.pc = "build" => StepsLeft(c) = 3 + (Len(Areas(c.op)) - c.off)
         /\ c.pc = "use" => StepsLeft(c) = 2 - c.off
         /\ c.pc = "idle" => StepsLeft(c) = 0
  BY DEF StepsLeft

\* The bound is a number, and 0 only when the call is over.
LEMMA StepsLeftType ==
  ASSUME FitInv, NEW t \in Threads
  PROVE  StepsLeft(call[t]) \in Nat /\ (StepsLeft(call[t]) = 0 <=> Free(t))
  <1>1. PICK c \in CallType : c = call[t] /\ Sound(c)
    BY DEF FitInv, Types
  <1>2. /\ c.n \in Nat /\ c.off \in Nat /\ c.pc \in PCs
        /\ c.pc \in {"loop", "engine", "copyOut"} => c.n - c.off \in Nat
        /\ c.pc = "use" => c.off < 2
    BY <1>1 DEF CallType, Sound
  <1>3. c.pc = "build" => Len(Areas(c.op)) - c.off \in Nat
    BY <1>1, <1>2, AreaFacts DEF Sound
  <1>4. StepsLeft(c) \in Nat /\ (StepsLeft(c) = 0 <=> c.pc = "idle")
    <2>1. CASE c.pc \in {"loop", "engine", "copyOut"}
      <3>1. PICK d \in Nat : d = c.n - c.off
        BY <1>2, <2>1
      <3>2. StepsLeft(c) \in {3 * d + 3, 3 * d + 2, 3 * d + 1}
        BY <2>1, <3>1, LeftAt
      <3> QED BY <2>1, <3>2
    <2>2. CASE c.pc = "build"
      <3>1. PICK d \in Nat : d = Len(Areas(c.op)) - c.off
        BY <1>3, <2>2
      <3>2. StepsLeft(c) = 3 + d
        BY <2>2, <3>1, LeftAt
      <3> QED BY <2>2, <3>2
    <2>3. CASE c.pc \in {"key", "init"}
      <3>1. StepsLeft(c) \in {3 * c.n + 5, 3 * c.n + 4}
        BY <2>3, LeftAt
      <3> QED BY <1>2, <2>3, <3>1
    <2>4. CASE c.pc \in {"idle", "ikm", "salt", "info", "derive", "use"}
      BY <1>2, <2>4, LeftAt
    <2> QED BY <1>2, <2>1, <2>2, <2>3, <2>4 DEF PCs
  <1> QED BY <1>1, <1>4 DEF Free

\* A call that returns has no steps left.
LEMMA LeaveRunsOut ==
  ASSUME FitInv, NEW t \in Threads, ~Free(t), call'[t].pc = "idle"
  PROVE  StepsLeft(call'[t]) < StepsLeft(call[t])
  <1>1. StepsLeft(call'[t]) = 0
    BY LeftAt
  <1>2. StepsLeft(call[t]) \in Nat /\ StepsLeft(call[t]) # 0
    BY StepsLeftType
  <1> QED BY <1>1, <1>2

\* Leave is a return.
LEMMA LeaveIdles ==
  ASSUME FitInv, NEW t \in Threads, NEW st, Leave(t, st)
  PROVE  call'[t].pc = "idle"
  <1>1. call \in [Threads -> CallType] /\ call[t] \in CallType
    BY DEF FitInv, Types
  <1> QED BY <1>1 DEF Leave, CallType

\* A pass of a loop goes on behind what it has copied.
LEMMA NextPass ==
  ASSUME FitInv, NEW t \in Threads, call[t].pc \in {"loop", "engine", "copyOut"},
         call[t].off < call[t].n, call'[t].pc = "loop", call'[t].n = call[t].n,
         call'[t].off = call[t].off + Chunk(call[t])
  PROVE  StepsLeft(call'[t]) < StepsLeft(call[t])
  <1>1. PICK c \in CallType : c = call[t] /\ Sound(c)
    BY DEF FitInv, Types
  <1>2. /\ Chunk(c) \in Nat /\ 0 < Chunk(c) /\ c.off + Chunk(c) <= c.n
        /\ c.n \in Nat /\ c.off \in Nat
    BY <1>1, ChunkFacts DEF Sound, CallType
  <1>3. PICK d \in Nat : d = c.n - c.off
    BY <1>2
  <1>4. StepsLeft(c) \in {3 * d + 3, 3 * d + 2, 3 * d + 1}
    BY <1>1, <1>3, LeftAt
  <1>5. PICK m \in Nat : m = Chunk(c) /\ 0 < m
    BY <1>2
  <1>6. StepsLeft(call'[t]) = 3 * (c.n - (c.off + m)) + 3
    BY <1>1, <1>5, LeftAt
  <1>7. StepsLeft(call'[t]) = 3 * (d - m) + 3
    BY <1>2, <1>3, <1>5, <1>6
  <1> QED BY <1>1, <1>4, <1>5, <1>7

\* A step on the scratch.
LEMMA BounceAdvances ==
  ASSUME FitInv, NEW t \in Threads, Bounce(t)
  PROVE  ~Free(t) /\ StepsLeft(call'[t]) < StepsLeft(call[t])
  <1>0. /\ call \in [Threads -> CallType] /\ call[t] \in CallType /\ Sound(call[t])
        /\ call[t].n \in Nat /\ call[t].off \in Nat
    BY DEF FitInv, Types, CallType
  <1>1. ~Free(t)
    BY DEF Bounce, InitFails, CopyKey, HmacInit, CopyInput, Derive, CopyIn, Engine, AesEngine,
           CopyOut, Generate, Finish, Free
  <1>2. CASE \E st : Leave(t, st)
    BY <1>1, <1>2, LeaveIdles, LeaveRunsOut
  <1>3. CASE ~\E st : Leave(t, st)
    <2> SUFFICES StepsLeft(call'[t]) < StepsLeft(call[t])
      BY <1>1
    <2>1. CASE CopyKey(t)
      <3>1. call'[t].pc = "init" /\ call'[t].n = call[t].n /\ call[t].pc = "key"
        BY <1>0, <2>1 DEF CopyKey, Go, CallType
      <3> QED BY <1>0, <3>1, LeftAt
    <2>2. CASE HmacInit(t)
      <3>1. /\ call'[t].pc = "loop" /\ call'[t].n = call[t].n /\ call'[t].off = 0
            /\ call[t].pc = "init"
        BY <1>0, <1>3, <2>2 DEF HmacInit, CallType, Sound
      <3> QED BY <1>0, <3>1, LeftAt
    <2>3. CASE CopyInput(t, "ikm", 1, "salt")
      <3>1. call[t].pc = "ikm" /\ call'[t].pc = "salt"
        BY <1>0, <1>3, <2>3 DEF CopyInput, Go, CallType
      <3> QED BY <3>1, LeftAt
    <2>4. CASE CopyInput(t, "salt", 2, "info")
      <3>1. call[t].pc = "salt" /\ call'[t].pc = "info"
        BY <1>0, <1>3, <2>4 DEF CopyInput, Go, CallType
      <3> QED BY <3>1, LeftAt
    <2>5. CASE CopyInput(t, "info", 3, "derive")
      <3>1. call[t].pc = "info" /\ call'[t].pc = "derive"
        BY <1>0, <1>3, <2>5 DEF CopyInput, Go, CallType
      <3> QED BY <3>1, LeftAt
    <2>6. CASE Derive(t)
      <3>1. call'[t].pc = "idle"
        BY <1>0, <1>3, <2>6 DEF Derive, CallType
      <3> QED BY <1>1, <3>1, LeaveRunsOut
    <2>7. CASE CopyIn(t)
      <3>1. /\ call[t].pc = "loop" /\ call'[t].pc = "engine"
            /\ call'[t].n = call[t].n /\ call'[t].off = call[t].off
        BY <1>0, <2>7 DEF CopyIn, Go, CallType
      <3> QED BY <1>0, <3>1, LeftAt
    <2>8. CASE Engine(t)
      <3>1. /\ call[t].pc = "engine" /\ call'[t].pc = "loop" /\ call'[t].n = call[t].n
            /\ call'[t].off = call[t].off + Chunk(call[t]) /\ call[t].off < call[t].n
        BY <1>0, <1>3, <2>8 DEF Engine, CallType, Sound
      <3> QED BY <3>1, NextPass
    <2>9. CASE AesEngine(t)
      <3>1. /\ call[t].pc = "engine" /\ call'[t].pc = "copyOut"
            /\ call'[t].n = call[t].n /\ call'[t].off = call[t].off
        BY <1>0, <1>3, <2>9 DEF AesEngine, CallType
      <3> QED BY <1>0, <3>1, LeftAt
    <2>10. CASE CopyOut(t)
      <3>1. /\ call[t].pc = "copyOut" /\ call'[t].pc = "loop" /\ call'[t].n = call[t].n
            /\ call'[t].off = call[t].off + Chunk(call[t]) /\ call[t].off < call[t].n
        BY <1>0, <2>10 DEF CopyOut, CallType, Sound
      <3> QED BY <3>1, NextPass
    <2>11. CASE Generate(t)
      <3>1. /\ call[t].pc = "loop" /\ call'[t].pc = "loop" /\ call'[t].n = call[t].n
            /\ call'[t].off = call[t].off + Chunk(call[t]) /\ call[t].off < call[t].n
        BY <1>0, <1>3, <2>11 DEF Generate, CallType
      <3> QED BY <3>1, NextPass
    <2>12. ~InitFails(t) /\ ~Finish(t)
      BY <1>3 DEF InitFails, Finish
    <2> QED BY <2>1, <2>2, <2>3, <2>4, <2>5, <2>6, <2>7, <2>8, <2>9, <2>10, <2>11, <2>12
            DEF Bounce
  <1> QED BY <1>1, <1>2, <1>3

\* A step on the static key objects.
LEMMA KeyStepAdvances ==
  ASSUME FitInv, NEW t \in Threads, KeyStep(t)
  PROVE  ~Free(t) /\ StepsLeft(call'[t]) < StepsLeft(call[t])
  <1>0. /\ call \in [Threads -> CallType] /\ call[t] \in CallType /\ Sound(call[t])
        /\ call[t].off \in Nat
    BY DEF FitInv, Types, CallType
  <1>1. ~Free(t)
    BY DEF KeyStep, GenKeyPair, Build, Export, UseKeys, Free
  <1>2. CASE call'[t].pc = "idle"
    BY <1>1, <1>2, LeaveRunsOut
  <1>3. CASE call'[t].pc # "idle"
    <2> SUFFICES StepsLeft(call'[t]) < StepsLeft(call[t])
      BY <1>1
    <2>0. ~\E st : Leave(t, st)
      BY <1>3, LeaveIdles
    <2>1. CASE GenKeyPair(t)
      <3>1. /\ call[t].pc = "build" /\ call'[t].pc = "use" /\ call[t].off = 0
            /\ call'[t].off = 0 /\ call[t].op = "ecdsaGenerate"
        BY <1>0, <2>0, <2>1 DEF GenKeyPair, Go, CallType, Sound
      <3>2. Len(Areas(call[t].op)) = 2
        BY <3>1, AreaFacts DEF P256
      <3> QED BY <3>1, <3>2, LeftAt
    <2>2. CASE Build(t)
      <3>1. /\ call[t].pc = "build" /\ call[t].op \in P256
            /\ Len(Areas(call[t].op)) \in Nat
        BY <1>0, <2>2, AreaFacts DEF Build, Sound
      <3>2. CASE /\ call[t].off < Len(Areas(call[t].op))
                 /\ call' = [call EXCEPT ![t].off = @ + 1]
        <4>1. /\ call'[t].pc = "build" /\ call'[t].op = call[t].op
              /\ call'[t].off = call[t].off + 1
          BY <1>0, <3>1, <3>2 DEF CallType
        <4>2. PICK n \in Nat : n = Len(Areas(call[t].op))
          BY <3>1
        <4>3. /\ StepsLeft(call'[t]) = 3 + (n - (call[t].off + 1))
              /\ StepsLeft(call[t]) = 3 + (n - call[t].off)
          BY <3>1, <4>1, <4>2, LeftAt
        <4> QED BY <1>0, <4>2, <4>3
      <3>3. CASE /\ call[t].off = Len(Areas(call[t].op))
                 /\ call' = [call EXCEPT ![t].off = 0, ![t].pc = "use"]
        <4>1. call'[t].pc = "use" /\ call'[t].off = 0
          BY <1>0, <3>3 DEF CallType
        <4>2. StepsLeft(call'[t]) = 2 - 0
          BY <4>1, LeftAt
        <4>3. PICK n \in Nat : n = Len(Areas(call[t].op)) /\ n = call[t].off
          BY <3>1, <3>3
        <4>4. StepsLeft(call[t]) = 3 + (n - n)
          BY <3>1, <4>3, LeftAt
        <4> QED BY <4>2, <4>3, <4>4
      <3>4. call' # AfterFailedBuild(t)
        BY <1>0, <1>3 DEF AfterFailedBuild, CallType
      <3> QED BY <2>2, <3>2, <3>3, <3>4 DEF Build
    <2>3. CASE Export(t)
      <3>1. /\ call[t].pc = "use" /\ call'[t].pc = "use"
            /\ call'[t].off = call[t].off + 1
        BY <1>0, <1>3, <2>0, <2>3 DEF Export, CallType
      <3> QED BY <1>0, <3>1, LeftAt
    <2>4. CASE UseKeys(t)
      <3>1. call'[t].pc = "idle"
        BY <1>0, <2>0, <2>4 DEF UseKeys, CallType
      <3> QED BY <1>3, <3>1
    <2> QED BY <2>1, <2>2, <2>3, <2>4 DEF KeyStep
  <1> QED BY <1>1, <1>2, <1>3

\* A step of another thread leaves a call that is not over where it is.
LEMMA OthersStay ==
  ASSUME FitInv, NEW t \in Threads, NEW u \in Threads, u # t, ~Free(u),
         Start(t) \/ Proceed(t)
  PROVE  call'[u] = call[u]
  <1>0. call \in [Threads -> CallType]
    BY DEF FitInv, Types
  <1>1. CASE Start(t)
    BY <1>1 DEF Start, sha256, sha384, aes128Ctr, aes128Cbc, ed25519Sign, randomBytes,
                hmacSha256, hkdfSha256, ecdsaP256, begin, end, Enter
  <1>2. CASE Bounce(t)
    BY <1>0, <1>2 DEF Bounce, InitFails, CopyKey, HmacInit, CopyInput, Derive, CopyIn, Engine,
                      AesEngine, CopyOut, Generate, Finish, Go, Leave
  <1>3. CASE KeyStep(t)
    BY <1>0, <1>3 DEF KeyStep, GenKeyPair, Build, Export, UseKeys, Go, Leave, AfterFailedBuild
  <1> QED BY <1>1, <1>2, <1>3 DEF Proceed

\* Every step a call takes brings its return nearer, and nothing else moves it:
\* the loops of hashDigest, sha384, HMAC, aesRun and randomBytes pass at least one
\* byte each time, and no thread sends another's call back or makes it wait,
\* whatever the lengths, the sizes of the buffers and the interleaving, with or
\* without a lock around the calls.
THEOREM CallsRunOut ==
  ASSUME KeysFit
  PROVE  Spec =>
           /\ [](\A t \in Threads :
                   StepsLeft(call[t]) \in Nat /\ (StepsLeft(call[t]) = 0 <=> Free(t)))
           /\ [][\A t \in Threads :
                   /\ Proceed(t) => StepsLeft(call'[t]) < StepsLeft(call[t])
                   /\ ~Free(t) => Proceed(t) \/ call'[t] = call[t]]_vars
  <1>1. FitInv => \A t \in Threads :
                    StepsLeft(call[t]) \in Nat /\ (StepsLeft(call[t]) = 0 <=> Free(t))
    BY StepsLeftType
  <1>2. FitInv /\ [Next]_vars =>
          [\A t \in Threads :
             /\ Proceed(t) => StepsLeft(call'[t]) < StepsLeft(call[t])
             /\ ~Free(t) => Proceed(t) \/ call'[t] = call[t]]_vars
    <2> SUFFICES ASSUME FitInv, Next, NEW t \in Threads
                 PROVE  /\ Proceed(t) => StepsLeft(call'[t]) < StepsLeft(call[t])
                        /\ ~Free(t) => Proceed(t) \/ call'[t] = call[t]
      OBVIOUS
    <2>1. Proceed(t) => StepsLeft(call'[t]) < StepsLeft(call[t])
      BY BounceAdvances, KeyStepAdvances DEF Proceed
    <2>2. ASSUME ~Free(t), ~Proceed(t) PROVE call'[t] = call[t]
      <3>1. PICK u \in Threads : Start(u) \/ Proceed(u)
        BY DEF Next
      <3>2. CASE u = t
        <4>1. Start(t) => Free(t)
          BY DEF Start, sha256, sha384, aes128Ctr, aes128Cbc, ed25519Sign, randomBytes,
                 hmacSha256, hkdfSha256, ecdsaP256, begin, end
        <4> QED BY <2>2, <3>1, <3>2, <4>1
      <3>3. CASE u # t
        BY <2>2, <3>1, <3>3, OthersStay
      <3> QED BY <3>2, <3>3
    <2> QED BY <2>1, <2>2
  <1>3. Init => FitInv
    BY FitInit
  <1>4. FitInv /\ [Next]_vars => FitInv'
    BY FitInductive
  <1> QED BY <1>1, <1>2, <1>3, <1>4, PTL DEF Spec
=============================================================================
