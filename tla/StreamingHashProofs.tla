------------------------ MODULE StreamingHashProofs ------------------------
(***************************************************************************)
(* Proof that an incremental hash context delivers the digest of exactly   *)
(* the bytes it was fed, for every block length, length-field size and     *)
(* message bound.  HashInv says, at each point of update() and finish(),   *)
(* which part of the padded message has been given to the hasher.          *)
(***************************************************************************)
EXTENDS StreamingHash, SequenceTheorems, TLAPS

\* The number of bytes the hasher has taken since its last reset
Total == Len(absorbed) + bufferLen

\* The i-th of them, in the blocks a and the buffer b: in a block already processed, or in the buffer
ByteAt(a, b, i) == IF i <= Len(a) THEN a[i] ELSE b[i - Len(a)]
At(i) == ByteAt(absorbed, buffer, i)

\* The hasher holds a prefix of the message
PrefixHeld == \A i \in 1..Len(msg) : i <= Total => At(i) = msg[i]

\* Between two calls the whole message is in the hasher
IdleInv == Total = Len(msg) /\ bitLen = 8 * Len(msg)

\* Inside update() the rest of the message is still in the caller's chunk
UpdateInv ==
  /\ bitLen = 8 * Len(msg)
  /\ Total + Len(rest) = Len(msg)
  /\ \A i \in 1..Len(rest) : rest[i] = msg[Total + i]

\* Inside finish() the message is followed by 0x80 and z zeros, and the loop has
\* not passed its exit: it has not wrapped, or it wrapped once because it
\* started too near the end of a block
ZerosInv ==
  LET z == Total - (Len(msg) + 1) IN
  /\ lenBits = 8 * Len(msg)
  /\ 0 <= z
  /\ At(Len(msg) + 1) = 128
  /\ \A i \in Len(msg) + 2 .. Total : At(i) = 0
  /\ \/ z <= bufferLen /\ (bufferLen > B - L => bufferLen - z > B - L)
     \/ bufferLen <= B - L /\ z < L + bufferLen

HashInv ==
  /\ TypeOK
  /\ bufferLen < B
  /\ WholeBlocks(Len(absorbed))
  /\ pc # "idle" => active
  /\ active => variant = kind /\ out = NoDigest /\ PrefixHeld
  /\ active /\ pc = "idle" => IdleInv
  /\ pc = "update" => UpdateInv
  /\ pc = "zeros" => ZerosInv
  /\ DigestIsOfMessage

-----------------------------------------------------------------------------
(* The constants of one kind *)

\* The block and the length field of the context's kind are positive, and the
\* field is shorter than the block
LEMMA Sizes ==
  ASSUME kind \in Kinds
  PROVE  B \in Nat /\ L \in Nat /\ 1 <= L /\ L < B
BY BlockAssumption DEF B, L

\* One more block is a whole number of blocks
LEMMA OneMoreBlock ==
  ASSUME kind \in Kinds, NEW n \in Nat, WholeBlocks(n)
  PROVE  WholeBlocks(n + B)
<1>1. B \in Nat /\ 1 <= B
  BY Sizes
<1>2. PICK q \in 0..n : n = q * B
  BY DEF WholeBlocks
<1>3. q + 1 \in 0..(n + B)
  BY <1>1, <1>2
<1>4. n + B = (q + 1) * B
  BY <1>1, <1>2
<1> QED
  BY <1>3, <1>4 DEF WholeBlocks

\* No block at all is a whole number of blocks
LEMMA NoBlock ==
  ASSUME kind \in Kinds
  PROVE  WholeBlocks(0)
BY Sizes DEF WholeBlocks

\* A power of 256 is a positive number, and each byte of the length field a byte
LEMMA FieldType ==
  ASSUME kind \in Kinds, NEW bits \in Nat
  PROVE  LengthField(bits) \in [1..L -> Byte]
<1>1. L \in Nat
  BY Sizes
<1> SUFFICES ASSUME NEW j \in 1..L PROVE (bits \div 256^(L - j)) % 256 \in Byte
  BY DEF LengthField
<1>2. L - j \in 0..LenBytes[kind]
  BY <1>1 DEF L
<1>3. 256^(L - j) \in Nat /\ 256^(L - j) > 0
  BY <1>2, PowerAssumption
<1>4. bits \div 256^(L - j) \in Int
  BY <1>3
<1> QED
  BY <1>4 DEF Byte

\* A number below the modulus is its own remainder
LEMMA SmallMod ==
  ASSUME NEW x \in Nat, NEW w \in Nat, x < w
  PROVE  x % w = x
OBVIOUS

-----------------------------------------------------------------------------
(* One pass of the loops *)

\* Writing n bytes at bufferLen leaves what was before them and puts them next
LEMMA WriteAtEffect ==
  ASSUME TypeOK, NEW d, NEW n \in Nat, bufferLen + n <= B,
         \A i \in 1..n : d[i] \in Byte
  PROVE  /\ WriteAt(d, n) \in [1..B -> Byte]
         /\ \A i \in 1..B : i <= bufferLen => WriteAt(d, n)[i] = buffer[i]
         /\ \A k \in 1..B : bufferLen < k /\ k <= bufferLen + n
                           => WriteAt(d, n)[k] = d[k - bufferLen]
<1>1. B \in Nat /\ bufferLen \in Nat /\ buffer \in [1..B -> Byte]
  BY Sizes DEF TypeOK
<1>2. ASSUME NEW i \in 1..B, bufferLen < i, i <= bufferLen + n
      PROVE  i - bufferLen \in 1..n
  BY <1>1, <1>2
<1>3. WriteAt(d, n) \in [1..B -> Byte]
  BY <1>1, <1>2 DEF WriteAt
<1>4. \A i \in 1..B : i <= bufferLen => WriteAt(d, n)[i] = buffer[i]
  BY <1>1 DEF WriteAt
<1>5. \A k \in 1..B : bufferLen < k /\ k <= bufferLen + n
                        => WriteAt(d, n)[k] = d[k - bufferLen]
  BY <1>1 DEF WriteAt
<1> QED
  BY <1>3, <1>4, <1>5

\* One pass of update()'s loop hands the next n bytes to the hasher, whether or
\* not they fill the buffer, and loses none of the earlier ones
LEMMA ConsumeEffect ==
  ASSUME TypeOK, bufferLen < B, WholeBlocks(Len(absorbed)), kind' = kind,
         NEW d, NEW n \in Nat, bufferLen + n <= B,
         \A i \in 1..n : d[i] \in Byte,
         Consume(d, n)
  PROVE  /\ absorbed' \in Seq(Byte) /\ buffer' \in [1..B -> Byte]
         /\ bufferLen' \in Nat /\ bufferLen' < B
         /\ WholeBlocks(Len(absorbed'))
         /\ Total' = Total + n
         /\ \A i \in 1..Total : ByteAt(absorbed', buffer', i) = At(i)
         /\ \A k \in 1 .. Total + n :
              Total < k => ByteAt(absorbed', buffer', k) = d[k - Total]
<1> DEFINE w == WriteAt(d, n)
<1>1. B \in Nat /\ 1 <= B /\ bufferLen \in Nat /\ absorbed \in Seq(Byte)
      /\ Len(absorbed) \in Nat
  BY Sizes DEF TypeOK
<1>2. /\ w \in [1..B -> Byte]
      /\ \A i \in 1..B : i <= bufferLen => w[i] = buffer[i]
      /\ \A k \in 1..B : bufferLen < k /\ k <= bufferLen + n => w[k] = d[k - bufferLen]
  BY WriteAtEffect
<1>3. buffer' = w
  BY DEF Consume
<1> HIDE DEF w
<1>4. CASE bufferLen + n = B
  <2>0. bufferLen' = 0
    BY <1>4 DEF Consume
  <2>1. absorbed' = absorbed \o w
    BY <1>4 DEF Consume, w
  <2>2. w \in Seq(Byte) /\ Len(w) = B
    BY <1>1, <1>2
  <2>3. absorbed' \in Seq(Byte) /\ Len(absorbed') = Len(absorbed) + B
    BY <1>1, <2>1, <2>2, ConcatProperties
  <2>4. WholeBlocks(Len(absorbed'))
    BY <1>1, <2>3, OneMoreBlock DEF TypeOK
  <2>5. Total' = Total + n
    BY <1>1, <1>4, <2>0, <2>3 DEF Total
  <2>6. ASSUME NEW i \in 1..(Len(absorbed) + B)
        PROVE  ByteAt(absorbed', buffer', i) = IF i <= Len(absorbed) THEN absorbed[i] ELSE w[i - Len(absorbed)]
    BY <1>1, <2>1, <2>2, <2>3, ConcatProperties DEF ByteAt
  <2>7. ASSUME NEW i \in 1..Total PROVE ByteAt(absorbed', buffer', i) = At(i)
    BY <1>1, <1>2, <1>4, <2>6, <2>7 DEF At, ByteAt, Total
  <2>8. ASSUME NEW k \in 1 .. Total + n, Total < k
        PROVE  ByteAt(absorbed', buffer', k) = d[k - Total]
    <3> DEFINE j == k - Len(absorbed)
    <3>1. k \in 1..(Len(absorbed) + B) /\ ~(k <= Len(absorbed))
      BY <1>1, <1>4, <2>8 DEF Total
    <3>2. j \in 1..B /\ bufferLen < j /\ j <= bufferLen + n /\ j - bufferLen = k - Total
      BY <1>1, <1>4, <2>8 DEF Total
    <3>3. ByteAt(absorbed', buffer', k) = w[j]
      BY <2>6, <3>1
    <3> HIDE DEF j
    <3> QED
      BY <1>2, <3>2, <3>3
  <2> QED
    BY <1>1, <1>2, <1>3, <2>0, <2>3, <2>4, <2>5, <2>7, <2>8
<1>5. CASE bufferLen + n # B
  <2>1. bufferLen' = bufferLen + n /\ absorbed' = absorbed
    BY <1>5 DEF Consume
  <2>2. Total' = Total + n
    BY <1>1, <2>1 DEF Total
  <2>3. ASSUME NEW i \in 1..Total PROVE ByteAt(absorbed', buffer', i) = At(i)
    BY <1>1, <1>2, <1>3, <2>1, <2>3 DEF At, ByteAt, Total
  <2>4. ASSUME NEW k \in 1 .. Total + n, Total < k
        PROVE  ByteAt(absorbed', buffer', k) = d[k - Total]
    <3> DEFINE j == k - Len(absorbed)
    <3>1. ~(k <= Len(absorbed))
      BY <1>1, <2>4 DEF Total
    <3>2. j \in 1..B /\ bufferLen < j /\ j <= bufferLen + n /\ j - bufferLen = k - Total
      BY <1>1, <2>4 DEF Total
    <3>3. ByteAt(absorbed', buffer', k) = w[j]
      BY <1>3, <2>1, <3>1 DEF ByteAt
    <3> HIDE DEF j
    <3> QED
      BY <1>2, <3>2, <3>3
  <2> QED
    BY <1>1, <1>2, <1>3, <1>5, <2>1, <2>2, <2>3, <2>4
<1> QED
  BY <1>4, <1>5

-----------------------------------------------------------------------------
(* Every step keeps HashInv *)

\* The hasher, the message and the digest stay as they are
SameContext == UNCHANGED <<kind, active, hasher, rest, lenBits, msg, out, pc>>

RetType == ret \in [op : {"none", "begin", "update", "finish", "reset"},
                   st : {"Ok", "BadParam"}]

\* The initial state of a context of each kind
LEMMA InitHashInv == Init => HashInv
<1> SUFFICES ASSUME Init PROVE HashInv
  OBVIOUS
<1>1. B \in Nat /\ 1 <= B
  BY Sizes DEF Init
<1>2. WordSize \in Nat /\ 0 \in 0..WordSize-1
  BY WordAssumption, BoundAssumption
<1>3. TypeOK
  <2>1. kind \in Kinds /\ active \in BOOLEAN /\ variant \in Kinds
    BY DEF Init, Kinds, OwnReset
  <2>2. absorbed \in Seq(Byte) /\ rest \in Seq(Data) /\ msg \in Seq(Data) /\ Len(msg) <= MaxLen
    BY BoundAssumption DEF Init
  <2>3. buffer \in [1..B -> Byte]
    BY DEF Init, Byte
  <2>4. bufferLen \in 0..B /\ bitLen \in 0..WordSize-1 /\ lenBits \in 0..WordSize-1
    BY <1>1, <1>2 DEF Init
  <2>5. out \in [variant : Kinds \cup {"none"}, bytes : Seq(Byte)]
    BY DEF Init, NoDigest
  <2>6. pc \in {"idle", "update", "zeros"} /\ RetType
    BY DEF Init, RetType
  <2> QED
    BY <2>1, <2>2, <2>3, <2>4, <2>5, <2>6 DEF TypeOK, RetType
<1>4. WholeBlocks(Len(absorbed))
  BY NoBlock DEF Init
<1> QED
  BY <1>1, <1>3, <1>4 DEF Init, HashInv, NoDigest, DigestIsOfMessage

\* A refused call, or an update with a null pointer
LEMMA SameContextKeeps ==
  ASSUME HashInv, SameContext, RetType'
  PROVE  HashInv'
<1>1. /\ kind' = kind /\ active' = active /\ variant' = variant
      /\ absorbed' = absorbed /\ buffer' = buffer /\ bufferLen' = bufferLen
      /\ bitLen' = bitLen /\ rest' = rest /\ lenBits' = lenBits
      /\ msg' = msg /\ out' = out /\ pc' = pc
  BY DEF SameContext, hasher
<1>2. TypeOK'
  BY <1>1 DEF HashInv, TypeOK, RetType, B
<1>3. bufferLen' < B' /\ WholeBlocks(Len(absorbed))'
  BY <1>1 DEF HashInv, WholeBlocks, B
<1>4. (active => variant = kind /\ out = NoDigest /\ PrefixHeld)'
  BY <1>1 DEF HashInv, PrefixHeld, At, Total
<1>5. (active /\ pc = "idle" => IdleInv)' /\ (pc = "update" => UpdateInv)'
  BY <1>1 DEF HashInv, IdleInv, UpdateInv, Total
<1>6. (pc = "zeros" => ZerosInv)'
  BY <1>1 DEF HashInv, ZerosInv, At, Total, B, L
<1>7. DigestIsOfMessage'
  BY <1>1 DEF HashInv, DigestIsOfMessage, IsPaddingOf, WholeBlocks, LengthField, B, L
<1> QED
  BY <1>1, <1>2, <1>3, <1>4, <1>5, <1>6, <1>7 DEF HashInv

\* begin() and reset() empty the hasher, and only begin() opens the context
LEMMA BeginKeeps ==
  ASSUME HashInv, shaBegin
  PROVE  HashInv'
<1>1. B \in Nat /\ 1 <= B /\ kind \in Kinds
  BY Sizes DEF HashInv, TypeOK
<1>2. kind' = kind /\ B' = B
  BY DEF shaBegin, B
<1>3. /\ absorbed' = <<>> /\ bufferLen' = 0 /\ bitLen' = 0 /\ variant' = kind
      /\ buffer' = buffer /\ active' = TRUE /\ msg' = <<>> /\ out' = NoDigest
      /\ pc' = "idle" /\ rest' = rest /\ lenBits' = lenBits
      /\ ret' = [op |-> "begin", st |-> "Ok"]
  BY DEF shaBegin, Reset, Return
<1>4. TypeOK'
  BY <1>1, <1>2, <1>3, WordAssumption, BoundAssumption DEF HashInv, TypeOK, NoDigest
<1>5. WholeBlocks(Len(absorbed))'
  BY <1>1, <1>2, <1>3, NoBlock DEF WholeBlocks
<1>6. PrefixHeld' /\ IdleInv'
  BY <1>3 DEF PrefixHeld, IdleInv, Total
<1>7. DigestIsOfMessage'
  BY <1>3 DEF DigestIsOfMessage, NoDigest
<1> QED
  BY <1>1, <1>2, <1>3, <1>4, <1>5, <1>6, <1>7 DEF HashInv

\* reset() keeps the invariant.
LEMMA ResetKeeps ==
  ASSUME HashInv, reset
  PROVE  HashInv'
<1>1. B \in Nat /\ 1 <= B /\ kind \in Kinds
  BY Sizes DEF HashInv, TypeOK
<1>2. kind' = kind /\ B' = B /\ L' = L
  BY DEF reset, B, L
<1>3. /\ absorbed' = <<>> /\ bufferLen' = 0 /\ bitLen' = 0 /\ variant' = kind
      /\ buffer' = buffer /\ active' = FALSE /\ msg' = msg /\ out' = out
      /\ pc' = "idle" /\ rest' = rest /\ lenBits' = lenBits
      /\ ret' = [op |-> "reset", st |-> "Ok"]
  BY DEF reset, Reset, Return
<1>4. TypeOK'
  <2>1. absorbed' \in Seq(Byte) /\ 0 \in 0..WordSize-1 /\ 0 \in 0..B
    BY <1>1, <1>3, WordAssumption, BoundAssumption
  <2> QED
    BY <1>1, <1>2, <1>3, <2>1 DEF HashInv, TypeOK
<1>5. WholeBlocks(Len(absorbed))'
  BY <1>1, <1>2, <1>3, NoBlock DEF WholeBlocks
<1>6. DigestIsOfMessage'
  BY <1>2, <1>3 DEF HashInv, DigestIsOfMessage, IsPaddingOf, WholeBlocks, LengthField
<1> QED
  BY <1>1, <1>2, <1>3, <1>4, <1>5, <1>6 DEF HashInv

\* update() counts the bits of its chunk before it has taken any of it
LEMMA UpdateKeeps ==
  ASSUME HashInv, NEW d \in Chunks, NEW null \in BOOLEAN, shaUpdate(d, null)
  PROVE  HashInv'
<1>1. CASE ~active
  BY <1>1, SameContextKeeps
     DEF shaUpdate, Refuse, Return, SameContext, RetType, hasher
<1>2. CASE active /\ null
  <2>1. /\ pc = "idle" /\ Return("update", "Ok")
        /\ UNCHANGED <<kind, active, hasher, rest, lenBits, msg, out>>
    BY <1>2 DEF shaUpdate
  <2>2. SameContext /\ RetType'
    BY <2>1 DEF SameContext, RetType, Return
  <2> QED
    BY <2>2, SameContextKeeps
<1>3. CASE active /\ ~null
  <2>1. /\ pc = "idle" /\ pc' = "update" /\ Len(msg) + Len(d) <= MaxLen
        /\ bitLen' = AddBits(Len(d)) /\ rest' = d /\ msg' = msg \o d
        /\ kind' = kind /\ active' = active /\ variant' = variant
        /\ absorbed' = absorbed /\ buffer' = buffer /\ bufferLen' = bufferLen
        /\ lenBits' = lenBits /\ out' = out /\ ret' = ret
    BY <1>3 DEF shaUpdate, Refuse, Return
  <2>2. d \in Seq(Data) /\ Len(d) \in Nat
    BY BoundAssumption DEF Chunks
  <2>3. msg \in Seq(Data) /\ Len(msg) \in Nat /\ Len(msg) <= MaxLen
    BY DEF HashInv, TypeOK
  <2>4. /\ msg' \in Seq(Data) /\ Len(msg') = Len(msg) + Len(d)
        /\ \A i \in 1 .. Len(msg) + Len(d) :
             msg'[i] = IF i <= Len(msg) THEN msg[i] ELSE d[i - Len(msg)]
    BY <2>1, <2>2, <2>3, ConcatProperties
  <2>5. Total = Len(msg) /\ bitLen = 8 * Len(msg)
    BY <1>3, <2>1 DEF HashInv, IdleInv
  <2>6. bitLen' = 8 * Len(msg') /\ bitLen' \in 0..WordSize-1
    <3>1. bitLen' = (8 * Len(msg')) % WordSize
      BY <2>1, <2>2, <2>3, <2>4, <2>5 DEF AddBits
    <3>2. 8 * Len(msg') \in Nat /\ 8 * Len(msg') < WordSize /\ WordSize \in Nat
      BY <2>1, <2>2, <2>3, <2>4, WordAssumption, BoundAssumption
    <3> QED
      BY <3>1, <3>2, SmallMod
  <2>7. Total' = Total /\ Total \in Nat /\ \A i : At(i)' = At(i)
    BY <2>1, Sizes DEF Total, At, HashInv, TypeOK
  <2>8. TypeOK'
    BY <2>1, <2>2, <2>3, <2>4, <2>6 DEF HashInv, TypeOK, B
  <2>9. PrefixHeld'
    BY <1>3, <2>3, <2>2, <2>4, <2>5, <2>7 DEF HashInv, PrefixHeld
  <2>10. UpdateInv'
    BY <2>1, <2>2, <2>3, <2>4, <2>5, <2>6, <2>7, SMTT(30) DEF UpdateInv
  <2>11. DigestIsOfMessage'
    BY <1>3, <2>1 DEF HashInv, DigestIsOfMessage, NoDigest
  <2>12. WholeBlocks(Len(absorbed))' /\ bufferLen' < B'
    BY <2>1 DEF HashInv, WholeBlocks, B
  <2> QED
    BY <1>3, <2>1, <2>8, <2>9, <2>10, <2>11, <2>12 DEF HashInv
<1> QED
  BY <1>1, <1>2, <1>3

\* A pass of update()'s loop moves bytes from the chunk to the hasher
LEMMA UpdateLoopKeeps ==
  ASSUME HashInv, UpdateLoop
  PROVE  HashInv'
<1> DEFINE n == IF B - bufferLen > Len(rest) THEN Len(rest) ELSE B - bufferLen
<1>1. /\ pc = "update" /\ Consume(rest, n)
      /\ rest' = SubSeq(rest, n + 1, Len(rest))
      /\ kind' = kind /\ active' = active /\ variant' = variant
      /\ bitLen' = bitLen /\ pc' = pc /\ lenBits' = lenBits /\ msg' = msg
      /\ out' = out /\ ret' = ret
  BY DEF UpdateLoop
<1>2. /\ TypeOK /\ UpdateInv /\ active /\ PrefixHeld /\ out = NoDigest
      /\ variant = kind /\ bufferLen < B /\ WholeBlocks(Len(absorbed))
  BY <1>1 DEF HashInv
<1>3. /\ B \in Nat /\ bufferLen \in Nat /\ rest \in Seq(Data) /\ Len(rest) \in Nat
      /\ Len(msg) \in Nat /\ Total \in Nat
  BY <1>2, Sizes DEF TypeOK, Total
<1>4. n \in Nat /\ bufferLen + n <= B /\ n <= Len(rest)
  BY <1>2, <1>3
<1> HIDE DEF n
<1>5. \A i \in 1..n : rest[i] \in Byte
  BY <1>3, <1>4, DataAssumption
<1>6. /\ absorbed' \in Seq(Byte) /\ buffer' \in [1..B -> Byte]
      /\ bufferLen' \in Nat /\ bufferLen' < B
      /\ WholeBlocks(Len(absorbed'))
      /\ Total' = Total + n
      /\ \A i \in 1..Total : ByteAt(absorbed', buffer', i) = At(i)
      /\ \A k \in 1 .. Total + n :
           Total < k => ByteAt(absorbed', buffer', k) = rest[k - Total]
  BY <1>1, <1>2, <1>4, <1>5, ConsumeEffect
<1>7. /\ rest' \in Seq(Data) /\ Len(rest') = Len(rest) - n
      /\ \A i \in 1 .. Len(rest) - n : rest'[i] = rest[n + i]
  <2> DEFINE s == SubSeq(rest, n + 1, Len(rest))
  <2>1. n + 1 \in Int /\ Len(rest) \in Int /\ \A i \in n + 1 .. Len(rest) : rest[i] \in Data
    BY <1>3, <1>4
  <2>2. /\ s \in Seq(Data)
        /\ Len(s) = IF n + 1 <= Len(rest) THEN Len(rest) - (n + 1) + 1 ELSE 0
        /\ \A i \in 1 .. Len(rest) - (n + 1) + 1 : s[i] = rest[n + 1 + i - 1]
    BY <2>1, SubSeqProperties
  <2> HIDE DEF s
  <2>3. Len(s) = Len(rest) - n
    BY <1>3, <1>4, <2>2
  <2>4. ASSUME NEW i \in 1 .. Len(rest) - n PROVE s[i] = rest[n + i]
    BY <1>3, <1>4, <2>2
  <2>5. rest' = s
    BY <1>1 DEF s
  <2> QED
    BY <2>2, <2>3, <2>4, <2>5
<1>8. B' = B
  BY <1>1 DEF B
<1>9. TypeOK'
  BY <1>1, <1>2, <1>3, <1>6, <1>7, <1>8 DEF TypeOK
<1>10. PrefixHeld'
  <2>1. ASSUME NEW i \in 1..Len(msg), i <= Total + n
        PROVE  ByteAt(absorbed', buffer', i) = msg[i]
    <3>1. CASE i <= Total
      BY <1>2, <1>3, <1>6, <3>1 DEF PrefixHeld
    <3>2. CASE Total < i
      <4>1. i - Total \in 1..Len(rest) /\ Total + (i - Total) = i
        BY <1>3, <1>4, <2>1, <3>2
      <4>2. rest[i - Total] = msg[i]
        BY <1>2, <4>1 DEF UpdateInv
      <4> QED
        BY <1>3, <1>6, <2>1, <3>2, <4>2
    <3> QED
      BY <1>3, <3>1, <3>2
  <2> QED
    BY <1>1, <1>6, <2>1 DEF PrefixHeld, At
<1>11. UpdateInv'
  <2>1. ASSUME NEW i \in 1..Len(rest') PROVE rest'[i] = msg[Total + n + i]
    <3>1. n + i \in 1..Len(rest) /\ Total + (n + i) = Total + n + i
      BY <1>3, <1>4, <1>7
    <3>2. rest[n + i] = msg[Total + (n + i)]
      BY <1>2, <3>1 DEF UpdateInv
    <3> QED
      BY <1>7, <3>1, <3>2
  <2>2. Total' + Len(rest') = Len(msg')
    <3>1. msg' = msg /\ Total' = Total + n /\ Len(rest') = Len(rest) - n
      BY <1>1, <1>6, <1>7
    <3>2. Total + Len(rest) = Len(msg)
      BY <1>2 DEF UpdateInv
    <3> QED
      BY <1>3, <1>4, <3>1, <3>2
  <2>3. bitLen' = 8 * Len(msg')
    BY <1>1, <1>2 DEF UpdateInv
  <2> QED
    BY <1>1, <1>6, <2>1, <2>2, <2>3 DEF UpdateInv
<1>12. DigestIsOfMessage'
  BY <1>1, <1>2 DEF DigestIsOfMessage, NoDigest
<1>13. WholeBlocks(Len(absorbed))'
  BY <1>6, <1>8 DEF WholeBlocks
<1> QED
  BY <1>1, <1>2, <1>6, <1>8, <1>9, <1>10, <1>11, <1>12, <1>13 DEF HashInv

\* update() returns with its whole chunk taken
LEMMA UpdateReturnKeeps ==
  ASSUME HashInv, UpdateReturn
  PROVE  HashInv'
<1>1. /\ pc = "update" /\ rest = <<>> /\ pc' = "idle"
      /\ ret' = [op |-> "update", st |-> "Ok"]
      /\ kind' = kind /\ active' = active /\ variant' = variant
      /\ absorbed' = absorbed /\ buffer' = buffer /\ bufferLen' = bufferLen
      /\ bitLen' = bitLen /\ rest' = rest /\ lenBits' = lenBits
      /\ msg' = msg /\ out' = out
  BY DEF UpdateReturn, Return, hasher
<1>2. TypeOK'
  BY <1>1 DEF HashInv, TypeOK, B
<1>3. bufferLen' < B' /\ WholeBlocks(Len(absorbed))'
  BY <1>1 DEF HashInv, WholeBlocks, B
<1>4. (variant = kind /\ out = NoDigest /\ PrefixHeld)'
  BY <1>1 DEF HashInv, PrefixHeld, At, Total
<1>5. IdleInv'
  <2>1. UpdateInv /\ Len(rest) = 0 /\ Total \in Nat
    BY <1>1, Sizes DEF HashInv, TypeOK, Total
  <2> QED
    BY <1>1, <2>1 DEF UpdateInv, IdleInv, Total
<1>6. DigestIsOfMessage'
  BY <1>1 DEF HashInv, DigestIsOfMessage, NoDigest
<1> QED
  BY <1>1, <1>2, <1>3, <1>4, <1>5, <1>6 DEF HashInv

\* bitLen_ stays a word
LEMMA AddBitsType ==
  ASSUME TypeOK, NEW n \in Nat
  PROVE  AddBits(n) \in 0..WordSize-1
<1>1. WordSize \in Nat /\ WordSize > 0
  BY WordAssumption, BoundAssumption
<1>2. bitLen + 8 * n \in Nat
  BY <1>1 DEF TypeOK
<1> QED
  BY <1>1, <1>2 DEF AddBits

\* One more byte, the 0x80 or a zero, follows what the hasher holds
LEMMA OneByte ==
  ASSUME HashInv, active, kind' = kind, msg' = msg, NEW c \in Byte, Consume(<<c>>, 1),
         Len(msg) <= Total
  PROVE  /\ absorbed' \in Seq(Byte) /\ (buffer \in [1..B -> Byte])'
         /\ (bufferLen \in 0..B)' /\ bufferLen' < B' /\ WholeBlocks(Len(absorbed))'
         /\ bufferLen' = IF bufferLen + 1 = B THEN 0 ELSE bufferLen + 1
         /\ Total' = Total + 1
         /\ PrefixHeld'
         /\ \A i \in 1..Total : ByteAt(absorbed', buffer', i) = At(i)
         /\ ByteAt(absorbed', buffer', Total + 1) = c
<1>1. /\ B \in Nat /\ bufferLen \in Nat /\ bufferLen < B /\ Len(msg) \in Nat
      /\ Total \in Nat /\ B' = B
  BY Sizes DEF HashInv, TypeOK, Total, B
<1>2. bufferLen + 1 <= B /\ \A i \in 1..1 : <<c>>[i] \in Byte
  BY <1>1
<1>3. /\ absorbed' \in Seq(Byte) /\ buffer' \in [1..B -> Byte]
      /\ bufferLen' \in Nat /\ bufferLen' < B
      /\ WholeBlocks(Len(absorbed'))
      /\ Total' = Total + 1
      /\ \A i \in 1..Total : ByteAt(absorbed', buffer', i) = At(i)
      /\ \A k \in 1 .. Total + 1 :
           Total < k => ByteAt(absorbed', buffer', k) = <<c>>[k - Total]
  BY <1>2, ConsumeEffect DEF HashInv
<1>4. ByteAt(absorbed', buffer', Total + 1) = c
  <2>1. Total + 1 \in 1 .. Total + 1 /\ Total < Total + 1 /\ Total + 1 - Total = 1
    BY <1>1
  <2>2. ByteAt(absorbed', buffer', Total + 1) = <<c>>[Total + 1 - Total]
    BY <1>1, <1>3, <2>1
  <2> QED
    BY <2>1, <2>2
<1>5. PrefixHeld'
  <2>1. ASSUME NEW i \in 1..Len(msg) PROVE ByteAt(absorbed', buffer', i) = msg[i]
    BY <1>1, <1>3 DEF HashInv, PrefixHeld
  <2> QED
    BY <2>1 DEF PrefixHeld, At
<1>6. WholeBlocks(Len(absorbed))' /\ (buffer \in [1..B -> Byte])'
  BY <1>1, <1>3 DEF WholeBlocks
<1>7. bufferLen' = IF bufferLen + 1 = B THEN 0 ELSE bufferLen + 1
  BY DEF Consume
<1> QED
  BY <1>1, <1>3, <1>4, <1>5, <1>6, <1>7

\* finish() saves the length and appends 0x80
LEMMA FinishKeeps ==
  ASSUME HashInv, NEW null \in BOOLEAN, shaFinish(null)
  PROVE  HashInv'
<1>1. CASE ~active \/ null
  <2>1. pc = "idle" /\ Refuse("finish")
    BY <1>1 DEF shaFinish
  <2>2. SameContext /\ RetType'
    BY <2>1 DEF SameContext, RetType, Refuse, Return
  <2> QED
    BY <2>2, SameContextKeeps
<1>2. CASE active /\ ~null
  <2>1. /\ pc = "idle" /\ pc' = "zeros" /\ lenBits' = bitLen /\ bitLen' = AddBits(1)
        /\ Consume(<<128>>, 1)
        /\ kind' = kind /\ active' = active /\ variant' = variant /\ rest' = rest
        /\ msg' = msg /\ out' = out /\ ret' = ret
    BY <1>2 DEF shaFinish, Refuse
  <2>2. Total = Len(msg) /\ bitLen = 8 * Len(msg)
    BY <1>2, <2>1 DEF HashInv, IdleInv
  <2>3. /\ B \in Nat /\ L \in Nat /\ L < B /\ Len(msg) \in Nat
        /\ B' = B /\ L' = L
    BY <2>1, Sizes DEF HashInv, TypeOK, B, L
  <2>4. /\ absorbed' \in Seq(Byte) /\ (buffer \in [1..B -> Byte])'
        /\ (bufferLen \in 0..B)' /\ bufferLen' < B' /\ WholeBlocks(Len(absorbed))'
        /\ Total' = Total + 1
        /\ PrefixHeld'
        /\ ByteAt(absorbed', buffer', Total + 1) = 128
    <3>1. 128 \in Byte /\ Len(msg) <= Total
      BY <2>2, <2>3 DEF Byte
    <3> QED
      BY <1>2, <2>1, <3>1, OneByte
  <2>5. TypeOK'
    BY <2>1, <2>4, AddBitsType DEF HashInv, TypeOK
  <2>6. ZerosInv'
    <3>1. lenBits' = 8 * Len(msg') /\ Total' = Len(msg') + 1
      BY <2>1, <2>2, <2>4
    <3>2. At(Len(msg) + 1)' = 128
      BY <2>1, <2>2, <2>4 DEF At
    <3>3. (\A i \in Len(msg) + 2 .. Total : At(i) = 0)'
      BY <2>1, <2>3, <3>1
    <3>4. Total' - (Len(msg') + 1) = 0 /\ bufferLen' \in Nat
      BY <2>1, <2>3, <2>4, <3>1
    <3>5. LET z == Total' - (Len(msg') + 1) IN
          0 <= z /\ z <= bufferLen' /\ (bufferLen' > B' - L' => bufferLen' - z > B' - L')
      BY <2>3, <3>4
    <3> QED
      BY <3>1, <3>2, <3>3, <3>5 DEF ZerosInv
  <2>7. DigestIsOfMessage'
    BY <1>2, <2>1 DEF HashInv, DigestIsOfMessage, NoDigest
  <2> QED
    BY <1>2, <2>1, <2>4, <2>5, <2>6, <2>7 DEF HashInv
<1> QED
  BY <1>1, <1>2

\* A pass of the padding loop appends a zero and does not overshoot its exit
LEMMA FinishZeroKeeps ==
  ASSUME HashInv, FinishZero
  PROVE  HashInv'
<1>1. /\ pc = "zeros" /\ bufferLen # B - L /\ bitLen' = AddBits(1) /\ Consume(<<0>>, 1)
      /\ kind' = kind /\ active' = active /\ variant' = variant /\ pc' = pc
      /\ rest' = rest /\ lenBits' = lenBits /\ msg' = msg /\ out' = out /\ ret' = ret
  BY DEF FinishZero, PaddingDone
<1>2. /\ active /\ ZerosInv /\ variant = kind /\ out = NoDigest /\ TypeOK
      /\ bufferLen < B
  BY <1>1 DEF HashInv
<1>3. /\ B \in Nat /\ L \in Nat /\ 1 <= L /\ L < B /\ Len(msg) \in Nat /\ bufferLen \in Nat
      /\ Total \in Nat /\ B' = B /\ L' = L
  BY <1>1, <1>2, Sizes DEF TypeOK, B, L, Total
<1>4. Len(msg) + 1 <= Total
  BY <1>2, <1>3 DEF ZerosInv
<1>5. /\ absorbed' \in Seq(Byte) /\ (buffer \in [1..B -> Byte])'
      /\ (bufferLen \in 0..B)' /\ bufferLen' < B' /\ WholeBlocks(Len(absorbed))'
      /\ bufferLen' = IF bufferLen + 1 = B THEN 0 ELSE bufferLen + 1
      /\ Total' = Total + 1
      /\ PrefixHeld'
      /\ \A i \in 1..Total : ByteAt(absorbed', buffer', i) = At(i)
      /\ ByteAt(absorbed', buffer', Total + 1) = 0
  <2>1. 0 \in Byte /\ Len(msg) <= Total
    BY <1>3, <1>4 DEF Byte
  <2> QED
    BY <1>1, <1>2, <2>1, OneByte
<1>6. TypeOK'
  BY <1>1, <1>2, <1>5, AddBitsType DEF TypeOK
<1>7. ZerosInv'
  <2> DEFINE z == Total - (Len(msg) + 1)
  <2>1. lenBits' = 8 * Len(msg')
    BY <1>1, <1>2 DEF ZerosInv
  <2>2. z \in Nat /\ z' = z + 1
    BY <1>1, <1>3, <1>4, <1>5
  <2>3. At(Len(msg) + 1)' = 128
    <3>1. Len(msg) + 1 \in 1..Total /\ At(Len(msg) + 1) = 128
      BY <1>2, <1>3, <1>4 DEF ZerosInv
    <3> QED
      BY <1>1, <1>5, <3>1 DEF At
  <2>4. ASSUME NEW i \in Len(msg) + 2 .. Total + 1
        PROVE  ByteAt(absorbed', buffer', i) = 0
    <3>1. CASE i = Total + 1
      BY <1>5, <3>1
    <3>2. CASE i # Total + 1
      <4>1. i \in Len(msg) + 2 .. Total /\ i \in 1..Total
        BY <1>3, <3>2
      <4> QED
        BY <1>2, <1>5, <4>1 DEF ZerosInv
    <3> QED
      BY <3>1, <3>2
  <2>5. (\A i \in Len(msg) + 2 .. Total : At(i) = 0)'
    BY <1>1, <1>5, <2>4 DEF At
  <2>6. \/ z <= bufferLen /\ (bufferLen > B - L => bufferLen - z > B - L)
        \/ bufferLen <= B - L /\ z < L + bufferLen
    BY <1>2 DEF ZerosInv
  <2> HIDE DEF z
  <2>7. \/ z + 1 <= bufferLen' /\ (bufferLen' > B - L => bufferLen' - (z + 1) > B - L)
        \/ bufferLen' <= B - L /\ z + 1 < L + bufferLen'
    BY <1>1, <1>2, <1>3, <1>5, <2>2, <2>6
  <2>8. 0 <= z'
    BY <2>2
  <2> QED
    BY <1>3, <2>1, <2>2, <2>3, <2>5, <2>7, <2>8 DEF ZerosInv, z
<1>8. DigestIsOfMessage'
  BY <1>1, <1>2 DEF DigestIsOfMessage, NoDigest
<1> QED
  BY <1>1, <1>2, <1>5, <1>6, <1>7, <1>8 DEF HashInv

\* The block that takes the length field makes the padding complete
LEMMA DigestIsPadding ==
  ASSUME HashInv, pc = "zeros", PaddingDone
  PROVE  /\ WriteAt(LengthField(lenBits), L) \in [1..B -> Byte]
         /\ absorbed \o WriteAt(LengthField(lenBits), L) \in Seq(Byte)
         /\ IsPaddingOf(absorbed \o WriteAt(LengthField(lenBits), L), msg)
<1> DEFINE f == LengthField(lenBits)
           w == WriteAt(f, L)
           bytes == absorbed \o w
           m == Len(msg)
           a == Len(absorbed)
<1>1. /\ TypeOK /\ ZerosInv /\ PrefixHeld /\ WholeBlocks(a) /\ active
  BY DEF HashInv
<1>2. /\ B \in Nat /\ L \in Nat /\ 1 <= L /\ L < B /\ m \in Nat /\ a \in Nat
      /\ absorbed \in Seq(Byte) /\ lenBits \in Nat
  BY <1>1, Sizes DEF TypeOK
<1>3. bufferLen = B - L /\ Total = a + (B - L)
  BY DEF PaddingDone, Total
<1>4. lenBits = 8 * m
  BY <1>1 DEF ZerosInv
<1>5. f \in [1..L -> Byte]
  BY <1>1, <1>2, FieldType DEF TypeOK
<1>6. /\ w \in [1..B -> Byte]
      /\ \A i \in 1..B : i <= bufferLen => w[i] = buffer[i]
      /\ \A k \in 1..B : bufferLen < k /\ k <= bufferLen + L => w[k] = f[k - bufferLen]
  <2>1. bufferLen + L <= B /\ \A i \in 1..L : f[i] \in Byte
    BY <1>2, <1>3, <1>5
  <2> QED
    BY <1>1, <1>2, <2>1, WriteAtEffect
<1> HIDE DEF w
<1>7. w \in Seq(Byte) /\ Len(w) = B
  BY <1>2, <1>6
<1>8. /\ bytes \in Seq(Byte) /\ Len(bytes) = a + B
      /\ \A i \in 1 .. a + B : bytes[i] = IF i <= a THEN absorbed[i] ELSE w[i - a]
  BY <1>2, <1>7, ConcatProperties
<1> HIDE DEF bytes
<1>9. WholeBlocks(Len(bytes))
  BY <1>1, <1>2, <1>8, OneMoreBlock DEF TypeOK
<1>10. m + 1 <= Total /\ Total < m + 1 + B
  BY <1>1, <1>2, <1>3 DEF ZerosInv
<1>11. m + 1 + L <= Len(bytes) /\ Len(bytes) < m + 1 + L + B
  BY <1>2, <1>3, <1>8, <1>10
<1>12. ASSUME NEW i \in 1..Total PROVE bytes[i] = At(i)
  <2>1. i \in 1 .. a + B /\ (~(i <= a) => i - a \in 1..B /\ i - a <= bufferLen)
    BY <1>2, <1>3
  <2> QED
    BY <1>6, <1>8, <2>1 DEF At, ByteAt
<1>13. ASSUME NEW i \in 1..Len(bytes), Total < i
       PROVE  bytes[i] = f[i - Total]
  <2> DEFINE k == i - a
  <2>1. i \in 1 .. a + B /\ ~(i <= a)
    BY <1>2, <1>3, <1>8, <1>13
  <2>2. k \in 1..B /\ bufferLen < k /\ k <= bufferLen + L /\ k - bufferLen = i - Total
    BY <1>2, <1>3, <1>8, <1>13
  <2>3. bytes[i] = w[k]
    BY <1>8, <2>1
  <2> HIDE DEF k
  <2> QED
    BY <1>6, <2>2, <2>3
<1>14. ASSUME NEW i \in 1..Len(bytes)
       PROVE  bytes[i] = IF i <= m THEN msg[i]
                         ELSE IF i = m + 1 THEN 128
                         ELSE IF i <= Len(bytes) - L THEN 0
                         ELSE LengthField(8 * m)[i - (Len(bytes) - L)]
  <2>1. Len(bytes) - L = Total /\ Total \in Nat
    BY <1>2, <1>3, <1>8
  <2>2. CASE i <= m
    <3>1. i \in 1..Total /\ i \in 1..m
      BY <1>2, <1>10, <2>1, <2>2
    <3> QED
      BY <1>1, <1>2, <1>12, <2>2, <3>1 DEF PrefixHeld
  <2>3. CASE ~(i <= m) /\ i = m + 1
    <3>1. m + 1 \in 1..Total
      BY <1>2, <1>10, <2>1
    <3> QED
      BY <1>1, <1>12, <2>3, <3>1 DEF ZerosInv
  <2>4. CASE ~(i <= m) /\ i # m + 1 /\ i <= Total
    <3>1. i \in 1..Total /\ i \in m + 2 .. Total
      BY <1>2, <2>1, <2>4
    <3>2. At(i) = 0
      BY <1>1, <3>1 DEF ZerosInv
    <3> QED
      BY <1>12, <2>1, <2>4, <3>1, <3>2
  <2>5. CASE ~(i <= m) /\ i # m + 1 /\ ~(i <= Total)
    <3>1. bytes[i] = f[i - Total]
      BY <1>13, <2>1, <2>5
    <3>2. f = LengthField(8 * m)
      BY <1>4
    <3> QED
      BY <2>1, <2>5, <3>1, <3>2
  <2> QED
    BY <2>2, <2>3, <2>4, <2>5
<1>15. IsPaddingOf(bytes, msg)
  BY <1>9, <1>11, <1>14 DEF IsPaddingOf
<1> QED
  BY <1>6, <1>8, <1>15 DEF w, bytes

\* finish() delivers the digest of the message and closes the context
LEMMA FinishDigestKeeps ==
  ASSUME HashInv, FinishDigest
  PROVE  HashInv'
<1> DEFINE w == WriteAt(LengthField(lenBits), L)
<1>1. /\ pc = "zeros" /\ PaddingDone /\ out' = [variant |-> variant, bytes |-> absorbed \o w]
      /\ buffer' = w /\ variant' = OwnReset(kind) /\ absorbed' = <<>> /\ bufferLen' = 0
      /\ bitLen' = 0 /\ active' = FALSE /\ lenBits' = 0 /\ pc' = "idle"
      /\ ret' = [op |-> "finish", st |-> "Ok"]
      /\ kind' = kind /\ rest' = rest /\ msg' = msg
  BY DEF FinishDigest, Return
<1>2. /\ w \in [1..B -> Byte] /\ absorbed \o w \in Seq(Byte)
      /\ IsPaddingOf(absorbed \o w, msg)
  BY <1>1, DigestIsPadding
<1> HIDE DEF w
<1>3. /\ TypeOK /\ variant = kind /\ kind \in Kinds /\ B \in Nat /\ 1 <= B
  BY <1>1, Sizes DEF HashInv, TypeOK
<1>4. B' = B /\ L' = L
  BY <1>1 DEF B, L
<1>5. TypeOK'
  <2>1. variant' \in Kinds
    BY <1>1, <1>3 DEF OwnReset, Kinds
  <2>2. 0 \in 0..WordSize-1 /\ 0 \in 0..B /\ <<>> \in Seq(Byte)
    BY <1>3, WordAssumption, BoundAssumption
  <2>3. out' \in [variant : Kinds \cup {"none"}, bytes : Seq(Byte)]
    BY <1>1, <1>2, <1>3
  <2> QED
    BY <1>1, <1>2, <1>3, <1>4, <2>1, <2>2, <2>3 DEF TypeOK
<1>6. WholeBlocks(Len(absorbed))' /\ bufferLen' < B'
  BY <1>1, <1>3, <1>4, NoBlock DEF WholeBlocks
<1>7. DigestIsOfMessage'
  <2>1. out'.variant = kind' /\ out'.bytes = absorbed \o w
    BY <1>1, <1>3
  <2> DEFINE s == absorbed \o w
  <2>2. IsPaddingOf(s, msg) /\ out'.bytes = s /\ msg' = msg
    BY <1>1, <1>2, <2>1
  <2> HIDE DEF s
  <2>3. IsPaddingOf(out.bytes, msg)'
    BY <1>4, <2>2 DEF IsPaddingOf, WholeBlocks, LengthField
  <2> QED
    BY <2>1, <2>3 DEF DigestIsOfMessage
<1> QED
  BY <1>1, <1>5, <1>6, <1>7 DEF HashInv

-----------------------------------------------------------------------------
(* The theorems *)

\* HashInv is an invariant of the context
LEMMA HashInvariant == Spec => []HashInv
<1>1. ASSUME HashInv, Next PROVE HashInv'
  <2>1. CASE \E d \in Chunks, null \in BOOLEAN : shaUpdate(d, null)
    BY <1>1, <2>1, UpdateKeeps
  <2>2. CASE \E null \in BOOLEAN : shaFinish(null)
    BY <1>1, <2>2, FinishKeeps
  <2> QED
    BY <1>1, <2>1, <2>2, BeginKeeps, ResetKeeps, UpdateLoopKeeps, UpdateReturnKeeps,
       FinishZeroKeeps, FinishDigestKeeps DEF Next, Running
<1>2. ASSUME HashInv, UNCHANGED vars PROVE HashInv'
  <2>1. SameContext /\ ret' = ret
    BY <1>2 DEF vars, SameContext, hasher
  <2>2. RetType'
    BY <1>2, <2>1 DEF HashInv, TypeOK, RetType
  <2> QED
    BY <1>2, <2>1, <2>2, SameContextKeeps
<1> QED
  BY <1>1, <1>2, InitHashInv, PTL DEF Spec

\* Type correctness of the context: buffer_ is never overrun and bitLen_ stays
\* within its word
THEOREM HashTypeCorrect == Spec => []TypeOK
<1>1. HashInv => TypeOK
  BY DEF HashInv
<1> QED
  BY <1>1, HashInvariant, PTL

\* What finish() delivers is the digest of exactly the bytes passed to update()
\* since begin(), under the right variant, for every block length, every way of
\* cutting the message into chunks and every earlier use of the context
THEOREM DigestCorrect == Spec => []DigestIsOfMessage
<1>1. HashInv => DigestIsOfMessage
  BY DEF HashInv
<1> QED
  BY <1>1, HashInvariant, PTL

-----------------------------------------------------------------------------
(* The loops of update() and finish() come to an end *)

\* A bound on the steps the running call still takes: a pass of the loop in
\* update() takes at least one byte, and the padding loop walks bufferLen_ up to
\* B - L, past the end of the block first when it starts beyond it
PassesLeft ==
  IF pc = "update" THEN Len(rest) + 1
  ELSE IF pc = "zeros"
       THEN 1 + (IF bufferLen <= B - L THEN B - L - bufferLen
                                       ELSE 2 * B - L - bufferLen)
       ELSE 0

LEMMA PassesBounded ==
  ASSUME HashInv
  PROVE  PassesLeft \in Nat /\ (pc = "zeros" => PassesLeft <= B)
<1>1. /\ Len(rest) \in Nat /\ bufferLen \in Nat /\ bufferLen < B /\ B \in Nat
      /\ L \in Nat /\ 1 <= L /\ L < B
  BY Sizes DEF HashInv, TypeOK
<1> QED
  BY <1>1 DEF PassesLeft

\* A pass of the loop in update() shortens what is left of the data
LEMMA UpdateLoopAdvances ==
  ASSUME HashInv, UpdateLoop
  PROVE  PassesLeft' < PassesLeft
<1> DEFINE n == IF B - bufferLen > Len(rest) THEN Len(rest) ELSE B - bufferLen
<1>1. /\ pc = "update" /\ pc' = "update" /\ rest # <<>>
      /\ rest' = SubSeq(rest, n + 1, Len(rest))
  BY DEF UpdateLoop
<1>2. rest \in Seq(Data) /\ bufferLen \in Nat /\ bufferLen < B /\ B \in Nat
  BY Sizes DEF HashInv, TypeOK
<1>3. Len(rest) \in Nat /\ Len(rest) > 0
  BY <1>1, <1>2
<1>4. n \in Nat /\ 1 <= n /\ n <= Len(rest)
  BY <1>2, <1>3
<1> HIDE DEF n
<1>5. Len(rest') = Len(rest) - n
  BY <1>1, <1>2, <1>3, <1>4
<1> QED
  BY <1>1, <1>3, <1>4, <1>5 DEF PassesLeft

\* A pass of the padding loop brings bufferLen_ nearer to its exit
LEMMA FinishZeroAdvances ==
  ASSUME HashInv, FinishZero
  PROVE  PassesLeft' < PassesLeft
<1>1. /\ pc = "zeros" /\ pc' = "zeros" /\ bufferLen # B - L /\ kind' = kind
      /\ bufferLen' = IF bufferLen + 1 = B THEN 0 ELSE bufferLen + 1
  BY DEF FinishZero, Consume, PaddingDone
<1>2. /\ bufferLen \in Nat /\ bufferLen < B /\ B \in Nat
      /\ L \in Nat /\ 1 <= L /\ L < B
  BY Sizes DEF HashInv, TypeOK
<1>3. B' = B /\ L' = L
  BY <1>1 DEF B, L
<1> QED
  BY <1>1, <1>2, <1>3 DEF PassesLeft

\* Every step of a running update() or finish() brings its return nearer, and
\* the padding loop of finish() runs fewer than B times however full the buffer
\* is when it starts: no call loops for ever, whatever the block length and the
\* length of the data
THEOREM PassesRunOut ==
  Spec => /\ [](PassesLeft \in Nat /\ (pc = "zeros" => PassesLeft <= B))
          /\ [][pc # "idle" => PassesLeft' < PassesLeft]_vars
<1>1. HashInv => PassesLeft \in Nat /\ (pc = "zeros" => PassesLeft <= B)
  BY PassesBounded
<1>2. ASSUME HashInv, [Next]_vars PROVE [pc # "idle" => PassesLeft' < PassesLeft]_vars
  <2> SUFFICES ASSUME Next, pc # "idle" PROVE PassesLeft' < PassesLeft
    BY <1>2
  <2>1. CASE UpdateLoop
    BY <1>2, <2>1, UpdateLoopAdvances
  <2>2. CASE FinishZero
    BY <1>2, <2>2, FinishZeroAdvances
  <2>3. CASE UpdateReturn \/ FinishDigest
    <3>1. PassesLeft' = 0
      BY <2>3 DEF UpdateReturn, FinishDigest, Return, PassesLeft
    <3>2. PassesLeft # 0 /\ PassesLeft \in Nat
      <4>1. /\ Len(rest) \in Nat /\ bufferLen \in Nat /\ bufferLen < B /\ B \in Nat
            /\ L \in Nat /\ 1 <= L /\ L < B
        BY <1>2, Sizes DEF HashInv, TypeOK
      <4> QED
        BY <2>3, <4>1 DEF UpdateReturn, FinishDigest, PassesLeft
    <3> QED
      BY <3>1, <3>2
  <2> QED
    BY <2>1, <2>2, <2>3 DEF Next, Running, shaBegin, shaUpdate, shaFinish, reset
<1> QED
  BY <1>1, <1>2, HashInvariant, PTL DEF Spec
=============================================================================
