--------------------------- MODULE StreamingHash ---------------------------
(***************************************************************************)
(* One incremental hash context, Sha256Context, Sha384Context or           *)
(* Sha512Context, and the SoftSha256/SoftSha512 object inside it, driven   *)
(* through CryptoEngine::sha{256,384,512}{Begin,Update,Finish} and         *)
(* reset().  A call runs step by step: one step is one pass of the loop in *)
(* update() or of the padding loop in finish().                            *)
(*                                                                         *)
(* The compression function is kept symbolic: the chaining state is the    *)
(* variant its initial values belong to together with the bytes of every   *)
(* block processed since, so two digests are equal exactly when the same   *)
(* blocks went into the same variant.  The buffer keeps the stale bytes of *)
(* earlier blocks, as buffer_ does.                                        *)
(***************************************************************************)
EXTENDS Integers, Sequences

CONSTANTS
  BlockLen,    \* kBlockLen of each kind: 64, 128, 128
  LenBytes,    \* bytes of the length field: 8, 16, 16
  WordSize,    \* bitLen_ is a number modulo WordSize: 2^64
  Data,        \* the bytes messages are made of
  MaxChunk,    \* bound: bytes of one update
  MaxLen       \* bound: bytes of one message

Kinds == {"sha256", "sha384", "sha512"}
Byte == 0..255

ASSUME BlockAssumption ==
  /\ BlockLen \in [Kinds -> Nat] /\ LenBytes \in [Kinds -> Nat]
  /\ \A k \in Kinds : 1 <= LenBytes[k] /\ LenBytes[k] < BlockLen[k]
ASSUME DataAssumption == Data \subseteq Byte
ASSUME BoundAssumption == MaxLen \in Nat /\ MaxChunk \in Nat
\* A message has less than WordSize bits
ASSUME WordAssumption == WordSize \in Nat /\ 8 * MaxLen < WordSize
\* Arithmetic the proofs need and the provers do not have: powers of 256
ASSUME PowerAssumption ==
  \A k \in Kinds : \A n \in 0..LenBytes[k] : 256^n \in Nat /\ 256^n > 0

VARIABLES
  kind,        \* which of the three context types this is
  active,      \* ctx.active
  variant,     \* the reset that ran last: initial state_ and digestLen_
  absorbed,    \* the bytes of the blocks given to processBlock since then
  buffer,      \* buffer_
  bufferLen,   \* bufferLen_
  bitLen,      \* bitLen_
  pc,          \* idle between calls, update and zeros inside the two loops
  rest,        \* data and len of the update that runs
  lenBits,     \* lenBits of the finish that runs
  msg,         \* ghost: everything passed to update since begin
  out,         \* the digest finish delivered
  ret          \* the last call to return: its name and its status

hasher == <<variant, absorbed, buffer, bufferLen, bitLen>>
vars == <<kind, active, variant, absorbed, buffer, bufferLen, bitLen, pc, rest,
          lenBits, msg, out, ret>>

B == BlockLen[kind]
L == LenBytes[kind]
NoDigest == [variant |-> "none", bytes |-> <<>>]
Chunks == UNION {[1..n -> Data] : n \in 0..MaxChunk}

TypeOK ==
  /\ kind \in Kinds /\ active \in BOOLEAN /\ variant \in Kinds
  /\ absorbed \in Seq(Byte)
  /\ buffer \in [1..B -> Byte]
  /\ bufferLen \in 0..B /\ bitLen \in 0..WordSize-1
  /\ pc \in {"idle", "update", "zeros"}
  /\ rest \in Seq(Data) /\ lenBits \in 0..WordSize-1
  /\ msg \in Seq(Data) /\ Len(msg) <= MaxLen
  /\ out \in [variant : Kinds \cup {"none"}, bytes : Seq(Byte)]
  /\ ret \in [op : {"none", "begin", "update", "finish", "reset"},
              st : {"Ok", "BadParam"}]

-----------------------------------------------------------------------------
(* SoftSha256 and SoftSha512 *)

\* reset() of the object inside: SHA-256's own, and SHA-512's for both others
OwnReset(k) == IF k = "sha256" THEN "sha256" ELSE "sha512"

\* reset() and reset384(): buffer_ itself is left alone
Reset(v) ==
  /\ variant' = v
  /\ absorbed' = <<>> /\ bufferLen' = 0 /\ bitLen' = 0
  /\ UNCHANGED buffer

\* buffer_ with the first n bytes of d written at bufferLen_
WriteAt(d, n) ==
  [i \in 1..B |-> IF bufferLen < i /\ i <= bufferLen + n THEN d[i - bufferLen]
                                                         ELSE buffer[i]]

\* Mutant of Consume: bufferLen_ is not set back after processBlock
ConsumeKeepsLen(d, n) ==
  /\ buffer' = WriteAt(d, n)
  /\ bufferLen' = bufferLen + n
  /\ absorbed' = IF bufferLen + n = B THEN absorbed \o WriteAt(d, n) ELSE absorbed

\* One pass of the loop in update(): copy n bytes, and process a full buffer
Consume(d, n) ==
  /\ buffer' = WriteAt(d, n)
  /\ bufferLen' = IF bufferLen + n = B THEN 0 ELSE bufferLen + n
  /\ absorbed' = IF bufferLen + n = B THEN absorbed \o WriteAt(d, n) ELSE absorbed

\* bitLen_ += len * 8
AddBits(n) == (bitLen + 8 * n) % WordSize

\* lenBytes[]: the number of bits, big-endian
LengthField(bits) == [j \in 1..L |-> (bits \div 256^(L - j)) % 256]

-----------------------------------------------------------------------------
(* The calls *)

Return(op, st) == pc' = "idle" /\ ret' = [op |-> op, st |-> st]

Refuse(op) ==
  /\ Return(op, "BadParam")
  /\ UNCHANGED <<kind, active, hasher, rest, lenBits, msg, out>>

Init ==
  /\ kind \in Kinds
  /\ active = FALSE
  /\ variant = OwnReset(kind) /\ absorbed = <<>> /\ bufferLen = 0 /\ bitLen = 0
  /\ buffer = [i \in 1..B |-> 0]
  /\ pc = "idle" /\ rest = <<>> /\ lenBits = 0
  /\ msg = <<>> /\ out = NoDigest
  /\ ret = [op |-> "none", st |-> "Ok"]

\* Mutant of shaBegin: sha384Begin calls reset() instead of reset384()
BeginWithOwnReset ==
  /\ pc = "idle"
  /\ Reset(OwnReset(kind))
  /\ active' = TRUE
  /\ msg' = <<>> /\ out' = NoDigest
  /\ Return("begin", "Ok")
  /\ UNCHANGED <<kind, rest, lenBits>>

\* sha256Begin, sha384Begin, sha512Begin
shaBegin ==
  /\ pc = "idle"
  /\ Reset(kind)
  /\ active' = TRUE
  /\ msg' = <<>> /\ out' = NoDigest
  /\ Return("begin", "Ok")
  /\ UNCHANGED <<kind, rest, lenBits>>

\* sha256Update, sha384Update, sha512Update up to the loop of update(): a null
\* pointer, whatever the length, hashes nothing and is not an error
shaUpdate(d, null) ==
  /\ pc = "idle"
  /\ \/ ~active /\ Refuse("update")
     \/ /\ active /\ null
        /\ Return("update", "Ok")
        /\ UNCHANGED <<kind, active, hasher, rest, lenBits, msg, out>>
     \/ /\ active /\ ~null
        /\ Len(msg) + Len(d) <= MaxLen
        /\ bitLen' = AddBits(Len(d))
        /\ rest' = d /\ msg' = msg \o d
        /\ pc' = "update"
        /\ UNCHANGED <<kind, active, variant, absorbed, buffer, bufferLen,
                       lenBits, out, ret>>

\* while (len > 0): take what fits into the buffer
UpdateLoop ==
  LET n == IF B - bufferLen > Len(rest) THEN Len(rest) ELSE B - bufferLen IN
  /\ pc = "update" /\ rest # <<>>
  /\ Consume(rest, n)
  /\ rest' = SubSeq(rest, n + 1, Len(rest))
  /\ UNCHANGED <<kind, active, variant, bitLen, pc, lenBits, msg, out, ret>>

UpdateReturn ==
  /\ pc = "update" /\ rest = <<>>
  /\ Return("update", "Ok")
  /\ UNCHANGED <<kind, active, hasher, rest, lenBits, msg, out>>

\* sha256Finish, sha384Finish, sha512Finish up to the padding loop: the length
\* is saved before update(&pad, 1) adds to it
shaFinish(null) ==
  /\ pc = "idle"
  /\ \/ (~active \/ null) /\ Refuse("finish")
     \/ /\ active /\ ~null
        /\ lenBits' = bitLen
        /\ bitLen' = AddBits(1)
        /\ Consume(<<128>>, 1)
        /\ pc' = "zeros"
        /\ UNCHANGED <<kind, active, variant, rest, msg, out, ret>>

\* The condition that ends the padding loop: 56 of 64, 112 of 128
PaddingDone == bufferLen = B - L

\* Mutant of FinishZero: update(&zero, 0)
FinishZeroOfNoByte == pc = "zeros" /\ ~PaddingDone /\ UNCHANGED vars

\* while (bufferLen_ != 56) update(&zero, 1)
FinishZero ==
  /\ pc = "zeros" /\ ~PaddingDone
  /\ bitLen' = AddBits(1)
  /\ Consume(<<0>>, 1)
  /\ UNCHANGED <<kind, active, variant, pc, rest, lenBits, msg, out, ret>>

\* The length field completes the block, the digest is read, reset() follows and
\* the context is closed
FinishDigest ==
  LET last == WriteAt(LengthField(lenBits), L) IN
  /\ pc = "zeros" /\ PaddingDone
  /\ out' = [variant |-> variant, bytes |-> absorbed \o last]
  /\ buffer' = last
  /\ variant' = OwnReset(kind)
  /\ absorbed' = <<>> /\ bufferLen' = 0 /\ bitLen' = 0
  /\ active' = FALSE
  /\ lenBits' = 0
  /\ Return("finish", "Ok")
  /\ UNCHANGED <<kind, rest, msg>>

\* Sha256Context::reset(), Sha384Context::reset(), Sha512Context::reset()
reset ==
  /\ pc = "idle"
  /\ Reset(kind)
  /\ active' = FALSE
  /\ Return("reset", "Ok")
  /\ UNCHANGED <<kind, rest, lenBits, msg, out>>

\* A call that has started runs on
Running == UpdateLoop \/ UpdateReturn \/ FinishZero \/ FinishDigest

Next ==
  \/ shaBegin
  \/ \E d \in Chunks, null \in BOOLEAN : (null => d = <<>>) /\ shaUpdate(d, null)
  \/ \E null \in BOOLEAN : shaFinish(null)
  \/ reset
  \/ Running

Spec == Init /\ [][Next]_vars

\* Straight-line code on a CPU that is not stopped: a started call keeps going
FairSpec == Spec /\ WF_vars(Running)

-----------------------------------------------------------------------------
(* Properties *)

\* n bytes are a whole number of blocks
WholeBlocks(n) == \E q \in 0..n : n = q * B

\* bytes is the FIPS 180-4 padding of m: m, then 0x80, then the fewest zero bytes
\* that let the length field end a block, then the number of bits of m
IsPaddingOf(bytes, m) ==
  /\ WholeBlocks(Len(bytes))
  /\ Len(m) + 1 + L <= Len(bytes) /\ Len(bytes) < Len(m) + 1 + L + B
  /\ \A i \in 1..Len(bytes) :
       bytes[i] = IF i <= Len(m) THEN m[i]
                  ELSE IF i = Len(m) + 1 THEN 128
                  ELSE IF i <= Len(bytes) - L THEN 0
                  ELSE LengthField(8 * Len(m))[i - (Len(bytes) - L)]

\* The digest finish delivers is that of the bytes passed to update since begin,
\* in order, under the context's own variant: whatever the chunks, the null
\* updates, the refused calls and the earlier uses of the same context
DigestIsOfMessage ==
  out.variant # "none" => out.variant = kind /\ IsPaddingOf(out.bytes, msg)

\* Every call returns: the padding loop of finish() meets its exit however full
\* the buffer is when it starts
CallReturns == []<>(pc = "idle")
=============================================================================
