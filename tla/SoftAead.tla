------------------------------ MODULE SoftAead ------------------------------
(***************************************************************************)
(* The authenticated ciphers of the OnChip backend, SoftAesGcm and          *)
(* SoftChaChaPoly, behind aesGcmSeal/aesGcmOpen and chachaPolySeal/         *)
(* chachaPolyOpen.  An application owns one message struct and two data     *)
(* buffers; it seals plaintexts and opens packets that come back to it,     *)
(* intact or not, in place or from one buffer to the other.  One action is  *)
(* one call.                                                               *)
(*                                                                         *)
(* The ciphers are symbolic.  A byte is a value together with the set of    *)
(* keystream bytes that mask it, so applying the same keystream byte twice  *)
(* removes it.  A tag is the key, the nonce and the sequence of blocks that *)
(* went into GHASH or Poly1305: two tags are equal when all of that is.     *)
(***************************************************************************)
EXTENDS CryptoTypes, Sequences, FiniteSets

CONSTANTS
  Keys, Nonces,
  Aads,        \* the associated data calls are made with
  Plains,      \* the plaintexts calls are made with, as sequences of values
  BufLen,      \* bytes of each data buffer
  MacBlock,    \* bytes of a GHASH or Poly1305 block: 16
  XorBlock,    \* bytes of a keystream block: 16 for GCM, 64 for ChaCha20
  StackBuf,    \* sizeof(stackBuf) in aeadPoly1305: 512
  CtrMod,      \* block counters are numbers modulo CtrMod: 2^32
  MaxSeals     \* bound: packets sealed in one behaviour

Algs == {"gcm", "chacha"}

ASSUME BlockAssumption ==
  /\ MacBlock \in Nat \ {0} /\ XorBlock \in [Algs -> Nat \ {0}]
  /\ StackBuf \in Nat /\ BufLen \in Nat /\ MaxSeals \in Nat
\* A message has fewer keystream blocks than the counter has values
ASSUME CounterAssumption == CtrMod \in Nat /\ CtrMod > BufLen + 2
ASSUME InputAssumption ==
  /\ \A a \in Aads : a \in Seq(Nat)
  /\ \A p \in Plains : p \in Seq(Nat) /\ Len(p) <= BufLen

VARIABLES
  alg,         \* the cipher: AesGcmMessage or ChaChaPolyMessage
  mem,         \* the two data buffers
  tag,         \* msg.authenticationTag
  sealed,      \* ghost: what was sealed, with the ciphertext and tag it got
  ret          \* the last call: its inputs, its status and its buffers

vars == <<alg, mem, tag, sealed, ret>>

Bufs == {"A", "B"}
NoTag == [key |-> 0, nonce |-> 0, mac |-> <<>>]
Clear(p) == [i \in 1..Len(p) |-> [v |-> p[i], ks |-> {}]]
Zero == [v |-> 0, ks |-> {}]

-----------------------------------------------------------------------------
(* The ciphers *)

\* Mutant of FirstBlock: gctr increments the counter after it is used
CountsFromJ0 == 1

\* The counter of the first keystream block: gctr increments J0 (counter 1)
\* before it is used, chachaXor starts at 1
FirstBlock == IF alg = "gcm" THEN 2 ELSE 1

\* The counter of the block that masks the GCM tag (J0) or keys Poly1305
TagBlock == IF alg = "gcm" THEN 1 ELSE 0

\* The i-th keystream byte under key k and nonce n
KeyStream(k, n, i) ==
  LET b == XorBlock[alg]
  IN <<k, n, (FirstBlock + ((i - 1) \div b)) % CtrMod, (i - 1) % b>>

\* out[i] = in[i] ^ ks[i]
XorByte(x, s) == [x EXCEPT !.ks = (@ \ {s}) \cup ({s} \ @)]

\* gctr and chachaXor
Xor(k, n, in) == [i \in 1..Len(in) |-> XorByte(in[i], KeyStream(k, n, i))]

\* The bytes that fill data up to a block
PadLen(len) == (MacBlock - (len % MacBlock)) % MacBlock
Padded(data) == data \o [i \in 1..PadLen(Len(data)) |-> Zero]

\* Mutant of MacInput: the length block is left out
MacInputNoLengths(aad, ct) == Padded(Clear(aad)) \o Padded(ct)

\* What GHASH and Poly1305 run over: both parts padded, then the length block
MacInput(aad, ct) ==
  Padded(Clear(aad)) \o Padded(ct) \o Clear(<<Len(aad), Len(ct)>>)

\* bufLen in aeadPoly1305
MacBytes(aad, ct) ==
  Len(aad) + PadLen(Len(aad)) + Len(ct) + PadLen(Len(ct)) + MacBlock

\* The tag both computeTag and aeadPoly1305 are after
TagOf(k, n, aad, ct) == [key |-> k, nonce |-> n, mac |-> MacInput(aad, ct)]

\* aeadPoly1305 returns without a tag when the input does not fit its buffer
NoRoom(aad, ct) == alg = "chacha" /\ MacBytes(aad, ct) > StackBuf

\* What the caller of computeTag or aeadPoly1305 finds in its tag array, which
\* held one of the tags in old before
Authenticate(k, n, aad, ct, old) ==
  IF NoRoom(aad, ct) THEN old ELSE {TagOf(k, n, aad, ct)}

-----------------------------------------------------------------------------
(* The calls *)

Init ==
  /\ alg \in Algs
  /\ mem = [b \in Bufs |-> [i \in 1..BufLen |-> Zero]]
  /\ tag = NoTag
  /\ sealed = {}
  /\ ret = [op |-> "none", st |-> "Ok", in |-> "A", out |-> "A", packet |-> <<>>]

\* Buffer b of m with data written at its start
Put(m, b, data) ==
  [m EXCEPT ![b] = [i \in 1..BufLen |-> IF i <= Len(data) THEN data[i] ELSE @[i]]]

\* The first n bytes of buffer b
Get(m, b, n) == SubSeq(m[b], 1, n)

Return(op, st, i, o, packet) ==
  ret' = [op |-> op, st |-> st, in |-> i, out |-> o, packet |-> packet]

\* A null pointer that goes with a positive length
Refuse(op) ==
  /\ Return(op, "BadParam", "A", "A", <<>>)
  /\ UNCHANGED <<alg, mem, tag, sealed>>

\* aesGcmSeal and chachaPolySeal of plaintext p in buffer i, into buffer o
Seal(k, n, aad, p, i, o) ==
  LET before == Put(mem, i, Clear(p))
      after  == Put(before, o, Xor(k, n, Clear(p)))
      ct     == Get(after, o, Len(p))
  IN /\ Cardinality(sealed) < MaxSeals
     /\ mem' = after
     /\ tag' \in Authenticate(k, n, aad, ct, {tag})
     /\ sealed' = sealed \cup
          {[key |-> k, nonce |-> n, aad |-> aad, plain |-> p, ct |-> ct, tag |-> tag']}
     /\ Return("seal", "Ok", i, o, <<k, n, aad, ct, tag'>>)
     /\ UNCHANGED alg

\* Mutant of Open: the plaintext is written before the tag is compared
OpenWritesFirst(k, n, aad, ct, t, i, o) ==
  LET before == Put(mem, i, ct) IN
  \E expected \in Authenticate(k, n, aad, ct, {t, NoTag}) :
    /\ tag' = t
    /\ mem' = Put(before, o, Xor(k, n, ct))
    /\ Return("open", IF t = expected THEN "Ok" ELSE "AuthFailed", i, o,
              <<k, n, aad, ct, t>>)
    /\ UNCHANGED <<alg, sealed>>

\* aesGcmOpen and chachaPolyOpen of ciphertext ct in buffer i with tag t, into
\* buffer o.  Without a computed tag the local array expected holds what was on
\* the stack, which may or may not be equal to t
Open(k, n, aad, ct, t, i, o) ==
  LET before == Put(mem, i, ct) IN
  \E expected \in Authenticate(k, n, aad, ct, {t, NoTag}) :
    /\ tag' = t
    /\ \/ /\ t # expected
          /\ mem' = before
          /\ Return("open", "AuthFailed", i, o, <<k, n, aad, ct, t>>)
       \/ /\ t = expected
          /\ mem' = Put(before, o, Xor(k, n, ct))
          /\ Return("open", "Ok", i, o, <<k, n, aad, ct, t>>)
    /\ UNCHANGED <<alg, sealed>>

\* The input is in buffer A, the output goes to the same buffer or to the other.
\* A packet comes back: intact, cut short, with another tag, or opened with
\* another key, nonce or associated data
OpenSome ==
  \E s \in sealed, k \in Keys, n \in Nonces, aad \in Aads, o \in Bufs :
    \E len \in 0..Len(s.ct), t \in {u.tag : u \in sealed} \cup {NoTag} :
      Open(k, n, aad, SubSeq(s.ct, 1, len), t, "A", o)

SealSome ==
  \E k \in Keys, n \in Nonces, aad \in Aads, p \in Plains, o \in Bufs :
    Seal(k, n, aad, p, "A", o)

Next == SealSome \/ OpenSome \/ Refuse("seal") \/ Refuse("open")

Spec == Init /\ [][Next]_vars

-----------------------------------------------------------------------------
(* Properties *)

\* Open answers Ok exactly for what was sealed: the same key, nonce, associated
\* data, ciphertext and tag; and the output is then the plaintext that was
\* sealed, also when the buffers are the same (API_REFERENCE.md 262)
OpensWhatWasSealed ==
  LET mine == {s \in sealed :
                 <<s.key, s.nonce, s.aad, s.ct, s.tag>> = ret.packet}
  IN ret.op = "open" /\ ret.st # "BadParam" =>
       /\ ret.st = "Ok" <=> mine # {}
       /\ ret.st = "Ok" => \A s \in mine :
            Get(mem, ret.out, Len(s.plain)) = Clear(s.plain)

\* A packet that is rejected leaves the output buffer as it was
RejectWritesNothing ==
  [][ret'.op = "open" /\ ret'.st = "AuthFailed" /\ ret'.in # ret'.out
       => mem'[ret'.out] = mem[ret'.out]]_vars

\* No two bytes of a ciphertext are masked by the same keystream byte, and none
\* by the block that masks the tag or keys the authenticator
KeystreamUsedOnce ==
  \A s \in sealed :
    /\ \A i \in 1..Len(s.ct) : \A ks \in s.ct[i].ks : ks[3] # TagBlock
    /\ \A i, j \in 1..Len(s.ct) : i # j => s.ct[i].ks \cap s.ct[j].ks = {}
=============================================================================
