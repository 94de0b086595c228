------------------------------ MODULE SoftKdf ------------------------------
(***************************************************************************)
(* HMAC-SHA-256 and HKDF-SHA-256 in software (SoftSha256::hmacSha256 and   *)
(* SoftHkdf), which the OnChip backend and the engine's fallbacks use.     *)
(*                                                                         *)
(* A byte is a term: an input byte is named after its buffer and place,    *)
(* byte j of the digest of string s is <<"H", j, s>>, and the bytes of the *)
(* inner and outer pads are <<"ipad", b>> and <<"opad", b>>.  So two       *)
(* digests are equal exactly when the same string was hashed.              *)
(***************************************************************************)
EXTENDS Integers, Sequences

CONSTANTS
  HashLen,     \* kSha256Len
  BlockLen,    \* SoftSha256::kBlockLen
  CounterMod,  \* the values of HKDF's block counter, a uint8_t: 256
  OkmCap,      \* the length of the output buffer
  KeyLens,     \* the lengths of HMAC keys, HKDF salts and input keys
  MsgLens,     \* the lengths of HMAC messages and HKDF infos
  OkmLens      \* the lengths of output key material asked for

ASSUME SizeAssumption ==
  /\ HashLen \in Nat \ {0} /\ BlockLen \in Nat /\ HashLen <= BlockLen
  /\ CounterMod \in Nat /\ CounterMod >= 2 /\ OkmCap \in Nat
ASSUME LenAssumption ==
  KeyLens \subseteq Nat /\ MsgLens \subseteq Nat /\ OkmLens \subseteq 0..OkmCap

VARIABLE call  \* the call being made, or the last one

Bytes(b, n) == [i \in 1..n |-> <<b, i>>]
Zeros(n) == [i \in 1..n |-> <<"zero", 0>>]
Junk == <<"junk", 0>>

-----------------------------------------------------------------------------
(* SoftSha256: a hasher is the string it was given since its last reset *)

Fresh == <<>>
update(h, s) == h \o s
Digest(h) == [j \in 1..HashLen |-> <<"H", j, h>>]

\* Mutant of AfterFinish: the hasher goes on with its last block
KeepsState(h) == h

\* finish() ends with reset()
AfterFinish(h) == Fresh

Pad(p, k0) == [i \in 1..BlockLen |-> <<p, k0[i]>>]
ZeroPadded(k) == k \o Zeros(BlockLen - Len(k))

\* The key block: a key longer than a block is hashed
KeyBlock(key) ==
  ZeroPadded(IF Len(key) > BlockLen THEN Digest(update(Fresh, key)) ELSE key)

\* SoftSha256::hmacSha256: one hasher for both passes
hmacSha256(key, msg) ==
  LET k0 == KeyBlock(key)
      inner == update(update(Fresh, Pad("ipad", k0)), msg)
      outer == update(update(AfterFinish(inner), Pad("opad", k0)), Digest(inner))
  IN Digest(outer)

\* hmacSha256Parts: a hasher for each pass, and the message in three parts
hmacSha256Parts(key, a, b, counter) ==
  LET k0 == ZeroPadded(key)
      inner == update(update(update(update(Fresh, Pad("ipad", k0)), a), b),
                      <<<<"count", counter>>>>)
      outer == update(update(Fresh, Pad("opad", k0)), Digest(inner))
  IN Digest(outer)

-----------------------------------------------------------------------------
(* The calls *)

NoCall == [op |-> "none", st |-> "Ok", key |-> <<>>, msg |-> <<>>, mac |-> <<>>,
           ikm |-> <<>>, salt |-> <<>>, info |-> <<>>, len |-> 0, prk |-> <<>>,
           t |-> <<>>, off |-> 0, counter |-> 1, okm |-> [i \in 1..OkmCap |-> Junk]]

Init == call = NoCall

Idle == call.st = "Ok"

\* CryptoEngine::hmacSha256 when the backend leaves it to the software
Hmac(k, m) ==
  LET key == Bytes("key", k)
      msg == Bytes("msg", m)
  IN /\ Idle
     /\ call' = [NoCall EXCEPT !.op = "hmac", !.key = key, !.msg = msg,
                               !.mac = hmacSha256(key, msg)]

\* SoftHkdf::hkdfSha256, up to the extracted key; an empty salt is a block of zeros
Hkdf(k, s, n, len) ==
  LET ikm == Bytes("ikm", k)
      salt == Bytes("salt", s)
  IN /\ Idle /\ len > 0
     /\ call' = [NoCall EXCEPT
                   !.op = "hkdf", !.st = "running", !.ikm = ikm, !.salt = salt,
                   !.info = Bytes("info", n), !.len = len,
                   !.prk = hmacSha256(IF s = 0 THEN Zeros(HashLen) ELSE salt, ikm)]

\* The bytes of a block that are still wanted
Take(c) == IF c.len - c.off > HashLen THEN HashLen ELSE c.len - c.off

\* Mutant of Chained: tLen is not set after the first block
NeverChained(c) == <<>>

\* The previous block; none before the first
Chained(c) == c.t

\* The caller's buffer with n bytes of block t in its place
Copied(c, t, n) ==
  [i \in 1..OkmCap |-> IF c.off < i /\ i <= c.off + n THEN t[i - c.off] ELSE c.okm[i]]

\* Mutant of Pass: a block is made only when a whole one is wanted
PassOfWholeBlock(c) ==
  LET t == hmacSha256Parts(c.prk, Chained(c), c.info, c.counter)
      next == [c EXCEPT !.counter = (@ + 1) % CounterMod]
  IN IF c.len - c.off < HashLen THEN next
     ELSE [next EXCEPT !.t = t, !.off = @ + HashLen, !.okm = Copied(c, t, HashLen)]

\* The call after one pass of the expansion loop
Pass(c) ==
  LET t == hmacSha256Parts(c.prk, Chained(c), c.info, c.counter)
  IN [c EXCEPT !.t = t, !.off = @ + Take(c), !.counter = (@ + 1) % CounterMod,
               !.okm = Copied(c, t, Take(c))]

Expand ==
  /\ call.st = "running" /\ call.off < call.len
  /\ call' = Pass(call)

Return ==
  /\ call.st = "running" /\ call.off >= call.len
  /\ call' = [call EXCEPT !.st = "Ok"]

Start ==
  \E k \in KeyLens, m \in MsgLens :
    \/ Hmac(k, m)
    \/ \E s \in KeyLens, len \in OkmLens : Hkdf(k, s, m, len)

Next == Start \/ Expand \/ Return

\* A call that has begun goes on: it computes on the caller's own data
Spec == Init /\ [][Next]_call /\ WF_call(Expand \/ Return)

-----------------------------------------------------------------------------
(* RFC 2104 and RFC 5869 *)

HMAC(key, msg) ==
  LET k0 == KeyBlock(key)
  IN Digest(Pad("opad", k0) \o Digest(Pad("ipad", k0) \o msg))

\* T(0) is empty and T(n) = HMAC(PRK, T(n - 1) | info | n)
T(prk, info, n) ==
  LET block[i \in 0..n] ==
        IF i = 0 THEN <<>> ELSE HMAC(prk, block[i - 1] \o info \o <<<<"count", i>>>>)
  IN block[n]

PRK(c) == HMAC(IF c.salt = <<>> THEN Zeros(HashLen) ELSE c.salt, c.ikm)

\* The n-th block of the output
Block(n) == [j \in 1..HashLen |-> call.okm[(n - 1) * HashLen + j]]
WholeBlocks == 1 .. call.off \div HashLen

-----------------------------------------------------------------------------
(* Properties *)

\* The software HMAC is RFC 2104's for keys shorter and longer than a block and
\* of exactly a block, although both passes share one hasher
MacIsStandard == call.op = "hmac" => call.mac = HMAC(call.key, call.msg)

\* At every block the output is a prefix of RFC 5869's, for any salt, also none,
\* up to the last ragged block, and nothing beyond what was asked for is written;
\* as long as the block counter has not wrapped, which the CC310 path refuses and
\* this one does not (SoftHkdf.cpp 48-62, CC310Backend.cpp 321)
OkmIsStandard ==
  call.op = "hkdf" /\ call.off <= (CounterMod - 1) * HashLen =>
    \A i \in 1..OkmCap :
      LET n == (i - 1) \div HashLen + 1 IN
      call.okm[i] = IF i <= call.off THEN T(PRK(call), call.info, n)[i - (n - 1) * HashLen]
                    ELSE Junk

\* No output block repeats an earlier one, not even after the counter has wrapped:
\* each block is chained to the one before
BlocksDiffer ==
  call.op = "hkdf" =>
    \A m, n \in WholeBlocks : m # n => Block(m) # Block(n)

\* The expansion loop ends for every length
HkdfReturns == call.st = "running" ~> call.st = "Ok"
=============================================================================
