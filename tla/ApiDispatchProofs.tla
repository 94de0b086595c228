------------------------- MODULE ApiDispatchProofs -------------------------
(***************************************************************************)
(* Proofs about ApiDispatch, for any engines, with or without the vendored *)
(* archive, and for any arguments of the calls.                            *)
(***************************************************************************)
EXTENDS ApiDispatch, TLAPS

\* aesGcmEncrypt and aesGcmDecrypt, which do not check in, out and aad
LowLevelGcm == {"aesGcmEncrypt", "aesGcmDecrypt"}

-----------------------------------------------------------------------------
(* The checks and the parameters *)

\* A call is made in the end of a low-level GCM call only when it is one.
LEMMA TargetFacts ==
  ASSUME NEW api, NEW a, api \notin LowLevelGcm
  PROVE  Target(api, a) \notin LowLevelGcm
  <1>1. CASE api \in DOMAIN WhenSet /\ OptionalOf(api) \cap a.null = {}
    <2>1. WhenSet[api] \in {"ecdsaSign", "ecdsaVerify", "ed25519SignFromSeed"}
      BY <1>1 DEF WhenSet
    <2> QED BY <1>1, <2>1 DEF Target, LowLevelGcm
  <1>2. CASE api \in DOMAIN Unpacks /\ ~ (api \in DOMAIN WhenSet /\ OptionalOf(api) \cap a.null = {})
    <2>1. Unpacks[api] \notin LowLevelGcm
      BY <1>2 DEF Unpacks, LowLevelGcm
    <2> QED BY <1>2, <2>1 DEF Target
  <1> QED BY <1>1, <1>2 DEF Target

\* Every call but the low-level GCM ones checks all that it dereferences.
LEMMA ChecksCover ==
  ASSUME NEW api, api \notin LowLevelGcm
  PROVE  /\ Params(api).fixed \subseteq Params(api).must
         /\ \A s \in Params(api).sized : s[1] \in Params(api).must \/ s \in Params(api).ifLen
  BY DEF Params, LowLevelGcm, Plain, random, hash, hkdfSha256, hmacSha256, aesCbc, aesCtr, InOut,
         chachaPoly, aeadSeal, aesCbcSeal, aesCtrTransform, curve, curve3, signMessage

\* A primitive is run only on arguments that passed the engine's checks.
LEMMA RunMeansChecked ==
  ASSUME NEW e, NEW api, NEW a, NEW r \in Answers(e, api, a), r.run
  PROVE  ~BadArgs(Target(api, a), a)
  BY DEF Answers, Answer

\* A null pointer is refused before a primitive is run on it, for an application
\* that stays away from the low-level GCM calls, which do not check: one may use
\* any engine, after any begin() and end().
THEOREM NullNeverReaches ==
  ASSUME Apis \cap LowLevelGcm = {}
  PROVE  Spec => []NullReachesNoPrimitive
  <1>1. Init => NullReachesNoPrimitive
    BY DEF Init, NoCall, NullReachesNoPrimitive
  <1>2. NullReachesNoPrimitive /\ [Next]_vars => NullReachesNoPrimitive'
    <2> SUFFICES ASSUME NullReachesNoPrimitive, [Next]_vars PROVE NullReachesNoPrimitive'
      OBVIOUS
    <2>1. ASSUME NEW e \in Engines, NEW api \in Apis, Call(e, api)
          PROVE  NullReachesNoPrimitive'
      <3>1. PICK a, r :
              /\ a \in Args(api)
              /\ r \in Answers(e, api, a)
              /\ call' = [api |-> api, args |-> a, st |-> r.st, run |-> r.run]
        BY <2>1 DEF Call
      <3>2. call'.api = api /\ call'.args = a /\ call'.run = r.run
        BY <3>1
      <3>3. Target(api, a) \notin LowLevelGcm
        BY TargetFacts
      <3>4. ASSUME r.run PROVE ~ThroughNull(Target(api, a), a)
        <4>1. ~BadArgs(Target(api, a), a)
          BY <3>1, <3>4, RunMeansChecked
        <4> QED BY <3>3, <4>1, ChecksCover DEF BadArgs, ThroughNull
      <3> QED BY <3>2, <3>4 DEF NullReachesNoPrimitive
    <2>2. ASSUME call' = NoCall PROVE NullReachesNoPrimitive'
      BY <2>2 DEF NoCall, NullReachesNoPrimitive
    <2>3. CASE UNCHANGED vars
      BY <2>3 DEF vars, NullReachesNoPrimitive
    <2> QED BY <2>1, <2>2, <2>3 DEF Next
  <1> QED BY <1>1, <1>2, PTL DEF Spec

-----------------------------------------------------------------------------
(* What is refused *)

\* The checks of a call are made of what it dereferences; those of AES-CBC and
\* AES-CTR also of in and out when the message is empty.
LEMMA ChecksNeeded ==
  ASSUME NEW api, api # "hmacSha256Msg"
  PROVE  /\ Params(api).ifLen \subseteq Params(api).sized
         /\ api \notin CbcCtr => Params(api).must \subseteq Params(api).fixed
         /\ api \in CbcCtr => /\ Params(api).must \subseteq Params(api).fixed \cup {"in", "out"}
                              /\ Params(api).some = {}
                              /\ Params(api).sized = InOut
         /\ api \in Encrypts => InOut \subseteq Params(api).sized
  BY ZenonT(30) DEF Params, Encrypts, CbcDecrypts, CbcCtr, Plain, random, hash, hkdfSha256, hmacSha256, aesCbc,
         aesCtr, InOut, aesGcm, chachaPoly, aeadSeal, aesCbcSeal, aesCtrTransform, curve, curve3,
         signMessage

\* The overloads that unpack a struct do not end in another such overload, nor
\* in AES-CBC and AES-CTR.
LEMMA UnpackedFacts ==
  ASSUME NEW api, NEW a
  PROVE  /\ Target(api, a) # "hmacSha256Msg"
         /\ Target(api, a) \in CbcCtr => Target(api, a) = api
  <1>1. CASE api \in DOMAIN WhenSet /\ OptionalOf(api) \cap a.null = {}
    <2>1. WhenSet[api] \in {"ecdsaSign", "ecdsaVerify", "ed25519SignFromSeed"}
      BY <1>1 DEF WhenSet
    <2> QED BY <1>1, <2>1 DEF Target, CbcCtr, CbcDecrypts
  <1>2. CASE api \in DOMAIN Unpacks /\ ~ (api \in DOMAIN WhenSet /\ OptionalOf(api) \cap a.null = {})
    <2>1. Unpacks[api] \notin CbcCtr /\ Unpacks[api] # "hmacSha256Msg"
      BY <1>2 DEF Unpacks, CbcCtr, CbcDecrypts
    <2> QED BY <1>2, <2>1 DEF Target
  <1>3. "hmacSha256Msg" \in DOMAIN Unpacks
    BY DEF Unpacks
  <1> QED BY <1>1, <1>2, <1>3 DEF Target

\* A backend refuses a length beyond its limit, a key it cannot build, and null
\* data of a positive length.
LEMMA PrimitiveRefuses ==
  ASSUME NEW e, NEW api, NEW a, NEW r \in Primitive(e, api, a), r.st = "BadParam"
  PROVE  \/ a.big \/ api \in {"ecdsaVerify", "ecdsaSign", "ecdhShared"}
         \/ api \in Encrypts /\ SoftRefuses(a)
  <1>1. PICK q \in IF backend[e] = "CC310" THEN CC310Call(api, a) ELSE OnChipCall(api, a) :
          q.st = "BadParam"
    BY DEF Primitive
  <1>2. ASSUME q \in CC310Call(api, a)
        PROVE  a.big \/ api \in {"ecdsaVerify", "ecdsaSign", "ecdhShared"}
    <2>1. CASE ~started \/ a.big
      BY <1>1, <1>2, <2>1 DEF CC310Call, Answer
    <2>2. CASE started /\ ~a.big
      <3>1. "BadParam" \in CC310Outcomes(api)
        BY <1>1, <1>2, <2>2 DEF CC310Call, Answer
      <3> QED BY <3>1 DEF CC310Outcomes, Encrypts, Decrypts
    <2> QED BY <2>1, <2>2
  <1>3. ASSUME q \in OnChipCall(api, a) PROVE api \in Encrypts /\ SoftRefuses(a)
    BY <1>1, <1>3 DEF OnChipCall, Answer
  <1> QED BY <1>1, <1>2, <1>3

\* Arguments as the calls take them.
LEMMA ArgsFacts ==
  ASSUME NEW api, NEW a \in Args(api), NEW b \in BOOLEAN
  PROVE  /\ a.zero \subseteq Lengths(api) /\ a.big \in BOOLEAN
         /\ [a EXCEPT !.big = b].null = a.null /\ [a EXCEPT !.big = b].zero = a.zero
         /\ [a EXCEPT !.big = b].big = b
  BY DEF Args

\* The engine's checks find fault only with arguments the primitive could not do
\* with, but for an empty AES-CBC or AES-CTR message with null pointers.
LEMMA BadArgsAreBad ==
  ASSUME NEW api, NEW a \in Args(api), BadArgs(Target(api, a), a)
  PROVE  LET t == Target(api, a) IN
         \/ ThroughNull(t, a) \/ Params(t).some \cap a.zero # {} \/ ~a.aligned
         \/ t \in CbcCtr /\ a.zero = {"len"} /\ {"in", "out"} \cap a.null # {}
  <1>1. PICK t : t = Target(api, a)
    OBVIOUS
  <1>2. t # "hmacSha256Msg" /\ (t \in CbcCtr => t = api)
    BY <1>1, UnpackedFacts
  <1>3. /\ Params(t).ifLen \subseteq Params(t).sized
        /\ t \notin CbcCtr => Params(t).must \subseteq Params(t).fixed
        /\ t \in CbcCtr => /\ Params(t).must \subseteq Params(t).fixed \cup {"in", "out"}
                           /\ Params(t).some = {} /\ Params(t).sized = InOut
    BY <1>2, ChecksNeeded
  <1>4. SUFFICES ASSUME ~ThroughNull(t, a), a.aligned, Params(t).some \cap a.zero = {}
                 PROVE  t \in CbcCtr /\ a.zero = {"len"} /\ {"in", "out"} \cap a.null # {}
    BY <1>1
  <1>5. Params(t).must \cap a.null # {}
    BY <1>1, <1>3, <1>4 DEF BadArgs, ThroughNull
  <1>6. t \in CbcCtr
    BY <1>3, <1>4, <1>5 DEF ThroughNull
  <1>7. {"in", "out"} \cap a.null # {}
    BY <1>3, <1>4, <1>5, <1>6 DEF ThroughNull
  <1>8. "len" \in a.zero
    <2>1. \A s \in InOut : s[1] \in a.null => s[2] \in a.zero
      BY <1>3, <1>4, <1>6 DEF ThroughNull
    <2>2. /\ <<"in", "len">> \in InOut /\ <<"out", "len">> \in InOut
          /\ <<"in", "len">>[1] = "in" /\ <<"in", "len">>[2] = "len"
          /\ <<"out", "len">>[1] = "out" /\ <<"out", "len">>[2] = "len"
      BY DEF InOut
    <2> QED BY <1>7, <2>1, <2>2
  <1>9. a.zero \subseteq {"len"}
    <2>1. Lengths(t) \subseteq {"len"}
      BY <1>3, <1>6 DEF Lengths, InOut
    <2>2. TRUE \in BOOLEAN
      OBVIOUS
    <2> QED BY <1>2, <1>6, <2>1, <2>2, ArgsFacts
  <1> QED BY <1>6, <1>7, <1>8, <1>9

\* An answer has a status, which does not depend on whether the primitive was run.
LEMMA AnswerShape ==
  ASSUME NEW e, NEW api, NEW a, NEW q \in Primitive(e, api, a)
  PROVE  [q EXCEPT !.run = TRUE].st = q.st
  <1>1. \E st, run : q = [st |-> st, run |-> run]
    BY DEF Primitive, CC310Call, OnChipCall, Answer
  <1> QED BY <1>1

\* The call a fallback, a backend or one of two primitives refuses.
LEMMA AnswerRefuses ==
  ASSUME NEW e, NEW api, NEW a \in Args(api), NEW r \in Answers(e, api, a), r.st = "BadParam"
  PROVE  LET t == Target(api, a) IN
         \/ BadArgs(t, a) \/ a.big \/ t \in BuildsKey
         \/ t \in Encrypts /\ SoftRefuses(a)
  <1>1. PICK t : t = Target(api, a)
    OBVIOUS
  <1> SUFFICES ASSUME ~BadArgs(t, a), ~a.big, t \notin BuildsKey
               PROVE  t \in Encrypts /\ SoftRefuses(a)
    BY <1>1
  <1>2. PICK x : x = [a EXCEPT !.big = a.big /\ Parts(t) = <<t>>]
    OBVIOUS
  <1>3. x.null = a.null /\ x.zero = a.zero /\ x.big = FALSE
    <2>1. (a.big /\ Parts(t) = <<t>>) = FALSE
      BY Zenon
    <2>2. x = [a EXCEPT !.big = FALSE] /\ FALSE \in BOOLEAN
      BY <1>2, <2>1
    <2> QED BY <2>2, ArgsFacts
  <1>4. \/ r \in Primitive(e, Parts(t)[1], x)
        \/ /\ Parts(t) # <<t>>
           /\ \E q \in Primitive(e, Parts(t)[2], a) : q.st = "BadParam"
    <2> DEFINE first == Primitive(e, Parts(t)[1], [a EXCEPT !.big = a.big /\ Parts(t) = <<t>>])
               failed == {q \in first : q.st # "Ok"}
               second == {[q EXCEPT !.run = TRUE] : q \in Primitive(e, Parts(t)[2], a)}
    <2>1. api \notin Streams /\ backend[e] # "none"
      BY DEF Answers, Answer
    <2>2. Answers(e, api, a) = IF Parts(t) = <<t>> THEN first
                               ELSE failed \cup (IF failed = first THEN {} ELSE second)
      BY <1>1, <2>1, Zenon DEF Answers
    <2>3. r \in first \/ (Parts(t) # <<t>> /\ r \in second)
      BY <2>2
    <2>4. ASSUME r \in second PROVE \E q \in Primitive(e, Parts(t)[2], a) : q.st = "BadParam"
      <3>1. PICK q \in Primitive(e, Parts(t)[2], a) : r = [q EXCEPT !.run = TRUE]
        BY <2>4
      <3>2. [q EXCEPT !.run = TRUE].st = q.st
        BY AnswerShape
      <3> QED BY <3>1, <3>2
    <2> QED BY <1>2, <2>3, <2>4
  <1>5. Parts(t) = <<t>> \/ Parts(t) = <<"ed25519DeriveFromSeed", "ed25519Sign">>
    BY DEF Parts, BuildsKey
  <1>6. CASE r \in Primitive(e, Parts(t)[1], x)
    <2>1. Parts(t)[1] = t \/ Parts(t)[1] = "ed25519DeriveFromSeed"
      BY <1>5
    <2>2. \/ Parts(t)[1] \in {"ecdsaVerify", "ecdsaSign", "ecdhShared"}
          \/ Parts(t)[1] \in Encrypts /\ SoftRefuses(x)
      BY <1>3, <1>6, PrimitiveRefuses
    <2> QED BY <1>3, <2>1, <2>2 DEF BuildsKey, Encrypts, SoftRefuses
  <1>7. CASE Parts(t) # <<t>> /\ \E q \in Primitive(e, Parts(t)[2], a) : q.st = "BadParam"
    <2>1. Parts(t)[2] = "ed25519Sign"
      BY <1>5, <1>7
    <2> QED BY <1>7, <2>1, PrimitiveRefuses DEF Encrypts
  <1> QED BY <1>4, <1>6, <1>7

\* BadParam is answered only for arguments the call cannot do with, or a key the
\* library does not take; for every call, on either backend.
THEOREM RefusesOnlyBad == Spec => []RefusesOnlyBadArgs
  <1>1. Init => RefusesOnlyBadArgs
    BY DEF Init, NoCall, RefusesOnlyBadArgs
  <1>2. RefusesOnlyBadArgs /\ [Next]_vars => RefusesOnlyBadArgs'
    <2> SUFFICES ASSUME RefusesOnlyBadArgs, [Next]_vars PROVE RefusesOnlyBadArgs'
      OBVIOUS
    <2>1. ASSUME NEW e \in Engines, NEW api \in Apis, Call(e, api)
          PROVE  RefusesOnlyBadArgs'
      <3>1. PICK a, r :
              /\ a \in Args(api)
              /\ r \in Answers(e, api, a)
              /\ call' = [api |-> api, args |-> a, st |-> r.st, run |-> r.run]
        BY <2>1 DEF Call
      <3>2. call'.api = api /\ call'.args = a /\ call'.st = r.st
        BY <3>1
      <3>3. PICK t : t = Target(api, a)
        OBVIOUS
      <3>4. r.st = "BadParam" =>
              \/ BadArgs(t, a) \/ a.big \/ t \in BuildsKey
              \/ t \in Encrypts /\ SoftRefuses(a)
        BY <3>1, <3>3, AnswerRefuses
      <3>5. BadArgs(t, a) =>
              \/ ThroughNull(t, a) \/ Params(t).some \cap a.zero # {} \/ ~a.aligned
              \/ t \in CbcCtr /\ a.zero = {"len"} /\ {"in", "out"} \cap a.null # {}
        BY <3>1, <3>3, BadArgsAreBad
      <3>6. t \in Encrypts /\ SoftRefuses(a) => ThroughNull(t, a)
        <4>1. t \in Encrypts => InOut \subseteq Params(t).sized
          BY <3>3, UnpackedFacts, ChecksNeeded
        <4> QED BY <4>1 DEF SoftRefuses, ThroughNull, InOut
      <3> QED BY <3>2, <3>3, <3>4, <3>5, <3>6 DEF RefusesOnlyBadArgs
    <2>2. ASSUME call' = NoCall PROVE RefusesOnlyBadArgs'
      BY <2>2 DEF NoCall, RefusesOnlyBadArgs
    <2>3. CASE UNCHANGED vars
      BY <2>3 DEF vars, RefusesOnlyBadArgs
    <2> QED BY <2>1, <2>2, <2>3 DEF Next
  <1> QED BY <1>1, <1>2, PTL DEF Spec

-----------------------------------------------------------------------------
(* What supports() reports *)

OneEngine == \A e \in Engines, f \in Engines : e = f

\* An engine's backend runs, which end() of a second engine could undo.
BackendRuns ==
  /\ backend \in [Engines -> BackendPtr]
  /\ \A e \in Engines : /\ backend[e] = "CC310" => started
                        /\ backend[e] = "OnChip" => onchip

\* begin() leaves the engine on a backend that runs, or on none; end() on none.
LEMMA BackendRunsInductive ==
  ASSUME OneEngine
  PROVE  Spec => []BackendRuns
  <1>1. Init => BackendRuns
    BY DEF Init, RS!Init, BackendRuns, BackendPtr
  <1>2. BackendRuns /\ [Next]_vars => BackendRuns'
    <2> SUFFICES ASSUME BackendRuns, [Next]_vars PROVE BackendRuns'
      OBVIOUS
    <2>1. ASSUME NEW e \in Engines, RS!Begin(e) PROVE BackendRuns'
      <3>1. PICK p \in Prefer, lib \in BOOLEAN, rnd \in BOOLEAN, ecb \in BOOLEAN :
              RS!begin(e, p, lib, rnd, ecb)
        BY <2>1 DEF RS!Begin, RS!Prefer, Prefer
      <3>2. PICK run, up \in BOOLEAN, probe \in BOOLEAN, ptr \in BackendPtr :
              /\ ptr = IF up THEN "CC310" ELSE IF probe /\ ecb THEN "OnChip" ELSE "none"
              /\ backend' = [backend EXCEPT ![e] = ptr]
              /\ started' = (run \/ up)
              /\ onchip' = IF probe THEN ecb ELSE onchip
        BY <3>1 DEF RS!begin, RS!CC310Begins, BackendPtr
      <3>3. /\ ptr = "CC310" => started'
            /\ ptr = "OnChip" => onchip'
        BY <3>2
      <3> QED BY <3>2, <3>3 DEF BackendRuns, OneEngine
    <2>2. ASSUME NEW e \in Engines, RS!end(e) PROVE BackendRuns'
      <3>1. backend' = [backend EXCEPT ![e] = "none"]
        BY <2>2 DEF RS!end
      <3> QED BY <3>1 DEF BackendRuns, OneEngine, BackendPtr
    <2>3. CASE UNCHANGED life
      BY <2>3 DEF life, BackendRuns
    <2> QED BY <2>1, <2>2, <2>3 DEF Next, Call, vars
  <1> QED BY <1>1, <1>2, PTL DEF Spec

\* The calls of a capability end in low-level calls of it.
LEMMA CapabilityCalls ==
  ASSUME NEW cap \in Capabilities, NEW api \in CallsOf(cap)
  PROVE  /\ Target(api, GoodArgs) \in LowLevelOf(cap)
         /\ api \in Streams <=> cap \in StreamCaps
  <1>1. ASSUME NEW t \in LowLevelOf(cap)
        PROVE  /\ t \notin DOMAIN WhenSet /\ t \notin DOMAIN Unpacks
               /\ t \in Streams <=> cap \in StreamCaps
    BY <1>1 DEF LowLevelOf, WhenSet, Unpacks, Streams, StreamCaps, Capabilities
  <1>2. CASE api \in LowLevelOf(cap)
    BY <1>1, <1>2 DEF Target
  <1>3. CASE api \in DOMAIN Unpacks /\ Unpacks[api] \in LowLevelOf(cap)
    <2>1. api \in DOMAIN WhenSet => WhenSet[api] \in LowLevelOf(cap)
      BY <1>3 DEF Unpacks, WhenSet, LowLevelOf, Capabilities
    <2>2. api \notin Streams /\ Unpacks[api] \notin Streams
      BY <1>3 DEF Unpacks, Streams
    <2> QED BY <1>1, <1>3, <2>1, <2>2 DEF Target
  <1> QED BY <1>2, <1>3 DEF CallsOf

\* Good arguments pass the engine's checks.
LEMMA GoodPass ==
  ASSUME NEW api
  PROVE  ~BadArgs(api, GoodArgs)
  BY DEF BadArgs, GoodArgs

\* What the engine answers to good arguments.
LEMMA GoodAnswers ==
  ASSUME NEW e, NEW api, api \notin Streams, backend[e] # "none"
  PROVE  LET t == Target(api, GoodArgs)
             first == Primitive(e, Parts(t)[1], GoodArgs)
             failed == {r \in first : r.st # "Ok"}
             second == {[r EXCEPT !.run = TRUE] : r \in Primitive(e, Parts(t)[2], GoodArgs)}
         IN Answers(e, api, GoodArgs) =
              IF Parts(t) = <<t>> THEN first
              ELSE failed \cup (IF failed = first THEN {} ELSE second)
  <1>1. PICK t : t = Target(api, GoodArgs)
    OBVIOUS
  <1>2. (GoodArgs.big /\ Parts(t) = <<t>>) = FALSE
    BY DEF GoodArgs
  <1>3. [GoodArgs EXCEPT !.big = FALSE] = GoodArgs
    <2>1. GoodArgs \in [null : {{}}, zero : {{}}, aligned : BOOLEAN, big : BOOLEAN]
      BY DEF GoodArgs
    <2>2. GoodArgs.big = FALSE
      BY DEF GoodArgs
    <2>3. [GoodArgs EXCEPT !.big = GoodArgs.big] = GoodArgs
      BY <2>1
    <2> QED BY <2>2, <2>3, Zenon
  <1>4. [GoodArgs EXCEPT !.big = GoodArgs.big /\ Parts(t) = <<t>>] = GoodArgs
    BY <1>2, <1>3
  <1>5. ~BadArgs(t, GoodArgs)
    BY GoodPass
  <1> QED BY <1>1, <1>4, <1>5, Zenon DEF Answers

\* The capabilities the OnChip backend lacks
OnlyCC310 == {"Ecdsa", "Ecdh", "X25519", "Ed25519", "RsaPkcs1", "RsaPss"}

\* The answers of an engine that does not have a call
Unanswered == {"Unsupported", "NotStarted"}

\* The CC310 backend, running, has every call.
LEMMA CC310HasAll ==
  ASSUME NEW e, backend[e] = "CC310", started, NEW api, NEW r \in Primitive(e, api, GoodArgs)
  PROVE  r.st \notin Unanswered
  <1>1. \A q \in CC310Call(api, GoodArgs) : q.st \notin Unanswered
    <2>1. \A st \in CC310Outcomes(api) : st \notin Unanswered
      BY DEF CC310Outcomes, Unanswered
    <2> QED BY <2>1 DEF CC310Call, Answer, GoodArgs, Unanswered
  <1> QED BY <1>1 DEF Primitive, Unanswered

\* The OnChip backend, running, has its own calls and those with a fallback.
LEMMA OnChipHas ==
  ASSUME NEW e, backend[e] = "OnChip", onchip, NEW api
  PROVE  /\ api \in OnChipOwn \cup Fallbacks =>
              \A r \in Primitive(e, api, GoodArgs) : r.st \notin Unanswered
         /\ api \notin OnChipOwn \cup Fallbacks =>
              Primitive(e, api, GoodArgs) = {[st |-> "Unsupported", run |-> FALSE]}
         /\ api = "sha256" => Primitive(e, api, GoodArgs) = {[st |-> "Ok", run |-> TRUE]}
  <1>1. ~SoftRefuses(GoodArgs)
    BY DEF SoftRefuses, GoodArgs
  <1>2. api \in OnChipOwn => \A q \in OnChipCall(api, GoodArgs) : q.st \notin Unanswered
    BY <1>1 DEF OnChipCall, Answer, Unanswered
  <1>3. api \notin OnChipOwn => OnChipCall(api, GoodArgs) = {[st |-> "Unsupported", run |-> FALSE]}
    BY DEF OnChipCall, Answer
  <1>4. api = "sha256" => OnChipCall(api, GoodArgs) = {[st |-> "Ok", run |-> TRUE]}
    BY DEF OnChipCall, OnChipOwn, Encrypts, Decrypts, CbcCtr, CbcDecrypts, Answer
  <1> QED BY <1>2, <1>3, <1>4 DEF Primitive, Unanswered, Fallbacks

\* The calls of two parts, and what a capability without hardware is made of
LEMMA PartsOfCapability ==
  ASSUME NEW cap \in Capabilities, NEW t \in LowLevelOf(cap), cap \notin StreamCaps
  PROVE  /\ cap \notin OnlyCC310 => t \in OnChipOwn \cup Fallbacks /\ Parts(t) = <<t>>
         /\ cap \in OnlyCC310 =>
              \/ Parts(t) = <<t>> /\ t \notin OnChipOwn \cup Fallbacks
              \/ Parts(t) # <<t>> /\ Parts(t)[1] = "sha256"
                 /\ Parts(t)[2] \notin OnChipOwn \cup Fallbacks
              \/ Parts(t) # <<t>> /\ Parts(t)[1] \notin OnChipOwn \cup Fallbacks
  <1>1. CASE cap \notin OnlyCC310
    BY <1>1 DEF Capabilities, OnlyCC310, StreamCaps, LowLevelOf, OnChipOwn, Fallbacks,
                Encrypts, Decrypts, CbcCtr, CbcDecrypts, Parts
  <1>2. CASE cap \in OnlyCC310
    BY <1>2 DEF Capabilities, OnlyCC310, StreamCaps, LowLevelOf, OnChipOwn, Fallbacks,
                Encrypts, Decrypts, CbcCtr, CbcDecrypts, Parts
  <1> QED BY <1>1, <1>2

\* An answer of a call without a backend behind it
Refused(r) == r.st \in Unanswered

\* Every call of a capability is answered on the CC310
LEMMA CC310Answers ==
  ASSUME NEW e, backend[e] = "CC310", started, NEW api, api \notin Streams,
         NEW r \in Answers(e, api, GoodArgs)
  PROVE  ~Refused(r)
  <1>1. PICK t, p, q : /\ t = Target(api, GoodArgs)
                       /\ p = Parts(t)[1] /\ q = Parts(t)[2]
    OBVIOUS
  <1>2. \A s \in Primitive(e, p, GoodArgs) : s.st \notin Unanswered
    BY CC310HasAll
  <1>3. \A s \in Primitive(e, q, GoodArgs) : s.st \notin Unanswered
    BY CC310HasAll
  <1>4. \/ r \in Primitive(e, p, GoodArgs)
        \/ \E s \in Primitive(e, q, GoodArgs) : r = [s EXCEPT !.run = TRUE]
    BY <1>1, GoodAnswers
  <1>5. \A s \in Primitive(e, q, GoodArgs) : [s EXCEPT !.run = TRUE].st = s.st
    BY AnswerShape
  <1> QED BY <1>2, <1>3, <1>4, <1>5 DEF Refused

\* The calls of a capability it has are answered on the OnChip backend
LEMMA OnChipAnswers ==
  ASSUME NEW e, backend[e] = "OnChip", onchip, NEW api, api \notin Streams,
         Target(api, GoodArgs) \in OnChipOwn \cup Fallbacks,
         Parts(Target(api, GoodArgs)) = <<Target(api, GoodArgs)>>,
         NEW r \in Answers(e, api, GoodArgs)
  PROVE  ~Refused(r)
  <1>1. PICK t : t = Target(api, GoodArgs) /\ Parts(t)[1] = t /\ Parts(t) = <<t>>
    OBVIOUS
  <1>2. r \in Primitive(e, t, GoodArgs)
    BY <1>1, GoodAnswers
  <1> QED BY <1>1, <1>2, OnChipHas DEF Refused

\* The other calls are not
LEMMA OnChipLacks ==
  ASSUME NEW e, backend[e] = "OnChip", onchip, NEW api, api \notin Streams,
         NEW t, t = Target(api, GoodArgs),
         \/ Parts(t) = <<t>> /\ t \notin OnChipOwn \cup Fallbacks
         \/ Parts(t) # <<t>> /\ Parts(t)[1] = "sha256"
            /\ Parts(t)[2] \notin OnChipOwn \cup Fallbacks
         \/ Parts(t) # <<t>> /\ Parts(t)[1] \notin OnChipOwn \cup Fallbacks
  PROVE  \E r \in Answers(e, api, GoodArgs) : Refused(r)
  <1>1. PICK p, q, first, failed, second :
          /\ p = Parts(t)[1] /\ q = Parts(t)[2]
          /\ first = Primitive(e, p, GoodArgs)
          /\ failed = {r \in first : r.st # "Ok"}
          /\ second = {[r EXCEPT !.run = TRUE] : r \in Primitive(e, q, GoodArgs)}
    OBVIOUS
  <1>2. Answers(e, api, GoodArgs) =
          IF Parts(t) = <<t>> THEN first
          ELSE failed \cup (IF failed = first THEN {} ELSE second)
    BY <1>1, GoodAnswers
  <1>3. \A x : x \notin OnChipOwn \cup Fallbacks =>
               Primitive(e, x, GoodArgs) = {[st |-> "Unsupported", run |-> FALSE]}
    BY OnChipHas
  <1>4. CASE p \notin OnChipOwn \cup Fallbacks
    <2>1. first = {[st |-> "Unsupported", run |-> FALSE]}
      BY <1>1, <1>3, <1>4
    <2>2. PICK r \in first : r.st = "Unsupported"
      BY <2>1
    <2>3. r \in failed
      BY <1>1, <2>2
    <2> QED BY <1>2, <2>2, <2>3 DEF Refused, Unanswered
  <1>5. CASE Parts(t) # <<t>> /\ p = "sha256" /\ q \notin OnChipOwn \cup Fallbacks
    <2>1. first = {[st |-> "Ok", run |-> TRUE]}
      BY <1>1, <1>5, OnChipHas
    <2>2. failed # first
      <3>1. PICK r \in first : r.st = "Ok"
        BY <2>1
      <3>2. r \notin failed
        BY <1>1, <3>1
      <3> QED BY <3>1, <3>2
    <2>3. PICK u \in Primitive(e, q, GoodArgs) : u = [st |-> "Unsupported", run |-> FALSE]
      BY <1>3, <1>5
    <2>4. [u EXCEPT !.run = TRUE] \in second /\ [u EXCEPT !.run = TRUE].st = "Unsupported"
      BY <1>1, <2>3
    <2> QED BY <1>2, <1>5, <2>2, <2>4 DEF Refused, Unanswered
  <1>6. Parts(t) = <<t>> => p = t
    BY <1>1
  <1> QED BY <1>1, <1>4, <1>5, <1>6

\* While the backends the engines are on run, supports() reports a capability
\* exactly when every call of it, given good arguments, is answered.
LEMMA HonestWhileRunning ==
  ASSUME BackendRuns
  PROVE  SupportsIsHonest
  <1> SUFFICES ASSUME NEW e \in Engines, NEW cap \in Capabilities,
                      NEW api \in CallsOf(cap)
               PROVE  supports(e, cap) <=>
                        \A r \in Answers(e, api, GoodArgs) : ~Refused(r)
    BY Zenon DEF SupportsIsHonest, Refused, Unanswered
  <1>1. PICK t : t = Target(api, GoodArgs) /\ t \in LowLevelOf(cap)
    BY CapabilityCalls
  <1>2. api \in Streams <=> cap \in StreamCaps
    BY CapabilityCalls
  <1>3. backend[e] \in {"none", "CC310", "OnChip"}
    BY DEF BackendRuns, BackendPtr
  <1>4. CASE cap \in StreamCaps
    <2>1. Answers(e, api, GoodArgs) = Answer({"Ok"}, FALSE)
      BY <1>2, <1>4 DEF Answers
    <2> QED BY <1>4, <2>1 DEF supports, Answer, Refused, Unanswered
  <1>5. CASE cap \notin StreamCaps /\ backend[e] = "none"
    <2>1. Answers(e, api, GoodArgs) = Answer({"NotStarted"}, FALSE)
      BY <1>2, <1>5 DEF Answers
    <2>2. PICK r \in Answers(e, api, GoodArgs) : r.st = "NotStarted"
      <3>1. [st |-> "NotStarted", run |-> FALSE] \in Answers(e, api, GoodArgs)
        BY <2>1, Zenon DEF Answer
      <3> QED BY <3>1
    <2>3. Refused(r)
      BY <2>2 DEF Refused, Unanswered
    <2> QED BY <1>5, <2>2, <2>3 DEF supports, supportsCapability
  <1>6. CASE cap \notin StreamCaps /\ backend[e] = "CC310"
    <2>1. started
      BY <1>6 DEF BackendRuns
    <2>2. supports(e, cap)
      BY <1>6, <2>1 DEF supports, supportsCapability
    <2> QED BY <1>2, <1>6, <2>1, <2>2, CC310Answers
  <1>7. CASE cap \notin StreamCaps /\ backend[e] = "OnChip"
    <2>1. onchip
      BY <1>7 DEF BackendRuns
    <2>2. supports(e, cap) <=> cap \notin OnlyCC310
      BY <1>7, <2>1 DEF supports, supportsCapability, OnlyCC310
    <2>3. CASE cap \notin OnlyCC310
      <3>1. t \in OnChipOwn \cup Fallbacks /\ Parts(t) = <<t>>
        BY <1>1, <1>7, <2>3, PartsOfCapability
      <3>2. \A r \in Answers(e, api, GoodArgs) : ~Refused(r)
        BY <1>1, <1>2, <1>7, <2>1, <3>1, OnChipAnswers
      <3> QED BY <2>2, <2>3, <3>2
    <2>4. CASE cap \in OnlyCC310
      <3>1. \/ Parts(t) = <<t>> /\ t \notin OnChipOwn \cup Fallbacks
            \/ Parts(t) # <<t>> /\ Parts(t)[1] = "sha256"
               /\ Parts(t)[2] \notin OnChipOwn \cup Fallbacks
            \/ Parts(t) # <<t>> /\ Parts(t)[1] \notin OnChipOwn \cup Fallbacks
        BY <1>1, <1>7, <2>4, PartsOfCapability
      <3>2. \E r \in Answers(e, api, GoodArgs) : Refused(r)
        BY <1>1, <1>2, <1>7, <2>1, <3>1, OnChipLacks
      <3> QED BY <2>2, <2>4, <3>2
    <2> QED BY <2>3, <2>4
  <1> QED BY <1>3, <1>4, <1>5, <1>6, <1>7

\* supports() tells the truth (SupportsIsHonest): proved for one engine.  With two,
\* one of them can stop the shared OnChip backend under the other, whose supports()
\* then says no of calls that still answer
THEOREM SupportsHonest ==
  ASSUME OneEngine
  PROVE  Spec => []SupportsIsHonest
  <1>1. BackendRuns => SupportsIsHonest
    BY HonestWhileRunning
  <1> QED BY <1>1, BackendRunsInductive, PTL
=============================================================================
