---------------------------- MODULE ApiDispatch ----------------------------
(***************************************************************************)
(* How CryptoEngine dispatches a call: the not-started guard, the argument *)
(* checks of the engine and of the backend, the software fallback when a   *)
(* backend answers Unsupported, the calls made of two primitives, and      *)
(* supports().  The life cycle is that of RsaKeyStore, without keys.       *)
(*                                                                         *)
(* An argument list is abstracted to which pointers are null, which        *)
(* lengths are zero, whether the length is a multiple of the AES block and *)
(* whether a length is beyond what the backend accepts.                    *)
(***************************************************************************)
EXTENDS CryptoTypes

CONSTANTS
  Engines,     \* the CryptoEngine objects
  HasCC310,    \* the vendored archive is linked
  Apis         \* the calls the application makes

VARIABLES
  backend, started, onchip, libOpen, enabled,   \* as in RsaKeyStore
  slots, nextKey, handles, made, lastError,     \* its keys: here there are none
  ret,         \* the last begin() or end()
  call         \* the last other call: its arguments, its status and whether a
               \* cryptographic primitive was run on the arguments

life == <<backend, started, onchip, libOpen, enabled, slots, nextKey, handles,
          made, lastError, ret>>
vars == <<life, call>>

\* The life cycle actions of RsaKeyStore, of an application without RSA keys
RS == INSTANCE RsaKeyStore WITH
        Handles <- {}, Materials <- {}, NullPtr <- "null", SlotCount <- 1,
        MaxKeys <- 0, CrysErrors <- {}

-----------------------------------------------------------------------------
(* The calls of the engine: the pointers a call dereferences always (fixed)  *)
(* and when a length is positive (sized), and what the engine checks first:  *)
(* never null (must), null only with length zero (ifLen), length positive    *)
(* (some), length a multiple of the block (block)                            *)

InOut == {<<"in", "len">>, <<"out", "len">>}
Aad == {<<"aad", "aadLen">>}
Msg == {<<"msg", "msgLen">>}

\* A call whose checks match its parameters
Plain(fixed, sized) ==
  [fixed |-> fixed, sized |-> sized, must |-> fixed, ifLen |-> sized,
   some |-> {}, block |-> FALSE]

random == [Plain({"buf"}, {}) EXCEPT !.some = {"len"}]
hash == Plain({"out"}, {<<"in", "len">>})
hkdfSha256 ==
  [Plain({"okm"}, {<<"ikm", "ikmLen">>, <<"salt", "saltLen">>, <<"info", "infoLen">>})
     EXCEPT !.some = {"okmLen"}]
hmacSha256 == Plain({"out"}, {<<"key", "keyLen">>} \cup Msg)

\* aesCbcEncrypt, aesCbcDecrypt: in and out must not be null even when len is 0
aesCbc ==
  [Plain({"key", "iv"}, InOut) EXCEPT
     !.must = {"key", "iv", "in", "out"}, !.ifLen = {}, !.block = TRUE]
aesCtr == [aesCbc EXCEPT !.block = FALSE]

\* aesGcmEncrypt, aesGcmDecrypt: in, out and aad are not checked
aesGcm == [Plain({"key", "iv", "tag"}, InOut \cup Aad) EXCEPT !.ifLen = {}]

\* Mutant of chachaPoly: in and out are checked as aesCbc does, whatever the length
chachaPolyStrict ==
  LET p == Plain({"key", "nonce", "tag"}, InOut \cup Aad)
  IN [p EXCEPT !.must = p.must \cup {"in", "out"}]

\* Mutant of chachaPoly: the check of aad is forgotten
chachaPolyNoAad == [Plain({"key", "nonce", "tag"}, InOut \cup Aad) EXCEPT !.ifLen = InOut]

chachaPoly == Plain({"key", "nonce", "tag"}, InOut \cup Aad)

\* The Seal and Open calls: key, nonce and tag are arrays of the message struct
\* and cannot be null; the checks of the call below are made too
aeadSeal == Plain({}, InOut \cup Aad)
aesCbcSeal == [Plain({}, InOut) EXCEPT !.must = {"in", "out"}, !.block = TRUE]
aesCtrTransform == [aesCbcSeal EXCEPT !.block = FALSE]

\* Key generation, agreement, and signatures of a hash
curve == Plain({"first", "second"}, {})
curve3 == Plain({"first", "second", "third"}, {})

\* Signatures of a message, and their verification
signMessage == Plain({"key", "sig"}, Msg)

\* The overloads that unpack a message struct and the calls they make.  Only the
\* pointer fields can be null: the other buffers are arrays of the struct
Unpacks == [
  sha256Msg |-> "sha256", sha384Msg |-> "sha384", sha512Msg |-> "sha512",
  hkdfSha256Msg |-> "hkdfSha256", hmacSha256Msg |-> "hmacSha256",
  ecdsaGenerateKeyMsg |-> "ecdsaGenerateKey", ecdsaSignMsg |-> "ecdsaSignMessage",
  ecdsaVerifyMsg |-> "ecdsaVerifyMessage", x25519GenerateKeyMsg |-> "x25519GenerateKey",
  x25519SharedMsg |-> "x25519Shared", ed25519GenerateKeyMsg |-> "ed25519GenerateKey",
  ed25519SignMsg |-> "ed25519Sign", ed25519VerifyMsg |-> "ed25519Verify"]

\* The optional field of a struct, null when it is not set, and the call made when
\* it is.  hashOverride is the second argument of ecdsaSign and ecdsaVerify, and
\* the payload is ignored then
Optional == [ecdsaSignMsg |-> {"second"}, ecdsaVerifyMsg |-> {"second"},
             ed25519SignMsg |-> {"useSeed"}]
WhenSet == [ecdsaSignMsg |-> "ecdsaSign", ecdsaVerifyMsg |-> "ecdsaVerify",
            ed25519SignMsg |-> "ed25519SignFromSeed"]

OptionalOf(api) == IF api \in DOMAIN Optional THEN Optional[api] ELSE {}

\* The call that is made in the end
Target(api, a) ==
  IF api \in DOMAIN WhenSet /\ OptionalOf(api) \cap a.null = {} THEN WhenSet[api]
  ELSE IF api \in DOMAIN Unpacks THEN Unpacks[api] ELSE api

\* The parameters and checks of each call
Params(api) ==
  CASE api = "random"                              -> random
    [] api \in {"sha256", "sha384", "sha512"}      -> hash
    [] api = "hkdfSha256"                          -> hkdfSha256
    [] api = "hmacSha256"                          -> hmacSha256
    [] api \in {"aesCbcEncrypt", "aesCbcDecrypt"}  -> aesCbc
    [] api = "aesCtr"                              -> aesCtr
    [] api \in {"aesGcmEncrypt", "aesGcmDecrypt"}  -> aesGcm
    [] api \in {"chachaPolyEncrypt", "chachaPolyDecrypt"} -> chachaPoly
    [] api \in {"aesGcmSeal", "aesGcmOpen",
                "chachaPolySeal", "chachaPolyOpen"} -> aeadSeal
    [] api \in {"aesCbcSeal", "aesCbcOpen"}        -> aesCbcSeal
    [] api = "aesCtrTransform"                     -> aesCtrTransform
    [] api \in {"ecdsaGenerateKey", "x25519GenerateKey",
                "ed25519GenerateKey"}              -> curve
    [] api \in {"ecdsaSign", "ecdsaVerify", "ecdhShared", "x25519Shared",
                "ed25519DeriveFromSeed"}           -> curve3
    [] api \in {"ecdsaSignMessage", "ecdsaVerifyMessage", "ed25519Sign",
                "ed25519Verify", "ed25519SignFromSeed"} -> signMessage
    [] api \in {"sha256Msg", "sha384Msg", "sha512Msg"} -> Plain({}, {<<"in", "len">>})
    [] api = "hkdfSha256Msg"                       -> hkdfSha256
    [] api = "hmacSha256Msg"                       -> [hmacSha256 EXCEPT !.fixed = {}]
    [] api \in {"ecdsaSignMsg", "ecdsaVerifyMsg", "ed25519SignMsg",
                "ed25519VerifyMsg"}                -> Plain({}, Msg)
    [] OTHER                                       -> Plain({}, {})

Pointers(api) ==
  Params(api).fixed \cup {s[1] : s \in Params(api).sized} \cup OptionalOf(api)
Lengths(api) == {s[2] : s \in Params(api).sized} \cup Params(api).some

\* The primitives with an upper limit on a length, all on the CC310
Limited == {"hkdfSha256", "hmacSha256", "ed25519Sign", "ed25519Verify",
            "ed25519SignFromSeed"}

Args(api) ==
  {a \in [null : SUBSET Pointers(api), zero : SUBSET Lengths(api),
          aligned : BOOLEAN, big : BOOLEAN] :
     /\ ~a.aligned => Params(api).block /\ a.zero = {}
     /\ a.big => Target(api, a) \in Limited /\ a.zero = {}}

\* Arguments nobody could object to
GoodArgs == [null |-> {}, zero |-> {}, aligned |-> TRUE, big |-> FALSE]

\* The engine's own checks
BadArgs(api, a) ==
  LET p == Params(api) IN
  \/ p.must \cap a.null # {}
  \/ \E s \in p.ifLen : s[1] \in a.null /\ s[2] \notin a.zero
  \/ p.some \cap a.zero # {}
  \/ p.block /\ ~a.aligned

\* A primitive run on these arguments reads or writes through a null pointer
ThroughNull(api, a) ==
  \/ Params(api).fixed \cap a.null # {}
  \/ \E s \in Params(api).sized : s[1] \in a.null /\ s[2] \notin a.zero

-----------------------------------------------------------------------------
(* The backends.  An answer is a status and whether the primitive was run *)

Answer(sts, run) == {[st |-> st, run |-> run] : st \in sts}

Encrypts == {"aesGcmEncrypt", "aesGcmSeal", "chachaPolyEncrypt", "chachaPolySeal"}
Decrypts == {"aesGcmDecrypt", "aesGcmOpen", "chachaPolyDecrypt", "chachaPolyOpen"}
CbcDecrypts == {"aesCbcDecrypt", "aesCbcOpen"}
CbcCtr == {"aesCbcEncrypt", "aesCbcSeal", "aesCtr", "aesCtrTransform"} \cup CbcDecrypts

\* What the library calls of a CC310 operation can lead to
CC310Outcomes(api) ==
  CASE api = "sha384" \/ api \in Encrypts       -> {"Ok"}
    [] api \in Decrypts \cup {"ed25519Verify"}  -> {"Ok", "AuthFailed"}
    [] api = "ecdsaVerify"                      -> {"Ok", "BadParam", "AuthFailed"}
    [] api \in {"ecdsaSign", "ecdhShared"}      -> {"Ok", "BadParam", "InternalError"}
    [] OTHER                                    -> {"Ok", "InternalError"}

CC310Call(api, a) ==
  IF ~started THEN Answer({"NotStarted"}, FALSE)
  ELSE IF a.big THEN Answer({"BadParam"}, FALSE)
  ELSE Answer(CC310Outcomes(api), TRUE)

\* The operations OnChipBackend overrides
OnChipOwn == {"random", "sha256", "sha384", "sha512", "hkdfSha256"}
             \cup CbcCtr \cup Encrypts \cup Decrypts

\* SoftAesGcm and SoftChaChaPoly check in and out, not aad
SoftRefuses(a) == a.null \cap {"in", "out"} # {} /\ "len" \notin a.zero

OnChipCall(api, a) ==
  IF api \notin OnChipOwn THEN Answer({"Unsupported"}, FALSE)
  ELSE IF api \in Encrypts \cup Decrypts /\ ~onchip THEN Answer({"NotStarted"}, FALSE)
  ELSE IF api \in Encrypts /\ SoftRefuses(a) THEN Answer({"BadParam"}, FALSE)
  ELSE IF api \in Decrypts /\ SoftRefuses(a) THEN Answer({"AuthFailed"}, FALSE)
  ELSE IF api \in Decrypts THEN Answer({"Ok", "AuthFailed"}, TRUE)
  ELSE IF api \in CbcCtr \ CbcDecrypts /\ "len" \notin a.zero
       THEN Answer({"Ok", "InternalError"}, TRUE)
  ELSE Answer({"Ok"}, TRUE)

\* Mutant of Fallbacks: hmacSha256 returns what the backend answers
FallbacksNoHmac == {"sha384", "sha512", "hkdfSha256"}

\* The calls the engine computes in software when the backend does not
Fallbacks == {"sha384", "sha512", "hkdfSha256", "hmacSha256"}

\* backend_->api(...) and the software fallback
Primitive(e, api, a) ==
  {IF r.st = "Unsupported" /\ api \in Fallbacks THEN [st |-> "Ok", run |-> TRUE] ELSE r :
     r \in IF backend[e] = "CC310" THEN CC310Call(api, a) ELSE OnChipCall(api, a)}

\* The two primitives some calls are made of; the second runs if the first is Ok
Parts(api) ==
  CASE api = "ecdsaSignMessage"    -> <<"sha256", "ecdsaSign">>
    [] api = "ecdsaVerifyMessage"  -> <<"sha256", "ecdsaVerify">>
    [] api = "ed25519SignFromSeed" -> <<"ed25519DeriveFromSeed", "ed25519Sign">>
    [] OTHER                       -> <<api>>

Streams == {"sha256Begin", "sha384Begin", "sha512Begin"}

\* What CryptoEngine answers
Answers(e, api, a) ==
  LET target == Target(api, a)
      parts == Parts(target)
      first == Primitive(e, parts[1], [a EXCEPT !.big = a.big /\ parts = <<target>>])
      failed == {r \in first : r.st # "Ok"}
      second == {[r EXCEPT !.run = TRUE] : r \in Primitive(e, parts[2], a)}
  IN IF api \in Streams THEN Answer({"Ok"}, FALSE)
     ELSE IF backend[e] = "none" THEN Answer({"NotStarted"}, FALSE)
     ELSE IF BadArgs(target, a) THEN Answer({"BadParam"}, FALSE)
     ELSE IF parts = <<target>> THEN first
     ELSE failed \cup (IF failed = first THEN {} ELSE second)

-----------------------------------------------------------------------------
(* supports() *)

Capabilities == {"Random", "Sha256", "Sha384", "Sha512", "HmacSha256", "HkdfSha256",
  "AesCbcEncrypt", "AesCbcDecrypt", "AesCtr", "AesGcm", "ChaChaPoly", "Ecdsa",
  "Ecdh", "X25519", "Ed25519", "RsaPkcs1", "RsaPss",
  "Sha256Stream", "Sha384Stream", "Sha512Stream"}

StreamCaps == {"Sha256Stream", "Sha384Stream", "Sha512Stream"}

supportsCapability(b, cap) ==
  \/ b = "CC310" /\ started /\ cap \notin StreamCaps
  \/ b = "OnChip" /\ onchip
     /\ cap \notin {"Ecdsa", "Ecdh", "X25519", "Ed25519", "RsaPkcs1", "RsaPss"}

supports(e, cap) == cap \in StreamCaps \/ supportsCapability(backend[e], cap)

\* The calls of a capability but the overloads; the RSA ones are in RsaKeyStore
LowLevelOf(cap) ==
  CASE cap = "Random"        -> {"random"}
    [] cap = "Sha256"        -> {"sha256"}
    [] cap = "Sha384"        -> {"sha384"}
    [] cap = "Sha512"        -> {"sha512"}
    [] cap = "HmacSha256"    -> {"hmacSha256"}
    [] cap = "HkdfSha256"    -> {"hkdfSha256"}
    [] cap = "AesCbcEncrypt" -> {"aesCbcEncrypt", "aesCbcSeal"}
    [] cap = "AesCbcDecrypt" -> {"aesCbcDecrypt", "aesCbcOpen"}
    [] cap = "AesCtr"        -> {"aesCtr", "aesCtrTransform"}
    [] cap = "AesGcm"        -> {"aesGcmEncrypt", "aesGcmDecrypt", "aesGcmSeal", "aesGcmOpen"}
    [] cap = "ChaChaPoly"    -> {"chachaPolyEncrypt", "chachaPolyDecrypt",
                                 "chachaPolySeal", "chachaPolyOpen"}
    [] cap = "Ecdsa"         -> {"ecdsaGenerateKey", "ecdsaSign", "ecdsaVerify",
                                 "ecdsaSignMessage", "ecdsaVerifyMessage"}
    [] cap = "Ecdh"          -> {"ecdhShared"}
    [] cap = "X25519"        -> {"x25519GenerateKey", "x25519Shared"}
    [] cap = "Ed25519"       -> {"ed25519GenerateKey", "ed25519DeriveFromSeed", "ed25519Sign",
                                 "ed25519Verify", "ed25519SignFromSeed"}
    [] cap = "Sha256Stream"  -> {"sha256Begin"}
    [] cap = "Sha384Stream"  -> {"sha384Begin"}
    [] cap = "Sha512Stream"  -> {"sha512Begin"}
    [] OTHER                 -> {}

CallsOf(cap) ==
  LowLevelOf(cap) \cup {m \in DOMAIN Unpacks : Unpacks[m] \in LowLevelOf(cap)}

-----------------------------------------------------------------------------
NoCall == [api |-> "none", args |-> GoodArgs, st |-> "Ok", run |-> FALSE]

Init == RS!Init /\ call = NoCall

Call(e, api) ==
  \E a \in Args(api) : \E r \in Answers(e, api, a) :
    /\ call' = [api |-> api, args |-> a, st |-> r.st, run |-> r.run]
    /\ UNCHANGED life

Next ==
  \E e \in Engines :
    \/ RS!Begin(e) /\ call' = NoCall
    \/ RS!end(e) /\ call' = NoCall
    \/ \E api \in Apis : Call(e, api)

Spec == Init /\ [][Next]_vars

-----------------------------------------------------------------------------
(* Properties *)

\* supports() tells the truth: a capability is reported exactly when no call of
\* it, given good arguments, answers Unsupported or NotStarted, over the
\* backend's overrides, the inherited defaults, the engine's software fallback
\* and the calls made of two primitives
SupportsIsHonest ==
  \A e \in Engines : \A cap \in Capabilities : \A api \in CallsOf(cap) :
    supports(e, cap) <=>
      \A r \in Answers(e, api, GoodArgs) : r.st \notin {"Unsupported", "NotStarted"}

\* API_REFERENCE.md 93: a null pointer is refused before any primitive is run
\* on it, by the engine or by the backend
NullReachesNoPrimitive ==
  call.run => ~ThroughNull(Target(call.api, call.args), call.args)

\* The calls the library may refuse a key in
BuildsKey == {"ecdsaSign", "ecdsaVerify", "ecdhShared", "ecdsaSignMessage", "ecdsaVerifyMessage"}

\* CryptoPackets.h 6-7: a pointer may be null when its length is zero.  A call is
\* refused with BadParam only for a null pointer it would dereference, an empty
\* output, a length that is no multiple of the block or beyond the backend, or a
\* key the library does not take.  The exception is the code's: AES-CBC and
\* AES-CTR refuse an empty message with null pointers
RefusesOnlyBadArgs ==
  LET api == Target(call.api, call.args)
      a == call.args
  IN call.st = "BadParam" =>
       \/ ThroughNull(api, a) \/ Params(api).some \cap a.zero # {}
       \/ ~a.aligned \/ a.big \/ api \in BuildsKey
       \/ api \in CbcCtr /\ a.zero = {"len"} /\ {"in", "out"} \cap a.null # {}
=============================================================================
