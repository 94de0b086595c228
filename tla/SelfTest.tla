------------------------------ MODULE SelfTest ------------------------------
(***************************************************************************)
(* CryptoEngine::runSelfTest(): the tests of runCryptoSelfTests in their   *)
(* order, run by an application that may hold RSA keys of its own.  A test *)
(* other than RSA's is one step whose calls answer what ApiDispatch says   *)
(* they can; each RSA call is a step and an action of RsaKeyStore, because *)
(* the test makes its keys in the application's slots.                     *)
(*                                                                         *)
(* Comparing an output with a known answer holds or not, whatever the test *)
(* vector.  A tampered signature is a signature of no key.                 *)
(***************************************************************************)
EXTENDS RsaKeyStore, Sequences

CONSTANTS
  KeyVar,      \* the local RsaKeyPair `key' of the RSA test
  AgainVar,    \* the local RsaKeyPair `again'
  MaxFaults    \* bound: tests and RSA calls that go wrong in one self test

ASSUME LocalAssumption == {KeyVar, AgainVar} \subseteq Handles /\ KeyVar # AgainVar

VARIABLES
  test,        \* the self test: the next test, the engine, the local variables
               \* and, as ghosts, the faults, what went wrong and the slots found
  report       \* SelfTestReport

keyVars == <<backend, started, onchip, libOpen, enabled, slots, nextKey, handles,
             made, lastError, ret>>
testVars == <<keyVars, test, report>>

API == INSTANCE ApiDispatch WITH Apis <- {}, call <- test

AppHandles == Handles \ {KeyVar, AgainVar}

-----------------------------------------------------------------------------
(* What a test adds to the report *)

Tally(p, f, s) == [passed |-> p, failed |-> f, skipped |-> s]

reportPassFail(ok) == IF ok THEN Tally(1, 0, 0) ELSE Tally(0, 1, 0)

reportSkip == Tally(0, 0, 1)

Plus(r, v) == Tally(r.passed + v.passed, r.failed + v.failed, r.skipped + v.skipped)

\* SelfTestReport::ok()
ReportOk == report.failed = 0

\* The statuses a call of the engine under test can have
St(api) == {r.st : r \in API!Answers(test.engine, api, API!GoodArgs)}

\* The result of a test: its verdict, whether a call that answered gave a wrong
\* result, and whether that or a failing call makes it a fault of the device
Result(v, calls, wrong) ==
  [verdict |-> v, wrong |-> wrong,
   fault |-> wrong \/ ~(calls \subseteq {"Ok", "Unsupported", "NotStarted"})]

\* SHA-256, HMAC and random: anything but Ok is a failure
Strict(api) ==
  {Result(reportPassFail(s = "Ok" /\ eq), {s}, s = "Ok" /\ ~eq) :
     s \in St(api), eq \in BOOLEAN}

\* SHA-512, SHA-384 and HKDF: Unsupported is skipped
Lenient(api) ==
  {Result(IF s = "Unsupported" THEN reportSkip ELSE reportPassFail(s = "Ok" /\ eq),
          {s}, s = "Ok" /\ ~eq) :
     s \in St(api), eq \in BOOLEAN}

\* AES-CBC: one skip when encryption fails, although there are two tests
Cbc ==
  {Result(IF se # "Ok" THEN reportSkip
          ELSE Plus(reportPassFail(eqE),
                    IF sd = "Ok" THEN reportPassFail(eqD) ELSE reportSkip),
          IF se # "Ok" THEN {se} ELSE {se, sd},
          se = "Ok" /\ (~eqE \/ (sd = "Ok" /\ ~eqD))) :
     se \in St("aesCbcEncrypt"), sd \in St("aesCbcDecrypt"),
     eqE \in BOOLEAN, eqD \in BOOLEAN}

Ctr ==
  {Result(IF s = "Ok" THEN reportPassFail(eq) ELSE reportSkip, {s}, s = "Ok" /\ ~eq) :
     s \in St("aesCtr"), eq \in BOOLEAN}

\* Mutant of PairSkip: one skip for the two tests
PairSkipOnce == reportSkip

\* Two tests are skipped
PairSkip == Plus(reportSkip, reportSkip)

\* AES-GCM and ChaCha20-Poly1305: a failing decryption is a failure
Aead(enc, dec) ==
  {Result(IF se # "Ok" THEN PairSkip
          ELSE Plus(reportPassFail(eqE), reportPassFail(sd = "Ok" /\ eqD)),
          IF se # "Ok" THEN {se} ELSE {se, sd},
          se = "Ok" /\ (~eqE \/ sd = "AuthFailed" \/ (sd = "Ok" /\ ~eqD))) :
     se \in St(enc), sd \in St(dec), eqE \in BOOLEAN, eqD \in BOOLEAN}

\* Mutant of GoodAndRejects: either is enough
GoodOrRejects(good, rejects) == good \/ rejects

GoodAndRejects(good, rejects) == good /\ rejects

\* ECDSA and Ed25519 of a fresh key: sign, verify, verify a tampered signature.
\* ECDSA signs a hash whose status nobody looks at
RoundTrip(hash, gen, sign, verify) ==
  {Result(IF sg # "Ok" \/ ss # "Ok" THEN reportSkip
          ELSE reportPassFail(GoodAndRejects(v1 = "Ok", v2 # "Ok")),
          IF sg # "Ok" THEN {sg} ELSE IF ss # "Ok" THEN {sg, sh, ss} ELSE {sg, sh, ss, v1},
          sg = "Ok" /\ ss = "Ok" /\ (v1 = "AuthFailed" \/ v2 = "Ok")) :
     sh \in hash, sg \in St(gen), ss \in St(sign), v1 \in St(verify), v2 \in St(verify)}

\* EcdsaMessage and Ed25519Message
MessageTest(gen, sign, verify) ==
  {Result(IF sg # "Ok" THEN reportSkip ELSE reportPassFail(ss = "Ok" /\ sv = "Ok"),
          IF sg # "Ok" THEN {sg} ELSE IF ss # "Ok" THEN {sg, ss} ELSE {sg, ss, sv},
          sg = "Ok" /\ ss = "Ok" /\ sv = "AuthFailed") :
     sg \in St(gen), ss \in St(sign), sv \in St(verify)}

\* ECDH and X25519: two parties derive the same secret
Agreement(gen, shared) ==
  {Result(IF {s1, s2} # {"Ok"} \/ {r1, r2} # {"Ok"} THEN reportSkip ELSE reportPassFail(eq),
          IF {s1, s2} # {"Ok"} THEN {s1, s2} ELSE {s1, s2, r1, r2},
          {s1, s2, r1, r2} = {"Ok"} /\ ~eq) :
     s1 \in St(gen), s2 \in St(gen), r1 \in St(shared), r2 \in St(shared), eq \in BOOLEAN}

\* Ed25519 against the vector of RFC 8032: derived key, given and own signature
Ed25519Vector ==
  {Result(IF ds = "Unsupported" THEN reportSkip
          ELSE reportPassFail(ds = "Ok" /\ pk /\ kat = "Ok" /\ ss = "Ok" /\ eq /\ sv = "Ok"),
          IF ds # "Ok" THEN {ds} ELSE IF ss # "Ok" \/ ~eq THEN {ds, kat, ss} ELSE {ds, kat, ss, sv},
          ds = "Ok" /\ (~pk \/ kat = "AuthFailed" \/ (ss = "Ok" /\ (~eq \/ sv = "AuthFailed")))) :
     ds \in St("ed25519DeriveFromSeed"), kat \in St("ed25519Verify"),
     ss \in St("ed25519Sign"), sv \in St("ed25519Verify"), pk \in BOOLEAN, eq \in BOOLEAN}

-----------------------------------------------------------------------------
(* The order of the tests *)

Script == <<"sha256", "sha512", "sha384", "hkdf", "hmac", "cbc", "ctr", "gcm", "chacha",
            "ecdsa", "ecdsaMessage", "ecdh", "x25519", "rsa", "edVector", "ed25519",
            "edMessage", "random">>

\* What the tests that are one step can result in
Results(name) ==
  CASE name = "sha256"       -> Strict("sha256")
    [] name = "sha512"       -> Lenient("sha512")
    [] name = "sha384"       -> Lenient("sha384")
    [] name = "hkdf"         -> Lenient("hkdfSha256")
    [] name = "hmac"         -> Strict("hmacSha256")
    [] name = "cbc"          -> Cbc
    [] name = "ctr"          -> Ctr
    [] name = "gcm"          -> Aead("aesGcmEncrypt", "aesGcmDecrypt")
    [] name = "chacha"       -> Aead("chachaPolyEncrypt", "chachaPolyDecrypt")
    [] name = "ecdsa"        -> RoundTrip(St("sha256"), "ecdsaGenerateKey", "ecdsaSign", "ecdsaVerify")
    [] name = "ecdsaMessage" -> MessageTest("ecdsaGenerateKey", "ecdsaSignMessage", "ecdsaVerifyMessage")
    [] name = "ecdh"         -> Agreement("ecdsaGenerateKey", "ecdhShared")
    [] name = "x25519"       -> Agreement("x25519GenerateKey", "x25519Shared")
    [] name = "edVector"     -> Ed25519Vector
    [] name = "ed25519"      -> RoundTrip({"Ok"}, "ed25519GenerateKey", "ed25519Sign", "ed25519Verify")
    [] name = "edMessage"    -> MessageTest("ed25519GenerateKey", "ed25519Sign", "ed25519Verify")
    [] name = "random"       -> Strict("random")

NoTest == [at |-> 0, step |-> "idle", engine |-> CHOOSE e \in Engines : TRUE, ok |-> FALSE,
           sig |-> NoKey, pub |-> NoKey, faults |-> 0, wrong |-> FALSE,
           found |-> [s \in Slots |-> BlankSlot], leaked |-> {}]

STInit ==
  /\ Init
  /\ test = NoTest
  /\ report = Tally(0, 0, 0)

Idle == test.step \in {"idle", "done"}

\* The call of runSelfTest; two keys can still be generated
Start(e) ==
  /\ Idle /\ nextKey < MaxKeys
  /\ test' = [NoTest EXCEPT !.at = 1, !.step = "test", !.engine = e, !.found = slots]
  /\ report' = Tally(0, 0, 0)
  /\ UNCHANGED keyVars

\* The next test, or the return.  The local handles are dead then: rsaGenerate
\* clears them before their next use
Goto(t) ==
  IF t.at = Len(Script) THEN [t EXCEPT !.at = 0, !.step = "done"]
  ELSE [t EXCEPT !.at = @ + 1, !.step = IF Script[t.at + 1] = "rsa" THEN "generate" ELSE "test"]

RunTest ==
  /\ test.step = "test"
  /\ \E r \in Results(Script[test.at]) :
       /\ r.fault => test.faults < MaxFaults
       /\ report' = Plus(report, r.verdict)
       /\ test' = Goto([test EXCEPT !.wrong = @ \/ r.wrong,
                                    !.faults = IF r.fault THEN @ + 1 ELSE @])
  /\ UNCHANGED keyVars

-----------------------------------------------------------------------------
(* The RSA test, a step for each call *)

\* The RSA call just made met an error of the library
Met == IF ret'.crys # CRYS_OK THEN 1 ELSE 0

\* rsaGenerate answered an error and yet the handle holds a key
Leak == IF ret'.op = "rsaGenerate" /\ ret'.st # "Ok" /\ ret'.key # NoKey
        THEN {s \in Slots : slots'[s] # slots[s]} ELSE {}

\* The bookkeeping of an RSA step whose errors count as faults
Noting(t) ==
  /\ test.faults + Met <= MaxFaults
  /\ test' = [t EXCEPT !.faults = @ + Met, !.leaked = @ \cup Leak]

Add(v) == report' = Plus(report, v)

RsaGenerate ==
  /\ test.step = "generate"
  /\ rsaGenerateKeyPair(test.engine, KeyVar)
  /\ \/ ret'.st = "Ok" /\ Noting([test EXCEPT !.step = "sign"]) /\ UNCHANGED report
     \/ /\ ret'.st = "Unsupported"
        /\ Noting(Goto(test))
        /\ Add(Plus(PairSkip, reportSkip))
     \/ /\ ret'.st \notin {"Ok", "Unsupported"}
        /\ Noting(Goto(test))
        /\ Add(reportPassFail(FALSE))

\* Mutant of AfterSign: the key is released only when it signed
KeepsUnusedKey(st) == IF st = "Ok" THEN "verify" ELSE "again"

\* What follows rsaSign: verification, or the release
AfterSign(st) == IF st = "Ok" THEN "verify" ELSE "release"

RsaSign ==
  /\ test.step = "sign"
  /\ rsaSignWithKeyPair(test.engine, KeyVar, "ok")
  /\ Noting([test EXCEPT !.step = AfterSign(ret'.st), !.sig = ret'.key])
  /\ IF ret'.st = "Ok" THEN UNCHANGED report ELSE Add(PairSkip)

\* The signature is the key's own
OwnOf(k) == test.sig # NoKey /\ test.sig = k

RsaVerify ==
  /\ test.step = "verify"
  /\ rsaVerifyWithKeyPair(test.engine, KeyVar, "ok", OwnOf(slots[handles[KeyVar].slot].key))
  /\ Noting([test EXCEPT !.step = "tampered", !.ok = ret'.st = "Ok",
                         !.wrong = @ \/ ret'.st = "AuthFailed"])
  /\ UNCHANGED report

\* Being rejected is what a tampered signature deserves, and no fault
RsaVerifyTampered ==
  /\ test.step = "tampered"
  /\ rsaVerifyWithKeyPair(test.engine, KeyVar, "ok", FALSE)
  /\ test' = [test EXCEPT !.step = "export", !.wrong = @ \/ ret'.st = "Ok"]
  /\ Add(reportPassFail(GoodAndRejects(test.ok, ret'.st # "Ok")))

RsaExport ==
  /\ test.step = "export"
  /\ rsaExportPublicKey(test.engine, KeyVar, FALSE)
  /\ IF ret'.st = "Ok"
     THEN Noting([test EXCEPT !.step = "verifyPub", !.pub = ret'.key]) /\ UNCHANGED report
     ELSE Noting([test EXCEPT !.step = "release"]) /\ Add(reportPassFail(FALSE))

RsaVerifyPub ==
  /\ test.step = "verifyPub"
  /\ rsaVerifyWithPublicKey(test.engine, test.pub, FALSE, "ok", OwnOf(test.pub))
  /\ Noting([test EXCEPT !.step = "release", !.wrong = @ \/ ret'.st = "AuthFailed"])
  /\ Add(reportPassFail(ret'.st = "Ok"))

RsaRelease ==
  /\ test.step = "release"
  /\ rsaReleaseKeyPair(test.engine, KeyVar)
  /\ Noting([test EXCEPT !.step = "again", !.ok = ret'.st = "Ok" /\ ~Valid(KeyVar)'])
  /\ UNCHANGED report

RsaAgain ==
  /\ test.step = "again"
  /\ rsaGenerateKeyPair(test.engine, AgainVar)
  /\ Noting([IF ret'.st = "Ok" THEN [test EXCEPT !.step = "releaseAgain"] ELSE Goto(test)
               EXCEPT !.ok = @ /\ ret'.st = "Ok"])
  /\ IF ret'.st = "Ok" THEN UNCHANGED report ELSE Add(reportPassFail(FALSE))

RsaReleaseAgain ==
  /\ test.step = "releaseAgain"
  /\ rsaReleaseKeyPair(test.engine, AgainVar)
  /\ Noting(Goto(test))
  /\ Add(reportPassFail(test.ok))

-----------------------------------------------------------------------------
\* What the application does with keys of its own between self tests
App(e) ==
  /\ Idle
  /\ \/ Begin(e)
     \/ end(e)
     \/ \E h \in AppHandles : MakeKey(e, h) \/ rsaReleaseKeyPair(e, h)
  /\ test' = NoTest
  /\ report' = Tally(0, 0, 0)

STNext ==
  \/ \E e \in Engines : App(e) \/ Start(e)
  \/ RunTest
  \/ RsaGenerate \/ RsaSign \/ RsaVerify \/ RsaVerifyTampered \/ RsaExport
  \/ RsaVerifyPub \/ RsaRelease \/ RsaAgain \/ RsaReleaseAgain

STSpec == STInit /\ [][STNext]_testVars

-----------------------------------------------------------------------------
(* Properties *)

Done == test.step = "done"
Taken(f) == {s \in Slots : f[s].ready}

\* README.md 84-88: on a device in order the report is 23 passed on the CC310,
\* and 13 passed and 10 skipped on OnChip.  The CC310 figure needs a free RSA
\* slot: with both in use by the application the three RSA tests are one failure
DocumentedCounts ==
  Done /\ test.faults = 0 =>
    LET b == backend[test.engine]
    IN report = CASE b = "OnChip" -> Tally(13, 0, 10)
                  [] b = "none"   -> Tally(0, 8, 12)
                  [] b = "CC310" /\ Taken(test.found) = Slots -> Tally(20, 1, 0)
                  [] OTHER        -> Tally(23, 0, 0)

\* No computation that answers Ok with a wrong result, no rejected good signature
\* and no accepted bad one goes unreported, whatever else fails in the same run,
\* and an engine without a backend is not reported as in order
OkIsEarned ==
  Done /\ ReportOk => ~test.wrong /\ backend[test.engine] # "none"

\* The self test leaves the application's RSA keys alone and gives back the
\* slots it took, also when a call in the middle fails.  The exception is the
\* code's: a key whose public half cannot be exported is dropped with its handle
\* and its slot stays taken (CryptoSelfTestRunner.cpp 350, 357), which the report then shows as a failure
GivesSlotsBack ==
  Done =>
    /\ \A s \in Taken(test.found) : slots[s] = test.found[s]
    /\ Taken(slots) = Taken(test.found) \cup test.leaked
    /\ test.leaked # {} => ~ReportOk
=============================================================================
