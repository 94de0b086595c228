---------------------------- MODULE RsaKeyStore ----------------------------
(***************************************************************************)
(* The life cycle of the engine and the RSA key slots of the CC310         *)
(* backend: CryptoEngine::begin/end, CC310Backend::begin/end and every rsa* *)
(* call, as an application with several RsaKeyPair objects (and possibly    *)
(* several CryptoEngine objects) can make them.  One action is one API call *)
(* from its first guard to its return.                                      *)
(*                                                                         *)
(* A key is a number: 1..MaxKeys for the keys the library generates, in    *)
(* order, and the members of Materials for key material the application    *)
(* imports.  The same number stands for both halves of the pair, so "the   *)
(* signature verifies" is "the signature was made by this number".         *)
(*                                                                         *)
(* The CRYS library is external.  Each CRYS call answers CRYS_OK or one of *)
(* CrysErrors, whatever the state, except that a verification answers      *)
(* CRYS_OK only for a signature of the key it was given.                   *)
(***************************************************************************)
EXTENDS CryptoTypes

CONSTANTS
  Engines,     \* the CryptoEngine objects
  Handles,     \* the RsaKeyPair objects of the application
  NullPtr,     \* a null RsaKeyPair pointer
  SlotCount,   \* kRsaSlotCount
  MaxKeys,     \* bound: keys generated in one behaviour
  Materials,   \* the key material rsaImport is called with
  CrysErrors,  \* the failures of a CRYS call
  HasCC310     \* NIUS_CRYPTO_HAS_CC310: the vendored archive is linked

ASSUME NullAssumption == NullPtr \notin Handles
ASSUME SlotAssumption == SlotCount \in 1..kRsaInvalidSlot
ASSUME KeyAssumption ==
  /\ MaxKeys \in Nat
  /\ \A m \in Materials : m \in Int /\ m > MaxKeys
ASSUME ErrorAssumption == CrysErrors \subseteq Int /\ CRYS_OK \notin CrysErrors
ASSUME BuildAssumption == HasCC310 \in BOOLEAN

VARIABLES
  backend,     \* CryptoEngine::backend_ of each engine
  started,     \* CC310Backend::started_
  onchip,      \* OnChipBackend::started_
  libOpen,     \* SaSi_LibInit succeeded and SaSi_LibFini has not been called
  enabled,     \* NRF_CRYPTOCELL->ENABLE
  slots,       \* g_rsaSlots
  nextKey,     \* the next key CRYS_RSA_KG_GenerateKeyPair makes
  handles,     \* the RsaKeyPair objects: slot and pub
  made,        \* ghost: the key the call that filled the handle installed
  lastError,   \* g_lastBackendError
  ret          \* the last call: its name, its result, the CRYS error it met and
               \* the key it made, signed with, verified under or exported

life == <<backend, started, onchip, libOpen, enabled>>
vars == <<backend, started, onchip, libOpen, enabled, slots, nextKey, handles,
          made, lastError, ret>>

Slots == 0 .. SlotCount - 1
NoKey == 0        \* no key: a zeroed slot, a public key with modLen 0
Residue == -1     \* what a failed key generation left in a slot
Key == 1..MaxKeys \cup Materials
CrysResults == {CRYS_OK} \cup CrysErrors

\* The classes of message and signature arguments the code tells apart:
\* fine, a null sig, a null msg of positive length, a msg longer than g_scratch
MsgArgs == {"ok", "nullSig", "nullMsg", "hugeMsg"}

\* RsaSlot after memset
BlankSlot == [key |-> NoKey, ready |-> FALSE]

\* Mutant of NoHandle: the invalid slot is one past the last slot, not 0xFF
ClearsToSlotCount == [slot |-> SlotCount, pub |-> NoKey]

\* RsaKeyPair::clear()
NoHandle == [slot |-> kRsaInvalidSlot, pub |-> NoKey]

OpNames == {"none", "begin", "end", "rsaGenerate", "rsaImport", "rsaSign",
            "rsaVerify", "rsaVerifyWithPubKey", "rsaExportPublic", "rsaRelease",
            "rsaPssSign", "rsaPssVerify", "rsaPssVerifyWithPubKey", "app"}

TypeOK ==
  /\ backend \in [Engines -> BackendPtr]
  /\ started \in BOOLEAN /\ onchip \in BOOLEAN
  /\ libOpen \in BOOLEAN /\ enabled \in BOOLEAN
  /\ slots \in [Slots -> [key : Key \cup {NoKey, Residue}, ready : BOOLEAN]]
  /\ nextKey \in 1 .. MaxKeys + 1
  /\ handles \in [Handles -> [slot : Slots \cup {kRsaInvalidSlot},
                              pub : Key \cup {NoKey}]]
  /\ made \in [Handles -> Key \cup {NoKey}]
  /\ lastError \in CrysResults
  /\ ret \in [op : OpNames, st : CryptoStatus, crys : CrysResults,
             key : Key \cup {NoKey}]

Init ==
  /\ backend = [e \in Engines |-> "none"]
  /\ started = FALSE /\ onchip = FALSE /\ libOpen = FALSE
  /\ enabled = FALSE
  /\ slots = [s \in Slots |-> BlankSlot]
  /\ nextKey = 1
  /\ handles = [h \in Handles |-> NoHandle]
  /\ made = [h \in Handles |-> NoKey]
  /\ lastError = CRYS_OK
  /\ ret = [op |-> "none", st |-> "Ok", crys |-> CRYS_OK, key |-> NoKey]

-----------------------------------------------------------------------------
(* What the calls are made of *)

Return(op, st, crys, key) ==
  ret' = [op |-> op, st |-> st, crys |-> crys, key |-> key]

\* An early return: nothing but the status changes
Refuse(op, st) ==
  /\ Return(op, st, CRYS_OK, NoKey)
  /\ UNCHANGED <<life, slots, nextKey, handles, made, lastError>>

\* NC_GUARD()
NC_GUARD(e, op) == backend[e] = "none" /\ Refuse(op, "NotStarted")

\* recordCrys(e): the new value of g_lastBackendError
recordCrys(e) == IF e # CRYS_OK THEN e ELSE lastError

\* key && key->valid()
Valid(h) == h \in Handles /\ handles[h].slot # kRsaInvalidSlot

rsaSlotValid(s) == s \in Slots /\ slots[s].ready

\* key && rsaSlotValid(key->slot)
NamesSlot(h) == h \in Handles /\ rsaSlotValid(handles[h].slot)

\* Mutant of rsaAllocSlot: the first slot, ready or not
TakesFirstSlot(s) == s = 0

\* rsaAllocSlot() returns s: the first slot that is not ready
rsaAllocSlot(s) == ~slots[s].ready /\ \A t \in Slots : t < s => slots[t].ready

\* rsaAllocSlot() returns -1
PoolFull == \A s \in Slots : slots[s].ready

\* rsaFreeSlot(s)
rsaFreeSlot(s) == [slots EXCEPT ![s] = BlankSlot]

\* Mutant of rsaFreeAllSlots: only the ready slots are zeroed
FreesReadySlots == [s \in Slots |-> IF slots[s].ready THEN BlankSlot ELSE slots[s]]

\* Mutant of rsaFreeAllSlots: end() forgets the slots
FreesNoSlot == slots

\* rsaFreeAllSlots(): every slot, ready or not
rsaFreeAllSlots == [s \in Slots |-> BlankSlot]

Clear(h) ==
  /\ handles' = [handles EXCEPT ![h] = NoHandle]
  /\ made' = [made EXCEPT ![h] = NoKey]

\* bounceMsg() rejects the message
BounceFails(a) == a \in {"nullMsg", "hugeMsg"}

-----------------------------------------------------------------------------
(* Life cycle *)

\* backend_->end() stops the CC310: it is this engine's backend and runs
StopsCC310(e) == backend[e] = "CC310" /\ started

\* Mutant of end: backend_ is not set to nullptr
EndKeepsBackend(e) ==
  /\ started' = (started /\ ~StopsCC310(e))
  /\ libOpen' = (libOpen /\ ~StopsCC310(e))
  /\ slots' = IF StopsCC310(e) THEN rsaFreeAllSlots ELSE slots
  /\ Return("end", "Ok", CRYS_OK, NoKey)
  /\ UNCHANGED <<backend, onchip, enabled, nextKey, handles, made, lastError>>

\* CC310Backend::end() through CryptoEngine::end(); OnChip has no end()
end(e) ==
  /\ backend' = [backend EXCEPT ![e] = "none"]
  /\ started' = (started /\ ~StopsCC310(e))
  /\ libOpen' = (libOpen /\ ~StopsCC310(e))
  /\ slots' = IF StopsCC310(e) THEN rsaFreeAllSlots ELSE slots
  /\ Return("end", "Ok", CRYS_OK, NoKey)
  /\ UNCHANGED <<onchip, enabled, nextKey, handles, made, lastError>>

\* CC310Backend::begin() with started_ = run: does it return true?  lib and rnd
\* say whether SaSi_LibInit and CRYS_RndInit succeed
CC310Begins(run, lib, rnd) == HasCC310 /\ (run \/ (lib /\ rnd))

\* Mutant of LibAfterBegin: no SaSi_LibFini after a failed CRYS_RndInit
NoFiniAfterRndInit(run, open, lib, rnd) == IF HasCC310 /\ ~run THEN lib ELSE open

\* The library is initialised after CC310Backend::begin(): a failed
\* CRYS_RndInit is followed by SaSi_LibFini
LibAfterBegin(run, open, lib, rnd) ==
  IF HasCC310 /\ ~run THEN lib /\ rnd ELSE open

\* CryptoEngine::begin(p): end() first, then the preferred backend; ecb is the
\* answer of NrfEcb::selfTest()
begin(e, p, lib, rnd, ecb) ==
  LET run   == started /\ ~StopsCC310(e)
      open  == libOpen /\ ~StopsCC310(e)
      try   == p \in {"Auto", "CC310"}
      up    == try /\ CC310Begins(run, lib, rnd)
      probe == p = "OnChip" \/ (p = "Auto" /\ ~up)
      ptr   == IF up THEN "CC310" ELSE IF probe /\ ecb THEN "OnChip" ELSE "none"
  IN  /\ backend' = [backend EXCEPT ![e] = ptr]
      /\ started' = (run \/ up)
      /\ libOpen' = IF try THEN LibAfterBegin(run, open, lib, rnd) ELSE open
      /\ enabled' = (enabled \/ (try /\ HasCC310 /\ ~run))
      /\ onchip' = IF probe THEN ecb ELSE onchip
      /\ slots' = IF StopsCC310(e) THEN rsaFreeAllSlots ELSE slots
      /\ Return("begin", IF ptr = "none" THEN "HardwareMissing" ELSE "Ok", CRYS_OK, NoKey)
      /\ UNCHANGED <<nextKey, handles, made, lastError>>

-----------------------------------------------------------------------------
(* Making and dropping keys *)

\* The end of rsaGenerateKeyPair and rsaImportKeyPair: the slot becomes ready,
\* the handle names it, and rsaExportSlotPub fills key->pub
InstallKey(op, h, s, k) ==
  \E crys \in CrysResults :
    /\ slots' = [slots EXCEPT ![s] = [key |-> k, ready |-> TRUE]]
    /\ handles' = [handles EXCEPT ![h] =
                     [slot |-> s, pub |-> IF crys = CRYS_OK THEN k ELSE NoKey]]
    /\ made' = [made EXCEPT ![h] = k]
    /\ Return(op, IF crys = CRYS_OK THEN "Ok" ELSE "InternalError", crys, k)
    /\ UNCHANGED lastError

\* The handle was cleared by the engine and the backend gives up
GiveUp(op, h, st) ==
  /\ Clear(h)
  /\ Return(op, st, CRYS_OK, NoKey)
  /\ UNCHANGED <<slots, nextKey, lastError>>

\* Mutant of KeyGenFails: the slot is marked ready before the error is looked at
KeyGenFailsReady(h, s) ==
  \E crys \in CrysErrors, left \in {slots[s].key, Residue} :
    /\ slots' = [slots EXCEPT ![s] = [key |-> left, ready |-> TRUE]]
    /\ Clear(h)
    /\ Return("rsaGenerate", "InternalError", crys, NoKey)
    /\ UNCHANGED <<nextKey, lastError>>

\* CRYS_RSA_KG_GenerateKeyPair fails: the slot keeps what was in it or gets a
\* part of the new key
KeyGenFails(h, s) ==
  \E crys \in CrysErrors, left \in {slots[s].key, Residue} :
    /\ slots' = [slots EXCEPT ![s] = [key |-> left, ready |-> FALSE]]
    /\ Clear(h)
    /\ Return("rsaGenerate", "InternalError", crys, NoKey)
    /\ UNCHANGED <<nextKey, lastError>>

\* CC310Backend::rsaGenerateKeyPair
CC310Generate(h) ==
  \/ ~started /\ GiveUp("rsaGenerate", h, "NotStarted")
  \/ started /\ PoolFull /\ GiveUp("rsaGenerate", h, "InternalError")
  \/ /\ started
     /\ \E s \in Slots :
          /\ rsaAllocSlot(s)
          /\ \/ KeyGenFails(h, s)
             \/ /\ nextKey <= MaxKeys
                /\ nextKey' = nextKey + 1
                /\ InstallKey("rsaGenerate", h, s, nextKey)

rsaGenerateKeyPair(e, h) ==
  \/ NC_GUARD(e, "rsaGenerate")
  \/ backend[e] # "none" /\ h = NullPtr /\ Refuse("rsaGenerate", "BadParam")
  \/ /\ h \in Handles
     /\ \/ backend[e] = "CC310" /\ CC310Generate(h)
        \/ backend[e] = "OnChip" /\ GiveUp("rsaGenerate", h, "Unsupported")
     /\ UNCHANGED life

\* CRYS_RSA_Build_PrivKey or CRYS_RSA_Build_PubKey fails: the error is recorded
\* and the slot zeroed
BuildFails(h, s) ==
  \E e1 \in CrysResults, e2 \in CrysResults :
    LET e == IF e1 # CRYS_OK THEN e1 ELSE e2 IN
    /\ e # CRYS_OK
    /\ lastError' = recordCrys(e)
    /\ slots' = rsaFreeSlot(s)
    /\ Clear(h)
    /\ Return("rsaImport", "BadParam", e, NoKey)

\* CC310Backend::rsaImportKeyPair; lens is FALSE when a length of the material
\* is zero or too large
CC310Import(h, m, lens) ==
  \/ ~started /\ GiveUp("rsaImport", h, "NotStarted")
  \/ started /\ ~lens /\ GiveUp("rsaImport", h, "BadParam")
  \/ started /\ lens /\ PoolFull /\ GiveUp("rsaImport", h, "InternalError")
  \/ /\ started /\ lens
     /\ \E s \in Slots :
          /\ rsaAllocSlot(s)
          /\ BuildFails(h, s) \/ InstallKey("rsaImport", h, s, m)
     /\ UNCHANGED nextKey

\* null is TRUE when the material pointer is null
rsaImportKeyPair(e, h, m, null, lens) ==
  \/ NC_GUARD(e, "rsaImport")
  \/ backend[e] # "none" /\ (h = NullPtr \/ null) /\ Refuse("rsaImport", "BadParam")
  \/ /\ h \in Handles /\ ~null
     /\ \/ backend[e] = "CC310" /\ CC310Import(h, m, lens)
        \/ backend[e] = "OnChip" /\ GiveUp("rsaImport", h, "Unsupported")
     /\ UNCHANGED life

\* Mutant of CC310Release: the handle is cleared and the slot forgotten
ReleaseLeaks(h) ==
  \/ ~NamesSlot(h) /\ Refuse("rsaRelease", "BadParam")
  \/ /\ NamesSlot(h)
     /\ Clear(h)
     /\ Return("rsaRelease", "Ok", CRYS_OK, NoKey)
     /\ UNCHANGED <<life, slots, nextKey, lastError>>

\* CC310Backend::rsaReleaseKeyPair: no test of started_
CC310Release(h) ==
  \/ ~NamesSlot(h) /\ Refuse("rsaRelease", "BadParam")
  \/ /\ NamesSlot(h)
     /\ slots' = rsaFreeSlot(handles[h].slot)
     /\ Clear(h)
     /\ Return("rsaRelease", "Ok", CRYS_OK, NoKey)
     /\ UNCHANGED <<life, nextKey, lastError>>

\* CryptoBackend::rsaReleaseKeyPair, the default OnChip inherits
DefaultRelease(h) ==
  /\ Clear(h)
  /\ Return("rsaRelease", "Ok", CRYS_OK, NoKey)
  /\ UNCHANGED <<life, slots, nextKey, lastError>>

rsaReleaseKeyPair(e, h) ==
  \/ NC_GUARD(e, "rsaRelease")
  \/ /\ backend[e] # "none"
     /\ ~Valid(h)
     /\ Refuse("rsaRelease", "BadParam")
  \/ /\ Valid(h)
     /\ \/ backend[e] = "CC310" /\ CC310Release(h)
        \/ backend[e] = "OnChip" /\ DefaultRelease(h)

-----------------------------------------------------------------------------
(* Using keys *)

\* A call that writes at most the caller's buffers and the recorded error
Compute(op, st, crys, key, newError) ==
  /\ lastError' = newError
  /\ Return(op, st, crys, key)
  /\ UNCHANGED <<life, slots, nextKey, handles, made>>

\* The checks of the backend's key-pair calls
KeyPairArgsBad(h, a) ==
  ~NamesSlot(h) \/ a = "nullSig" \/ BounceFails(a)

\* The checks CryptoEngine makes before the PKCS#1 key-pair calls
EngineArgsBad(h, a) == ~Valid(h) \/ a \in {"nullSig", "nullMsg"}

\* CC310Backend::rsaSignWithKeyPair and ::rsaPssSignWithKeyPair; only the PSS
\* variant records the CRYS error
CC310Sign(op, h, a, records) ==
  \/ ~started /\ Refuse(op, "NotStarted")
  \/ started /\ KeyPairArgsBad(h, a) /\ Refuse(op, "BadParam")
  \/ /\ started /\ ~KeyPairArgsBad(h, a)
     /\ \E crys \in CrysResults :
          Compute(op, IF crys = CRYS_OK THEN "Ok" ELSE "InternalError", crys,
                  slots[handles[h].slot].key,
                  IF records THEN recordCrys(crys) ELSE lastError)

\* CRYS_RSA_*_Verify under key k of a signature that is k's own or not: any CRYS
\* error becomes AuthFailed
VerifyUnder(op, k, own, records) ==
  \E crys \in CrysResults :
    /\ crys = CRYS_OK => own
    /\ Compute(op, IF crys = CRYS_OK THEN "Ok" ELSE "AuthFailed", crys, k,
               IF records THEN recordCrys(crys) ELSE lastError)

\* CC310Backend::rsaVerifyWithKeyPair and ::rsaPssVerifyWithKeyPair
CC310Verify(op, h, a, own, records) ==
  \/ ~started /\ Refuse(op, "NotStarted")
  \/ started /\ KeyPairArgsBad(h, a) /\ Refuse(op, "BadParam")
  \/ /\ started /\ ~KeyPairArgsBad(h, a)
     /\ VerifyUnder(op, slots[handles[h].slot].key, own, records)

\* CC310Backend::rsaVerifyWithPublicKey and ::rsaPssVerifyWithPublicKey; pub is
\* NoKey for a null or cleared RsaPublicKey, big says a length is too large
CC310VerifyPub(op, pub, big, a, own, records) ==
  \/ ~started /\ Refuse(op, "NotStarted")
  \/ started /\ (pub = NoKey \/ big \/ a = "nullSig") /\ Refuse(op, "BadParam")
  \/ /\ started /\ pub # NoKey /\ ~big /\ a # "nullSig"
     /\ \/ \E crys \in CrysErrors :       \* CRYS_RSA_Build_PubKey fails
             Compute(op, "BadParam", crys, NoKey,
                     IF records THEN recordCrys(crys) ELSE lastError)
        \/ BounceFails(a) /\ Refuse(op, "BadParam")
        \/ ~BounceFails(a) /\ VerifyUnder(op, pub, own, records)

\* CC310Backend::rsaExportPublicKey through rsaExportSlotPub
CC310Export(h) ==
  \/ ~started /\ Refuse("rsaExportPublic", "NotStarted")
  \/ started /\ ~NamesSlot(h) /\ Refuse("rsaExportPublic", "BadParam")
  \/ /\ started /\ NamesSlot(h)
     /\ \E crys \in CrysResults :
          Compute("rsaExportPublic",
                  IF crys = CRYS_OK THEN "Ok" ELSE "InternalError", crys,
                  slots[handles[h].slot].key, lastError)

rsaSignWithKeyPair(e, h, a) ==
  \/ NC_GUARD(e, "rsaSign")
  \/ backend[e] # "none" /\ EngineArgsBad(h, a) /\ Refuse("rsaSign", "BadParam")
  \/ /\ ~EngineArgsBad(h, a)
     /\ \/ backend[e] = "CC310" /\ CC310Sign("rsaSign", h, a, FALSE)
        \/ backend[e] = "OnChip" /\ Refuse("rsaSign", "Unsupported")

rsaVerifyWithKeyPair(e, h, a, own) ==
  \/ NC_GUARD(e, "rsaVerify")
  \/ backend[e] # "none" /\ EngineArgsBad(h, a) /\ Refuse("rsaVerify", "BadParam")
  \/ /\ ~EngineArgsBad(h, a)
     /\ \/ backend[e] = "CC310" /\ CC310Verify("rsaVerify", h, a, own, FALSE)
        \/ backend[e] = "OnChip" /\ Refuse("rsaVerify", "Unsupported")

rsaVerifyWithPublicKey(e, pub, big, a, own) ==
  LET bad == pub = NoKey \/ a \in {"nullSig", "nullMsg"} IN
  \/ NC_GUARD(e, "rsaVerifyWithPubKey")
  \/ backend[e] # "none" /\ bad /\ Refuse("rsaVerifyWithPubKey", "BadParam")
  \/ /\ ~bad
     /\ \/ /\ backend[e] = "CC310"
           /\ CC310VerifyPub("rsaVerifyWithPubKey", pub, big, a, own, FALSE)
        \/ backend[e] = "OnChip" /\ Refuse("rsaVerifyWithPubKey", "Unsupported")

\* null is TRUE when the out pointer is null
rsaExportPublicKey(e, h, null) ==
  LET bad == ~Valid(h) \/ null IN
  \/ NC_GUARD(e, "rsaExportPublic")
  \/ backend[e] # "none" /\ bad /\ Refuse("rsaExportPublic", "BadParam")
  \/ /\ ~bad
     /\ \/ backend[e] = "CC310" /\ CC310Export(h)
        \/ backend[e] = "OnChip" /\ Refuse("rsaExportPublic", "Unsupported")

\* The PSS calls go to the backend unchecked
rsaPssSign(e, h, a) ==
  \/ NC_GUARD(e, "rsaPssSign")
  \/ backend[e] = "CC310" /\ CC310Sign("rsaPssSign", h, a, TRUE)
  \/ backend[e] = "OnChip" /\ Refuse("rsaPssSign", "Unsupported")

rsaPssVerify(e, h, a, own) ==
  \/ NC_GUARD(e, "rsaPssVerify")
  \/ backend[e] = "CC310" /\ CC310Verify("rsaPssVerify", h, a, own, TRUE)
  \/ backend[e] = "OnChip" /\ Refuse("rsaPssVerify", "Unsupported")

rsaPssVerifyWithPubKey(e, pub, big, a, own) ==
  \/ NC_GUARD(e, "rsaPssVerifyWithPubKey")
  \/ /\ backend[e] = "CC310"
     /\ CC310VerifyPub("rsaPssVerifyWithPubKey", pub, big, a, own, TRUE)
  \/ backend[e] = "OnChip" /\ Refuse("rsaPssVerifyWithPubKey", "Unsupported")

-----------------------------------------------------------------------------
(* The application *)

\* RsaKeyPair is a plain struct: assigning one to another copies the handle
CopyHandle(h, g) ==
  /\ Valid(h) /\ h # g
  /\ handles' = [handles EXCEPT ![g] = handles[h]]
  /\ made' = [made EXCEPT ![g] = made[h]]
  /\ Return("app", "Ok", CRYS_OK, NoKey)
  /\ UNCHANGED <<life, slots, nextKey, lastError>>

\* RsaKeyPair::reset(): local, the backend is not told
reset(h) ==
  /\ Clear(h)
  /\ Return("app", "Ok", CRYS_OK, NoKey)
  /\ UNCHANGED <<life, slots, nextKey, lastError>>

HandlePtrs == Handles \cup {NullPtr}

\* The calls that leave handles and slots alone.  A public key or a signature
\* can come from anywhere: an earlier export, another device, flash.  Whose the
\* signature is matters only for arguments that pass the checks
UseKey(e) ==
  \/ \E h \in HandlePtrs, a \in MsgArgs :
       \/ rsaSignWithKeyPair(e, h, a)
       \/ rsaPssSign(e, h, a)
       \/ \E own \in BOOLEAN :
            /\ own => a = "ok"
            /\ \/ rsaVerifyWithKeyPair(e, h, a, own)
               \/ rsaPssVerify(e, h, a, own)
  \/ \E pub \in Key \cup {NoKey}, big \in BOOLEAN, a \in MsgArgs,
       own \in BOOLEAN :
       /\ own => a = "ok"
       /\ big => a = "ok" /\ ~own
       /\ \/ rsaVerifyWithPublicKey(e, pub, big, a, own)
          \/ rsaPssVerifyWithPubKey(e, pub, big, a, own)
  \/ \E h \in HandlePtrs, null \in BOOLEAN : rsaExportPublicKey(e, h, null)

Begin(e) ==
  \E p \in Prefer, lib \in BOOLEAN, rnd \in BOOLEAN, ecb \in BOOLEAN :
    begin(e, p, lib, rnd, ecb)

MakeKey(e, h) ==
  \/ rsaGenerateKeyPair(e, h)
  \/ \E m \in Materials, null \in BOOLEAN, lens \in BOOLEAN :
       rsaImportKeyPair(e, h, m, null, lens)

\* Any application: handles are copied, dropped, overwritten and kept over end()
Next ==
  \/ \E e \in Engines :
       \/ Begin(e)
       \/ end(e)
       \/ UseKey(e)
       \/ \E h \in HandlePtrs : MakeKey(e, h) \/ rsaReleaseKeyPair(e, h)
  \/ \E h \in Handles : reset(h) \/ \E g \in Handles : CopyHandle(h, g)

Spec == Init /\ [][Next]_vars

\* An application that follows API_REFERENCE.md: it keeps one object per key, calls
\* rsaRelease before it reuses the object or restarts an engine, and gives a
\* key back to the backend that holds it
CarefulNext ==
  \E e \in Engines :
    \/ (\A h \in Handles : ~Valid(h)) /\ (Begin(e) \/ end(e))
    \/ UseKey(e)
    \/ \E h \in HandlePtrs :
         \/ (h \in Handles => ~Valid(h)) /\ MakeKey(e, h)
         \/ backend[e] = "CC310" /\ rsaReleaseKeyPair(e, h)

CarefulSpec == Init /\ [][CarefulNext]_vars

-----------------------------------------------------------------------------
(* Properties of every application *)

\* The CRYS library is initialised exactly while the CC310 backend counts as
\* started, and only with the CryptoCell powered: no path through begin() and
\* end() leaves SaSi_LibInit without its SaSi_LibFini (CC310Backend.cpp 241-263)
LibraryBalanced == libOpen = started /\ (libOpen => enabled)

\* Once the CC310 backend is stopped no slot holds key material, not even what
\* a failed key generation left in a slot that never became ready
ErasedWhenStopped == ~started => \A s \in Slots : slots[s] = BlankSlot

\* A slot that callers may use holds one whole key
ReadySlotIsWhole == \A s \in Slots : slots[s].ready => slots[s].key \in Key

\* CryptoBackend.h 18-19: an engine whose guard lets calls through has a backend
\* whose begin() has succeeded.  True of one engine; end() of a second one stops
\* the backend under the first (CryptoEngine.cpp 49-54)
GuardedBackendRuns == \A e \in Engines : backend[e] = "CC310" => started

\* A live private key is never overwritten, and it goes away only when its
\* slot is released through a handle that names it, or when the backend is
\* stopped and all slots go with it
LiveKeyKept ==
  [][\A s \in Slots : slots[s].ready /\ slots'[s] # slots[s] =>
       /\ slots'[s] = BlankSlot
       /\ \/ /\ ret'.op = "rsaRelease"
             /\ \E h \in Handles : handles[h].slot = s /\ ~Valid(h)'
          \/ ret'.op \in {"begin", "end"} /\ slots' = [t \in Slots |-> BlankSlot]]_vars

\* The store implements KeyPool: a place holds the key of a ready slot
KP == INSTANCE KeyPool WITH
        Places <- Slots, Keys <- Key, Free <- NoKey, open <- started,
        pool <- [s \in Slots |-> IF slots[s].ready THEN slots[s].key ELSE NoKey]

ImplementsKeyPool == KP!PoolSpec

-----------------------------------------------------------------------------
(* Properties of a careful application *)

\* Handles and live slots correspond one to one, and each handle's slot holds
\* the key the handle was made for: no slot leaks, no handle is stale, and no
\* call can use another handle's key
HandlesOwnSlots ==
  /\ \A h \in Handles : Valid(h) =>
       rsaSlotValid(handles[h].slot) /\ slots[handles[h].slot].key = made[h]
  /\ \A h \in Handles, g \in Handles :
       Valid(h) /\ handles[h].slot = handles[g].slot => h = g
  /\ \A s \in Slots : slots[s].ready => \E h \in Handles : handles[h].slot = s

\* Making a key fails for want of a slot only when the application itself holds
\* a live handle for every slot ("at most two live RsaKeyPair handles")
FullOnlyWhenAllHeld ==
  [][/\ ret'.op \in {"rsaGenerate", "rsaImport"}
     /\ ret'.st = "InternalError" /\ ret'.crys = CRYS_OK
     => \A s \in Slots : \E h \in Handles : handles[h].slot = s]_vars

\* CryptoTypes.h 67-68: the handle's pub is the public half of the private key
\* in its slot.  It is not when a handle outlives its key
PubIsSlotsPublicHalf ==
  \A h \in Handles :
    rsaSlotValid(handles[h].slot) /\ handles[h].pub # NoKey
      => slots[handles[h].slot].key = handles[h].pub
=============================================================================
