------------------------- MODULE RsaKeyStoreProofs -------------------------
(***************************************************************************)
(* Proofs about RsaKeyStore, for any number of engines, handles and slots, *)
(* and, after them, about SelfTest, for any engines, any number of key     *)
(* slots, any keys of the application and any number of faults: a step of  *)
(* the self test is a step of an application of RsaKeyStore, whose         *)
(* invariants hold of it.  Last come the counts of a device in order, test *)
(* by test along the script.                                               *)
(***************************************************************************)
EXTENDS SelfTest, TLAPS

Unmoved == UNCHANGED <<backend, started, onchip, libOpen, enabled, slots,
                       nextKey, handles, made>>

RetType == [op : OpNames, st : CryptoStatus, crys : CrysResults,
            key : Key \cup {NoKey}]

\* The calls of UseKey
UseOps == {"rsaSign", "rsaVerify", "rsaVerifyWithPubKey", "rsaExportPublic",
           "rsaPssSign", "rsaPssVerify", "rsaPssVerifyWithPubKey"}

CoreInv == TypeOK /\ ReadySlotIsWhole

USE NullAssumption, SlotAssumption, KeyAssumption, ErrorAssumption, BuildAssumption

\* An early return moves nothing and answers a well-formed status.
LEMMA RefuseEffect ==
  ASSUME TypeOK, NEW op \in OpNames, NEW st \in CryptoStatus, Refuse(op, st)
  PROVE  Unmoved /\ lastError' \in CrysResults /\ ret' \in RetType /\ ret'.op = op
  BY DEF Refuse, Return, Unmoved, RetType, life, TypeOK, CrysResults

\* A call that only computes moves nothing of the store.
LEMMA ComputeEffect ==
  ASSUME TypeOK, NEW op \in OpNames, NEW st \in CryptoStatus,
         NEW crys \in CrysResults, NEW key \in Key \cup {NoKey},
         NEW err \in CrysResults, Compute(op, st, crys, key, err)
  PROVE  Unmoved /\ lastError' \in CrysResults /\ ret' \in RetType /\ ret'.op = op
  BY DEF Compute, Return, Unmoved, RetType, life

\* A handle whose slot is ready names a whole key.
LEMMA NamedSlotKey ==
  ASSUME CoreInv, NEW h, NamesSlot(h)
  PROVE  slots[handles[h].slot].key \in Key
  BY DEF CoreInv, ReadySlotIsWhole, NamesSlot, rsaSlotValid

\* recordCrys() leaves a result code in g_lastBackendError.
LEMMA RecordType ==
  ASSUME TypeOK, NEW crys \in CrysResults, NEW b \in BOOLEAN
  PROVE  (IF b THEN recordCrys(crys) ELSE lastError) \in CrysResults
  BY DEF TypeOK, recordCrys

\* The signing and verifying calls of the backend.
LEMMA BackendUseEffect ==
  ASSUME CoreInv, NEW op \in OpNames, NEW h, NEW a, NEW own, NEW big,
         NEW pub \in Key \cup {NoKey}, NEW b \in BOOLEAN,
         \/ CC310Sign(op, h, a, b)
         \/ CC310Verify(op, h, a, own, b)
         \/ CC310VerifyPub(op, pub, big, a, own, b)
  PROVE  Unmoved /\ lastError' \in CrysResults /\ ret' \in RetType /\ ret'.op = op
  <1> DEFINE Goal == Unmoved /\ lastError' \in CrysResults /\ ret' \in RetType /\ ret'.op = op
  <1>0. TypeOK
    BY DEF CoreInv
  <1>1. ASSUME NEW st \in {"NotStarted", "BadParam"}, Refuse(op, st) PROVE Goal
    BY <1>0, <1>1, RefuseEffect DEF CryptoStatus
  <1>2. ASSUME NEW k \in Key, VerifyUnder(op, k, own, b) PROVE Goal
    <2>1. PICK crys \in CrysResults :
            Compute(op, IF crys = CRYS_OK THEN "Ok" ELSE "AuthFailed", crys, k,
                    IF b THEN recordCrys(crys) ELSE lastError)
      BY <1>2 DEF VerifyUnder
    <2>2. (IF crys = CRYS_OK THEN "Ok" ELSE "AuthFailed") \in CryptoStatus
      BY DEF CryptoStatus
    <2> QED
      BY <1>0, <2>1, <2>2, RecordType, ComputeEffect
  <1>3. CASE CC310Sign(op, h, a, b)
    <2>1. CASE started /\ ~KeyPairArgsBad(h, a)
      <3>1. PICK crys \in CrysResults :
              Compute(op, IF crys = CRYS_OK THEN "Ok" ELSE "InternalError", crys,
                      slots[handles[h].slot].key,
                      IF b THEN recordCrys(crys) ELSE lastError)
        BY <1>3, <2>1 DEF CC310Sign, Refuse
      <3>2. slots[handles[h].slot].key \in Key
        BY <2>1, NamedSlotKey DEF KeyPairArgsBad
      <3>3. (IF crys = CRYS_OK THEN "Ok" ELSE "InternalError") \in CryptoStatus
        BY DEF CryptoStatus
      <3> QED
        BY <1>0, <3>1, <3>2, <3>3, RecordType, ComputeEffect
    <2> QED
      BY <1>1, <1>3, <2>1 DEF CC310Sign
  <1>4. CASE CC310Verify(op, h, a, own, b)
    <2>1. CASE started /\ ~KeyPairArgsBad(h, a)
      <3>1. slots[handles[h].slot].key \in Key
        BY <2>1, NamedSlotKey DEF KeyPairArgsBad
      <3> QED
        BY <1>2, <1>4, <2>1, <3>1 DEF CC310Verify
    <2> QED
      BY <1>1, <1>4, <2>1 DEF CC310Verify
  <1>5. CASE CC310VerifyPub(op, pub, big, a, own, b)
    <2>1. ASSUME NEW crys \in CrysErrors,
                 Compute(op, "BadParam", crys, NoKey,
                         IF b THEN recordCrys(crys) ELSE lastError)
          PROVE  Goal
      <3>1. crys \in CrysResults /\ "BadParam" \in CryptoStatus
        BY DEF CrysResults, CryptoStatus
      <3> QED
        BY <1>0, <2>1, <3>1, RecordType, ComputeEffect
    <2>2. ASSUME pub # NoKey, VerifyUnder(op, pub, own, b) PROVE Goal
      BY <1>2, <2>2
    <2> QED
      BY <1>1, <1>5, <2>1, <2>2 DEF CC310VerifyPub
  <1> QED
    BY <1>3, <1>4, <1>5

\* Signing, verifying and exporting never touch the life cycle, a slot or a handle.
LEMMA UseKeyEffect ==
  ASSUME CoreInv, NEW e \in Engines, UseKey(e)
  PROVE  Unmoved /\ lastError' \in CrysResults /\ ret' \in RetType
         /\ ret'.op \in UseOps
  <1> DEFINE Goal == Unmoved /\ lastError' \in CrysResults /\ ret' \in RetType
                     /\ ret'.op \in UseOps
  <1>0. TypeOK
    BY DEF CoreInv
  <1>1. ASSUME NEW op \in UseOps,
               NEW st \in {"NotStarted", "BadParam", "Unsupported"}, Refuse(op, st)
        PROVE  Goal
    BY <1>0, <1>1, RefuseEffect DEF CryptoStatus, UseOps, OpNames
  <1>2. ASSUME NEW h \in HandlePtrs, NEW a \in MsgArgs, rsaSignWithKeyPair(e, h, a)
        PROVE  Goal
    <2>1. "rsaSign" \in UseOps /\ "rsaSign" \in OpNames BY DEF UseOps, OpNames
    <2>2. NoKey \in Key \cup {NoKey} OBVIOUS
    <2> QED BY <1>1, <1>2, <2>1, <2>2, BackendUseEffect DEF rsaSignWithKeyPair, NC_GUARD
  <1>3. ASSUME NEW h \in HandlePtrs, NEW a \in MsgArgs, rsaPssSign(e, h, a)
        PROVE  Goal
    <2>1. "rsaPssSign" \in UseOps /\ "rsaPssSign" \in OpNames BY DEF UseOps, OpNames
    <2>2. NoKey \in Key \cup {NoKey} OBVIOUS
    <2> QED BY <1>1, <1>3, <2>1, <2>2, BackendUseEffect DEF rsaPssSign, NC_GUARD
  <1>4. ASSUME NEW h \in HandlePtrs, NEW a \in MsgArgs, NEW own \in BOOLEAN,
               rsaVerifyWithKeyPair(e, h, a, own)
        PROVE  Goal
    <2>1. "rsaVerify" \in UseOps /\ "rsaVerify" \in OpNames BY DEF UseOps, OpNames
    <2>2. NoKey \in Key \cup {NoKey} OBVIOUS
    <2> QED BY <1>1, <1>4, <2>1, <2>2, BackendUseEffect DEF rsaVerifyWithKeyPair, NC_GUARD
  <1>5. ASSUME NEW h \in HandlePtrs, NEW a \in MsgArgs, NEW own \in BOOLEAN,
               rsaPssVerify(e, h, a, own)
        PROVE  Goal
    <2>1. "rsaPssVerify" \in UseOps /\ "rsaPssVerify" \in OpNames BY DEF UseOps, OpNames
    <2>2. NoKey \in Key \cup {NoKey} OBVIOUS
    <2> QED BY <1>1, <1>5, <2>1, <2>2, BackendUseEffect DEF rsaPssVerify, NC_GUARD
  <1>6. ASSUME NEW pub \in Key \cup {NoKey}, NEW big \in BOOLEAN, NEW a \in MsgArgs,
               NEW own \in BOOLEAN, rsaVerifyWithPublicKey(e, pub, big, a, own)
        PROVE  Goal
    <2>1. "rsaVerifyWithPubKey" \in UseOps /\ "rsaVerifyWithPubKey" \in OpNames BY DEF UseOps, OpNames
    <2> QED BY <1>1, <1>6, <2>1, BackendUseEffect DEF rsaVerifyWithPublicKey, NC_GUARD
  <1>7. ASSUME NEW pub \in Key \cup {NoKey}, NEW big \in BOOLEAN, NEW a \in MsgArgs,
               NEW own \in BOOLEAN, rsaPssVerifyWithPubKey(e, pub, big, a, own)
        PROVE  Goal
    <2>1. "rsaPssVerifyWithPubKey" \in UseOps /\ "rsaPssVerifyWithPubKey" \in OpNames BY DEF UseOps, OpNames
    <2> QED BY <1>1, <1>7, <2>1, BackendUseEffect DEF rsaPssVerifyWithPubKey, NC_GUARD
  <1>8. ASSUME NEW h \in HandlePtrs, NEW null \in BOOLEAN, rsaExportPublicKey(e, h, null)
        PROVE  Goal
    <2>1. "rsaExportPublic" \in UseOps /\ "rsaExportPublic" \in OpNames BY DEF UseOps, OpNames
    <2>2. ASSUME CC310Export(h) PROVE Goal
      <3>1. CASE started /\ NamesSlot(h)
        <4>1. PICK crys \in CrysResults :
                Compute("rsaExportPublic",
                        IF crys = CRYS_OK THEN "Ok" ELSE "InternalError", crys,
                        slots[handles[h].slot].key, lastError)
          BY <2>2, <3>1 DEF CC310Export
        <4>2. slots[handles[h].slot].key \in Key
          BY <3>1, NamedSlotKey
        <4>3. (IF crys = CRYS_OK THEN "Ok" ELSE "InternalError") \in CryptoStatus
          BY DEF CryptoStatus
        <4>4. lastError \in CrysResults
          BY <1>0 DEF TypeOK
        <4> QED BY <1>0, <2>1, <4>1, <4>2, <4>3, <4>4, ComputeEffect
      <3> QED BY <1>1, <2>1, <2>2, <3>1 DEF CC310Export
    <2> QED BY <1>1, <1>8, <2>1, <2>2 DEF rsaExportPublicKey, NC_GUARD
  <1> QED
    BY <1>2, <1>3, <1>4, <1>5, <1>6, <1>7, <1>8 DEF UseKey

-----------------------------------------------------------------------------
(* The three ways rsaGenerate and rsaImport move the store *)

\* The handle is cleared and no slot changes
HandleDropped(h) == Clear(h) /\ UNCHANGED slots

\* The handle is cleared and a slot that was free stays free
SlotSpoilt(h, s) ==
  /\ started /\ ~slots[s].ready
  /\ \E left \in {slots[s].key, Residue, NoKey} :
       slots' = [slots EXCEPT ![s] = [key |-> left, ready |-> FALSE]]
  /\ Clear(h)

\* A free slot gets a whole key and the handle names it
SlotFilled(h, s, k) ==
  /\ started /\ ~slots[s].ready
  /\ slots' = [slots EXCEPT ![s] = [key |-> k, ready |-> TRUE]]
  /\ \E p \in {k, NoKey} :
       handles' = [handles EXCEPT ![h] = [slot |-> s, pub |-> p]]
  /\ made' = [made EXCEPT ![h] = k]

MakeKeyMove(h) ==
  \/ Unmoved
  \/ /\ h \in Handles
     /\ \/ HandleDropped(h)
        \/ \E s \in Slots : SlotSpoilt(h, s)
        \/ \E s \in Slots, k \in Key : SlotFilled(h, s, k)

\* What holds of the answer of rsaGenerate and rsaImport
MakeKeyAnswer ==
  /\ UNCHANGED life
  /\ nextKey' \in 1 .. MaxKeys + 1
  /\ lastError' \in CrysResults
  /\ ret' \in RetType
  /\ ret'.op \in {"rsaGenerate", "rsaImport"}
  /\ ret'.st = "InternalError" /\ ret'.crys = CRYS_OK => PoolFull

\* A backend that gives up has only cleared the handle the engine cleared.
LEMMA GiveUpEffect ==
  ASSUME TypeOK, NEW op \in {"rsaGenerate", "rsaImport"}, NEW h \in Handles,
         NEW st \in CryptoStatus, st = "InternalError" => PoolFull,
         GiveUp(op, h, st), UNCHANGED life
  PROVE  MakeKeyMove(h) /\ MakeKeyAnswer
  BY DEF TypeOK, GiveUp, Return, MakeKeyMove, HandleDropped, MakeKeyAnswer,
         RetType, OpNames, CrysResults

\* Installing a key readies the chosen slot and points the handle at it, whether
\* or not the export of the public half succeeds.
LEMMA InstallEffect ==
  ASSUME TypeOK, NEW op \in {"rsaGenerate", "rsaImport"}, NEW h \in Handles,
         NEW s \in Slots, NEW k \in Key, started, rsaAllocSlot(s),
         InstallKey(op, h, s, k), UNCHANGED life, nextKey' \in 1 .. MaxKeys + 1
  PROVE  MakeKeyMove(h) /\ MakeKeyAnswer
  <1>1. PICK crys \in CrysResults :
          /\ slots' = [slots EXCEPT ![s] = [key |-> k, ready |-> TRUE]]
          /\ handles' = [handles EXCEPT ![h] =
                           [slot |-> s, pub |-> IF crys = CRYS_OK THEN k ELSE NoKey]]
          /\ made' = [made EXCEPT ![h] = k]
          /\ Return(op, IF crys = CRYS_OK THEN "Ok" ELSE "InternalError", crys, k)
          /\ UNCHANGED lastError
    BY DEF InstallKey
  <1>2. SlotFilled(h, s, k)
    BY <1>1 DEF SlotFilled, rsaAllocSlot
  <1>3. ret' \in RetType /\ ret'.op = op /\ ret'.crys = crys
        /\ (ret'.st = "InternalError" => crys # CRYS_OK)
    BY <1>1 DEF Return, RetType, OpNames, CryptoStatus
  <1> QED
    BY <1>1, <1>2, <1>3 DEF MakeKeyMove, MakeKeyAnswer, TypeOK

\* rsaGenerateKeyPair refuses, clears the handle, leaves residue in a slot that
\* was free, or installs the next key in such a slot.
LEMMA GenerateEffect ==
  ASSUME CoreInv, NEW e \in Engines, NEW h \in HandlePtrs, rsaGenerateKeyPair(e, h)
  PROVE  MakeKeyMove(h) /\ MakeKeyAnswer
  <1>0. TypeOK BY DEF CoreInv
  <1>1. ASSUME NEW st \in {"NotStarted", "BadParam"}, Refuse("rsaGenerate", st)
        PROVE  MakeKeyMove(h) /\ MakeKeyAnswer
    <2>1. Unmoved /\ lastError' \in CrysResults /\ ret' \in RetType
      BY <1>0, <1>1, RefuseEffect DEF OpNames, CryptoStatus
    <2>2. ret'.op = "rsaGenerate" /\ ret'.st = st
      BY <1>1 DEF Refuse, Return
    <2> QED BY <1>0, <2>1, <2>2 DEF MakeKeyMove, MakeKeyAnswer, Unmoved, life, TypeOK
  <1>2. ASSUME h \in Handles, CC310Generate(h), UNCHANGED life
        PROVE  MakeKeyMove(h) /\ MakeKeyAnswer
    <2>1. ASSUME NEW s \in Slots, started, rsaAllocSlot(s), KeyGenFails(h, s)
          PROVE  MakeKeyMove(h) /\ MakeKeyAnswer
      <3>1. PICK crys \in CrysErrors, left \in {slots[s].key, Residue} :
              /\ slots' = [slots EXCEPT ![s] = [key |-> left, ready |-> FALSE]]
              /\ Clear(h)
              /\ Return("rsaGenerate", "InternalError", crys, NoKey)
              /\ UNCHANGED <<nextKey, lastError>>
        BY <2>1 DEF KeyGenFails
      <3>2. SlotSpoilt(h, s)
        BY <2>1, <3>1 DEF SlotSpoilt, rsaAllocSlot
      <3>3. ret' \in RetType /\ ret'.op = "rsaGenerate" /\ ret'.crys # CRYS_OK
        BY <3>1 DEF Return, RetType, OpNames, CryptoStatus, CrysResults
      <3> QED BY <1>0, <1>2, <3>1, <3>2, <3>3 DEF MakeKeyMove, MakeKeyAnswer, TypeOK
    <2>2. ASSUME NEW s \in Slots, started, rsaAllocSlot(s), nextKey <= MaxKeys,
                 nextKey' = nextKey + 1, InstallKey("rsaGenerate", h, s, nextKey)
          PROVE  MakeKeyMove(h) /\ MakeKeyAnswer
      <3>1. nextKey \in Key /\ nextKey' \in 1 .. MaxKeys + 1
        BY <1>0, <2>2 DEF TypeOK, Key
      <3> QED BY <1>0, <1>2, <2>2, <3>1, InstallEffect
    <2> QED
      BY <1>0, <1>2, <2>1, <2>2, GiveUpEffect DEF CC310Generate, CryptoStatus
  <1>3. ASSUME h \in Handles, GiveUp("rsaGenerate", h, "Unsupported"), UNCHANGED life
        PROVE  MakeKeyMove(h) /\ MakeKeyAnswer
    BY <1>0, <1>3, GiveUpEffect DEF CryptoStatus
  <1> QED
    BY <1>1, <1>2, <1>3 DEF rsaGenerateKeyPair, NC_GUARD

\* rsaImportKeyPair refuses, clears the handle, blanks a slot that was free, or
\* installs the material in such a slot.
LEMMA ImportEffect ==
  ASSUME CoreInv, NEW e \in Engines, NEW h \in HandlePtrs, NEW m \in Materials,
         NEW null \in BOOLEAN, NEW lens \in BOOLEAN,
         rsaImportKeyPair(e, h, m, null, lens)
  PROVE  MakeKeyMove(h) /\ MakeKeyAnswer
  <1>0. TypeOK BY DEF CoreInv
  <1>1. ASSUME NEW st \in {"NotStarted", "BadParam"}, Refuse("rsaImport", st)
        PROVE  MakeKeyMove(h) /\ MakeKeyAnswer
    <2>1. Unmoved /\ lastError' \in CrysResults /\ ret' \in RetType
      BY <1>0, <1>1, RefuseEffect DEF OpNames, CryptoStatus
    <2>2. ret'.op = "rsaImport" /\ ret'.st = st
      BY <1>1 DEF Refuse, Return
    <2> QED BY <1>0, <2>1, <2>2 DEF MakeKeyMove, MakeKeyAnswer, Unmoved, life, TypeOK
  <1>2. ASSUME h \in Handles, CC310Import(h, m, lens), UNCHANGED life
        PROVE  MakeKeyMove(h) /\ MakeKeyAnswer
    <2>1. ASSUME NEW s \in Slots, started, rsaAllocSlot(s), BuildFails(h, s),
                 UNCHANGED nextKey
          PROVE  MakeKeyMove(h) /\ MakeKeyAnswer
      <3>1. PICK err \in CrysResults :
              /\ err # CRYS_OK
              /\ lastError' = recordCrys(err)
              /\ slots' = rsaFreeSlot(s)
              /\ Clear(h)
              /\ Return("rsaImport", "BadParam", err, NoKey)
        BY <2>1 DEF BuildFails
      <3>2. SlotSpoilt(h, s)
        BY <2>1, <3>1 DEF SlotSpoilt, rsaAllocSlot, rsaFreeSlot, BlankSlot
      <3>3. ret' \in RetType /\ ret'.op = "rsaImport" /\ ret'.st = "BadParam"
        BY <3>1 DEF Return, RetType, OpNames, CryptoStatus
      <3> QED
        BY <1>0, <1>2, <2>1, <3>1, <3>2, <3>3
        DEF MakeKeyMove, MakeKeyAnswer, TypeOK, recordCrys
    <2>2. ASSUME NEW s \in Slots, started, rsaAllocSlot(s), UNCHANGED nextKey,
                 InstallKey("rsaImport", h, s, m)
          PROVE  MakeKeyMove(h) /\ MakeKeyAnswer
      <3>1. m \in Key /\ nextKey' \in 1 .. MaxKeys + 1
        BY <1>0, <2>2 DEF TypeOK, Key
      <3> QED BY <1>0, <1>2, <2>2, <3>1, InstallEffect
    <2> QED
      BY <1>0, <1>2, <2>1, <2>2, GiveUpEffect DEF CC310Import, CryptoStatus
  <1>3. ASSUME h \in Handles, GiveUp("rsaImport", h, "Unsupported"), UNCHANGED life
        PROVE  MakeKeyMove(h) /\ MakeKeyAnswer
    BY <1>0, <1>3, GiveUpEffect DEF CryptoStatus
  <1> QED
    BY <1>1, <1>2, <1>3 DEF rsaImportKeyPair, NC_GUARD

\* rsaRelease refuses, or frees the slot its handle names, or (OnChip) only
\* clears the handle.
LEMMA ReleaseEffect ==
  ASSUME CoreInv, NEW e \in Engines, NEW h \in HandlePtrs, rsaReleaseKeyPair(e, h)
  PROVE  /\ UNCHANGED life /\ UNCHANGED nextKey
         /\ lastError' \in CrysResults /\ ret' \in RetType
         /\ ret'.op = "rsaRelease"
         /\ \/ Unmoved
            \/ Valid(h) /\ backend[e] = "OnChip" /\ HandleDropped(h)
            \/ NamesSlot(h) /\ slots' = rsaFreeSlot(handles[h].slot) /\ Clear(h)
  <1>0. TypeOK BY DEF CoreInv
  <1>1. ASSUME NEW st \in {"NotStarted", "BadParam"}, Refuse("rsaRelease", st)
        PROVE  Unmoved /\ lastError' \in CrysResults /\ ret' \in RetType
               /\ ret'.op = "rsaRelease"
    <2>1. Unmoved /\ lastError' \in CrysResults /\ ret' \in RetType
      BY <1>0, <1>1, RefuseEffect DEF OpNames, CryptoStatus
    <2> QED BY <1>1, <2>1 DEF Refuse, Return
  <1>2. ASSUME Return("rsaRelease", "Ok", CRYS_OK, NoKey), UNCHANGED lastError
        PROVE  lastError' \in CrysResults /\ ret' \in RetType /\ ret'.op = "rsaRelease"
    BY <1>0, <1>2 DEF Return, RetType, OpNames, CryptoStatus, CrysResults, TypeOK
  <1> QED
    BY <1>1, <1>2 DEF rsaReleaseKeyPair, NC_GUARD, CC310Release, DefaultRelease,
                      HandleDropped, Unmoved, life

-----------------------------------------------------------------------------
(* Life cycle *)

\* What begin() and end() do to the store: either the slots are untouched and the
\* backend stays as it was or is started, or every slot is zeroed.
LifeMove ==
  /\ \/ UNCHANGED slots /\ (started => started')
     \/ started /\ slots' = rsaFreeAllSlots
  /\ UNCHANGED <<nextKey, handles, made, lastError>>

\* begin() is a LifeMove, keeps the library in step with started_, and leaves an
\* engine on CC310 only with the CC310 running.
LEMMA BeginEffect ==
  ASSUME CoreInv, LibraryBalanced, NEW e \in Engines, Begin(e)
  PROVE  /\ LifeMove /\ LibraryBalanced'
         /\ started' \in BOOLEAN /\ onchip' \in BOOLEAN
         /\ libOpen' \in BOOLEAN /\ enabled' \in BOOLEAN
         /\ backend' \in [Engines -> BackendPtr]
         /\ ret' \in RetType /\ ret'.op = "begin"
         /\ backend'[e] = "CC310" => started'
  <1>0. TypeOK BY DEF CoreInv
  <1>1. PICK p \in Prefer, lib \in BOOLEAN, rnd \in BOOLEAN, ecb \in BOOLEAN :
          begin(e, p, lib, rnd, ecb)
    BY DEF Begin
  <1> DEFINE run   == started /\ ~StopsCC310(e)
             open  == libOpen /\ ~StopsCC310(e)
             try   == p \in {"Auto", "CC310"}
             up    == try /\ CC310Begins(run, lib, rnd)
             probe == p = "OnChip" \/ (p = "Auto" /\ ~up)
             ptr   == IF up THEN "CC310" ELSE IF probe /\ ecb THEN "OnChip" ELSE "none"
  <1>2. /\ backend' = [backend EXCEPT ![e] = ptr]
        /\ started' = (run \/ up)
        /\ libOpen' = IF try THEN LibAfterBegin(run, open, lib, rnd) ELSE open
        /\ enabled' = (enabled \/ (try /\ HasCC310 /\ ~run))
        /\ onchip' = IF probe THEN ecb ELSE onchip
        /\ slots' = IF StopsCC310(e) THEN rsaFreeAllSlots ELSE slots
        /\ Return("begin", IF ptr = "none" THEN "HardwareMissing" ELSE "Ok",
                  CRYS_OK, NoKey)
        /\ UNCHANGED <<nextKey, handles, made, lastError>>
    BY <1>1 DEF begin
  <1>3. LifeMove
    BY <1>2, <1>0 DEF LifeMove, StopsCC310, TypeOK
  <1>4. started' \in BOOLEAN /\ onchip' \in BOOLEAN /\ enabled' \in BOOLEAN
    BY <1>2, <1>0 DEF TypeOK
  <1>5. libOpen' = started' /\ libOpen' \in BOOLEAN
    <2>1. libOpen = started /\ started \in BOOLEAN
      BY <1>0 DEF LibraryBalanced, TypeOK
    <2>2. CASE try
      BY <1>2, <2>1, <2>2 DEF LibAfterBegin, CC310Begins
    <2>3. CASE ~try
      BY <1>2, <2>1, <2>3
    <2> QED BY <2>2, <2>3
  <1>6. libOpen' => enabled'
    BY <1>2, <1>5, <1>0 DEF LibraryBalanced, TypeOK, CC310Begins
  <1>7. ptr \in BackendPtr
    BY DEF BackendPtr
  <1>8. backend' \in [Engines -> BackendPtr] /\ (backend'[e] = "CC310" => started')
    <2>1. backend \in [Engines -> BackendPtr] BY <1>0 DEF TypeOK
    <2>2. backend'[e] = ptr BY <1>2, <2>1
    <2>3. ptr = "CC310" => up OBVIOUS
    <2> QED BY <1>2, <1>7, <2>1, <2>2, <2>3
  <1>9. ret' \in RetType /\ ret'.op = "begin"
    BY <1>2 DEF Return, RetType, OpNames, CryptoStatus, CrysResults
  <1> QED
    BY <1>3, <1>4, <1>5, <1>6, <1>8, <1>9 DEF LibraryBalanced

\* end() is a LifeMove, keeps the library in step and detaches the engine.
LEMMA EndEffect ==
  ASSUME CoreInv, LibraryBalanced, NEW e \in Engines, end(e)
  PROVE  /\ LifeMove /\ LibraryBalanced'
         /\ started' \in BOOLEAN /\ onchip' \in BOOLEAN
         /\ libOpen' \in BOOLEAN /\ enabled' \in BOOLEAN
         /\ backend' \in [Engines -> BackendPtr]
         /\ ret' \in RetType /\ ret'.op = "end"
         /\ backend'[e] = "none"
  <1>0. TypeOK BY DEF CoreInv
  <1>1. LifeMove
    BY <1>0 DEF end, LifeMove, StopsCC310, TypeOK
  <1>2. /\ LibraryBalanced'
        /\ started' \in BOOLEAN /\ onchip' \in BOOLEAN
        /\ libOpen' \in BOOLEAN /\ enabled' \in BOOLEAN
    BY <1>0 DEF end, LibraryBalanced, TypeOK
  <1>3. backend' \in [Engines -> BackendPtr] /\ backend'[e] = "none"
    BY <1>0 DEF end, TypeOK, BackendPtr
  <1>4. ret' \in RetType /\ ret'.op = "end"
    BY DEF end, Return, RetType, OpNames, CryptoStatus, CrysResults
  <1> QED BY <1>1, <1>2, <1>3, <1>4

-----------------------------------------------------------------------------
(* The inductive invariant *)

SafetyInv ==
  TypeOK /\ ReadySlotIsWhole /\ LibraryBalanced /\ ErasedWhenStopped

\* A step of the application on its own objects
AppStep == \E h \in Handles : reset(h) \/ \E g \in Handles : CopyHandle(h, g)

\* Every step, by its effect.
LEMMA StepCases ==
  ASSUME Next
  PROVE  \/ \E e \in Engines : Begin(e)
         \/ \E e \in Engines : end(e)
         \/ \E e \in Engines : UseKey(e)
         \/ \E e \in Engines, h \in HandlePtrs : MakeKey(e, h)
         \/ \E e \in Engines, h \in HandlePtrs : rsaReleaseKeyPair(e, h)
         \/ AppStep
  BY DEF Next, AppStep

\* Both calls that make a key move the store in the same ways.
LEMMA MakeKeyEffect ==
  ASSUME CoreInv, NEW e \in Engines, NEW h \in HandlePtrs, MakeKey(e, h)
  PROVE  MakeKeyMove(h) /\ MakeKeyAnswer
  BY GenerateEffect, ImportEffect DEF MakeKey

\* Clearing a handle keeps it well-formed.
LEMMA ClearType ==
  ASSUME TypeOK, NEW h \in Handles, Clear(h)
  PROVE  /\ handles' \in [Handles -> [slot : Slots \cup {kRsaInvalidSlot},
                                      pub : Key \cup {NoKey}]]
         /\ made' \in [Handles -> Key \cup {NoKey}]
  BY DEF TypeOK, Clear, NoHandle

\* The application's own steps leave the library alone.
LEMMA AppEffect ==
  ASSUME TypeOK, AppStep
  PROVE  /\ UNCHANGED life /\ UNCHANGED <<slots, nextKey, lastError>>
         /\ ret' \in RetType /\ ret'.op = "app"
         /\ handles' \in [Handles -> [slot : Slots \cup {kRsaInvalidSlot},
                                      pub : Key \cup {NoKey}]]
         /\ made' \in [Handles -> Key \cup {NoKey}]
  <1>1. ASSUME NEW h \in Handles, reset(h)
        PROVE  /\ handles' \in [Handles -> [slot : Slots \cup {kRsaInvalidSlot},
                                            pub : Key \cup {NoKey}]]
               /\ made' \in [Handles -> Key \cup {NoKey}]
    BY <1>1, ClearType DEF reset
  <1>2. ASSUME NEW h \in Handles, NEW g \in Handles, CopyHandle(h, g)
        PROVE  /\ handles' \in [Handles -> [slot : Slots \cup {kRsaInvalidSlot},
                                            pub : Key \cup {NoKey}]]
               /\ made' \in [Handles -> Key \cup {NoKey}]
    BY <1>2 DEF CopyHandle, TypeOK
  <1>3. /\ UNCHANGED life /\ UNCHANGED <<slots, nextKey, lastError>>
        /\ Return("app", "Ok", CRYS_OK, NoKey)
    BY DEF AppStep, reset, CopyHandle
  <1>4. ret' \in RetType /\ ret'.op = "app"
    BY <1>3 DEF Return, RetType, OpNames, CryptoStatus, CrysResults
  <1> QED BY <1>1, <1>2, <1>3, <1>4 DEF AppStep

\* A key-making move preserves the types of slots and handles, and the slots stay
\* whole and, while the backend is stopped, blank.
LEMMA MakeKeyKeeps ==
  ASSUME SafetyInv, NEW h \in HandlePtrs, MakeKeyMove(h), UNCHANGED life
  PROVE  /\ slots' \in [Slots -> [key : Key \cup {NoKey, Residue}, ready : BOOLEAN]]
         /\ handles' \in [Handles -> [slot : Slots \cup {kRsaInvalidSlot},
                                      pub : Key \cup {NoKey}]]
         /\ made' \in [Handles -> Key \cup {NoKey}]
         /\ ReadySlotIsWhole' /\ ErasedWhenStopped'
  <1> USE DEF SafetyInv
  <1>1. CASE Unmoved
    BY <1>1 DEF Unmoved, TypeOK, ReadySlotIsWhole, ErasedWhenStopped
  <1>2. CASE h \in Handles /\ HandleDropped(h)
    BY <1>2, ClearType DEF HandleDropped, life, TypeOK, ReadySlotIsWhole, ErasedWhenStopped
  <1>3. ASSUME h \in Handles, NEW s \in Slots, SlotSpoilt(h, s)
        PROVE  /\ slots' \in [Slots -> [key : Key \cup {NoKey, Residue}, ready : BOOLEAN]]
               /\ handles' \in [Handles -> [slot : Slots \cup {kRsaInvalidSlot},
                                            pub : Key \cup {NoKey}]]
               /\ made' \in [Handles -> Key \cup {NoKey}]
               /\ ReadySlotIsWhole' /\ ErasedWhenStopped'
    <2>1. PICK left \in {slots[s].key, Residue, NoKey} :
            slots' = [slots EXCEPT ![s] = [key |-> left, ready |-> FALSE]]
      BY <1>3 DEF SlotSpoilt
    <2>2. left \in Key \cup {NoKey, Residue}
      BY DEF TypeOK
    <2>3. slots' \in [Slots -> [key : Key \cup {NoKey, Residue}, ready : BOOLEAN]]
      BY <2>1, <2>2 DEF TypeOK
    <2>4. ReadySlotIsWhole'
      BY <2>1 DEF TypeOK, ReadySlotIsWhole
    <2>5. ErasedWhenStopped'
      BY <1>3 DEF SlotSpoilt, ErasedWhenStopped, life
    <2> QED BY <1>3, <2>3, <2>4, <2>5, ClearType DEF SlotSpoilt
  <1>4. ASSUME h \in Handles, NEW s \in Slots, NEW k \in Key, SlotFilled(h, s, k)
        PROVE  /\ slots' \in [Slots -> [key : Key \cup {NoKey, Residue}, ready : BOOLEAN]]
               /\ handles' \in [Handles -> [slot : Slots \cup {kRsaInvalidSlot},
                                            pub : Key \cup {NoKey}]]
               /\ made' \in [Handles -> Key \cup {NoKey}]
               /\ ReadySlotIsWhole' /\ ErasedWhenStopped'
    <2>1. slots' \in [Slots -> [key : Key \cup {NoKey, Residue}, ready : BOOLEAN]]
      BY <1>4 DEF SlotFilled, TypeOK
    <2>2. /\ handles' \in [Handles -> [slot : Slots \cup {kRsaInvalidSlot},
                                       pub : Key \cup {NoKey}]]
          /\ made' \in [Handles -> Key \cup {NoKey}]
      BY <1>4 DEF SlotFilled, TypeOK
    <2>3. ReadySlotIsWhole'
      BY <1>4 DEF SlotFilled, TypeOK, ReadySlotIsWhole
    <2>4. ErasedWhenStopped'
      BY <1>4 DEF SlotFilled, ErasedWhenStopped, life
    <2> QED BY <2>1, <2>2, <2>3, <2>4
  <1> QED
    BY <1>1, <1>2, <1>3, <1>4 DEF MakeKeyMove

\* SafetyInv is inductive for any application.
LEMMA SafetyInductive == SafetyInv /\ [Next]_vars => SafetyInv'
  <1> SUFFICES ASSUME SafetyInv, [Next]_vars PROVE SafetyInv'
    OBVIOUS
  <1>0. TypeOK /\ CoreInv /\ LibraryBalanced /\ ErasedWhenStopped /\ ReadySlotIsWhole
    BY DEF SafetyInv, CoreInv
  <1>1. ASSUME LifeMove, LibraryBalanced', started' \in BOOLEAN, onchip' \in BOOLEAN,
               libOpen' \in BOOLEAN, enabled' \in BOOLEAN,
               backend' \in [Engines -> BackendPtr], ret' \in RetType
        PROVE  SafetyInv'
    <2>1. CASE UNCHANGED slots /\ (started => started')
      BY <1>0, <1>1, <2>1 DEF LifeMove, SafetyInv, TypeOK, RetType, ReadySlotIsWhole,
                              ErasedWhenStopped
    <2>2. CASE started /\ slots' = rsaFreeAllSlots
      BY <1>0, <1>1, <2>2 DEF LifeMove, SafetyInv, TypeOK, RetType, ReadySlotIsWhole,
                              ErasedWhenStopped, rsaFreeAllSlots, BlankSlot
    <2> QED BY <1>1, <2>1, <2>2 DEF LifeMove
  <1>2. ASSUME NEW e \in Engines, Begin(e) PROVE SafetyInv'
    BY <1>0, <1>1, <1>2, BeginEffect
  <1>3. ASSUME NEW e \in Engines, end(e) PROVE SafetyInv'
    BY <1>0, <1>1, <1>3, EndEffect
  <1>4. ASSUME Unmoved, lastError' \in CrysResults, ret' \in RetType PROVE SafetyInv'
    BY <1>0, <1>4 DEF Unmoved, SafetyInv, TypeOK, RetType, ReadySlotIsWhole,
                      ErasedWhenStopped, LibraryBalanced
  <1>5. ASSUME NEW e \in Engines, UseKey(e) PROVE SafetyInv'
    BY <1>0, <1>4, <1>5, UseKeyEffect
  <1>6. ASSUME NEW e \in Engines, NEW h \in HandlePtrs, MakeKey(e, h) PROVE SafetyInv'
    <2>1. MakeKeyMove(h) /\ MakeKeyAnswer
      BY <1>0, <1>6, MakeKeyEffect
    <2>2. /\ slots' \in [Slots -> [key : Key \cup {NoKey, Residue}, ready : BOOLEAN]]
          /\ handles' \in [Handles -> [slot : Slots \cup {kRsaInvalidSlot},
                                       pub : Key \cup {NoKey}]]
          /\ made' \in [Handles -> Key \cup {NoKey}]
          /\ ReadySlotIsWhole' /\ ErasedWhenStopped'
      BY <2>1, MakeKeyKeeps DEF MakeKeyAnswer
    <2> QED
      BY <1>0, <2>1, <2>2 DEF MakeKeyAnswer, SafetyInv, TypeOK, RetType, life,
                              LibraryBalanced
  <1>7. ASSUME NEW e \in Engines, NEW h \in HandlePtrs, rsaReleaseKeyPair(e, h)
        PROVE  SafetyInv'
    <2>1. /\ UNCHANGED life /\ UNCHANGED nextKey
          /\ lastError' \in CrysResults /\ ret' \in RetType
          /\ \/ Unmoved
             \/ Valid(h) /\ HandleDropped(h)
             \/ NamesSlot(h) /\ slots' = rsaFreeSlot(handles[h].slot) /\ Clear(h)
      BY <1>0, <1>7, ReleaseEffect
    <2>2. CASE Valid(h) /\ HandleDropped(h)
      <3>1. /\ handles' \in [Handles -> [slot : Slots \cup {kRsaInvalidSlot},
                                         pub : Key \cup {NoKey}]]
            /\ made' \in [Handles -> Key \cup {NoKey}]
        BY <1>0, <2>2, ClearType DEF HandleDropped, Valid
      <3> QED
        BY <1>0, <2>1, <2>2, <3>1 DEF HandleDropped, SafetyInv, TypeOK, RetType, life,
             ReadySlotIsWhole, ErasedWhenStopped, LibraryBalanced
    <2>3. CASE NamesSlot(h) /\ slots' = rsaFreeSlot(handles[h].slot) /\ Clear(h)
      <3>1. /\ handles' \in [Handles -> [slot : Slots \cup {kRsaInvalidSlot},
                                         pub : Key \cup {NoKey}]]
            /\ made' \in [Handles -> Key \cup {NoKey}]
        BY <1>0, <2>3, ClearType DEF NamesSlot
      <3>2. /\ slots' \in [Slots -> [key : Key \cup {NoKey, Residue}, ready : BOOLEAN]]
            /\ ReadySlotIsWhole' /\ ErasedWhenStopped'
        BY <1>0, <2>1, <2>3 DEF NamesSlot, rsaSlotValid, rsaFreeSlot, BlankSlot, TypeOK,
             ReadySlotIsWhole, ErasedWhenStopped, life
      <3> QED
        BY <1>0, <2>1, <2>3, <3>1, <3>2 DEF SafetyInv, TypeOK, RetType, life,
             LibraryBalanced
    <2> QED BY <1>4, <2>1, <2>2, <2>3
  <1>8. ASSUME AppStep PROVE SafetyInv'
    BY <1>0, <1>8, AppEffect DEF SafetyInv, TypeOK, RetType, life, ReadySlotIsWhole,
         ErasedWhenStopped, LibraryBalanced
  <1>9. CASE UNCHANGED vars
    BY <1>0, <1>9 DEF vars, SafetyInv, TypeOK, ReadySlotIsWhole, ErasedWhenStopped,
         LibraryBalanced, RetType
  <1> QED
    BY <1>2, <1>3, <1>5, <1>6, <1>7, <1>8, <1>9, StepCases

\* The initial state satisfies SafetyInv.
LEMMA SafetyInit == Init => SafetyInv
  <1> SUFFICES ASSUME Init PROVE SafetyInv
    OBVIOUS
  <1>1. /\ backend \in [Engines -> BackendPtr]
        /\ started \in BOOLEAN /\ onchip \in BOOLEAN
        /\ libOpen \in BOOLEAN /\ enabled \in BOOLEAN
    BY DEF Init, BackendPtr
  <1>2. /\ slots \in [Slots -> [key : Key \cup {NoKey, Residue}, ready : BOOLEAN]]
        /\ nextKey \in 1 .. MaxKeys + 1
    BY DEF Init, BlankSlot
  <1>3. /\ handles \in [Handles -> [slot : Slots \cup {kRsaInvalidSlot},
                                    pub : Key \cup {NoKey}]]
        /\ made \in [Handles -> Key \cup {NoKey}]
    BY DEF Init, NoHandle
  <1>4. /\ lastError \in CrysResults
        /\ ret \in [op : OpNames, st : CryptoStatus, crys : CrysResults,
                    key : Key \cup {NoKey}]
    BY DEF Init, OpNames, CryptoStatus, CrysResults
  <1>5. ReadySlotIsWhole /\ ErasedWhenStopped
    BY DEF Init, ReadySlotIsWhole, ErasedWhenStopped, BlankSlot
  <1>6. LibraryBalanced
    BY DEF Init, LibraryBalanced
  <1> QED BY <1>1, <1>2, <1>3, <1>4, <1>5, <1>6 DEF SafetyInv, TypeOK

\* Whatever the application does, every variable keeps its type.
THEOREM TypeCorrect == Spec => []TypeOK
  <1>1. SafetyInv => TypeOK BY DEF SafetyInv
  <1> QED BY <1>1, SafetyInit, SafetyInductive, PTL DEF Spec

\* Whatever the application does, SaSi_LibInit and SaSi_LibFini stay paired with
\* CC310Backend::started_.
THEOREM LibraryStaysBalanced == Spec => []LibraryBalanced
  <1>1. SafetyInv => LibraryBalanced BY DEF SafetyInv
  <1> QED BY <1>1, SafetyInit, SafetyInductive, PTL DEF Spec

\* Whatever the application does, a stopped CC310 backend holds no key material.
THEOREM StoppedMeansErased == Spec => []ErasedWhenStopped
  <1>1. SafetyInv => ErasedWhenStopped BY DEF SafetyInv
  <1> QED BY <1>1, SafetyInit, SafetyInductive, PTL DEF Spec

\* Whatever the application does, a usable slot holds one whole key.
THEOREM ReadySlotsWhole == Spec => []ReadySlotIsWhole
  <1>1. SafetyInv => ReadySlotIsWhole BY DEF SafetyInv
  <1> QED BY <1>1, SafetyInit, SafetyInductive, PTL DEF Spec

-----------------------------------------------------------------------------
(* Live keys *)

\* No step overwrites a live key, and only rsaRelease through a handle that names
\* the slot, or stopping the backend, takes it away.
THEOREM LiveKeysKept == Spec => LiveKeyKept
  <1> DEFINE Gone(s) ==
               /\ slots'[s] = BlankSlot
               /\ \/ /\ ret'.op = "rsaRelease"
                     /\ \E h \in Handles : handles[h].slot = s /\ ~Valid(h)'
                  \/ ret'.op \in {"begin", "end"} /\ slots' = [t \in Slots |-> BlankSlot]
             Kept == \A s \in Slots : slots[s].ready /\ slots'[s] # slots[s] => Gone(s)
  <1>1. SafetyInv /\ [Next]_vars => [Kept]_vars
    <2> SUFFICES ASSUME SafetyInv, Next PROVE Kept
      OBVIOUS
    <2>0. TypeOK /\ CoreInv /\ LibraryBalanced
      BY DEF SafetyInv, CoreInv
    <2>1. ASSUME LifeMove, ret'.op \in {"begin", "end"} PROVE Kept
      BY <2>1 DEF LifeMove, rsaFreeAllSlots
    <2>2. ASSUME NEW e \in Engines, Begin(e) PROVE Kept
      BY <2>0, <2>1, <2>2, BeginEffect
    <2>3. ASSUME NEW e \in Engines, end(e) PROVE Kept
      BY <2>0, <2>1, <2>3, EndEffect
    <2>4. ASSUME NEW e \in Engines, UseKey(e) PROVE Kept
      BY <2>0, <2>4, UseKeyEffect DEF Unmoved
    <2>5. ASSUME NEW e \in Engines, NEW h \in HandlePtrs, MakeKey(e, h) PROVE Kept
      <3>1. MakeKeyMove(h)
        BY <2>0, <2>5, MakeKeyEffect
      <3> QED
        BY <2>0, <3>1 DEF MakeKeyMove, Unmoved, HandleDropped, SlotSpoilt, SlotFilled, TypeOK
    <2>6. ASSUME NEW e \in Engines, NEW h \in HandlePtrs, rsaReleaseKeyPair(e, h)
          PROVE  Kept
      <3>1. /\ ret'.op = "rsaRelease"
            /\ \/ UNCHANGED slots
               \/ NamesSlot(h) /\ slots' = rsaFreeSlot(handles[h].slot) /\ Clear(h)
        BY <2>0, <2>6, ReleaseEffect DEF Unmoved, HandleDropped
      <3>2. CASE NamesSlot(h) /\ slots' = rsaFreeSlot(handles[h].slot) /\ Clear(h)
        <4>1. h \in Handles /\ ~Valid(h)'
          BY <2>0, <3>2 DEF NamesSlot, Clear, NoHandle, Valid, TypeOK
        <4>2. ASSUME NEW s \in Slots, slots'[s] # slots[s]
              PROVE  s = handles[h].slot /\ slots'[s] = BlankSlot
          BY <2>0, <3>2, <4>2 DEF NamesSlot, rsaSlotValid, rsaFreeSlot, TypeOK
        <4> QED BY <3>1, <4>1, <4>2
      <3> QED BY <3>1, <3>2
    <2>7. ASSUME AppStep PROVE Kept
      BY <2>0, <2>7, AppEffect
    <2> QED
      BY <2>2, <2>3, <2>4, <2>5, <2>6, <2>7, StepCases
  <1> QED
    BY <1>1, SafetyInit, SafetyInductive, PTL DEF Spec, LiveKeyKept

\* With a single CryptoEngine object the engine's guard is enough: calls reach the
\* CC310 backend only while it runs.
THEOREM SingleEngineGuard ==
  ASSUME \A e \in Engines, f \in Engines : e = f
  PROVE  Spec => []GuardedBackendRuns
  <1>1. Init => GuardedBackendRuns
    BY DEF Init, GuardedBackendRuns
  <1>2. SafetyInv /\ GuardedBackendRuns /\ [Next]_vars => GuardedBackendRuns'
    <2> SUFFICES ASSUME SafetyInv, GuardedBackendRuns, [Next]_vars
                 PROVE  GuardedBackendRuns'
      OBVIOUS
    <2>0. TypeOK /\ CoreInv /\ LibraryBalanced
      BY DEF SafetyInv, CoreInv
    <2>1. ASSUME NEW e \in Engines, Begin(e) PROVE GuardedBackendRuns'
      <3>1. backend'[e] = "CC310" => started'
        BY <2>0, <2>1, BeginEffect
      <3> QED BY <3>1 DEF GuardedBackendRuns
    <2>2. ASSUME NEW e \in Engines, end(e) PROVE GuardedBackendRuns'
      <3>1. backend'[e] = "none"
        BY <2>0, <2>2, EndEffect
      <3> QED BY <3>1 DEF GuardedBackendRuns
    <2>3. CASE UNCHANGED <<backend, started>>
      BY <2>3 DEF GuardedBackendRuns
    <2>4. ASSUME NEW e \in Engines, UseKey(e) PROVE UNCHANGED <<backend, started>>
      BY <2>0, <2>4, UseKeyEffect DEF Unmoved
    <2>5. ASSUME NEW e \in Engines, NEW h \in HandlePtrs, MakeKey(e, h)
          PROVE  UNCHANGED <<backend, started>>
      BY <2>0, <2>5, MakeKeyEffect DEF MakeKeyAnswer, life
    <2>6. ASSUME NEW e \in Engines, NEW h \in HandlePtrs, rsaReleaseKeyPair(e, h)
          PROVE  UNCHANGED <<backend, started>>
      BY <2>0, <2>6, ReleaseEffect DEF life
    <2>7. ASSUME AppStep PROVE UNCHANGED <<backend, started>>
      BY <2>0, <2>7, AppEffect DEF life
    <2>8. ASSUME UNCHANGED vars PROVE UNCHANGED <<backend, started>>
      BY <2>8 DEF vars
    <2> QED
      BY <2>1, <2>2, <2>3, <2>4, <2>5, <2>6, <2>7, <2>8, StepCases
  <1> QED
    BY <1>1, <1>2, SafetyInit, SafetyInductive, PTL DEF Spec

-----------------------------------------------------------------------------
(* The key store implements KeyPool *)

\* The refinement mapping: the key a place holds
PoolOf == [s \in Slots |-> IF slots[s].ready THEN slots[s].key ELSE NoKey]

\* Every behaviour of the key store is a behaviour of the abstract pool: the slot
\* search, half-written slots, the library handshake and the handles are hidden.
THEOREM KeyStoreImplementsKeyPool == Spec => ImplementsKeyPool
  <1>1. Init => KP!PoolInit
    BY DEF Init, KP!PoolInit, KP!Empty, BlankSlot
  <1>2. SafetyInv /\ [Next]_vars => [KP!PoolNext]_(KP!poolVars)
    <2> SUFFICES ASSUME SafetyInv, [Next]_vars
                 PROVE  KP!PoolNext \/ UNCHANGED <<started, PoolOf>>
      BY DEF KP!poolVars, PoolOf
    <2>0. /\ TypeOK /\ CoreInv /\ LibraryBalanced /\ ErasedWhenStopped
          /\ ReadySlotIsWhole
      BY DEF SafetyInv, CoreInv
    <2>1. ASSUME UNCHANGED <<started, slots>>
          PROVE  UNCHANGED <<started, PoolOf>>
      BY <2>1 DEF PoolOf
    <2>2. ASSUME LifeMove, started' \in BOOLEAN
          PROVE  KP!PoolNext \/ UNCHANGED <<started, PoolOf>>
      <3>1. CASE UNCHANGED slots /\ started = started'
        BY <2>1, <3>1
      <3>2. CASE UNCHANGED slots /\ ~started /\ started'
        <4>1. KP!Open
          BY <2>2, <3>2 DEF KP!Open
        <4> QED BY <4>1 DEF KP!PoolNext
      <3>3. CASE started /\ slots' = rsaFreeAllSlots
        <4>1. KP!Purge
          BY <2>2, <3>3 DEF KP!Purge, KP!Empty, rsaFreeAllSlots, BlankSlot
        <4> QED BY <4>1 DEF KP!PoolNext
      <3> QED
        BY <2>0, <2>2, <3>1, <3>2, <3>3 DEF LifeMove, TypeOK
    <2>3. ASSUME NEW e \in Engines, Begin(e) \/ end(e)
          PROVE  KP!PoolNext \/ UNCHANGED <<started, PoolOf>>
      BY <2>0, <2>2, <2>3, BeginEffect, EndEffect
    <2>4. ASSUME NEW e \in Engines, UseKey(e) PROVE UNCHANGED <<started, PoolOf>>
      BY <2>0, <2>1, <2>4, UseKeyEffect DEF Unmoved
    <2>5. ASSUME NEW e \in Engines, NEW h \in HandlePtrs, MakeKey(e, h)
          PROVE  KP!PoolNext \/ UNCHANGED <<started, PoolOf>>
      <3>0. MakeKeyMove(h) /\ started' = started
        BY <2>0, <2>5, MakeKeyEffect DEF MakeKeyAnswer, life
      <3>1. CASE UNCHANGED slots
        BY <2>1, <3>0, <3>1
      <3>2. ASSUME NEW s \in Slots, SlotSpoilt(h, s)
            PROVE  UNCHANGED <<started, PoolOf>>
        BY <2>0, <3>0, <3>2 DEF SlotSpoilt, PoolOf, TypeOK
      <3>3. ASSUME NEW s \in Slots, NEW k \in Key, SlotFilled(h, s, k)
            PROVE  KP!PoolNext
        <4>1. KP!Put(s, k)
          BY <2>0, <3>0, <3>3 DEF KP!Put, SlotFilled, TypeOK
        <4> QED BY <4>1 DEF KP!PoolNext
      <3> QED
        BY <3>0, <3>1, <3>2, <3>3 DEF MakeKeyMove, Unmoved, HandleDropped
    <2>6. ASSUME NEW e \in Engines, NEW h \in HandlePtrs, rsaReleaseKeyPair(e, h)
          PROVE  KP!PoolNext \/ UNCHANGED <<started, PoolOf>>
      <3>1. /\ started' = started
            /\ \/ UNCHANGED slots
               \/ NamesSlot(h) /\ slots' = rsaFreeSlot(handles[h].slot)
        BY <2>0, <2>6, ReleaseEffect DEF Unmoved, HandleDropped, life
      <3>2. CASE NamesSlot(h) /\ slots' = rsaFreeSlot(handles[h].slot)
        <4>1. PICK s \in Slots : s = handles[h].slot
          BY <3>2 DEF NamesSlot, rsaSlotValid
        <4>2. KP!Drop(s)
          BY <2>0, <3>1, <3>2, <4>1 DEF KP!Drop, rsaFreeSlot, BlankSlot, TypeOK
        <4> QED BY <4>2 DEF KP!PoolNext
      <3> QED BY <2>1, <3>1, <3>2
    <2>7. ASSUME AppStep PROVE UNCHANGED <<started, PoolOf>>
      BY <2>0, <2>1, <2>7, AppEffect DEF life
    <2>8. CASE UNCHANGED vars
      BY <2>1, <2>8 DEF vars
    <2> QED
      BY <2>3, <2>4, <2>5, <2>6, <2>7, <2>8, StepCases
  <1> QED
    BY <1>1, <1>2, SafetyInit, SafetyInductive, PTL DEF Spec, ImplementsKeyPool, KP!PoolSpec

-----------------------------------------------------------------------------
(* The careful application *)

CarefulInv == SafetyInv /\ HandlesOwnSlots

\* A careful step is one of the steps of any application.
LEMMA CarefulIsNext == CarefulNext => Next
  BY DEF CarefulNext, Next

\* Every careful step, with what the application checked before it.
LEMMA CarefulCases ==
  ASSUME CarefulNext
  PROVE  \/ (\A h \in Handles : ~Valid(h)) /\ \E e \in Engines : Begin(e) \/ end(e)
         \/ \E e \in Engines : UseKey(e)
         \/ \E e \in Engines, h \in HandlePtrs :
              (h \in Handles => ~Valid(h)) /\ MakeKey(e, h)
         \/ \E e \in Engines, h \in HandlePtrs :
              backend[e] = "CC310" /\ rsaReleaseKeyPair(e, h)
  BY DEF CarefulNext

\* One handle per live slot and one live slot per handle is inductive.
LEMMA CarefulInductive == CarefulInv /\ [CarefulNext]_vars => CarefulInv'
  <1> SUFFICES ASSUME CarefulInv, [CarefulNext]_vars PROVE CarefulInv'
    OBVIOUS
  <1>a. SafetyInv'
    BY SafetyInductive, CarefulIsNext DEF CarefulInv
  <1>0. TypeOK /\ CoreInv /\ LibraryBalanced /\ SafetyInv /\ HandlesOwnSlots
    BY DEF CarefulInv, SafetyInv, CoreInv
  <1>1. ASSUME UNCHANGED <<slots, handles, made>> PROVE HandlesOwnSlots'
    BY <1>0, <1>1 DEF HandlesOwnSlots, Valid, rsaSlotValid
  <1>2. ASSUME \A h \in Handles : ~Valid(h), NEW e \in Engines, Begin(e) \/ end(e)
        PROVE  HandlesOwnSlots'
    <2>1. LifeMove
      BY <1>0, <1>2, BeginEffect, EndEffect
    <2>2. CASE UNCHANGED slots
      BY <1>1, <2>1, <2>2 DEF LifeMove
    <2>3. CASE slots' = rsaFreeAllSlots
      BY <1>2, <2>1, <2>3 DEF LifeMove, rsaFreeAllSlots, BlankSlot, HandlesOwnSlots, Valid
    <2> QED BY <2>1, <2>2, <2>3 DEF LifeMove
  <1>3. ASSUME NEW e \in Engines, UseKey(e) PROVE HandlesOwnSlots'
    BY <1>0, <1>1, <1>3, UseKeyEffect DEF Unmoved
  <1>4. ASSUME NEW e \in Engines, NEW h \in HandlePtrs, h \in Handles => ~Valid(h),
               MakeKey(e, h)
        PROVE  HandlesOwnSlots'
    <2>0. MakeKeyMove(h)
      BY <1>0, <1>4, MakeKeyEffect
    <2>1. ASSUME h \in Handles, Clear(h)
          PROVE  /\ \A g \in Handles : handles'[g].slot = handles[g].slot
                 /\ \A g \in Handles : Valid(g)' => Valid(g) /\ g # h
                 /\ \A g \in Handles : g # h => made'[g] = made[g]
      BY <1>0, <1>4, <2>1 DEF Clear, NoHandle, Valid, TypeOK
    <2>2. CASE h \in Handles /\ HandleDropped(h)
      BY <1>0, <2>1, <2>2 DEF HandleDropped, HandlesOwnSlots, rsaSlotValid
    <2>3. ASSUME h \in Handles, NEW s \in Slots, SlotSpoilt(h, s)
          PROVE  HandlesOwnSlots'
      <3>1. \A t \in Slots : slots[t].ready => slots'[t] = slots[t]
        BY <1>0, <2>3 DEF SlotSpoilt, TypeOK
      <3>2. \A t \in Slots : slots'[t].ready => slots[t].ready
        BY <1>0, <2>3 DEF SlotSpoilt, TypeOK
      <3> QED
        BY <1>0, <2>1, <2>3, <3>1, <3>2 DEF SlotSpoilt, HandlesOwnSlots, rsaSlotValid
    <2>4. ASSUME h \in Handles, NEW s \in Slots, NEW k \in Key, SlotFilled(h, s, k)
          PROVE  HandlesOwnSlots'
      <3>1. /\ handles'[h].slot = s /\ made'[h] = k
            /\ \A g \in Handles : g # h => handles'[g] = handles[g] /\ made'[g] = made[g]
        BY <1>0, <2>4 DEF SlotFilled, TypeOK
      <3>2. /\ slots'[s] = [key |-> k, ready |-> TRUE] /\ ~slots[s].ready
            /\ \A t \in Slots : t # s => slots'[t] = slots[t]
        BY <1>0, <2>4 DEF SlotFilled, TypeOK
      <3>3. \A g \in Handles : Valid(g) => handles[g].slot # s
        BY <1>0, <3>2 DEF HandlesOwnSlots, rsaSlotValid
      <3>4. s # kRsaInvalidSlot
        BY DEF Slots, kRsaInvalidSlot
      <3>5. \A g \in Handles : g # h => (Valid(g)' <=> Valid(g)) /\ handles'[g].slot # s
        BY <3>1, <3>3, <3>4 DEF Valid
      <3>6. ASSUME NEW g \in Handles, Valid(g)'
            PROVE  rsaSlotValid(handles[g].slot)' /\ slots'[handles'[g].slot].key = made'[g]
        BY <1>0, <3>1, <3>2, <3>5, <3>6 DEF HandlesOwnSlots, rsaSlotValid
      <3>7. ASSUME NEW f \in Handles, NEW g \in Handles, Valid(f)',
                   handles'[f].slot = handles'[g].slot
            PROVE  f = g
        BY <1>0, <3>1, <3>5, <3>7 DEF HandlesOwnSlots
      <3>8. ASSUME NEW t \in Slots, slots'[t].ready
            PROVE  \E g \in Handles : handles'[g].slot = t
        <4>1. CASE t = s
          BY <2>4, <3>1, <4>1
        <4>2. CASE t # s
          <5>1. PICK g \in Handles : handles[g].slot = t
            BY <1>0, <3>2, <3>8, <4>2 DEF HandlesOwnSlots
          <5>2. t # kRsaInvalidSlot
            BY DEF Slots, kRsaInvalidSlot
          <5>3. g # h
            BY <1>4, <2>4, <5>1, <5>2 DEF Valid
          <5> QED BY <3>1, <5>1, <5>3
        <4> QED BY <4>1, <4>2
      <3> QED BY <3>6, <3>7, <3>8 DEF HandlesOwnSlots
    <2> QED
      BY <1>1, <2>0, <2>2, <2>3, <2>4 DEF MakeKeyMove, Unmoved
  <1>5. ASSUME NEW e \in Engines, NEW h \in HandlePtrs, backend[e] = "CC310",
               rsaReleaseKeyPair(e, h)
        PROVE  HandlesOwnSlots'
    <2>1. \/ Unmoved
          \/ NamesSlot(h) /\ slots' = rsaFreeSlot(handles[h].slot) /\ Clear(h)
      BY <1>0, <1>5, ReleaseEffect
    <2>2. CASE NamesSlot(h) /\ slots' = rsaFreeSlot(handles[h].slot) /\ Clear(h)
      <3> DEFINE s == handles[h].slot
      <3>1. h \in Handles /\ s \in Slots /\ Valid(h)
        BY <2>2 DEF NamesSlot, rsaSlotValid, Valid, Slots, kRsaInvalidSlot
      <3>2. /\ slots'[s] = BlankSlot
            /\ \A t \in Slots : t # s => slots'[t] = slots[t]
        BY <1>0, <2>2, <3>1 DEF rsaFreeSlot, TypeOK
      <3>3. /\ ~Valid(h)' /\ handles'[h].slot = kRsaInvalidSlot
            /\ \A g \in Handles : g # h => handles'[g] = handles[g] /\ made'[g] = made[g]
        BY <1>0, <2>2, <3>1 DEF Clear, NoHandle, Valid, TypeOK
      <3>4. \A g \in Handles : Valid(g)' => g # h /\ Valid(g) /\ handles[g].slot # s
        BY <1>0, <3>1, <3>3 DEF HandlesOwnSlots, Valid
      <3>5. ASSUME NEW t \in Slots, slots'[t].ready
            PROVE  \E g \in Handles : handles'[g].slot = t
        <4>1. t # s
          BY <3>2, <3>5 DEF BlankSlot
        <4>2. PICK g \in Handles : handles[g].slot = t
          BY <1>0, <3>2, <3>5, <4>1 DEF HandlesOwnSlots
        <4> QED BY <3>3, <4>1, <4>2
      <3>6. ASSUME NEW g \in Handles, Valid(g)'
            PROVE  rsaSlotValid(handles[g].slot)' /\ slots'[handles'[g].slot].key = made'[g]
        BY <1>0, <3>2, <3>3, <3>4, <3>6 DEF HandlesOwnSlots, rsaSlotValid
      <3>7. ASSUME NEW f \in Handles, NEW g \in Handles, Valid(f)',
                   handles'[f].slot = handles'[g].slot
            PROVE  f = g
        BY <1>0, <3>3, <3>4, <3>7 DEF HandlesOwnSlots, Valid
      <3> QED BY <3>5, <3>6, <3>7 DEF HandlesOwnSlots
    <2> QED BY <1>1, <2>1, <2>2 DEF Unmoved
  <1>6. ASSUME UNCHANGED vars PROVE HandlesOwnSlots'
    BY <1>1, <1>6 DEF vars
  <1> QED
    BY <1>a, <1>2, <1>3, <1>4, <1>5, <1>6, CarefulCases DEF CarefulInv

\* The initial state satisfies CarefulInv.
LEMMA CarefulInit == Init => CarefulInv
  BY SafetyInit DEF CarefulInv, Init, HandlesOwnSlots, Valid, NoHandle, BlankSlot

\* For an application that follows the documented protocol no slot leaks, no
\* handle is stale, and each handle reaches the key it was made for.
THEOREM CarefulOwnership == CarefulSpec => []HandlesOwnSlots
  <1>1. CarefulInv => HandlesOwnSlots BY DEF CarefulInv
  <1> QED BY <1>1, CarefulInit, CarefulInductive, PTL DEF CarefulSpec

\* Such an application runs out of slots only when it holds all of them itself.
THEOREM CarefulCapacity == CarefulSpec => FullOnlyWhenAllHeld
  <1> DEFINE Honest ==
               /\ ret'.op \in {"rsaGenerate", "rsaImport"}
               /\ ret'.st = "InternalError" /\ ret'.crys = CRYS_OK
               => \A s \in Slots : \E h \in Handles : handles[h].slot = s
  <1>1. CarefulInv /\ [CarefulNext]_vars => [Honest]_vars
    <2> SUFFICES ASSUME CarefulInv, CarefulNext PROVE Honest
      OBVIOUS
    <2>0. TypeOK /\ CoreInv /\ LibraryBalanced /\ SafetyInv /\ HandlesOwnSlots
      BY DEF CarefulInv, SafetyInv, CoreInv
    <2>1. ASSUME NEW e \in Engines, Begin(e) \/ end(e) PROVE Honest
      <3>1. ret'.op = "begin" \/ ret'.op = "end"
        BY <2>0, <2>1, BeginEffect, EndEffect
      <3> QED BY <3>1
    <2>2. ASSUME NEW e \in Engines, UseKey(e) PROVE Honest
      <3>1. ret'.op \in UseOps
        BY <2>0, <2>2, UseKeyEffect
      <3> QED BY <3>1 DEF UseOps
    <2>3. ASSUME NEW e \in Engines, NEW h \in HandlePtrs, MakeKey(e, h) PROVE Honest
      <3>1. MakeKeyAnswer
        BY <2>0, <2>3, MakeKeyEffect
      <3> QED BY <2>0, <3>1 DEF MakeKeyAnswer, PoolFull, HandlesOwnSlots
    <2>4. ASSUME NEW e \in Engines, NEW h \in HandlePtrs, rsaReleaseKeyPair(e, h)
          PROVE  Honest
      <3>1. ret'.op = "rsaRelease"
        BY <2>0, <2>4, ReleaseEffect
      <3> QED BY <3>1
    <2> QED
      BY <2>1, <2>2, <2>3, <2>4, CarefulCases
  <1> QED
    BY <1>1, CarefulInit, CarefulInductive, PTL DEF CarefulSpec, FullOnlyWhenAllHeld

-----------------------------------------------------------------------------
(* The public half in the handle *)

\* A handle's pub is empty (cleared, or the export failed) or belongs to the key
\* the handle was made for
PubIsMade == \A h \in Handles : handles[h].pub \in {NoKey, made[h]}

\* pub and the key a handle was made for move together in every step of any
\* application, copies and resets included.
LEMMA PubIsMadeInductive == SafetyInv /\ PubIsMade /\ [Next]_vars => PubIsMade'
  <1> SUFFICES ASSUME SafetyInv, PubIsMade, [Next]_vars PROVE PubIsMade'
    OBVIOUS
  <1>0. TypeOK /\ CoreInv /\ LibraryBalanced
    BY DEF SafetyInv, CoreInv
  <1>1. ASSUME UNCHANGED <<handles, made>> PROVE PubIsMade'
    BY <1>1 DEF PubIsMade
  <1>2. ASSUME NEW h \in Handles, Clear(h) PROVE PubIsMade'
    BY <1>0, <1>2 DEF PubIsMade, Clear, NoHandle, TypeOK
  <1>3. ASSUME NEW e \in Engines, Begin(e) \/ end(e) PROVE PubIsMade'
    BY <1>0, <1>1, <1>3, BeginEffect, EndEffect DEF LifeMove
  <1>4. ASSUME NEW e \in Engines, UseKey(e) PROVE PubIsMade'
    BY <1>0, <1>1, <1>4, UseKeyEffect DEF Unmoved
  <1>5. ASSUME NEW e \in Engines, NEW h \in HandlePtrs, MakeKey(e, h) PROVE PubIsMade'
    <2>1. MakeKeyMove(h)
      BY <1>0, <1>5, MakeKeyEffect
    <2>2. ASSUME h \in Handles, NEW s \in Slots, NEW k \in Key, SlotFilled(h, s, k)
          PROVE  PubIsMade'
      BY <1>0, <2>2 DEF SlotFilled, PubIsMade, TypeOK
    <2> QED
      BY <1>1, <1>2, <2>1, <2>2 DEF MakeKeyMove, Unmoved, HandleDropped, SlotSpoilt
  <1>6. ASSUME NEW e \in Engines, NEW h \in HandlePtrs, rsaReleaseKeyPair(e, h)
        PROVE  PubIsMade'
    <2>1. Unmoved \/ (h \in Handles /\ Clear(h))
      BY <1>0, <1>6, ReleaseEffect DEF Valid, NamesSlot, HandleDropped
    <2> QED BY <1>1, <1>2, <2>1 DEF Unmoved
  <1>7. ASSUME AppStep PROVE PubIsMade'
    <2>1. ASSUME NEW h \in Handles, NEW g \in Handles, CopyHandle(h, g) PROVE PubIsMade'
      BY <1>0, <2>1 DEF CopyHandle, PubIsMade, TypeOK
    <2> QED BY <1>2, <1>7, <2>1 DEF AppStep, reset
  <1>8. ASSUME UNCHANGED vars PROVE PubIsMade'
    BY <1>1, <1>8 DEF vars
  <1> QED
    BY <1>3, <1>4, <1>5, <1>6, <1>7, <1>8, StepCases

\* For an application that follows the documented protocol, the public half a
\* handle carries (CryptoTypes.h 67-68) is that of the private key in its slot:
\* a peer given the handle's pub can verify what the handle signs.
THEOREM CarefulPublicHalf == CarefulSpec => []PubIsSlotsPublicHalf
  <1>1. Init => PubIsMade
    BY DEF Init, PubIsMade, NoHandle
  <1>2. CarefulInv /\ PubIsMade /\ [CarefulNext]_vars => PubIsMade'
    BY PubIsMadeInductive, CarefulIsNext DEF CarefulInv
  <1>3. CarefulInv /\ PubIsMade => PubIsSlotsPublicHalf
    <2> SUFFICES ASSUME CarefulInv, PubIsMade, NEW h \in Handles,
                        rsaSlotValid(handles[h].slot), handles[h].pub # NoKey
                 PROVE  slots[handles[h].slot].key = handles[h].pub
      BY DEF PubIsSlotsPublicHalf
    <2>1. Valid(h)
      BY DEF rsaSlotValid, Valid, Slots, kRsaInvalidSlot
    <2> QED BY <2>1 DEF CarefulInv, HandlesOwnSlots, PubIsMade
  <1> QED
    BY <1>1, <1>2, <1>3, CarefulInit, CarefulInductive, PTL DEF CarefulSpec

-----------------------------------------------------------------------------
(* The self test *)

\* The steps of the RSA test in which `key' holds a slot
HoldsKey == {"sign", "verify", "tampered", "export", "verifyPub", "release"}
RsaSteps == {"generate", "again", "releaseAgain"} \cup HoldsKey

\* The handle of the slot the RSA test holds
Held == CASE test.step \in HoldsKey -> {KeyVar}
          [] test.step = "releaseAgain" -> {AgainVar}
          [] OTHER -> {}

Fields == {"at", "step", "engine", "ok", "sig", "pub", "faults", "wrong", "found", "leaked"}

TestTypes ==
  /\ Fields \subseteq DOMAIN test
  /\ test.step \in {"idle", "test", "done"} \cup RsaSteps
  /\ test.step # "idle" => test.engine \in Engines
  /\ test.step \in RsaSteps \cup {"test"} => test.at \in 1..Len(Script)
  /\ test.step = "test" => Script[test.at] # "rsa"
  /\ test.sig \in Key \cup {NoKey} /\ test.pub \in Key \cup {NoKey}
  /\ report.failed \in Nat

\* The slots that are taken are those taken in f, untouched, those of lk and those
\* of hs, which are not the others
Accounted(f, lk, hs) ==
  /\ \A s \in Taken(f) : slots[s] = f[s]
  /\ Taken(slots) = Taken(f) \cup lk \cup hs
  /\ hs \cap (Taken(f) \cup lk) = {}

\* The slots that are taken are those the self test found taken, untouched, the one
\* the RSA test holds, and those a failed rsaGenerate left behind, which is reported
SlotsAccounted ==
  test.step # "idle" =>
    /\ Accounted(test.found, test.leaked, {handles[h].slot : h \in Held})
    /\ \A h \in Held : backend[test.engine] = "CC310" /\ NamesSlot(h)
    /\ test.leaked # {} => report.failed > 0

\* What went wrong is in the report, or about to be: a good signature rejected is
\* put down after the tampered one was tried
WrongCounts ==
  /\ test.wrong => report.failed > 0 \/ (test.step = "tampered" /\ ~test.ok)
  /\ test.step # "idle" /\ ~(test.step = "test" /\ test.at = 1)
       /\ backend[test.engine] = "none" => report.failed > 0

STInv == SafetyInv /\ TestTypes /\ SlotsAccounted /\ WrongCounts

USE LocalAssumption

-----------------------------------------------------------------------------
(* The tests that are one step *)

\* A wrong result is a failure in the report
Sound(r) == r.verdict.failed \in Nat /\ (r.wrong => r.verdict.failed > 0)

\* What one test, or two, add to the count of failures.
LEMMA FailCounts ==
  /\ \A ok \in BOOLEAN : reportPassFail(ok).failed = IF ok THEN 0 ELSE 1
  /\ reportSkip.failed = 0 /\ PairSkip.failed = 0
  /\ \A r, v : Plus(r, v).failed = r.failed + v.failed
  BY DEF reportPassFail, reportSkip, PairSkip, Plus, Tally

\* A verdict that fails whenever the result is wrong
Honest(v, wrong) == v.failed \in Nat /\ (wrong => v.failed > 0)

\* It makes the result sound.
LEMMA SoundResult ==
  ASSUME NEW v, NEW calls, NEW wrong, Honest(v, wrong)
  PROVE  Sound(Result(v, calls, wrong))
  BY DEF Sound, Result, Honest

\* SHA-256, HMAC and random.
LEMMA StrictSound ==
  ASSUME NEW api, NEW r \in Strict(api)
  PROVE  Sound(r)
  <1> DEFINE V(s, eq) ==
               reportPassFail(s = "Ok" /\ eq)
             W(s, eq) == s = "Ok" /\ ~eq
             F(s, eq) == Result(V(s, eq), {s}, W(s, eq))
  <1>1. ASSUME NEW s, NEW eq \in BOOLEAN
        PROVE  Honest(V(s, eq), W(s, eq))
    BY DEF Honest, reportPassFail, Tally
  <1> HIDE DEF V, W
  <1>2. \A s \in St(api), eq \in BOOLEAN : Sound(F(s, eq))
    BY <1>1, SoundResult
  <1>3. Strict(api) =
          {F(s, eq) :
             s \in St(api), eq \in BOOLEAN}
    BY DEF Strict, V, W
  <1> HIDE DEF F
  <1> QED BY <1>2, <1>3

\* SHA-512, SHA-384 and HKDF.
LEMMA LenientSound ==
  ASSUME NEW api, NEW r \in Lenient(api)
  PROVE  Sound(r)
  <1> DEFINE V(s, eq) ==
               IF s = "Unsupported" THEN reportSkip ELSE reportPassFail(s = "Ok" /\ eq)
             W(s, eq) == s = "Ok" /\ ~eq
             F(s, eq) == Result(V(s, eq), {s}, W(s, eq))
  <1>1. ASSUME NEW s, NEW eq \in BOOLEAN
        PROVE  Honest(V(s, eq), W(s, eq))
    BY DEF Honest, reportPassFail, reportSkip, Tally
  <1> HIDE DEF V, W
  <1>2. \A s \in St(api), eq \in BOOLEAN : Sound(F(s, eq))
    BY <1>1, SoundResult
  <1>3. Lenient(api) =
          {F(s, eq) :
             s \in St(api), eq \in BOOLEAN}
    BY DEF Lenient, V, W
  <1> HIDE DEF F
  <1> QED BY <1>2, <1>3

\* AES-CTR.
LEMMA CtrSound ==
  ASSUME NEW r \in Ctr
  PROVE  Sound(r)
  <1> DEFINE V(s, eq) ==
               IF s = "Ok" THEN reportPassFail(eq) ELSE reportSkip
             W(s, eq) == s = "Ok" /\ ~eq
             F(s, eq) == Result(V(s, eq), {s}, W(s, eq))
  <1>1. ASSUME NEW s, NEW eq \in BOOLEAN
        PROVE  Honest(V(s, eq), W(s, eq))
    BY DEF Honest, reportPassFail, reportSkip, Tally
  <1> HIDE DEF V, W
  <1>2. \A s \in St("aesCtr"), eq \in BOOLEAN : Sound(F(s, eq))
    BY <1>1, SoundResult
  <1>3. Ctr =
          {F(s, eq) :
             s \in St("aesCtr"), eq \in BOOLEAN}
    BY DEF Ctr, V, W
  <1> HIDE DEF F
  <1> QED BY <1>2, <1>3

\* AES-CBC.
LEMMA CbcSound ==
  ASSUME NEW r \in Cbc
  PROVE  Sound(r)
  <1> DEFINE V(se, sd, eqE, eqD) ==
               IF se # "Ok" THEN reportSkip
               ELSE Plus(reportPassFail(eqE),
                         IF sd = "Ok" THEN reportPassFail(eqD) ELSE reportSkip)
             W(se, sd, eqE, eqD) == se = "Ok" /\ (~eqE \/ (sd = "Ok" /\ ~eqD))
             F(se, sd, eqE, eqD) == Result(V(se, sd, eqE, eqD),
               IF se # "Ok" THEN {se} ELSE {se, sd},
               W(se, sd, eqE, eqD))
  <1>1. ASSUME NEW se, NEW sd, NEW eqE \in BOOLEAN, NEW eqD \in BOOLEAN
        PROVE  Honest(V(se, sd, eqE, eqD), W(se, sd, eqE, eqD))
    BY DEF Honest, reportPassFail, reportSkip, Plus, Tally
  <1> HIDE DEF V, W
  <1>2. \A se \in St("aesCbcEncrypt"), sd \in St("aesCbcDecrypt"), eqE \in BOOLEAN,
           eqD \in BOOLEAN :
           Sound(F(se, sd, eqE, eqD))
    BY <1>1, SoundResult
  <1>3. Cbc =
          {F(se, sd, eqE, eqD) :
             se \in St("aesCbcEncrypt"), sd \in St("aesCbcDecrypt"), eqE \in BOOLEAN,
             eqD \in BOOLEAN}
    BY DEF Cbc, V, W
  <1> HIDE DEF F
  <1> QED BY <1>2, <1>3

\* AES-GCM and ChaCha20-Poly1305.
LEMMA AeadSound ==
  ASSUME NEW enc, NEW dec, NEW r \in Aead(enc, dec)
  PROVE  Sound(r)
  <1> DEFINE V(se, sd, eqE, eqD) ==
               IF se # "Ok" THEN PairSkip
               ELSE Plus(reportPassFail(eqE), reportPassFail(sd = "Ok" /\ eqD))
             W(se, sd, eqE, eqD) == se = "Ok" /\ (~eqE \/ sd = "AuthFailed" \/ (sd = "Ok" /\ ~eqD))
             F(se, sd, eqE, eqD) == Result(V(se, sd, eqE, eqD),
               IF se # "Ok" THEN {se} ELSE {se, sd},
               W(se, sd, eqE, eqD))
  <1>1. ASSUME NEW se, NEW sd, NEW eqE \in BOOLEAN, NEW eqD \in BOOLEAN
        PROVE  Honest(V(se, sd, eqE, eqD), W(se, sd, eqE, eqD))
    BY DEF Honest, reportPassFail, reportSkip, PairSkip, Plus, Tally
  <1> HIDE DEF V, W
  <1>2. \A se \in St(enc), sd \in St(dec), eqE \in BOOLEAN, eqD \in BOOLEAN :
           Sound(F(se, sd, eqE, eqD))
    BY <1>1, SoundResult
  <1>3. Aead(enc, dec) =
          {F(se, sd, eqE, eqD) :
             se \in St(enc), sd \in St(dec), eqE \in BOOLEAN, eqD \in BOOLEAN}
    BY DEF Aead, V, W
  <1> HIDE DEF F
  <1> QED BY <1>2, <1>3

\* ECDSA and Ed25519 of a fresh key.
LEMMA RoundTripSound ==
  ASSUME NEW hash, NEW gen, NEW sign, NEW verify,
         NEW r \in RoundTrip(hash, gen, sign, verify)
  PROVE  Sound(r)
  <1> DEFINE V(sh, sg, ss, v1, v2) ==
               IF sg # "Ok" \/ ss # "Ok" THEN reportSkip
               ELSE reportPassFail(GoodAndRejects(v1 = "Ok", v2 # "Ok"))
             W(sh, sg, ss, v1, v2) == sg = "Ok" /\ ss = "Ok" /\ (v1 = "AuthFailed" \/ v2 = "Ok")
             F(sh, sg, ss, v1, v2) == Result(V(sh, sg, ss, v1, v2),
               IF sg # "Ok" THEN {sg} ELSE IF ss # "Ok" THEN {sg, sh, ss} ELSE {sg, sh, ss, v1},
               W(sh, sg, ss, v1, v2))
  <1>1. ASSUME NEW sh, NEW sg, NEW ss, NEW v1, NEW v2
        PROVE  Honest(V(sh, sg, ss, v1, v2), W(sh, sg, ss, v1, v2))
    BY DEF Honest, reportPassFail, reportSkip, GoodAndRejects, Tally
  <1> HIDE DEF V, W
  <1>2. \A sh \in hash, sg \in St(gen), ss \in St(sign), v1 \in St(verify),
           v2 \in St(verify) :
           Sound(F(sh, sg, ss, v1, v2))
    BY <1>1, SoundResult
  <1>3. RoundTrip(hash, gen, sign, verify) =
          {F(sh, sg, ss, v1, v2) :
             sh \in hash, sg \in St(gen), ss \in St(sign), v1 \in St(verify), v2 \in St(verify)}
    BY DEF RoundTrip, V, W
  <1> HIDE DEF F
  <1> QED BY <1>2, <1>3

\* EcdsaMessage and Ed25519Message.
LEMMA MessageTestSound ==
  ASSUME NEW gen, NEW sign, NEW verify, NEW r \in MessageTest(gen, sign, verify)
  PROVE  Sound(r)
  <1> DEFINE V(sg, ss, sv) ==
               IF sg # "Ok" THEN reportSkip ELSE reportPassFail(ss = "Ok" /\ sv = "Ok")
             W(sg, ss, sv) == sg = "Ok" /\ ss = "Ok" /\ sv = "AuthFailed"
             F(sg, ss, sv) == Result(V(sg, ss, sv),
               IF sg # "Ok" THEN {sg} ELSE IF ss # "Ok" THEN {sg, ss} ELSE {sg, ss, sv},
               W(sg, ss, sv))
  <1>1. ASSUME NEW sg, NEW ss, NEW sv
        PROVE  Honest(V(sg, ss, sv), W(sg, ss, sv))
    BY DEF Honest, reportPassFail, reportSkip, Tally
  <1> HIDE DEF V, W
  <1>2. \A sg \in St(gen), ss \in St(sign), sv \in St(verify) : Sound(F(sg, ss, sv))
    BY <1>1, SoundResult
  <1>3. MessageTest(gen, sign, verify) =
          {F(sg, ss, sv) :
             sg \in St(gen), ss \in St(sign), sv \in St(verify)}
    BY DEF MessageTest, V, W
  <1> HIDE DEF F
  <1> QED BY <1>2, <1>3

\* ECDH and X25519.
LEMMA AgreementSound ==
  ASSUME NEW gen, NEW shared, NEW r \in Agreement(gen, shared)
  PROVE  Sound(r)
  <1> DEFINE V(s1, s2, r1, r2, eq) ==
               IF {s1, s2} # {"Ok"} \/ {r1, r2} # {"Ok"} THEN reportSkip ELSE reportPassFail(eq)
             W(s1, s2, r1, r2, eq) == {s1, s2, r1, r2} = {"Ok"} /\ ~eq
             F(s1, s2, r1, r2, eq) == Result(V(s1, s2, r1, r2, eq),
               IF {s1, s2} # {"Ok"} THEN {s1, s2} ELSE {s1, s2, r1, r2},
               W(s1, s2, r1, r2, eq))
  <1>1. ASSUME NEW s1, NEW s2, NEW r1, NEW r2, NEW eq \in BOOLEAN
        PROVE  Honest(V(s1, s2, r1, r2, eq), W(s1, s2, r1, r2, eq))
    BY DEF Honest, reportPassFail, reportSkip, Tally
  <1> HIDE DEF V, W
  <1>2. \A s1 \in St(gen), s2 \in St(gen), r1 \in St(shared), r2 \in St(shared),
           eq \in BOOLEAN :
           Sound(F(s1, s2, r1, r2, eq))
    BY <1>1, SoundResult
  <1>3. Agreement(gen, shared) =
          {F(s1, s2, r1, r2, eq) :
             s1 \in St(gen), s2 \in St(gen), r1 \in St(shared), r2 \in St(shared),
             eq \in BOOLEAN}
    BY DEF Agreement, V, W
  <1> HIDE DEF F
  <1> QED BY <1>2, <1>3

\* Ed25519 against the vector of RFC 8032.
LEMMA VectorSound ==
  ASSUME NEW r \in Ed25519Vector
  PROVE  Sound(r)
  <1> DEFINE V(ds, kat, ss, sv, pk, eq) ==
               IF ds = "Unsupported" THEN reportSkip
               ELSE reportPassFail(ds = "Ok" /\ pk /\ kat = "Ok" /\ ss = "Ok" /\ eq /\ sv = "Ok")
             W(ds, kat, ss, sv, pk, eq) ==
               ds = "Ok" /\ (~pk \/ kat = "AuthFailed"
                             \/ (ss = "Ok" /\ (~eq \/ sv = "AuthFailed")))
             F(ds, kat, ss, sv, pk, eq) == Result(V(ds, kat, ss, sv, pk, eq),
                 IF ds # "Ok" THEN {ds} ELSE IF ss # "Ok" \/ ~eq THEN {ds, kat, ss}
                 ELSE {ds, kat, ss, sv}, W(ds, kat, ss, sv, pk, eq))
  <1>1. ASSUME NEW ds, NEW kat, NEW ss, NEW sv, NEW pk \in BOOLEAN, NEW eq \in BOOLEAN
        PROVE  Honest(V(ds, kat, ss, sv, pk, eq), W(ds, kat, ss, sv, pk, eq))
    BY DEF Honest, reportPassFail, reportSkip, Tally
  <1> HIDE DEF V, W
  <1>2. \A ds \in St("ed25519DeriveFromSeed"), kat \in St("ed25519Verify"),
           ss \in St("ed25519Sign"), sv \in St("ed25519Verify"), pk \in BOOLEAN,
           eq \in BOOLEAN :
           Sound(F(ds, kat, ss, sv, pk, eq))
    BY <1>1, SoundResult
  <1>3. Ed25519Vector =
          {F(ds, kat, ss, sv, pk, eq) :
             ds \in St("ed25519DeriveFromSeed"), kat \in St("ed25519Verify"),
             ss \in St("ed25519Sign"), sv \in St("ed25519Verify"), pk \in BOOLEAN,
             eq \in BOOLEAN}
    BY DEF Ed25519Vector, V, W
  <1> HIDE DEF F
  <1> QED BY <1>2, <1>3

\* Every test that is one step is sound.
LEMMA ResultsSound ==
  ASSUME NEW i \in 1..Len(Script), Script[i] # "rsa", NEW r \in Results(Script[i])
  PROVE  Sound(r)
  <1>1. PICK name : name = Script[i]
    OBVIOUS
  <1>2. name \in {"sha256", "sha512", "sha384", "hkdf", "hmac", "cbc", "ctr", "gcm", "chacha",
                  "ecdsa", "ecdsaMessage", "ecdh", "x25519", "edVector", "ed25519",
                  "edMessage", "random"}
    BY <1>1 DEF Script
  <1>3. r \in Results(name)
    BY <1>1
  <1>4. CASE name \in {"sha256", "hmac", "random"}
    BY <1>3, <1>4, StrictSound DEF Results
  <1>5. CASE name \in {"sha512", "sha384", "hkdf"}
    BY <1>3, <1>5, LenientSound DEF Results
  <1>6. CASE name \in {"cbc", "ctr", "gcm", "chacha", "edVector"}
    BY <1>3, <1>6, CbcSound, CtrSound, AeadSound, VectorSound DEF Results
  <1>7. CASE name \in {"ecdsa", "ed25519"}
    BY <1>3, <1>7, RoundTripSound DEF Results
  <1>8. CASE name \in {"ecdsaMessage", "edMessage", "ecdh", "x25519"}
    BY <1>3, <1>8, MessageTestSound, AgreementSound DEF Results
  <1> QED BY <1>2, <1>4, <1>5, <1>6, <1>7, <1>8

\* Without a backend the first test fails.
LEMMA FirstTestFails ==
  ASSUME backend[test.engine] = "none", NEW r \in Results("sha256")
  PROVE  r.verdict.failed > 0
  <1>1. St("sha256") = {"NotStarted"}
    <2>1. API!Answers(test.engine, "sha256", API!GoodArgs) =
            {[st |-> "NotStarted", run |-> FALSE]}
      BY DEF API!Answers, API!Streams, API!Answer
    <2>2. {a.st : a \in {[st |-> "NotStarted", run |-> FALSE]}} = {"NotStarted"}
      OBVIOUS
    <2> QED BY <2>1, <2>2 DEF St
  <1> DEFINE F(s, eq) == Result(reportPassFail(s = "Ok" /\ eq), {s}, s = "Ok" /\ ~eq)
  <1>2. \A eq \in BOOLEAN : F("NotStarted", eq).verdict.failed > 0
    BY DEF Result, reportPassFail, Tally
  <1>3. Strict("sha256") = {F(s, eq) : s \in St("sha256"), eq \in BOOLEAN}
    BY DEF Strict
  <1> HIDE DEF F
  <1>4. r \in Strict("sha256")
    BY DEF Results
  <1> QED BY <1>1, <1>2, <1>3, <1>4

-----------------------------------------------------------------------------
(* The self test is an application of the key store *)

\* Whose signature it was is known.
LEMMA OwnKnown == \A k : OwnOf(k) \in BOOLEAN
  BY DEF OwnOf

\* The calls of the RSA test that use a key.
LEMMA UseSteps ==
  ASSUME TestTypes
  PROVE  /\ RsaSign => UseKey(test.engine)
         /\ RsaVerify => UseKey(test.engine)
         /\ RsaVerifyTampered => UseKey(test.engine)
         /\ RsaExport => UseKey(test.engine)
         /\ RsaVerifyPub => UseKey(test.engine)
  <1>0. KeyVar \in HandlePtrs /\ "ok" \in MsgArgs
    BY DEF HandlePtrs, MsgArgs
  <1>1. RsaSign => UseKey(test.engine)
    BY <1>0 DEF RsaSign, UseKey
  <1>2. ASSUME RsaVerify PROVE UseKey(test.engine)
    <2>1. PICK own \in BOOLEAN : own = OwnOf(slots[handles[KeyVar].slot].key)
      BY OwnKnown
    <2>2. rsaVerifyWithKeyPair(test.engine, KeyVar, "ok", own)
      BY <1>2, <2>1 DEF RsaVerify
    <2> QED BY <1>0, <2>2 DEF UseKey
  <1>3. RsaVerifyTampered => UseKey(test.engine)
    BY <1>0 DEF RsaVerifyTampered, UseKey
  <1>4. RsaExport => UseKey(test.engine)
    BY <1>0 DEF RsaExport, UseKey
  <1>5. ASSUME RsaVerifyPub PROVE UseKey(test.engine)
    <2>1. PICK own \in BOOLEAN : own = OwnOf(test.pub)
      BY OwnKnown
    <2>2. rsaVerifyWithPublicKey(test.engine, test.pub, FALSE, "ok", own)
      BY <1>5, <2>1 DEF RsaVerifyPub
    <2>3. test.pub \in Key \cup {NoKey}
      BY DEF TestTypes
    <2> QED BY <1>0, <2>2, <2>3 DEF UseKey
  <1> QED BY <1>1, <1>2, <1>3, <1>4, <1>5

\* A step of the self test is a step of an application.
LEMMA STStepIsNext == TestTypes /\ [STNext]_testVars => [Next]_vars
  <1> SUFFICES ASSUME TestTypes, [STNext]_testVars PROVE [Next]_vars
    OBVIOUS
  <1>1. keyVars' = keyVars => vars' = vars
    BY DEF keyVars, vars, life
  <1>2. HandlePtrs = Handles \cup {NullPtr} /\ {KeyVar, AgainVar} \subseteq HandlePtrs
    BY DEF HandlePtrs
  <1>3. ASSUME NEW e \in Engines, App(e) PROVE Next
    <2>1. AppHandles \subseteq HandlePtrs
      BY DEF AppHandles, HandlePtrs
    <2> QED BY <1>3, <2>1 DEF App, Next
  <1>4. ASSUME test.step \in RsaSteps, NEW h \in HandlePtrs,
               MakeKey(test.engine, h) \/ rsaReleaseKeyPair(test.engine, h)
                 \/ UseKey(test.engine)
        PROVE  Next
    <2>1. test.engine \in Engines
      BY <1>4 DEF TestTypes, RsaSteps, HoldsKey
    <2> QED BY <1>4, <2>1 DEF Next
  <1>5. ASSUME RsaSign \/ RsaVerify \/ RsaVerifyTampered \/ RsaExport \/ RsaVerifyPub
        PROVE  Next
    <2>1. test.step \in RsaSteps
      BY <1>5 DEF RsaSign, RsaVerify, RsaVerifyTampered, RsaExport, RsaVerifyPub, RsaSteps,
                  HoldsKey
    <2>2. UseKey(test.engine)
      BY <1>5, UseSteps
    <2> QED BY <1>2, <1>4, <2>1, <2>2
  <1>6. ASSUME RsaGenerate \/ RsaAgain \/ RsaRelease \/ RsaReleaseAgain PROVE Next
    <2>1. test.step \in RsaSteps
      BY <1>6 DEF RsaGenerate, RsaAgain, RsaRelease, RsaReleaseAgain, RsaSteps, HoldsKey
    <2>2. \E h \in HandlePtrs :
            MakeKey(test.engine, h) \/ rsaReleaseKeyPair(test.engine, h)
      BY <1>2, <1>6 DEF RsaGenerate, RsaAgain, RsaRelease, RsaReleaseAgain, MakeKey
    <2> QED BY <1>4, <2>1, <2>2
  <1>7. RunTest \/ (\E e \in Engines : Start(e)) \/ UNCHANGED testVars => UNCHANGED keyVars
    BY DEF RunTest, Start, testVars
  <1> QED BY <1>1, <1>3, <1>5, <1>6, <1>7 DEF STNext

-----------------------------------------------------------------------------
(* How a step moves the local variables of the self test *)

\* The local variables still make sense, and engine and slots found are remembered
Onward(t) ==
  /\ Fields \subseteq DOMAIN t
  /\ t.step \in {"test", "done"} \cup RsaSteps
  /\ t.step \in RsaSteps \cup {"test"} => t.at \in 1..Len(Script)
  /\ t.step = "test" => Script[t.at] # "rsa" /\ t.at # 1
  /\ t.engine = test.engine /\ t.found = test.found
  /\ t.sig \in Key \cup {NoKey} /\ t.pub \in Key \cup {NoKey}

\* The number of tests, and where RSA's is.
LEMMA ScriptShape == Len(Script) = 18 /\ Script[1] = "sha256"
  BY DEF Script

\* Going to the next test moves nothing but the place in the script.
LEMMA GotoEffect ==
  ASSUME NEW t, Fields \subseteq DOMAIN t, t.at \in 1..Len(Script),
         NEW g, g = Goto(t)
  PROVE  /\ Fields \subseteq DOMAIN g
         /\ g.engine = t.engine /\ g.ok = t.ok /\ g.sig = t.sig /\ g.pub = t.pub
         /\ g.wrong = t.wrong /\ g.found = t.found /\ g.leaked = t.leaked
         /\ g.step \in {"test", "done", "generate"}
         /\ g.step # "done" => g.at \in 2..Len(Script)
         /\ g.step = "test" => Script[g.at] # "rsa"
  <1>1. CASE t.at = Len(Script)
    BY <1>1 DEF Goto, Fields
  <1>2. CASE t.at # Len(Script)
    <2>1. t.at + 1 \in 2..Len(Script)
      BY <1>2, ScriptShape
    <2>2. PICK n : n = t.at + 1
      OBVIOUS
    <2>3. g = [t EXCEPT !.at = n, !.step = IF Script[n] = "rsa" THEN "generate" ELSE "test"]
      BY <1>2, <2>2 DEF Goto
    <2> QED BY <2>1, <2>2, <2>3 DEF Fields
  <1> QED BY <1>1, <1>2

\* The bookkeeping of an RSA step adds to the ghosts only.
LEMMA NotingEffect ==
  ASSUME NEW t, Fields \subseteq DOMAIN t, Noting(t)
  PROVE  /\ Fields \subseteq DOMAIN test'
         /\ test'.at = t.at /\ test'.step = t.step /\ test'.engine = t.engine
         /\ test'.ok = t.ok /\ test'.sig = t.sig /\ test'.pub = t.pub
         /\ test'.wrong = t.wrong /\ test'.found = t.found
         /\ test'.leaked = t.leaked \cup Leak
  <1>1. PICK n, lk : n = test.faults + Met /\ lk = Leak
    OBVIOUS
  <1>2. test' = [t EXCEPT !.faults = t.faults + Met, !.leaked = t.leaked \cup lk]
    BY <1>1 DEF Noting
  <1> QED BY <1>1, <1>2 DEF Fields

-----------------------------------------------------------------------------
(* How a step moves the slots *)

\* A slot that was free is taken: by the RSA test or left behind.
LEMMA SlotTaken ==
  ASSUME NEW f, NEW lk, NEW s \in Slots, NEW k,
         slots \in [Slots -> [key : Key \cup {NoKey, Residue}, ready : BOOLEAN]],
         Accounted(f, lk, {}), ~slots[s].ready,
         slots' = [slots EXCEPT ![s] = [key |-> k, ready |-> TRUE]]
  PROVE  Accounted(f, lk, {s})' /\ Accounted(f, lk \cup {s}, {})'
  <1>1. Taken(slots') = Taken(slots) \cup {s}
    BY DEF Taken
  <1>2. s \notin Taken(slots) /\ \A x \in Taken(slots) : slots'[x] = slots[x]
    BY DEF Taken
  <1>3. Taken(slots) = Taken(f) \cup lk
    BY DEF Accounted
  <1>4. \A x \in Taken(f) : slots'[x] = f[x]
    BY <1>2, <1>3 DEF Accounted
  <1> QED BY <1>1, <1>2, <1>3, <1>4 DEF Accounted

\* A slot that was free stays free, whatever is left in it.
LEMMA SlotLeftFree ==
  ASSUME NEW f, NEW lk, NEW hs, NEW s \in Slots, NEW k,
         slots \in [Slots -> [key : Key \cup {NoKey, Residue}, ready : BOOLEAN]],
         Accounted(f, lk, hs), ~slots[s].ready,
         slots' = [slots EXCEPT ![s] = [key |-> k, ready |-> FALSE]]
  PROVE  Accounted(f, lk, hs)'
  <1>1. Taken(slots') = Taken(slots)
    BY DEF Taken
  <1>2. \A x \in Taken(slots) : slots'[x] = slots[x]
    BY DEF Taken
  <1>3. Taken(slots) = Taken(f) \cup lk \cup hs
    BY DEF Accounted
  <1>4. \A x \in Taken(f) : slots'[x] = f[x]
    BY <1>2, <1>3 DEF Accounted
  <1> QED BY <1>1, <1>3, <1>4 DEF Accounted

\* The slot the RSA test holds is released.
LEMMA SlotReleased ==
  ASSUME NEW f, NEW lk, NEW s \in Slots,
         slots \in [Slots -> [key : Key \cup {NoKey, Residue}, ready : BOOLEAN]],
         Accounted(f, lk, {s}), slots' = rsaFreeSlot(s)
  PROVE  Accounted(f, lk, {})'
  <1>1. Taken(slots') = Taken(slots) \ {s}
    BY DEF Taken, rsaFreeSlot, BlankSlot
  <1>2. \A x \in Slots \ {s} : slots'[x] = slots[x]
    BY DEF rsaFreeSlot
  <1>3. Taken(slots) = Taken(f) \cup lk \cup {s} /\ s \notin Taken(f) \cup lk
    BY DEF Accounted
  <1>4. Taken(f) \subseteq Slots
    BY DEF Taken
  <1>5. \A x \in Taken(f) : slots'[x] = f[x]
    BY <1>2, <1>3, <1>4 DEF Accounted
  <1> QED BY <1>1, <1>3, <1>5 DEF Accounted

\* What rsaGenerate does for the RSA test: it takes a free slot and names it in the
\* handle, with or without an error, or it fails and takes none
Takes(h, s) ==
  /\ s \in Slots /\ ~slots[s].ready
  /\ \E k \in Key : slots' = [slots EXCEPT ![s] = [key |-> k, ready |-> TRUE]]
  /\ handles'[h].slot = s
TakesNone ==
  \/ UNCHANGED slots
  \/ \E s \in Slots, k \in Key \cup {NoKey, Residue} :
       ~slots[s].ready /\ slots' = [slots EXCEPT ![s] = [key |-> k, ready |-> FALSE]]

\* The end of a rsaGenerate that made a key.
LEMMA InstallTakes ==
  ASSUME TypeOK, NEW h \in Handles, NEW s \in Slots, NEW k \in Key, rsaAllocSlot(s),
         InstallKey("rsaGenerate", h, s, k)
  PROVE  Takes(h, s) /\ ret'.st \in {"Ok", "InternalError"} /\ ret'.key # NoKey
  <1>1. PICK crys \in CrysResults :
          /\ slots' = [slots EXCEPT ![s] = [key |-> k, ready |-> TRUE]]
          /\ handles' = [handles EXCEPT ![h] =
                           [slot |-> s, pub |-> IF crys = CRYS_OK THEN k ELSE NoKey]]
          /\ Return("rsaGenerate", IF crys = CRYS_OK THEN "Ok" ELSE "InternalError", crys, k)
    BY DEF InstallKey
  <1>2. k # NoKey
    BY KeyAssumption DEF Key, NoKey
  <1>3. handles'[h].slot = s
    BY <1>1 DEF TypeOK
  <1> QED BY <1>1, <1>2, <1>3 DEF Takes, rsaAllocSlot, Return

\* Every outcome of rsaGenerate.
LEMMA GenerateOutcome ==
  ASSUME CoreInv, NEW e \in Engines, NEW h \in Handles, rsaGenerateKeyPair(e, h)
  PROVE  /\ UNCHANGED life /\ ret'.op = "rsaGenerate"
         /\ \/ /\ ret'.st \in {"Ok", "InternalError"} /\ ret'.key # NoKey
               /\ backend[e] = "CC310" /\ \E s \in Slots : Takes(h, s)
            \/ ret'.st # "Ok" /\ ret'.key = NoKey /\ TakesNone
  <1> DEFINE Goal == /\ UNCHANGED life /\ ret'.op = "rsaGenerate"
                     /\ \/ /\ ret'.st \in {"Ok", "InternalError"} /\ ret'.key # NoKey
                           /\ backend[e] = "CC310" /\ \E s \in Slots : Takes(h, s)
                        \/ ret'.st # "Ok" /\ ret'.key = NoKey /\ TakesNone
  <1>0. TypeOK /\ h # NullPtr
    BY NullAssumption DEF CoreInv
  <1>1. ASSUME NEW st \in {"NotStarted", "Unsupported", "InternalError"},
               UNCHANGED life, GiveUp("rsaGenerate", h, st)
        PROVE  Goal
    BY <1>1 DEF GiveUp, Return, TakesNone
  <1>2. CASE NC_GUARD(e, "rsaGenerate")
    BY <1>2 DEF NC_GUARD, Refuse, Return, TakesNone
  <1>3. CASE backend[e] = "OnChip" /\ GiveUp("rsaGenerate", h, "Unsupported") /\ UNCHANGED life
    BY <1>1, <1>3
  <1>4. CASE backend[e] = "CC310" /\ CC310Generate(h) /\ UNCHANGED life
    <2>1. ASSUME NEW s \in Slots, rsaAllocSlot(s), KeyGenFails(h, s) PROVE Goal
      <3>1. PICK crys \in CrysErrors, left \in {slots[s].key, Residue} :
              /\ slots' = [slots EXCEPT ![s] = [key |-> left, ready |-> FALSE]]
              /\ Return("rsaGenerate", "InternalError", crys, NoKey)
        BY <2>1 DEF KeyGenFails
      <3>2. left \in Key \cup {NoKey, Residue}
        BY <1>0, <3>1 DEF TypeOK
      <3>3. TakesNone
        BY <2>1, <3>1, <3>2 DEF TakesNone, rsaAllocSlot
      <3>4. ret'.st = "InternalError" /\ ret'.key = NoKey /\ ret'.op = "rsaGenerate"
        BY <3>1 DEF Return
      <3> QED BY <1>4, <3>3, <3>4
    <2>2. ASSUME NEW s \in Slots, rsaAllocSlot(s), nextKey <= MaxKeys,
                 InstallKey("rsaGenerate", h, s, nextKey)
          PROVE  Goal
      <3>1. nextKey \in Key
        BY <1>0, <2>2 DEF TypeOK, Key
      <3>2. Takes(h, s) /\ ret'.st \in {"Ok", "InternalError"} /\ ret'.key # NoKey
        BY <1>0, <2>2, <3>1, InstallTakes
      <3>3. ret'.op = "rsaGenerate"
        BY <2>2 DEF InstallKey, Return
      <3> QED BY <1>4, <3>2, <3>3
    <2>3. \/ \E st \in {"NotStarted", "InternalError"} : GiveUp("rsaGenerate", h, st)
          \/ \E s \in Slots : rsaAllocSlot(s) /\ KeyGenFails(h, s)
          \/ \E s \in Slots : rsaAllocSlot(s) /\ nextKey <= MaxKeys
                                /\ InstallKey("rsaGenerate", h, s, nextKey)
      BY <1>4 DEF CC310Generate
    <2> QED BY <1>1, <1>4, <2>1, <2>2, <2>3
  <1> QED BY <1>0, <1>2, <1>3, <1>4 DEF rsaGenerateKeyPair

\* A handle of a live slot is released for good.
LEMMA ReleaseOutcome ==
  ASSUME CoreInv, NEW e \in Engines, NEW h, NamesSlot(h), backend[e] = "CC310",
         rsaReleaseKeyPair(e, h)
  PROVE  /\ UNCHANGED life /\ ret'.op = "rsaRelease" /\ ret'.st = "Ok"
         /\ slots' = rsaFreeSlot(handles[h].slot)
  <1>1. Valid(h)
    BY SlotAssumption DEF NamesSlot, rsaSlotValid, Valid, Slots, kRsaInvalidSlot
  <1>2. CC310Release(h)
    BY <1>1 DEF rsaReleaseKeyPair, NC_GUARD
  <1> QED BY <1>2 DEF CC310Release, Return

-----------------------------------------------------------------------------
(* What every step of the RSA test keeps *)

\* The part of the invariant the key store's own does not give
RunInv == TestTypes /\ SlotsAccounted /\ WrongCounts

\* The report only grows, and has what went wrong
Reported ==
  /\ report'.failed \in Nat /\ report'.failed >= report.failed
  /\ test'.wrong => report'.failed > 0 \/ (test'.step = "tampered" /\ ~test'.ok)

\* Verdicts are added to the report.
LEMMA AddEffect ==
  ASSUME report.failed \in Nat, NEW v, v.failed \in Nat, Add(v)
  PROVE  report'.failed = report.failed + v.failed /\ report'.failed \in Nat
  BY FailCounts DEF Add

\* A failed test is one failure more.
LEMMA FailureEffect ==
  ASSUME report.failed \in Nat, Add(reportPassFail(FALSE))
  PROVE  report'.failed = report.failed + 1 /\ report'.failed \in Nat
  BY DEF Add, Plus, reportPassFail, Tally

\* A step of the RSA test that keeps the local variables in order and reports what
\* went wrong.
LEMMA StepReported ==
  ASSUME TestTypes, WrongCounts, test.step \in RsaSteps, Onward(test'), Reported,
         UNCHANGED backend
  PROVE  TestTypes' /\ WrongCounts'
  <1>1. TestTypes'
    <2>1. test.engine \in Engines
      BY DEF TestTypes, RsaSteps, HoldsKey
    <2> QED BY <2>1 DEF TestTypes, Onward, Reported
  <1>2. backend[test.engine] = "none" => report.failed > 0
    BY DEF WrongCounts, RsaSteps, HoldsKey
  <1>3. report.failed \in Nat
    BY DEF TestTypes
  <1> QED BY <1>1, <1>2, <1>3 DEF WrongCounts, Onward, Reported

\* A step that leaves the store alone while the RSA test goes on holding its key.
LEMMA StillHeld ==
  ASSUME RunInv, test.step \in HoldsKey, test'.step \in HoldsKey, Unmoved,
         Onward(test'), test'.leaked = test.leaked, Reported
  PROVE  RunInv'
  <1>1. test.step \in RsaSteps /\ test.step # "idle"
    BY DEF RsaSteps, HoldsKey
  <1>2. TestTypes' /\ WrongCounts'
    BY <1>1, StepReported DEF RunInv, Unmoved
  <1>3. Held = {KeyVar} /\ Held' = {KeyVar}
    BY DEF Held, HoldsKey
  <1>4. SlotsAccounted'
    <2>1. PICK f, lk, s : f = test.found /\ lk = test.leaked /\ s = handles[KeyVar].slot
      OBVIOUS
    <2>2. {handles[h].slot : h \in Held} = {s} /\ {handles'[h].slot : h \in Held'} = {s}
      BY <1>3, <2>1 DEF Unmoved
    <2>3. /\ Accounted(f, lk, {s})
          /\ backend[test.engine] = "CC310" /\ NamesSlot(KeyVar)
          /\ lk # {} => report.failed > 0
      BY <1>1, <1>3, <2>1, <2>2 DEF RunInv, SlotsAccounted
    <2>4. Accounted(f, lk, {s})'
      BY <2>3 DEF Accounted, Unmoved
    <2>5. NamesSlot(KeyVar)'
      BY <2>3 DEF NamesSlot, rsaSlotValid, Unmoved
    <2>6. lk # {} => report'.failed > 0
      BY <2>3 DEF Reported, RunInv, TestTypes
    <2>7. test'.found = f /\ test'.leaked = lk /\ backend'[test'.engine] = "CC310"
      BY <2>1, <2>3 DEF Onward, Unmoved
    <2> QED BY <1>3, <2>2, <2>4, <2>5, <2>6, <2>7 DEF SlotsAccounted
  <1> QED BY <1>2, <1>4 DEF RunInv

\* Only rsaGenerate leaves a slot behind.
LEMMA NoLeak == ret'.op # "rsaGenerate" \/ ret'.st = "Ok" \/ ret'.key = NoKey => Leak = {}
  BY DEF Leak

\* The calls that use the key, and their place in the test.
LEMMA UseKeeps ==
  ASSUME CoreInv, RunInv,
         RsaSign \/ RsaVerify \/ RsaVerifyTampered \/ RsaExport \/ RsaVerifyPub
  PROVE  RunInv'
  <1>1. TestTypes /\ report.failed \in Nat
    BY DEF RunInv, TestTypes
  <1>2. test.step \in HoldsKey
    BY DEF RsaSign, RsaVerify, RsaVerifyTampered, RsaExport, RsaVerifyPub, HoldsKey
  <1>3. /\ Fields \subseteq DOMAIN test /\ test.engine \in Engines
        /\ test.at \in 1..Len(Script)
        /\ test.sig \in Key \cup {NoKey} /\ test.pub \in Key \cup {NoKey}
    BY <1>1, <1>2 DEF TestTypes, RsaSteps, HoldsKey
  <1>4. Unmoved /\ ret' \in RetType /\ ret'.op \in UseOps
    BY <1>1, <1>3, UseKeyEffect, UseSteps
  <1>5. Leak = {} /\ ret'.key \in Key \cup {NoKey}
    BY <1>4, NoLeak DEF UseOps, RetType
  <1>6. test.wrong => report.failed > 0 \/ (test.step = "tampered" /\ ~test.ok)
    BY DEF RunInv, WrongCounts
  <1>7. HoldsKey \subseteq RsaSteps
    BY DEF RsaSteps
  <1>8. ASSUME NEW t, Fields \subseteq DOMAIN t, Noting(t), t.at = test.at,
               t.engine = test.engine, t.found = test.found, t.leaked = test.leaked,
               t.step \in HoldsKey,
               t.sig \in Key \cup {NoKey}, t.pub \in Key \cup {NoKey}
        PROVE  /\ Onward(test') /\ test'.leaked = test.leaked
               /\ test'.step = t.step /\ test'.wrong = t.wrong /\ test'.ok = t.ok
    BY <1>3, <1>5, <1>7, <1>8, NotingEffect DEF Onward, HoldsKey
  <1>9. ASSUME Onward(test'), test'.leaked = test.leaked, test'.step \in HoldsKey, Reported
        PROVE  RunInv'
    BY <1>2, <1>4, <1>9, StillHeld
  <1>10. CASE RsaSign
    <2>1. PICK st, key : st = AfterSign(ret'.st) /\ key = ret'.key
      OBVIOUS
    <2>2. PICK t : t = [test EXCEPT !.step = st, !.sig = key]
      OBVIOUS
    <2>3. st \in HoldsKey /\ st # "tampered"
      BY <2>1 DEF AfterSign, HoldsKey
    <2>4. Noting(t)
      BY <1>10, <2>1, <2>2 DEF RsaSign
    <2>5. /\ Onward(test') /\ test'.leaked = test.leaked
          /\ test'.step = st /\ test'.wrong = test.wrong
      <3>1. /\ Fields \subseteq DOMAIN t /\ t.at = test.at /\ t.engine = test.engine
            /\ t.found = test.found /\ t.leaked = test.leaked /\ t.step = st
            /\ t.sig = key /\ t.pub = test.pub /\ t.wrong = test.wrong
        BY <1>3, <2>2 DEF Fields
      <3> QED BY <1>3, <1>5, <1>8, <2>1, <2>3, <2>4, <3>1
    <2>6. Reported
      <3>1. report' = report \/ Add(PairSkip)
        BY <1>10 DEF RsaSign
      <3>2. report'.failed = report.failed
        BY <1>1, <3>1, AddEffect, FailCounts
      <3> QED BY <1>1, <1>6, <1>10, <2>5, <3>2 DEF Reported, RsaSign
    <2> QED BY <1>9, <2>3, <2>5, <2>6
  <1>11. CASE RsaVerify
    <2>2. PICK t : t = [test EXCEPT !.step = "tampered", !.ok = ret'.st = "Ok",
                         !.wrong = @ \/ ret'.st = "AuthFailed"]
      OBVIOUS
    <2>4. Noting(t)
      BY <1>11, <2>2 DEF RsaVerify
    <2>5. /\ Fields \subseteq DOMAIN t /\ t.at = test.at /\ t.engine = test.engine
          /\ t.found = test.found /\ t.leaked = test.leaked /\ t.step = "tampered"
          /\ t.sig = test.sig /\ t.pub = test.pub
      BY <1>3, <2>2 DEF Fields
    <2>6. /\ t.ok <=> (ret'.st = "Ok")
          /\ t.wrong <=> (test.wrong \/ ret'.st = "AuthFailed")
      BY <1>3, <2>2 DEF Fields
    <2>7. /\ Onward(test') /\ test'.leaked = test.leaked
          /\ test'.step = "tampered" /\ test'.wrong = t.wrong /\ test'.ok = t.ok
      BY <1>3, <1>8, <2>4, <2>5 DEF HoldsKey
    <2>8. Reported
      BY <1>1, <1>6, <1>11, <2>6, <2>7 DEF Reported, RsaVerify
    <2> QED BY <1>9, <2>7, <2>8 DEF HoldsKey
  <1>12. CASE RsaVerifyTampered
    <2>1. test' = [test EXCEPT !.step = "export", !.wrong = @ \/ ret'.st = "Ok"]
      BY <1>12 DEF RsaVerifyTampered
    <2>2. /\ Fields \subseteq DOMAIN test' /\ test'.at = test.at /\ test'.engine = test.engine
          /\ test'.found = test.found /\ test'.leaked = test.leaked /\ test'.step = "export"
          /\ test'.sig = test.sig /\ test'.pub = test.pub
      BY <1>3, <2>1 DEF Fields
    <2>3. test'.wrong <=> (test.wrong \/ ret'.st = "Ok")
      BY <1>3, <2>1 DEF Fields
    <2>4. Onward(test')
      BY <1>3, <2>2 DEF Onward, RsaSteps, HoldsKey
    <2>5. PICK good \in BOOLEAN : good <=> GoodAndRejects(test.ok, ret'.st # "Ok")
      BY DEF GoodAndRejects
    <2>6. report'.failed = report.failed + (IF good THEN 0 ELSE 1)
      BY <1>1, <1>12, <2>5, AddEffect, FailCounts
         DEF RsaVerifyTampered, reportPassFail, Tally, Add
    <2>7. Reported
      BY <1>1, <1>6, <2>2, <2>3, <2>5, <2>6 DEF Reported, GoodAndRejects
    <2> QED BY <1>9, <2>2, <2>4, <2>7 DEF HoldsKey
  <1>13. CASE RsaExport
    <2>1. CASE ret'.st = "Ok"
      <3>1. PICK key : key = ret'.key
        OBVIOUS
      <3>2. PICK t : t = [test EXCEPT !.step = "verifyPub", !.pub = key]
        OBVIOUS
      <3>3. Noting(t) /\ report' = report
        BY <1>13, <2>1, <3>1, <3>2 DEF RsaExport
      <3>4. /\ Onward(test') /\ test'.leaked = test.leaked
            /\ test'.step = "verifyPub" /\ test'.wrong = test.wrong
        <4>1. /\ Fields \subseteq DOMAIN t /\ t.at = test.at /\ t.engine = test.engine
              /\ t.found = test.found /\ t.leaked = test.leaked /\ t.step = "verifyPub"
              /\ t.sig = test.sig /\ t.pub = key /\ t.wrong = test.wrong
          BY <1>3, <3>2 DEF Fields
        <4> QED BY <1>3, <1>5, <1>8, <3>1, <3>3, <4>1 DEF HoldsKey
      <3>5. Reported
        BY <1>1, <1>6, <1>13, <3>3, <3>4 DEF Reported, RsaExport
      <3> QED BY <1>9, <3>4, <3>5 DEF HoldsKey
    <2>2. CASE ret'.st # "Ok"
      <3>1. PICK t : t = [test EXCEPT !.step = "release"]
        OBVIOUS
      <3>2. Noting(t) /\ Add(reportPassFail(FALSE))
        BY <1>13, <2>2, <3>1 DEF RsaExport
      <3>3. /\ Onward(test') /\ test'.leaked = test.leaked
            /\ test'.step = "release" /\ test'.wrong = test.wrong
        BY <1>3, <1>8, <3>1, <3>2 DEF Fields, HoldsKey
      <3>4. report'.failed = report.failed + 1
        BY <1>1, <3>2, FailureEffect
      <3>5. Reported
        BY <1>1, <1>6, <3>3, <3>4 DEF Reported
      <3> QED BY <1>9, <3>3, <3>5 DEF HoldsKey
    <2> QED BY <2>1, <2>2
  <1>14. CASE RsaVerifyPub
    <2>1. PICK t : t = [test EXCEPT !.step = "release", !.wrong = @ \/ ret'.st = "AuthFailed"]
      OBVIOUS
    <2>2. Noting(t)
      BY <1>14, <2>1 DEF RsaVerifyPub
    <2>3. /\ Fields \subseteq DOMAIN t /\ t.at = test.at /\ t.engine = test.engine
          /\ t.found = test.found /\ t.leaked = test.leaked /\ t.step = "release"
          /\ t.sig = test.sig /\ t.pub = test.pub
      BY <1>3, <2>1 DEF Fields
    <2>4. t.wrong <=> (test.wrong \/ ret'.st = "AuthFailed")
      BY <1>3, <2>1 DEF Fields
    <2>5. /\ Onward(test') /\ test'.leaked = test.leaked
          /\ test'.step = "release" /\ test'.wrong = t.wrong
      BY <1>3, <1>8, <2>2, <2>3 DEF HoldsKey
    <2>6. PICK good \in BOOLEAN : good <=> (ret'.st = "Ok")
      OBVIOUS
    <2>7. report'.failed = report.failed + (IF good THEN 0 ELSE 1)
      BY <1>1, <1>14, <2>6, AddEffect, FailCounts DEF RsaVerifyPub, reportPassFail, Tally, Add
    <2>8. Reported
      BY <1>1, <1>6, <1>14, <2>4, <2>5, <2>6, <2>7 DEF Reported, RsaVerifyPub
    <2> QED BY <1>9, <2>5, <2>8 DEF HoldsKey
  <1> QED BY <1>10, <1>11, <1>12, <1>13, <1>14

-----------------------------------------------------------------------------
(* The calls of the RSA test that take and give back slots *)

\* With no key held.
LEMMA SettledFree ==
  ASSUME NEW f, NEW lk, Held' = {}, test'.found = f, test'.leaked = lk,
         Accounted(f, lk, {})', lk # {} => report'.failed > 0
  PROVE  SlotsAccounted'
  BY DEF SlotsAccounted

\* With the key of one handle held.
LEMMA SettledHolding ==
  ASSUME NEW f, NEW lk, NEW h, NEW s, Held' = {h}, test'.found = f, test'.leaked = lk,
         handles'[h].slot = s, Accounted(f, lk, {s})', lk # {} => report'.failed > 0,
         backend'[test'.engine] = "CC310", NamesSlot(h)'
  PROVE  SlotsAccounted'
  <1>1. {handles'[g].slot : g \in Held'} = {s}
    OBVIOUS
  <1> QED BY <1>1 DEF SlotsAccounted

\* Noting what happened and going to the next test.
LEMMA NextTest ==
  ASSUME TestTypes, test.step \in RsaSteps, Noting(Goto(test))
  PROVE  /\ Onward(test') /\ test'.leaked = test.leaked \cup Leak
         /\ test'.wrong = test.wrong /\ Held' = {} /\ test'.step # "tampered"
  <1>1. /\ Fields \subseteq DOMAIN test /\ test.at \in 1..Len(Script)
        /\ test.sig \in Key \cup {NoKey} /\ test.pub \in Key \cup {NoKey}
    BY DEF TestTypes
  <1>2. PICK g : g = Goto(test)
    OBVIOUS
  <1>3. /\ Fields \subseteq DOMAIN g
        /\ g.engine = test.engine /\ g.sig = test.sig /\ g.pub = test.pub
        /\ g.wrong = test.wrong /\ g.found = test.found /\ g.leaked = test.leaked
        /\ g.step \in {"test", "done", "generate"}
        /\ g.step # "done" => g.at \in 2..Len(Script)
        /\ g.step = "test" => Script[g.at] # "rsa"
    BY <1>1, <1>2, GotoEffect
  <1>4. Noting(g)
    BY <1>2
  <1>5. /\ Fields \subseteq DOMAIN test'
        /\ test'.at = g.at /\ test'.step = g.step /\ test'.engine = g.engine
        /\ test'.sig = g.sig /\ test'.pub = g.pub
        /\ test'.wrong = g.wrong /\ test'.found = g.found
        /\ test'.leaked = g.leaked \cup Leak
    BY <1>3, <1>4, NotingEffect
  <1>6. Onward(test')
    <2>1. test'.step = "test" => test'.at # 1 /\ Script[test'.at] # "rsa"
      BY <1>3, <1>5
    <2>2. test'.step # "done" => test'.at \in 1..Len(Script)
      BY <1>3, <1>5
    <2> QED BY <1>1, <1>3, <1>5, <2>1, <2>2 DEF Onward, RsaSteps, HoldsKey
  <1>7. Held' = {}
    BY <1>3, <1>5 DEF Held, HoldsKey
  <1> QED BY <1>3, <1>5, <1>6, <1>7

\* Making a key takes a free slot for the test, or leaves one behind with an error,
\* or takes none.
LEMMA GenerateKeeps ==
  ASSUME CoreInv, RunInv, test.step \in {"generate", "again"}, NEW h \in {KeyVar, AgainVar},
         rsaGenerateKeyPair(test.engine, h), NEW f, NEW lk, f = test.found, lk = test.leaked
  PROVE  /\ UNCHANGED backend
         /\ ret'.st = "Ok" => /\ Leak = {} /\ backend[test.engine] = "CC310"
                              /\ \E s \in Slots : /\ handles'[h].slot = s /\ NamesSlot(h)'
                                                  /\ Accounted(f, lk, {s})'
         /\ ret'.st # "Ok" => /\ Leak # {} => ret'.st = "InternalError"
                              /\ \E lk2 : lk2 = lk \cup Leak /\ Accounted(f, lk2, {})'
  <1>1. /\ test.engine \in Engines /\ h \in Handles
        /\ slots \in [Slots -> [key : Key \cup {NoKey, Residue}, ready : BOOLEAN]]
    BY DEF RunInv, TestTypes, RsaSteps, CoreInv, TypeOK
  <1>2. Accounted(f, lk, {})
    <2>1. Held = {}
      BY DEF Held, HoldsKey
    <2>2. {handles[g].slot : g \in Held} = {}
      BY <2>1
    <2> QED BY <2>2 DEF RunInv, SlotsAccounted
  <1>3. /\ UNCHANGED life /\ ret'.op = "rsaGenerate"
        /\ \/ /\ ret'.st \in {"Ok", "InternalError"} /\ ret'.key # NoKey
              /\ backend[test.engine] = "CC310" /\ \E s \in Slots : Takes(h, s)
           \/ ret'.st # "Ok" /\ ret'.key = NoKey /\ TakesNone
    BY <1>1, GenerateOutcome
  <1>4. UNCHANGED backend
    BY <1>3 DEF life
  <1>5. ASSUME NEW s \in Slots, Takes(h, s), ret'.st = "Ok"
        PROVE  /\ Leak = {} /\ handles'[h].slot = s /\ NamesSlot(h)'
               /\ Accounted(f, lk, {s})'
    <2>1. PICK k \in Key : slots' = [slots EXCEPT ![s] = [key |-> k, ready |-> TRUE]]
      BY <1>5 DEF Takes
    <2>2. Accounted(f, lk, {s})'
      BY <1>1, <1>2, <1>5, <2>1, SlotTaken DEF Takes
    <2>3. handles'[h].slot = s /\ slots'[s].ready
      BY <1>1, <1>5, <2>1 DEF Takes
    <2> QED BY <1>1, <1>5, <2>2, <2>3, NoLeak DEF NamesSlot, rsaSlotValid
  <1>6. ASSUME NEW s \in Slots, Takes(h, s), ret'.st = "InternalError", ret'.key # NoKey
        PROVE  \E lk2 : lk2 = lk \cup Leak /\ Accounted(f, lk2, {})'
    <2>1. PICK k \in Key : slots' = [slots EXCEPT ![s] = [key |-> k, ready |-> TRUE]]
      BY <1>6 DEF Takes
    <2>2. Accounted(f, lk \cup {s}, {})'
      BY <1>1, <1>2, <1>6, <2>1, SlotTaken DEF Takes
    <2>3. Leak = {s}
      <3>1. slots'[s] # slots[s]
        BY <1>1, <1>6, <2>1 DEF Takes
      <3>2. \A x \in Slots \ {s} : slots'[x] = slots[x]
        BY <1>1, <2>1
      <3> QED BY <1>3, <1>6, <3>1, <3>2 DEF Leak
    <2> QED BY <2>2, <2>3
  <1>7. ASSUME TakesNone, ret'.key = NoKey
        PROVE  Leak = {} /\ Accounted(f, lk, {})'
    <2>1. Leak = {}
      BY <1>7, NoLeak
    <2>2. CASE UNCHANGED slots
      BY <1>2, <2>1, <2>2 DEF Accounted
    <2>3. CASE \E s \in Slots, k \in Key \cup {NoKey, Residue} :
                 ~slots[s].ready /\ slots' = [slots EXCEPT ![s] = [key |-> k, ready |-> FALSE]]
      <3>1. PICK s \in Slots, k \in Key \cup {NoKey, Residue} :
              ~slots[s].ready /\ slots' = [slots EXCEPT ![s] = [key |-> k, ready |-> FALSE]]
        BY <2>3
      <3>2. PICK hs : hs = {}
        OBVIOUS
      <3>3. Accounted(f, lk, hs)
        BY <1>2, <3>2
      <3>4. Accounted(f, lk, hs)'
        BY <1>1, <3>1, <3>3, SlotLeftFree
      <3> QED BY <2>1, <3>2, <3>4
    <2> QED BY <1>7, <2>2, <2>3 DEF TakesNone
  <1>8. CASE ret'.st = "Ok"
    BY <1>3, <1>4, <1>5, <1>8
  <1>9. CASE /\ ret'.st # "Ok"
             /\ \E s \in Slots : Takes(h, s) /\ ret'.st = "InternalError" /\ ret'.key # NoKey
    BY <1>4, <1>6, <1>9
  <1>10. CASE ret'.st # "Ok" /\ ret'.key = NoKey /\ TakesNone
    <2>1. Leak = {} /\ Accounted(f, lk, {})'
      BY <1>7, <1>10
    <2>2. lk = lk \cup Leak
      BY <2>1
    <2> QED BY <1>4, <1>10, <2>1, <2>2
  <1> QED BY <1>3, <1>8, <1>9, <1>10

\* The first key of the RSA test.
LEMMA GenerateStep ==
  ASSUME CoreInv, RunInv, RsaGenerate
  PROVE  RunInv'
  <1>1. /\ TestTypes /\ WrongCounts /\ report.failed \in Nat /\ test.step = "generate"
        /\ test.step \in RsaSteps
    BY DEF RunInv, TestTypes, RsaGenerate, RsaSteps
  <1>2. PICK f, lk : f = test.found /\ lk = test.leaked
    OBVIOUS
  <1>3. rsaGenerateKeyPair(test.engine, KeyVar)
    BY DEF RsaGenerate
  <1>4. /\ UNCHANGED backend
        /\ ret'.st = "Ok" => /\ Leak = {} /\ backend[test.engine] = "CC310"
                             /\ \E s \in Slots : /\ handles'[KeyVar].slot = s /\ NamesSlot(KeyVar)'
                                                 /\ Accounted(f, lk, {s})'
        /\ ret'.st # "Ok" => /\ Leak # {} => ret'.st = "InternalError"
                             /\ \E lk2 : lk2 = lk \cup Leak /\ Accounted(f, lk2, {})'
    BY <1>1, <1>2, <1>3, GenerateKeeps
  <1>5. /\ test.wrong => report.failed > 0
        /\ test.leaked # {} => report.failed > 0
    BY <1>1 DEF RunInv, WrongCounts, SlotsAccounted
  <1>6. CASE ret'.st = "Ok"
    <2>1. PICK t : t = [test EXCEPT !.step = "sign"]
      OBVIOUS
    <2>2. Noting(t) /\ report' = report
      BY <1>6, <2>1 DEF RsaGenerate
    <2>3. /\ Fields \subseteq DOMAIN t /\ t.at = test.at /\ t.engine = test.engine
          /\ t.found = f /\ t.leaked = lk /\ t.step = "sign"
          /\ t.sig = test.sig /\ t.pub = test.pub /\ t.wrong = test.wrong
      BY <1>1, <1>2, <2>1 DEF TestTypes, Fields
    <2>4. /\ Fields \subseteq DOMAIN test' /\ test'.at = test.at /\ test'.engine = test.engine
          /\ test'.found = f /\ test'.leaked = lk /\ test'.step = "sign"
          /\ test'.sig = test.sig /\ test'.pub = test.pub /\ test'.wrong = test.wrong
      BY <1>4, <1>6, <2>2, <2>3, NotingEffect
    <2>5. Onward(test') /\ Reported
      BY <1>1, <1>2, <1>5, <2>2, <2>4 DEF Onward, Reported, TestTypes, RsaSteps, HoldsKey
    <2>6. SlotsAccounted'
      <3>1. PICK s \in Slots : /\ handles'[KeyVar].slot = s /\ NamesSlot(KeyVar)'
                               /\ Accounted(f, lk, {s})'
        BY <1>4, <1>6
      <3>2. Held' = {KeyVar}
        BY <2>4 DEF Held, HoldsKey
      <3>3. backend'[test'.engine] = "CC310" /\ (lk # {} => report'.failed > 0)
        BY <1>2, <1>4, <1>5, <1>6, <2>2, <2>4
      <3> QED BY <2>4, <3>1, <3>2, <3>3, SettledHolding
    <2> QED BY <1>1, <1>4, <2>5, <2>6, StepReported DEF RunInv
  <1>7. CASE ret'.st # "Ok"
    <2>1. Noting(Goto(test))
      BY <1>7 DEF RsaGenerate
    <2>2. PICK lk2 : lk2 = lk \cup Leak /\ Accounted(f, lk2, {})'
      BY <1>4, <1>7
    <2>3. /\ Onward(test') /\ test'.leaked = lk2 /\ test'.found = f
          /\ test'.wrong = test.wrong /\ Held' = {}
      BY <1>1, <1>2, <2>1, <2>2, NextTest DEF Onward
    <2>4. /\ report'.failed \in Nat /\ report'.failed >= report.failed
          /\ ret'.st = "InternalError" => report'.failed > 0
      <3>1. CASE ret'.st = "Unsupported"
        <4>1. Add(Plus(PairSkip, reportSkip))
          BY <1>7, <3>1 DEF RsaGenerate
        <4> QED BY <1>1, <3>1, <4>1 DEF Add, Plus, PairSkip, reportSkip, Tally
      <3>2. CASE ret'.st # "Unsupported"
        <4>1. Add(reportPassFail(FALSE))
          BY <1>7, <3>2 DEF RsaGenerate
        <4> QED BY <1>1, <4>1, FailureEffect
      <3> QED BY <3>1, <3>2
    <2>5. Reported
      BY <1>1, <1>5, <2>3, <2>4 DEF Reported
    <2>6. lk2 # {} => report'.failed > 0
      BY <1>1, <1>2, <1>4, <1>5, <1>7, <2>2, <2>4
    <2>7. SlotsAccounted'
      BY <2>2, <2>3, <2>6, SettledFree
    <2> QED BY <1>1, <1>4, <2>3, <2>5, <2>7, StepReported DEF RunInv
  <1> QED BY <1>6, <1>7

\* The second key, made after the first was released.
LEMMA AgainStep ==
  ASSUME CoreInv, RunInv, RsaAgain
  PROVE  RunInv'
  <1>1. /\ TestTypes /\ WrongCounts /\ report.failed \in Nat /\ test.step = "again"
        /\ test.step \in RsaSteps /\ Fields \subseteq DOMAIN test
    BY DEF RunInv, TestTypes, RsaAgain, RsaSteps
  <1>2. PICK f, lk : f = test.found /\ lk = test.leaked
    OBVIOUS
  <1>3. rsaGenerateKeyPair(test.engine, AgainVar)
    BY DEF RsaAgain
  <1>4. /\ UNCHANGED backend
        /\ ret'.st = "Ok" => /\ Leak = {} /\ backend[test.engine] = "CC310"
                             /\ \E s \in Slots : /\ handles'[AgainVar].slot = s /\ NamesSlot(AgainVar)'
                                                 /\ Accounted(f, lk, {s})'
        /\ ret'.st # "Ok" => /\ Leak # {} => ret'.st = "InternalError"
                             /\ \E lk2 : lk2 = lk \cup Leak /\ Accounted(f, lk2, {})'
    BY <1>1, <1>2, <1>3, GenerateKeeps
  <1>5. /\ test.wrong => report.failed > 0
        /\ test.leaked # {} => report.failed > 0
    BY <1>1 DEF RunInv, WrongCounts, SlotsAccounted
  <1>6. CASE ret'.st = "Ok"
    <2>1. PICK t : t = [[test EXCEPT !.step = "releaseAgain"] EXCEPT !.ok = @ /\ ret'.st = "Ok"]
      OBVIOUS
    <2>2. Noting(t) /\ report' = report
      BY <1>6, <2>1 DEF RsaAgain
    <2>3. /\ Fields \subseteq DOMAIN t /\ t.at = test.at /\ t.engine = test.engine
          /\ t.found = f /\ t.leaked = lk /\ t.step = "releaseAgain"
          /\ t.sig = test.sig /\ t.pub = test.pub /\ t.wrong = test.wrong
      BY <1>1, <1>2, <2>1 DEF Fields
    <2>4. /\ Fields \subseteq DOMAIN test' /\ test'.at = test.at /\ test'.engine = test.engine
          /\ test'.found = f /\ test'.leaked = lk /\ test'.step = "releaseAgain"
          /\ test'.sig = test.sig /\ test'.pub = test.pub /\ test'.wrong = test.wrong
      BY <1>4, <1>6, <2>2, <2>3, NotingEffect
    <2>5. Onward(test') /\ Reported
      BY <1>1, <1>2, <1>5, <2>2, <2>4 DEF Onward, Reported, TestTypes, RsaSteps, HoldsKey
    <2>6. SlotsAccounted'
      <3>1. PICK s \in Slots : /\ handles'[AgainVar].slot = s /\ NamesSlot(AgainVar)'
                               /\ Accounted(f, lk, {s})'
        BY <1>4, <1>6
      <3>2. Held' = {AgainVar}
        BY <2>4 DEF Held, HoldsKey
      <3>3. backend'[test'.engine] = "CC310" /\ (lk # {} => report'.failed > 0)
        BY <1>2, <1>4, <1>5, <1>6, <2>2, <2>4
      <3> QED BY <2>4, <3>1, <3>2, <3>3, SettledHolding
    <2> QED BY <1>1, <1>4, <2>5, <2>6, StepReported DEF RunInv
  <1>7. CASE ret'.st # "Ok"
    <2>1. PICK g : g = Goto(test)
      OBVIOUS
    <2>2. PICK t : t = [g EXCEPT !.ok = @ /\ ret'.st = "Ok"]
      OBVIOUS
    <2>3. Noting(t) /\ Add(reportPassFail(FALSE))
      BY <1>7, <2>1, <2>2 DEF RsaAgain
    <2>4. PICK lk2 : lk2 = lk \cup Leak /\ Accounted(f, lk2, {})'
      BY <1>4, <1>7
    <2>5. /\ Fields \subseteq DOMAIN g
          /\ g.engine = test.engine /\ g.sig = test.sig /\ g.pub = test.pub
          /\ g.wrong = test.wrong /\ g.found = f /\ g.leaked = lk
          /\ g.step \in {"test", "done", "generate"}
          /\ g.step # "done" => g.at \in 2..Len(Script)
          /\ g.step = "test" => Script[g.at] # "rsa"
      BY <1>1, <1>2, <2>1, GotoEffect DEF TestTypes
    <2>6. /\ Fields \subseteq DOMAIN t /\ t.at = g.at /\ t.engine = g.engine
          /\ t.found = g.found /\ t.leaked = g.leaked /\ t.step = g.step
          /\ t.sig = g.sig /\ t.pub = g.pub /\ t.wrong = g.wrong
      BY <2>2, <2>5 DEF Fields
    <2>7. /\ Fields \subseteq DOMAIN test' /\ test'.at = g.at /\ test'.engine = test.engine
          /\ test'.found = f /\ test'.leaked = lk2 /\ test'.step = g.step
          /\ test'.sig = test.sig /\ test'.pub = test.pub /\ test'.wrong = test.wrong
      BY <2>3, <2>4, <2>5, <2>6, NotingEffect
    <2>8. Onward(test')
      <3>1. test'.step = "test" => test'.at # 1 /\ Script[test'.at] # "rsa"
        BY <2>5, <2>7
      <3>2. test'.step # "done" => test'.at \in 1..Len(Script)
        BY <2>5, <2>7
      <3> QED BY <1>1, <1>2, <2>5, <2>7, <3>1, <3>2 DEF Onward, TestTypes, RsaSteps, HoldsKey
    <2>9. report'.failed = report.failed + 1
      BY <1>1, <2>3, FailureEffect
    <2>10. Reported
      BY <1>1, <2>9 DEF Reported
    <2>11. Held' = {}
      BY <2>5, <2>7 DEF Held, HoldsKey
    <2>12. SlotsAccounted'
      BY <1>1, <2>4, <2>7, <2>9, <2>11, SettledFree
    <2> QED BY <1>1, <1>4, <2>8, <2>10, <2>12, StepReported DEF RunInv
  <1> QED BY <1>6, <1>7

\* Releasing a key of the test gives its slot back.
LEMMA ReleaseKeeps ==
  ASSUME CoreInv, RunInv, NEW h \in {KeyVar, AgainVar}, Held = {h},
         rsaReleaseKeyPair(test.engine, h), NEW f, NEW lk, f = test.found, lk = test.leaked
  PROVE  UNCHANGED backend /\ ret'.st = "Ok" /\ Leak = {} /\ Accounted(f, lk, {})'
  <1>1. /\ test.engine \in Engines /\ test.step # "idle"
        /\ slots \in [Slots -> [key : Key \cup {NoKey, Residue}, ready : BOOLEAN]]
    BY DEF RunInv, TestTypes, CoreInv, TypeOK, Held, HoldsKey
  <1>2. PICK s : s = handles[h].slot
    OBVIOUS
  <1>3. {handles[g].slot : g \in Held} = {s}
    BY <1>2
  <1>4. Accounted(f, lk, {s}) /\ backend[test.engine] = "CC310" /\ NamesSlot(h)
    BY <1>1, <1>3 DEF RunInv, SlotsAccounted
  <1>5. /\ UNCHANGED life /\ ret'.op = "rsaRelease" /\ ret'.st = "Ok"
        /\ slots' = rsaFreeSlot(s)
    BY <1>1, <1>2, <1>4, ReleaseOutcome
  <1>6. s \in Slots
    BY <1>2, <1>4 DEF NamesSlot, rsaSlotValid
  <1>7. Accounted(f, lk, {})'
    BY <1>1, <1>4, <1>5, <1>6, SlotReleased
  <1> QED BY <1>5, <1>7, NoLeak DEF life

\* The first key is released.
LEMMA ReleaseStep ==
  ASSUME CoreInv, RunInv, RsaRelease
  PROVE  RunInv'
  <1>1. /\ TestTypes /\ WrongCounts /\ report.failed \in Nat /\ test.step = "release"
        /\ test.step \in RsaSteps /\ Fields \subseteq DOMAIN test
    BY DEF RunInv, TestTypes, RsaRelease, RsaSteps, HoldsKey
  <1>2. PICK f, lk : f = test.found /\ lk = test.leaked
    OBVIOUS
  <1>3. Held = {KeyVar} /\ rsaReleaseKeyPair(test.engine, KeyVar) /\ report' = report
    BY <1>1 DEF Held, HoldsKey, RsaRelease
  <1>4. UNCHANGED backend /\ ret'.st = "Ok" /\ Leak = {} /\ Accounted(f, lk, {})'
    BY <1>2, <1>3, ReleaseKeeps
  <1>5. PICK t : t = [test EXCEPT !.step = "again", !.ok = ret'.st = "Ok" /\ ~Valid(KeyVar)']
    OBVIOUS
  <1>6. Noting(t)
    BY <1>5 DEF RsaRelease
  <1>7. /\ Fields \subseteq DOMAIN t /\ t.at = test.at /\ t.engine = test.engine
        /\ t.found = f /\ t.leaked = lk /\ t.step = "again"
        /\ t.sig = test.sig /\ t.pub = test.pub /\ t.wrong = test.wrong
    BY <1>1, <1>2, <1>5 DEF Fields
  <1>8. /\ Fields \subseteq DOMAIN test' /\ test'.at = test.at /\ test'.engine = test.engine
        /\ test'.found = f /\ test'.leaked = lk /\ test'.step = "again"
        /\ test'.sig = test.sig /\ test'.pub = test.pub /\ test'.wrong = test.wrong
    BY <1>4, <1>6, <1>7, NotingEffect
  <1>9. /\ test.wrong => report.failed > 0
        /\ test.leaked # {} => report.failed > 0
    BY <1>1 DEF RunInv, WrongCounts, SlotsAccounted
  <1>10. Onward(test') /\ Reported
    BY <1>1, <1>2, <1>3, <1>8, <1>9 DEF Onward, Reported, TestTypes, RsaSteps, HoldsKey
  <1>11. Held' = {}
    BY <1>8 DEF Held, HoldsKey
  <1>12. SlotsAccounted'
    BY <1>2, <1>3, <1>4, <1>8, <1>9, <1>11, SettledFree
  <1> QED BY <1>1, <1>4, <1>10, <1>12, StepReported DEF RunInv

\* The second key is released, which ends the RSA test.
LEMMA ReleaseAgainStep ==
  ASSUME CoreInv, RunInv, RsaReleaseAgain
  PROVE  RunInv'
  <1>1. /\ TestTypes /\ WrongCounts /\ report.failed \in Nat /\ test.step = "releaseAgain"
        /\ test.step \in RsaSteps
    BY DEF RunInv, TestTypes, RsaReleaseAgain, RsaSteps, HoldsKey
  <1>2. PICK f, lk : f = test.found /\ lk = test.leaked
    OBVIOUS
  <1>3. Held = {AgainVar} /\ rsaReleaseKeyPair(test.engine, AgainVar)
    BY <1>1 DEF Held, HoldsKey, RsaReleaseAgain
  <1>4. UNCHANGED backend /\ ret'.st = "Ok" /\ Leak = {} /\ Accounted(f, lk, {})'
    BY <1>2, <1>3, ReleaseKeeps
  <1>5. Noting(Goto(test)) /\ Add(reportPassFail(test.ok))
    BY DEF RsaReleaseAgain
  <1>6. /\ Onward(test') /\ test'.leaked = lk /\ test'.found = f
        /\ test'.wrong = test.wrong /\ Held' = {}
    BY <1>1, <1>2, <1>4, <1>5, NextTest DEF Onward
  <1>7. report'.failed \in Nat /\ report'.failed >= report.failed
    BY <1>1, <1>5 DEF Add, Plus, reportPassFail, Tally
  <1>8. /\ test.wrong => report.failed > 0
        /\ test.leaked # {} => report.failed > 0
    BY <1>1 DEF RunInv, WrongCounts, SlotsAccounted
  <1>9. Reported
    BY <1>1, <1>6, <1>7, <1>8 DEF Reported
  <1>10. SlotsAccounted'
    BY <1>1, <1>2, <1>4, <1>6, <1>7, <1>8, SettledFree
  <1> QED BY <1>1, <1>4, <1>6, <1>9, <1>10, StepReported DEF RunInv

-----------------------------------------------------------------------------
(* The other steps *)

\* A test that is one step leaves the store alone and reports what went wrong.
LEMMA RunTestStep ==
  ASSUME RunInv, RunTest
  PROVE  RunInv'
  <1>1. /\ TestTypes /\ WrongCounts /\ report.failed \in Nat /\ test.step = "test"
        /\ Fields \subseteq DOMAIN test /\ test.at \in 1..Len(Script)
        /\ Script[test.at] # "rsa" /\ test.engine \in Engines
        /\ test.sig \in Key \cup {NoKey} /\ test.pub \in Key \cup {NoKey}
    BY DEF RunInv, TestTypes, RunTest
  <1>2. PICK r \in Results(Script[test.at]) :
          /\ report' = Plus(report, r.verdict)
          /\ test' = Goto([test EXCEPT !.wrong = @ \/ r.wrong,
                                       !.faults = IF r.fault THEN @ + 1 ELSE @])
    BY DEF RunTest
  <1>3. PICK t : t = [test EXCEPT !.wrong = @ \/ r.wrong,
                                  !.faults = IF r.fault THEN @ + 1 ELSE @]
    OBVIOUS
  <1>4. /\ Fields \subseteq DOMAIN t /\ t.at = test.at /\ t.engine = test.engine
        /\ t.found = test.found /\ t.leaked = test.leaked
        /\ t.sig = test.sig /\ t.pub = test.pub
    BY <1>1, <1>3 DEF Fields
  <1>5. t.wrong <=> (test.wrong \/ r.wrong)
    BY <1>1, <1>3 DEF Fields
  <1>6. test' = Goto(t)
    BY <1>2, <1>3
  <1>7. /\ Fields \subseteq DOMAIN test'
        /\ test'.engine = t.engine /\ test'.sig = t.sig /\ test'.pub = t.pub
        /\ test'.wrong = t.wrong /\ test'.found = t.found /\ test'.leaked = t.leaked
        /\ test'.step \in {"test", "done", "generate"}
        /\ test'.step # "done" => test'.at \in 2..Len(Script)
        /\ test'.step = "test" => Script[test'.at] # "rsa"
    BY <1>1, <1>4, <1>6, GotoEffect
  <1>8. PICK n : n = r.verdict.failed
    OBVIOUS
  <1>9. n \in Nat /\ (r.wrong => n > 0)
    BY <1>1, <1>8, ResultsSound DEF Sound
  <1>10. report'.failed = report.failed + n
    BY <1>2, <1>8, FailCounts
  <1>11. report'.failed \in Nat /\ report'.failed >= report.failed
    BY <1>1, <1>9, <1>10
  <1>12. UNCHANGED <<backend, slots, handles>>
    BY DEF RunTest, keyVars
  <1>13. TestTypes'
    <2>1. test'.step # "done" => test'.at \in 1..Len(Script)
      BY <1>7
    <2> QED BY <1>1, <1>4, <1>7, <1>11, <2>1 DEF TestTypes, RsaSteps, HoldsKey
  <1>14. Held = {} /\ Held' = {}
    BY <1>1, <1>7 DEF Held, HoldsKey
  <1>15. SlotsAccounted'
    <2>1. PICK f, lk : f = test.found /\ lk = test.leaked
      OBVIOUS
    <2>2. {handles[h].slot : h \in Held} = {}
      BY <1>14
    <2>3. Accounted(f, lk, {}) /\ (lk # {} => report.failed > 0)
      BY <1>1, <2>1, <2>2 DEF RunInv, SlotsAccounted
    <2>4. Accounted(f, lk, {})'
      BY <1>12, <2>3 DEF Accounted
    <2>5. lk # {} => report'.failed > 0
      BY <1>1, <1>11, <2>3
    <2> QED BY <1>4, <1>7, <1>14, <2>1, <2>4, <2>5, SettledFree
  <1>16. WrongCounts'
    <2>1. test'.wrong => report'.failed > 0
      <3>1. test.wrong => report.failed > 0
        BY <1>1 DEF WrongCounts
      <3> QED BY <1>1, <1>5, <1>7, <1>9, <1>10, <3>1
    <2>2. backend[test.engine] = "none" => report'.failed > 0
      <3>1. CASE test.at = 1
        <4>1. r \in Results("sha256")
          BY <1>2, <3>1, ScriptShape
        <4>2. backend[test.engine] = "none" => n > 0
          BY <1>8, <4>1, FirstTestFails
        <4> QED BY <1>1, <1>10, <4>2, <1>9
      <3>2. CASE test.at # 1
        <4>1. backend[test.engine] = "none" => report.failed > 0
          BY <1>1, <3>2 DEF WrongCounts
        <4> QED BY <1>1, <1>11, <4>1
      <3> QED BY <3>1, <3>2
    <2> QED BY <1>4, <1>7, <1>12, <2>1, <2>2 DEF WrongCounts
  <1> QED BY <1>13, <1>15, <1>16 DEF RunInv

\* A self test starts with the slots the application holds and an empty report.
LEMMA StartStep ==
  ASSUME NEW e \in Engines, Start(e)
  PROVE  RunInv'
  <1>1. PICK f : f = slots
    OBVIOUS
  <1>2. /\ test' = [NoTest EXCEPT !.at = 1, !.step = "test", !.engine = e, !.found = f]
        /\ report' = Tally(0, 0, 0) /\ slots' = f
    BY <1>1 DEF Start, keyVars
  <1>3. /\ Fields \subseteq DOMAIN test' /\ test'.at = 1 /\ test'.step = "test"
        /\ test'.engine = e /\ test'.found = f /\ test'.leaked = {}
        /\ test'.sig = NoKey /\ test'.pub = NoKey /\ test'.wrong = FALSE
    BY <1>2 DEF NoTest, Fields
  <1>4. report'.failed = 0
    BY <1>2 DEF Tally
  <1>5. TestTypes'
    BY <1>3, <1>4, ScriptShape DEF TestTypes, RsaSteps, HoldsKey
  <1>6. SlotsAccounted'
    <2>1. Held' = {}
      BY <1>3 DEF Held, HoldsKey
    <2>2. Accounted(f, {}, {})'
      BY <1>2 DEF Accounted
    <2>3. PICK lk : lk = {}
      OBVIOUS
    <2>4. Accounted(f, lk, {})' /\ test'.leaked = lk
      BY <1>3, <2>2, <2>3
    <2> QED BY <1>3, <2>1, <2>3, <2>4, SettledFree
  <1>7. WrongCounts'
    BY <1>3 DEF WrongCounts
  <1> QED BY <1>5, <1>6, <1>7 DEF RunInv

\* Between self tests nothing is claimed of the slots.
LEMMA IdleInv == test = NoTest /\ report = Tally(0, 0, 0) => RunInv
  <1> SUFFICES ASSUME test = NoTest, report = Tally(0, 0, 0) PROVE RunInv
    OBVIOUS
  <1>1. /\ Fields \subseteq DOMAIN test /\ test.step = "idle" /\ test.wrong = FALSE
        /\ test.sig = NoKey /\ test.pub = NoKey
    BY DEF NoTest, Fields
  <1>2. report.failed = 0
    BY DEF Tally
  <1> QED BY <1>1, <1>2 DEF RunInv, TestTypes, SlotsAccounted, WrongCounts, RsaSteps, HoldsKey

\* The application's steps end in such a state.
LEMMA AppIdle ==
  ASSUME NEW e \in Engines, App(e)
  PROVE  RunInv'
  <1>1. test' = NoTest /\ report' = Tally(0, 0, 0)
    BY DEF App
  <1>2. /\ Fields \subseteq DOMAIN test' /\ test'.step = "idle" /\ test'.wrong = FALSE
        /\ test'.sig = NoKey /\ test'.pub = NoKey
    BY <1>1 DEF NoTest, Fields
  <1>3. report'.failed = 0
    BY <1>1 DEF Tally
  <1> QED BY <1>2, <1>3 DEF RunInv, TestTypes, SlotsAccounted, WrongCounts, RsaSteps, HoldsKey

-----------------------------------------------------------------------------
(* The theorems *)

\* The invariant holds at power-up and of every step.
LEMMA STInit_Inv == STInit => STInv
  BY SafetyInit, IdleInv DEF STInit, STInv, RunInv

\* Every step of the self test and of the application keeps it.
LEMMA STInductive == STInv /\ [STNext]_testVars => STInv'
  <1> SUFFICES ASSUME STInv, [STNext]_testVars PROVE STInv'
    OBVIOUS
  <1>1. SafetyInv /\ RunInv /\ CoreInv /\ TestTypes
    BY DEF STInv, RunInv, SafetyInv, CoreInv
  <1>2. SafetyInv'
    BY <1>1, STStepIsNext, SafetyInductive
  <1>3. RunInv'
    <2>1. CASE \E e \in Engines : App(e)
      BY <2>1, AppIdle
    <2>2. CASE \E e \in Engines : Start(e)
      BY <2>2, StartStep
    <2>3. CASE RunTest
      BY <1>1, <2>3, RunTestStep
    <2>4. CASE RsaGenerate \/ RsaRelease \/ RsaAgain \/ RsaReleaseAgain
      BY <1>1, <2>4, GenerateStep, ReleaseStep, AgainStep, ReleaseAgainStep
    <2>5. CASE RsaSign \/ RsaVerify \/ RsaVerifyTampered \/ RsaExport \/ RsaVerifyPub
      BY <1>1, <2>5, UseKeeps
    <2>6. CASE UNCHANGED testVars
      <3>1. UNCHANGED <<test, report, backend, slots, handles>>
        BY <2>6 DEF testVars, keyVars
      <3>2. TestTypes' /\ WrongCounts' /\ Held' = Held
        BY <1>1, <3>1 DEF RunInv, TestTypes, WrongCounts, Held
      <3>3. SlotsAccounted'
        BY <1>1, <3>1, <3>2 DEF RunInv, SlotsAccounted, Accounted, NamesSlot, rsaSlotValid
      <3> QED BY <3>2, <3>3 DEF RunInv
    <2> QED BY <2>1, <2>2, <2>3, <2>4, <2>5, <2>6 DEF STNext
  <1> QED BY <1>2, <1>3 DEF STInv, RunInv

\* The invariant gives both properties of the report.
LEMMA STInvImplies == STInv => GivesSlotsBack /\ OkIsEarned
  <1> SUFFICES ASSUME STInv, Done PROVE GivesSlotsBack /\ OkIsEarned
    BY DEF GivesSlotsBack, OkIsEarned
  <1>1. test.step = "done" /\ report.failed \in Nat
    BY DEF Done, STInv, TestTypes
  <1>2. Held = {}
    BY <1>1 DEF Held, HoldsKey
  <1>3. {handles[h].slot : h \in Held} = {}
    BY <1>2
  <1>4. /\ Accounted(test.found, test.leaked, {})
        /\ test.leaked # {} => report.failed > 0
    BY <1>1, <1>3 DEF STInv, SlotsAccounted
  <1>5. GivesSlotsBack
    BY <1>1, <1>4 DEF GivesSlotsBack, Accounted, ReportOk
  <1>6. OkIsEarned
    BY <1>1 DEF STInv, WrongCounts, OkIsEarned, ReportOk
  <1> QED BY <1>5, <1>6

\* Whatever keys the application holds, however many slots there are and whichever
\* calls fail, the self test leaves the application's keys alone and gives its own
\* slots back, but for those of a failed rsaGenerate, which the report shows
\* (CryptoSelfTestRunner.cpp 318-361).
THEOREM SelfTestGivesBack == STSpec => []GivesSlotsBack
  <1>1. STSpec => []STInv
    BY STInit_Inv, STInductive, PTL DEF STSpec
  <1>2. STInv => GivesSlotsBack
    BY STInvImplies
  <1> QED BY <1>1, <1>2, PTL

\* A report without failures means that no call answered Ok with a wrong result, no
\* good signature was rejected, no bad one accepted, and the engine had a backend
\* (SelfTestReport::ok, CryptoTypes.h 98-103).
THEOREM SelfTestEarnsOk == STSpec => []OkIsEarned
  <1>1. STSpec => []STInv
    BY STInit_Inv, STInductive, PTL DEF STSpec
  <1>2. STInv => OkIsEarned
    BY STInvImplies
  <1> QED BY <1>1, <1>2, PTL

-----------------------------------------------------------------------------
(* The counts of the report on a device in order *)

\* What a call answers on a device in order: a result, or that there is none
Missing == {"Unsupported", "NotStarted"}
InOrder == {"Ok"} \cup Missing

\* No call of the engine under test says that it is not there
Works(api) == St(api) \cap Missing = {}

\* Every call says so
Absent(api) == St(api) \subseteq Missing

\* What the result of a test without a fault is made of.
LEMMA FaultlessResult ==
  ASSUME NEW v, NEW calls, NEW wrong \in BOOLEAN, ~Result(v, calls, wrong).fault
  PROVE  /\ Result(v, calls, wrong).verdict = v
         /\ ~wrong /\ calls \subseteq InOrder
  BY DEF Result, InOrder, Missing

\* SHA-256, HMAC and random.
LEMMA StrictScore ==
  ASSUME NEW api, NEW r \in Strict(api), ~r.fault
  PROVE  /\ Works(api) => r.verdict = Tally(1, 0, 0)
         /\ Absent(api) => r.verdict = Tally(0, 1, 0)
  <1> DEFINE V(s, eq) == reportPassFail(s = "Ok" /\ eq)
             W(s, eq) == s = "Ok" /\ ~eq
             C(s, eq) == {s}
             F(s, eq) == Result(V(s, eq), C(s, eq), W(s, eq))
  <1>1. ASSUME NEW s, NEW eq \in BOOLEAN,
               ~W(s, eq), C(s, eq) \subseteq InOrder
        PROVE  /\ s \notin Missing => V(s, eq) = Tally(1, 0, 0)
               /\ s \in Missing => V(s, eq) = Tally(0, 1, 0)
    BY <1>1
       DEF reportPassFail, reportSkip, PairSkip, Plus, Tally, GoodAndRejects, InOrder, Missing
  <1>2. \A s, eq : W(s, eq) \in BOOLEAN
    OBVIOUS
  <1>3. Strict(api) = {F(s, eq) : s \in St(api), eq \in BOOLEAN}
    BY DEF Strict
  <1> HIDE DEF V, W, C, F
  <1>4. PICK s \in St(api), eq \in BOOLEAN : r = F(s, eq)
    BY <1>3
  <1>5. r.verdict = V(s, eq) /\ ~W(s, eq) /\ C(s, eq) \subseteq InOrder
    BY <1>2, <1>4, FaultlessResult DEF F
  <1> QED BY <1>1, <1>4, <1>5 DEF Works, Absent

\* SHA-512, SHA-384 and HKDF.
LEMMA LenientScore ==
  ASSUME NEW api, NEW r \in Lenient(api), ~r.fault
  PROVE  /\ Works(api) => r.verdict = Tally(1, 0, 0)
         /\ St(api) = {"NotStarted"} => r.verdict = Tally(0, 1, 0)
  <1> DEFINE V(s, eq) ==
               IF s = "Unsupported" THEN reportSkip ELSE reportPassFail(s = "Ok" /\ eq)
             W(s, eq) == s = "Ok" /\ ~eq
             C(s, eq) == {s}
             F(s, eq) == Result(V(s, eq), C(s, eq), W(s, eq))
  <1>1. ASSUME NEW s, NEW eq \in BOOLEAN,
               ~W(s, eq), C(s, eq) \subseteq InOrder
        PROVE  /\ s \notin Missing => V(s, eq) = Tally(1, 0, 0)
               /\ s = "NotStarted" => V(s, eq) = Tally(0, 1, 0)
    BY <1>1
       DEF reportPassFail, reportSkip, PairSkip, Plus, Tally, GoodAndRejects, InOrder, Missing
  <1>2. \A s, eq : W(s, eq) \in BOOLEAN
    OBVIOUS
  <1>3. Lenient(api) = {F(s, eq) : s \in St(api), eq \in BOOLEAN}
    BY DEF Lenient
  <1> HIDE DEF V, W, C, F
  <1>4. PICK s \in St(api), eq \in BOOLEAN : r = F(s, eq)
    BY <1>3
  <1>5. r.verdict = V(s, eq) /\ ~W(s, eq) /\ C(s, eq) \subseteq InOrder
    BY <1>2, <1>4, FaultlessResult DEF F
  <1> QED BY <1>1, <1>4, <1>5 DEF Works, Absent

\* AES-CTR.
LEMMA CtrScore ==
  ASSUME NEW r \in Ctr, ~r.fault
  PROVE  /\ Works("aesCtr") => r.verdict = Tally(1, 0, 0)
         /\ Absent("aesCtr") => r.verdict = Tally(0, 0, 1)
  <1> DEFINE V(s, eq) == IF s = "Ok" THEN reportPassFail(eq) ELSE reportSkip
             W(s, eq) == s = "Ok" /\ ~eq
             C(s, eq) == {s}
             F(s, eq) == Result(V(s, eq), C(s, eq), W(s, eq))
  <1>1. ASSUME NEW s, NEW eq \in BOOLEAN,
               ~W(s, eq), C(s, eq) \subseteq InOrder
        PROVE  /\ s \notin Missing => V(s, eq) = Tally(1, 0, 0)
               /\ s \in Missing => V(s, eq) = Tally(0, 0, 1)
    BY <1>1
       DEF reportPassFail, reportSkip, PairSkip, Plus, Tally, GoodAndRejects, InOrder, Missing
  <1>2. \A s, eq : W(s, eq) \in BOOLEAN
    OBVIOUS
  <1>3. Ctr = {F(s, eq) : s \in St("aesCtr"), eq \in BOOLEAN}
    BY DEF Ctr
  <1> HIDE DEF V, W, C, F
  <1>4. PICK s \in St("aesCtr"), eq \in BOOLEAN : r = F(s, eq)
    BY <1>3
  <1>5. r.verdict = V(s, eq) /\ ~W(s, eq) /\ C(s, eq) \subseteq InOrder
    BY <1>2, <1>4, FaultlessResult DEF F
  <1> QED BY <1>1, <1>4, <1>5 DEF Works, Absent

\* AES-CBC.
LEMMA CbcScore ==
  ASSUME NEW r \in Cbc, ~r.fault
  PROVE  /\ Works("aesCbcEncrypt") /\ Works("aesCbcDecrypt") => r.verdict = Tally(2, 0, 0)
         /\ Absent("aesCbcEncrypt") => r.verdict = Tally(0, 0, 1)
  <1> DEFINE V(se, sd, eqE, eqD) == IF se # "Ok" THEN reportSkip
               ELSE Plus(reportPassFail(eqE),
                         IF sd = "Ok" THEN reportPassFail(eqD) ELSE reportSkip)
             W(se, sd, eqE, eqD) == se = "Ok" /\ (~eqE \/ (sd = "Ok" /\ ~eqD))
             C(se, sd, eqE, eqD) == IF se # "Ok" THEN {se} ELSE {se, sd}
             F(se, sd, eqE, eqD) ==
               Result(V(se, sd, eqE, eqD), C(se, sd, eqE, eqD), W(se, sd, eqE, eqD))
  <1>1. ASSUME NEW se, NEW sd, NEW eqE \in BOOLEAN, NEW eqD \in BOOLEAN,
               ~W(se, sd, eqE, eqD), C(se, sd, eqE, eqD) \subseteq InOrder
        PROVE  /\ se \notin Missing /\ sd \notin Missing => V(se, sd, eqE, eqD) = Tally(2, 0, 0)
               /\ se \in Missing => V(se, sd, eqE, eqD) = Tally(0, 0, 1)
    BY <1>1
       DEF reportPassFail, reportSkip, PairSkip, Plus, Tally, GoodAndRejects, InOrder, Missing
  <1>2. \A se, sd, eqE, eqD : W(se, sd, eqE, eqD) \in BOOLEAN
    OBVIOUS
  <1>3. Cbc =
          {F(se, sd, eqE, eqD) :
             se \in St("aesCbcEncrypt"), sd \in St("aesCbcDecrypt"), eqE \in BOOLEAN, eqD \in
             BOOLEAN}
    BY DEF Cbc
  <1> HIDE DEF V, W, C, F
  <1>4. PICK se \in St("aesCbcEncrypt"), sd \in St("aesCbcDecrypt"), eqE \in BOOLEAN, eqD \in
             BOOLEAN :
          r = F(se, sd, eqE, eqD)
    BY <1>3
  <1>5. /\ r.verdict = V(se, sd, eqE, eqD) /\ ~W(se, sd, eqE, eqD)
        /\ C(se, sd, eqE, eqD) \subseteq InOrder
    BY <1>2, <1>4, FaultlessResult DEF F
  <1> QED BY <1>1, <1>4, <1>5 DEF Works, Absent

\* AES-GCM and ChaCha20-Poly1305.
LEMMA AeadScore ==
  ASSUME NEW enc, NEW dec, NEW r \in Aead(enc, dec), ~r.fault
  PROVE  /\ Works(enc) /\ Works(dec) => r.verdict = Tally(2, 0, 0)
         /\ Absent(enc) => r.verdict = Tally(0, 0, 2)
  <1> DEFINE V(se, sd, eqE, eqD) == IF se # "Ok" THEN PairSkip
               ELSE Plus(reportPassFail(eqE), reportPassFail(sd = "Ok" /\ eqD))
             W(se, sd, eqE, eqD) == se = "Ok" /\ (~eqE \/ sd = "AuthFailed" \/ (sd = "Ok" /\ ~eqD))
             C(se, sd, eqE, eqD) == IF se # "Ok" THEN {se} ELSE {se, sd}
             F(se, sd, eqE, eqD) ==
               Result(V(se, sd, eqE, eqD), C(se, sd, eqE, eqD), W(se, sd, eqE, eqD))
  <1>1. ASSUME NEW se, NEW sd, NEW eqE \in BOOLEAN, NEW eqD \in BOOLEAN,
               ~W(se, sd, eqE, eqD), C(se, sd, eqE, eqD) \subseteq InOrder
        PROVE  /\ se \notin Missing /\ sd \notin Missing => V(se, sd, eqE, eqD) = Tally(2, 0, 0)
               /\ se \in Missing => V(se, sd, eqE, eqD) = Tally(0, 0, 2)
    BY <1>1
       DEF reportPassFail, reportSkip, PairSkip, Plus, Tally, GoodAndRejects, InOrder, Missing
  <1>2. \A se, sd, eqE, eqD : W(se, sd, eqE, eqD) \in BOOLEAN
    OBVIOUS
  <1>3. Aead(enc, dec) =
          {F(se, sd, eqE, eqD) :
             se \in St(enc), sd \in St(dec), eqE \in BOOLEAN, eqD \in BOOLEAN}
    BY DEF Aead
  <1> HIDE DEF V, W, C, F
  <1>4. PICK se \in St(enc), sd \in St(dec), eqE \in BOOLEAN, eqD \in BOOLEAN :
          r = F(se, sd, eqE, eqD)
    BY <1>3
  <1>5. /\ r.verdict = V(se, sd, eqE, eqD) /\ ~W(se, sd, eqE, eqD)
        /\ C(se, sd, eqE, eqD) \subseteq InOrder
    BY <1>2, <1>4, FaultlessResult DEF F
  <1> QED BY <1>1, <1>4, <1>5 DEF Works, Absent

\* ECDSA and Ed25519 of a fresh key.
LEMMA RoundTripScore ==
  ASSUME NEW hash, NEW gen, NEW sign, NEW verify,
         NEW r \in RoundTrip(hash, gen, sign, verify), ~r.fault
  PROVE  /\ Works(gen) /\ Works(sign) /\ Works(verify) => r.verdict = Tally(1, 0, 0)
         /\ Absent(gen) => r.verdict = Tally(0, 0, 1)
  <1> DEFINE V(sh, sg, ss, v1, v2) == IF sg # "Ok" \/ ss # "Ok" THEN reportSkip
               ELSE reportPassFail(GoodAndRejects(v1 = "Ok", v2 # "Ok"))
             W(sh, sg, ss, v1, v2) == sg = "Ok" /\ ss = "Ok" /\ (v1 = "AuthFailed" \/ v2 = "Ok")
             C(sh, sg, ss, v1, v2) ==
               IF sg # "Ok" THEN {sg} ELSE IF ss # "Ok" THEN {sg, sh, ss} ELSE {sg, sh, ss, v1}
             F(sh, sg, ss, v1, v2) ==
               Result(V(sh, sg, ss, v1, v2), C(sh, sg, ss, v1, v2), W(sh, sg, ss, v1, v2))
  <1>1. ASSUME NEW sh, NEW sg, NEW ss, NEW v1, NEW v2,
               ~W(sh, sg, ss, v1, v2), C(sh, sg, ss, v1, v2) \subseteq InOrder
        PROVE  /\ sg \notin Missing /\ ss \notin Missing /\ v1 \notin Missing =>
                    V(sh, sg, ss, v1, v2) = Tally(1, 0, 0)
               /\ sg \in Missing => V(sh, sg, ss, v1, v2) = Tally(0, 0, 1)
    BY <1>1
       DEF reportPassFail, reportSkip, PairSkip, Plus, Tally, GoodAndRejects, InOrder, Missing
  <1>2. \A sh, sg, ss, v1, v2 : W(sh, sg, ss, v1, v2) \in BOOLEAN
    OBVIOUS
  <1>3. RoundTrip(hash, gen, sign, verify) =
          {F(sh, sg, ss, v1, v2) :
             sh \in hash, sg \in St(gen), ss \in St(sign), v1 \in St(verify), v2 \in
             St(verify)}
    BY DEF RoundTrip
  <1> HIDE DEF V, W, C, F
  <1>4. PICK sh \in hash, sg \in St(gen), ss \in St(sign), v1 \in St(verify), v2 \in
             St(verify) :
          r = F(sh, sg, ss, v1, v2)
    BY <1>3
  <1>5. /\ r.verdict = V(sh, sg, ss, v1, v2) /\ ~W(sh, sg, ss, v1, v2)
        /\ C(sh, sg, ss, v1, v2) \subseteq InOrder
    BY <1>2, <1>4, FaultlessResult DEF F
  <1> QED BY <1>1, <1>4, <1>5 DEF Works, Absent

\* EcdsaMessage and Ed25519Message.
LEMMA MessageTestScore ==
  ASSUME NEW gen, NEW sign, NEW verify, NEW r \in MessageTest(gen, sign, verify), ~r.fault
  PROVE  /\ Works(gen) /\ Works(sign) /\ Works(verify) => r.verdict = Tally(1, 0, 0)
         /\ Absent(gen) => r.verdict = Tally(0, 0, 1)
  <1> DEFINE V(sg, ss, sv) ==
               IF sg # "Ok" THEN reportSkip ELSE reportPassFail(ss = "Ok" /\ sv = "Ok")
             W(sg, ss, sv) == sg = "Ok" /\ ss = "Ok" /\ sv = "AuthFailed"
             C(sg, ss, sv) ==
               IF sg # "Ok" THEN {sg} ELSE IF ss # "Ok" THEN {sg, ss} ELSE {sg, ss, sv}
             F(sg, ss, sv) == Result(V(sg, ss, sv), C(sg, ss, sv), W(sg, ss, sv))
  <1>1. ASSUME NEW sg, NEW ss, NEW sv,
               ~W(sg, ss, sv), C(sg, ss, sv) \subseteq InOrder
        PROVE  /\ sg \notin Missing /\ ss \notin Missing /\ sv \notin Missing =>
                    V(sg, ss, sv) = Tally(1, 0, 0)
               /\ sg \in Missing => V(sg, ss, sv) = Tally(0, 0, 1)
    BY <1>1
       DEF reportPassFail, reportSkip, PairSkip, Plus, Tally, GoodAndRejects, InOrder, Missing
  <1>2. \A sg, ss, sv : W(sg, ss, sv) \in BOOLEAN
    OBVIOUS
  <1>3. MessageTest(gen, sign, verify) =
          {F(sg, ss, sv) :
             sg \in St(gen), ss \in St(sign), sv \in St(verify)}
    BY DEF MessageTest
  <1> HIDE DEF V, W, C, F
  <1>4. PICK sg \in St(gen), ss \in St(sign), sv \in St(verify) : r = F(sg, ss, sv)
    BY <1>3
  <1>5. r.verdict = V(sg, ss, sv) /\ ~W(sg, ss, sv) /\ C(sg, ss, sv) \subseteq InOrder
    BY <1>2, <1>4, FaultlessResult DEF F
  <1> QED BY <1>1, <1>4, <1>5 DEF Works, Absent

\* ECDH and X25519.
LEMMA AgreementScore ==
  ASSUME NEW gen, NEW shared, NEW r \in Agreement(gen, shared), ~r.fault
  PROVE  /\ Works(gen) /\ Works(shared) => r.verdict = Tally(1, 0, 0)
         /\ Absent(gen) => r.verdict = Tally(0, 0, 1)
  <1> DEFINE V(s1, s2, r1, r2, eq) ==
               IF {s1, s2} # {"Ok"} \/ {r1, r2} # {"Ok"} THEN reportSkip ELSE reportPassFail(eq)
             W(s1, s2, r1, r2, eq) == {s1, s2, r1, r2} = {"Ok"} /\ ~eq
             C(s1, s2, r1, r2, eq) ==
               IF {s1, s2} # {"Ok"} THEN {s1, s2} ELSE {s1, s2, r1, r2}
             F(s1, s2, r1, r2, eq) ==
               Result(V(s1, s2, r1, r2, eq), C(s1, s2, r1, r2, eq), W(s1, s2, r1, r2, eq))
  <1>1. ASSUME NEW s1, NEW s2, NEW r1, NEW r2, NEW eq \in BOOLEAN,
               ~W(s1, s2, r1, r2, eq), C(s1, s2, r1, r2, eq) \subseteq InOrder
        PROVE  /\ {s1, s2, r1, r2} \cap Missing = {} => V(s1, s2, r1, r2, eq) = Tally(1, 0, 0)
               /\ s1 \in Missing => V(s1, s2, r1, r2, eq) = Tally(0, 0, 1)
    BY <1>1
       DEF reportPassFail, reportSkip, PairSkip, Plus, Tally, GoodAndRejects, InOrder, Missing
  <1>2. \A s1, s2, r1, r2, eq : W(s1, s2, r1, r2, eq) \in BOOLEAN
    OBVIOUS
  <1>3. Agreement(gen, shared) =
          {F(s1, s2, r1, r2, eq) :
             s1 \in St(gen), s2 \in St(gen), r1 \in St(shared), r2 \in St(shared), eq \in
             BOOLEAN}
    BY DEF Agreement
  <1> HIDE DEF V, W, C, F
  <1>4. PICK s1 \in St(gen), s2 \in St(gen), r1 \in St(shared), r2 \in St(shared), eq \in
             BOOLEAN :
          r = F(s1, s2, r1, r2, eq)
    BY <1>3
  <1>5. /\ r.verdict = V(s1, s2, r1, r2, eq) /\ ~W(s1, s2, r1, r2, eq)
        /\ C(s1, s2, r1, r2, eq) \subseteq InOrder
    BY <1>2, <1>4, FaultlessResult DEF F
  <1> QED BY <1>1, <1>4, <1>5 DEF Works, Absent

\* Ed25519 against the vector of RFC 8032.
LEMMA VectorScore ==
  ASSUME NEW r \in Ed25519Vector, ~r.fault
  PROVE  /\ Works("ed25519DeriveFromSeed") /\ Works("ed25519Verify") /\ Works("ed25519Sign") =>
              r.verdict = Tally(1, 0, 0)
         /\ St("ed25519DeriveFromSeed") = {"Unsupported"} => r.verdict = Tally(0, 0, 1)
         /\ St("ed25519DeriveFromSeed") = {"NotStarted"} => r.verdict = Tally(0, 1, 0)
  <1> DEFINE V(ds, kat, ss, sv, pk, eq) ==
               IF ds = "Unsupported" THEN reportSkip
               ELSE reportPassFail(ds = "Ok" /\ pk /\ kat = "Ok" /\ ss = "Ok" /\ eq /\ sv = "Ok")
             W(ds, kat, ss, sv, pk, eq) ==
               ds = "Ok" /\ (~pk \/ kat = "AuthFailed"
                             \/ (ss = "Ok" /\ (~eq \/ sv = "AuthFailed")))
             C(ds, kat, ss, sv, pk, eq) ==
               IF ds # "Ok" THEN {ds} ELSE IF ss # "Ok" \/ ~eq THEN {ds, kat, ss}
               ELSE {ds, kat, ss, sv}
             F(ds, kat, ss, sv, pk, eq) ==
               Result(V(ds, kat, ss, sv, pk, eq), C(ds, kat, ss, sv, pk, eq),
                      W(ds, kat, ss, sv, pk, eq))
  <1>1. ASSUME NEW ds, NEW kat, NEW ss, NEW sv, NEW pk \in BOOLEAN, NEW eq \in BOOLEAN,
               ~W(ds, kat, ss, sv, pk, eq), C(ds, kat, ss, sv, pk, eq) \subseteq InOrder
        PROVE  /\ {ds, kat, ss, sv} \cap Missing = {} => V(ds, kat, ss, sv, pk, eq) = Tally(1, 0, 0)
               /\ ds = "Unsupported" => V(ds, kat, ss, sv, pk, eq) = Tally(0, 0, 1)
               /\ ds = "NotStarted" => V(ds, kat, ss, sv, pk, eq) = Tally(0, 1, 0)
    BY <1>1
       DEF reportPassFail, reportSkip, PairSkip, Plus, Tally, GoodAndRejects, InOrder, Missing
  <1>2. \A ds, kat, ss, sv, pk, eq : W(ds, kat, ss, sv, pk, eq) \in BOOLEAN
    OBVIOUS
  <1>3. Ed25519Vector =
          {F(ds, kat, ss, sv, pk, eq) :
             ds \in St("ed25519DeriveFromSeed"), kat \in St("ed25519Verify"),
             ss \in St("ed25519Sign"), sv \in St("ed25519Verify"), pk \in BOOLEAN, eq \in BOOLEAN}
    BY DEF Ed25519Vector
  <1> HIDE DEF V, W, C, F
  <1>4. PICK ds \in St("ed25519DeriveFromSeed"), kat \in St("ed25519Verify"),
             ss \in St("ed25519Sign"), sv \in St("ed25519Verify"), pk \in BOOLEAN, eq \in BOOLEAN :
          r = F(ds, kat, ss, sv, pk, eq)
    BY <1>3
  <1>5. /\ r.verdict = V(ds, kat, ss, sv, pk, eq) /\ ~W(ds, kat, ss, sv, pk, eq)
        /\ C(ds, kat, ss, sv, pk, eq) \subseteq InOrder
    BY <1>2, <1>4, FaultlessResult DEF F
  <1> QED BY <1>1, <1>4, <1>5 DEF Works, Absent

-----------------------------------------------------------------------------
(* What the engine under test answers *)

Good == API!GoodArgs

\* The calls the tests make, by what backends have them
SoftCalls == {"sha256", "sha512", "sha384", "hkdfSha256", "hmacSha256", "aesCbcEncrypt",
              "aesCbcDecrypt", "aesCtr", "aesGcmEncrypt", "aesGcmDecrypt",
              "chachaPolyEncrypt", "chachaPolyDecrypt", "random"}
KeyMakers == {"ecdsaGenerateKey", "x25519GenerateKey", "ed25519GenerateKey",
              "ed25519DeriveFromSeed"}
KeyUsers == {"ecdsaSign", "ecdsaVerify", "ecdsaSignMessage", "ecdsaVerifyMessage", "ecdhShared",
             "x25519Shared", "ed25519Sign", "ed25519Verify"}
TestCalls == SoftCalls \cup KeyMakers \cup KeyUsers

\* They are made as they are, and all but two of them of one primitive.
LEMMA TestCallParts ==
  ASSUME NEW api \in TestCalls
  PROVE  /\ API!Target(api, Good) = api /\ api \notin API!Streams
         /\ api \in SoftCalls \cup KeyMakers => API!Parts(api) = <<api>>
  <1>1. api \notin API!Streams
    BY DEF API!Streams, TestCalls, SoftCalls, KeyMakers, KeyUsers
  <1>2. api \notin DOMAIN API!WhenSet /\ api \notin DOMAIN API!Unpacks
    BY DEF API!WhenSet, API!Unpacks, TestCalls, SoftCalls, KeyMakers, KeyUsers
  <1>3. API!Target(api, Good) = api
    BY <1>2 DEF API!Target
  <1>4. api \in SoftCalls \cup KeyMakers => API!Parts(api) = <<api>>
    BY DEF API!Parts, SoftCalls, KeyMakers
  <1> QED BY <1>1, <1>3, <1>4

\* What the engine answers to good arguments.
LEMMA TestAnswers ==
  ASSUME NEW api \in TestCalls, backend[test.engine] # "none"
  PROVE  LET e == test.engine
             first == API!Primitive(e, API!Parts(api)[1], Good)
             failed == {r \in first : r.st # "Ok"}
             second == {[r EXCEPT !.run = TRUE] : r \in API!Primitive(e, API!Parts(api)[2], Good)}
         IN API!Answers(e, api, Good) =
              IF API!Parts(api) = <<api>> THEN first
              ELSE failed \cup (IF failed = first THEN {} ELSE second)
  <1>1. (Good.big /\ API!Parts(api) = <<api>>) = FALSE
    BY DEF Good, API!GoodArgs
  <1>2. [Good EXCEPT !.big = FALSE] = Good
    <2>1. Good \in [null : {{}}, zero : {{}}, aligned : BOOLEAN, big : BOOLEAN]
      BY DEF Good, API!GoodArgs
    <2>2. Good.big = FALSE
      BY DEF Good, API!GoodArgs
    <2>3. [Good EXCEPT !.big = Good.big] = Good
      BY <2>1
    <2> QED BY <2>2, <2>3, Zenon
  <1>3. [Good EXCEPT !.big = Good.big /\ API!Parts(api) = <<api>>] = Good
    BY <1>1, <1>2
  <1>4. ~API!BadArgs(api, Good)
    BY DEF API!BadArgs, API!GoodArgs, Good
  <1>5. API!Target(api, Good) = api /\ api \notin API!Streams
    BY TestCallParts
  <1> QED BY <1>3, <1>4, <1>5, Zenon DEF API!Answers

\* Without a backend every call answers NotStarted.
LEMMA NoneAnswers ==
  ASSUME NEW api \in TestCalls, backend[test.engine] = "none"
  PROVE  St(api) = {"NotStarted"}
  <1>1. API!Answers(test.engine, api, API!GoodArgs) = {[st |-> "NotStarted", run |-> FALSE]}
    BY TestCallParts DEF API!Answers, API!Answer
  <1>2. {a.st : a \in {[st |-> "NotStarted", run |-> FALSE]}} = {"NotStarted"}
    OBVIOUS
  <1> QED BY <1>1, <1>2 DEF St

\* The CC310, running, has every call.
LEMMA CC310Works ==
  ASSUME NEW api \in TestCalls, backend[test.engine] = "CC310", started
  PROVE  Works(api)
  <1>1. ASSUME NEW a, NEW q \in API!CC310Call(a, Good)
        PROVE  q.st \notin Missing /\ [q EXCEPT !.run = TRUE].st \notin Missing
    <2>1. \A st \in API!CC310Outcomes(a) : st \notin Missing
      BY DEF API!CC310Outcomes, Missing
    <2>2. ~Good.big
      BY DEF Good, API!GoodArgs
    <2>3. PICK st \in API!CC310Outcomes(a) : q = [st |-> st, run |-> TRUE]
      BY <1>1, <2>2 DEF API!CC310Call, API!Answer
    <2> QED BY <2>1, <2>3
  <1>2. ASSUME NEW a, NEW q \in API!Primitive(test.engine, a, Good)
        PROVE  q.st \notin Missing /\ [q EXCEPT !.run = TRUE].st \notin Missing
    <2>1. PICK p \in API!CC310Call(a, Good) :
            q = IF p.st = "Unsupported" /\ a \in API!Fallbacks THEN [st |-> "Ok", run |-> TRUE]
                ELSE p
      BY <1>2 DEF API!Primitive
    <2>2. p.st # "Unsupported"
      BY <1>1, <2>1 DEF Missing
    <2>3. q = p
      BY <2>1, <2>2
    <2> QED BY <1>1, <2>3
  <1>3. ASSUME NEW r \in API!Answers(test.engine, api, Good)
        PROVE  r.st \notin Missing
    <2>1. PICK p, q : p = API!Parts(api)[1] /\ q = API!Parts(api)[2]
      OBVIOUS
    <2>2. \/ r \in API!Primitive(test.engine, p, Good)
          \/ \E s \in API!Primitive(test.engine, q, Good) : r = [s EXCEPT !.run = TRUE]
      <3> DEFINE first == API!Primitive(test.engine, p, Good)
                 failed == {a \in first : a.st # "Ok"}
                 second == {[a EXCEPT !.run = TRUE] : a \in API!Primitive(test.engine, q, Good)}
      <3>1. API!Answers(test.engine, api, Good) =
              IF API!Parts(api) = <<api>> THEN first
              ELSE failed \cup (IF failed = first THEN {} ELSE second)
        BY <2>1, TestAnswers
      <3>2. r \in first \/ r \in second
        BY <1>3, <3>1
      <3> QED BY <3>2
    <2> QED BY <1>2, <2>2
  <1> QED BY <1>3 DEF Works, St, Good

\* The OnChip backend, running, has the calls that take no key pair, some of them by
\* the engine's fallback, and cannot make a key pair.
LEMMA OnChipWorks ==
  ASSUME NEW api, backend[test.engine] = "OnChip", onchip
  PROVE  /\ api \in SoftCalls => Works(api)
         /\ api \in KeyMakers => St(api) = {"Unsupported"}
  <1>1. ASSUME api \in SoftCalls \cup KeyMakers
        PROVE  API!Answers(test.engine, api, Good) = API!Primitive(test.engine, api, Good)
    <2>1. api \in TestCalls /\ API!Parts(api) = <<api>>
      BY <1>1, TestCallParts DEF TestCalls
    <2>2. API!Parts(api)[1] = api
      BY <2>1
    <2> QED BY <2>1, <2>2, TestAnswers
  <1>2. ASSUME api \in SoftCalls PROVE Works(api)
    <2>1. ~API!SoftRefuses(Good)
      BY DEF API!SoftRefuses, API!GoodArgs, Good
    <2>2. api \in API!OnChipOwn \cup API!Fallbacks
      BY <1>2
         DEF SoftCalls, API!OnChipOwn, API!Fallbacks, API!Encrypts, API!Decrypts, API!CbcCtr,
                  API!CbcDecrypts
    <2>3. api \in API!OnChipOwn => \A q \in API!OnChipCall(api, Good) : q.st \notin Missing
      BY <2>1 DEF API!OnChipCall, API!Answer, Missing
    <2>4. api \notin API!OnChipOwn =>
            API!OnChipCall(api, Good) = {[st |-> "Unsupported", run |-> FALSE]}
      BY DEF API!OnChipCall, API!Answer
    <2>5. \A r \in API!Primitive(test.engine, api, Good) : r.st \notin Missing
      BY <2>2, <2>3, <2>4 DEF API!Primitive, Missing
    <2> QED BY <1>1, <1>2, <2>5 DEF Works, St, Good
  <1>3. ASSUME api \in KeyMakers PROVE St(api) = {"Unsupported"}
    <2>1. api \notin API!OnChipOwn \cup API!Fallbacks
      BY <1>3
         DEF KeyMakers, API!OnChipOwn, API!Fallbacks, API!Encrypts, API!Decrypts, API!CbcCtr,
                  API!CbcDecrypts
    <2>2. API!OnChipCall(api, Good) = {[st |-> "Unsupported", run |-> FALSE]}
      BY <2>1 DEF API!OnChipCall, API!Answer
    <2>3. API!Primitive(test.engine, api, Good) = {[st |-> "Unsupported", run |-> FALSE]}
      BY <2>1, <2>2 DEF API!Primitive
    <2>4. {a.st : a \in {[st |-> "Unsupported", run |-> FALSE]}} = {"Unsupported"}
      OBVIOUS
    <2> QED BY <1>1, <1>3, <2>3, <2>4 DEF St, Good
  <1> QED BY <1>2, <1>3

-----------------------------------------------------------------------------
(* The counts of each test, and their sums *)

\* The case of DocumentedCounts the self test is in
Kind == IF backend[test.engine] # "CC310" THEN backend[test.engine]
        ELSE IF Taken(test.found) = Slots THEN "full" ELSE "CC310"

\* What the tests before the n-th add up to in each case
Before(kind, n) ==
  LET all == <<0, 1, 2, 3, 4, 5, 7, 8, 10, 12, 13, 14, 15, 16, 19, 20, 21, 22, 23>> IN
  CASE kind = "CC310" -> Tally(all[n], 0, 0)
    [] kind = "full"  -> IF n < 15 THEN Tally(all[n], 0, 0) ELSE Tally(all[n] - 3, 1, 0)
    [] kind = "OnChip" ->
         Tally(IF n < 10 THEN all[n] ELSE IF n < 19 THEN 12 ELSE 13, 0,
               <<0, 0, 0, 0, 0, 0, 0, 0, 0, 0, 1, 2, 3, 4, 7, 8, 9, 10, 10>>[n])
    [] kind = "none" ->
         Tally(0, <<0, 1, 2, 3, 4, 5, 5, 5, 5, 5, 5, 5, 5, 5, 6, 7, 7, 7, 8>>[n],
               <<0, 0, 0, 0, 0, 0, 1, 2, 4, 6, 7, 8, 9, 10, 10, 10, 11, 12, 12>>[n])

\* The tests that count for two
Twofold == {"cbc", "gcm", "chacha"}

\* What one test adds
Score(kind, name) ==
  CASE kind \in {"CC310", "full"} -> Tally(IF name \in Twofold THEN 2 ELSE 1, 0, 0)
    [] kind = "OnChip" ->
         IF name \in {"ecdsa", "ecdsaMessage", "ecdh", "x25519", "edVector", "ed25519", "edMessage"}
         THEN Tally(0, 0, 1) ELSE Tally(IF name \in Twofold THEN 2 ELSE 1, 0, 0)
    [] kind = "none" ->
         IF name \in {"sha256", "sha512", "sha384", "hkdf", "hmac", "edVector", "random"}
         THEN Tally(0, 1, 0) ELSE Tally(0, 0, IF name \in {"gcm", "chacha"} THEN 2 ELSE 1)

Kinds == {"CC310", "full", "OnChip", "none"}

\* The engine's guard is enough: see SingleEngineGuard
EngineRuns ==
  /\ backend[test.engine] \in BackendPtr
  /\ backend[test.engine] = "CC310" => started
  /\ backend[test.engine] = "OnChip" => onchip

\* The sums are right.
LEMMA BeforeNext ==
  ASSUME NEW kind \in Kinds, NEW i \in 1..18, Script[i] # "rsa"
  PROVE  Before(kind, i + 1) = Plus(Before(kind, i), Score(kind, Script[i]))
  <1>1. i \in {1, 2, 3, 4, 5, 6, 7, 8, 9, 10, 11, 12, 13, 14, 15, 16, 17, 18}
    OBVIOUS
  <1>2. CASE i \in {1, 2, 3, 4, 5}
    BY <1>2 DEF Before, Score, Plus, Tally, Script, Twofold, Kinds
  <1>3. CASE i \in {6, 7, 8, 9}
    BY <1>3 DEF Before, Score, Plus, Tally, Script, Twofold, Kinds
  <1>4. CASE i \in {10, 11, 12, 13}
    BY <1>4 DEF Before, Score, Plus, Tally, Script, Twofold, Kinds
  <1>5. CASE i \in {15, 16, 17, 18}
    BY <1>5 DEF Before, Score, Plus, Tally, Script, Twofold, Kinds
  <1>6. i # 14
    BY DEF Script
  <1> QED BY <1>1, <1>2, <1>3, <1>4, <1>5, <1>6

\* What a test that is one step adds on a device in order.
LEMMA ResultsScore ==
  ASSUME EngineRuns, NEW i \in 1..Len(Script), Script[i] # "rsa",
         NEW r \in Results(Script[i]), ~r.fault
  PROVE  r.verdict = Score(Kind, Script[i])
  <1>1. PICK name : name = Script[i]
    OBVIOUS
  <1>2. name \in {"sha256", "sha512", "sha384", "hkdf", "hmac", "cbc", "ctr", "gcm", "chacha",
                  "ecdsa", "ecdsaMessage", "ecdh", "x25519", "edVector", "ed25519",
                  "edMessage", "random"}
    BY <1>1 DEF Script
  <1>3. r \in Results(name)
    BY <1>1
  <1>4. Kind \in Kinds
    BY DEF Kind, Kinds, EngineRuns, BackendPtr
  <1>5. /\ Kind \in {"CC310", "full"} => backend[test.engine] = "CC310" /\ started
        /\ Kind = "OnChip" => backend[test.engine] = "OnChip" /\ onchip
        /\ Kind = "none" => backend[test.engine] = "none"
    BY DEF Kind, EngineRuns, BackendPtr
  <1>6. /\ Kind \in {"CC310", "full"} => \A api \in TestCalls : Works(api)
        /\ Kind = "OnChip" => /\ \A api \in SoftCalls : Works(api)
                              /\ \A api \in KeyMakers : St(api) = {"Unsupported"}
        /\ Kind = "none" => \A api \in TestCalls : St(api) = {"NotStarted"}
    BY <1>5, CC310Works, OnChipWorks, NoneAnswers
  <1>7. \A api : St(api) \in {{"Unsupported"}, {"NotStarted"}} => Absent(api)
    BY DEF Absent, Missing
  <1>8. PICK kind \in Kinds : kind = Kind
    BY <1>4
  <1>9. CASE name \in {"sha256", "hmac", "random"}
    <2>1. PICK api \in SoftCalls : r \in Strict(api)
      BY <1>3, <1>9 DEF Results, SoftCalls
    <2>2. Works(api) => r.verdict = Tally(1, 0, 0)
      BY <2>1, StrictScore
    <2>3. Absent(api) => r.verdict = Tally(0, 1, 0)
      BY <2>1, StrictScore
    <2>4. Score(kind, name) = IF kind = "none" THEN Tally(0, 1, 0) ELSE Tally(1, 0, 0)
      BY <1>9 DEF Score, Kinds, Twofold
    <2> QED BY <1>1, <1>6, <1>7, <1>8, <2>2, <2>3, <2>4 DEF TestCalls, Kinds
  <1>10. CASE name \in {"sha512", "sha384", "hkdf"}
    <2>1. PICK api \in SoftCalls : r \in Lenient(api)
      BY <1>3, <1>10 DEF Results, SoftCalls
    <2>2. Works(api) => r.verdict = Tally(1, 0, 0)
      BY <2>1, LenientScore
    <2>3. St(api) = {"NotStarted"} => r.verdict = Tally(0, 1, 0)
      BY <2>1, LenientScore
    <2>4. Score(kind, name) = IF kind = "none" THEN Tally(0, 1, 0) ELSE Tally(1, 0, 0)
      BY <1>10 DEF Score, Kinds, Twofold
    <2> QED BY <1>1, <1>6, <1>8, <2>2, <2>3, <2>4 DEF TestCalls, Kinds
  <1>11. CASE name = "cbc"
    <2>1. r \in Cbc /\ {"aesCbcEncrypt", "aesCbcDecrypt"} \subseteq SoftCalls
      BY <1>3, <1>11 DEF Results, SoftCalls
    <2>2. Works("aesCbcEncrypt") /\ Works("aesCbcDecrypt") => r.verdict = Tally(2, 0, 0)
      BY <2>1, CbcScore
    <2>3. Absent("aesCbcEncrypt") => r.verdict = Tally(0, 0, 1)
      BY <2>1, CbcScore
    <2>4. Score(kind, name) = IF kind = "none" THEN Tally(0, 0, 1) ELSE Tally(2, 0, 0)
      BY <1>11 DEF Score, Kinds, Twofold
    <2> QED BY <1>1, <1>6, <1>7, <1>8, <2>1, <2>2, <2>3, <2>4 DEF TestCalls, Kinds
  <1>12. CASE name = "ctr"
    <2>1. r \in Ctr /\ "aesCtr" \in SoftCalls
      BY <1>3, <1>12 DEF Results, SoftCalls
    <2>2. Works("aesCtr") => r.verdict = Tally(1, 0, 0)
      BY <2>1, CtrScore
    <2>3. Absent("aesCtr") => r.verdict = Tally(0, 0, 1)
      BY <2>1, CtrScore
    <2>4. Score(kind, name) = IF kind = "none" THEN Tally(0, 0, 1) ELSE Tally(1, 0, 0)
      BY <1>12 DEF Score, Kinds, Twofold
    <2> QED BY <1>1, <1>6, <1>7, <1>8, <2>1, <2>2, <2>3, <2>4 DEF TestCalls, Kinds
  <1>13. CASE name \in {"gcm", "chacha"}
    <2>1. PICK enc \in SoftCalls, dec \in SoftCalls : r \in Aead(enc, dec)
      BY <1>3, <1>13 DEF Results, SoftCalls
    <2>2. Works(enc) /\ Works(dec) => r.verdict = Tally(2, 0, 0)
      BY <2>1, AeadScore
    <2>3. Absent(enc) => r.verdict = Tally(0, 0, 2)
      BY <2>1, AeadScore
    <2>4. Score(kind, name) = IF kind = "none" THEN Tally(0, 0, 2) ELSE Tally(2, 0, 0)
      BY <1>13 DEF Score, Kinds, Twofold
    <2> QED BY <1>1, <1>6, <1>7, <1>8, <2>2, <2>3, <2>4 DEF TestCalls, Kinds
  <1>14. CASE name \in {"ecdsa", "ed25519"}
    <2>1. PICK hash \in {St("sha256"), {"Ok"}}, gen \in KeyMakers, sign \in KeyUsers,
               verify \in KeyUsers :
            r \in RoundTrip(hash, gen, sign, verify)
      BY <1>3, <1>14 DEF Results, KeyMakers, KeyUsers
    <2>2. Works(gen) /\ Works(sign) /\ Works(verify) => r.verdict = Tally(1, 0, 0)
      BY <2>1, RoundTripScore
    <2>3. Absent(gen) => r.verdict = Tally(0, 0, 1)
      BY <2>1, RoundTripScore
    <2>4. Score(kind, name) = IF kind \in {"OnChip", "none"} THEN Tally(0, 0, 1) ELSE Tally(1, 0, 0)
      BY <1>14 DEF Score, Kinds, Twofold
    <2> QED BY <1>1, <1>6, <1>7, <1>8, <2>2, <2>3, <2>4 DEF TestCalls, Kinds
  <1>15. CASE name \in {"ecdsaMessage", "edMessage"}
    <2>1. PICK gen \in KeyMakers, sign \in KeyUsers, verify \in KeyUsers :
            r \in MessageTest(gen, sign, verify)
      BY <1>3, <1>15 DEF Results, KeyMakers, KeyUsers
    <2>2. Works(gen) /\ Works(sign) /\ Works(verify) => r.verdict = Tally(1, 0, 0)
      BY <2>1, MessageTestScore
    <2>3. Absent(gen) => r.verdict = Tally(0, 0, 1)
      BY <2>1, MessageTestScore
    <2>4. Score(kind, name) = IF kind \in {"OnChip", "none"} THEN Tally(0, 0, 1) ELSE Tally(1, 0, 0)
      BY <1>15 DEF Score, Kinds, Twofold
    <2> QED BY <1>1, <1>6, <1>7, <1>8, <2>2, <2>3, <2>4 DEF TestCalls, Kinds
  <1>16. CASE name \in {"ecdh", "x25519"}
    <2>1. PICK gen \in KeyMakers, shared \in KeyUsers : r \in Agreement(gen, shared)
      BY <1>3, <1>16 DEF Results, KeyMakers, KeyUsers
    <2>2. Works(gen) /\ Works(shared) => r.verdict = Tally(1, 0, 0)
      BY <2>1, AgreementScore
    <2>3. Absent(gen) => r.verdict = Tally(0, 0, 1)
      BY <2>1, AgreementScore
    <2>4. Score(kind, name) = IF kind \in {"OnChip", "none"} THEN Tally(0, 0, 1) ELSE Tally(1, 0, 0)
      BY <1>16 DEF Score, Kinds, Twofold
    <2> QED BY <1>1, <1>6, <1>7, <1>8, <2>2, <2>3, <2>4 DEF TestCalls, Kinds
  <1>17. CASE name = "edVector"
    <2>1. /\ r \in Ed25519Vector
          /\ "ed25519DeriveFromSeed" \in KeyMakers
          /\ {"ed25519Verify", "ed25519Sign"} \subseteq KeyUsers
      BY <1>3, <1>17 DEF Results, KeyMakers, KeyUsers
    <2>2. Works("ed25519DeriveFromSeed") /\ Works("ed25519Verify") /\ Works("ed25519Sign") =>
            r.verdict = Tally(1, 0, 0)
      BY <2>1, VectorScore
    <2>3. /\ St("ed25519DeriveFromSeed") = {"Unsupported"} => r.verdict = Tally(0, 0, 1)
          /\ St("ed25519DeriveFromSeed") = {"NotStarted"} => r.verdict = Tally(0, 1, 0)
      BY <2>1, VectorScore
    <2>4. Score(kind, name) = IF kind = "OnChip" THEN Tally(0, 0, 1)
                              ELSE IF kind = "none" THEN Tally(0, 1, 0) ELSE Tally(1, 0, 0)
      BY <1>17 DEF Score, Kinds, Twofold
    <2> QED BY <1>1, <1>6, <1>8, <2>1, <2>2, <2>3, <2>4 DEF TestCalls, Kinds
  <1> QED BY <1>2, <1>9, <1>10, <1>11, <1>12, <1>13, <1>14, <1>15, <1>16, <1>17

-----------------------------------------------------------------------------
(* The backend runs *)

\* An engine with a backend has one that runs.
GuardInv == \A e \in Engines : /\ backend[e] = "CC310" => started
                               /\ backend[e] = "OnChip" => onchip

\* One engine keeps it.
LEMMA GuardInductive ==
  ASSUME \A e \in Engines, f \in Engines : e = f,
         SafetyInv, GuardInv, [Next]_vars
  PROVE  GuardInv'
  <1>0. TypeOK /\ CoreInv /\ LibraryBalanced
    BY DEF SafetyInv, CoreInv
  <1>1. ASSUME NEW e \in Engines, Begin(e) PROVE GuardInv'
    <2>1. PICK p \in Prefer, lib \in BOOLEAN, rnd \in BOOLEAN, ecb \in BOOLEAN :
            begin(e, p, lib, rnd, ecb)
      BY <1>1 DEF Begin
    <2>2. /\ backend'[e] = "CC310" => started'
          /\ backend'[e] = "OnChip" => onchip'
      BY <1>0, <2>1 DEF begin, TypeOK
    <2> QED BY <2>2 DEF GuardInv
  <1>2. ASSUME NEW e \in Engines, end(e) PROVE GuardInv'
    <2>1. backend'[e] = "none"
      BY <1>0, <1>2, EndEffect
    <2> QED BY <2>1 DEF GuardInv
  <1>3. CASE UNCHANGED <<backend, started, onchip>>
    BY <1>3 DEF GuardInv
  <1>4. ASSUME NEW e \in Engines, UseKey(e) PROVE UNCHANGED <<backend, started, onchip>>
    BY <1>0, <1>4, UseKeyEffect DEF Unmoved
  <1>5. ASSUME NEW e \in Engines, NEW h \in HandlePtrs, MakeKey(e, h)
        PROVE  UNCHANGED <<backend, started, onchip>>
    BY <1>0, <1>5, MakeKeyEffect DEF MakeKeyAnswer, life
  <1>6. ASSUME NEW e \in Engines, NEW h \in HandlePtrs, rsaReleaseKeyPair(e, h)
        PROVE  UNCHANGED <<backend, started, onchip>>
    BY <1>0, <1>6, ReleaseEffect DEF life
  <1>7. ASSUME AppStep PROVE UNCHANGED <<backend, started, onchip>>
    BY <1>0, <1>7, AppEffect DEF life
  <1>8. ASSUME UNCHANGED vars PROVE UNCHANGED <<backend, started, onchip>>
    BY <1>8 DEF vars
  <1> QED
    BY <1>1, <1>2, <1>3, <1>4, <1>5, <1>6, <1>7, <1>8, StepCases

-----------------------------------------------------------------------------
(* What the RSA calls answer when the library does: ret'.crys is the library's *)

\* A key is made if there is a free slot.
LEMMA GenerateInOrder ==
  ASSUME NEW h \in Handles, rsaGenerateKeyPair(test.engine, h), EngineRuns,
         ret'.crys = CRYS_OK
  PROVE  /\ backend[test.engine] = "none" => ret'.st = "NotStarted"
         /\ backend[test.engine] = "OnChip" => ret'.st = "Unsupported"
         /\ backend[test.engine] = "CC310" =>
              ret'.st = IF PoolFull THEN "InternalError" ELSE "Ok"
         /\ Leak = {}
  <1>0. h # NullPtr
    OBVIOUS
  <1>1. CASE NC_GUARD(test.engine, "rsaGenerate")
    BY <1>1, NoLeak DEF NC_GUARD, Refuse, Return
  <1>2. CASE backend[test.engine] = "OnChip" /\ GiveUp("rsaGenerate", h, "Unsupported")
    BY <1>2, NoLeak DEF GiveUp, Return
  <1>3. CASE backend[test.engine] = "CC310" /\ CC310Generate(h)
    <2>1. started
      BY <1>3 DEF EngineRuns
    <2>2. CASE PoolFull /\ GiveUp("rsaGenerate", h, "InternalError")
      BY <1>3, <2>2, NoLeak DEF GiveUp, Return
    <2>3. ASSUME NEW s \in Slots, rsaAllocSlot(s), KeyGenFails(h, s) PROVE FALSE
      BY <2>3 DEF KeyGenFails, Return
    <2>4. ASSUME NEW s \in Slots, rsaAllocSlot(s), InstallKey("rsaGenerate", h, s, nextKey)
          PROVE  ret'.st = "Ok" /\ ~PoolFull
      BY <2>4 DEF InstallKey, Return, rsaAllocSlot, PoolFull
    <2> QED BY <1>3, <2>1, <2>2, <2>3, <2>4, NoLeak DEF CC310Generate
  <1> QED BY <1>0, <1>1, <1>2, <1>3 DEF rsaGenerateKeyPair

\* A handle of a live slot of a running CC310
Usable(h) == backend[test.engine] = "CC310" /\ started /\ NamesSlot(h)

\* It passes the engine's and the backend's checks.
LEMMA UsablePasses ==
  ASSUME NEW h, Usable(h)
  PROVE  /\ Valid(h) /\ NamesSlot(h) /\ started /\ backend[test.engine] = "CC310"
         /\ ~EngineArgsBad(h, "ok") /\ ~KeyPairArgsBad(h, "ok")
  <1>1. Valid(h)
    BY SlotAssumption DEF Usable, NamesSlot, rsaSlotValid, Valid, Slots, kRsaInvalidSlot
  <1> QED BY <1>1 DEF Usable, EngineArgsBad, KeyPairArgsBad, BounceFails

\* The library's error is the call's.
LEMMA UseInOrder ==
  ASSUME CoreInv, NEW h, Usable(h)
  PROVE  /\ rsaSignWithKeyPair(test.engine, h, "ok") /\ ret'.crys = CRYS_OK => ret'.st = "Ok"
         /\ rsaExportPublicKey(test.engine, h, FALSE) /\ ret'.crys = CRYS_OK =>
              ret'.st = "Ok" /\ ret'.key \in Key
         /\ \A own : rsaVerifyWithKeyPair(test.engine, h, "ok", own) =>
              /\ ret'.crys = CRYS_OK => ret'.st = "Ok"
              /\ ~own => ret'.st # "Ok"
         /\ \A pub, own : /\ pub # NoKey /\ ret'.crys = CRYS_OK
                          /\ rsaVerifyWithPublicKey(test.engine, pub, FALSE, "ok", own)
              => ret'.st = "Ok"
  <1>1. /\ Valid(h) /\ NamesSlot(h) /\ started /\ backend[test.engine] = "CC310"
        /\ ~EngineArgsBad(h, "ok") /\ ~KeyPairArgsBad(h, "ok")
    BY UsablePasses
  <1>2. ASSUME rsaSignWithKeyPair(test.engine, h, "ok"), ret'.crys = CRYS_OK PROVE ret'.st = "Ok"
    <2>1. CC310Sign("rsaSign", h, "ok", FALSE)
      BY <1>1, <1>2 DEF rsaSignWithKeyPair, NC_GUARD
    <2> QED BY <1>1, <1>2, <2>1 DEF CC310Sign, Compute, Return
  <1>3. ASSUME rsaExportPublicKey(test.engine, h, FALSE), ret'.crys = CRYS_OK
        PROVE  ret'.st = "Ok" /\ ret'.key \in Key
    <2>1. CC310Export(h)
      BY <1>1, <1>3 DEF rsaExportPublicKey, NC_GUARD
    <2>2. slots[handles[h].slot].key \in Key
      BY <1>1, NamedSlotKey
    <2> QED BY <1>1, <1>3, <2>1, <2>2 DEF CC310Export, Compute, Return
  <1>4. ASSUME NEW own, rsaVerifyWithKeyPair(test.engine, h, "ok", own)
        PROVE  /\ ret'.crys = CRYS_OK => ret'.st = "Ok"
               /\ ~own => ret'.st # "Ok"
    <2>1. CC310Verify("rsaVerify", h, "ok", own, FALSE)
      BY <1>1, <1>4 DEF rsaVerifyWithKeyPair, NC_GUARD
    <2>2. PICK k : VerifyUnder("rsaVerify", k, own, FALSE)
      BY <1>1, <2>1 DEF CC310Verify
    <2> QED BY <2>2 DEF VerifyUnder, Compute, Return
  <1>5. ASSUME NEW pub, NEW own, pub # NoKey, ret'.crys = CRYS_OK,
               rsaVerifyWithPublicKey(test.engine, pub, FALSE, "ok", own)
        PROVE  ret'.st = "Ok"
    <2>1. CC310VerifyPub("rsaVerifyWithPubKey", pub, FALSE, "ok", own, FALSE)
      BY <1>1, <1>5 DEF rsaVerifyWithPublicKey, NC_GUARD
    <2>2. ASSUME NEW crys \in CrysErrors, NEW err,
                 Compute("rsaVerifyWithPubKey", "BadParam", crys, NoKey, err)
          PROVE  FALSE
      BY <1>5, <2>2 DEF Compute, Return
    <2>3. VerifyUnder("rsaVerifyWithPubKey", pub, own, FALSE)
      BY <1>1, <1>5, <2>1, <2>2 DEF CC310VerifyPub, BounceFails
    <2> QED BY <1>5, <2>3 DEF VerifyUnder, Compute, Return
  <1> QED BY <1>2, <1>3, <1>4, <1>5

-----------------------------------------------------------------------------
(* The invariant of the counts, step by step *)

\* The RSA tests passed when a step of them is due
RsaPassed(step) == CASE step \in {"export", "verifyPub"} -> 1
                     [] step \in {"release", "again", "releaseAgain"} -> 2
                     [] OTHER -> 0

\* The report so far, on a device in order
Expected == CASE test.step = "done" -> Before(Kind, 19)
              [] test.step \in {"test", "generate"} -> Before(Kind, test.at)
              [] OTHER -> Tally(16 + RsaPassed(test.step), 0, 0)

\* What is so as long as nothing went wrong.  The RSA test goes beyond its first
\* call only on a CC310 with a free slot
Tallied ==
  /\ report = Expected
  /\ test.leaked = {}
  /\ test.step \in RsaSteps => test.at = 14
  /\ test.step \in RsaSteps \ {"generate"} => Kind = "CC310"
  /\ test.step \in {"tampered", "again", "releaseAgain"} => test.ok
  /\ test.step = "verifyPub" => test.pub # NoKey

CountInv ==
  test.step # "idle" =>
    /\ "faults" \in DOMAIN test /\ test.faults \in Nat
    /\ test.faults = 0 => Tallied

RunCtx == CoreInv /\ RunInv /\ GuardInv /\ CountInv

\* Where RSA's test is.
LEMMA RsaPlace == \A n \in 1..18 : Script[n] = "rsa" <=> n = 14
  BY DEF Script

\* An RSA step without a fault.
LEMMA NotingFaults ==
  ASSUME NEW t, Fields \subseteq DOMAIN t, Noting(t), t.faults = test.faults,
         test.faults \in Nat
  PROVE  /\ "faults" \in DOMAIN test' /\ test'.faults \in Nat
         /\ test'.faults = 0 => test.faults = 0 /\ ret'.crys = CRYS_OK
  <1>1. PICK n, lk : n = Met /\ lk = Leak
    OBVIOUS
  <1>2. test' = [t EXCEPT !.faults = t.faults + n, !.leaked = t.leaked \cup lk]
    BY <1>1 DEF Noting
  <1>3. n = IF ret'.crys # CRYS_OK THEN 1 ELSE 0
    BY <1>1 DEF Met
  <1> QED BY <1>2, <1>3 DEF Fields

\* Going to the next test.
LEMMA GotoCount ==
  ASSUME NEW t, Fields \subseteq DOMAIN t, t.at \in 1..18, NEW g, g = Goto(t)
  PROVE  /\ g.faults = t.faults
         /\ t.at = 18 => g.step = "done"
         /\ t.at # 18 => /\ g.at = t.at + 1
                         /\ g.step = IF t.at = 13 THEN "generate" ELSE "test"
  <1>1. CASE t.at = 18
    BY <1>1, ScriptShape DEF Goto, Fields
  <1>2. CASE t.at # 18
    <2>1. PICK n : n = t.at + 1
      OBVIOUS
    <2>2. n \in 1..18 /\ (n = 14 <=> t.at = 13)
      BY <1>2, <2>1
    <2>3. Script[n] = "rsa" <=> n = 14
      BY <2>2, RsaPlace
    <2>4. g = [t EXCEPT !.at = n, !.step = IF Script[n] = "rsa" THEN "generate" ELSE "test"]
      BY <1>2, <2>1, ScriptShape DEF Goto
    <2> QED BY <1>2, <2>1, <2>2, <2>3, <2>4 DEF Fields
  <1> QED BY <1>1, <1>2

\* The case stays what it is.
LEMMA KindStays ==
  ASSUME UNCHANGED backend, test'.engine = test.engine, test'.found = test.found
  PROVE  Kind' = Kind
  BY DEF Kind

\* After the i-th test.
LEMMA NextTallied ==
  ASSUME NEW i \in 1..18, report' = Before(Kind, i + 1), Kind' = Kind, test'.leaked = {},
         i = 18 => test'.step = "done",
         i # 18 => /\ test'.at = i + 1
                   /\ test'.step = IF i = 13 THEN "generate" ELSE "test"
  PROVE  Tallied'
  <1>1. PICK n : n = i + 1 /\ n \in 2..19
    OBVIOUS
  <1>2. report' = Before(Kind', n)
    BY <1>1
  <1>3. CASE i = 18
    BY <1>1, <1>2, <1>3 DEF Tallied, Expected, RsaSteps, HoldsKey
  <1>4. CASE i # 18
    BY <1>1, <1>2, <1>4 DEF Tallied, Expected, RsaSteps, HoldsKey
  <1> QED BY <1>3, <1>4

\* The facts of an engine under test.
LEMMA CtxFacts ==
  ASSUME RunCtx, test.step \in RsaSteps \cup {"test"}
  PROVE  /\ EngineRuns /\ test.engine \in Engines /\ Fields \subseteq DOMAIN test
         /\ Kind \in Kinds /\ test.at \in 1..18
         /\ test.faults \in Nat /\ (test.faults = 0 => Tallied)
         /\ test.step \in HoldsKey => Usable(KeyVar)
  <1>1. test.step # "idle"
    BY DEF RsaSteps, HoldsKey
  <1>2. test.engine \in Engines /\ Fields \subseteq DOMAIN test /\ test.at \in 1..18
    BY <1>1, ScriptShape DEF RunCtx, RunInv, TestTypes
  <1>3. EngineRuns
    BY <1>2 DEF EngineRuns, RunCtx, GuardInv, CoreInv, TypeOK
  <1>4. Kind \in Kinds
    BY <1>3 DEF Kind, Kinds, EngineRuns, BackendPtr
  <1>5. ASSUME test.step \in HoldsKey PROVE Usable(KeyVar)
    <2>1. Held = {KeyVar}
      BY <1>5 DEF Held, HoldsKey
    <2>2. backend[test.engine] = "CC310" /\ NamesSlot(KeyVar)
      BY <1>1, <2>1 DEF RunCtx, RunInv, SlotsAccounted
    <2> QED BY <1>3, <2>2 DEF Usable, EngineRuns
  <1> QED BY <1>1, <1>2, <1>3, <1>4, <1>5 DEF RunCtx, CountInv

\* A test that is one step.
LEMMA RunTestCount ==
  ASSUME RunCtx, RunTest
  PROVE  CountInv'
  <1>1. /\ test.step = "test" /\ Script[test.at] # "rsa"
        /\ EngineRuns /\ Fields \subseteq DOMAIN test
        /\ Kind \in Kinds /\ test.at \in 1..18
        /\ test.faults \in Nat /\ (test.faults = 0 => Tallied)
    BY CtxFacts DEF RunTest, RunCtx, RunInv, TestTypes
  <1>2. PICK r \in Results(Script[test.at]) :
          /\ report' = Plus(report, r.verdict)
          /\ test' = Goto([test EXCEPT !.wrong = @ \/ r.wrong,
                                       !.faults = IF r.fault THEN @ + 1 ELSE @])
    BY DEF RunTest
  <1>3. PICK n : n = IF r.fault THEN test.faults + 1 ELSE test.faults
    OBVIOUS
  <1>4. PICK t : t = [test EXCEPT !.wrong = @ \/ r.wrong, !.faults = n]
    OBVIOUS
  <1>5. /\ Fields \subseteq DOMAIN t /\ t.at = test.at /\ t.engine = test.engine
        /\ t.found = test.found /\ t.leaked = test.leaked /\ t.faults = n
    BY <1>1, <1>4 DEF Fields
  <1>6. test' = Goto(t)
    BY <1>2, <1>3, <1>4
  <1>7. /\ test'.engine = test.engine /\ test'.found = test.found
        /\ test'.leaked = test.leaked /\ Fields \subseteq DOMAIN test'
    BY <1>1, <1>5, <1>6, GotoEffect, ScriptShape
  <1>8. /\ test'.faults = n
        /\ test.at = 18 => test'.step = "done"
        /\ test.at # 18 => /\ test'.at = test.at + 1
                           /\ test'.step = IF test.at = 13 THEN "generate" ELSE "test"
    BY <1>1, <1>5, <1>6, GotoCount
  <1>9. n \in Nat /\ (n = 0 => ~r.fault /\ test.faults = 0)
    BY <1>1, <1>3
  <1>10. ASSUME n = 0 PROVE Tallied'
    <2>1. report = Before(Kind, test.at) /\ test.leaked = {}
      BY <1>1, <1>9, <1>10 DEF Tallied, Expected
    <2>2. r.verdict = Score(Kind, Script[test.at])
      BY <1>1, <1>9, <1>10, ResultsScore, ScriptShape
    <2>3. Before(Kind, test.at + 1) = Plus(Before(Kind, test.at), Score(Kind, Script[test.at]))
      BY <1>1, BeforeNext
    <2>4. report' = Before(Kind, test.at + 1)
      BY <1>2, <2>1, <2>2, <2>3
    <2>5. Kind' = Kind
      BY <1>7, KindStays DEF RunTest, keyVars
    <2> QED BY <1>1, <1>7, <1>8, <2>1, <2>4, <2>5, NextTallied
  <1> QED BY <1>7, <1>8, <1>9, <1>10 DEF CountInv, Fields

\* The start.
LEMMA StartCount ==
  ASSUME TypeOK, NEW e \in Engines, Start(e)
  PROVE  CountInv'
  <1>1. PICK f : f = slots
    OBVIOUS
  <1>2. /\ test' = [NoTest EXCEPT !.at = 1, !.step = "test", !.engine = e, !.found = f]
        /\ report' = Tally(0, 0, 0)
    BY <1>1 DEF Start
  <1>3. /\ test'.at = 1 /\ test'.step = "test" /\ test'.leaked = {} /\ test'.faults = 0
        /\ "faults" \in DOMAIN test' /\ test'.engine = e
    BY <1>2 DEF NoTest
  <1>4. Kind' \in Kinds
    BY <1>3 DEF Start, keyVars, TypeOK, Kind, Kinds, BackendPtr
  <1>5. Before(Kind', 1) = Tally(0, 0, 0)
    BY <1>4 DEF Before, Kinds
  <1> QED BY <1>2, <1>3, <1>5 DEF CountInv, Tallied, Expected, RsaSteps, HoldsKey

\* Where a step inside the RSA test leads to: the step st with so much passed.
LEMMA InsideTallied ==
  ASSUME NEW st \in RsaSteps \ {"generate"}, test'.step = st, test'.at = 14,
         Kind' = "CC310", test'.leaked = {}, report' = Tally(16 + RsaPassed(st), 0, 0),
         st \in {"tampered", "again", "releaseAgain"} => test'.ok,
         st = "verifyPub" => test'.pub # NoKey
  PROVE  Tallied'
  <1>1. st \notin {"done", "test", "generate"}
    BY DEF RsaSteps, HoldsKey
  <1>2. Expected' = Tally(16 + RsaPassed(st), 0, 0)
    BY <1>1 DEF Expected
  <1> QED BY <1>2 DEF Tallied

\* The calls that use the key of the RSA test.
LEMMA UseCount ==
  ASSUME RunCtx, RsaSign \/ RsaVerify \/ RsaVerifyTampered \/ RsaExport \/ RsaVerifyPub
  PROVE  CountInv'
  <1>1. test.step \in HoldsKey
    BY DEF RsaSign, RsaVerify, RsaVerifyTampered, RsaExport, RsaVerifyPub, HoldsKey
  <1>2. /\ EngineRuns /\ test.engine \in Engines /\ Fields \subseteq DOMAIN test
        /\ test.faults \in Nat /\ (test.faults = 0 => Tallied) /\ Usable(KeyVar)
    BY <1>1, CtxFacts DEF RsaSteps
  <1>3. CoreInv /\ TestTypes
    BY DEF RunCtx, RunInv
  <1>4. Unmoved /\ ret' \in RetType /\ ret'.op \in UseOps
    BY <1>2, <1>3, UseKeyEffect, UseSteps
  <1>5. Leak = {}
    BY <1>4, NoLeak DEF UseOps
  <1>6. ASSUME Tallied
        PROVE  test.at = 14 /\ Kind = "CC310" /\ test.leaked = {}
               /\ report = Tally(16 + RsaPassed(test.step), 0, 0)
    BY <1>1, <1>6 DEF Tallied, Expected, RsaSteps, HoldsKey
  <1>7. ASSUME NEW t, Fields \subseteq DOMAIN t, Noting(t), t.faults = test.faults,
               t.engine = test.engine, t.found = test.found, t.leaked = test.leaked,
               t.at = test.at
        PROVE  /\ "faults" \in DOMAIN test' /\ test'.faults \in Nat
               /\ test'.step = t.step /\ test'.ok = t.ok /\ test'.pub = t.pub
               /\ test'.faults = 0 =>
                    /\ test.faults = 0 /\ Tallied /\ ret'.crys = CRYS_OK
                    /\ test'.at = 14 /\ Kind' = "CC310" /\ test'.leaked = {}
    <2>1. /\ "faults" \in DOMAIN test' /\ test'.faults \in Nat
          /\ test'.faults = 0 => test.faults = 0 /\ ret'.crys = CRYS_OK
      BY <1>2, <1>7, NotingFaults
    <2>2. /\ test'.at = t.at /\ test'.step = t.step /\ test'.engine = t.engine
          /\ test'.ok = t.ok /\ test'.pub = t.pub /\ test'.found = t.found
          /\ test'.leaked = t.leaked \cup Leak
      BY <1>7, NotingEffect
    <2>3. Kind' = Kind
      BY <1>4, <1>7, <2>2, KindStays DEF Unmoved
    <2>4. test'.leaked = test.leaked
      BY <1>5, <1>7, <2>2
    <2> QED BY <1>2, <1>6, <1>7, <2>1, <2>2, <2>3, <2>4
  <1>8. CASE RsaSign
    <2>1. PICK st, key : st = AfterSign(ret'.st) /\ key = ret'.key
      OBVIOUS
    <2>2. PICK t : t = [test EXCEPT !.step = st, !.sig = key]
      OBVIOUS
    <2>3. Noting(t) /\ test.step = "sign"
      BY <1>8, <2>1, <2>2 DEF RsaSign
    <2>4. /\ Fields \subseteq DOMAIN t /\ t.at = test.at /\ t.engine = test.engine
          /\ t.found = test.found /\ t.leaked = test.leaked /\ t.step = st
          /\ t.faults = test.faults
      BY <1>2, <2>2 DEF Fields
    <2>5. ASSUME test'.faults = 0 PROVE Tallied'
      <3>1. ret'.crys = CRYS_OK /\ Tallied
        BY <1>7, <2>3, <2>4, <2>5
      <3>2. ret'.st = "Ok"
        BY <1>2, <1>3, <1>8, <3>1, UseInOrder DEF RsaSign
      <3>3. st = "verify" /\ report' = report
        BY <1>8, <2>1, <3>2 DEF AfterSign, RsaSign
      <3>4. report' = Tally(16 + RsaPassed("verify"), 0, 0)
        BY <1>6, <2>3, <3>1, <3>3 DEF RsaPassed
      <3> QED BY <1>7, <2>3, <2>4, <2>5, <3>3, <3>4, InsideTallied DEF RsaSteps, HoldsKey
    <2> QED BY <1>7, <2>3, <2>4, <2>5 DEF CountInv
  <1>9. CASE RsaVerify
    <2>1. PICK ok, wr : ok = (ret'.st = "Ok") /\ wr = (test.wrong \/ ret'.st = "AuthFailed")
      OBVIOUS
    <2>2. PICK t : t = [test EXCEPT !.step = "tampered", !.ok = ok, !.wrong = wr]
      OBVIOUS
    <2>3. Noting(t) /\ test.step = "verify" /\ report' = report
      BY <1>9, <2>1, <2>2 DEF RsaVerify
    <2>4. /\ Fields \subseteq DOMAIN t /\ t.at = test.at /\ t.engine = test.engine
          /\ t.found = test.found /\ t.leaked = test.leaked /\ t.step = "tampered"
          /\ t.faults = test.faults /\ t.ok = ok
      BY <1>2, <2>2 DEF Fields
    <2>5. ASSUME test'.faults = 0 PROVE Tallied'
      <3>1. ret'.crys = CRYS_OK /\ Tallied
        BY <1>7, <2>3, <2>4, <2>5
      <3>2. PICK own : rsaVerifyWithKeyPair(test.engine, KeyVar, "ok", own)
        BY <1>9 DEF RsaVerify
      <3>3. ret'.st = "Ok"
        BY <1>2, <1>3, <3>1, <3>2, UseInOrder
      <3>4. report' = Tally(16 + RsaPassed("tampered"), 0, 0)
        BY <1>6, <2>3, <3>1 DEF RsaPassed
      <3>5. test'.ok
        BY <1>7, <2>1, <2>3, <2>4, <3>3
      <3> QED BY <1>7, <2>3, <2>4, <2>5, <3>4, <3>5, InsideTallied DEF RsaSteps, HoldsKey
    <2> QED BY <1>7, <2>3, <2>4, <2>5 DEF CountInv
  <1>10. CASE RsaVerifyTampered
    <2>1. PICK wr : wr = (test.wrong \/ ret'.st = "Ok")
      OBVIOUS
    <2>2. /\ test' = [test EXCEPT !.step = "export", !.wrong = wr] /\ test.step = "tampered"
          /\ Add(reportPassFail(GoodAndRejects(test.ok, ret'.st # "Ok")))
      BY <1>10, <2>1 DEF RsaVerifyTampered
    <2>3. /\ Fields \subseteq DOMAIN test' /\ test'.at = test.at /\ test'.engine = test.engine
          /\ test'.found = test.found /\ test'.leaked = test.leaked /\ test'.step = "export"
          /\ test'.faults = test.faults
      BY <1>2, <2>2 DEF Fields
    <2>4. ASSUME test'.faults = 0 PROVE Tallied'
      <3>1. Tallied /\ test.ok
        BY <1>2, <2>2, <2>3, <2>4 DEF Tallied
      <3>2. ret'.st # "Ok"
        BY <1>2, <1>3, <1>10, UseInOrder DEF RsaVerifyTampered
      <3>3. report = Tally(16, 0, 0)
        BY <1>6, <2>2, <3>1 DEF RsaPassed
      <3>4. report' = Plus(report, Tally(1, 0, 0))
        BY <2>2, <3>1, <3>2 DEF Add, reportPassFail, GoodAndRejects
      <3>5. report' = Tally(16 + RsaPassed("export"), 0, 0)
        BY <3>3, <3>4 DEF RsaPassed, Plus, Tally
      <3>6. Kind' = Kind
        BY <1>4, <2>3, KindStays DEF Unmoved
      <3> QED BY <1>6, <2>3, <3>1, <3>5, <3>6, InsideTallied DEF RsaSteps, HoldsKey
    <2> QED BY <1>2, <2>3, <2>4 DEF CountInv, Fields
  <1>11. CASE RsaExport
    <2>1. PICK key : key = ret'.key
      OBVIOUS
    <2>2. PICK t : t = IF ret'.st = "Ok" THEN [test EXCEPT !.step = "verifyPub", !.pub = key]
                       ELSE [test EXCEPT !.step = "release"]
      OBVIOUS
    <2>3. Noting(t) /\ test.step = "export"
      BY <1>11, <2>1, <2>2 DEF RsaExport
    <2>4. /\ Fields \subseteq DOMAIN t /\ t.at = test.at /\ t.engine = test.engine
          /\ t.found = test.found /\ t.leaked = test.leaked /\ t.faults = test.faults
          /\ ret'.st = "Ok" => t.step = "verifyPub" /\ t.pub = key
      BY <1>2, <2>2 DEF Fields
    <2>5. ASSUME test'.faults = 0 PROVE Tallied'
      <3>1. ret'.crys = CRYS_OK /\ Tallied
        BY <1>7, <2>3, <2>4, <2>5
      <3>2. ret'.st = "Ok" /\ key \in Key
        BY <1>2, <1>3, <1>11, <2>1, <3>1, UseInOrder DEF RsaExport
      <3>3. key # NoKey
        BY <3>2 DEF Key, NoKey
      <3>4. report' = report
        BY <1>11, <3>2 DEF RsaExport
      <3>5. report' = Tally(16 + RsaPassed("verifyPub"), 0, 0)
        BY <1>6, <2>3, <3>1, <3>4 DEF RsaPassed
      <3> QED BY <1>7, <2>3, <2>4, <2>5, <3>2, <3>3, <3>5, InsideTallied DEF RsaSteps, HoldsKey
    <2> QED BY <1>7, <2>3, <2>4, <2>5 DEF CountInv
  <1>12. CASE RsaVerifyPub
    <2>1. PICK wr : wr = (test.wrong \/ ret'.st = "AuthFailed")
      OBVIOUS
    <2>2. PICK t : t = [test EXCEPT !.step = "release", !.wrong = wr]
      OBVIOUS
    <2>3. Noting(t) /\ test.step = "verifyPub" /\ Add(reportPassFail(ret'.st = "Ok"))
      BY <1>12, <2>1, <2>2 DEF RsaVerifyPub
    <2>4. /\ Fields \subseteq DOMAIN t /\ t.at = test.at /\ t.engine = test.engine
          /\ t.found = test.found /\ t.leaked = test.leaked /\ t.step = "release"
          /\ t.faults = test.faults
      BY <1>2, <2>2 DEF Fields
    <2>5. ASSUME test'.faults = 0 PROVE Tallied'
      <3>1. ret'.crys = CRYS_OK /\ Tallied
        BY <1>7, <2>3, <2>4, <2>5
      <3>2. PICK own : rsaVerifyWithPublicKey(test.engine, test.pub, FALSE, "ok", own)
        BY <1>12 DEF RsaVerifyPub
      <3>3. ret'.st = "Ok"
        BY <1>2, <1>3, <2>3, <3>1, <3>2, UseInOrder DEF Tallied
      <3>4. report = Tally(16 + 1, 0, 0)
        BY <1>6, <2>3, <3>1 DEF RsaPassed
      <3>5. report' = Tally(16 + RsaPassed("release"), 0, 0)
        BY <2>3, <3>3, <3>4 DEF RsaPassed, Add, Plus, Tally, reportPassFail
      <3> QED BY <1>7, <2>3, <2>4, <2>5, <3>5, InsideTallied DEF RsaSteps, HoldsKey
    <2> QED BY <1>7, <2>3, <2>4, <2>5 DEF CountInv
  <1> QED BY <1>8, <1>9, <1>10, <1>11, <1>12

\* While the RSA test holds no key and nothing went wrong the store is full when
\* the self test found it full.
LEMMA FullAsFound ==
  ASSUME RunCtx, test.step \in {"generate", "again"}, Tallied
  PROVE  PoolFull <=> Taken(test.found) = Slots
  <1>1. Held = {} /\ test.step # "idle"
    BY DEF Held, HoldsKey
  <1>2. {handles[h].slot : h \in Held} = {}
    BY <1>1
  <1>3. Accounted(test.found, test.leaked, {})
    BY <1>1, <1>2 DEF RunCtx, RunInv, SlotsAccounted
  <1>4. Taken(slots) = Taken(test.found)
    BY <1>3 DEF Accounted, Tallied
  <1> QED BY <1>4 DEF PoolFull, Taken

\* After the RSA test.
LEMMA RsaTotals ==
  /\ Before("CC310", 15) = Tally(19, 0, 0)
  /\ Before("CC310", 14) = Tally(16, 0, 0)
  /\ Before("full", 15) = Plus(Before("full", 14), Tally(0, 1, 0))
  /\ Before("OnChip", 15) = Plus(Before("OnChip", 14), Tally(0, 0, 3))
  /\ Before("none", 15) = Plus(Before("none", 14), Tally(0, 1, 0))
  BY DEF Before, Plus, Tally

\* After all of them.
LEMMA ScriptTotals ==
  /\ Before("CC310", 19) = Tally(23, 0, 0) /\ Before("full", 19) = Tally(20, 1, 0)
  /\ Before("OnChip", 19) = Tally(13, 0, 10) /\ Before("none", 19) = Tally(0, 8, 12)
  BY DEF Before

\* The first key.
LEMMA GenerateCount ==
  ASSUME RunCtx, RsaGenerate
  PROVE  CountInv'
  <1>1. test.step = "generate" /\ rsaGenerateKeyPair(test.engine, KeyVar)
    BY DEF RsaGenerate
  <1>2. /\ EngineRuns /\ Kind \in Kinds /\ test.engine \in Engines
        /\ Fields \subseteq DOMAIN test /\ test.at \in 1..18
        /\ test.faults \in Nat /\ (test.faults = 0 => Tallied)
    BY <1>1, CtxFacts DEF RsaSteps
  <1>3. CoreInv /\ RunInv
    BY DEF RunCtx
  <1>4. UNCHANGED backend
    BY <1>2, <1>3, GenerateOutcome, <1>1 DEF life
  <1>5. CASE ret'.st = "Ok"
    <2>1. PICK t : t = [test EXCEPT !.step = "sign"]
      OBVIOUS
    <2>2. Noting(t) /\ report' = report
      BY <1>5, <2>1 DEF RsaGenerate
    <2>3. /\ Fields \subseteq DOMAIN t /\ t.at = test.at /\ t.engine = test.engine
          /\ t.found = test.found /\ t.leaked = test.leaked /\ t.step = "sign"
          /\ t.faults = test.faults
      BY <1>2, <2>1 DEF Fields
    <2>4. /\ "faults" \in DOMAIN test' /\ test'.faults \in Nat
          /\ test'.faults = 0 => test.faults = 0 /\ ret'.crys = CRYS_OK
      BY <1>2, <2>2, <2>3, NotingFaults
    <2>5. /\ test'.at = test.at /\ test'.step = "sign" /\ test'.engine = test.engine
          /\ test'.found = test.found /\ test'.leaked = test.leaked \cup Leak
      BY <2>2, <2>3, NotingEffect
    <2>6. ASSUME test'.faults = 0 PROVE Tallied'
      <3>1. Tallied /\ ret'.crys = CRYS_OK
        BY <1>2, <2>4, <2>6
      <3>2. /\ backend[test.engine] = "CC310" /\ ~PoolFull /\ Leak = {}
        BY <1>1, <1>2, <1>5, <3>1, GenerateInOrder DEF EngineRuns, BackendPtr
      <3>3. Kind = "CC310"
        BY <1>1, <3>1, <3>2, FullAsFound DEF Kind
      <3>4. Kind' = Kind
        BY <1>4, <2>5, KindStays
      <3>5. test.at = 14 /\ test.leaked = {} /\ report = Before("CC310", 14)
        BY <1>1, <3>1, <3>3 DEF Tallied, Expected, RsaSteps
      <3>6. report' = Tally(16 + RsaPassed("sign"), 0, 0)
        BY <2>2, <3>5, RsaTotals DEF RsaPassed
      <3> QED BY <2>5, <3>2, <3>3, <3>4, <3>5, <3>6, InsideTallied DEF RsaSteps, HoldsKey
    <2> QED BY <2>4, <2>6 DEF CountInv
  <1>6. CASE ret'.st # "Ok"
    <2>1. PICK g : g = Goto(test)
      OBVIOUS
    <2>2. Noting(g)
      BY <1>6, <2>1 DEF RsaGenerate
    <2>3. /\ Fields \subseteq DOMAIN g /\ g.engine = test.engine /\ g.found = test.found
          /\ g.leaked = test.leaked
      BY <1>2, <2>1, GotoEffect, ScriptShape
    <2>4. /\ g.faults = test.faults
          /\ test.at # 18 => /\ g.at = test.at + 1
                             /\ g.step = IF test.at = 13 THEN "generate" ELSE "test"
      BY <1>2, <2>1, GotoCount
    <2>5. /\ "faults" \in DOMAIN test' /\ test'.faults \in Nat
          /\ test'.faults = 0 => test.faults = 0 /\ ret'.crys = CRYS_OK
      BY <1>2, <2>2, <2>3, <2>4, NotingFaults
    <2>6. /\ test'.at = g.at /\ test'.step = g.step /\ test'.engine = g.engine
          /\ test'.found = g.found /\ test'.leaked = g.leaked \cup Leak
      BY <2>2, <2>3, NotingEffect
    <2>7. ASSUME test'.faults = 0 PROVE Tallied'
      <3>1. Tallied /\ ret'.crys = CRYS_OK
        BY <1>2, <2>5, <2>7
      <3>2. PICK kind : kind = Kind
        OBVIOUS
      <3>3. test.at = 14 /\ test.leaked = {} /\ report = Before(kind, 14)
        BY <1>1, <3>1, <3>2 DEF Tallied, Expected, RsaSteps
      <3>4. /\ backend[test.engine] = "none" => ret'.st = "NotStarted"
            /\ backend[test.engine] = "OnChip" => ret'.st = "Unsupported"
            /\ backend[test.engine] = "CC310" => ret'.st = "InternalError" /\ PoolFull
            /\ Leak = {}
        BY <1>1, <1>2, <1>6, <3>1, GenerateInOrder
      <3>5. /\ kind \in {"none", "OnChip", "full"}
            /\ kind = "OnChip" <=> ret'.st = "Unsupported"
        BY <1>1, <1>2, <3>1, <3>2, <3>4, FullAsFound DEF Kind, EngineRuns, BackendPtr
      <3>6. report' = Before(kind, 15)
        <4>1. CASE kind = "OnChip"
          <5>1. Add(Plus(PairSkip, reportSkip))
            BY <1>6, <3>5, <4>1 DEF RsaGenerate
          <5>2. Plus(PairSkip, reportSkip) = Tally(0, 0, 3)
            BY DEF PairSkip, reportSkip, Plus, Tally
          <5> QED BY <3>3, <4>1, <5>1, <5>2, RsaTotals DEF Add
        <4>2. CASE kind \in {"none", "full"}
          <5>1. Add(reportPassFail(FALSE))
            BY <1>6, <3>5, <4>2 DEF RsaGenerate
          <5>2. reportPassFail(FALSE) = Tally(0, 1, 0)
            BY DEF reportPassFail
          <5> QED BY <3>3, <4>2, <5>1, <5>2, RsaTotals DEF Add
        <4> QED BY <3>5, <4>1, <4>2
      <3>7. Kind' = Kind
        BY <1>4, <2>3, <2>6, KindStays
      <3>8. PICK i \in 1..18 : i = 14 /\ i + 1 = 15
        OBVIOUS
      <3>9. test'.at = i + 1 /\ test'.step = "test" /\ test'.leaked = {}
        BY <2>3, <2>4, <2>6, <3>3, <3>4, <3>8
      <3>10. report' = Before(Kind, i + 1)
        BY <3>2, <3>6, <3>8
      <3> QED BY <3>7, <3>8, <3>9, <3>10, NextTallied
    <2> QED BY <2>5, <2>7 DEF CountInv
  <1> QED BY <1>5, <1>6

\* The first key is released.
LEMMA ReleaseCount ==
  ASSUME RunCtx, RsaRelease
  PROVE  CountInv'
  <1>1. test.step = "release" /\ rsaReleaseKeyPair(test.engine, KeyVar) /\ report' = report
    BY DEF RsaRelease
  <1>2. /\ EngineRuns /\ test.engine \in Engines /\ Fields \subseteq DOMAIN test
        /\ test.faults \in Nat /\ (test.faults = 0 => Tallied) /\ Usable(KeyVar)
    BY <1>1, CtxFacts DEF RsaSteps, HoldsKey
  <1>3. CoreInv
    BY DEF RunCtx
  <1>4. /\ UNCHANGED backend /\ ret'.st = "Ok" /\ Leak = {}
    BY <1>1, <1>2, <1>3, ReleaseOutcome, NoLeak DEF Usable, life
  <1>5. ~Valid(KeyVar)'
    <2>1. CC310Release(KeyVar)
      BY <1>1, <1>2, UsablePasses DEF rsaReleaseKeyPair, NC_GUARD
    <2> QED BY <1>2, <1>3, <2>1
       DEF CC310Release, Usable, Clear, NoHandle, Valid, CoreInv, TypeOK
  <1>6. PICK t : t = [test EXCEPT !.step = "again", !.ok = ret'.st = "Ok" /\ ~Valid(KeyVar)']
    OBVIOUS
  <1>7. Noting(t)
    BY <1>6 DEF RsaRelease
  <1>8. /\ Fields \subseteq DOMAIN t /\ t.at = test.at /\ t.engine = test.engine
        /\ t.found = test.found /\ t.leaked = test.leaked /\ t.step = "again"
        /\ t.faults = test.faults
    BY <1>2, <1>6 DEF Fields
  <1>9. t.ok
    BY <1>2, <1>4, <1>5, <1>6 DEF Fields
  <1>10. /\ "faults" \in DOMAIN test' /\ test'.faults \in Nat
         /\ test'.faults = 0 => test.faults = 0
    BY <1>2, <1>7, <1>8, NotingFaults
  <1>11. /\ test'.at = test.at /\ test'.step = "again" /\ test'.engine = test.engine
         /\ test'.found = test.found /\ test'.leaked = test.leaked /\ test'.ok = t.ok
    BY <1>4, <1>7, <1>8, NotingEffect
  <1>12. ASSUME test'.faults = 0 PROVE Tallied'
    <2>1. Tallied
      BY <1>2, <1>10, <1>12
    <2>2. /\ test.at = 14 /\ Kind = "CC310" /\ test.leaked = {}
          /\ report = Tally(16 + RsaPassed("release"), 0, 0)
      BY <1>1, <2>1 DEF Tallied, Expected, RsaSteps, HoldsKey
    <2>3. report' = Tally(16 + RsaPassed("again"), 0, 0)
      BY <1>1, <2>2 DEF RsaPassed
    <2>4. Kind' = Kind
      BY <1>4, <1>11, KindStays
    <2> QED BY <1>9, <1>11, <2>2, <2>3, <2>4, InsideTallied DEF RsaSteps, HoldsKey
  <1> QED BY <1>10, <1>12 DEF CountInv

\* The second key.
LEMMA AgainCount ==
  ASSUME RunCtx, RsaAgain
  PROVE  CountInv'
  <1>1. test.step = "again" /\ rsaGenerateKeyPair(test.engine, AgainVar)
    BY DEF RsaAgain
  <1>2. /\ EngineRuns /\ test.engine \in Engines /\ Fields \subseteq DOMAIN test
        /\ test.at \in 1..18
        /\ test.faults \in Nat /\ (test.faults = 0 => Tallied)
    BY <1>1, CtxFacts DEF RsaSteps
  <1>3. CoreInv
    BY DEF RunCtx
  <1>4. UNCHANGED backend
    BY <1>1, <1>2, <1>3, GenerateOutcome DEF life
  <1>5. PICK b : b = IF ret'.st = "Ok" THEN [test EXCEPT !.step = "releaseAgain"] ELSE Goto(test)
    OBVIOUS
  <1>6. /\ Fields \subseteq DOMAIN b /\ b.faults = test.faults /\ b.ok = test.ok
        /\ b.engine = test.engine /\ b.found = test.found /\ b.leaked = test.leaked
        /\ ret'.st = "Ok" => b.step = "releaseAgain" /\ b.at = test.at
    <2>1. CASE ret'.st = "Ok"
      BY <1>2, <1>5, <2>1 DEF Fields
    <2>2. CASE ret'.st # "Ok"
      BY <1>2, <1>5, <2>2, GotoEffect, GotoCount, ScriptShape
    <2> QED BY <2>1, <2>2
  <1>7. PICK t : t = [b EXCEPT !.ok = @ /\ ret'.st = "Ok"]
    OBVIOUS
  <1>8. Noting(t)
    BY <1>5, <1>7 DEF RsaAgain
  <1>9. /\ Fields \subseteq DOMAIN t /\ t.at = b.at /\ t.engine = b.engine
        /\ t.found = b.found /\ t.leaked = b.leaked /\ t.step = b.step
        /\ t.faults = b.faults
    BY <1>6, <1>7 DEF Fields
  <1>10. t.ok <=> (b.ok /\ ret'.st = "Ok")
    BY <1>6, <1>7 DEF Fields
  <1>11. /\ "faults" \in DOMAIN test' /\ test'.faults \in Nat
         /\ test'.faults = 0 => test.faults = 0 /\ ret'.crys = CRYS_OK
    BY <1>2, <1>6, <1>8, <1>9, NotingFaults
  <1>12. /\ test'.at = t.at /\ test'.step = t.step /\ test'.engine = t.engine
         /\ test'.found = t.found /\ test'.leaked = t.leaked \cup Leak /\ test'.ok = t.ok
    BY <1>8, <1>9, NotingEffect
  <1>13. ASSUME test'.faults = 0 PROVE Tallied'
    <2>1. Tallied /\ ret'.crys = CRYS_OK
      BY <1>2, <1>11, <1>13
    <2>2. /\ test.at = 14 /\ Kind = "CC310" /\ test.leaked = {} /\ test.ok
          /\ report = Tally(16 + RsaPassed("again"), 0, 0)
      BY <1>1, <2>1 DEF Tallied, Expected, RsaSteps, HoldsKey
    <2>3. backend[test.engine] = "CC310" /\ ~PoolFull
      BY <1>1, <2>1, <2>2, FullAsFound DEF Kind
    <2>4. ret'.st = "Ok" /\ Leak = {}
      BY <1>1, <1>2, <2>1, <2>3, GenerateInOrder
    <2>5. report' = Tally(16 + RsaPassed("releaseAgain"), 0, 0)
      BY <2>2, <2>4 DEF RsaPassed, RsaAgain
    <2>6. Kind' = Kind
      BY <1>4, <1>6, <1>9, <1>12, KindStays
    <2>7. /\ test'.at = 14 /\ test'.step = "releaseAgain" /\ test'.leaked = {} /\ test'.ok
      BY <1>6, <1>9, <1>10, <1>12, <2>2, <2>4
    <2> QED BY <2>2, <2>5, <2>6, <2>7, InsideTallied DEF RsaSteps, HoldsKey
  <1> QED BY <1>11, <1>13 DEF CountInv

\* It is released too, which ends the RSA test.
LEMMA ReleaseAgainCount ==
  ASSUME RunCtx, RsaReleaseAgain
  PROVE  CountInv'
  <1>1. /\ test.step = "releaseAgain" /\ rsaReleaseKeyPair(test.engine, AgainVar)
        /\ Add(reportPassFail(test.ok))
    BY DEF RsaReleaseAgain
  <1>2. /\ test.engine \in Engines /\ Fields \subseteq DOMAIN test /\ test.at \in 1..18
        /\ test.faults \in Nat /\ (test.faults = 0 => Tallied)
    BY <1>1, CtxFacts DEF RsaSteps
  <1>3. CoreInv /\ RunInv
    BY DEF RunCtx
  <1>4. Held = {AgainVar}
    BY <1>1 DEF Held, HoldsKey
  <1>5. UNCHANGED backend /\ Leak = {}
    BY <1>1, <1>3, <1>4, ReleaseKeeps
  <1>6. PICK g : g = Goto(test)
    OBVIOUS
  <1>7. Noting(g)
    BY <1>6 DEF RsaReleaseAgain
  <1>8. /\ Fields \subseteq DOMAIN g /\ g.engine = test.engine /\ g.found = test.found
        /\ g.leaked = test.leaked
    BY <1>2, <1>6, GotoEffect, ScriptShape
  <1>9. /\ g.faults = test.faults
        /\ test.at # 18 => /\ g.at = test.at + 1
                           /\ g.step = IF test.at = 13 THEN "generate" ELSE "test"
    BY <1>2, <1>6, GotoCount
  <1>10. /\ "faults" \in DOMAIN test' /\ test'.faults \in Nat
         /\ test'.faults = 0 => test.faults = 0
    BY <1>2, <1>7, <1>8, <1>9, NotingFaults
  <1>11. /\ test'.at = g.at /\ test'.step = g.step /\ test'.engine = g.engine
         /\ test'.found = g.found /\ test'.leaked = g.leaked \cup Leak
    BY <1>7, <1>8, NotingEffect
  <1>12. ASSUME test'.faults = 0 PROVE Tallied'
    <2>1. Tallied
      BY <1>2, <1>10, <1>12
    <2>2. /\ test.at = 14 /\ Kind = "CC310" /\ test.leaked = {} /\ test.ok
          /\ report = Tally(16 + RsaPassed("releaseAgain"), 0, 0)
      BY <1>1, <2>1 DEF Tallied, Expected, RsaSteps, HoldsKey
    <2>3. report' = Tally(19, 0, 0)
      BY <1>1, <2>2 DEF RsaPassed, Add, Plus, Tally, reportPassFail
    <2>4. Kind' = Kind
      BY <1>5, <1>8, <1>11, KindStays
    <2> QED BY <1>5, <1>8, <1>9, <1>11, <2>2, <2>3, <2>4, RsaTotals, NextTallied
  <1> QED BY <1>10, <1>12 DEF CountInv

-----------------------------------------------------------------------------
\* All of it is kept by every step, with one engine.
LEMMA CountInductive ==
  ASSUME \A e \in Engines, f \in Engines : e = f
  PROVE  STInv /\ GuardInv /\ CountInv /\ [STNext]_testVars => GuardInv' /\ CountInv'
  <1> SUFFICES ASSUME STInv, GuardInv, CountInv, [STNext]_testVars PROVE GuardInv' /\ CountInv'
    OBVIOUS
  <1>1. SafetyInv /\ TestTypes /\ TypeOK /\ RunCtx
    BY DEF STInv, SafetyInv, CoreInv, RunCtx, RunInv
  <1>2. GuardInv'
    BY <1>1, STStepIsNext, GuardInductive
  <1>3. ASSUME NEW e \in Engines, App(e) PROVE CountInv'
    BY <1>3 DEF App, NoTest, CountInv
  <1>4. CASE UNCHANGED testVars
    <2>1. UNCHANGED <<test, report, backend>>
      BY <1>4 DEF testVars, keyVars
    <2>2. Tallied' = Tallied
      BY <2>1 DEF Tallied, Expected, Kind
    <2> QED BY <1>2, <2>1, <2>2 DEF CountInv
  <1>5. CountInv'
    BY <1>1, <1>3, <1>4, StartCount, RunTestCount, GenerateCount, UseCount, ReleaseCount,
       AgainCount, ReleaseAgainCount DEF STNext
  <1> QED BY <1>2, <1>5

\* The report at the end.
LEMMA CountsDocumented == STInv /\ CountInv => DocumentedCounts
  <1> SUFFICES ASSUME STInv, CountInv, Done, test.faults = 0, NEW b, b = backend[test.engine]
               PROVE  report = CASE b = "OnChip" -> Tally(13, 0, 10)
                                 [] b = "none"   -> Tally(0, 8, 12)
                                 [] b = "CC310" /\ Taken(test.found) = Slots -> Tally(20, 1, 0)
                                 [] OTHER        -> Tally(23, 0, 0)
    BY DEF DocumentedCounts
  <1>1. test.step = "done" /\ test.engine \in Engines
    BY DEF Done, STInv, TestTypes
  <1>2. report = Before(Kind, 19)
    BY <1>1 DEF CountInv, Tallied, Expected
  <1>3. b \in {"none", "CC310", "OnChip"}
    BY <1>1 DEF STInv, SafetyInv, TypeOK, BackendPtr
  <1>4. Kind = IF b # "CC310" THEN b ELSE IF Taken(test.found) = Slots THEN "full" ELSE "CC310"
    BY DEF Kind
  <1> QED BY <1>2, <1>3, <1>4, ScriptTotals

\* With one engine and no fault of the device the report is the documented one: 23
\* passed on the CC310 and 13 passed and 10 skipped on OnChip (README.md 84-88),
\* whatever keys the application holds, unless they fill the slots.
THEOREM SelfTestCounts ==
  ASSUME \A e \in Engines, f \in Engines : e = f
  PROVE  STSpec => []DocumentedCounts
  <1>1. STInit => STInv /\ GuardInv /\ CountInv
    <2>1. STInit => GuardInv /\ CountInv
      BY DEF STInit, Init, GuardInv, CountInv, NoTest
    <2> QED BY <2>1, STInit_Inv
  <1>2. STInv /\ GuardInv /\ CountInv /\ [STNext]_testVars =>
          (STInv /\ GuardInv /\ CountInv)'
    BY STInductive, CountInductive
  <1>3. STInv /\ CountInv => DocumentedCounts
    BY CountsDocumented
  <1> QED BY <1>1, <1>2, <1>3, PTL DEF STSpec

-----------------------------------------------------------------------------
(* The self test comes to an end *)

\* A bound on the calls the RSA test still makes at a step; another test is one step
StepsFrom(s) ==
  CASE s = "generate"  -> 9  [] s = "sign"     -> 8  [] s = "verify"    -> 7
    [] s = "tampered"  -> 6  [] s = "export"   -> 5  [] s = "verifyPub" -> 4
    [] s = "release"   -> 3  [] s = "again"    -> 2  [] OTHER           -> 1

\* A bound on the steps still to come from the place t is at in the script
StepsAt(t) ==
  IF t.step \in RsaSteps \cup {"test"} THEN 9 * (Len(Script) - t.at) + StepsFrom(t.step) ELSE 0

LEMMA StepsFromType == \A s : StepsFrom(s) \in 1..9
  BY DEF StepsFrom

\* The next test is nearer the end, from any step of this one.
LEMMA GotoNearer ==
  ASSUME NEW t, Fields \subseteq DOMAIN t, t.at \in 1..Len(Script),
         t.step \in RsaSteps \cup {"test"}, NEW g, g = Goto(t)
  PROVE  StepsAt(g) < StepsAt(t)
  <1>1. /\ StepsFrom(t.step) \in 1..9 /\ StepsFrom(g.step) \in 1..9 /\ t.at \in 1..18
        /\ Len(Script) = 18
    BY StepsFromType, ScriptShape
  <1>2. StepsAt(t) = 9 * (18 - t.at) + StepsFrom(t.step)
    BY <1>1 DEF StepsAt
  <1>3. CASE t.at = 18
    <2>1. g.step = "done"
      BY <1>1, <1>3 DEF Goto, Fields
    <2>2. StepsAt(g) = 0
      BY <2>1 DEF StepsAt, RsaSteps, HoldsKey
    <2> QED BY <1>1, <1>2, <1>3, <2>2
  <1>4. CASE t.at # 18
    <2>1. PICK n : n = t.at + 1
      OBVIOUS
    <2>2. g = [t EXCEPT !.at = n, !.step = IF Script[n] = "rsa" THEN "generate" ELSE "test"]
      BY <1>1, <1>4, <2>1 DEF Goto
    <2>3. g.at = n /\ g.step \in {"generate", "test"}
      BY <2>2 DEF Fields
    <2>4. StepsAt(g) = 9 * (18 - n) + StepsFrom(g.step)
      BY <1>1, <2>3 DEF StepsAt, RsaSteps
    <2>5. \A a \in 1..18, x, y \in 1..9 : 9 * (18 - (a + 1)) + y < 9 * (18 - a) + x
      OBVIOUS
    <2> QED BY <1>1, <1>2, <2>1, <2>4, <2>5
  <1> QED BY <1>3, <1>4

\* So is a later step of the RSA test.
LEMMA StepNearer ==
  ASSUME TestTypes, test.step \in RsaSteps, NEW t, t.at = test.at, t.step \in RsaSteps,
         StepsFrom(t.step) < StepsFrom(test.step)
  PROVE  StepsAt(t) < StepsAt(test)
  <1>1. Len(Script) = 18 /\ test.at \in 1..18
    BY ScriptShape DEF TestTypes
  <1> QED BY <1>1, StepsFromType DEF StepsAt

\* The bookkeeping leaves the place in the script alone.
LEMMA NotingStays ==
  ASSUME NEW t, Fields \subseteq DOMAIN t, Noting(t)
  PROVE  StepsAt(test') = StepsAt(t)
  BY NotingEffect DEF StepsAt

\* Every step of the RSA test.
LEMMA RsaNearer ==
  ASSUME TestTypes,
         RsaGenerate \/ RsaSign \/ RsaVerify \/ RsaVerifyTampered \/ RsaExport
           \/ RsaVerifyPub \/ RsaRelease \/ RsaAgain \/ RsaReleaseAgain
  PROVE  StepsAt(test') < StepsAt(test)
  <1>1. test.step \in RsaSteps
    BY DEF RsaGenerate, RsaSign, RsaVerify, RsaVerifyTampered, RsaExport, RsaVerifyPub,
           RsaRelease, RsaAgain, RsaReleaseAgain, RsaSteps, HoldsKey
  <1>2. Fields \subseteq DOMAIN test /\ test.at \in 1..Len(Script)
    BY <1>1 DEF TestTypes
  <1>3. ASSUME NEW t, Fields \subseteq DOMAIN t, t.at = test.at, t.step \in RsaSteps,
               StepsFrom(t.step) < StepsFrom(test.step), Noting(t) \/ test' = t
        PROVE  StepsAt(test') < StepsAt(test)
    BY <1>1, <1>3, NotingStays, StepNearer
  <1>4. ASSUME NEW t, Fields \subseteq DOMAIN t, t.at = test.at, t.step = test.step,
               NEW g, g = Goto(t), Noting(g)
        PROVE  StepsAt(test') < StepsAt(test)
    <2>1. Fields \subseteq DOMAIN g
      BY <1>2, <1>4, GotoEffect
    <2>2. StepsAt(g) < StepsAt(t)
      BY <1>1, <1>2, <1>4, GotoNearer
    <2>3. StepsAt(t) = StepsAt(test)
      BY <1>4 DEF StepsAt
    <2> QED BY <1>4, <2>1, <2>2, <2>3, NotingStays
  <1>5. CASE RsaGenerate
    <2>1. CASE Noting([test EXCEPT !.step = "sign"])
      <3>1. PICK t : t = [test EXCEPT !.step = "sign"]
        OBVIOUS
      <3>2. Fields \subseteq DOMAIN t /\ t.at = test.at /\ t.step = "sign"
        BY <1>2, <3>1 DEF Fields
      <3>3. StepsFrom("sign") < StepsFrom(test.step) /\ "sign" \in RsaSteps
        BY <1>5 DEF RsaGenerate, StepsFrom, RsaSteps, HoldsKey
      <3> QED BY <1>3, <2>1, <3>1, <3>2, <3>3
    <2>2. CASE Noting(Goto(test))
      BY <1>2, <1>4, <2>2
    <2> QED BY <1>5, <2>1, <2>2 DEF RsaGenerate
  <1>6. CASE RsaSign
    <2>1. PICK st, key : st = AfterSign(ret'.st) /\ key = ret'.key
      OBVIOUS
    <2>2. PICK t : t = [test EXCEPT !.step = st, !.sig = key]
      OBVIOUS
    <2>3. Fields \subseteq DOMAIN t /\ t.at = test.at /\ t.step = st /\ Noting(t)
      BY <1>2, <1>6, <2>1, <2>2 DEF Fields, RsaSign
    <2>4. st \in {"verify", "release"} /\ test.step = "sign"
      BY <1>6, <2>1 DEF AfterSign, RsaSign
    <2>5. StepsFrom(st) < StepsFrom(test.step) /\ st \in RsaSteps
      BY <2>4 DEF StepsFrom, RsaSteps, HoldsKey
    <2> QED BY <1>3, <2>3, <2>5
  <1>7. CASE RsaVerify
    <2>1. PICK t : t = [test EXCEPT !.step = "tampered", !.ok = ret'.st = "Ok",
                                    !.wrong = @ \/ ret'.st = "AuthFailed"]
      OBVIOUS
    <2>2. Fields \subseteq DOMAIN t /\ t.at = test.at /\ t.step = "tampered"
      BY <1>2, <2>1 DEF Fields
    <2>3. Noting(t) /\ test.step = "verify"
      BY <1>7, <2>1 DEF RsaVerify
    <2>4. StepsFrom("tampered") < StepsFrom("verify") /\ "tampered" \in RsaSteps
      BY DEF StepsFrom, RsaSteps, HoldsKey
    <2> QED BY <1>3, <2>2, <2>3, <2>4
  <1>8. CASE RsaVerifyTampered
    <2>1. test.step = "tampered"
          /\ test' = [test EXCEPT !.step = "export", !.wrong = @ \/ ret'.st = "Ok"]
      BY <1>8 DEF RsaVerifyTampered
    <2>2. Fields \subseteq DOMAIN test' /\ test'.at = test.at /\ test'.step = "export"
      BY <1>2, <2>1 DEF Fields
    <2>3. StepsFrom("export") < StepsFrom("tampered") /\ "export" \in RsaSteps
      BY DEF StepsFrom, RsaSteps, HoldsKey
    <2> QED BY <1>3, <2>1, <2>2, <2>3
  <1>9. CASE RsaExport
    <2>1. PICK key : key = ret'.key
      OBVIOUS
    <2>2. /\ test.step = "export"
          /\ \/ Noting([test EXCEPT !.step = "verifyPub", !.pub = key])
             \/ Noting([test EXCEPT !.step = "release"])
      BY <1>9, <2>1 DEF RsaExport
    <2>3. PICK t : /\ t \in {[test EXCEPT !.step = "verifyPub", !.pub = key],
                             [test EXCEPT !.step = "release"]}
                   /\ Noting(t)
      BY <2>2
    <2>4. Fields \subseteq DOMAIN t /\ t.at = test.at /\ t.step \in {"verifyPub", "release"}
      BY <1>2, <2>3 DEF Fields
    <2>5. \A s \in {"verifyPub", "release"} : StepsFrom(s) < StepsFrom("export") /\ s \in RsaSteps
      BY DEF StepsFrom, RsaSteps, HoldsKey
    <2> QED BY <1>3, <2>2, <2>3, <2>4, <2>5
  <1>10. CASE RsaVerifyPub
    <2>1. PICK t : t = [test EXCEPT !.step = "release", !.wrong = @ \/ ret'.st = "AuthFailed"]
      OBVIOUS
    <2>2. Fields \subseteq DOMAIN t /\ t.at = test.at /\ t.step = "release"
      BY <1>2, <2>1 DEF Fields
    <2>3. Noting(t) /\ test.step = "verifyPub"
      BY <1>10, <2>1 DEF RsaVerifyPub
    <2>4. StepsFrom("release") < StepsFrom("verifyPub") /\ "release" \in RsaSteps
      BY DEF StepsFrom, RsaSteps, HoldsKey
    <2> QED BY <1>3, <2>2, <2>3, <2>4
  <1>11. CASE RsaRelease
    <2>1. PICK t : t = [test EXCEPT !.step = "again", !.ok = ret'.st = "Ok" /\ ~Valid(KeyVar)']
      OBVIOUS
    <2>2. Fields \subseteq DOMAIN t /\ t.at = test.at /\ t.step = "again"
      BY <1>2, <2>1 DEF Fields
    <2>3. Noting(t) /\ test.step = "release"
      BY <1>11, <2>1 DEF RsaRelease
    <2>4. StepsFrom("again") < StepsFrom("release") /\ "again" \in RsaSteps
      BY DEF StepsFrom, RsaSteps
    <2> QED BY <1>3, <2>2, <2>3, <2>4
  <1>12. CASE RsaAgain
    <2>1. CASE ret'.st = "Ok"
      <3>1. PICK t : t = [[test EXCEPT !.step = "releaseAgain"] EXCEPT !.ok = @ /\ ret'.st = "Ok"]
        OBVIOUS
      <3>2. Fields \subseteq DOMAIN t /\ t.at = test.at /\ t.step = "releaseAgain"
        BY <1>2, <3>1 DEF Fields
      <3>3. Noting(t) /\ test.step = "again"
        BY <1>12, <2>1, <3>1 DEF RsaAgain
      <3>4. StepsFrom("releaseAgain") < StepsFrom("again") /\ "releaseAgain" \in RsaSteps
        BY DEF StepsFrom, RsaSteps
      <3> QED BY <1>3, <3>2, <3>3, <3>4
    <2>2. CASE ret'.st # "Ok"
      <3>1. PICK g : g = Goto(test)
        OBVIOUS
      <3>2. PICK t : t = [g EXCEPT !.ok = @ /\ ret'.st = "Ok"]
        OBVIOUS
      <3>3. Noting(t)
        BY <1>12, <2>2, <3>1, <3>2 DEF RsaAgain
      <3>4. Fields \subseteq DOMAIN g /\ StepsAt(g) < StepsAt(test)
        BY <1>1, <1>2, <3>1, GotoEffect, GotoNearer
      <3>5. Fields \subseteq DOMAIN t /\ t.at = g.at /\ t.step = g.step
        BY <3>2, <3>4 DEF Fields
      <3>6. StepsAt(t) = StepsAt(g)
        BY <3>5 DEF StepsAt
      <3> QED BY <3>3, <3>4, <3>5, <3>6, NotingStays
    <2> QED BY <2>1, <2>2
  <1>13. CASE RsaReleaseAgain
    BY <1>2, <1>4, <1>13 DEF RsaReleaseAgain
  <1> QED BY <1>5, <1>6, <1>7, <1>8, <1>9, <1>10, <1>11, <1>12, <1>13

\* And every other test.
LEMMA TestNearer ==
  ASSUME TestTypes, RunTest
  PROVE  StepsAt(test') < StepsAt(test)
  <1>0. /\ test.step = "test" /\ Fields \subseteq DOMAIN test
        /\ test.at \in 1..Len(Script)
    BY DEF TestTypes, RunTest
  <1>1. PICK r \in Results(Script[test.at]) :
          test' = Goto([test EXCEPT !.wrong = @ \/ r.wrong,
                                    !.faults = IF r.fault THEN @ + 1 ELSE @])
    BY DEF RunTest
  <1>2. PICK t : /\ t = [test EXCEPT !.wrong = @ \/ r.wrong,
                                     !.faults = IF r.fault THEN @ + 1 ELSE @]
                 /\ test' = Goto(t)
    BY <1>1
  <1>3. Fields \subseteq DOMAIN t /\ t.at = test.at /\ t.step = test.step
    BY <1>0, <1>2 DEF Fields
  <1>4. StepsAt(t) = StepsAt(test)
    BY <1>3 DEF StepsAt
  <1> QED BY <1>0, <1>2, <1>3, <1>4, GotoNearer

LEMMA StepsAtType ==
  ASSUME TestTypes
  PROVE  StepsAt(test) \in Nat /\ (StepsAt(test) = 0 <=> Idle)
  <1>1. Len(Script) = 18 /\ StepsFrom(test.step) \in 1..9
    BY ScriptShape, StepsFromType
  <1>2. CASE test.step \in RsaSteps \cup {"test"}
    <2>1. test.at \in 1..18
      BY <1>1, <1>2 DEF TestTypes
    <2>2. StepsAt(test) = 9 * (18 - test.at) + StepsFrom(test.step)
      BY <1>1, <1>2 DEF StepsAt
    <2>3. ~Idle
      BY <1>2 DEF Idle, RsaSteps, HoldsKey
    <2> QED BY <1>1, <2>1, <2>2, <2>3
  <1>3. CASE test.step \notin RsaSteps \cup {"test"}
    <2>1. Idle
      BY <1>3 DEF TestTypes, Idle
    <2> QED BY <1>3, <2>1 DEF StepsAt
  <1> QED BY <1>2, <1>3

\* runSelfTest returns on every device, whatever its calls answer and whichever
\* fail: every step brings the return nearer and none goes back, and while it runs
\* the application does nothing else (CryptoSelfTestRunner.cpp 116-444).
THEOREM SelfTestRunsOut ==
  STSpec => /\ [](StepsAt(test) \in Nat /\ (StepsAt(test) = 0 <=> Idle))
            /\ [][~Idle => StepsAt(test)' < StepsAt(test)]_testVars
  <1>1. STInv => TestTypes
    BY DEF STInv
  <1>2. STInv => StepsAt(test) \in Nat /\ (StepsAt(test) = 0 <=> Idle)
    BY <1>1, StepsAtType
  <1>3. STInv /\ [STNext]_testVars => [~Idle => StepsAt(test)' < StepsAt(test)]_testVars
    <2> SUFFICES ASSUME STInv, STNext, ~Idle PROVE StepsAt(test)' < StepsAt(test)
      OBVIOUS
    <2>1. StepsAt(test)' = StepsAt(test')
      BY DEF StepsAt
    <2>2. ~ \E e \in Engines : App(e) \/ Start(e)
      BY DEF App, Start
    <2> QED BY <1>1, <2>1, <2>2, RsaNearer, TestNearer DEF STNext
  <1> QED BY <1>2, <1>3, STInit_Inv, STInductive, PTL DEF STSpec
=============================================================================
