------------------------ MODULE RsaSlotThreadsProofs ------------------------
(***************************************************************************)
(* Proofs about RsaSlotThreads, for any number of threads, slots and keys, *)
(* when the application's lock covers the calls that write a slot.         *)
(***************************************************************************)
EXTENDS RsaSlotThreads, TLAPS

\* The calls that write slots or handles
Writers == {"generate", "import", "release", "begin", "end"}

\* The hypothesis of the theorems: rsaExportPublic is the only unlocked call
LockCoversWriters == Writers \subseteq Locked

MakeSteps == {"scan", "unready", "priv", "pub", "mark", "handle"}
WipeSteps == {"wipePriv", "wipePub", "wipeReady", "unreadyAgain"}

Busy(t) == call[t].op \in Writers

Whole(k) == [priv |-> k, pub |-> k, ready |-> TRUE]

\* At most one thread is inside a call that writes
OneWriter == \A t, u \in Threads : Busy(t) /\ Busy(u) => t = u

\* Which step a thread is at tells which call it is in and what it has done
\* to its handle
CallShape(t) ==
  /\ call[t].op = "none" <=> Idle(t)
  /\ call[t].at \in MakeSteps =>
       call[t].op \in {"generate", "import"} /\ ~Valid(t)
  /\ At(t, "check") => call[t].op \in {"generate", "import", "release", "export"}
  /\ At(t, "read") => call[t].op \in {"generate", "import", "export"}
  /\ call[t].at \in {"check", "read"} => Valid(t) /\ call[t].slot = handles[t].slot
  /\ call[t].at \in WipeSteps =>
       \/ call[t].op = "release" /\ Valid(t) /\ call[t].slot = handles[t].slot
       \/ call[t].op = "import" /\ ~Valid(t)
       \/ call[t].op = "end"
  /\ call[t].at \notin {"idle", "scan"} => call[t].slot \in Slots
  /\ Busy(t) => started

\* What a call has put in its slot so far
CallWork(t) ==
  /\ call[t].at \in {"unready", "priv", "pub", "mark"} => ~slots[call[t].slot].ready
  /\ call[t].op = "import" /\ call[t].at \in {"scan", "unready", "priv"} =>
       call[t].key \in Key
  /\ At(t, "pub") =>
       \/ call[t].key \in Key /\ slots[call[t].slot].priv = call[t].key
       \/ call[t].op = "import" /\ call[t].key = Residue
  /\ At(t, "mark") =>
       /\ call[t].key \in Key
       /\ slots[call[t].slot].priv = call[t].key
       /\ slots[call[t].slot].pub = call[t].key
  /\ At(t, "handle") =>
       /\ call[t].key \in Key
       /\ slots[call[t].slot] = Whole(call[t].key)
       /\ \A u \in Threads : handles[u].slot # call[t].slot
  /\ call[t].op = "import" /\ call[t].at \in WipeSteps =>
       ~slots[call[t].slot].ready
  /\ At(t, "unreadyAgain") => ~slots[call[t].slot].ready

\* While end() runs nobody holds a key and no slot is ready
EndsEmpty ==
  \A t \in Threads : call[t].op = "end" =>
    (\A u \in Threads : ~Valid(u)) /\ (\A s \in Slots : ~slots[s].ready)

\* A key whose owner is not wiping it is whole
OwnedIsWhole ==
  \A t \in Threads : Valid(t) /\ call[t].at \notin WipeSteps =>
    slots[handles[t].slot] = Whole(made[t])

NoSharing ==
  \A t, u \in Threads : Valid(t) /\ handles[t].slot = handles[u].slot => t = u

\* A ready slot has an owner, or is about to be given to one
ReadyHasOwner ==
  \A s \in Slots : slots[s].ready =>
    \E t \in Threads : \/ handles[t].slot = s
                       \/ At(t, "handle") /\ call[t].slot = s

SlotInv ==
  /\ TypeOK
  /\ OneWriter
  /\ \A t \in Threads : CallShape(t) /\ CallWork(t)
  /\ EndsEmpty
  /\ OwnedIsWhole
  /\ NoSharing
  /\ ReadyHasOwner

-----------------------------------------------------------------------------

USE SlotCountAssumption, MaterialAssumption, LockedAssumption

\* The numbers that stand for no key are no keys, and no slot is the invalid one.
LEMMA Numbers == NoKey \notin Key /\ Residue \notin Key /\ kRsaInvalidSlot \notin Slots
  BY DEF NoKey, Residue, Key, kRsaInvalidSlot, Slots

\* The initial state satisfies the invariant.
LEMMA SlotInit == Init => SlotInv
  <1> SUFFICES ASSUME Init PROVE SlotInv
    OBVIOUS
  <1>1. TypeOK
    <2>1. nextKey \in 1 .. MaxKeys + 1
      BY DEF Init
    <2>2. call \in [Threads -> [op : Ops \cup {"none"}, at : Labels, slot : 0..SlotCount,
                               key : Key \cup {NoKey, Residue}]]
      BY DEF Init, NoCall, Labels, kRsaInvalidSlot
    <2> QED
      BY <2>1, <2>2 DEF Init, TypeOK, BlankSlot, NoHandle, Part, CryptoStatus
  <1>2. \A t \in Threads : CallShape(t) /\ CallWork(t)
    BY DEF Init, CallShape, CallWork, NoCall, NoHandle, Busy, Writers, At, Idle,
           MakeSteps, WipeSteps
  <1> QED
    BY <1>1, <1>2 DEF Init, SlotInv, OneWriter, EndsEmpty, OwnedIsWhole, NoSharing,
       ReadyHasOwner, NoCall, NoHandle, BlankSlot, Busy, Writers, Valid

-----------------------------------------------------------------------------
(* Types *)

CallType == [op : Ops \cup {"none"}, at : Labels, slot : 0..SlotCount,
             key : Key \cup {NoKey, Residue}]
RetType == [op : Ops \cup {"none"}, st : CryptoStatus, key : Part]

\* Moving on to another step, or entering or leaving a call, keeps the type.
LEMMA CallTypes ==
  ASSUME TypeOK, NEW t \in Threads
  PROVE  /\ \A l \in Labels : Goto(t, l) => call' \in [Threads -> CallType] /\ ret' = ret
         /\ \A st \in CryptoStatus, k \in Part : Return(t, st, k) =>
              call' \in [Threads -> CallType] /\ ret' \in [Threads -> RetType]
         /\ \A op \in Ops, l \in Labels, s \in 0..SlotCount, k \in Key \cup {NoKey, Residue} :
              Enter(t, op, l, s, k) => call' \in [Threads -> CallType]
         /\ \A op \in Ops, st \in CryptoStatus, k \in Part :
              Answer(t, op, st, k) => ret' \in [Threads -> RetType]
  <1>1. NoCall \in CallType
    BY DEF NoCall, CallType, Labels
  <1>2. call[t] \in CallType /\ call \in [Threads -> CallType] /\ ret \in [Threads -> RetType]
    BY DEF TypeOK, CallType, RetType
  <1>3. \A l \in Labels : [call[t] EXCEPT !.at = l] \in CallType
    BY <1>2 DEF CallType
  <1>4. \A l \in Labels : Goto(t, l) => call' \in [Threads -> CallType] /\ ret' = ret
    BY <1>2, <1>3 DEF Goto
  <1>5. ASSUME NEW st \in CryptoStatus, NEW k \in Part, Return(t, st, k)
        PROVE  call' \in [Threads -> CallType] /\ ret' \in [Threads -> RetType]
    BY <1>1, <1>2, <1>5 DEF Return, Answer, RetType, CallType
  <1>6. ASSUME NEW op \in Ops, NEW l \in Labels, NEW s \in 0..SlotCount,
               NEW k \in Key \cup {NoKey, Residue}, Enter(t, op, l, s, k)
        PROVE  call' \in [Threads -> CallType]
    BY <1>2, <1>6 DEF Enter, CallType
  <1>7. ASSUME NEW op \in Ops, NEW st \in CryptoStatus, NEW k \in Part, Answer(t, op, st, k)
        PROVE  ret' \in [Threads -> RetType]
    BY <1>2, <1>7 DEF Answer, RetType
  <1> QED
    BY <1>4, <1>5, <1>6, <1>7

-----------------------------------------------------------------------------
(* What a step has to respect *)

\* No thread but t is inside a call that writes
Alone(t) == \A u \in Threads \ {t} : ~Busy(u)

\* The calls, handles and ghosts of the other threads stay
OthersStay(t) ==
  \A u \in Threads \ {t} :
    call'[u] = call[u] /\ handles'[u] = handles[u] /\ made'[u] = made[u]

\* The keys of the other threads stay
OtherKeysStay(t) ==
  \A u \in Threads \ {t} : Valid(u) => slots'[handles[u].slot] = slots[handles[u].slot]

\* OwnedIsWhole and NoSharing for one thread
OwnsItsKey(t) ==
  /\ Valid(t) /\ call[t].at \notin WipeSteps => slots[handles[t].slot] = Whole(made[t])
  /\ Valid(t) => \A u \in Threads \ {t} : handles[u].slot # handles[t].slot

\* A thread inside a writing call is there alone; the others are between calls
\* or exporting.
LEMMA WriterIsAlone ==
  ASSUME SlotInv, NEW t \in Threads, Busy(t)
  PROVE  Alone(t)
  BY DEF SlotInv, OneWriter, Alone

\* A thread that is not writing is at one of three steps.
LEMMA NotBusy ==
  ASSUME SlotInv, NEW t \in Threads, ~Busy(t)
  PROVE  call[t].op \in {"none", "export"} /\ call[t].at \in {"idle", "check", "read"}
  <1>1. call[t].op \in Ops \cup {"none"} /\ call[t].at \in Labels /\ CallShape(t)
    BY DEF SlotInv, TypeOK
  <1>2. call[t].op \in {"none", "export"}
    BY <1>1 DEF Busy, Writers, Ops
  <1> QED
    BY <1>1, <1>2 DEF CallShape, Labels, MakeSteps, WipeSteps

\* A step of the one writer keeps the invariant if it keeps the writer's own
\* part of it, the other threads' keys, and the two parts about all slots.
LEMMA WriterKeeps ==
  ASSUME SlotInv, NEW t \in Threads, Alone(t), OthersStay(t), OtherKeysStay(t),
         TypeOK', CallShape(t)', CallWork(t)', OwnsItsKey(t)', EndsEmpty', ReadyHasOwner'
  PROVE  SlotInv'
  <1>1. ASSUME NEW u \in Threads, u # t
        PROVE  /\ ~Busy(u)' /\ (Valid(u)' <=> Valid(u))
               /\ CallShape(u)' /\ CallWork(u)' /\ OwnsItsKey(u)'
    <2>1. call'[u] = call[u] /\ handles'[u] = handles[u] /\ made'[u] = made[u]
      BY <1>1 DEF OthersStay
    <2>2. ~Busy(u) /\ ~Busy(u)'
      BY <1>1, <2>1 DEF Alone, Busy
    <2>3. call[u].op \in {"none", "export"} /\ call[u].at \in {"idle", "check", "read"}
      BY <2>2, NotBusy
    <2>4. Valid(u)' <=> Valid(u)
      BY <2>1 DEF Valid
    <2>5. CallShape(u)
      BY DEF SlotInv
    <2>6. CallShape(u)'
      BY <2>1, <2>2, <2>3, <2>4, <2>5 DEF CallShape, At, Idle, MakeSteps, WipeSteps
    <2>7. CallWork(u)'
      BY <2>1, <2>3 DEF CallWork, At, WipeSteps
    <2>8. OwnsItsKey(u)'
      <3>1. Valid(u) => slots[handles[u].slot] = Whole(made[u])
        BY <2>3 DEF SlotInv, OwnedIsWhole, WipeSteps
      <3>2. ASSUME Valid(u)', NEW v \in Threads, v # u
            PROVE  handles'[v].slot # handles'[u].slot
        <4>1. CASE v = t
          BY <1>1, <3>2, <4>1 DEF OwnsItsKey, Valid
        <4>2. CASE v # t
          BY <2>1, <2>4, <3>2, <4>2 DEF SlotInv, NoSharing, OthersStay
        <4> QED BY <4>1, <4>2
      <3> QED
        BY <1>1, <2>1, <2>4, <3>1, <3>2 DEF OwnsItsKey, OtherKeysStay, Whole
    <2> QED BY <2>2, <2>4, <2>6, <2>7, <2>8
  <1>2. \A u \in Threads : CallShape(u)' /\ CallWork(u)' /\ OwnsItsKey(u)'
    BY <1>1
  <1>3. OneWriter'
    BY <1>1 DEF OneWriter
  <1>4. OwnedIsWhole' /\ NoSharing'
    BY <1>2 DEF OwnsItsKey, OwnedIsWhole, NoSharing, Whole
  <1> QED
    BY <1>2, <1>3, <1>4 DEF SlotInv

\* A step of an exporting thread moves only its own call and answer.
LEMMA ReaderKeeps ==
  ASSUME SlotInv, NEW t \in Threads, UNCHANGED <<started, slots, handles, made>>,
         \A u \in Threads \ {t} : call'[u] = call[u],
         ~Busy(t), ~Busy(t)', TypeOK', CallShape(t)'
  PROVE  SlotInv'
  <1>1. call[t].at \in {"idle", "check", "read"}
    BY NotBusy
  <1>2. call'[t].op \in {"none", "export"} /\ call'[t].at \in {"idle", "check", "read"}
    BY DEF CallShape, Busy, Writers, TypeOK, Ops, Labels, MakeSteps, WipeSteps, Idle, At
  <1>3. ASSUME NEW u \in Threads PROVE CallShape(u)' /\ CallWork(u)'
    <2>1. CASE u = t
      BY <1>2, <2>1 DEF CallWork, At, WipeSteps
    <2>2. CASE u # t
      BY <2>2 DEF SlotInv, CallShape, CallWork, At, Idle, Valid, Busy, Whole
    <2> QED BY <2>1, <2>2
  <1>4. OneWriter'
    BY DEF SlotInv, OneWriter, Busy
  <1>5. EndsEmpty'
    BY <1>2 DEF SlotInv, EndsEmpty, Valid
  <1>6. OwnedIsWhole' /\ NoSharing'
    BY <1>1, <1>2 DEF SlotInv, OwnedIsWhole, NoSharing, Valid, Whole, WipeSteps
  <1>7. ReadyHasOwner'
    BY <1>1 DEF SlotInv, ReadyHasOwner, At
  <1> QED
    BY <1>3, <1>4, <1>5, <1>6, <1>7 DEF SlotInv

-----------------------------------------------------------------------------
(* Making a key *)

\* No other thread's key is in the slot a writer works on.
LEMMA SlotIsMine ==
  ASSUME SlotInv, NEW t \in Threads, call[t].at \in MakeSteps \cup WipeSteps,
         call[t].at # "scan", NEW u \in Threads, u # t, Valid(u)
  PROVE  handles[u].slot # call[t].slot
  <1>1. CallShape(t) /\ CallWork(t) /\ call[t].op \in Ops \cup {"none"}
    BY DEF SlotInv, TypeOK
  <1>2. Busy(t)
    BY <1>1 DEF CallShape, Busy, Writers, MakeSteps, WipeSteps
  <1>3. slots[handles[u].slot].ready
    <2>1. call[u].at \notin WipeSteps
      BY <1>2, WriterIsAlone, NotBusy DEF Alone, WipeSteps
    <2>2. slots[handles[u].slot] = Whole(made[u])
      BY <2>1 DEF SlotInv, OwnedIsWhole
    <2> QED BY <2>2 DEF Whole
  <1>4. CASE call[t].at \in MakeSteps
    BY <1>1, <1>3, <1>4 DEF CallWork, MakeSteps, At
  <1>5. CASE call[t].at \in WipeSteps
    BY <1>1, <1>3, <1>5 DEF CallShape, CallWork, SlotInv, NoSharing, EndsEmpty
  <1> QED BY <1>4, <1>5

\* Where a making thread stands, in one place.
LEMMA MakerFacts ==
  ASSUME SlotInv, NEW t \in Threads, call[t].at \in MakeSteps
  PROVE  /\ call[t].op \in {"generate", "import"} /\ ~Valid(t) /\ Busy(t) /\ started
         /\ Alone(t) /\ call[t] \in CallType
         /\ call[t].at # "scan" => call[t].slot \in Slots
  BY WriterIsAlone DEF SlotInv, CallShape, Busy, Writers, MakeSteps, TypeOK, CallType

\* A step of a making thread that leaves handles alone and readies no slot but
\* its own.
LEMMA MakerKeeps ==
  ASSUME SlotInv, NEW t \in Threads, call[t].at \in MakeSteps,
         UNCHANGED <<started, handles, made>>, OthersStay(t), TypeOK',
         call[t].at # "scan" => \A r \in Slots \ {call[t].slot} : slots'[r] = slots[r],
         call[t].at = "scan" => slots' = slots,
         call[t].at # "handle",
         CallShape(t)', CallWork(t)', call'[t].op # "end",
         \A r \in Slots : slots'[r].ready =>
           slots[r].ready \/ (At(t, "handle")' /\ call'[t].slot = r)
  PROVE  SlotInv'
  <1>0. ~Valid(t) /\ Alone(t) /\ ~Valid(t)'
    BY MakerFacts DEF Valid
  <1>1. OtherKeysStay(t)
    <2> SUFFICES ASSUME NEW u \in Threads, u # t, Valid(u)
                 PROVE  slots'[handles[u].slot] = slots[handles[u].slot]
      BY DEF OtherKeysStay
    <2>1. handles[u].slot \in Slots
      BY DEF SlotInv, TypeOK, Valid
    <2> QED BY <2>1, SlotIsMine
  <1>2. OwnsItsKey(t)'
    BY <1>0 DEF OwnsItsKey
  <1>3. EndsEmpty'
    BY <1>0 DEF EndsEmpty, OthersStay, Alone, Busy, Writers
  <1>4. ReadyHasOwner'
    <2> SUFFICES ASSUME NEW r \in Slots, slots'[r].ready
                 PROVE  \E u \in Threads : \/ handles'[u].slot = r
                                           \/ At(u, "handle")' /\ call'[u].slot = r
      BY DEF ReadyHasOwner
    <2>1. CASE slots[r].ready
      <3>1. PICK u \in Threads : \/ handles[u].slot = r
                                 \/ At(u, "handle") /\ call[u].slot = r
        BY <2>1 DEF SlotInv, ReadyHasOwner
      <3> QED BY <3>1 DEF OthersStay, At
    <2> QED BY <2>1
  <1> QED
    BY <1>0, <1>1, <1>2, <1>3, <1>4, WriterKeeps

SlotType == [priv : Part, pub : Part, ready : BOOLEAN]

\* Only slot s may differ
OtherSlotsStay(s) == \A r \in Slots \ {s} : slots'[r] = slots[r]

\* The next label of t's call, and nothing else of any call
MovesTo(t, l) ==
  /\ \A u \in Threads \ {t} : call'[u] = call[u]
  /\ call'[t].at = l /\ call'[t].op = call[t].op
  /\ call'[t].slot = call[t].slot /\ call'[t].key = call[t].key

LeavesCall(t) ==
  /\ \A u \in Threads \ {t} : call'[u] = call[u]
  /\ call'[t] = NoCall

\* Goto and Return, point by point.
LEMMA MoveFacts ==
  ASSUME TypeOK, NEW t \in Threads
  PROVE  /\ \A l \in Labels : Goto(t, l) => MovesTo(t, l)
         /\ \A st, k : Return(t, st, k) => LeavesCall(t)
  <1>1. call \in [Threads -> CallType]
    BY DEF TypeOK, CallType
  <1>2. call[t] \in CallType
    BY <1>1
  <1> QED
    BY <1>1, <1>2 DEF Goto, MovesTo, Return, LeavesCall, CallType

\* Writing one part of a slot, point by point.
LEMMA SlotParts ==
  ASSUME TypeOK, NEW s \in Slots
  PROVE  /\ \A v \in Part : slots' = [slots EXCEPT ![s].priv = v] =>
              /\ slots' \in [Slots -> SlotType] /\ OtherSlotsStay(s)
              /\ slots'[s].priv = v /\ slots'[s].pub = slots[s].pub
              /\ slots'[s].ready = slots[s].ready
         /\ \A v \in Part : slots' = [slots EXCEPT ![s].pub = v] =>
              /\ slots' \in [Slots -> SlotType] /\ OtherSlotsStay(s)
              /\ slots'[s].priv = slots[s].priv /\ slots'[s].pub = v
              /\ slots'[s].ready = slots[s].ready
         /\ \A v \in BOOLEAN : slots' = [slots EXCEPT ![s].ready = v] =>
              /\ slots' \in [Slots -> SlotType] /\ OtherSlotsStay(s)
              /\ slots'[s].priv = slots[s].priv /\ slots'[s].pub = slots[s].pub
              /\ slots'[s].ready = v
  <1>1. slots \in [Slots -> SlotType] /\ slots[s] \in SlotType
    BY DEF TypeOK, SlotType
  <1> QED
    BY <1>1 DEF SlotType, OtherSlotsStay

\* The steps that write one part of a slot and go on.
LEMMA WriteFacts ==
  ASSUME TypeOK, NEW t \in Threads, call[t].slot \in Slots, NEW l \in Labels
  PROVE  /\ \A v \in Part : SetPriv(t, v, l) =>
              /\ slots' \in [Slots -> SlotType] /\ OtherSlotsStay(call[t].slot)
              /\ slots'[call[t].slot].priv = v
              /\ slots'[call[t].slot].pub = slots[call[t].slot].pub
              /\ slots'[call[t].slot].ready = slots[call[t].slot].ready
              /\ MovesTo(t, l) /\ call' \in [Threads -> CallType] /\ ret' = ret
         /\ \A v \in Part : SetPub(t, v, l) =>
              /\ slots' \in [Slots -> SlotType] /\ OtherSlotsStay(call[t].slot)
              /\ slots'[call[t].slot].priv = slots[call[t].slot].priv
              /\ slots'[call[t].slot].pub = v
              /\ slots'[call[t].slot].ready = slots[call[t].slot].ready
              /\ MovesTo(t, l) /\ call' \in [Threads -> CallType] /\ ret' = ret
         /\ \A v \in BOOLEAN : SetReady(t, v, l) =>
              /\ slots' \in [Slots -> SlotType] /\ OtherSlotsStay(call[t].slot)
              /\ slots'[call[t].slot].priv = slots[call[t].slot].priv
              /\ slots'[call[t].slot].pub = slots[call[t].slot].pub
              /\ slots'[call[t].slot].ready = v
              /\ MovesTo(t, l) /\ call' \in [Threads -> CallType] /\ ret' = ret
  <1>1. Goto(t, l) => MovesTo(t, l) /\ call' \in [Threads -> CallType] /\ ret' = ret
    BY CallTypes, MoveFacts
  <1> QED
    BY <1>1, SlotParts DEF SetPriv, SetPub, SetReady

\* One pass of the search for a slot.
LEMMA ScanKeeps ==
  ASSUME SlotInv, NEW t \in Threads, Scan(t)
  PROVE  SlotInv'
  <1>0. TypeOK /\ CallShape(t) /\ CallWork(t) /\ At(t, "scan")
    BY DEF SlotInv, Scan
  <1>1. call[t].at \in MakeSteps
    BY <1>0 DEF MakeSteps, At
  <1>2. UNCHANGED <<started, slots, nextKey, handles, made>>
    BY DEF Scan
  <1>3. /\ call[t].op \in {"generate", "import"} /\ ~Valid(t) /\ started
        /\ call[t] \in CallType /\ call \in [Threads -> CallType]
    BY <1>0, <1>1, MakerFacts DEF TypeOK, CallType
  <1>4. CASE call[t].slot = SlotCount /\ Return(t, "InternalError", NoKey)
    <2>1. LeavesCall(t) /\ TypeOK'
      BY <1>0, <1>2, <1>4, MoveFacts, CallTypes
      DEF TypeOK, CryptoStatus, Part, CallType, RetType
    <2>2. CallShape(t)' /\ CallWork(t)'
      BY <2>1 DEF LeavesCall, NoCall, CallShape, CallWork, At, Idle, Busy, Writers,
                  MakeSteps, WipeSteps
    <2> QED
      BY <1>0, <1>1, <1>2, <2>1, <2>2, MakerKeeps
      DEF LeavesCall, NoCall, OthersStay, At
  <1>5. CASE slots[call[t].slot].ready /\ call[t].slot < SlotCount
             /\ call' = [call EXCEPT ![t].slot = @ + 1] /\ UNCHANGED ret
    <2>1. /\ \A u \in Threads \ {t} : call'[u] = call[u]
          /\ call'[t].at = "scan" /\ call'[t].op = call[t].op
          /\ call'[t].key = call[t].key /\ call' \in [Threads -> CallType]
      BY <1>0, <1>3, <1>5 DEF CallType, At, kRsaInvalidSlot
    <2>2. TypeOK'
      BY <1>0, <1>2, <1>5, <2>1 DEF TypeOK, CallType
    <2>3. CallShape(t)' /\ CallWork(t)'
      BY <1>0, <1>2, <1>3, <2>1 DEF CallShape, CallWork, At, Idle, Busy, Valid,
                  MakeSteps, WipeSteps
    <2> QED
      BY <1>0, <1>1, <1>2, <1>3, <2>1, <2>2, <2>3, MakerKeeps DEF OthersStay, At
  <1>6. CASE ~slots[call[t].slot].ready /\ call[t].slot < SlotCount /\ Goto(t, "unready")
    <2>1. MovesTo(t, "unready") /\ call' \in [Threads -> CallType] /\ ret' = ret
      BY <1>0, <1>6, MoveFacts, CallTypes DEF Labels
    <2>2. TypeOK'
      BY <1>0, <1>2, <2>1 DEF TypeOK, CallType
    <2>3. call[t].slot \in Slots
      BY <1>3, <1>6 DEF CallType, Slots, kRsaInvalidSlot
    <2>4. CallShape(t)' /\ CallWork(t)'
      BY <1>0, <1>2, <1>3, <1>6, <2>1, <2>3 DEF MovesTo, CallShape, CallWork, At, Idle,
                  Busy, Valid, MakeSteps, WipeSteps
    <2> QED
      BY <1>0, <1>1, <1>2, <1>3, <2>1, <2>2, <2>4, MakerKeeps DEF MovesTo, OthersStay, At
  <1> QED
    BY <1>4, <1>5, <1>6 DEF Scan

\* A maker past the search: a step that writes its own slot and goes to l, in
\* the same call.
LEMMA MakerMoves ==
  ASSUME SlotInv, NEW t \in Threads, call[t].at \in MakeSteps \ {"scan", "handle"},
         NEW l \in {"priv", "pub", "mark", "handle", "wipePriv"},
         slots' \in [Slots -> SlotType], OtherSlotsStay(call[t].slot),
         \A u \in Threads \ {t} : call'[u] = call[u],
         call' \in [Threads -> CallType],
         call'[t].at = l, call'[t].op = call[t].op, call'[t].slot = call[t].slot,
         l = "wipePriv" => call[t].op = "import",
         l # "handle" => ~slots'[call[t].slot].ready,
         nextKey' \in 1 .. MaxKeys + 1, ret' \in [Threads -> RetType],
         UNCHANGED <<started, handles, made>>, CallWork(t)'
  PROVE  SlotInv'
  <1>0. TypeOK /\ CallShape(t)
    BY DEF SlotInv
  <1>1. /\ call[t].op \in {"generate", "import"} /\ ~Valid(t) /\ started
        /\ call[t].slot \in Slots
    BY MakerFacts
  <1>2. TypeOK'
    BY <1>0 DEF TypeOK, CallType, RetType, SlotType
  <1>3. CallShape(t)'
    BY <1>1 DEF CallShape, At, Idle, Busy, Valid, MakeSteps, WipeSteps
  <1>4. \A r \in Slots : slots'[r].ready =>
          slots[r].ready \/ (At(t, "handle")' /\ call'[t].slot = r)
    BY DEF OtherSlotsStay, At
  <1> QED
    BY <1>1, <1>2, <1>3, <1>4, MakerKeeps DEF OthersStay, OtherSlotsStay

\* A generation that fails leaves its slot as it was or spoilt, not ready, and
\* the call.
LEMMA MakerFails ==
  ASSUME SlotInv, NEW t \in Threads, call[t].at \in MakeSteps \ {"scan", "handle"},
         slots' \in [Slots -> SlotType], OtherSlotsStay(call[t].slot),
         ~slots'[call[t].slot].ready,
         Return(t, "InternalError", NoKey), UNCHANGED <<started, nextKey, handles, made>>
  PROVE  SlotInv'
  <1>0. TypeOK
    BY DEF SlotInv
  <1>1. LeavesCall(t) /\ call' \in [Threads -> CallType] /\ ret' \in [Threads -> RetType]
    BY <1>0, MoveFacts, CallTypes DEF CryptoStatus, Part
  <1>2. TypeOK'
    BY <1>0, <1>1 DEF TypeOK, CallType, RetType, SlotType
  <1>3. CallShape(t)' /\ CallWork(t)'
    BY <1>1 DEF LeavesCall, NoCall, CallShape, CallWork, At, Idle, Busy, Writers,
                MakeSteps, WipeSteps
  <1>4. \A r \in Slots : slots'[r].ready => slots[r].ready
    BY DEF OtherSlotsStay
  <1> QED
    BY <1>1, <1>2, <1>3, <1>4, MakerKeeps DEF LeavesCall, NoCall, OthersStay, OtherSlotsStay

\* g_rsaSlots[slot].ready = false.
LEMMA UnreadyKeeps ==
  ASSUME SlotInv, NEW t \in Threads, Unready(t)
  PROVE  SlotInv'
  <1>0. TypeOK /\ CallWork(t) /\ At(t, "unready") /\ call[t].at \in MakeSteps \ {"scan", "handle"}
    BY DEF SlotInv, Unready, At, MakeSteps
  <1>1. call[t].slot \in Slots
    BY <1>0, MakerFacts
  <1>2. /\ slots' \in [Slots -> SlotType] /\ OtherSlotsStay(call[t].slot)
        /\ ~slots'[call[t].slot].ready /\ ret' = ret
        /\ MovesTo(t, "priv") /\ call' \in [Threads -> CallType]
    BY <1>0, <1>1, WriteFacts DEF Unready, Labels
  <1>3. CallWork(t)'
    BY <1>0, <1>2 DEF CallWork, MovesTo, At, WipeSteps
  <1>4. UNCHANGED <<started, nextKey, handles, made>>
    BY DEF Unready
  <1> QED
    BY <1>0, <1>2, <1>3, <1>4, MakerMoves DEF MovesTo, TypeOK, RetType

\* The library writes the private part.
LEMMA FillPrivKeeps ==
  ASSUME SlotInv, NEW t \in Threads, FillPriv(t)
  PROVE  SlotInv'
  <1>0. TypeOK /\ CallWork(t) /\ At(t, "priv") /\ call[t].at \in MakeSteps \ {"scan", "handle"}
    BY DEF SlotInv, FillPriv, At, MakeSteps
  <1>1. call[t].slot \in Slots /\ ~slots[call[t].slot].ready
        /\ call[t].op \in {"generate", "import"}
    BY <1>0, MakerFacts DEF CallWork, At
  <1>2. PICK k \in Key :
          /\ slots' = [slots EXCEPT ![call[t].slot].priv = k]
          /\ call' = [call EXCEPT ![t].at = "pub", ![t].key = k]
          /\ nextKey' \in {nextKey} \cup 1 .. MaxKeys + 1
    <2>1. call[t].op = "import" => call[t].key \in Key
      BY <1>0 DEF CallWork, At
    <2>2. call[t].op = "generate" =>
            nextKey \in Key /\ nextKey + 1 \in 1 .. MaxKeys + 1
      BY <1>0 DEF FillPriv, TypeOK, Key
    <2> QED BY <1>1, <2>1, <2>2 DEF FillPriv
  <1>3. /\ slots' \in [Slots -> SlotType] /\ OtherSlotsStay(call[t].slot)
        /\ ~slots'[call[t].slot].ready /\ slots'[call[t].slot].priv = k
    BY <1>0, <1>1, <1>2, SlotParts DEF Part
  <1>4. /\ \A u \in Threads \ {t} : call'[u] = call[u]
        /\ call' \in [Threads -> CallType] /\ call'[t].at = "pub"
        /\ call'[t].op = call[t].op /\ call'[t].slot = call[t].slot /\ call'[t].key = k
    BY <1>0, <1>2, ZenonT(30) DEF TypeOK, CallType, Labels
  <1>5. nextKey' \in 1 .. MaxKeys + 1
    BY <1>0, <1>2 DEF TypeOK
  <1>6. CallWork(t)'
    BY <1>1, <1>3, <1>4 DEF CallWork, At, WipeSteps
  <1>7. UNCHANGED <<started, handles, made, ret>>
    BY DEF FillPriv
  <1> QED
    BY <1>0, <1>3, <1>4, <1>5, <1>6, <1>7, MakerMoves DEF TypeOK, RetType

\* The library fails to write the private part.
LEMMA FillPrivFailsKeeps ==
  ASSUME SlotInv, NEW t \in Threads, FillPrivFails(t)
  PROVE  SlotInv'
  <1>0. TypeOK /\ CallWork(t) /\ At(t, "priv") /\ call[t].at \in MakeSteps \ {"scan", "handle"}
    BY DEF SlotInv, FillPrivFails, At, MakeSteps
  <1>1. call[t].slot \in Slots /\ ~slots[call[t].slot].ready
    BY <1>0, MakerFacts DEF CallWork, At
  <1>2. PICK left \in {slots[call[t].slot].priv, Residue} :
          slots' = [slots EXCEPT ![call[t].slot].priv = left]
    BY DEF FillPrivFails
  <1>3. /\ slots' \in [Slots -> SlotType] /\ OtherSlotsStay(call[t].slot)
        /\ ~slots'[call[t].slot].ready
    <2>1. left \in Part
      BY <1>0, <1>1 DEF TypeOK, Part
    <2> QED BY <1>0, <1>1, <1>2, <2>1, SlotParts
  <1>4. UNCHANGED <<started, nextKey, handles, made>>
    BY DEF FillPrivFails
  <1>5. CASE Return(t, "InternalError", NoKey)
    BY <1>0, <1>3, <1>4, <1>5, MakerFails
  <1>6. CASE /\ call[t].op = "import" /\ UNCHANGED ret
             /\ call' = [call EXCEPT ![t].at = "pub", ![t].key = Residue]
    <2>1. /\ \A u \in Threads \ {t} : call'[u] = call[u]
          /\ call' \in [Threads -> CallType] /\ call'[t].at = "pub"
          /\ call'[t].op = call[t].op /\ call'[t].slot = call[t].slot
          /\ call'[t].key = Residue
      BY <1>0, <1>6 DEF TypeOK, CallType, Labels
    <2>2. CallWork(t)'
      BY <1>3, <1>6, <2>1 DEF CallWork, At, WipeSteps
    <2> QED
      BY <1>0, <1>3, <1>4, <1>6, <2>1, <2>2, MakerMoves DEF TypeOK, RetType
  <1> QED
    BY <1>5, <1>6 DEF FillPrivFails

\* The library writes, or fails to write, the public part.
LEMMA FillPubKeeps ==
  ASSUME SlotInv, NEW t \in Threads, FillPub(t)
  PROVE  SlotInv'
  <1>0. TypeOK /\ CallWork(t) /\ At(t, "pub") /\ call[t].at \in MakeSteps \ {"scan", "handle"}
    BY DEF SlotInv, FillPub, At, MakeSteps
  <1>1. call[t].slot \in Slots /\ ~slots[call[t].slot].ready
    BY <1>0, MakerFacts DEF CallWork, At
  <1>2. UNCHANGED <<started, nextKey, handles, made>>
    BY DEF FillPub
  <1>3. CASE call[t].key # Residue /\ SetPub(t, call[t].key, "mark")
    <2>1. call[t].key \in Key /\ slots[call[t].slot].priv = call[t].key
      BY <1>0, <1>3 DEF CallWork, At
    <2>2. /\ slots' \in [Slots -> SlotType] /\ OtherSlotsStay(call[t].slot)
          /\ slots'[call[t].slot].ready = slots[call[t].slot].ready
          /\ slots'[call[t].slot].priv = slots[call[t].slot].priv
          /\ slots'[call[t].slot].pub = call[t].key /\ ret' = ret
          /\ MovesTo(t, "mark") /\ call' \in [Threads -> CallType]
      <3>1. "mark" \in Labels /\ call[t].key \in Part
        BY <2>1 DEF Labels, Part
      <3> QED BY <1>0, <1>1, <1>3, <3>1, WriteFacts
    <2>3. CallWork(t)'
      BY <1>1, <2>1, <2>2 DEF CallWork, MovesTo, At, WipeSteps
    <2> QED
      BY <1>0, <1>1, <1>2, <2>2, <2>3, MakerMoves DEF MovesTo, TypeOK, RetType
  <1>4. ASSUME NEW k \in {call[t].key, slots[call[t].slot].pub, Residue},
               call[t].op = "import", SetPub(t, k, "wipePriv")
        PROVE  SlotInv'
    <2>1. k \in Part
      BY <1>0, <1>1, <1>4 DEF TypeOK, Part
    <2>2. /\ slots' \in [Slots -> SlotType] /\ OtherSlotsStay(call[t].slot)
          /\ slots'[call[t].slot].ready = slots[call[t].slot].ready /\ ret' = ret
          /\ MovesTo(t, "wipePriv") /\ call' \in [Threads -> CallType]
      BY <1>0, <1>1, <1>4, <2>1, WriteFacts DEF Labels
    <2>3. CallWork(t)'
      BY <1>1, <2>2 DEF CallWork, MovesTo, At, WipeSteps
    <2> QED
      BY <1>0, <1>1, <1>2, <1>4, <2>2, <2>3, MakerMoves DEF MovesTo, TypeOK, RetType
  <1>5. ASSUME NEW k \in {slots[call[t].slot].pub, Residue},
               slots' = [slots EXCEPT ![call[t].slot].pub = k],
               Return(t, "InternalError", NoKey)
        PROVE  SlotInv'
    <2>1. /\ slots' \in [Slots -> SlotType] /\ OtherSlotsStay(call[t].slot)
          /\ ~slots'[call[t].slot].ready
      <3>1. k \in Part
        BY <1>0, <1>1, <1>5 DEF TypeOK, Part
      <3> QED BY <1>0, <1>1, <1>5, <3>1, SlotParts
    <2> QED
      BY <1>0, <1>2, <1>5, <2>1, MakerFails
  <1> QED
    BY <1>3, <1>4, <1>5 DEF FillPub

\* g_rsaSlots[slot].ready = true: the slot holds one whole key that no handle
\* names yet.
LEMMA MarkKeeps ==
  ASSUME SlotInv, NEW t \in Threads, Mark(t)
  PROVE  SlotInv'
  <1>0. TypeOK /\ CallWork(t) /\ At(t, "mark") /\ call[t].at \in MakeSteps \ {"scan", "handle"}
    BY DEF SlotInv, Mark, At, MakeSteps
  <1>1. call[t].slot \in Slots /\ ~Valid(t)
    BY <1>0, MakerFacts
  <1>2. /\ slots' \in [Slots -> SlotType] /\ OtherSlotsStay(call[t].slot)
        /\ slots'[call[t].slot].ready = TRUE
        /\ slots'[call[t].slot].priv = slots[call[t].slot].priv
        /\ slots'[call[t].slot].pub = slots[call[t].slot].pub /\ ret' = ret
        /\ MovesTo(t, "handle") /\ call' \in [Threads -> CallType]
    BY <1>0, <1>1, WriteFacts DEF Mark, Labels
  <1>3. slots'[call[t].slot] = Whole(call[t].key) /\ call[t].key \in Key
    BY <1>0, <1>1, <1>2 DEF CallWork, At, Whole, SlotType
  <1>4. UNCHANGED <<started, nextKey, handles, made>>
    BY DEF Mark
  <1>5. \A u \in Threads : handles[u].slot # call[t].slot
    <2> SUFFICES ASSUME NEW u \in Threads PROVE handles[u].slot # call[t].slot
      OBVIOUS
    <2>1. CASE Valid(u)
      BY <1>0, <1>1, <2>1, SlotIsMine
    <2>2. CASE ~Valid(u)
      BY <1>1, <2>2, Numbers DEF Valid
    <2> QED BY <2>1, <2>2
  <1>6. CallWork(t)'
    BY <1>2, <1>3, <1>4, <1>5 DEF CallWork, MovesTo, At, WipeSteps, Whole
  <1> QED
    BY <1>0, <1>2, <1>4, <1>6, MakerMoves DEF MovesTo, TypeOK, RetType

\* A thread that holds its key, in a call or not, finds its slot ready and whole.
LEMMA OwnSlotIsReady ==
  ASSUME SlotInv, NEW t \in Threads, Valid(t), call[t].at \notin WipeSteps
  PROVE  /\ handles[t].slot \in Slots /\ slots[handles[t].slot].ready
         /\ slots[handles[t].slot].pub = made[t]
         /\ rsaSlotValid(handles[t].slot)
  <1>1. handles[t].slot \in Slots
    BY DEF SlotInv, TypeOK, Valid
  <1>2. slots[handles[t].slot] = Whole(made[t])
    BY DEF SlotInv, OwnedIsWhole
  <1> QED
    BY <1>1, <1>2 DEF Whole, rsaSlotValid

\* key->slot = slot.
LEMMA FillHandleKeeps ==
  ASSUME SlotInv, NEW t \in Threads, FillHandle(t)
  PROVE  SlotInv'
  <1>0. TypeOK /\ CallWork(t) /\ CallShape(t) /\ At(t, "handle") /\ call[t].at \in MakeSteps
    BY DEF SlotInv, FillHandle, At, MakeSteps
  <1>1. /\ call[t].slot \in Slots /\ Alone(t) /\ started
        /\ call[t].op \in {"generate", "import"}
    BY <1>0, MakerFacts DEF At
  <1>2. MovesTo(t, "check") /\ call' \in [Threads -> CallType] /\ ret' = ret
    BY <1>0, MoveFacts, CallTypes DEF FillHandle, Labels
  <1>3. /\ handles'[t].slot = call[t].slot /\ made'[t] = call[t].key
        /\ \A u \in Threads \ {t} : handles'[u] = handles[u] /\ made'[u] = made[u]
        /\ UNCHANGED <<started, slots, nextKey>>
    BY <1>0 DEF FillHandle, TypeOK
  <1>4. TypeOK'
    <2>1. handles' \in [Threads -> [slot : Slots \cup {kRsaInvalidSlot}, pub : Key \cup {NoKey}]]
      BY <1>0, <1>1 DEF FillHandle, TypeOK
    <2>2. made' \in [Threads -> Key \cup {NoKey}]
      BY <1>0 DEF FillHandle, TypeOK, CallWork
    <2> QED BY <1>0, <1>2, <1>3, <2>1, <2>2 DEF TypeOK, CallType
  <1>5. OthersStay(t) /\ OtherKeysStay(t)
    BY <1>2, <1>3 DEF OthersStay, OtherKeysStay, MovesTo
  <1>6. Valid(t)'
    BY <1>1, <1>3, Numbers DEF Valid
  <1>7. CallShape(t)' /\ CallWork(t)'
    BY <1>1, <1>2, <1>3, <1>6 DEF CallShape, CallWork, MovesTo, At, Idle, MakeSteps, WipeSteps
  <1>8. OwnsItsKey(t)'
    BY <1>0, <1>3 DEF OwnsItsKey, CallWork, Whole
  <1>9. EndsEmpty'
    BY <1>1, <1>2 DEF EndsEmpty, MovesTo, Alone, Busy, Writers
  <1>10. ReadyHasOwner'
    <2> SUFFICES ASSUME NEW r \in Slots, slots[r].ready
                 PROVE  \E u \in Threads : handles'[u].slot = r
                                           \/ (At(u, "handle")' /\ call'[u].slot = r)
      BY <1>3 DEF ReadyHasOwner
    <2>1. PICK u \in Threads : handles[u].slot = r \/ (At(u, "handle") /\ call[u].slot = r)
      BY DEF SlotInv, ReadyHasOwner
    <2>2. CASE u = t
      <3>1. handles[t].slot # r
        BY <1>0, Numbers DEF CallShape, Valid, MakeSteps
      <3> QED BY <1>3, <2>1, <2>2, <3>1
    <2>3. CASE u # t
      BY <1>2, <1>3, <2>1, <2>3 DEF MovesTo, At
    <2> QED BY <2>2, <2>3
  <1> QED
    BY <1>1, <1>4, <1>5, <1>7, <1>8, <1>9, <1>10, WriterKeeps

-----------------------------------------------------------------------------
(* Using and dropping a key *)

\* A step of a thread that holds its key and leaves slots, ghosts and slot
\* numbers alone.
LEMMA HolderKeeps ==
  ASSUME SlotInv, NEW t \in Threads, Valid(t), call[t].at \in {"check", "read"},
         UNCHANGED <<started, slots, made>>, TypeOK', CallShape(t)',
         \A u \in Threads \ {t} : call'[u] = call[u] /\ handles'[u] = handles[u],
         handles'[t].slot = handles[t].slot,
         call[t].op = "export" => handles' = handles,
         call'[t].op \in {call[t].op, "none"},
         call'[t].at \in {"idle", "check", "read", "wipePriv"}
  PROVE  SlotInv'
  <1>0. CallShape(t) /\ CallWork(t) /\ TypeOK
    BY DEF SlotInv
  <1>1. CASE call[t].op = "export"
    <2>1. ~Busy(t) /\ ~Busy(t)'
      BY <1>1 DEF Busy, Writers
    <2> QED BY <1>1, <2>1, ReaderKeeps
  <1>2. CASE call[t].op # "export"
    <2>1. Busy(t) /\ call[t].op \in {"generate", "import", "release"}
      BY <1>0, <1>2 DEF CallShape, Busy, Writers, At
    <2>2. Alone(t)
      BY <2>1, WriterIsAlone
    <2>3. OthersStay(t) /\ OtherKeysStay(t)
      BY DEF OthersStay, OtherKeysStay
    <2>4. slots[handles[t].slot] = Whole(made[t])
      BY DEF SlotInv, OwnedIsWhole, WipeSteps
    <2>5. OwnsItsKey(t)'
      <3>1. \A u \in Threads \ {t} : handles[u].slot # handles[t].slot
        BY DEF SlotInv, NoSharing
      <3> QED BY <2>4, <3>1 DEF OwnsItsKey, Whole
    <2>6. CallWork(t)'
      BY <2>1 DEF CallWork, CallShape, Valid, At, WipeSteps
    <2>7. EndsEmpty'
      BY <2>1, <2>2 DEF EndsEmpty, Alone, Busy, Writers
    <2>8. ReadyHasOwner'
      BY DEF SlotInv, ReadyHasOwner, At
    <2> QED BY <2>2, <2>3, <2>5, <2>6, <2>7, <2>8, WriterKeeps
  <1> QED BY <1>1, <1>2

\* rsaSlotValid(key->slot).
LEMMA CheckKeeps ==
  ASSUME SlotInv, NEW t \in Threads, Check(t)
  PROVE  SlotInv' /\ rsaSlotValid(handles[t].slot) /\ UNCHANGED ret
  <1>0. TypeOK /\ CallShape(t) /\ At(t, "check")
    BY DEF SlotInv, Check
  <1>1. Valid(t) /\ call[t].slot = handles[t].slot
    BY <1>0 DEF CallShape, At
  <1>2. rsaSlotValid(handles[t].slot) /\ handles[t].slot \in Slots
    BY <1>0, <1>1, OwnSlotIsReady DEF At, WipeSteps
  <1> DEFINE l == IF call[t].op = "release" THEN "wipePriv" ELSE "read"
  <1>3. Goto(t, l) /\ UNCHANGED <<started, slots, nextKey, handles, made>>
    BY <1>2 DEF Check
  <1>4. MovesTo(t, l) /\ call' \in [Threads -> CallType] /\ ret' = ret
    BY <1>0, <1>3, MoveFacts, CallTypes DEF Labels
  <1>5. TypeOK'
    BY <1>0, <1>3, <1>4 DEF TypeOK, CallType
  <1>6. CallShape(t)'
    BY <1>0, <1>1, <1>2, <1>3, <1>4
    DEF CallShape, MovesTo, At, Idle, Busy, Valid, Writers, MakeSteps, WipeSteps
  <1> QED
    BY <1>0, <1>1, <1>2, <1>3, <1>4, <1>5, <1>6, HolderKeeps DEF MovesTo, At

\* CRYS_RSA_Get_PubKey.
LEMMA ReadKeeps ==
  ASSUME SlotInv, NEW t \in Threads, Read(t)
  PROVE  SlotInv'
  <1>0. TypeOK /\ CallShape(t) /\ At(t, "read")
    BY DEF SlotInv, Read
  <1>1. Valid(t) /\ call[t].slot = handles[t].slot
    BY <1>0 DEF CallShape, At
  <1>2. /\ \E st \in CryptoStatus, k \in Part : Return(t, st, k)
        /\ \/ UNCHANGED handles
           \/ /\ call[t].op # "export"
              /\ \E k \in Key : handles' = [handles EXCEPT ![t].pub = k]
        /\ UNCHANGED <<started, slots, nextKey, made>>
    BY DEF Read, CryptoStatus, Part
  <1>3. /\ LeavesCall(t) /\ call' \in [Threads -> CallType]
        /\ ret' \in [Threads -> RetType]
    BY <1>0, <1>2, MoveFacts, CallTypes
  <1>4. /\ handles' \in [Threads -> [slot : Slots \cup {kRsaInvalidSlot}, pub : Key \cup {NoKey}]]
        /\ \A u \in Threads \ {t} : handles'[u] = handles[u]
        /\ handles'[t].slot = handles[t].slot
        /\ call[t].op = "export" => handles' = handles
    BY <1>0, <1>2, SMTT(30) DEF TypeOK
  <1>5. TypeOK'
    BY <1>0, <1>2, <1>3, <1>4 DEF TypeOK, CallType, RetType
  <1>6. CallShape(t)'
    BY <1>3 DEF LeavesCall, NoCall, CallShape, At, Idle, Busy, Writers, MakeSteps, WipeSteps
  <1> QED
    BY <1>0, <1>1, <1>2, <1>3, <1>4, <1>5, <1>6, HolderKeeps DEF LeavesCall, NoCall, At

\* Where a wiping thread stands, in one place.
LEMMA WiperFacts ==
  ASSUME SlotInv, NEW t \in Threads, call[t].at \in WipeSteps
  PROVE  /\ TypeOK /\ CallShape(t) /\ CallWork(t)
         /\ call[t].op \in {"release", "import", "end"} /\ Busy(t) /\ started
         /\ Alone(t) /\ call[t].slot \in Slots /\ call[t] \in CallType
  <1>1. TypeOK /\ CallShape(t) /\ CallWork(t)
    BY DEF SlotInv
  <1>2. call[t].op \in {"release", "import", "end"}
    BY <1>1 DEF CallShape
  <1>3. Busy(t)
    BY <1>2 DEF Busy, Writers
  <1> QED
    BY <1>1, <1>2, <1>3, WriterIsAlone DEF CallShape, WipeSteps, TypeOK, CallType

\* A step of a wiping thread that readies no slot, and gives up at most its own
\* handle, on a slot that is not ready.
LEMMA WiperKeeps ==
  ASSUME SlotInv, NEW t \in Threads, call[t].at \in WipeSteps,
         OtherSlotsStay(call[t].slot),
         slots'[call[t].slot].ready => slots[call[t].slot].ready,
         OthersStay(t), TypeOK', CallShape(t)', CallWork(t)', OwnsItsKey(t)',
         call'[t].op \in {call[t].op, "none"},
         \/ handles'[t] = handles[t]
         \/ handles'[t] = NoHandle /\ ~slots'[handles[t].slot].ready
  PROVE  SlotInv'
  <1>0. Alone(t) /\ call[t].op \in {"release", "import", "end"} /\ TypeOK
    BY WiperFacts
  <1>1. OtherKeysStay(t)
    <2> SUFFICES ASSUME NEW u \in Threads, u # t, Valid(u)
                 PROVE  slots'[handles[u].slot] = slots[handles[u].slot]
      BY DEF OtherKeysStay
    <2>1. handles[u].slot \in Slots
      BY DEF SlotInv, TypeOK, Valid
    <2>2. handles[u].slot # call[t].slot
      BY SlotIsMine DEF WipeSteps
    <2> QED BY <2>1, <2>2 DEF OtherSlotsStay
  <1>2. \A r \in Slots : slots'[r].ready => slots[r].ready
    BY DEF OtherSlotsStay
  <1>3. EndsEmpty'
    <2> SUFFICES ASSUME NEW u \in Threads, call'[u].op = "end"
                 PROVE  /\ \A v \in Threads : ~Valid(v)'
                        /\ \A s \in Slots : ~slots'[s].ready
      BY DEF EndsEmpty
    <2>1. u = t /\ call[t].op = "end"
      BY <1>0 DEF OthersStay, Alone, Busy, Writers
    <2>2. (\A v \in Threads : ~Valid(v)) /\ (\A s \in Slots : ~slots[s].ready)
      BY <2>1 DEF SlotInv, EndsEmpty
    <2>3. \A v \in Threads : ~Valid(v)'
      BY <2>2 DEF OthersStay, Valid, NoHandle
    <2> QED BY <1>2, <2>2, <2>3
  <1>4. ReadyHasOwner'
    <2> SUFFICES ASSUME NEW r \in Slots, slots'[r].ready
                 PROVE  \E u \in Threads : handles'[u].slot = r
      BY DEF ReadyHasOwner
    <2>1. PICK u \in Threads : handles[u].slot = r \/ (At(u, "handle") /\ call[u].slot = r)
      BY <1>2 DEF SlotInv, ReadyHasOwner
    <2>2. ~At(u, "handle")
      <3>1. CASE u = t
        BY <3>1 DEF At, WipeSteps
      <3>2. CASE u # t
        BY <1>0, <3>2, NotBusy DEF Alone, At
      <3> QED BY <3>1, <3>2
    <2>3. CASE u = t
      BY <2>1, <2>2, <2>3
    <2>4. CASE u # t
      BY <2>1, <2>2, <2>4 DEF OthersStay
    <2> QED BY <2>3, <2>4
  <1> QED
    BY <1>0, <1>1, <1>3, <1>4, WriterKeeps

\* One of the stores of memset: the call goes on to the next one.
LEMMA WiperMoves ==
  ASSUME SlotInv, NEW t \in Threads, call[t].at \in WipeSteps, NEW l \in WipeSteps,
         slots' \in [Slots -> SlotType], OtherSlotsStay(call[t].slot),
         slots'[call[t].slot].ready => slots[call[t].slot].ready,
         l = "unreadyAgain" => ~slots'[call[t].slot].ready,
         MovesTo(t, l), call' \in [Threads -> CallType], ret' = ret,
         UNCHANGED <<started, nextKey, handles, made>>
  PROVE  SlotInv'
  <1>0. /\ TypeOK /\ CallShape(t) /\ CallWork(t) /\ started /\ call[t].slot \in Slots
        /\ call[t].op \in {"release", "import", "end"}
    BY WiperFacts
  <1>1. TypeOK'
    BY <1>0 DEF TypeOK, CallType, SlotType
  <1>2. OthersStay(t)
    BY DEF OthersStay, MovesTo
  <1>3. CallShape(t)'
    BY <1>0 DEF CallShape, MovesTo, At, Idle, Busy, Valid, MakeSteps, WipeSteps
  <1>4. CallWork(t)'
    BY <1>0 DEF CallWork, MovesTo, At, WipeSteps
  <1>5. OwnsItsKey(t)'
    <2>1. \A u \in Threads \ {t} : Valid(t) => handles[u].slot # handles[t].slot
      BY DEF SlotInv, NoSharing
    <2> QED BY <2>1 DEF OwnsItsKey, MovesTo, Valid
  <1> QED
    BY <1>1, <1>2, <1>3, <1>4, <1>5, WiperKeeps DEF MovesTo

\* memset reaches priv, pub and ready.
LEMMA WipeKeeps ==
  ASSUME SlotInv, NEW t \in Threads, WipePriv(t) \/ WipePub(t) \/ WipeReady(t)
  PROVE  SlotInv'
  <1>0. call[t].at \in WipeSteps
    BY DEF WipePriv, WipePub, WipeReady, At, WipeSteps
  <1>1. TypeOK /\ call[t].slot \in Slots
    BY <1>0, WiperFacts
  <1>2. NoKey \in Part /\ WipeSteps \subseteq Labels
    BY DEF Part, WipeSteps, Labels
  <1>3. UNCHANGED <<started, nextKey, handles, made>>
    BY DEF WipePriv, WipePub, WipeReady
  <1>4. CASE WipePriv(t)
    <2>1. SetPriv(t, NoKey, "wipePub") /\ "wipePub" \in WipeSteps
      BY <1>4 DEF WipePriv, WipeSteps
    <2> QED BY <1>0, <1>1, <1>2, <1>3, <2>1, WriteFacts, WiperMoves
  <1>5. CASE WipePub(t)
    <2>1. SetPub(t, NoKey, "wipeReady") /\ "wipeReady" \in WipeSteps
      BY <1>5 DEF WipePub, WipeSteps
    <2> QED BY <1>0, <1>1, <1>2, <1>3, <2>1, WriteFacts, WiperMoves
  <1>6. CASE WipeReady(t)
    <2>1. SetReady(t, FALSE, "unreadyAgain") /\ "unreadyAgain" \in WipeSteps
      BY <1>6 DEF WipeReady, WipeSteps
    <2> QED BY <1>0, <1>1, <1>2, <1>3, <2>1, WriteFacts, WiperMoves
  <1> QED BY <1>4, <1>5, <1>6

\* The second store to ready finds it false already, so it changes nothing,
\* whether the compiler keeps it or not.
LEMMA SecondStoreIsIdle ==
  ASSUME SlotInv, NEW t \in Threads, UnreadyAgain(t)
  PROVE  slots' = slots /\ ~slots[call[t].slot].ready
  <1>0. call[t].at \in WipeSteps /\ At(t, "unreadyAgain")
    BY DEF UnreadyAgain, At, WipeSteps
  <1>1. TypeOK /\ call[t].slot \in Slots /\ ~slots[call[t].slot].ready
    BY <1>0, WiperFacts DEF CallWork
  <1>2. slots \in [Slots -> SlotType] /\ slots[call[t].slot] \in SlotType
    BY <1>1 DEF TypeOK, SlotType
  <1>3. [slots[call[t].slot] EXCEPT !.ready = FALSE] = slots[call[t].slot]
    BY <1>1, <1>2 DEF SlotType
  <1> QED
    BY <1>1, <1>2, <1>3 DEF UnreadyAgain

\* The end of rsaFreeSlot, and what follows it in the call.
LEMMA UnreadyAgainKeeps ==
  ASSUME SlotInv, NEW t \in Threads, UnreadyAgain(t)
  PROVE  SlotInv'
  <1>0. call[t].at \in WipeSteps /\ At(t, "unreadyAgain")
    BY DEF UnreadyAgain, At, WipeSteps
  <1>1. /\ TypeOK /\ CallShape(t) /\ CallWork(t) /\ started /\ call[t].slot \in Slots
        /\ call[t].op \in {"release", "import", "end"} /\ call[t] \in CallType
    BY <1>0, WiperFacts
  <1>2. /\ slots' = slots /\ ~slots[call[t].slot].ready
        /\ OtherSlotsStay(call[t].slot) /\ nextKey' = nextKey
    BY SecondStoreIsIdle DEF OtherSlotsStay, UnreadyAgain
  <1>3. \A u \in Threads \ {t} : Valid(t) => handles[u].slot # handles[t].slot
    BY DEF SlotInv, NoSharing
  <1>4. "Ok" \in CryptoStatus /\ "BadParam" \in CryptoStatus /\ NoKey \in Part
    BY DEF CryptoStatus, Part
  <1>5. CASE call[t].op = "release"
    <2>1. /\ handles' = [handles EXCEPT ![t] = NoHandle]
          /\ made' = [made EXCEPT ![t] = NoKey]
          /\ Return(t, "Ok", NoKey) /\ started' = started
      BY <1>5 DEF UnreadyAgain, AfterFree
    <2>2. LeavesCall(t) /\ call' \in [Threads -> CallType] /\ ret' \in [Threads -> RetType]
      BY <1>1, <1>4, <2>1, MoveFacts, CallTypes
    <2>3. TypeOK'
      BY <1>1, <1>2, <2>1, <2>2 DEF TypeOK, CallType, RetType, NoHandle
    <2>4. /\ handles'[t] = NoHandle
          /\ \A u \in Threads \ {t} : handles'[u] = handles[u] /\ made'[u] = made[u]
      BY <1>1, <2>1 DEF TypeOK
    <2>5. handles[t].slot = call[t].slot
      BY <1>0, <1>1, <1>5 DEF CallShape
    <2>6. CallShape(t)' /\ CallWork(t)' /\ OwnsItsKey(t)'
      BY <2>2, <2>4 DEF LeavesCall, NoCall, NoHandle, Valid, CallShape, CallWork, OwnsItsKey,
                        At, Idle, Busy, Writers, MakeSteps, WipeSteps
    <2> QED
      BY <1>0, <1>2, <2>2, <2>3, <2>4, <2>5, <2>6, WiperKeeps
      DEF LeavesCall, NoCall, OthersStay
  <1>6. CASE call[t].op = "import"
    <2>1. Return(t, "BadParam", NoKey) /\ UNCHANGED <<started, handles, made>>
      BY <1>6 DEF UnreadyAgain, AfterFree
    <2>2. LeavesCall(t) /\ call' \in [Threads -> CallType] /\ ret' \in [Threads -> RetType]
      BY <1>1, <1>4, <2>1, MoveFacts, CallTypes
    <2>3. TypeOK'
      BY <1>1, <1>2, <2>1, <2>2 DEF TypeOK, CallType, RetType
    <2>4. ~Valid(t)
      BY <1>0, <1>1, <1>6 DEF CallShape
    <2>5. CallShape(t)' /\ CallWork(t)' /\ OwnsItsKey(t)'
      BY <2>1, <2>2, <2>4 DEF LeavesCall, NoCall, Valid, CallShape, CallWork, OwnsItsKey,
                        At, Idle, Busy, Writers, MakeSteps, WipeSteps
    <2> QED
      BY <1>0, <1>2, <2>1, <2>2, <2>3, <2>5, WiperKeeps DEF LeavesCall, NoCall, OthersStay
  <1>7. CASE call[t].op = "end" /\ call[t].slot < SlotCount - 1
    <2>1. /\ call' = [call EXCEPT ![t].at = "wipePriv", ![t].slot = @ + 1]
          /\ UNCHANGED <<started, handles, made, ret>>
      BY <1>7 DEF UnreadyAgain, AfterFree
    <2>2. call[t].slot + 1 \in Slots /\ call[t].slot + 1 \in 0..SlotCount
      BY <1>1, <1>7 DEF Slots, kRsaInvalidSlot
    <2>3. /\ \A u \in Threads \ {t} : call'[u] = call[u]
          /\ call' \in [Threads -> CallType] /\ call'[t].at = "wipePriv"
          /\ call'[t].op = "end" /\ call'[t].slot \in Slots
      BY <1>1, <1>7, <2>1, <2>2 DEF TypeOK, CallType, Labels
    <2>4. TypeOK'
      BY <1>1, <1>2, <2>1, <2>3 DEF TypeOK, CallType
    <2>5. CallShape(t)' /\ CallWork(t)' /\ OwnsItsKey(t)'
      BY <1>1, <1>3, <2>1, <2>3 DEF CallShape, CallWork, OwnsItsKey, Valid,
                        At, Idle, Busy, MakeSteps, WipeSteps
    <2> QED
      BY <1>0, <1>2, <1>7, <2>1, <2>3, <2>4, <2>5, WiperKeeps DEF OthersStay
  <1>8. CASE call[t].op = "end" /\ ~(call[t].slot < SlotCount - 1)
    <2>1. started' = FALSE /\ Return(t, "Ok", NoKey) /\ UNCHANGED <<handles, made>>
      BY <1>8 DEF UnreadyAgain, AfterFree
    <2>2. LeavesCall(t) /\ call' \in [Threads -> CallType] /\ ret' \in [Threads -> RetType]
      BY <1>1, <1>4, <2>1, MoveFacts, CallTypes
    <2>3. TypeOK'
      BY <1>1, <1>2, <2>1, <2>2 DEF TypeOK, CallType, RetType
    <2>4. ~Valid(t)
      BY <1>8 DEF SlotInv, EndsEmpty
    <2>5. CallShape(t)' /\ CallWork(t)' /\ OwnsItsKey(t)'
      BY <2>1, <2>2, <2>4 DEF LeavesCall, NoCall, Valid, CallShape, CallWork, OwnsItsKey,
                        At, Idle, Busy, Writers, MakeSteps, WipeSteps
    <2> QED
      BY <1>0, <1>2, <2>1, <2>2, <2>3, <2>5, WiperKeeps DEF LeavesCall, NoCall, OthersStay
  <1> QED
    BY <1>1, <1>5, <1>6, <1>7, <1>8

-----------------------------------------------------------------------------
(* Entering a call *)

\* Only answers change, or the engine is started.
LEMMA AnswerKeeps ==
  ASSUME SlotInv, TypeOK', UNCHANGED <<slots, handles, made, call>>, started => started'
  PROVE  SlotInv'
  <1>1. \A t \in Threads : CallShape(t)' /\ CallWork(t)'
    BY DEF SlotInv, CallShape, CallWork, At, Idle, Busy, Valid, Whole
  <1> QED
    BY <1>1 DEF SlotInv, OneWriter, EndsEmpty, OwnedIsWhole, NoSharing, ReadyHasOwner,
                Busy, Valid, Whole, At

\* Who may enter a writing call finds no other writer: that is what the
\* application's lock is for.
LEMMA LockMeansAlone ==
  ASSUME LockCoversWriters, NEW t \in Threads, NEW op \in Writers, May(t, op)
  PROVE  Alone(t)
  BY DEF LockCoversWriters, May, LockFree, Alone, Busy

\* Entering a call, point by point.
LEMMA EnterFacts ==
  ASSUME SlotInv, NEW t \in Threads, NEW op \in Ops, NEW l \in Labels,
         NEW s \in 0..SlotCount, NEW k \in Key \cup {NoKey},
         Enter(t, op, l, s, k), UNCHANGED <<handles, made>>
  PROVE  /\ TypeOK' /\ OthersStay(t) /\ OtherKeysStay(t)
         /\ UNCHANGED <<started, slots, nextKey, ret, handles, made>>
         /\ call'[t].op = op /\ call'[t].at = l /\ call'[t].slot = s /\ call'[t].key = k
  <1>1. TypeOK /\ k \in Key \cup {NoKey, Residue}
    BY DEF SlotInv
  <1>2. call' \in [Threads -> CallType]
    BY <1>1, CallTypes
  <1>3. UNCHANGED <<started, slots, nextKey, ret, handles, made>>
    BY DEF Enter
  <1>4. TypeOK'
    BY <1>1, <1>2, <1>3 DEF TypeOK, CallType
  <1>5. /\ call'[t] = [op |-> op, at |-> l, slot |-> s, key |-> k]
        /\ \A u \in Threads \ {t} : call'[u] = call[u]
    BY <1>1 DEF Enter, TypeOK
  <1> QED
    BY <1>3, <1>4, <1>5 DEF OthersStay, OtherKeysStay

\* A writing call begins.
LEMMA WriterEnters ==
  ASSUME SlotInv, LockCoversWriters, NEW t \in Threads, NEW op \in Writers, May(t, op),
         UNCHANGED <<slots, handles, made>>, OthersStay(t), OtherKeysStay(t), TypeOK',
         CallShape(t)', CallWork(t)', call'[t].op = op,
         op = "end" => \A u \in Threads : ~Valid(u)
  PROVE  SlotInv'
  <1>1. Alone(t) /\ At(t, "idle")
    BY LockMeansAlone DEF May, Idle
  <1>2. \A u \in Threads : ~At(u, "handle")
    <2> SUFFICES ASSUME NEW u \in Threads PROVE ~At(u, "handle")
      OBVIOUS
    <2>1. CASE u = t
      BY <1>1, <2>1 DEF At
    <2>2. CASE u # t
      BY <1>1, <2>2, NotBusy DEF At, Alone
    <2> QED BY <2>1, <2>2
  <1>3. \A s \in Slots : slots[s].ready => \E u \in Threads : handles[u].slot = s
    BY <1>2 DEF SlotInv, ReadyHasOwner
  <1>4. ReadyHasOwner'
    BY <1>3 DEF ReadyHasOwner
  <1>5. EndsEmpty'
    <2> SUFFICES ASSUME NEW u \in Threads, call'[u].op = "end"
                 PROVE  /\ \A v \in Threads : ~Valid(v)'
                        /\ \A s \in Slots : ~slots'[s].ready
      BY DEF EndsEmpty
    <2>1. u = t /\ op = "end"
      BY <1>1 DEF OthersStay, Alone, Busy, Writers
    <2>2. \A s \in Slots : ~slots[s].ready
      BY <1>3, <2>1, Numbers DEF Valid
    <2> QED BY <2>1, <2>2 DEF Valid
  <1>6. OwnsItsKey(t)'
    <2>1. Valid(t) => slots[handles[t].slot] = Whole(made[t])
      BY <1>1 DEF SlotInv, OwnedIsWhole, At, WipeSteps
    <2>2. \A u \in Threads \ {t} : Valid(t) => handles[u].slot # handles[t].slot
      BY DEF SlotInv, NoSharing
    <2> QED BY <2>1, <2>2 DEF OwnsItsKey, Valid, Whole
  <1> QED
    BY <1>1, <1>4, <1>5, <1>6, WriterKeeps

\* NC_GUARD() refuses the call.
LEMMA RefusedKeeps ==
  ASSUME SlotInv, NEW t \in Threads, NEW op \in Ops, Refused(t, op)
  PROVE  SlotInv'
  <1>1. TypeOK
    BY DEF SlotInv
  <1>2. ret' \in [Threads -> RetType]
    BY <1>1, CallTypes DEF Refused, CryptoStatus, Part
  <1>3. UNCHANGED <<started, slots, nextKey, handles, made, call>>
    BY DEF Refused
  <1>4. TypeOK'
    BY <1>1, <1>2, <1>3 DEF TypeOK, RetType
  <1> QED
    BY <1>3, <1>4, AnswerKeeps

\* begin().
LEMMA BeginKeeps ==
  ASSUME SlotInv, NEW t \in Threads, Begin(t)
  PROVE  SlotInv'
  <1>1. TypeOK
    BY DEF SlotInv
  <1>2. ret' \in [Threads -> RetType]
    BY <1>1, CallTypes DEF Begin, CryptoStatus, Part, Ops
  <1>3. UNCHANGED <<slots, nextKey, handles, made, call>> /\ started' = TRUE
    BY DEF Begin
  <1>4. TypeOK'
    BY <1>1, <1>2, <1>3 DEF TypeOK, RetType
  <1> QED
    BY <1>3, <1>4, AnswerKeeps

\* A call that makes a key, of no key yet or of key material m.
LEMMA MakeEnters ==
  ASSUME SlotInv, LockCoversWriters, NEW t \in Threads, started, ~Valid(t),
         NEW op \in {"generate", "import"}, NEW k \in Key \cup {NoKey},
         op = "import" => k \in Key,
         May(t, op), Enter(t, op, "scan", 0, k), UNCHANGED <<handles, made>>
  PROVE  SlotInv'
  <1>1. op \in Writers /\ op \in Ops /\ "scan" \in Labels /\ 0 \in 0..SlotCount
    BY DEF Writers, Ops, Labels, kRsaInvalidSlot
  <1>2. /\ TypeOK' /\ OthersStay(t) /\ OtherKeysStay(t)
        /\ UNCHANGED <<started, slots, nextKey, ret, handles, made>>
        /\ call'[t].op = op /\ call'[t].at = "scan" /\ call'[t].slot = 0 /\ call'[t].key = k
    BY <1>1, EnterFacts
  <1>3. CallShape(t)' /\ CallWork(t)'
    BY <1>2 DEF CallShape, CallWork, At, Idle, Busy, Valid, MakeSteps, WipeSteps
  <1> QED
    BY <1>1, <1>2, <1>3, WriterEnters

\* rsaGenerateKeyPair begins.
LEMMA GenerateKeeps ==
  ASSUME SlotInv, LockCoversWriters, NEW t \in Threads, Generate(t)
  PROVE  SlotInv'
  BY MakeEnters DEF Generate

\* rsaImportKeyPair begins.
LEMMA ImportKeeps ==
  ASSUME SlotInv, LockCoversWriters, NEW t \in Threads, NEW m \in Materials, Import(t, m)
  PROVE  SlotInv'
  BY MakeEnters DEF Import, Key

\* rsaReleaseKeyPair, which writes, and rsaExportPublic, which does not.
LEMMA UseHandleKeeps ==
  ASSUME SlotInv, LockCoversWriters, NEW t \in Threads, NEW op \in {"release", "export"},
         UseHandle(t, op)
  PROVE  SlotInv'
  <1>0. TypeOK /\ CallShape(t) /\ Idle(t) /\ Valid(t) /\ started /\ May(t, op)
    BY DEF SlotInv, UseHandle, May
  <1>1. op \in Ops /\ "check" \in Labels /\ handles[t].slot \in Slots
        /\ handles[t].slot \in 0..SlotCount
    BY <1>0 DEF Ops, Labels, TypeOK, Valid, Slots
  <1>2. /\ TypeOK' /\ OthersStay(t) /\ OtherKeysStay(t)
        /\ UNCHANGED <<started, slots, nextKey, ret, handles, made>>
        /\ call'[t].op = op /\ call'[t].at = "check" /\ call'[t].slot = handles[t].slot
    BY <1>1, EnterFacts, ZenonT(30) DEF UseHandle
  <1>3. CallShape(t)' /\ CallWork(t)'
    BY <1>0, <1>1, <1>2 DEF CallShape, CallWork, At, Idle, Busy, Valid, MakeSteps, WipeSteps
  <1>4. CASE op = "release"
    BY <1>0, <1>2, <1>3, <1>4, WriterEnters DEF Writers
  <1>5. CASE op = "export"
    <2>1. ~Busy(t) /\ ~Busy(t)'
      BY <1>0, <1>2, <1>5 DEF CallShape, Busy, Writers
    <2> QED BY <1>2, <1>3, <2>1, ReaderKeeps DEF OthersStay
  <1> QED BY <1>4, <1>5

\* end(): nobody holds a key, so no slot is ready.
LEMMA EndKeeps ==
  ASSUME SlotInv, LockCoversWriters, NEW t \in Threads, End(t)
  PROVE  SlotInv'
  <1>1. /\ "end" \in Writers /\ "end" \in Ops /\ "wipePriv" \in Labels
        /\ 0 \in 0..SlotCount /\ 0 \in Slots
    BY DEF Writers, Ops, Labels, Slots, kRsaInvalidSlot
  <1>2. /\ TypeOK' /\ OthersStay(t) /\ OtherKeysStay(t)
        /\ UNCHANGED <<started, slots, nextKey, ret, handles, made>>
        /\ call'[t].op = "end" /\ call'[t].at = "wipePriv" /\ call'[t].slot = 0
    BY <1>1, EnterFacts DEF End
  <1>3. CallShape(t)' /\ CallWork(t)'
    BY <1>1, <1>2 DEF End, CallShape, CallWork, At, Idle, Busy, MakeSteps, WipeSteps
  <1> QED
    BY <1>1, <1>2, <1>3, WriterEnters DEF End

-----------------------------------------------------------------------------
(* The invariant *)

\* Every step of every thread keeps the invariant.
LEMMA SlotInductive ==
  ASSUME LockCoversWriters, SlotInv, [Next]_vars
  PROVE  SlotInv'
  <1>1. ASSUME NEW t \in Threads, Start(t)
        PROVE  SlotInv'
    <2>1. ASSUME NEW op \in Ops, Refused(t, op) PROVE SlotInv'
      BY <2>1, RefusedKeeps
    <2>2. CASE Generate(t)
      BY <2>2, GenerateKeeps
    <2>3. ASSUME NEW m \in Materials, Import(t, m) PROVE SlotInv'
      BY <2>3, ImportKeeps
    <2>4. ASSUME NEW op \in {"release", "export"}, UseHandle(t, op) PROVE SlotInv'
      BY <2>4, UseHandleKeeps
    <2>5. CASE Begin(t)
      BY <2>5, BeginKeeps
    <2>6. CASE End(t)
      BY <2>6, EndKeeps
    <2> QED BY <1>1, <2>1, <2>2, <2>3, <2>4, <2>5, <2>6 DEF Start
  <1>2. ASSUME NEW t \in Threads, Proceed(t)
        PROVE  SlotInv'
    BY <1>2, ScanKeeps, UnreadyKeeps, FillPrivKeeps, FillPrivFailsKeeps, FillPubKeeps,
       MarkKeeps, FillHandleKeeps, CheckKeeps, ReadKeeps, WipeKeeps, UnreadyAgainKeeps
    DEF Proceed
  <1>3. CASE UNCHANGED vars
    <2>1. TypeOK'
      BY <1>3 DEF SlotInv, TypeOK, vars
    <2> QED BY <1>3, <2>1, AnswerKeeps DEF vars
  <1> QED BY <1>1, <1>2, <1>3 DEF Next

\* The invariant holds whenever the lock covers the writing calls.
LEMMA SlotInvariant ==
  ASSUME LockCoversWriters
  PROVE  Spec => []SlotInv
  <1>1. Init => SlotInv
    BY SlotInit
  <1>2. SlotInv /\ [Next]_vars => SlotInv'
    BY SlotInductive
  <1> QED BY <1>1, <1>2, PTL DEF Spec

\* A lock around the calls that make and release keys and around begin and end is
\* enough for keys to stay owned: a thread's key is whole in its
\* slot while other threads are at any step of making, dropping or exporting
\* theirs, two threads never share a slot, and between calls no ready slot is
\* without an owner.  For any number of threads and slots.
THEOREM KeysOwned ==
  ASSUME LockCoversWriters
  PROVE  Spec => []KeysStayOwned
  <1>1. ASSUME SlotInv PROVE KeysStayOwned
    <2>1. \A t \in Threads : CallShape(t)
      BY <1>1 DEF SlotInv
    <2>2. ASSUME NEW t \in Threads, Holds(t)
          PROVE  Valid(t) /\ call[t].at \notin WipeSteps
      <3>1. Valid(t) /\ (Idle(t) \/ call[t].op = "export")
        BY <2>2 DEF Holds
      <3> QED BY <2>1, <3>1 DEF CallShape, Idle, At, WipeSteps
    <2>3. \A t \in Threads : Holds(t) => slots[handles[t].slot] = Whole(made[t])
      BY <1>1, <2>2 DEF SlotInv, OwnedIsWhole
    <2>4. \A t, u \in Threads : Holds(t) /\ handles[u].slot = handles[t].slot => t = u
      BY <1>1, <2>2 DEF SlotInv, NoSharing
    <2>5. (\A t \in Threads : Idle(t)) =>
            \A s \in Slots : slots[s].ready => \E t \in Threads : handles[t].slot = s
      BY <1>1 DEF SlotInv, ReadyHasOwner, Idle, At
    <2> QED BY <2>3, <2>4, <2>5 DEF KeysStayOwned, Whole
  <1> QED BY <1>1, SlotInvariant, PTL

-----------------------------------------------------------------------------
(* rsaExportPublic without the lock *)

\* A step of one thread leaves the calls, handles and answers of the others.
LEMMA StepIsOwn ==
  ASSUME TypeOK, NEW u \in Threads, Start(u) \/ Proceed(u), NEW t \in Threads, t # u
  PROVE  call'[t] = call[t] /\ handles'[t] = handles[t] /\ made'[t] = made[t]
         /\ ret'[t] = ret[t]
  <1>0. /\ DOMAIN call = Threads /\ DOMAIN handles = Threads
        /\ DOMAIN made = Threads /\ DOMAIN ret = Threads
    BY DEF TypeOK
  <1>1. \A op, st, k : Answer(u, op, st, k) => ret'[t] = ret[t]
    BY <1>0 DEF Answer
  <1>2. \A st, k : Return(u, st, k) => ret'[t] = ret[t] /\ call'[t] = call[t]
    BY <1>0, <1>1 DEF Return
  <1>3. \A l : Goto(u, l) => ret'[t] = ret[t] /\ call'[t] = call[t]
    BY <1>0 DEF Goto
  <1>4. \A op, l, s, k : Enter(u, op, l, s, k) => ret'[t] = ret[t] /\ call'[t] = call[t]
    BY <1>0 DEF Enter
  <1>5. CASE Start(u)
    BY <1>0, <1>1, <1>4, <1>5 DEF Start, Refused, Generate, Import, UseHandle, Begin, End
  <1>6. CASE Scan(u)
    BY <1>0, <1>2, <1>3, <1>6 DEF Scan
  <1>7. CASE Unready(u) \/ Mark(u) \/ WipePriv(u) \/ WipePub(u) \/ WipeReady(u)
    BY <1>3, <1>7 DEF Unready, Mark, WipePriv, WipePub, WipeReady, SetReady, SetPriv, SetPub
  <1>8. CASE FillPriv(u) \/ FillPrivFails(u)
    BY <1>0, <1>2, <1>8 DEF FillPriv, FillPrivFails
  <1>9. CASE FillPub(u)
    BY <1>2, <1>3, <1>9 DEF FillPub, SetPub
  <1>10. CASE FillHandle(u)
    BY <1>0, <1>3, <1>10 DEF FillHandle
  <1>11. CASE Check(u)
    BY <1>2, <1>3, <1>11 DEF Check
  <1>12. CASE Read(u)
    BY <1>0, <1>2, <1>12 DEF Read
  <1>13. CASE UnreadyAgain(u)
    BY <1>0, <1>2, <1>13 DEF UnreadyAgain, AfterFree
  <1> QED
    BY <1>5, <1>6, <1>7, <1>8, <1>9, <1>10, <1>11, <1>12, <1>13 DEF Proceed

\* Only the last step of rsaExportPublic answers for it, unless the engine is
\* not started: its check of the slot never fails, and no other call answers
\* under its name.
LEMMA ExportAnswersInRead ==
  ASSUME SlotInv, NEW t \in Threads, Start(t) \/ Proceed(t), Idle(t)',
         ret'[t].op = "export", ret'[t].st # "NotStarted"
  PROVE  Read(t)
  <1>0. TypeOK /\ CallShape(t) /\ DOMAIN call = Threads /\ DOMAIN ret = Threads
    BY DEF SlotInv, TypeOK
  <1>1. \A op, st, k : Answer(t, op, st, k) => ret'[t].op = op /\ ret'[t].st = st
    BY <1>0 DEF Answer
  <1>2. \A st, k : Return(t, st, k) => ret'[t].op = call[t].op
    BY <1>0 DEF Return, Answer
  <1>3. \A l \in Labels : Goto(t, l) => call'[t].at = l
    BY <1>0, MoveFacts DEF MovesTo
  <1>4. \A op, l, s, k : Enter(t, op, l, s, k) => call'[t].at = l
    BY <1>0 DEF Enter
  <1>5. ~Start(t)
    BY <1>1, <1>4 DEF Start, Refused, Generate, Import, UseHandle, Begin, End, Idle, At
  <1>6. ~Scan(t)
    <2> SUFFICES ASSUME Scan(t) PROVE FALSE
      OBVIOUS
    <2>1. call[t].op \in {"generate", "import"} /\ call[t].at = "scan" /\ call \in [Threads -> CallType]
      BY <1>0 DEF Scan, CallShape, At, MakeSteps, TypeOK, CallType
    <2>2. CASE Return(t, "InternalError", NoKey)
      BY <1>2, <2>1, <2>2
    <2>3. CASE call' = [call EXCEPT ![t].slot = @ + 1]
      BY <2>1, <2>3 DEF Idle, At, CallType
    <2>4. CASE Goto(t, "unready")
      BY <1>3, <2>4 DEF Idle, At, Labels
    <2> QED BY <2>2, <2>3, <2>4 DEF Scan
  <1>7. ~(Unready(t) \/ Mark(t) \/ WipePriv(t) \/ WipePub(t) \/ WipeReady(t))
    BY <1>3 DEF Unready, Mark, WipePriv, WipePub, WipeReady, SetReady, SetPriv, SetPub,
                Labels, Idle, At
  <1>8. ~FillPriv(t) /\ ~FillPrivFails(t)
    <2>1. call \in [Threads -> CallType]
      BY <1>0 DEF TypeOK, CallType
    <2> QED
      BY <1>2, <2>1 DEF FillPriv, FillPrivFails, CallType, Idle, At
  <1>9. ~FillPub(t)
    BY <1>2, <1>3 DEF FillPub, SetPub, Labels, Idle, At
  <1>10. ~FillHandle(t)
    BY <1>3 DEF FillHandle, Labels, Idle, At
  <1>11. ~Check(t)
    <2> SUFFICES ASSUME Check(t) PROVE FALSE
      OBVIOUS
    <2>1. rsaSlotValid(handles[t].slot)
      BY CheckKeeps
    <2>2. \E l \in {"wipePriv", "read"} : Goto(t, l)
      BY <2>1 DEF Check
    <2> QED BY <1>3, <2>2 DEF Labels, Idle, At
  <1>12. ~UnreadyAgain(t)
    <2> SUFFICES ASSUME UnreadyAgain(t) PROVE FALSE
      OBVIOUS
    <2>1. call[t].op \in {"release", "import", "end"} /\ call \in [Threads -> CallType]
      BY <1>0, WiperFacts DEF UnreadyAgain, At, WipeSteps, TypeOK, CallType
    <2>2. \/ \E st, k : Return(t, st, k)
          \/ call' = [call EXCEPT ![t].at = "wipePriv", ![t].slot = @ + 1]
      BY <2>1 DEF UnreadyAgain, AfterFree
    <2> QED BY <1>2, <2>1, <2>2 DEF Idle, At, CallType
  <1> QED
    BY <1>5, <1>6, <1>7, <1>8, <1>9, <1>10, <1>11, <1>12 DEF Proceed

\* With the lock around the writing calls only, an export that another thread's
\* calls overlap at any point still answers with its own key or an error of the
\* library: never BadParam, never another key.
THEOREM ExportsAreOwn ==
  ASSUME LockCoversWriters
  PROVE  Spec => []ExportsOwnKey
  <1>1. Init => ExportsOwnKey
    BY DEF Init, ExportsOwnKey
  <1>2. ASSUME SlotInv, ExportsOwnKey, [Next]_vars PROVE ExportsOwnKey'
    <2> SUFFICES ASSUME NEW t \in Threads, Valid(t)', Idle(t)', ret'[t].op = "export",
                        ret'[t].st # "NotStarted"
                 PROVE  ret'[t].st # "BadParam" /\ (ret'[t].st = "Ok" => ret'[t].key = made'[t])
      BY DEF ExportsOwnKey
    <2>0. TypeOK /\ CallShape(t)
      BY <1>2 DEF SlotInv
    <2>1. CASE UNCHANGED vars
      BY <1>2, <2>1 DEF vars, ExportsOwnKey, Valid, Idle, At
    <2>2. ASSUME NEW u \in Threads, u # t, Start(u) \/ Proceed(u)
          PROVE  ret'[t].st # "BadParam" /\ (ret'[t].st = "Ok" => ret'[t].key = made'[t])
      <3>1. call'[t] = call[t] /\ handles'[t] = handles[t] /\ made'[t] = made[t]
            /\ ret'[t] = ret[t]
        BY <2>0, <2>2, StepIsOwn
      <3> QED BY <1>2, <3>1 DEF ExportsOwnKey, Valid, Idle, At
    <2>3. CASE Start(t) \/ Proceed(t)
      <3>1. Read(t)
        BY <1>2, <2>3, ExportAnswersInRead
      <3>2. slots[call[t].slot].pub = made[t]
        BY <1>2, <2>0, <3>1, OwnSlotIsReady DEF Read, CallShape, At, WipeSteps
      <3>3. \/ ret'[t].st = "InternalError"
            \/ ret'[t].st = "Ok" /\ ret'[t].key = slots[call[t].slot].pub
        BY <2>0, <3>1 DEF Read, Return, Answer, TypeOK
      <3> QED BY <3>1, <3>2, <3>3 DEF Read
    <2> QED BY <1>2, <2>1, <2>2, <2>3 DEF Next
  <1>3. SlotInv /\ ExportsOwnKey /\ [Next]_vars => ExportsOwnKey'
    BY <1>2
  <1> QED BY <1>1, <1>3, SlotInvariant, PTL DEF Spec

-----------------------------------------------------------------------------
(* The slots implement KeyPool *)

\* What the other threads see of the slots
PlaceOf(s) == IF slots[s].ready THEN slots[s].priv ELSE NoKey
PoolOf == [s \in Slots |-> PlaceOf(s)]

\* A step that leaves one slot looking empty, and the others as they were, drops
\* what the slot held.
LEMMA DropStep ==
  ASSUME NEW s \in Slots, OtherSlotsStay(s), PlaceOf(s)' = NoKey, UNCHANGED started
  PROVE  KP!PoolNext
  <1>1. \A r \in Slots \ {s} : PlaceOf(r)' = PlaceOf(r)
    BY DEF OtherSlotsStay, PlaceOf
  <1>2. PoolOf' = [PoolOf EXCEPT ![s] = NoKey]
    BY <1>1 DEF PoolOf
  <1>3. KP!Drop(s)
    BY <1>2 DEF KP!Drop, PoolOf, PlaceOf
  <1> QED BY <1>3 DEF KP!PoolNext

\* The parts of a slot are written one by one, but every step is a step of
\* KeyPool or none: setting ready puts a whole key in a free place, the first
\* store of the memset drops it, and end() closes a pool that is empty.
THEOREM ThreadsKeyPool ==
  ASSUME LockCoversWriters
  PROVE  Spec => ThreadsImplementKeyPool
  <1>1. Init => KP!PoolInit
    BY DEF Init, KP!PoolInit, KP!Empty, BlankSlot
  <1>2. ASSUME SlotInv, [Next]_vars PROVE [KP!PoolNext]_(KP!poolVars)
    <2> SUFFICES KP!PoolNext \/ UNCHANGED <<started, PoolOf>>
      BY DEF KP!poolVars, PoolOf, PlaceOf
    <2>0. TypeOK
      BY <1>2 DEF SlotInv
    <2>1. ASSUME UNCHANGED <<started, slots>> PROVE UNCHANGED <<started, PoolOf>>
      BY <2>1 DEF PoolOf, PlaceOf
    <2>2. ASSUME NEW t \in Threads, Start(t)
          PROVE  KP!PoolNext \/ UNCHANGED <<started, PoolOf>>
      <3>1. CASE Begin(t)
        <4>1. UNCHANGED PoolOf
          BY <3>1 DEF Begin, PoolOf, PlaceOf
        <4>2. KP!Open
          BY <3>1, <4>1 DEF Begin, KP!Open, PoolOf, PlaceOf
        <4> QED BY <4>2 DEF KP!PoolNext
      <3>2. CASE ~Begin(t)
        BY <2>1, <2>2, <3>2 DEF Start, Refused, Generate, Import, UseHandle, End, Enter
      <3> QED BY <3>1, <3>2
    <2>3. ASSUME NEW t \in Threads, Scan(t) \/ FillHandle(t) \/ Check(t) \/ Read(t)
          PROVE  UNCHANGED <<started, PoolOf>>
      BY <2>1, <2>3 DEF Scan, FillHandle, Check, Read
    <2>4. ASSUME NEW t \in Threads, Unready(t) \/ FillPriv(t) \/ FillPrivFails(t) \/ FillPub(t)
          PROVE  KP!PoolNext
      <3>1. call[t].at \in {"unready", "priv", "pub"} /\ started' = started
        BY <2>4 DEF Unready, FillPriv, FillPrivFails, FillPub, At
      <3>2. call[t].slot \in Slots /\ ~slots[call[t].slot].ready
        BY <1>2, <3>1 DEF SlotInv, CallShape, CallWork
      <3>3. \/ slots' = [slots EXCEPT ![call[t].slot].ready = FALSE]
            \/ \E v : slots' = [slots EXCEPT ![call[t].slot].priv = v]
            \/ \E v : slots' = [slots EXCEPT ![call[t].slot].pub = v]
        BY <2>4 DEF Unready, FillPriv, FillPrivFails, FillPub, SetReady, SetPub
      <3>4. OtherSlotsStay(call[t].slot) /\ ~slots'[call[t].slot].ready
        <4>1. slots \in [Slots -> SlotType] /\ slots[call[t].slot] \in SlotType
          BY <2>0, <3>2 DEF TypeOK, SlotType
        <4> QED BY <3>2, <3>3, <4>1 DEF SlotType, OtherSlotsStay
      <3> QED BY <3>1, <3>2, <3>4, DropStep DEF PlaceOf
    <2>5. ASSUME NEW t \in Threads, Mark(t)
          PROVE  KP!PoolNext
      <3>1. PICK s \in Slots, k \in Key :
              /\ s = call[t].slot /\ ~slots[s].ready /\ slots[s].priv = k
              /\ started /\ started' = started
        BY <1>2, <2>5, MakerFacts DEF SlotInv, CallWork, Mark, At, MakeSteps
      <3>2. OtherSlotsStay(s) /\ slots'[s].ready /\ slots'[s].priv = slots[s].priv
        BY <2>0, <2>5, <3>1, WriteFacts DEF Mark, Labels
      <3>3. PoolOf' = [PoolOf EXCEPT ![s] = k] /\ PoolOf[s] = NoKey
        BY <3>1, <3>2 DEF PoolOf, PlaceOf, OtherSlotsStay
      <3>4. KP!Put(s, k)
        BY <3>1, <3>3 DEF KP!Put, PoolOf, PlaceOf
      <3> QED BY <3>1, <3>4 DEF KP!PoolNext
    <2>6. ASSUME NEW t \in Threads, WipePriv(t) \/ WipeReady(t)
          PROVE  KP!PoolNext
      <3>1. call[t].slot \in Slots /\ started' = started
        BY <1>2, <2>6, WiperFacts DEF WipePriv, WipeReady, At, WipeSteps
      <3>2. OtherSlotsStay(call[t].slot)
            /\ (~slots'[call[t].slot].ready \/ slots'[call[t].slot].priv = NoKey)
        BY <2>0, <2>6, <3>1, WriteFacts, ZenonT(30) DEF WipePriv, WipeReady, Labels, Part
      <3> QED BY <3>1, <3>2, DropStep DEF PlaceOf
    <2>7. ASSUME NEW t \in Threads, WipePub(t)
          PROVE  UNCHANGED <<started, PoolOf>>
      <3>1. call[t].slot \in Slots /\ started' = started
        BY <1>2, <2>7, WiperFacts DEF WipePub, At, WipeSteps
      <3>2. /\ OtherSlotsStay(call[t].slot)
            /\ slots'[call[t].slot].ready = slots[call[t].slot].ready
            /\ slots'[call[t].slot].priv = slots[call[t].slot].priv
        BY <2>0, <2>7, <3>1, WriteFacts DEF WipePub, Labels, Part
      <3> QED BY <3>1, <3>2 DEF PoolOf, PlaceOf, OtherSlotsStay
    <2>8. ASSUME NEW t \in Threads, UnreadyAgain(t)
          PROVE  KP!PoolNext \/ UNCHANGED <<started, PoolOf>>
      <3>1. slots' = slots
        BY <1>2, <2>8, SecondStoreIsIdle
      <3>2. started /\ call[t].op \in {"release", "import", "end"}
        BY <1>2, <2>8, WiperFacts DEF UnreadyAgain, At, WipeSteps
      <3>3. CASE started' = started
        BY <2>1, <3>1, <3>3
      <3>4. CASE started' # started
        <4>1. call[t].op = "end" /\ started' = FALSE
          BY <2>8, <3>2, <3>4 DEF UnreadyAgain, AfterFree
        <4>2. \A s \in Slots : ~slots'[s].ready
          BY <1>2, <3>1, <4>1 DEF SlotInv, EndsEmpty
        <4>3. KP!Purge
          BY <3>2, <4>1, <4>2 DEF KP!Purge, KP!Empty
        <4> QED BY <4>3 DEF KP!PoolNext
      <3> QED BY <3>3, <3>4
    <2>9. CASE UNCHANGED vars
      BY <2>1, <2>9 DEF vars
    <2> QED
      BY <1>2, <2>2, <2>3, <2>4, <2>5, <2>6, <2>7, <2>8, <2>9 DEF Next, Proceed
  <1>3. SlotInv /\ [Next]_vars => [KP!PoolNext]_(KP!poolVars)
    BY <1>2
  <1> QED
    BY <1>1, <1>3, SlotInvariant, PTL DEF Spec, ThreadsImplementKeyPool, KP!PoolSpec

-----------------------------------------------------------------------------
(* With any lock, or none: types, and calls that come to an end *)

\* Which steps a call takes, whatever the other threads do to its slot
Shape(t) ==
  /\ Idle(t) => call[t].op = "none"
  /\ At(t, "scan") => call[t].op \in {"generate", "import"}
  /\ call[t].at \notin {"idle", "scan"} => call[t].slot \in Slots
  /\ call[t].at \in {"mark", "handle"} => call[t].key # Residue
  /\ call[t].op = "end" => call[t].at \in WipeSteps

LooseInv == TypeOK /\ \A t \in Threads : Shape(t)

\* What a step of t has to keep.
LEMMA LooseStep ==
  ASSUME LooseInv, NEW t \in Threads, Start(t) \/ Proceed(t), TypeOK', Shape(t)'
  PROVE  LooseInv'
  <1>1. \A u \in Threads \ {t} : call'[u] = call[u]
    BY StepIsOwn DEF LooseInv
  <1>2. \A u \in Threads \ {t} : Shape(u)'
    BY <1>1 DEF LooseInv, Shape, At, Idle
  <1> QED BY <1>2 DEF LooseInv

\* A call begins.
LEMMA LooseStarts ==
  ASSUME LooseInv, NEW t \in Threads, Start(t)
  PROVE  LooseInv'
  <1>0. TypeOK /\ Shape(t)
    BY DEF LooseInv
  <1>1. ASSUME NEW op \in Ops, NEW l \in {"scan", "check", "wipePriv"}, NEW s \in Slots,
               NEW k \in Key \cup {NoKey}, Enter(t, op, l, s, k), UNCHANGED <<handles, made>>,
               l = "scan" => op \in {"generate", "import"}, op = "end" => l = "wipePriv"
        PROVE  TypeOK' /\ Shape(t)'
    <2>1. s \in 0..SlotCount /\ l \in Labels /\ k \in Key \cup {NoKey, Residue}
      BY DEF Slots, Labels, kRsaInvalidSlot
    <2>2. call' \in [Threads -> CallType]
      BY <1>0, <1>1, <2>1, CallTypes
    <2>3. TypeOK'
      BY <1>0, <1>1, <2>2 DEF TypeOK, CallType, Enter
    <2>4. call'[t] = [op |-> op, at |-> l, slot |-> s, key |-> k]
      BY <1>0, <1>1 DEF Enter, TypeOK
    <2>5. Shape(t)'
      BY <1>1, <2>4 DEF Shape, Idle, At, WipeSteps
    <2> QED BY <2>3, <2>5
  <1>2. ASSUME NEW op \in Ops, NEW st \in CryptoStatus, Answer(t, op, st, NoKey),
               UNCHANGED <<slots, nextKey, handles, made, call>>, started' \in BOOLEAN
        PROVE  TypeOK' /\ Shape(t)'
    <2>1. ret' \in [Threads -> RetType]
      BY <1>0, <1>2, CallTypes DEF Part
    <2>2. TypeOK'
      BY <1>0, <1>2, <2>1 DEF TypeOK, RetType
    <2>3. Shape(t)'
      BY <1>0, <1>2 DEF Shape, Idle, At
    <2> QED BY <2>2, <2>3
  <1>3. 0 \in Slots /\ NoKey \in Key \cup {NoKey}
    BY DEF Slots, kRsaInvalidSlot
  <1>4. ASSUME NEW op \in Ops \ {"begin", "end"}, Refused(t, op) PROVE TypeOK' /\ Shape(t)'
    BY <1>0, <1>2, <1>4 DEF Refused, CryptoStatus, TypeOK
  <1>5. CASE Generate(t)
    BY <1>1, <1>3, <1>5, LooseStep DEF Generate, Ops
  <1>6. ASSUME NEW m \in Materials, Import(t, m) PROVE TypeOK' /\ Shape(t)'
    BY <1>1, <1>3, <1>6 DEF Import, Ops, Key
  <1>7. ASSUME NEW op \in {"release", "export"}, UseHandle(t, op) PROVE TypeOK' /\ Shape(t)'
    <2>1. handles[t].slot \in Slots
      BY <1>0, <1>7 DEF UseHandle, Valid, TypeOK
    <2> QED BY <1>1, <1>3, <1>7, <2>1 DEF UseHandle, Ops
  <1>8. CASE Begin(t)
    BY <1>2, <1>8, LooseStep DEF Begin, Ops, CryptoStatus
  <1>9. CASE End(t)
    BY <1>1, <1>3, <1>9, LooseStep DEF End, Ops
  <1> QED
    BY <1>4, <1>5, <1>6, <1>7, <1>8, <1>9, LooseStep DEF Start

\* A call ends, with any answer.
LEMMA LooseReturns ==
  ASSUME LooseInv, NEW t \in Threads, NEW st \in CryptoStatus, NEW k \in Part,
         Return(t, st, k)
  PROVE  /\ call' \in [Threads -> CallType] /\ ret' \in [Threads -> RetType]
         /\ Shape(t)'
  <1>1. TypeOK
    BY DEF LooseInv
  <1>2. LeavesCall(t)
    BY <1>1, MoveFacts
  <1>3. Shape(t)'
    BY <1>2 DEF LeavesCall, NoCall, Shape, Idle, At
  <1> QED BY <1>1, <1>3, CallTypes

\* A step that goes on to l in the same call.
LEMMA LooseMoves ==
  ASSUME LooseInv, NEW t \in Threads, NEW l \in Labels \ {"idle", "scan"}, MovesTo(t, l),
         call[t].slot \in Slots,
         l \in {"mark", "handle"} => call[t].key # Residue,
         call[t].op = "end" => l \in WipeSteps
  PROVE  Shape(t)'
  BY DEF MovesTo, Shape, Idle, At

\* A step that writes one part of the slot and goes on to l.
LEMMA LooseWrites ==
  ASSUME LooseInv, NEW t \in Threads, NEW l \in Labels \ {"idle", "scan"},
         call[t].slot \in Slots,
         UNCHANGED <<started, nextKey, handles, made>>,
         \/ \E v \in Part : SetPriv(t, v, l) \/ SetPub(t, v, l)
         \/ \E v \in BOOLEAN : SetReady(t, v, l)
  PROVE  TypeOK' /\ MovesTo(t, l)
  <1>1. TypeOK
    BY DEF LooseInv
  <1>2. /\ slots' \in [Slots -> SlotType] /\ call' \in [Threads -> CallType]
        /\ ret' = ret /\ MovesTo(t, l)
    BY <1>1, WriteFacts
  <1> QED BY <1>1, <1>2 DEF TypeOK, SlotType, CallType

\* The steps that make a key.
LEMMA LooseMakes ==
  ASSUME LooseInv, NEW t \in Threads,
         Scan(t) \/ Unready(t) \/ FillPriv(t) \/ FillPrivFails(t) \/ FillPub(t) \/ Mark(t)
           \/ FillHandle(t)
  PROVE  TypeOK' /\ Shape(t)'
  <1>0. TypeOK /\ Shape(t) /\ call[t] \in CallType /\ call \in [Threads -> CallType]
    BY DEF LooseInv, TypeOK, CallType
  <1>1. CASE Scan(t)
    <2>0. UNCHANGED <<started, slots, nextKey, handles, made>> /\ At(t, "scan")
      BY <1>1 DEF Scan
    <2>1. CASE Return(t, "InternalError", NoKey)
      <3>1. /\ call' \in [Threads -> CallType] /\ ret' \in [Threads -> RetType]
            /\ Shape(t)'
        BY <2>1, LooseReturns DEF CryptoStatus, Part
      <3> QED BY <1>0, <2>0, <3>1 DEF TypeOK, CallType, RetType
    <2>2. CASE /\ call[t].slot < SlotCount /\ ret' = ret
               /\ call' = [call EXCEPT ![t].slot = @ + 1]
      <3>1. /\ call' \in [Threads -> CallType] /\ call'[t].at = "scan"
            /\ call'[t].op = call[t].op
        BY <1>0, <2>0, <2>2 DEF CallType, At, kRsaInvalidSlot
      <3>2. TypeOK'
        BY <1>0, <2>0, <2>2, <3>1 DEF TypeOK, CallType
      <3>3. Shape(t)'
        BY <1>0, <2>0, <3>1 DEF Shape, Idle, At
      <3> QED BY <3>2, <3>3
    <2>3. CASE call[t].slot < SlotCount /\ Goto(t, "unready")
      <3>1. MovesTo(t, "unready") /\ call' \in [Threads -> CallType] /\ ret' = ret
        BY <1>0, <2>3, MoveFacts, CallTypes DEF Labels
      <3>2. TypeOK'
        BY <1>0, <2>0, <3>1 DEF TypeOK, CallType
      <3>3. call[t].slot \in Slots /\ call[t].op \in {"generate", "import"}
        BY <1>0, <2>0, <2>3 DEF CallType, Slots, Shape, kRsaInvalidSlot
      <3>4. "unready" \in Labels \ {"idle", "scan"}
        BY DEF Labels
      <3>5. Shape(t)'
        BY <3>1, <3>3, <3>4, LooseMoves
      <3> QED BY <3>2, <3>5
    <2> QED BY <1>1, <2>1, <2>2, <2>3 DEF Scan
  <1>2. ASSUME ~At(t, "scan")
        PROVE  call[t].op # "end" /\ call[t].slot \in Slots
    <2>1. call[t].at \in {"unready", "priv", "pub", "mark", "handle"}
      BY <1>2 DEF Unready, FillPriv, FillPrivFails, FillPub, Mark, FillHandle, Scan, At
    <2> QED BY <1>0, <2>1 DEF Shape, WipeSteps
  <1>3. CASE Unready(t)
    <2>1. TypeOK' /\ MovesTo(t, "priv") /\ "priv" \in Labels \ {"idle", "scan"}
      BY <1>2, <1>3, LooseWrites DEF Unready, At, Labels
    <2> QED BY <1>2, <1>3, <2>1, LooseMoves DEF Unready, At
  <1>4. CASE Mark(t)
    <2>1. TypeOK' /\ MovesTo(t, "handle") /\ "handle" \in Labels \ {"idle", "scan"}
      BY <1>2, <1>4, LooseWrites DEF Mark, At, Labels
    <2>2. call[t].key # Residue
      BY <1>0, <1>4 DEF Mark, At, Shape
    <2> QED BY <1>2, <1>4, <2>1, <2>2, LooseMoves DEF Mark, At
  <1>5. CASE FillPriv(t)
    <2>0. /\ call[t].slot \in Slots /\ call[t].op # "end"
          /\ UNCHANGED <<started, handles, made, ret>>
      BY <1>2, <1>5 DEF FillPriv, At
    <2>1. PICK k \in Key \cup {NoKey, Residue} :
            /\ slots' = [slots EXCEPT ![call[t].slot].priv = k]
            /\ call' = [call EXCEPT ![t].at = "pub", ![t].key = k]
            /\ nextKey' \in {nextKey} \cup 1 .. MaxKeys + 1
      <3>1. CASE call[t].op = "generate"
        <4>1. nextKey \in Key /\ nextKey + 1 \in 1 .. MaxKeys + 1
          BY <1>0, <1>5, <3>1 DEF FillPriv, TypeOK, Key
        <4> QED BY <1>5, <3>1, <4>1 DEF FillPriv
      <3>2. CASE call[t].op # "generate"
        <4>1. call[t].key \in Key \cup {NoKey, Residue}
          BY <1>0 DEF CallType
        <4> QED BY <1>5, <3>2, <4>1 DEF FillPriv
      <3> QED BY <3>1, <3>2
    <2>2. slots' \in [Slots -> SlotType]
      BY <1>0, <2>0, <2>1, SlotParts DEF Part
    <2>3. /\ call' \in [Threads -> CallType] /\ call'[t].at = "pub"
          /\ call'[t].op = call[t].op /\ call'[t].slot = call[t].slot
      BY <1>0, <2>1, ZenonT(30) DEF CallType, Labels
    <2>4. TypeOK'
      BY <1>0, <2>0, <2>1, <2>2, <2>3 DEF TypeOK, SlotType, CallType
    <2>5. Shape(t)'
      BY <2>0, <2>3 DEF Shape, Idle, At
    <2> QED BY <2>4, <2>5
  <1>6. CASE FillPrivFails(t)
    <2>0. /\ call[t].slot \in Slots /\ call[t].op # "end"
          /\ UNCHANGED <<started, nextKey, handles, made>>
      BY <1>2, <1>6 DEF FillPrivFails, At
    <2>1. slots' \in [Slots -> SlotType]
      <3>1. \A left \in {slots[call[t].slot].priv, Residue} : left \in Part
        BY <1>0, <2>0 DEF TypeOK, Part
      <3> QED BY <1>0, <1>6, <2>0, <3>1, SlotParts DEF FillPrivFails
    <2>2. CASE Return(t, "InternalError", NoKey)
      <3>1. /\ call' \in [Threads -> CallType] /\ ret' \in [Threads -> RetType]
            /\ Shape(t)'
        BY <2>2, LooseReturns DEF CryptoStatus, Part
      <3> QED BY <1>0, <2>0, <2>1, <3>1 DEF TypeOK, SlotType, CallType, RetType
    <2>3. CASE call' = [call EXCEPT ![t].at = "pub", ![t].key = Residue] /\ ret' = ret
      <3>1. /\ call' \in [Threads -> CallType] /\ call'[t].at = "pub"
            /\ call'[t].op = call[t].op /\ call'[t].slot = call[t].slot
        BY <1>0, <2>3, ZenonT(30) DEF CallType, Labels
      <3>2. TypeOK'
        BY <1>0, <2>0, <2>1, <2>3, <3>1 DEF TypeOK, SlotType, CallType
      <3>3. Shape(t)'
        BY <2>0, <3>1 DEF Shape, Idle, At
      <3> QED BY <3>2, <3>3
    <2> QED BY <1>6, <2>2, <2>3 DEF FillPrivFails
  <1>7. CASE FillPub(t)
    <2>0. /\ call[t].slot \in Slots /\ call[t].op # "end"
          /\ UNCHANGED <<started, nextKey, handles, made>>
          /\ call[t].key \in Part /\ slots[call[t].slot].pub \in Part /\ Residue \in Part
      BY <1>0, <1>2, <1>7 DEF FillPub, At, CallType, TypeOK, Part
    <2>1. CASE call[t].key # Residue /\ SetPub(t, call[t].key, "mark")
      <3>1. TypeOK' /\ MovesTo(t, "mark") /\ "mark" \in Labels \ {"idle", "scan"}
        BY <2>0, <2>1, LooseWrites DEF Labels
      <3> QED BY <2>0, <2>1, <3>1, LooseMoves
    <2>2. CASE \E k \in Part : SetPub(t, k, "wipePriv")
      <3>1. TypeOK' /\ MovesTo(t, "wipePriv") /\ "wipePriv" \in Labels \ {"idle", "scan"}
        BY <2>0, <2>2, LooseWrites DEF Labels
      <3> QED BY <2>0, <3>1, LooseMoves
    <2>3. CASE /\ \E k \in Part : slots' = [slots EXCEPT ![call[t].slot].pub = k]
               /\ Return(t, "InternalError", NoKey)
      <3>1. slots' \in [Slots -> SlotType]
        BY <1>0, <2>0, <2>3, SlotParts
      <3>2. /\ call' \in [Threads -> CallType] /\ ret' \in [Threads -> RetType]
            /\ Shape(t)'
        BY <2>3, LooseReturns DEF CryptoStatus, Part
      <3> QED BY <1>0, <2>0, <3>1, <3>2 DEF TypeOK, SlotType, CallType, RetType
    <2> QED BY <1>7, <2>0, <2>1, <2>2, <2>3 DEF FillPub
  <1>8. CASE FillHandle(t)
    <2>0. /\ call[t].slot \in Slots /\ call[t].op # "end" /\ call[t].key # Residue
          /\ UNCHANGED <<started, slots, nextKey>>
      BY <1>0, <1>2, <1>8 DEF FillHandle, At, Shape
    <2>1. MovesTo(t, "check") /\ call' \in [Threads -> CallType] /\ ret' = ret
      BY <1>0, <1>8, MoveFacts, CallTypes DEF FillHandle, Labels
    <2>2. /\ handles' \in [Threads -> [slot : Slots \cup {kRsaInvalidSlot},
                                       pub : Key \cup {NoKey}]]
          /\ made' \in [Threads -> Key \cup {NoKey}]
      <3>1. PICK d, k : d = call[t].slot /\ k = call[t].key
        OBVIOUS
      <3>2. d \in Slots \cup {kRsaInvalidSlot} /\ k \in Key \cup {NoKey}
        BY <1>0, <2>0, <3>1 DEF CallType
      <3>3. /\ handles' = [handles EXCEPT ![t].slot = d]
            /\ made' = [made EXCEPT ![t] = k]
        BY <1>8, <3>1 DEF FillHandle
      <3>4. handles[t] \in [slot : Slots \cup {kRsaInvalidSlot}, pub : Key \cup {NoKey}]
        BY <1>0 DEF TypeOK
      <3>5. [handles[t] EXCEPT !.slot = d]
              \in [slot : Slots \cup {kRsaInvalidSlot}, pub : Key \cup {NoKey}]
        BY <3>2, <3>4
      <3> QED BY <1>0, <3>2, <3>3, <3>5 DEF TypeOK
    <2>3. TypeOK'
      BY <1>0, <2>0, <2>1, <2>2 DEF TypeOK, CallType
    <2>4. "check" \in Labels \ {"idle", "scan"}
      BY DEF Labels
    <2>5. Shape(t)'
      BY <2>0, <2>1, <2>4, LooseMoves
    <2> QED BY <2>3, <2>5
  <1> QED
    BY <1>1, <1>3, <1>4, <1>5, <1>6, <1>7, <1>8

\* The steps that use or drop one.
LEMMA LooseUses ==
  ASSUME LooseInv, NEW t \in Threads, Check(t) \/ Read(t)
  PROVE  TypeOK' /\ Shape(t)'
  <1>0. TypeOK /\ Shape(t) /\ call[t] \in CallType /\ call \in [Threads -> CallType]
    BY DEF LooseInv, TypeOK, CallType
  <1>1. call[t].slot \in Slots /\ call[t].op # "end"
    BY <1>0 DEF Check, Read, At, Shape, WipeSteps
  <1>2. ASSUME NEW st \in CryptoStatus, NEW k \in Part, Return(t, st, k),
               UNCHANGED <<started, slots, nextKey, made>>,
               handles' \in [Threads -> [slot : Slots \cup {kRsaInvalidSlot},
                                        pub : Key \cup {NoKey}]]
        PROVE  TypeOK' /\ Shape(t)'
    <2>1. /\ call' \in [Threads -> CallType] /\ ret' \in [Threads -> RetType]
          /\ Shape(t)'
      BY <1>2, LooseReturns
    <2> QED BY <1>0, <1>2, <2>1 DEF TypeOK, CallType, RetType
  <1>3. CASE Check(t)
    <2>1. ASSUME NEW l \in {"wipePriv", "read"}, Goto(t, l) PROVE TypeOK' /\ Shape(t)'
      <3>1. l \in Labels \ {"idle", "scan"} /\ l \notin {"mark", "handle"}
        BY DEF Labels
      <3>2. MovesTo(t, l) /\ call' \in [Threads -> CallType] /\ ret' = ret
        BY <1>0, <2>1, <3>1, MoveFacts, CallTypes
      <3>3. TypeOK'
        BY <1>0, <1>3, <3>2 DEF Check, TypeOK, CallType
      <3> QED BY <1>1, <3>1, <3>2, <3>3, LooseMoves
    <2> QED BY <1>0, <1>2, <1>3, <2>1 DEF Check, CryptoStatus, Part, TypeOK
  <1>4. CASE Read(t)
    <2>0. /\ UNCHANGED <<started, slots, nextKey, made>>
          /\ handles \in [Threads -> [slot : Slots \cup {kRsaInvalidSlot},
                                      pub : Key \cup {NoKey}]]
      BY <1>0, <1>4 DEF Read, TypeOK
    <2>1. CASE Return(t, "InternalError", NoKey) /\ handles' = handles
      BY <1>2, <2>0, <2>1 DEF CryptoStatus, Part
    <2>2. CASE \E got \in Key :
                 /\ Return(t, "Ok", got)
                 /\ handles' \in {handles, [handles EXCEPT ![t].pub = got]}
      <3>1. PICK got \in Key :
              /\ Return(t, "Ok", got)
              /\ handles' \in {handles, [handles EXCEPT ![t].pub = got]}
        BY <2>2
      <3>2. handles' \in [Threads -> [slot : Slots \cup {kRsaInvalidSlot},
                                     pub : Key \cup {NoKey}]]
        BY <2>0, <3>1
      <3>3. got \in Part /\ "Ok" \in CryptoStatus
        BY DEF Part, CryptoStatus
      <3> QED BY <1>2, <2>0, <3>1, <3>2, <3>3
    <2>3. \/ Return(t, "InternalError", NoKey) /\ handles' = handles
          \/ \E got \in Key :
               /\ Return(t, "Ok", got)
               /\ handles' \in {handles, [handles EXCEPT ![t].pub = got]}
      BY <1>4 DEF Read
    <2> QED BY <2>1, <2>2, <2>3
  <1> QED BY <1>3, <1>4

\* The steps of rsaFreeSlot and what follows it.
LEMMA LooseWipes ==
  ASSUME LooseInv, NEW t \in Threads,
         WipePriv(t) \/ WipePub(t) \/ WipeReady(t) \/ UnreadyAgain(t)
  PROVE  TypeOK' /\ Shape(t)'
  <1>0. TypeOK /\ Shape(t) /\ call[t] \in CallType /\ call \in [Threads -> CallType]
    BY DEF LooseInv, TypeOK, CallType
  <1>1. call[t].slot \in Slots /\ NoKey \in Part
    BY <1>0 DEF WipePriv, WipePub, WipeReady, UnreadyAgain, At, Shape, Part
  <1>2. ASSUME NEW l \in WipeSteps, MovesTo(t, l) PROVE Shape(t)'
    <2>1. l \in Labels \ {"idle", "scan"} /\ l \notin {"mark", "handle"}
      BY DEF Labels, WipeSteps
    <2> QED BY <1>1, <1>2, <2>1, LooseMoves
  <1>3. CASE WipePriv(t) \/ WipePub(t) \/ WipeReady(t)
    <2>1. PICK l \in WipeSteps :
            \/ \E v \in Part : SetPriv(t, v, l) \/ SetPub(t, v, l)
            \/ \E v \in BOOLEAN : SetReady(t, v, l)
      BY <1>1, <1>3 DEF WipePriv, WipePub, WipeReady, WipeSteps
    <2>2. l \in Labels \ {"idle", "scan"}
      BY DEF Labels, WipeSteps
    <2>3. TypeOK' /\ MovesTo(t, l)
      BY <1>1, <1>3, <2>1, <2>2, LooseWrites DEF WipePriv, WipePub, WipeReady
    <2> QED BY <1>2, <2>3
  <1>4. CASE UnreadyAgain(t)
    <2>1. slots' \in [Slots -> SlotType] /\ nextKey' = nextKey
      <3>1. slots \in [Slots -> SlotType]
        BY <1>0 DEF TypeOK, SlotType
      <3> QED BY <1>0, <1>1, <1>4, <3>1, SlotParts DEF UnreadyAgain
    <2>2. CASE \E st \in CryptoStatus : Return(t, st, NoKey)
      <3>1. /\ call' \in [Threads -> CallType] /\ ret' \in [Threads -> RetType]
            /\ Shape(t)'
        BY <1>1, <2>2, LooseReturns
      <3>2. /\ started' \in BOOLEAN /\ made' \in [Threads -> Key \cup {NoKey}]
            /\ handles' \in [Threads -> [slot : Slots \cup {kRsaInvalidSlot},
                                         pub : Key \cup {NoKey}]]
        <4>1. /\ handles' \in {handles, [handles EXCEPT ![t] = NoHandle]}
              /\ made' \in {made, [made EXCEPT ![t] = NoKey]}
              /\ started' \in {started, FALSE}
          BY <1>4 DEF UnreadyAgain, AfterFree
        <4>2. NoHandle \in [slot : Slots \cup {kRsaInvalidSlot}, pub : Key \cup {NoKey}]
          BY DEF NoHandle
        <4>3. /\ started \in BOOLEAN /\ made \in [Threads -> Key \cup {NoKey}]
              /\ handles \in [Threads -> [slot : Slots \cup {kRsaInvalidSlot},
                                          pub : Key \cup {NoKey}]]
          BY <1>0 DEF TypeOK
        <4>4. started' \in BOOLEAN
          BY <4>1, <4>3
        <4>5. made' \in [Threads -> Key \cup {NoKey}]
          BY <4>1, <4>3
        <4>6. handles' \in [Threads -> [slot : Slots \cup {kRsaInvalidSlot},
                                       pub : Key \cup {NoKey}]]
          BY <4>1, <4>2, <4>3
        <4> QED BY <4>4, <4>5, <4>6
      <3> QED BY <1>0, <2>1, <3>1, <3>2 DEF TypeOK, SlotType, CallType, RetType
    <2>3. CASE /\ call[t].slot < SlotCount - 1 /\ UNCHANGED <<started, handles, made, ret>>
               /\ call' = [call EXCEPT ![t].at = "wipePriv", ![t].slot = @ + 1]
      <3>1. call[t].slot + 1 \in Slots /\ call[t].slot + 1 \in 0..SlotCount
        BY <1>1, <2>3 DEF Slots, kRsaInvalidSlot
      <3>2. /\ call' \in [Threads -> CallType] /\ call'[t].at = "wipePriv"
            /\ call'[t].slot \in Slots
        BY <1>0, <2>3, <3>1 DEF CallType, Labels
      <3>3. TypeOK'
        BY <1>0, <2>1, <2>3, <3>2 DEF TypeOK, SlotType, CallType
      <3>4. Shape(t)'
        BY <3>2 DEF Shape, Idle, At, WipeSteps
      <3> QED BY <3>3, <3>4
    <2> QED BY <1>4, <2>2, <2>3 DEF UnreadyAgain, AfterFree, CryptoStatus
  <1> QED BY <1>3, <1>4

\* LooseInv is an invariant of any number of threads.
LEMMA LooseInvariant == Spec => []LooseInv
  <1>1. Init => LooseInv
    <2>1. Init => \A t \in Threads : Shape(t)
      BY DEF Init, NoCall, Shape, Idle, At
    <2>2. Init => TypeOK
      BY SlotInit DEF SlotInv
    <2> QED BY <2>1, <2>2 DEF LooseInv
  <1>2. LooseInv /\ [Next]_vars => LooseInv'
    <2> SUFFICES ASSUME LooseInv, [Next]_vars PROVE LooseInv'
      OBVIOUS
    <2>1. ASSUME NEW t \in Threads, Start(t) PROVE LooseInv'
      BY <2>1, LooseStarts
    <2>2. ASSUME NEW t \in Threads, Proceed(t) PROVE LooseInv'
      <3>1. TypeOK' /\ Shape(t)'
        BY <2>2, LooseMakes, LooseUses, LooseWipes DEF Proceed
      <3> QED BY <2>2, <3>1, LooseStep
    <2>3. CASE UNCHANGED vars
      <3>1. TypeOK'
        BY <2>3 DEF LooseInv, TypeOK, vars
      <3> QED BY <2>3, <3>1 DEF LooseInv, Shape, Idle, At, vars
    <2> QED BY <2>1, <2>2, <2>3 DEF Next
  <1> QED BY <1>1, <1>2, PTL DEF Spec

\* All state keeps its type whatever the interleaving and whatever calls the
\* application locks, none at all included: no slot number in a handle or in a
\* running call ever leaves g_rsaSlots.  What a missing lock breaks is whose key
\* a slot holds, not where the calls write.
THEOREM ThreadsTypeCorrect == Spec => []TypeOK
  <1>1. LooseInv => TypeOK
    BY DEF LooseInv
  <1> QED BY <1>1, LooseInvariant, PTL

\* How far a call at step l is from its return
StepRank(l) ==
  CASE l = "scan"      -> 13 [] l = "unready" -> 12 [] l = "priv"      -> 11
    [] l = "pub"       -> 10 [] l = "mark"    -> 9  [] l = "handle"    -> 8
    [] l = "check"     -> 7  [] l = "read"    -> 6  [] l = "wipePriv"  -> 5
    [] l = "wipePub"   -> 4  [] l = "wipeReady" -> 3 [] l = "unreadyAgain" -> 2
    [] OTHER           -> 0

\* The passes its loop still makes: of rsaAllocSlot() over the slots that are
\* left, or of rsaFreeAllSlots(), each as long as rsaFreeSlot()
PassesLeft(c) ==
  IF c.op = "end" THEN 5 * (SlotCount - c.slot)
  ELSE IF c.at = "scan" THEN SlotCount - c.slot ELSE 0

\* A bound on the steps call c still takes
StepsLeft(c) == IF c.at = "idle" THEN 0 ELSE StepRank(c.at) + PassesLeft(c)

\* Ranks are numbers, in the order of the steps.
LEMMA Ranks ==
  /\ \A l \in Labels \ {"idle"} : StepRank(l) \in 2..13
  /\ StepRank("scan") = 13 /\ StepRank("unready") = 12 /\ StepRank("priv") = 11
  /\ StepRank("pub") = 10 /\ StepRank("mark") = 9 /\ StepRank("handle") = 8
  /\ StepRank("check") = 7 /\ StepRank("read") = 6 /\ StepRank("wipePriv") = 5
  /\ StepRank("wipePub") = 4 /\ StepRank("wipeReady") = 3 /\ StepRank("unreadyAgain") = 2
  BY DEF StepRank, Labels

\* The bound is a number, and 0 only when the call is over.
LEMMA StepsLeftType ==
  ASSUME LooseInv, NEW t \in Threads
  PROVE  StepsLeft(call[t]) \in Nat /\ (StepsLeft(call[t]) = 0 <=> Idle(t))
  <1>1. call[t] \in CallType
    BY DEF LooseInv, TypeOK, CallType
  <1>2. PassesLeft(call[t]) \in Nat
    <2>1. PICK d \in Nat : d = SlotCount - call[t].slot
      BY <1>1 DEF CallType, kRsaInvalidSlot
    <2>2. PassesLeft(call[t]) \in {5 * d, d, 0}
      BY <2>1 DEF PassesLeft
    <2> QED BY <2>2
  <1>3. CASE Idle(t)
    BY <1>3 DEF StepsLeft, Idle, At
  <1>4. CASE ~Idle(t)
    <2>1. PICK r \in 2..13 : r = StepRank(call[t].at)
      BY <1>1, <1>4, Ranks DEF CallType, Idle, At
    <2>2. PICK p \in Nat : p = PassesLeft(call[t])
      BY <1>2
    <2>3. StepsLeft(call[t]) = r + p
      BY <1>4, <2>1, <2>2 DEF StepsLeft, Idle, At
    <2>4. r + p \in Nat /\ r + p # 0
      OBVIOUS
    <2> QED BY <1>4, <2>3, <2>4
  <1> QED BY <1>3, <1>4

\* A call that returns has no steps left.
LEMMA LeavesRunsOut ==
  ASSUME LooseInv, NEW t \in Threads, ~Idle(t), LeavesCall(t)
  PROVE  StepsLeft(call'[t]) < StepsLeft(call[t])
  <1>1. StepsLeft(call'[t]) = 0
    BY DEF LeavesCall, NoCall, StepsLeft
  <1>2. PICK n \in Nat : n = StepsLeft(call[t]) /\ n # 0
    BY StepsLeftType
  <1> QED BY <1>1, <1>2

\* A step that goes on to a later step of the same call, within one pass.
LEMMA RankDrops ==
  ASSUME LooseInv, NEW t \in Threads, NEW l \in Labels, ~Idle(t), l \notin {"idle", "scan"},
         StepRank(l) < StepRank(call[t].at), call'[t].at = l, call'[t].op = call[t].op,
         call'[t].slot = call[t].slot
  PROVE  StepsLeft(call'[t]) < StepsLeft(call[t])
  <1>1. call[t] \in CallType
    BY DEF LooseInv, TypeOK, CallType
  <1>2. PICK r \in Nat, q \in Nat : r = StepRank(call[t].at) /\ q = StepRank(l) /\ q < r
    BY <1>1, Ranks DEF CallType, Idle, At
  <1>3. PICK d \in Nat : d = SlotCount - call[t].slot
    BY <1>1 DEF CallType, kRsaInvalidSlot
  <1>4. PICK p \in Nat, s \in Nat :
          p = PassesLeft(call[t]) /\ s = PassesLeft(call'[t]) /\ s <= p
    <2>1. CASE call[t].op = "end"
      BY <1>3, <2>1 DEF PassesLeft
    <2>2. CASE call[t].op # "end"
      <3>1. PassesLeft(call[t]) \in {d, 0} /\ PassesLeft(call'[t]) = 0
        BY <1>3, <2>2 DEF PassesLeft
      <3> QED BY <3>1
    <2> QED BY <2>1, <2>2
  <1>5. StepsLeft(call'[t]) = q + s /\ StepsLeft(call[t]) = r + p
    BY <1>2, <1>4 DEF StepsLeft, Idle, At
  <1> QED BY <1>2, <1>4, <1>5

\* Every step of a running call brings its return nearer.
LEMMA StepsRunDown ==
  ASSUME LooseInv, NEW t \in Threads, Proceed(t)
  PROVE  ~Idle(t) /\ StepsLeft(call'[t]) < StepsLeft(call[t])
  <1>0. TypeOK /\ Shape(t) /\ call[t] \in CallType /\ call \in [Threads -> CallType]
    BY DEF LooseInv, TypeOK, CallType
  <1>1. ~Idle(t)
    BY DEF Proceed, Scan, Unready, FillPriv, FillPrivFails, FillPub, Mark, FillHandle, Check,
           Read, WipePriv, WipePub, WipeReady, UnreadyAgain, At, Idle
  <1> SUFFICES StepsLeft(call'[t]) < StepsLeft(call[t])
    BY <1>1
  <1>2. ASSUME NEW st, NEW k, Return(t, st, k) PROVE StepsLeft(call'[t]) < StepsLeft(call[t])
    <2>1. LeavesCall(t)
      BY <1>0, <1>2, MoveFacts
    <2> QED BY <1>1, <2>1, LeavesRunsOut
  <1>3. ASSUME NEW l \in Labels, l \notin {"idle", "scan"}, Goto(t, l),
               StepRank(l) < StepRank(call[t].at)
        PROVE  StepsLeft(call'[t]) < StepsLeft(call[t])
    <2>1. MovesTo(t, l)
      BY <1>0, <1>3, MoveFacts
    <2> QED BY <1>1, <1>3, <2>1, RankDrops DEF MovesTo
  <1>4. ASSUME NEW l \in Labels, l \notin {"idle", "scan"},
               StepRank(l) < StepRank(call[t].at),
               \E v : SetPriv(t, v, l) \/ SetPub(t, v, l) \/ SetReady(t, v, l)
        PROVE  StepsLeft(call'[t]) < StepsLeft(call[t])
    BY <1>3, <1>4 DEF SetPriv, SetPub, SetReady
  <1>5. CASE Scan(t)
    <2>0. call[t].at = "scan" /\ call[t].op # "end" /\ "unready" \in Labels
      BY <1>0, <1>5 DEF Scan, At, Shape, WipeSteps, Labels
    <2>1. CASE Return(t, "InternalError", NoKey)
      BY <1>2, <2>1
    <2>2. CASE call[t].slot < SlotCount /\ call' = [call EXCEPT ![t].slot = @ + 1]
      <3>1. /\ call'[t].at = "scan" /\ call'[t].op = call[t].op
            /\ call'[t].slot = call[t].slot + 1
        BY <1>0, <2>0, <2>2 DEF CallType
      <3>2. /\ StepsLeft(call'[t]) = 13 + (SlotCount - (call[t].slot + 1))
            /\ StepsLeft(call[t]) = 13 + (SlotCount - call[t].slot)
        BY <2>0, <3>1, Ranks DEF StepsLeft, PassesLeft
      <3>3. call[t].slot \in Nat /\ SlotCount \in Nat
        BY <1>0 DEF CallType, kRsaInvalidSlot
      <3> QED BY <3>2, <3>3
    <2>3. CASE Goto(t, "unready")
      BY <1>3, <2>0, <2>3, Ranks
    <2> QED BY <1>5, <2>1, <2>2, <2>3 DEF Scan
  <1>6. CASE Unready(t) \/ Mark(t)
    <2>1. PICK l \in {"priv", "handle"} :
            SetReady(t, l = "handle", l) /\ call[t].at = IF l = "priv" THEN "unready" ELSE "mark"
      BY <1>6 DEF Unready, Mark, At
    <2>2. l \in Labels /\ l \notin {"idle", "scan"} /\ StepRank(l) < StepRank(call[t].at)
      BY <2>1, Ranks DEF Labels
    <2> QED BY <1>4, <2>1, <2>2
  <1>7. CASE FillPriv(t) \/ FillPrivFails(t)
    <2>1. CASE \E k : call' = [call EXCEPT ![t].at = "pub", ![t].key = k]
      <3>1. /\ call'[t].at = "pub" /\ call'[t].op = call[t].op
            /\ call'[t].slot = call[t].slot /\ "pub" \in Labels /\ call[t].at = "priv"
        BY <1>0, <1>7, <2>1 DEF CallType, Labels, FillPriv, FillPrivFails, At
      <3> QED BY <1>1, <3>1, Ranks, RankDrops
    <2>2. CASE Return(t, "InternalError", NoKey)
      BY <1>2, <2>2
    <2> QED BY <1>7, <2>1, <2>2 DEF FillPriv, FillPrivFails
  <1>8. CASE FillPub(t)
    <2>0. call[t].at = "pub" /\ {"mark", "wipePriv"} \subseteq Labels
      BY <1>8 DEF FillPub, At, Labels
    <2>1. CASE \E v, l : l \in {"mark", "wipePriv"} /\ SetPub(t, v, l)
      BY <1>4, <2>0, <2>1, Ranks
    <2>2. CASE Return(t, "InternalError", NoKey)
      BY <1>2, <2>2
    <2> QED BY <1>8, <2>1, <2>2 DEF FillPub
  <1>9. CASE FillHandle(t)
    BY <1>3, <1>9, Ranks DEF FillHandle, At, Labels
  <1>10. CASE Check(t)
    <2>0. call[t].at = "check" /\ {"read", "wipePriv"} \subseteq Labels
      BY <1>10 DEF Check, At, Labels
    <2>1. CASE \E l \in {"read", "wipePriv"} : Goto(t, l)
      BY <1>3, <2>0, <2>1, Ranks
    <2>2. CASE Return(t, "BadParam", NoKey)
      BY <1>2, <2>2
    <2> QED BY <1>10, <2>1, <2>2 DEF Check
  <1>11. CASE Read(t)
    BY <1>2, <1>11 DEF Read
  <1>12. CASE WipePriv(t) \/ WipePub(t) \/ WipeReady(t)
    <2>1. PICK l \in WipeSteps :
            /\ \E v : SetPriv(t, v, l) \/ SetPub(t, v, l) \/ SetReady(t, v, l)
            /\ \/ l = "wipePub" /\ call[t].at = "wipePriv"
               \/ l = "wipeReady" /\ call[t].at = "wipePub"
               \/ l = "unreadyAgain" /\ call[t].at = "wipeReady"
      BY <1>12, Zenon DEF WipePriv, WipePub, WipeReady, At, WipeSteps
    <2>2. l \in Labels /\ l \notin {"idle", "scan"} /\ StepRank(l) < StepRank(call[t].at)
      BY <2>1, Ranks DEF Labels
    <2> QED BY <1>4, <2>1, <2>2
  <1>13. CASE UnreadyAgain(t)
    <2>1. CASE \E st, k : Return(t, st, k)
      BY <1>2, <2>1
    <2>2. CASE /\ call[t].op = "end" /\ call[t].slot < SlotCount - 1
               /\ call' = [call EXCEPT ![t].at = "wipePriv", ![t].slot = @ + 1]
      <3>1. /\ call'[t].at = "wipePriv" /\ call'[t].op = "end"
            /\ call'[t].slot = call[t].slot + 1 /\ call[t].at = "unreadyAgain"
        BY <1>0, <1>13, <2>2 DEF CallType, UnreadyAgain, At
      <3>2. /\ StepsLeft(call'[t]) = 5 + 5 * (SlotCount - (call[t].slot + 1))
            /\ StepsLeft(call[t]) = 2 + 5 * (SlotCount - call[t].slot)
        BY <2>2, <3>1, Ranks DEF StepsLeft, PassesLeft
      <3>3. call[t].slot \in Nat /\ SlotCount \in Nat
        BY <1>0 DEF CallType, kRsaInvalidSlot
      <3> QED BY <3>2, <3>3
    <2> QED BY <1>13, <2>1, <2>2 DEF UnreadyAgain, AfterFree
  <1> QED
    BY <1>5, <1>6, <1>7, <1>8, <1>9, <1>10, <1>11, <1>12, <1>13 DEF Proceed

\* Every step a thread takes inside a call that makes, releases or exports a key,
\* or inside end(), brings its return nearer, and no other thread moves it: the
\* search of rsaAllocSlot() and the wiping of rsaFreeAllSlots() end whatever the
\* others do to the slots meanwhile and whatever calls are locked.
THEOREM ThreadsRunOut ==
  Spec => /\ [](\A t \in Threads :
                  StepsLeft(call[t]) \in Nat /\ (StepsLeft(call[t]) = 0 <=> Idle(t)))
          /\ [][\A t \in Threads :
                  /\ Proceed(t) => StepsLeft(call'[t]) < StepsLeft(call[t])
                  /\ ~Idle(t) => Proceed(t) \/ call'[t] = call[t]]_vars
  <1>1. LooseInv => \A t \in Threads :
                      StepsLeft(call[t]) \in Nat /\ (StepsLeft(call[t]) = 0 <=> Idle(t))
    BY StepsLeftType
  <1>2. LooseInv /\ [Next]_vars =>
          [\A t \in Threads :
             /\ Proceed(t) => StepsLeft(call'[t]) < StepsLeft(call[t])
             /\ ~Idle(t) => Proceed(t) \/ call'[t] = call[t]]_vars
    <2> SUFFICES ASSUME LooseInv, Next, NEW t \in Threads
                 PROVE  /\ Proceed(t) => StepsLeft(call'[t]) < StepsLeft(call[t])
                        /\ ~Idle(t) => Proceed(t) \/ call'[t] = call[t]
      OBVIOUS
    <2>1. Proceed(t) => StepsLeft(call'[t]) < StepsLeft(call[t])
      BY StepsRunDown
    <2>2. ASSUME ~Idle(t), ~Proceed(t) PROVE call'[t] = call[t]
      <3>1. PICK u \in Threads : Start(u) \/ Proceed(u)
        BY DEF Next
      <3>2. CASE u = t
        <4>1. Start(t) => Idle(t)
          BY DEF Start, Refused, Generate, Import, UseHandle, Begin, End, May
        <4> QED BY <2>2, <3>1, <3>2, <4>1
      <3>3. CASE u # t
        BY <3>1, <3>3, StepIsOwn DEF LooseInv
      <3> QED BY <3>2, <3>3
    <2> QED BY <2>1, <2>2
  <1> QED BY <1>1, <1>2, LooseInvariant, PTL DEF Spec
=============================================================================
