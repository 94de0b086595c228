--------------------------- MODULE RsaSlotThreads ---------------------------
(***************************************************************************)
(* The RSA slots of the CC310 backend under several threads: the calls that *)
(* make, release and export a key, one step for each access to g_rsaSlots  *)
(* that another thread can come between.  RsaKeyStore takes such a call as  *)
(* one step.                                                               *)
(*                                                                         *)
(* The backend takes no lock.  Locked is the set of calls around which the *)
(* application holds one of its own; the others run at any time.  A thread *)
(* has one RsaKeyPair, which it alone uses, and releases before it reuses  *)
(* it.  The engine is stopped only when no thread holds a key.             *)
(*                                                                         *)
(* A slot is its three parts in the order of the struct, which is the      *)
(* order memset clears them in; kg is scratch of the key generation and    *)
(* goes with pub.  Keys are numbers as in RsaKeyStore.                     *)
(***************************************************************************)
EXTENDS CryptoTypes

CONSTANTS
  Threads,
  SlotCount,   \* kRsaSlotCount
  MaxKeys,     \* bound: keys generated in one behaviour
  Materials,   \* key material to import
  Locked       \* the calls the application makes under its lock

Ops == {"generate", "import", "release", "export", "begin", "end"}

ASSUME SlotCountAssumption == SlotCount \in 1..kRsaInvalidSlot
ASSUME MaterialAssumption ==
  MaxKeys \in Nat /\ \A m \in Materials : m \in Int /\ m > MaxKeys
ASSUME LockedAssumption == Locked \subseteq Ops

VARIABLES
  started,   \* CC310Backend::started_, and CryptoEngine::backend_ is set
  slots,     \* g_rsaSlots
  nextKey,   \* the next key the library generates
  handles,   \* each thread's RsaKeyPair
  made,      \* ghost: the key the thread's handle was filled with
  call,      \* each thread's call: its name, the next step, its slot, its key
  ret        \* each thread's last answer: call, status, exported key

vars == <<started, slots, nextKey, handles, made, call, ret>>

Slots == 0 .. SlotCount - 1
NoKey == 0
Residue == -1     \* what a failed library call left
Key == 1..MaxKeys \cup Materials
Part == Key \cup {NoKey, Residue}

BlankSlot == [priv |-> NoKey, pub |-> NoKey, ready |-> FALSE]
NoHandle == [slot |-> kRsaInvalidSlot, pub |-> NoKey]
NoCall == [op |-> "none", at |-> "idle", slot |-> 0, key |-> NoKey]

Labels == {"idle", "scan", "unready", "priv", "pub", "mark", "handle", "check",
           "read", "wipePriv", "wipePub", "wipeReady", "unreadyAgain"}

TypeOK ==
  /\ started \in BOOLEAN
  /\ slots \in [Slots -> [priv : Part, pub : Part, ready : BOOLEAN]]
  /\ nextKey \in 1 .. MaxKeys + 1
  /\ handles \in [Threads -> [slot : Slots \cup {kRsaInvalidSlot},
                              pub : Key \cup {NoKey}]]
  /\ made \in [Threads -> Key \cup {NoKey}]
  /\ call \in [Threads -> [op : Ops \cup {"none"}, at : Labels,
                           slot : 0..SlotCount, key : Key \cup {NoKey, Residue}]]
  /\ ret \in [Threads -> [op : Ops \cup {"none"}, st : CryptoStatus,
                          key : Part]]

Init ==
  /\ started = FALSE
  /\ slots = [s \in Slots |-> BlankSlot]
  /\ nextKey = 1
  /\ handles = [t \in Threads |-> NoHandle]
  /\ made = [t \in Threads |-> NoKey]
  /\ call = [t \in Threads |-> NoCall]
  /\ ret = [t \in Threads |-> [op |-> "none", st |-> "Ok", key |-> NoKey]]

-----------------------------------------------------------------------------

At(t, l) == call[t].at = l
Valid(t) == handles[t].slot # kRsaInvalidSlot
Idle(t) == At(t, "idle")

\* The application's lock is free for a call of t
LockFree(t) == \A u \in Threads \ {t} : call[u].op \notin Locked

Answer(t, op, st, key) == ret' = [ret EXCEPT ![t] = [op |-> op, st |-> st, key |-> key]]

Return(t, st, key) ==
  /\ Answer(t, call[t].op, st, key)
  /\ call' = [call EXCEPT ![t] = NoCall]

Goto(t, l) == call' = [call EXCEPT ![t].at = l] /\ UNCHANGED ret

\* A step of t's call that writes one part of its slot and goes on at l
SetPriv(t, v, l) == slots' = [slots EXCEPT ![call[t].slot].priv = v] /\ Goto(t, l)
SetPub(t, v, l) == slots' = [slots EXCEPT ![call[t].slot].pub = v] /\ Goto(t, l)
SetReady(t, v, l) == slots' = [slots EXCEPT ![call[t].slot].ready = v] /\ Goto(t, l)

rsaSlotValid(s) == s \in Slots /\ slots[s].ready

Enter(t, op, l, s, k) ==
  /\ call' = [call EXCEPT ![t] = [op |-> op, at |-> l, slot |-> s, key |-> k]]
  /\ UNCHANGED <<started, slots, nextKey, ret>>

-----------------------------------------------------------------------------
(* The calls begin.  The caller's arguments are good: RsaKeyStore has the    *)
(* other cases                                                               *)

May(t, op) == Idle(t) /\ (op \in Locked => LockFree(t))

\* NC_GUARD() or the backend's test of started_
Refused(t, op) ==
  /\ May(t, op) /\ ~started
  /\ Answer(t, op, "NotStarted", NoKey)
  /\ UNCHANGED <<started, slots, nextKey, handles, made, call>>

\* rsaGenerateKeyPair: key->clear() on an object without a key is no change
Generate(t) ==
  /\ May(t, "generate") /\ started /\ ~Valid(t)
  /\ Enter(t, "generate", "scan", 0, NoKey)
  /\ UNCHANGED <<handles, made>>

Import(t, m) ==
  /\ May(t, "import") /\ started /\ ~Valid(t)
  /\ Enter(t, "import", "scan", 0, m)
  /\ UNCHANGED <<handles, made>>

\* rsaReleaseKeyPair or rsaExportPublicKey
UseHandle(t, op) ==
  /\ May(t, op) /\ started /\ Valid(t)
  /\ Enter(t, op, "check", handles[t].slot, NoKey)
  /\ UNCHANGED <<handles, made>>

\* CC310Backend::begin(); its failures are in RsaKeyStore
Begin(t) ==
  /\ May(t, "begin") /\ ~started
  /\ started' = TRUE
  /\ Answer(t, "begin", "Ok", NoKey)
  /\ UNCHANGED <<slots, nextKey, handles, made, call>>

\* CC310Backend::end() enters rsaFreeAllSlots()
End(t) ==
  /\ May(t, "end") /\ started
  /\ \A u \in Threads : ~Valid(u)
  /\ Enter(t, "end", "wipePriv", 0, NoKey)
  /\ UNCHANGED <<handles, made>>

-----------------------------------------------------------------------------
(* Making a key *)

\* Mutant of Scan: the last slot is taken without looking at it
TakesLastSlot(t) ==
  /\ At(t, "scan")
  /\ IF call[t].slot < SlotCount - 1 /\ slots[call[t].slot].ready
       THEN call' = [call EXCEPT ![t].slot = @ + 1] /\ UNCHANGED ret
       ELSE Goto(t, "unready")
  /\ UNCHANGED <<started, slots, nextKey, handles, made>>

\* One pass of the loop of rsaAllocSlot()
Scan(t) ==
  /\ At(t, "scan")
  /\ \/ call[t].slot = SlotCount /\ Return(t, "InternalError", NoKey)
     \/ /\ call[t].slot < SlotCount
        /\ IF slots[call[t].slot].ready
             THEN call' = [call EXCEPT ![t].slot = @ + 1] /\ UNCHANGED ret
             ELSE Goto(t, "unready")
  /\ UNCHANGED <<started, slots, nextKey, handles, made>>

\* g_rsaSlots[slot].ready = false
Unready(t) ==
  /\ At(t, "unready")
  /\ SetReady(t, FALSE, "priv")
  /\ UNCHANGED <<started, nextKey, handles, made>>

\* The library writes the private part: CRYS_RSA_KG_GenerateKeyPair, which picks
\* the key, or CRYS_RSA_Build_PrivKey
FillPriv(t) ==
  LET fresh == call[t].op = "generate"
      k     == IF fresh THEN nextKey ELSE call[t].key
  IN  /\ At(t, "priv")
      /\ fresh => nextKey <= MaxKeys
      /\ slots' = [slots EXCEPT ![call[t].slot].priv = k]
      /\ call' = [call EXCEPT ![t].at = "pub", ![t].key = k]
      /\ nextKey' = IF fresh THEN nextKey + 1 ELSE nextKey
      /\ UNCHANGED <<started, handles, made, ret>>

\* The same, failing.  A failed generation returns; a failed build goes on to the
\* public part
FillPrivFails(t) ==
  /\ At(t, "priv")
  /\ \E left \in {slots[call[t].slot].priv, Residue} :
       slots' = [slots EXCEPT ![call[t].slot].priv = left]
  /\ \/ call[t].op = "generate" /\ Return(t, "InternalError", NoKey)
     \/ /\ call[t].op = "import"
        /\ call' = [call EXCEPT ![t].at = "pub", ![t].key = Residue]
        /\ UNCHANGED ret
  /\ UNCHANGED <<started, nextKey, handles, made>>

\* Mutant of FillPub: the answers of the library are not looked at
IgnoresBuildErrors(t) ==
  /\ At(t, "pub")
  /\ SetPub(t, call[t].key, "mark")
  /\ UNCHANGED <<started, nextKey, handles, made>>

\* The library writes the public part: the rest of the generation, or
\* CRYS_RSA_Build_PubKey.  A failed build, of this part or the other, leads to
\* rsaFreeSlot
FillPub(t) ==
  /\ At(t, "pub")
  /\ \/ call[t].key # Residue /\ SetPub(t, call[t].key, "mark")
     \/ \E k \in {call[t].key, slots[call[t].slot].pub, Residue} :
          call[t].op = "import" /\ SetPub(t, k, "wipePriv")
     \/ /\ call[t].op = "generate"
        /\ \E k \in {slots[call[t].slot].pub, Residue} :
             slots' = [slots EXCEPT ![call[t].slot].pub = k]
        /\ Return(t, "InternalError", NoKey)
  /\ UNCHANGED <<started, nextKey, handles, made>>

\* g_rsaSlots[slot].ready = true
Mark(t) ==
  /\ At(t, "mark")
  /\ SetReady(t, TRUE, "handle")
  /\ UNCHANGED <<started, nextKey, handles, made>>

\* key->slot = slot
FillHandle(t) ==
  /\ At(t, "handle")
  /\ handles' = [handles EXCEPT ![t].slot = call[t].slot]
  /\ made' = [made EXCEPT ![t] = call[t].key]
  /\ Goto(t, "check")
  /\ UNCHANGED <<started, slots, nextKey>>

-----------------------------------------------------------------------------
(* Using and dropping it *)

\* rsaSlotValid(key->slot), in rsaReleaseKeyPair, rsaExportPublicKey and
\* rsaExportSlotPub
Check(t) ==
  /\ At(t, "check")
  /\ \/ ~rsaSlotValid(handles[t].slot) /\ Return(t, "BadParam", NoKey)
     \/ /\ rsaSlotValid(handles[t].slot)
        /\ Goto(t, IF call[t].op = "release" THEN "wipePriv" ELSE "read")
  /\ UNCHANGED <<started, slots, nextKey, handles, made>>

\* CRYS_RSA_Get_PubKey: into key->pub for a call that makes a key, into the
\* caller's object otherwise
Read(t) ==
  LET got == slots[call[t].slot].pub IN
  /\ At(t, "read")
  /\ \/ Return(t, "InternalError", NoKey) /\ UNCHANGED handles
     \/ /\ got \in Key
        /\ Return(t, "Ok", got)
        /\ handles' = IF call[t].op = "export" THEN handles
                      ELSE [handles EXCEPT ![t].pub = got]
  /\ UNCHANGED <<started, slots, nextKey, made>>

\* rsaFreeSlot(): memset reaches priv, then pub, then ready
WipePriv(t) ==
  /\ At(t, "wipePriv")
  /\ SetPriv(t, NoKey, "wipePub")
  /\ UNCHANGED <<started, nextKey, handles, made>>

WipePub(t) ==
  /\ At(t, "wipePub")
  /\ SetPub(t, NoKey, "wipeReady")
  /\ UNCHANGED <<started, nextKey, handles, made>>

WipeReady(t) ==
  /\ At(t, "wipeReady")
  /\ SetReady(t, FALSE, "unreadyAgain")
  /\ UNCHANGED <<started, nextKey, handles, made>>

\* What follows rsaFreeSlot in the call
AfterFree(t) ==
  CASE call[t].op = "release" ->
         /\ handles' = [handles EXCEPT ![t] = NoHandle]
         /\ made' = [made EXCEPT ![t] = NoKey]
         /\ Return(t, "Ok", NoKey)
         /\ UNCHANGED started
    [] call[t].op = "import" ->
         Return(t, "BadParam", NoKey) /\ UNCHANGED <<started, handles, made>>
    [] call[t].op = "end" /\ call[t].slot < SlotCount - 1 ->
         /\ call' = [call EXCEPT ![t].at = "wipePriv", ![t].slot = @ + 1]
         /\ UNCHANGED <<started, handles, made, ret>>
    [] OTHER ->
         started' = FALSE /\ Return(t, "Ok", NoKey) /\ UNCHANGED <<handles, made>>

\* Mutant of UnreadyAgain: the second store hits the next slot
UnreadiesNext(t) ==
  /\ At(t, "unreadyAgain")
  /\ slots' = [slots EXCEPT ![(call[t].slot + 1) % SlotCount].ready = FALSE]
  /\ AfterFree(t)
  /\ UNCHANGED nextKey

\* g_rsaSlots[slot].ready = false, after the memset.  A compiler may drop this
\* store, which the memset has made already
UnreadyAgain(t) ==
  /\ At(t, "unreadyAgain")
  /\ slots' \in {slots, [slots EXCEPT ![call[t].slot].ready = FALSE]}
  /\ AfterFree(t)
  /\ UNCHANGED nextKey

-----------------------------------------------------------------------------

Start(t) ==
  \/ \E op \in Ops \ {"begin", "end"} : Refused(t, op)
  \/ Generate(t)
  \/ \E m \in Materials : Import(t, m)
  \/ \E op \in {"release", "export"} : UseHandle(t, op)
  \/ Begin(t)
  \/ End(t)

Proceed(t) ==
  \/ Scan(t) \/ Unready(t) \/ FillPriv(t) \/ FillPrivFails(t) \/ FillPub(t)
  \/ Mark(t) \/ FillHandle(t) \/ Check(t) \/ Read(t)
  \/ WipePriv(t) \/ WipePub(t) \/ WipeReady(t) \/ UnreadyAgain(t)

Next == \E t \in Threads : Start(t) \/ Proceed(t)

Spec == Init /\ [][Next]_vars

-----------------------------------------------------------------------------
(* Properties: the lock is held around making and releasing a key and around  *)
(* begin and end, and not around rsaExportPublic                              *)

\* At every instant the slots seen by the other threads are a KeyPool: a place
\* goes from nothing to one whole key and back, although rsaGenerate, rsaImport,
\* rsaFreeSlot and end() write the parts of a slot one by one
KP == INSTANCE KeyPool WITH
        Places <- Slots, Keys <- Key, Free <- NoKey, open <- started,
        pool <- [s \in Slots |-> IF slots[s].ready THEN slots[s].priv ELSE NoKey]

ThreadsImplementKeyPool == KP!PoolSpec

\* t is between calls, or in one that only reads its key
Holds(t) == Valid(t) /\ (Idle(t) \/ call[t].op = "export")

\* A thread's key stays whole in its slot whatever step the other threads are
\* at, no two threads share a slot, and between calls a ready slot has an owner
\* (rsaAllocSlot and rsaFreeSlot, CC310Backend.cpp 125-135)
KeysStayOwned ==
  /\ \A t \in Threads : Holds(t) =>
       slots[handles[t].slot] = [priv |-> made[t], pub |-> made[t], ready |-> TRUE]
  /\ \A t, u \in Threads : Holds(t) /\ handles[u].slot = handles[t].slot => t = u
  /\ (\A t \in Threads : Idle(t)) =>
       \A s \in Slots : slots[s].ready => \E t \in Threads : handles[t].slot = s

\* rsaExportPublic without the lock answers for a live handle with the public
\* half of that handle's own key or InternalError, never with BadParam because of
\* a slot another thread is changing, never with another key
ExportsOwnKey ==
  \A t \in Threads : Valid(t) /\ Idle(t) /\ ret[t].op = "export" /\ ret[t].st # "NotStarted" =>
    ret[t].st # "BadParam" /\ (ret[t].st = "Ok" => ret[t].key = made[t])
=============================================================================
