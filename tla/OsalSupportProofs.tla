------------------------- MODULE OsalSupportProofs -------------------------
(***************************************************************************)
(* Proofs about OsalMutex, OsalTracker, OsalHeap, OsalLog and SampleApp:   *)
(* the mutexes of OSAL, its resource tracker, its heap monitor, its log    *)
(* and the application, for any threads, slots, objects and sizes.         *)
(***************************************************************************)
EXTENDS OsalMutex, OsalTracker, OsalHeap, OsalLog, SampleApp, FiniteSetTheorems,
        WellFoundedInduction, TLAPS

-----------------------------------------------------------------------------
(* Mutexes: types.                                                         *)

MutexRecords ==
  [used : BOOLEAN, id : 0..MaxMutexId, name : MutexNames \cup {Nobody},
   valid : BOOLEAN, live : BOOLEAN, owner : MutexThreads \cup {Nobody}]

MutexPcs ==
  MutexUses \cup {"idle", "register", "expired", "report", "callback", "clear", "unregister"}

\* A call that uses a pointer, or is about to give the slot back.
MutexPointing == MutexUses \cup {"clear"}

\* What MutexTypeOK needs besides: a call to be registered has an id, and one
\* with a pointer points into the table.
MutexTyped ==
  /\ mutexTable \in [MutexSlots -> MutexRecords]
  /\ nextMutexId \in 1..(MaxMutexId + 1)
  /\ mutexTracked \subseteq MutexIds
  /\ mutexPc \in [MutexThreads -> MutexPcs]
  /\ mutexSlot \in [MutexThreads -> MutexSlots \cup {0}]
  /\ DOMAIN mutexArg = MutexThreads
  /\ DOMAIN mutexSeen = MutexThreads
  /\ \A t \in MutexThreads : mutexPc[t] = "register" => mutexArg[t] \in MutexIds
  /\ \A t \in MutexThreads : mutexPc[t] \in MutexPointing => mutexSlot[t] \in MutexSlots

LEMMA MutexTypedInit == MutexInit => MutexTyped
  BY MutexAssumption
  DEF MutexInit, MutexTyped, MutexRecords, MutexPcs, MutexPointing, MutexUses, MutexIds

\* What MutexGoto does to the calls.
LEMMA MutexGoes ==
  ASSUME MutexTyped, NEW t \in MutexThreads, NEW p \in MutexPcs, NEW i, NEW s \in MutexSlots \cup {0},
         MutexGoto(t, p, i, s), p = "register" => i \in MutexIds,
         p \in MutexPointing => s \in MutexSlots
  PROVE  /\ mutexPc' \in [MutexThreads -> MutexPcs] /\ mutexPc'[t] = p
         /\ mutexSlot' \in [MutexThreads -> MutexSlots \cup {0}] /\ mutexSlot'[t] = s
         /\ DOMAIN mutexArg' = MutexThreads /\ mutexArg'[t] = i
         /\ \A u \in MutexThreads \ {t} :
              mutexPc'[u] = mutexPc[u] /\ mutexSlot'[u] = mutexSlot[u] /\ mutexArg'[u] = mutexArg[u]
         /\ \A u \in MutexThreads : mutexPc'[u] = "register" => mutexArg'[u] \in MutexIds
         /\ \A u \in MutexThreads : mutexPc'[u] \in MutexPointing => mutexSlot'[u] \in MutexSlots
  BY DEF MutexGoto, MutexTyped

\* A record with one field set.
LEMMA MutexFields ==
  ASSUME NEW r \in MutexRecords, NEW b \in BOOLEAN, NEW o \in MutexThreads \cup {Nobody}
  PROVE  /\ [r EXCEPT !.owner = o] = [used |-> r.used, id |-> r.id, name |-> r.name,
                                      valid |-> r.valid, live |-> r.live, owner |-> o]
         /\ [r EXCEPT !.valid = b] = [used |-> r.used, id |-> r.id, name |-> r.name,
                                      valid |-> b, live |-> r.live, owner |-> r.owner]
         /\ [r EXCEPT !.live = b] = [used |-> r.used, id |-> r.id, name |-> r.name,
                                     valid |-> r.valid, live |-> b, owner |-> r.owner]
         /\ [r EXCEPT !.used = b] = [used |-> b, id |-> r.id, name |-> r.name,
                                     valid |-> r.valid, live |-> r.live, owner |-> r.owner]
  BY DEF MutexRecords

LEMMA MutexFieldsType ==
  ASSUME NEW r \in MutexRecords, NEW b \in BOOLEAN, NEW o \in MutexThreads \cup {Nobody}
  PROVE  /\ [r EXCEPT !.owner = o] \in MutexRecords
         /\ [r EXCEPT !.valid = b] \in MutexRecords
         /\ [r EXCEPT !.live = b] \in MutexRecords
         /\ [r EXCEPT !.used = b] \in MutexRecords
  BY MutexFields DEF MutexRecords

\* What a call of t does to the table: it sets one field of the record its
\* pointer leads to.
LEMMA MutexSets ==
  ASSUME MutexTyped, NEW t \in MutexThreads, mutexSlot[t] \in MutexSlots
  PROVE  LET s == mutexSlot[t]
             r == mutexTable[s]
         IN  /\ \A o : mutexTable' = [mutexTable EXCEPT ![s].owner = o]
                         => mutexTable' = [mutexTable EXCEPT ![s] = [r EXCEPT !.owner = o]]
             /\ \A b : mutexTable' = [mutexTable EXCEPT ![s].live = b]
                         => mutexTable' = [mutexTable EXCEPT ![s] = [r EXCEPT !.live = b]]
             /\ \A b : mutexTable' = [mutexTable EXCEPT ![s].used = b]
                         => mutexTable' = [mutexTable EXCEPT ![s] = [r EXCEPT !.used = b]]
  BY DEF MutexTyped

\* The record s of the table is r from now on, and the others are as they were.
MutexChanged(s, r) ==
  /\ mutexTable' \in [MutexSlots -> MutexRecords]
  /\ mutexTable'[s] = r
  /\ \A q \in MutexSlots \ {s} : mutexTable'[q] = mutexTable[q]

\* Each action that changes a record.
LEMMA MutexChanges ==
  ASSUME MutexTyped, NEW t \in MutexThreads
  PROVE  /\ MutexAcquire(t) => /\ mutexSlot[t] \in MutexSlots
                               /\ MutexChanged(mutexSlot[t], [mutexTable[mutexSlot[t]] EXCEPT !.owner = t])
         /\ MutexRelease(t) => /\ mutexSlot[t] \in MutexSlots
                               /\ MutexChanged(mutexSlot[t], [mutexTable[mutexSlot[t]] EXCEPT !.owner = Nobody])
         /\ MutexDestroy(t) =>
              /\ mutexSlot[t] \in MutexSlots
              /\ \E b \in BOOLEAN :
                   MutexChanged(mutexSlot[t], [mutexTable[mutexSlot[t]] EXCEPT !.live = b])
         /\ MutexClear(t) => /\ mutexSlot[t] \in MutexSlots
                             /\ MutexChanged(mutexSlot[t], [mutexTable[mutexSlot[t]] EXCEPT !.used = FALSE])
  <1> DEFINE s == mutexSlot[t]
             r == mutexTable[s]
  <1>1. ASSUME NEW q \in MutexRecords, s \in MutexSlots, mutexTable' = [mutexTable EXCEPT ![s] = q]
        PROVE  MutexChanged(s, q)
    BY <1>1 DEF MutexChanged, MutexTyped
  <1>2. mutexPc[t] \in MutexPointing => s \in MutexSlots /\ r \in MutexRecords
    BY DEF MutexTyped
  <1>3. CASE MutexAcquire(t)
    <2>1. s \in MutexSlots /\ r \in MutexRecords
      BY <1>2, <1>3 DEF MutexAcquire, MutexPointing, MutexUses
    <2>2. mutexTable' = [mutexTable EXCEPT ![s] = [r EXCEPT !.owner = t]]
      BY <1>3, <2>1, MutexSets DEF MutexAcquire
    <2>3. [r EXCEPT !.owner = t] \in MutexRecords
      BY <2>1, MutexFieldsType
    <2>4. QED BY <1>1, <1>3, <2>1, <2>2, <2>3 DEF MutexAcquire, MutexRelease, MutexDestroy, MutexClear
  <1>4. CASE MutexRelease(t)
    <2>1. s \in MutexSlots /\ r \in MutexRecords
      BY <1>2, <1>4 DEF MutexRelease, MutexPointing, MutexUses
    <2>2. mutexTable' = [mutexTable EXCEPT ![s] = [r EXCEPT !.owner = Nobody]]
      BY <1>4, <2>1, MutexSets DEF MutexRelease
    <2>3. [r EXCEPT !.owner = Nobody] \in MutexRecords
      BY <2>1, MutexFieldsType
    <2>4. QED BY <1>1, <1>4, <2>1, <2>2, <2>3 DEF MutexAcquire, MutexRelease, MutexDestroy, MutexClear
  <1>5. CASE MutexDestroy(t)
    <2>1. s \in MutexSlots /\ r \in MutexRecords
      BY <1>2, <1>5 DEF MutexDestroy, MutexPointing, MutexUses
    <2>2. PICK b \in BOOLEAN : mutexTable' = [mutexTable EXCEPT ![s].live = b]
      <3>1. (r.live /\ ~MutexFree(s)) \in BOOLEAN
        OBVIOUS
      <3>2. QED BY <1>5, <3>1 DEF MutexDestroy
    <2>3. mutexTable' = [mutexTable EXCEPT ![s] = [r EXCEPT !.live = b]]
      BY <2>1, <2>2, MutexSets
    <2>4. [r EXCEPT !.live = b] \in MutexRecords
      BY <2>1, MutexFieldsType
    <2>5. QED BY <1>1, <1>5, <2>1, <2>3, <2>4 DEF MutexAcquire, MutexRelease, MutexDestroy, MutexClear
  <1>6. CASE MutexClear(t)
    <2>1. s \in MutexSlots /\ r \in MutexRecords
      BY <1>2, <1>6 DEF MutexClear, MutexPointing
    <2>2. mutexTable' = [mutexTable EXCEPT ![s] = [r EXCEPT !.used = FALSE]]
      BY <1>6, <2>1, MutexSets DEF MutexClear
    <2>3. [r EXCEPT !.used = FALSE] \in MutexRecords
      BY <2>1, MutexFieldsType
    <2>4. QED BY <1>1, <1>6, <2>1, <2>2, <2>3 DEF MutexAcquire, MutexRelease, MutexDestroy, MutexClear
  <1>7. QED BY <1>3, <1>4, <1>5, <1>6

LEMMA MutexCreates ==
  ASSUME MutexTyped, NEW t \in MutexThreads, NEW n \in MutexNames, MutexCreate(t, n)
  PROVE  /\ nextMutexId \in MutexIds /\ nextMutexId' \in 1..(MaxMutexId + 1)
         /\ MutexGoto(t, "register", nextMutexId, 0)
         /\ UNCHANGED <<detection, mutexTracked, mutexSeen>>
         /\ \E s \in MutexSlots, r \in MutexRecords :
              /\ ~mutexTable[s].used /\ r.used /\ r.live /\ MutexChanged(s, r)
  <1>1. nextMutexId \in MutexIds /\ nextMutexId' \in 1..(MaxMutexId + 1)
    BY MutexAssumption DEF MutexCreate, MutexTyped, MutexIds
  <1>2. PICK s \in MutexSlots :
          /\ MutexFirstFree(s)
          /\ mutexTable' = [mutexTable EXCEPT ![s] =
               [used |-> TRUE, id |-> nextMutexId, name |-> n, valid |-> TRUE,
                live |-> TRUE, owner |-> Nobody]]
    BY DEF MutexCreate
  <1> DEFINE r == [used |-> TRUE, id |-> nextMutexId, name |-> n, valid |-> TRUE,
                   live |-> TRUE, owner |-> Nobody]
  <1>3. r \in MutexRecords /\ r.used /\ r.live
    BY <1>1 DEF MutexRecords, MutexIds
  <1>4. mutexTable' = [mutexTable EXCEPT ![s] = r]
    BY <1>2
  <1> HIDE DEF r
  <1>5. MutexChanged(s, r)
    BY <1>3, <1>4 DEF MutexChanged, MutexTyped
  <1>6. QED BY <1>1, <1>2, <1>3, <1>5 DEF MutexCreate, MutexFirstFree

LEMMA MutexDeletes ==
  ASSUME MutexTyped, NEW t \in MutexThreads, NEW i \in MutexIds, MutexDeleteFind(t, i)
  PROVE  /\ UNCHANGED <<nextMutexId, detection, mutexTracked, mutexSeen>>
         /\ mutexPc[t] = "idle"
         /\ Quiet => MutexUnused(i)
         /\ \E s \in MutexSlots :
              /\ mutexTable[s].used /\ mutexTable[s].id = i
              /\ MutexChanged(s, [mutexTable[s] EXCEPT !.valid = FALSE])
              /\ MutexGoto(t, "destroy", i, s)
  <1>1. PICK s \in MutexSlots :
          /\ mutexTable[s].used /\ mutexTable[s].id = i
          /\ mutexTable' = [mutexTable EXCEPT ![s].valid = FALSE]
          /\ MutexGoto(t, "destroy", i, s)
    BY DEF MutexDeleteFind
  <1>2. mutexTable' = [mutexTable EXCEPT ![s] = [mutexTable[s] EXCEPT !.valid = FALSE]]
    BY <1>1 DEF MutexTyped
  <1>3. [mutexTable[s] EXCEPT !.valid = FALSE] \in MutexRecords
    BY MutexFieldsType DEF MutexTyped
  <1>4. MutexChanged(s, [mutexTable[s] EXCEPT !.valid = FALSE])
    BY <1>2, <1>3 DEF MutexChanged, MutexTyped
  <1>5. QED BY <1>1, <1>4 DEF MutexDeleteFind

LEMMA MutexTypedStep == MutexTyped /\ [MutexNext]_mutexVars => MutexTyped'
  <1> SUFFICES ASSUME MutexTyped, [MutexNext]_mutexVars PROVE MutexTyped'
    OBVIOUS
  <1>0. /\ {"idle", "register", "expired", "report", "callback", "unregister"} \cap MutexPointing = {}
        /\ MutexPointing \subseteq MutexPcs
        /\ {"idle", "register", "expired", "report", "callback", "unregister"} \subseteq MutexPcs
        /\ "register" \notin MutexPointing
        /\ {"lock", "timed", "unlock", "destroy", "clear"} \subseteq MutexPointing
    BY DEF MutexPcs, MutexPointing, MutexUses
  <1>1. ASSUME NEW t \in MutexThreads, NEW n \in MutexNames, MutexCreate(t, n)
        PROVE  MutexTyped'
    BY <1>0, <1>1, MutexCreates, MutexGoes DEF MutexTyped, MutexChanged
  <1>2. ASSUME NEW t \in MutexThreads, MutexRegister(t) \/ MutexUnregister(t)
        PROVE  MutexTyped'
    <2>1. MutexReturn(t) /\ UNCHANGED <<mutexTable, nextMutexId, mutexSeen>>
      BY <1>2 DEF MutexRegister, MutexUnregister
    <2>2. mutexTracked' \subseteq MutexIds
      BY <1>2 DEF MutexRegister, MutexUnregister, MutexTyped
    <2>3. QED BY <1>0, <2>1, <2>2, MutexGoes DEF MutexReturn, MutexTyped
  <1>3. ASSUME NEW t \in MutexThreads, NEW i \in MutexIds, NEW p \in {"lock", "timed", "unlock"},
               MutexLookUp(t, i, p)
        PROVE  MutexTyped'
    <2>1. PICK s \in MutexSlots : MutexGoto(t, p, i, s)
      BY <1>3 DEF MutexLookUp, MutexFound
    <2>2. p \in MutexPcs /\ p # "register"
      BY <1>0
    <2>3. QED BY <1>3, <2>1, <2>2, MutexGoes DEF MutexLookUp, MutexTyped
  <1>4. ASSUME NEW t \in MutexThreads,
               MutexAcquire(t) \/ MutexRelease(t) \/ MutexDestroy(t) \/ MutexClear(t)
        PROVE  MutexTyped'
    <2>1. mutexTable' \in [MutexSlots -> MutexRecords] /\ mutexSlot[t] \in MutexSlots
      BY <1>4, MutexChanges DEF MutexChanged
    <2>2. UNCHANGED <<nextMutexId, mutexTracked, mutexSeen>>
      BY <1>4 DEF MutexAcquire, MutexRelease, MutexDestroy, MutexClear
    <2>3. CASE MutexDestroy(t)
      <3>1. MutexGoto(t, "clear", mutexArg[t], mutexSlot[t])
        BY <2>3 DEF MutexDestroy
      <3>2. "clear" \in MutexPcs /\ "clear" # "register"
        BY <1>0
      <3>3. QED BY <2>1, <2>2, <3>1, <3>2, MutexGoes DEF MutexTyped
    <2>4. CASE ~MutexDestroy(t)
      <3>1. PICK p \in {"idle", "unregister"} : \E i : MutexGoto(t, p, i, 0)
        BY <1>4, <2>4 DEF MutexAcquire, MutexRelease, MutexClear, MutexReturn
      <3>2. p \in MutexPcs /\ p # "register" /\ p \notin MutexPointing
        BY <1>0
      <3>3. QED BY <2>1, <2>2, <3>1, <3>2, MutexGoes DEF MutexTyped
    <2>5. QED BY <2>3, <2>4
  <1>5. ASSUME NEW t \in MutexThreads, NEW w \in Waits,
               MutexCallback(t, w) \/ MutexTimedOut(t, w)
        PROVE  MutexTyped'
    <2>1. UNCHANGED <<mutexTable, nextMutexId, mutexTracked>> /\ DOMAIN mutexSeen' = MutexThreads
      BY <1>5 DEF MutexCallback, MutexTimedOut, MutexTyped
    <2>2. PICK p \in {"idle", "callback"} : \E i : MutexGoto(t, p, i, 0)
      BY <1>5 DEF MutexCallback, MutexTimedOut, MutexReturn
    <2>3. p \in MutexPcs /\ p # "register" /\ p \notin MutexPointing
      BY <1>0
    <2>4. QED BY <2>1, <2>2, <2>3, MutexGoes DEF MutexTyped
  <1>6. ASSUME NEW t \in MutexThreads, MutexExpire(t) \/ MutexReadDetection(t)
        PROVE  MutexTyped'
    <2>1. UNCHANGED <<mutexTable, nextMutexId, mutexTracked>> /\ DOMAIN mutexSeen' = MutexThreads
      BY <1>6 DEF MutexExpire, MutexReadDetection, MutexTyped
    <2>2. PICK p \in {"expired", "report"} : MutexGoto(t, p, 0, 0)
      BY <1>6 DEF MutexExpire, MutexReadDetection
    <2>3. p \in MutexPcs /\ p # "register" /\ p \notin MutexPointing
      BY <1>0
    <2>4. QED BY <2>1, <2>2, <2>3, MutexGoes DEF MutexTyped
  <1>7. ASSUME NEW t \in MutexThreads, NEW d \in Settings, SetDetection(t, d)
        PROVE  MutexTyped'
    BY <1>7 DEF SetDetection, mutexCalls, MutexTyped
  <1>8. ASSUME NEW t \in MutexThreads, NEW i \in MutexIds, MutexDeleteFind(t, i)
        PROVE  MutexTyped'
    <2>1. PICK s \in MutexSlots :
            /\ MutexChanged(s, [mutexTable[s] EXCEPT !.valid = FALSE])
            /\ MutexGoto(t, "destroy", i, s)
            /\ UNCHANGED <<nextMutexId, mutexTracked, mutexSeen>>
      BY <1>8, MutexDeletes
    <2>2. "destroy" \in MutexPcs /\ "destroy" # "register"
      BY <1>0
    <2>3. QED BY <2>1, <2>2, MutexGoes DEF MutexTyped, MutexChanged
  <1>9. CASE UNCHANGED mutexVars
    BY <1>9 DEF mutexVars, mutexCalls, MutexTyped
  <1>10. QED
    BY <1>1, <1>2, <1>3, <1>4, <1>5, <1>6, <1>7, <1>8, <1>9 DEF MutexNext, MutexStep

\* The table and the locals of the calls keep their types.
THEOREM MutexTypeOKAlways == MutexSpec => []MutexTypeOK
  <1>1. MutexTyped => MutexTypeOK
    BY DEF MutexTyped, MutexTypeOK, MutexRecords, MutexPcs
  <1>2. QED BY MutexTypedInit, MutexTypedStep, <1>1, PTL DEF MutexSpec

-----------------------------------------------------------------------------
(* Mutexes: pointers, while callers delete only what nobody uses.          *)

\* A pointer leads to the mutex its call has looked up, which is valid unless
\* the call is the one that deletes it.
MutexAt(t) ==
  mutexPc[t] \in MutexPointing =>
    LET r == mutexTable[mutexSlot[t]] IN
    /\ r.used /\ r.id = mutexArg[t]
    /\ mutexPc[t] # "clear" => r.live
    /\ r.valid <=> mutexPc[t] \notin {"destroy", "clear"}

\* No two calls delete the mutex of one slot.
MutexOneDeletes ==
  \A t, u \in MutexThreads :
    /\ mutexPc[t] \in {"destroy", "clear"} /\ mutexPc[u] \in {"destroy", "clear"}
    /\ mutexSlot[t] = mutexSlot[u]
    => t = u

\* Only the mutex of a slot that is about to be given back is destroyed.
MutexLive ==
  \A s \in MutexSlots : mutexTable[s].used =>
    mutexTable[s].live \/ \E t \in MutexThreads : mutexPc[t] = "clear" /\ mutexSlot[t] = s

MutexInv == MutexTyped /\ (\A t \in MutexThreads : MutexAt(t)) /\ MutexOneDeletes /\ MutexLive

\* The thread t leaves its call, or goes where it has no pointer, and changes at
\* most the owner of a record.
LEMMA MutexLeaves ==
  ASSUME MutexInv, MutexTyped', NEW t \in MutexThreads, mutexPc[t] # "clear",
         mutexPc'[t] \notin MutexPointing,
         \A u \in MutexThreads \ {t} :
           mutexPc'[u] = mutexPc[u] /\ mutexSlot'[u] = mutexSlot[u] /\ mutexArg'[u] = mutexArg[u],
         \A s \in MutexSlots :
           /\ mutexTable'[s].used = mutexTable[s].used /\ mutexTable'[s].id = mutexTable[s].id
           /\ mutexTable'[s].live = mutexTable[s].live /\ mutexTable'[s].valid = mutexTable[s].valid
  PROVE  MutexInv'
  <1>1. \A u \in MutexThreads : MutexAt(u)'
    BY DEF MutexInv, MutexAt, MutexTyped
  <1>2. MutexOneDeletes' /\ MutexLive'
    BY DEF MutexInv, MutexOneDeletes, MutexLive, MutexTyped, MutexPointing, MutexUses
  <1>3. QED BY <1>1, <1>2 DEF MutexInv

\* A slot whose mutex can be looked up holds one that is initialised.
LEMMA MutexFoundLive ==
  ASSUME MutexInv, NEW s \in MutexSlots, mutexTable[s].used, mutexTable[s].valid
  PROVE  mutexTable[s].live
  BY DEF MutexInv, MutexLive, MutexAt, MutexPointing

LEMMA MutexInvStep ==
  ASSUME Quiet
  PROVE  MutexInv /\ [MutexNext]_mutexVars => MutexInv'
  <1> SUFFICES ASSUME MutexInv, [MutexNext]_mutexVars PROVE MutexInv'
    OBVIOUS
  <1>0. /\ MutexTyped /\ MutexTyped'
        /\ \A s \in MutexSlots : mutexTable[s] \in MutexRecords
        /\ {"idle", "register", "expired", "report", "callback", "unregister"} \cap MutexPointing = {}
        /\ {"idle", "register", "expired", "report", "callback", "unregister", "clear"} \subseteq MutexPcs
        /\ {"lock", "timed", "unlock", "destroy"} \subseteq MutexPcs \cap MutexPointing
        /\ "clear" \in MutexPointing
    BY MutexTypedStep DEF MutexInv, MutexTyped, MutexPcs, MutexPointing, MutexUses
  <1>1. ASSUME NEW t \in MutexThreads, NEW n \in MutexNames, MutexCreate(t, n)
        PROVE  MutexInv'
    <2>1. PICK s \in MutexSlots, r \in MutexRecords :
            ~mutexTable[s].used /\ r.used /\ r.live /\ MutexChanged(s, r)
      BY <1>0, <1>1, MutexCreates
    <2>2. /\ mutexPc[t] = "idle" /\ mutexPc'[t] = "register"
          /\ \A u \in MutexThreads \ {t} :
               mutexPc'[u] = mutexPc[u] /\ mutexSlot'[u] = mutexSlot[u] /\ mutexArg'[u] = mutexArg[u]
      BY <1>1 DEF MutexCreate, MutexGoto, MutexInv, MutexTyped
    <2>3. \A u \in MutexThreads : MutexAt(u)'
      BY <1>0, <2>1, <2>2 DEF MutexInv, MutexAt, MutexChanged, MutexTyped
    <2>4. MutexOneDeletes'
      BY <2>2 DEF MutexInv, MutexOneDeletes
    <2>5. MutexLive'
      BY <2>1, <2>2 DEF MutexInv, MutexLive, MutexChanged
    <2>6. QED BY <1>0, <2>3, <2>4, <2>5 DEF MutexInv
  <1>2. ASSUME NEW t \in MutexThreads, MutexRegister(t) \/ MutexUnregister(t)
        PROVE  MutexInv'
    BY <1>0, <1>2, MutexLeaves
    DEF MutexRegister, MutexUnregister, MutexReturn, MutexGoto, MutexInv, MutexTyped
  <1>3. ASSUME NEW t \in MutexThreads, NEW i \in MutexIds, NEW p \in {"lock", "timed", "unlock"},
               MutexLookUp(t, i, p)
        PROVE  MutexInv'
    <2>1. PICK s \in MutexSlots :
            /\ mutexTable[s].used /\ mutexTable[s].id = i /\ mutexTable[s].valid
            /\ MutexGoto(t, p, i, s)
      BY <1>3 DEF MutexLookUp, MutexFound
    <2>2. mutexTable' = mutexTable /\ mutexPc[t] = "idle" /\ mutexTable[s].live
      BY <1>3, <2>1, MutexFoundLive DEF MutexLookUp
    <2>3. /\ mutexPc'[t] = p /\ mutexSlot'[t] = s /\ mutexArg'[t] = i
          /\ \A u \in MutexThreads \ {t} :
               mutexPc'[u] = mutexPc[u] /\ mutexSlot'[u] = mutexSlot[u] /\ mutexArg'[u] = mutexArg[u]
      BY <2>1 DEF MutexGoto, MutexInv, MutexTyped
    <2>4. \A u \in MutexThreads : MutexAt(u)'
      BY <2>1, <2>2, <2>3 DEF MutexInv, MutexAt
    <2>5. MutexOneDeletes' /\ MutexLive'
      BY <2>2, <2>3 DEF MutexInv, MutexOneDeletes, MutexLive
    <2>6. QED BY <1>0, <2>4, <2>5 DEF MutexInv
  <1>4. ASSUME NEW t \in MutexThreads, MutexAcquire(t) \/ MutexRelease(t)
        PROVE  MutexInv'
    <2>1. PICK o \in MutexThreads \cup {Nobody} :
            /\ mutexSlot[t] \in MutexSlots
            /\ MutexChanged(mutexSlot[t], [mutexTable[mutexSlot[t]] EXCEPT !.owner = o])
      BY <1>0, <1>4, MutexChanges
    <2>2. LET r == mutexTable[mutexSlot[t]]
              q == [mutexTable[mutexSlot[t]] EXCEPT !.owner = o]
          IN  q.used = r.used /\ q.id = r.id /\ q.live = r.live /\ q.valid = r.valid
      BY <1>0, <2>1, MutexFields
    <2>3. \A s \in MutexSlots :
            /\ mutexTable'[s].used = mutexTable[s].used /\ mutexTable'[s].id = mutexTable[s].id
            /\ mutexTable'[s].live = mutexTable[s].live /\ mutexTable'[s].valid = mutexTable[s].valid
      BY <2>1, <2>2 DEF MutexChanged
    <2>4. /\ mutexPc[t] # "clear" /\ mutexPc'[t] = "idle"
          /\ \A u \in MutexThreads \ {t} :
               mutexPc'[u] = mutexPc[u] /\ mutexSlot'[u] = mutexSlot[u] /\ mutexArg'[u] = mutexArg[u]
      BY <1>4 DEF MutexAcquire, MutexRelease, MutexReturn, MutexGoto, MutexInv, MutexTyped
    <2>5. QED BY <1>0, <2>3, <2>4, MutexLeaves
  <1>5. ASSUME NEW t \in MutexThreads, NEW w \in Waits,
               MutexCallback(t, w) \/ MutexTimedOut(t, w)
        PROVE  MutexInv'
    <2>1. /\ mutexTable' = mutexTable /\ mutexPc[t] # "clear"
          /\ mutexPc'[t] \in {"idle", "callback"}
          /\ \A u \in MutexThreads \ {t} :
               mutexPc'[u] = mutexPc[u] /\ mutexSlot'[u] = mutexSlot[u] /\ mutexArg'[u] = mutexArg[u]
      BY <1>5
      DEF MutexCallback, MutexTimedOut, MutexReturn, MutexGoto,
          MutexInv, MutexTyped
    <2>2. QED BY <1>0, <2>1, MutexLeaves
  <1>6. ASSUME NEW t \in MutexThreads, MutexExpire(t) \/ MutexReadDetection(t)
        PROVE  MutexInv'
    <2>1. /\ mutexTable' = mutexTable /\ mutexPc[t] # "clear"
          /\ mutexPc'[t] \in {"expired", "report"}
          /\ \A u \in MutexThreads \ {t} :
               mutexPc'[u] = mutexPc[u] /\ mutexSlot'[u] = mutexSlot[u] /\ mutexArg'[u] = mutexArg[u]
      BY <1>6 DEF MutexExpire, MutexReadDetection, MutexGoto, MutexInv, MutexTyped
    <2>2. QED BY <1>0, <2>1, MutexLeaves
  <1>7. ASSUME NEW t \in MutexThreads, NEW i \in MutexIds, MutexDeleteFind(t, i)
        PROVE  MutexInv'
    <2>1. PICK s \in MutexSlots :
            /\ mutexTable[s].used /\ mutexTable[s].id = i
            /\ MutexChanged(s, [mutexTable[s] EXCEPT !.valid = FALSE])
            /\ MutexGoto(t, "destroy", i, s)
      BY <1>0, <1>7, MutexDeletes
    <2>2. \A u \in MutexThreads : mutexPc[u] \in MutexPointing => mutexArg[u] # i
      BY <1>7 DEF MutexDeleteFind, MutexUnused, MutexPointing
    <2>3. \A u \in MutexThreads : mutexPc[u] \in MutexPointing => mutexSlot[u] # s
      BY <2>1, <2>2 DEF MutexInv, MutexAt
    <2>4. mutexTable[s].live
      BY <1>0, <2>1, <2>3 DEF MutexInv, MutexLive
    <2>5. /\ mutexPc'[t] = "destroy" /\ mutexSlot'[t] = s /\ mutexArg'[t] = i
          /\ mutexPc[t] = "idle"
          /\ \A u \in MutexThreads \ {t} :
               mutexPc'[u] = mutexPc[u] /\ mutexSlot'[u] = mutexSlot[u] /\ mutexArg'[u] = mutexArg[u]
      BY <1>7, <2>1 DEF MutexDeleteFind, MutexGoto, MutexInv, MutexTyped
    <2>6. LET q == mutexTable'[s] IN q.used /\ q.id = i /\ q.live /\ ~q.valid
      BY <1>0, <2>1, <2>4, MutexFields DEF MutexChanged
    <2>7. \A u \in MutexThreads : MutexAt(u)'
      <3>1. MutexAt(t)'
        BY <2>5, <2>6 DEF MutexAt
      <3>2. ASSUME NEW u \in MutexThreads \ {t}, mutexPc[u] \in MutexPointing
            PROVE  MutexAt(u)'
        <4>1. mutexTable'[mutexSlot[u]] = mutexTable[mutexSlot[u]]
          BY <1>0, <2>1, <2>3, <3>2 DEF MutexChanged, MutexTyped
        <4>2. QED BY <2>5, <3>2, <4>1 DEF MutexInv, MutexAt
      <3>3. QED BY <2>5, <3>1, <3>2 DEF MutexAt
    <2>8. MutexOneDeletes'
      <3>1. \A u \in MutexThreads : mutexPc[u] \in {"destroy", "clear"} => mutexSlot[u] # s
        BY <2>3 DEF MutexPointing, MutexUses
      <3>2. ASSUME NEW u \in MutexThreads, NEW v \in MutexThreads,
                   mutexPc'[u] \in {"destroy", "clear"}, mutexPc'[v] \in {"destroy", "clear"},
                   mutexSlot'[u] = mutexSlot'[v]
            PROVE  u = v
        <4>1. CASE u = t \/ v = t
          BY <2>5, <3>1, <3>2, <4>1
        <4>2. CASE u # t /\ v # t
          BY <2>5, <3>2, <4>2 DEF MutexInv, MutexOneDeletes
        <4>3. QED BY <4>1, <4>2
      <3>3. QED BY <3>2 DEF MutexOneDeletes
    <2>9. MutexLive'
      <3>1. ASSUME NEW q \in MutexSlots, mutexTable'[q].used, ~mutexTable'[q].live
            PROVE  \E u \in MutexThreads : mutexPc'[u] = "clear" /\ mutexSlot'[u] = q
        <4>1. q # s
          BY <2>6, <3>1
        <4>2. mutexTable'[q] = mutexTable[q]
          BY <2>1, <4>1 DEF MutexChanged
        <4>3. PICK u \in MutexThreads : mutexPc[u] = "clear" /\ mutexSlot[u] = q
          BY <3>1, <4>2 DEF MutexInv, MutexLive
        <4>4. u # t
          BY <2>5, <4>3
        <4>5. QED BY <2>5, <4>3, <4>4
      <3>2. QED BY <3>1 DEF MutexLive
    <2>10. QED BY <1>0, <2>7, <2>8, <2>9 DEF MutexInv
  <1>8. ASSUME NEW t \in MutexThreads, MutexDestroy(t) \/ MutexClear(t)
        PROVE  MutexInv'
    <2> DEFINE s == mutexSlot[t]
               r == mutexTable[s]
    <2>1. /\ s \in MutexSlots
          /\ \/ /\ MutexDestroy(t)
                /\ \E b \in BOOLEAN : MutexChanged(s, [r EXCEPT !.live = b])
             \/ MutexClear(t) /\ MutexChanged(s, [r EXCEPT !.used = FALSE])
      BY <1>0, <1>8, MutexChanges
    <2>2. /\ mutexPc[t] \in {"destroy", "clear"}
          /\ mutexPc'[t] \in {"clear", "unregister"}
          /\ MutexDestroy(t) => mutexPc'[t] = "clear" /\ mutexSlot'[t] = s /\ mutexArg'[t] = mutexArg[t]
          /\ \A u \in MutexThreads \ {t} :
               mutexPc'[u] = mutexPc[u] /\ mutexSlot'[u] = mutexSlot[u] /\ mutexArg'[u] = mutexArg[u]
          /\ MutexClear(t) => mutexPc'[t] = "unregister" /\ mutexPc[t] = "clear"
      BY <1>8 DEF MutexDestroy, MutexClear, MutexGoto, MutexInv, MutexTyped
    <2>3. \A u \in MutexThreads \ {t} : mutexPc[u] \in MutexPointing => mutexSlot[u] # s
      BY <1>0, <2>2 DEF MutexInv, MutexAt, MutexOneDeletes
    <2>4. /\ \A q \in MutexSlots \ {s} : mutexTable'[q] = mutexTable[q]
          /\ MutexDestroy(t) => /\ mutexTable'[s].used = r.used /\ mutexTable'[s].id = r.id
                                /\ mutexTable'[s].valid = r.valid
          /\ MutexClear(t) => ~mutexTable'[s].used
      <3>1. r \in MutexRecords
        BY <1>0, <2>1
      <3>2. CASE MutexDestroy(t)
        <4>1. PICK b \in BOOLEAN : MutexChanged(s, [r EXCEPT !.live = b])
          BY <2>1, <3>2 DEF MutexDestroy, MutexClear
        <4>2. LET q == [r EXCEPT !.live = b] IN q.used = r.used /\ q.id = r.id /\ q.valid = r.valid
          BY <3>1, MutexFields
        <4>3. QED BY <3>2, <4>1, <4>2 DEF MutexChanged, MutexDestroy, MutexClear
      <3>3. CASE MutexClear(t)
        <4>1. MutexChanged(s, [r EXCEPT !.used = FALSE])
          BY <2>1, <3>3 DEF MutexDestroy, MutexClear
        <4>2. ~[r EXCEPT !.used = FALSE].used
          BY <3>1, MutexFields
        <4>3. QED BY <3>3, <4>1, <4>2 DEF MutexChanged, MutexDestroy, MutexClear
      <3>4. QED BY <1>8, <3>2, <3>3
    <2> HIDE DEF s, r
    <2>5. \A u \in MutexThreads \ {t} : MutexAt(u)'
      BY <1>0, <2>2, <2>3, <2>4 DEF MutexInv, MutexAt, MutexTyped
    <2>6. MutexAt(t)'
      BY <1>0, <1>8, <2>1, <2>2, <2>4 DEF MutexInv, MutexAt, s, r
    <2>7. MutexOneDeletes'
      BY <1>0, <1>8, <2>2, <2>3 DEF MutexInv, MutexOneDeletes, s
    <2>8. MutexLive'
      <3>1. ASSUME NEW q \in MutexSlots \ {s}, mutexTable'[q].used, ~mutexTable'[q].live
            PROVE  \E u \in MutexThreads : mutexPc'[u] = "clear" /\ mutexSlot'[u] = q
        <4>1. PICK u \in MutexThreads : mutexPc[u] = "clear" /\ mutexSlot[u] = q
          BY <2>4, <3>1 DEF MutexInv, MutexLive
        <4>2. u # t
          BY <3>1, <4>1 DEF s
        <4>3. QED BY <2>2, <4>1, <4>2
      <3>2. mutexTable'[s].used => mutexPc'[t] = "clear" /\ mutexSlot'[t] = s
        BY <1>8, <2>2, <2>4
      <3>3. QED BY <3>1, <3>2 DEF MutexLive
    <2>9. QED BY <1>0, <2>5, <2>6, <2>7, <2>8 DEF MutexInv
  <1>9. CASE UNCHANGED mutexVars \/ \E t \in MutexThreads, d \in Settings : SetDetection(t, d)
    <2>1. UNCHANGED <<mutexTable, mutexPc, mutexArg, mutexSlot>>
      BY <1>9 DEF mutexVars, mutexCalls, SetDetection
    <2>2. QED BY <1>0, <2>1 DEF MutexInv, MutexAt, MutexOneDeletes, MutexLive
  <1>10. QED
    BY <1>1, <1>2, <1>3, <1>4, <1>5, <1>6, <1>7, <1>8, <1>9 DEF MutexNext, MutexStep

\* A pointer that a call took under the lock of the table leads to the mutex it
\* looked up, initialised, though others delete and create meanwhile, if nobody
\* deletes a mutex that is in use.
THEOREM MutexPointersAlways ==
  ASSUME Quiet
  PROVE  MutexSpec => []MutexPointers
  <1>1. MutexInit => MutexInv
    BY MutexTypedInit
    DEF MutexInit, MutexInv, MutexAt, MutexOneDeletes, MutexLive, MutexPointing, MutexUses
  <1>2. MutexInv /\ [MutexNext]_mutexVars => MutexInv'
    BY MutexInvStep
  <1>3. MutexInv => MutexPointers
    BY DEF MutexInv, MutexAt, MutexPointers, MutexPointing, MutexUses
  <1>4. QED BY <1>1, <1>2, <1>3, PTL DEF MutexSpec

-----------------------------------------------------------------------------
(* Mutexes: the report of a possible deadlock.                             *)

\* What a call has read is a setting as a whole, and a callback that is called
\* was due.
MutexSeenWhole ==
  /\ detection \in Settings \cup {NoSetting}
  /\ \A t \in MutexThreads :
       /\ mutexPc[t] \in {"report", "callback"} => mutexSeen[t] \in Settings \cup {NoSetting}
       /\ mutexPc[t] = "callback" => /\ mutexArg[t] >= mutexSeen[t].threshold
                                     /\ mutexSeen[t].callback # Nobody

LEMMA MutexSeenStep == MutexTyped /\ MutexSeenWhole /\ [MutexNext]_mutexVars => MutexSeenWhole'
  <1> SUFFICES ASSUME MutexTyped, MutexSeenWhole, [MutexNext]_mutexVars PROVE MutexSeenWhole'
    OBVIOUS
  <1>1. ASSUME NEW t \in MutexThreads, NEW p, p \notin {"report", "callback"},
               \E i, s : MutexGoto(t, p, i, s),
               detection' = detection, \A u \in MutexThreads \ {t} : mutexSeen'[u] = mutexSeen[u]
        PROVE  MutexSeenWhole'
    BY <1>1 DEF MutexGoto, MutexSeenWhole, MutexTyped
  <1>2. ASSUME NEW t \in MutexThreads,
               \/ \E n \in MutexNames : MutexCreate(t, n)
               \/ MutexRegister(t) \/ MutexAcquire(t) \/ MutexRelease(t) \/ MutexExpire(t)
               \/ MutexDestroy(t) \/ MutexClear(t) \/ MutexUnregister(t)
        PROVE  MutexSeenWhole'
    BY <1>1, <1>2
    DEF MutexCreate, MutexRegister, MutexAcquire, MutexRelease, MutexExpire, MutexDestroy,
        MutexClear, MutexUnregister, MutexReturn
  <1>3. ASSUME NEW t \in MutexThreads, NEW i \in MutexIds,
               \/ \E p \in {"lock", "timed", "unlock"} : MutexLookUp(t, i, p)
               \/ MutexDeleteFind(t, i)
        PROVE  MutexSeenWhole'
    <2>1. PICK p : p \in {"lock", "timed", "unlock", "destroy"} /\ \E s : MutexGoto(t, p, i, s)
      BY <1>3 DEF MutexLookUp, MutexDeleteFind
    <2>2. UNCHANGED <<detection, mutexSeen>>
      BY <1>3 DEF MutexLookUp, MutexDeleteFind
    <2>3. QED BY <1>1, <2>1, <2>2
  <1>4. ASSUME NEW t \in MutexThreads, MutexReadDetection(t)
        PROVE  MutexSeenWhole'
    BY <1>4 DEF MutexReadDetection, MutexGoto, MutexSeenWhole, MutexTyped
  <1>5. ASSUME NEW t \in MutexThreads, NEW w \in Waits, MutexCallback(t, w)
        PROVE  MutexSeenWhole'
    BY <1>5 DEF MutexCallback, MutexReports, MutexGoto, MutexSeenWhole, MutexTyped
  <1>6. ASSUME NEW t \in MutexThreads, NEW w \in Waits, MutexTimedOut(t, w)
        PROVE  MutexSeenWhole'
    BY <1>1, <1>6 DEF MutexTimedOut, MutexReturn, MutexTyped
  <1>7. ASSUME NEW t \in MutexThreads, NEW d \in Settings, SetDetection(t, d)
        PROVE  MutexSeenWhole'
    BY <1>7 DEF SetDetection, mutexCalls, MutexSeenWhole
  <1>8. CASE UNCHANGED mutexVars
    BY <1>8 DEF mutexVars, mutexCalls, MutexSeenWhole
  <1>9. QED
    BY <1>2, <1>3, <1>4, <1>5, <1>6, <1>7, <1>8 DEF MutexNext, MutexStep

\* A callback that a timed lock calls and the threshold it compared come from
\* one setting, whoever sets another meanwhile.
THEOREM MutexReportAlways == MutexSpec => []MutexReport
  <1>1. MutexInit => MutexSeenWhole
    BY DEF MutexInit, MutexSeenWhole
  <1>2. MutexSeenWhole => MutexReport
    <2>1. NoSetting.callback = Nobody
      BY DEF NoSetting
    <2>2. QED BY <2>1 DEF MutexSeenWhole, MutexReport
  <1>3. QED BY MutexTypedInit, MutexTypedStep, <1>1, MutexSeenStep, <1>2, PTL DEF MutexSpec

-----------------------------------------------------------------------------
(* The log: the order of the backups.                                      *)

\* The files under the names, the path itself included.
LogNaming == [LogSuffixes -> Nat]

\* Of two files that with the lower suffix is the newer.
LogOrdered(names) ==
  \A i, j \in LogSuffixes : i < j /\ names[i] # 0 /\ names[j] # 0 => names[i] > names[j]

\* Every file under a name has been made.
LogKnown(names) == \A k \in LogSuffixes : names[k] <= logMade

\* The backups that r rotations leave while nothing fails.
LogKept(names, r) ==
  \A i \in LogBackups :
    names[i] = IF i <= LogDepth(maxLogFiles) /\ i <= r THEN r + 1 - i ELSE 0

\* Besides, every file made was rotated but the one under the path, and there is
\* one while the log is open.
LogInv ==
  /\ logNames \in LogNaming /\ logMade \in Nat /\ logRotated \in Nat
  /\ maxLogFiles \in LogCounts
  /\ LogOrdered(logNames) /\ LogKnown(logNames)
  /\ logOpen => logNames[0] # 0
  /\ logSteady => /\ LogKept(logNames, logRotated)
                  /\ logMade = logRotated + (IF logNames[0] = 0 THEN 0 ELSE 1)
                  /\ logNames[0] \in {0, logMade}

\* The path, the first backup and the number of files are among the suffixes.
LEMMA LogSuffixFacts ==
  /\ LogSuffixes \subseteq Nat /\ 0 \in LogSuffixes /\ 1 \in LogSuffixes
  /\ LogCounts \subseteq LogSuffixes /\ LogCounts \subseteq Nat \ {0}
  /\ \A k \in LogSuffixes : 1 <= k => k - 1 \in LogSuffixes
  <1> DEFINE m == CHOOSE m \in LogCounts : \A n \in LogCounts : n <= m
  <1>1. m \in LogCounts /\ \A n \in LogCounts : n <= m
    BY LogAssumption
  <1>2. LogCounts \subseteq Nat \ {0}
    BY LogAssumption
  <1>3. LogSuffixes = 0..m
    BY DEF LogSuffixes
  <1> HIDE DEF m
  <1>4. QED BY <1>1, <1>2, <1>3

\* The oldest is removed.
LEMMA LogRemovedKeeps ==
  ASSUME NEW names \in LogNaming, LogOrdered(names), LogKnown(names), logMade \in Nat,
         NEW failed, maxLogFiles \in LogCounts
  PROVE  LET new == LogRemoved(names, failed) IN
         /\ new \in LogNaming /\ LogOrdered(new) /\ LogKnown(new) /\ new[0] = names[0]
         /\ failed = {} => new = [names EXCEPT ![maxLogFiles] = 0]
  <1>1. LogRemoved(names, failed) \in {names, [names EXCEPT ![maxLogFiles] = 0]}
    BY DEF LogRemoved
  <1>2. maxLogFiles \in LogSuffixes /\ maxLogFiles # 0
    BY LogSuffixFacts
  <1>3. LET new == [names EXCEPT ![maxLogFiles] = 0] IN
        new \in LogNaming /\ LogOrdered(new) /\ LogKnown(new) /\ new[0] = names[0]
    BY <1>2, LogSuffixFacts DEF LogNaming, LogOrdered, LogKnown
  <1>4. QED BY <1>1, <1>3 DEF LogRemoved

\* What a rename leaves under a name comes from it or from the one below it.
LEMMA LogShiftedFrom ==
  ASSUME NEW names \in LogNaming, NEW failed, maxLogFiles \in LogCounts, NEW k \in LogSuffixes
  PROVE  LET new == LogShifted(names, failed)
             moves(q) == q \in 1..(maxLogFiles - 2) /\ names[q] # 0 /\ q \notin failed
         IN  /\ k > 1 /\ moves(k - 1) => new[k] = names[k - 1]
             /\ ~(k > 1 /\ moves(k - 1)) /\ moves(k) => new[k] = 0
             /\ ~(k > 1 /\ moves(k - 1)) /\ ~moves(k) => new[k] = names[k]
  BY DEF LogShifted

LEMMA LogShiftedKeeps ==
  ASSUME NEW names \in LogNaming, LogOrdered(names), LogKnown(names), logMade \in Nat,
         NEW failed, maxLogFiles \in LogCounts
  PROVE  LET new == LogShifted(names, failed) IN
         new \in LogNaming /\ LogOrdered(new) /\ LogKnown(new) /\ new[0] = names[0]
  <1> DEFINE new == LogShifted(names, failed)
             moves(q) == q \in 1..(maxLogFiles - 2) /\ names[q] # 0 /\ q \notin failed
  <1>1. \A k \in LogSuffixes : k \in Nat /\ (1 <= k => k - 1 \in LogSuffixes)
    BY LogSuffixFacts
  <1>2. \A k \in LogSuffixes :
          /\ k > 1 /\ moves(k - 1) => new[k] = names[k - 1]
          /\ ~(k > 1 /\ moves(k - 1)) /\ moves(k) => new[k] = 0
          /\ ~(k > 1 /\ moves(k - 1)) /\ ~moves(k) => new[k] = names[k]
    BY LogShiftedFrom
  <1>3. new \in LogNaming /\ LogKnown(new)
    <2>1. \A k \in LogSuffixes : new[k] \in Nat /\ new[k] <= logMade
      <3> SUFFICES ASSUME NEW k \in LogSuffixes PROVE new[k] \in Nat /\ new[k] <= logMade
        OBVIOUS
      <3>1. new[k] \in {names[k], 0} \/ (k - 1 \in LogSuffixes /\ new[k] = names[k - 1])
        <4>1. k > 1 => k - 1 \in LogSuffixes
          BY <1>1
        <4> HIDE DEF new, moves
        <4>2. QED BY <1>2, <4>1
      <3> HIDE DEF new
      <3>2. QED BY <3>1 DEF LogNaming, LogKnown
    <2>2. new = [k \in LogSuffixes |-> new[k]]
      BY DEF LogShifted
    <2> HIDE DEF new
    <2>3. QED BY <2>1, <2>2 DEF LogNaming, LogKnown
  <1>4. new[0] = names[0]
    BY <1>2, LogSuffixFacts
  <1>5. LogOrdered(new)
    <2> SUFFICES ASSUME NEW i \in LogSuffixes, NEW j \in LogSuffixes, i < j, new[i] # 0, new[j] # 0
                 PROVE  new[i] > new[j]
      BY DEF LogOrdered
    <2> DEFINE a == IF i > 1 /\ moves(i - 1) THEN i - 1 ELSE i
               b == IF j > 1 /\ moves(j - 1) THEN j - 1 ELSE j
    <2> HIDE DEF new, moves
    <2>1. a \in LogSuffixes /\ b \in LogSuffixes /\ new[i] = names[a] /\ new[j] = names[b]
      BY <1>1, <1>2
    <2>2. a < b
      <3>1. CASE b = i
        <4>1. j = i + 1 /\ moves(i)
          BY <1>1, <3>1
        <4>2. i > 1 /\ moves(i - 1)
          BY <1>2, <4>1
        <4>3. QED BY <1>1, <3>1, <4>2
      <3>2. CASE b # i
        BY <1>1, <3>2
      <3>3. QED BY <3>1, <3>2
    <2> HIDE DEF a, b
    <2>3. QED BY <2>1, <2>2 DEF LogOrdered
  <1>6. QED BY <1>3, <1>4, <1>5

\* The file under the path becomes the first backup.
LEMMA LogRetiredKeeps ==
  ASSUME NEW names \in LogNaming, LogOrdered(names), LogKnown(names), logMade \in Nat, NEW failed
  PROVE  LET new == LogRetired(names, failed) IN
         /\ new \in LogNaming /\ LogOrdered(new) /\ LogKnown(new)
         /\ new[0] \in {0, names[0]}
         /\ failed = {} /\ names[0] # 0 =>
              /\ new[0] = 0 /\ new[1] = names[0]
              /\ \A k \in LogSuffixes : k > 1 => new[k] = names[k]
  <1> DEFINE new == [[names EXCEPT ![1] = names[0]] EXCEPT ![0] = 0]
  <1>1. LogRetired(names, failed) = names \/ (LogRetired(names, failed) = new /\ names[0] # 0)
    BY DEF LogRetired
  <1>2. failed = {} /\ names[0] # 0 => LogRetired(names, failed) = new
    BY DEF LogRetired
  <1>3. /\ new \in LogNaming /\ new[0] = 0 /\ new[1] = names[0]
        /\ \A k \in LogSuffixes : k > 1 => new[k] = names[k]
    BY LogSuffixFacts DEF LogNaming
  <1>4. LogKnown(new)
    BY LogSuffixFacts DEF LogNaming, LogKnown
  <1> HIDE DEF new
  <1>5. names[0] # 0 => LogOrdered(new)
    <2> SUFFICES ASSUME NEW i \in LogSuffixes, NEW j \in LogSuffixes, i < j, new[i] # 0, new[j] # 0
                 PROVE  new[i] > new[j]
      BY DEF LogOrdered
    <2>1. i >= 1 /\ j > 1
      BY <1>3, LogSuffixFacts
    <2>2. CASE i = 1
      <3>1. new[i] = names[0] /\ new[j] = names[j]
        BY <1>3, <2>1, <2>2
      <3>2. QED BY <2>1, <3>1, LogSuffixFacts DEF LogOrdered
    <2>3. CASE i # 1
      <3>1. new[i] = names[i] /\ new[j] = names[j]
        BY <1>3, <2>1, <2>3, LogSuffixFacts
      <3>2. QED BY <3>1 DEF LogOrdered
    <2>4. QED BY <2>2, <2>3
  <1>6. QED BY <1>1, <1>2, <1>3, <1>4, <1>5

\* fopen of the path.
LEMMA LogFopenKeeps ==
  ASSUME NEW names \in LogNaming, LogOrdered(names), LogKnown(names), logMade \in Nat,
         LogFopen(names)
  PROVE  /\ logNames' \in LogNaming /\ LogOrdered(logNames') /\ LogKnown(logNames)'
         /\ logMade' \in Nat /\ logNames'[0] # 0
         /\ names[0] = 0 => logMade' = logMade + 1 /\ logNames'[0] = logMade'
         /\ names[0] # 0 => logMade' = logMade /\ logNames'[0] = names[0]
         /\ \A k \in LogBackups : logNames'[k] = names[k]
  <1>1. CASE names[0] = 0
    <2>1. logNames' = [names EXCEPT ![0] = logMade + 1] /\ logMade' = logMade + 1
      BY <1>1 DEF LogFopen
    <2>2. logNames' \in LogNaming /\ logNames'[0] = logMade + 1
      BY <2>1, LogSuffixFacts DEF LogNaming
    <2>3. \A k \in LogSuffixes : k # 0 => logNames'[k] = names[k]
      BY <2>1 DEF LogNaming
    <2>4. \A k \in LogSuffixes : names[k] \in Nat /\ names[k] <= logMade
      BY DEF LogNaming, LogKnown
    <2>5. LogKnown(logNames)'
      BY <2>1, <2>2, <2>3, <2>4 DEF LogKnown
    <2>6. LogOrdered(logNames')
      BY <2>2, <2>3, <2>4, LogSuffixFacts DEF LogOrdered
    <2>7. QED BY <1>1, <2>1, <2>2, <2>3, <2>5, <2>6 DEF LogBackups
  <1>2. CASE names[0] # 0
    BY <1>2 DEF LogFopen, LogKnown
  <1>3. QED BY <1>1, <1>2

\* The names a rotation leaves before fopen, and with no failure what they hold.
LEMMA LogRotatedKeeps ==
  ASSUME LogInv, NEW failed
  PROVE  LET new == LogRetired(LogShifted(LogRemoved(logNames, failed), failed), failed) IN
         /\ new \in LogNaming /\ LogOrdered(new) /\ LogKnown(new) /\ new[0] \in {0, logNames[0]}
         /\ failed = {} /\ logNames[0] # 0 =>
              /\ new[0] = 0
              /\ logSteady => LogKept(new, logRotated + 1)
  <1> DEFINE removed == LogRemoved(logNames, failed)
             shifted == LogShifted(removed, failed)
             new == LogRetired(shifted, failed)
  <1>1. /\ removed \in LogNaming /\ LogOrdered(removed) /\ LogKnown(removed)
        /\ removed[0] = logNames[0]
        /\ failed = {} => removed = [logNames EXCEPT ![maxLogFiles] = 0]
    BY LogRemovedKeeps DEF LogInv
  <1>2. shifted \in LogNaming /\ LogOrdered(shifted) /\ LogKnown(shifted) /\ shifted[0] = removed[0]
    <2> HIDE DEF removed
    <2>1. QED BY <1>1, LogShiftedKeeps DEF LogInv
  <1>3. /\ new \in LogNaming /\ LogOrdered(new) /\ LogKnown(new) /\ new[0] \in {0, shifted[0]}
        /\ failed = {} /\ shifted[0] # 0 =>
             /\ new[0] = 0 /\ new[1] = shifted[0]
             /\ \A k \in LogSuffixes : k > 1 => new[k] = shifted[k]
    <2> HIDE DEF shifted
    <2>1. QED BY <1>2, LogRetiredKeeps DEF LogInv
  <1>4. ASSUME failed = {}, logNames[0] # 0, logSteady
        PROVE  LogKept(new, logRotated + 1)
    <2> DEFINE m == maxLogFiles
               r == logRotated
               moves(q) == q \in 1..(m - 2) /\ removed[q] # 0
    <2>1. \A k \in LogSuffixes :
            /\ k > 1 /\ moves(k - 1) => shifted[k] = removed[k - 1]
            /\ ~(k > 1 /\ moves(k - 1)) /\ moves(k) => shifted[k] = 0
            /\ ~(k > 1 /\ moves(k - 1)) /\ ~moves(k) => shifted[k] = removed[k]
      <3> HIDE DEF removed
      <3>1. QED BY <1>1, <1>4, LogShiftedFrom DEF LogInv
    <2>2. \A k \in LogBackups :
            removed[k] = IF k # m /\ k <= LogDepth(m) /\ k <= r THEN r + 1 - k ELSE 0
      <3>1. \A k \in LogBackups : removed[k] = IF k = m THEN 0 ELSE logNames[k]
        BY <1>1, <1>4 DEF LogInv, LogNaming, LogBackups
      <3>2. \A k \in LogBackups :
              logNames[k] = IF k <= LogDepth(m) /\ k <= r THEN r + 1 - k ELSE 0
        BY <1>4 DEF LogInv, LogKept
      <3> HIDE DEF removed
      <3>3. QED BY <3>1, <3>2
    <2>3. r \in Nat /\ m \in Nat \ {0} /\ LogDepth(m) = IF m = 1 THEN 1 ELSE m - 1
      BY LogSuffixFacts DEF LogInv, LogDepth
    <2>4. shifted[0] = r + 1
      BY <1>1, <1>2, <1>4 DEF LogInv
    <2>5. new[1] = r + 1 /\ \A k \in LogSuffixes : k > 1 => new[k] = shifted[k]
      BY <1>3, <1>4, <2>3, <2>4
    <2> SUFFICES ASSUME NEW i \in LogBackups
                 PROVE  new[i] = IF i <= LogDepth(m) /\ i <= r + 1 THEN r + 1 + 1 - i ELSE 0
      BY DEF LogKept
    <2>6. /\ i \in Nat \ {0} /\ i \in LogSuffixes
          /\ i > 1 => i - 1 \in LogBackups
      BY LogSuffixFacts DEF LogBackups
    <2> HIDE DEF new, shifted, removed, m, r
    <2>7. CASE i = 1
      BY <2>3, <2>5, <2>7
    <2>8. CASE i > 1
      <3>1. new[i] = shifted[i]
        BY <2>5, <2>6, <2>8
      <3>2. /\ removed[i] = IF i # m /\ i <= LogDepth(m) /\ i <= r THEN r + 1 - i ELSE 0
            /\ removed[i - 1] = IF i - 1 # m /\ i - 1 <= LogDepth(m) /\ i - 1 <= r
                               THEN r + 1 - (i - 1) ELSE 0
        BY <2>2, <2>6, <2>8
      <3>3. moves(i - 1) => shifted[i] = removed[i - 1]
        BY <2>1, <2>6, <2>8
      <3>4. ~moves(i - 1) => shifted[i] \in {0, removed[i]}
        BY <2>1, <2>6, <2>8
      <3>5. CASE moves(i - 1)
        BY <2>3, <2>6, <2>8, <3>1, <3>2, <3>3, <3>5
      <3>6. CASE ~moves(i - 1)
        BY <2>3, <2>6, <2>8, <3>1, <3>2, <3>4, <3>6
      <3>7. QED BY <3>5, <3>6
    <2>9. QED BY <2>6, <2>7, <2>8
  <1>5. QED
    <2> HIDE DEF new, shifted, removed
    <2>1. new[0] \in {0, logNames[0]} /\ (failed = {} /\ logNames[0] # 0 => new[0] = 0)
      BY <1>1, <1>2, <1>3
    <2>2. /\ new \in LogNaming /\ LogOrdered(new) /\ LogKnown(new) /\ new[0] \in {0, logNames[0]}
          /\ failed = {} /\ logNames[0] # 0 =>
              /\ new[0] = 0
              /\ logSteady => LogKept(new, logRotated + 1)
      BY <1>3, <1>4, <2>1
    <2> USE DEF new, shifted, removed
    <2>3. QED BY <2>2

\* A rotation, the history of the backups included.
LEMMA LogRotates ==
  ASSUME LogInv, NEW failed, NEW opened \in BOOLEAN, logOpen, Rotate(failed, opened),
         maxLogFiles' = maxLogFiles
  PROVE  LogInv'
  <1> DEFINE new == LogRetired(LogShifted(LogRemoved(logNames, failed), failed), failed)
  <1>1. /\ logOpen' = opened
        /\ logRotated' = IF new[0] = 0 THEN logNames[0] ELSE logRotated
        /\ logSteady' = (logSteady /\ failed = {})
        /\ IF opened THEN LogFopen(new) ELSE logNames' = new /\ UNCHANGED logMade
    BY DEF Rotate
  <1>2. /\ new \in LogNaming /\ LogOrdered(new) /\ LogKnown(new)
        /\ failed = {} /\ logNames[0] # 0 =>
             new[0] = 0 /\ (logSteady => LogKept(new, logRotated + 1))
    BY LogRotatedKeeps
  <1> HIDE DEF new
  <1>3. logNames[0] # 0 /\ logNames[0] \in Nat /\ logMade \in Nat /\ logRotated \in Nat
    BY LogSuffixFacts DEF LogInv, LogNaming
  <1>4. /\ logNames' \in LogNaming /\ LogOrdered(logNames') /\ LogKnown(logNames)'
        /\ logMade' \in Nat
        /\ \A k \in LogBackups : logNames'[k] = new[k]
        /\ opened => /\ logNames'[0] # 0
                     /\ new[0] = 0 => logMade' = logMade + 1 /\ logNames'[0] = logMade'
        /\ ~opened => logMade' = logMade /\ logNames'[0] = new[0]
    <2>1. CASE opened
      BY <1>1, <1>2, <1>3, <2>1, LogFopenKeeps
    <2>2. CASE ~opened
      BY <1>1, <1>2, <1>3, <2>2 DEF LogKnown
    <2>3. QED BY <2>1, <2>2
  <1>5. logRotated' \in Nat
    BY <1>1, <1>3
  <1>6. ASSUME logSteady'
        PROVE  /\ LogKept(logNames, logRotated)'
               /\ logMade' = logRotated' + (IF logNames'[0] = 0 THEN 0 ELSE 1)
               /\ logNames'[0] \in {0, logMade'}
    <2>1. logSteady /\ failed = {} /\ new[0] = 0
      BY <1>1, <1>2, <1>3, <1>6
    <2>2. logNames[0] = logRotated + 1 /\ logMade = logRotated + 1 /\ logRotated' = logRotated + 1
      BY <1>1, <1>3, <2>1 DEF LogInv
    <2>3. LogKept(new, logRotated')
      BY <1>2, <1>3, <2>1, <2>2
    <2>4. LogKept(logNames, logRotated)'
      BY <1>4, <2>3 DEF LogKept
    <2>5. logMade' = logRotated' + (IF logNames'[0] = 0 THEN 0 ELSE 1) /\ logNames'[0] \in {0, logMade'}
      <3>1. CASE opened
        BY <1>3, <1>4, <2>1, <2>2, <3>1
      <3>2. CASE ~opened
        BY <1>3, <1>4, <2>1, <2>2, <3>2
      <3>3. QED BY <3>1, <3>2
    <2>6. QED BY <2>4, <2>5
  <1>7. logOpen' => logNames'[0] # 0
    BY <1>1, <1>4
  <1>8. maxLogFiles' \in LogCounts
    BY DEF LogInv
  <1>9. QED BY <1>4, <1>5, <1>6, <1>7, <1>8 DEF LogInv

LEMMA LogInvStep == LogInv /\ [LogNext]_logVars => LogInv'
  <1> SUFFICES ASSUME LogInv, [LogNext]_logVars PROVE LogInv'
    OBVIOUS
  <1>1. ASSUME NEW l \in LogLevels, LogInit(l)
        PROVE  LogInv'
    <2>1. CASE logOpen' = TRUE /\ LogFopen(logNames)
      <3>1. /\ logNames' \in LogNaming /\ LogOrdered(logNames') /\ LogKnown(logNames)'
            /\ logMade' \in Nat /\ logNames'[0] # 0
            /\ logNames[0] = 0 => logMade' = logMade + 1 /\ logNames'[0] = logMade'
            /\ logNames[0] # 0 => logMade' = logMade /\ logNames'[0] = logNames[0]
            /\ \A k \in LogBackups : logNames'[k] = logNames[k]
        BY <2>1, LogFopenKeeps DEF LogInv
      <3>2. logRotated' = logRotated /\ logSteady' = logSteady /\ maxLogFiles' = maxLogFiles
        BY <1>1 DEF LogInit
      <3>3. logSteady => LogKept(logNames, logRotated)'
        BY <3>1, <3>2 DEF LogInv, LogKept
      <3>4. logSteady => /\ logMade' = logRotated' + (IF logNames'[0] = 0 THEN 0 ELSE 1)
                         /\ logNames'[0] \in {0, logMade'}
        BY <3>1, <3>2 DEF LogInv
      <3>5. QED BY <3>1, <3>2, <3>3, <3>4 DEF LogInv
    <2>2. CASE logOpen' = FALSE /\ UNCHANGED <<logNames, logMade>>
      BY <1>1, <2>2 DEF LogInit, LogInv, LogKnown, LogKept
    <2>3. QED BY <1>1, <2>1, <2>2 DEF LogInit
  <1>2. CASE \/ LogShutdown \/ UNCHANGED logVars
             \/ \E l \in LogLevels : LogSetLevel(l)
             \/ \E n \in LogSizes : LogSetMaxFileSize(n)
    <2>1. /\ logOpen' => logOpen
          /\ UNCHANGED <<maxLogFiles, logNames, logMade, logRotated, logSteady>>
      BY <1>2 DEF LogShutdown, LogSetLevel, LogSetMaxFileSize, logVars, logSettings
    <2>2. QED BY <2>1 DEF LogInv, LogKnown, LogKept
  <1>3. ASSUME NEW n \in LogCounts, LogSetMaxFiles(n)
        PROVE  LogInv'
    <2>1. /\ maxLogFiles' = n /\ logSteady' = (logSteady /\ (n = maxLogFiles \/ logRotated = 0))
          /\ UNCHANGED <<logOpen, logNames, logMade, logRotated>>
      BY <1>3 DEF LogSetMaxFiles
    <2>2. logSteady' => LogKept(logNames, logRotated)'
      <3>1. CASE n = maxLogFiles
        BY <2>1, <3>1 DEF LogInv, LogKept
      <3>2. CASE logRotated = 0
        <4>1. \A i \in LogBackups : i \in Nat /\ ~(i <= 0)
          BY LogSuffixFacts DEF LogBackups
        <4>2. QED BY <2>1, <3>2, <4>1 DEF LogInv, LogKept
      <3>3. QED BY <2>1, <3>1, <3>2
    <2>3. QED BY <2>1, <2>2 DEF LogInv, LogKnown
  <1>4. ASSUME NEW l \in LogLevels, LogInternal(l)
        PROVE  LogInv'
    <2>1. maxLogFiles' = maxLogFiles
      BY <1>4 DEF LogInternal, logSettings
    <2>2. CASE MustRotate
      <3>1. PICK failed \in SUBSET (0..maxLogFiles), opened \in BOOLEAN : Rotate(failed, opened)
        BY <1>4, <2>2 DEF LogInternal
      <3>2. QED BY <2>1, <2>2, <3>1, LogRotates DEF MustRotate
    <2>3. CASE ~MustRotate
      <3>1. UNCHANGED <<logOpen, logNames, logMade, logRotated, logSteady>>
        BY <1>4, <2>3 DEF LogInternal
      <3>2. QED BY <2>1, <3>1 DEF LogInv, LogKnown, LogKept
    <2>4. QED BY <2>2, <2>3
  <1>5. QED BY <1>1, <1>2, <1>3, <1>4 DEF LogNext

\* Of two backups that with the lower suffix is the newer, for any numbers of
\* files, whatever fails and however the number is set; and while nothing fails
\* and the number stays, the backups are the last files rotated, none missing.
THEOREM LogBackupsInOrderAlways == LogSpec => []LogBackupsInOrder
  <1>1. LogInitially => LogInv
    <2> SUFFICES ASSUME LogInitially PROVE LogInv
      OBVIOUS
    <2>1. /\ maxLogFiles \in LogCounts /\ logNames = [k \in LogSuffixes |-> 0] /\ logMade = 0
          /\ logRotated = 0 /\ logOpen = FALSE /\ logNames[0] = 0
      BY LogSuffixFacts DEF LogInitially
    <2>2. LogKept(logNames, logRotated)
      <3>1. \A i \in LogBackups : i \in Nat /\ ~(i <= 0) /\ i \in LogSuffixes
        BY LogSuffixFacts DEF LogBackups
      <3>2. QED BY <2>1, <3>1 DEF LogKept
    <2>3. logNames \in LogNaming /\ LogOrdered(logNames) /\ LogKnown(logNames)
      BY <2>1 DEF LogNaming, LogOrdered, LogKnown
    <2>4. QED BY <2>1, <2>2, <2>3 DEF LogInv
  <1>2. LogInv => LogBackupsInOrder
    BY DEF LogInv, LogBackupsInOrder, LogOrdered, LogKept
  <1>3. QED BY <1>1, LogInvStep, <1>2, PTL DEF LogSpec

-----------------------------------------------------------------------------
(* The resource tracker.                                                   *)

\* Adding an element to a finite set, or taking one out, changes its size by one.
LEMMA SizesOfSubsets ==
  ASSUME NEW U, IsFiniteSet(U), NEW S \in SUBSET U
  PROVE  /\ Cardinality(S) \in Nat
         /\ Cardinality(S) = 0 <=> S = {}
         /\ \A x \in U \ S : Cardinality(S \cup {x}) = Cardinality(S) + 1
         /\ \A x \in S : /\ Cardinality(S \ {x}) = Cardinality(S) - 1
                         /\ Cardinality(S) >= 1
  <1>1. IsFiniteSet(S)
    BY FS_Subset
  <1>2. Cardinality(S) \in Nat /\ (Cardinality(S) = 0 <=> S = {})
    BY <1>1, FS_CardinalityType, FS_EmptySet
  <1>3. \A x \in U \ S : Cardinality(S \cup {x}) = Cardinality(S) + 1
    BY <1>1, FS_AddElement
  <1>4. ASSUME NEW x \in S
        PROVE  Cardinality(S \ {x}) = Cardinality(S) - 1 /\ Cardinality(S) >= 1
    <2>1. Cardinality(S \ {x}) = Cardinality(S) - 1
      BY <1>1, FS_RemoveElement
    <2>2. S # {}
      OBVIOUS
    <2>3. \A n \in Nat : n # 0 => n >= 1
      OBVIOUS
    <2>4. QED BY <1>2, <2>1, <2>2, <2>3
  <1>5. QED BY <1>2, <1>3, <1>4

LEMMA SlotSizes ==
  ASSUME NEW S \in SUBSET TrackerSlots
  PROVE  /\ Cardinality(S) \in Nat
         /\ Cardinality(S) = 0 <=> S = {}
         /\ \A x \in TrackerSlots \ S : Cardinality(S \cup {x}) = Cardinality(S) + 1
         /\ \A x \in S : /\ Cardinality(S \ {x}) = Cardinality(S) - 1
                         /\ Cardinality(S) >= 1
  <1>1. IsFiniteSet(TrackerSlots)
    BY TrackerAssumption, FS_Interval DEF TrackerSlots
  <1>2. QED BY <1>1, SizesOfSubsets

LEMMA ObjectSizes ==
  ASSUME NEW S \in SUBSET TrackedObjects
  PROVE  /\ Cardinality(S) \in Nat
         /\ Cardinality(S) = 0 <=> S = {}
         /\ \A x \in TrackedObjects \ S : Cardinality(S \cup {x}) = Cardinality(S) + 1
         /\ \A x \in S : /\ Cardinality(S \ {x}) = Cardinality(S) - 1
                         /\ Cardinality(S) >= 1
  BY TrackerAssumption, SizesOfSubsets

TrackedCounts == [created : Nat, deleted : Nat, current : Nat, peak : Nat]
ObjectStates ==
  [key : TrackedKeys \cup {NoKey}, entry : {"due", "made"}, life : {"live", "gone", "over"}]

\* The entries of a type.
Listed(y) == {s \in ResourceCheckLeaks : trackerTable[s].type = y}

\* The parts of TrackerExact: of a key, and of a type.
KeyExact(k) ==
  /\ Overtaken(k) # {} => k \in trackerEarly
  /\ k \notin trackerEarly => Cardinality(Entries(k)) <= Cardinality(Registered(k))
  /\ k \notin trackerMissed =>
       Cardinality(Registered(k)) <= Cardinality(Entries(k)) + Cardinality(Overtaken(k))

TypeExact(y) ==
  LET c == trackerStats[y] IN
  /\ c.current <= Cardinality(Listed(y))
  /\ c.current <= c.peak
  /\ ~trackerReset => c.current = Cardinality(Listed(y)) /\ c.created = c.deleted + c.current

TableTyped ==
  /\ trackerTable \in [TrackerSlots -> TrackedKeys \cup {NoKey}]
  /\ trackerStats \in [TrackedTypes -> TrackedCounts]

ObjectsTyped ==
  /\ object \in [TrackedObjects -> ObjectStates]
  /\ \A o \in TrackedObjects :
       object[o].entry = "due" \/ object[o].life # "over" => object[o].key \in TrackedKeys

TrackerInv ==
  /\ TableTyped
  /\ ObjectsTyped
  /\ \A k \in TrackedKeys : KeyExact(k)
  /\ \A y \in TrackedTypes : TypeExact(y)

LEMMA TrackerInvInit == TrackerInit => TrackerInv
  <1> SUFFICES ASSUME TrackerInit PROVE TrackerInv
    OBVIOUS
  <1>1. NoCounts \in TrackedCounts /\ NoCounts.current = 0 /\ NoCounts.peak = 0
        /\ NoCounts.created = 0 /\ NoCounts.deleted = 0
    BY DEF NoCounts, TrackedCounts
  <1>2. [key |-> NoKey, entry |-> "made", life |-> "over"] \in ObjectStates
    BY DEF ObjectStates
  <1>3. TableTyped /\ ObjectsTyped
    BY <1>1, <1>2 DEF TrackerInit, TableTyped, ObjectsTyped
  <1>4. Cardinality({}) = 0
    BY FS_EmptySet
  <1>5. \A k \in TrackedKeys : Entries(k) = {} /\ Registered(k) = {} /\ Overtaken(k) = {}
    BY TrackerAssumption DEF TrackerInit, Entries, Registered, Overtaken
  <1>6. \A k \in TrackedKeys : KeyExact(k)
    <2>1. 0 <= 0 /\ 0 <= 0 + 0
      OBVIOUS
    <2>2. QED BY <1>4, <1>5, <2>1, Zenon DEF KeyExact
  <1>7. \A y \in TrackedTypes : Listed(y) = {}
    BY DEF TrackerInit, Listed, ResourceCheckLeaks
  <1>8. \A y \in TrackedTypes : trackerStats[y] = NoCounts
    BY DEF TrackerInit
  <1>9. \A y \in TrackedTypes : TypeExact(y)
    BY <1>1, <1>4, <1>7, <1>8 DEF TypeExact
  <1>10. QED BY <1>3, <1>6, <1>9 DEF TrackerInv

\* The sets that are counted are finite.
LEMMA TrackerSizes ==
  /\ \A k \in TrackedKeys :
       /\ Entries(k) \in SUBSET TrackerSlots /\ Cardinality(Entries(k)) \in Nat
       /\ Registered(k) \in SUBSET TrackedObjects /\ Cardinality(Registered(k)) \in Nat
       /\ Overtaken(k) \in SUBSET TrackedObjects /\ Cardinality(Overtaken(k)) \in Nat
  /\ \A y \in TrackedTypes :
       Listed(y) \in SUBSET TrackerSlots /\ Cardinality(Listed(y)) \in Nat
  BY SlotSizes, ObjectSizes DEF Entries, Registered, Overtaken, Listed, ResourceCheckLeaks

\* What entering and removing do to the counts of a type.
LEMMA EnteredCounts ==
  ASSUME NEW c \in TrackedCounts
  PROVE  /\ Entered(c) \in TrackedCounts
         /\ Entered(c).created = c.created + 1 /\ Entered(c).deleted = c.deleted
         /\ Entered(c).current = c.current + 1
         /\ c.current <= c.peak => Entered(c).current <= Entered(c).peak
  <1> DEFINE n == c.current + 1
             p == IF n > c.peak THEN n ELSE c.peak
  <1>1. c.created \in Nat /\ c.deleted \in Nat /\ c.current \in Nat /\ c.peak \in Nat
    BY DEF TrackedCounts
  <1>2. Entered(c) = [created |-> c.created + 1, deleted |-> c.deleted, current |-> n, peak |-> p]
    <2>1. PICK a \in Nat, d \in Nat, m \in Nat, q \in Nat :
            c = [created |-> a, deleted |-> d, current |-> m, peak |-> q]
      BY DEF TrackedCounts
    <2>2. c.created = a /\ c.deleted = d /\ c.current = m /\ c.peak = q
      BY <2>1
    <2>3. Entered(c) = [[[c EXCEPT !.created = a + 1] EXCEPT !.current = m + 1]
                         EXCEPT !.peak = IF m + 1 > q THEN m + 1 ELSE q]
      BY <2>1, <2>2 DEF Entered
    <2>4. QED BY <2>1, <2>2, <2>3
  <1>3. p \in Nat /\ n \in Nat /\ n <= p
    BY <1>1
  <1> HIDE DEF p
  <1>4. QED BY <1>1, <1>2, <1>3 DEF TrackedCounts

LEMMA RemovedCounts ==
  ASSUME NEW c \in TrackedCounts
  PROVE  /\ Removed(c) \in TrackedCounts
         /\ Removed(c).created = c.created /\ Removed(c).deleted = c.deleted + 1
         /\ Removed(c).current = (IF c.current > 0 THEN c.current - 1 ELSE c.current)
         /\ Removed(c).peak = c.peak
  <1> DEFINE n == IF c.current > 0 THEN c.current - 1 ELSE c.current
  <1>1. c.created \in Nat /\ c.deleted \in Nat /\ c.current \in Nat /\ c.peak \in Nat
    BY DEF TrackedCounts
  <1>2. Removed(c) = [created |-> c.created, deleted |-> c.deleted + 1, current |-> n, peak |-> c.peak]
    <2>1. PICK a \in Nat, d \in Nat, m \in Nat, q \in Nat :
            c = [created |-> a, deleted |-> d, current |-> m, peak |-> q]
      BY DEF TrackedCounts
    <2>2. c.created = a /\ c.deleted = d /\ c.current = m /\ c.peak = q
      BY <2>1
    <2>3. Removed(c) = [[c EXCEPT !.deleted = d + 1] EXCEPT !.current = IF m > 0 THEN m - 1 ELSE m]
      BY <2>1, <2>2 DEF Removed
    <2>4. QED BY <2>1, <2>2, <2>3
  <1>3. n \in Nat
    BY <1>1
  <1> HIDE DEF n
  <1>4. Removed(c).current = n
    BY <1>2
  <1>5. QED BY <1>1, <1>2, <1>3, <1>4 DEF TrackedCounts, n

\* One object changes to r: what becomes of the objects of each key.
LEMMA OneObjectChanges ==
  ASSUME ObjectsTyped, NEW o \in TrackedObjects, NEW r \in ObjectStates,
         object' = [object EXCEPT ![o] = r],
         r.entry = "due" \/ r.life # "over" => r.key \in TrackedKeys
  PROVE  /\ ObjectsTyped'
         /\ \A q \in TrackedKeys :
              /\ Registered(q)' = IF r.key = q /\ r.entry = "made" /\ r.life # "over"
                                  THEN Registered(q) \cup {o} ELSE Registered(q) \ {o}
              /\ Overtaken(q)' = IF r.key = q /\ r.entry = "due" /\ r.life = "over"
                                 THEN Overtaken(q) \cup {o} ELSE Overtaken(q) \ {o}
  <1>1. object' \in [TrackedObjects -> ObjectStates] /\ object'[o] = r
        /\ \A p \in TrackedObjects \ {o} : object'[p] = object[p]
    BY DEF ObjectsTyped
  <1>2. ObjectsTyped'
    BY <1>1 DEF ObjectsTyped
  <1>3. QED BY <1>1, <1>2 DEF Registered, Overtaken

\* Membership of an object among those of its key, and of no other.
LEMMA ObjectAmong ==
  ASSUME NEW o \in TrackedObjects, NEW q \in TrackedKeys
  PROVE  /\ o \in Registered(q) <=> /\ object[o].key = q
                                    /\ object[o].entry = "made" /\ object[o].life # "over"
         /\ o \in Overtaken(q) <=> /\ object[o].key = q
                                   /\ object[o].entry = "due" /\ object[o].life = "over"
  BY DEF Registered, Overtaken

\* An entry is made in the free slot s, or the one of s is removed.
LEMMA EntryMade ==
  ASSUME TableTyped, NEW s \in TrackerSlots, NEW k \in TrackedKeys, trackerTable[s] = NoKey,
         trackerTable' = [trackerTable EXCEPT ![s] = k]
  PROVE  /\ trackerTable' \in [TrackerSlots -> TrackedKeys \cup {NoKey}]
         /\ s \notin Entries(k) /\ Entries(k)' = Entries(k) \cup {s}
         /\ \A q \in TrackedKeys \ {k} : Entries(q)' = Entries(q)
         /\ s \notin Listed(k.type) /\ Listed(k.type)' = Listed(k.type) \cup {s}
         /\ \A y \in TrackedTypes \ {k.type} : Listed(y)' = Listed(y)
  <1>1. k # NoKey
    BY TrackerAssumption
  <1>2. trackerTable' \in [TrackerSlots -> TrackedKeys \cup {NoKey}] /\ trackerTable'[s] = k
        /\ \A r \in TrackerSlots \ {s} : trackerTable'[r] = trackerTable[r]
    BY DEF TableTyped
  <1>3. s \notin Entries(k) /\ Entries(k)' = Entries(k) \cup {s}
    BY <1>1, <1>2 DEF Entries
  <1>4. \A q \in TrackedKeys \ {k} : Entries(q)' = Entries(q)
    <2> SUFFICES ASSUME NEW q \in TrackedKeys \ {k} PROVE Entries(q)' = Entries(q)
      OBVIOUS
    <2>1. q # NoKey
      BY TrackerAssumption
    <2>2. QED BY <1>2, <2>1 DEF Entries
  <1>5. s \notin Listed(k.type) /\ Listed(k.type)' = Listed(k.type) \cup {s}
    BY <1>1, <1>2 DEF Listed, ResourceCheckLeaks
  <1>6. \A y \in TrackedTypes \ {k.type} : Listed(y)' = Listed(y)
    BY <1>1, <1>2 DEF Listed, ResourceCheckLeaks
  <1>7. QED BY <1>2, <1>3, <1>4, <1>5, <1>6

LEMMA EntryRemoved ==
  ASSUME TableTyped, NEW s \in TrackerSlots, NEW k \in TrackedKeys, trackerTable[s] = k,
         trackerTable' = [trackerTable EXCEPT ![s] = NoKey]
  PROVE  /\ trackerTable' \in [TrackerSlots -> TrackedKeys \cup {NoKey}]
         /\ s \in Entries(k) /\ Entries(k)' = Entries(k) \ {s}
         /\ \A q \in TrackedKeys \ {k} : Entries(q)' = Entries(q)
         /\ s \in Listed(k.type) /\ Listed(k.type)' = Listed(k.type) \ {s}
         /\ \A y \in TrackedTypes \ {k.type} : Listed(y)' = Listed(y)
  <1>1. \A q \in TrackedKeys : q # NoKey
    BY TrackerAssumption
  <1>2. trackerTable' \in [TrackerSlots -> TrackedKeys \cup {NoKey}] /\ trackerTable'[s] = NoKey
        /\ \A r \in TrackerSlots \ {s} : trackerTable'[r] = trackerTable[r]
    BY DEF TableTyped
  <1>3. s \in Entries(k) /\ Entries(k)' = Entries(k) \ {s}
    BY <1>1, <1>2 DEF Entries
  <1>4. \A q \in TrackedKeys \ {k} : Entries(q)' = Entries(q)
    BY <1>1, <1>2 DEF Entries
  <1>5. s \in Listed(k.type) /\ Listed(k.type)' = Listed(k.type) \ {s}
    BY <1>1, <1>2 DEF Listed, ResourceCheckLeaks
  <1>6. \A y \in TrackedTypes \ {k.type} : Listed(y)' = Listed(y)
    BY <1>1, <1>2 DEF Listed, ResourceCheckLeaks
  <1>7. QED BY <1>2, <1>3, <1>4, <1>5, <1>6

\* The counts of one type change.
LEMMA CountsChange ==
  ASSUME TableTyped, NEW y \in TrackedTypes, NEW c \in TrackedCounts,
         trackerStats' = [trackerStats EXCEPT ![y] = c]
  PROVE  /\ trackerStats' \in [TrackedTypes -> TrackedCounts] /\ trackerStats'[y] = c
         /\ \A z \in TrackedTypes \ {y} : trackerStats'[z] = trackerStats[z]
  BY DEF TableTyped

\* The table and the counts after an entry is made, or removed.
LEMMA EntryMadeCounts ==
  ASSUME TrackerInv, NEW s \in TrackerSlots, NEW k \in TrackedKeys, trackerTable[s] = NoKey,
         trackerTable' = [trackerTable EXCEPT ![s] = k],
         trackerStats' = [trackerStats EXCEPT ![k.type] = Entered(@)],
         trackerReset' = trackerReset
  PROVE  /\ TableTyped'
         /\ Cardinality(Entries(k)') = Cardinality(Entries(k)) + 1
         /\ \A q \in TrackedKeys \ {k} : Entries(q)' = Entries(q)
         /\ \A y \in TrackedTypes : TypeExact(y)'
  <1> DEFINE y == k.type
             c == trackerStats[y]
             d == Entered(trackerStats[y])
  <1>1. y \in TrackedTypes /\ TableTyped
    BY DEF TrackedTypes, TrackerInv
  <1>2. /\ trackerTable' \in [TrackerSlots -> TrackedKeys \cup {NoKey}]
        /\ s \notin Entries(k) /\ Entries(k)' = Entries(k) \cup {s}
        /\ \A q \in TrackedKeys \ {k} : Entries(q)' = Entries(q)
        /\ s \notin Listed(y) /\ Listed(y)' = Listed(y) \cup {s}
        /\ \A z \in TrackedTypes \ {y} : Listed(z)' = Listed(z)
    BY <1>1, EntryMade
  <1>3. \A z \in TrackedTypes : TypeExact(z) /\ Cardinality(Listed(z)) \in Nat
                                /\ trackerStats[z] \in TrackedCounts
    BY TrackerSizes, <1>1 DEF TrackerInv, TableTyped
  <1>4. trackerStats' = [trackerStats EXCEPT ![y] = d]
    OBVIOUS
  <1> HIDE DEF y
  <1>5. /\ Cardinality(Entries(k)') = Cardinality(Entries(k)) + 1
        /\ Cardinality(Listed(y)') = Cardinality(Listed(y)) + 1
    BY <1>1, <1>2, SlotSizes, TrackerSizes
  <1>6. /\ d \in TrackedCounts
        /\ d.created = c.created + 1 /\ d.deleted = c.deleted /\ d.current = c.current + 1
        /\ c.current <= c.peak => d.current <= d.peak
    BY <1>1, <1>3, EnteredCounts
  <1>7. /\ c.created \in Nat /\ c.deleted \in Nat /\ c.current \in Nat
        /\ c.current <= Cardinality(Listed(y)) /\ c.current <= c.peak
        /\ ~trackerReset => c.current = Cardinality(Listed(y)) /\ c.created = c.deleted + c.current
        /\ Cardinality(Listed(y)) \in Nat
    BY <1>1, <1>3 DEF TrackedCounts, TypeExact
  <1> HIDE DEF d
  <1>8. /\ trackerStats' \in [TrackedTypes -> TrackedCounts] /\ trackerStats'[y] = d
        /\ \A z \in TrackedTypes \ {y} : trackerStats'[z] = trackerStats[z]
    BY <1>1, <1>4, <1>6, CountsChange
  <1> HIDE DEF c
  <1>9. TypeExact(y)'
    BY <1>5, <1>6, <1>7, <1>8 DEF TypeExact
  <1>10. \A z \in TrackedTypes \ {y} : TypeExact(z)'
    BY <1>2, <1>3, <1>8 DEF TypeExact
  <1>11. TableTyped'
    BY <1>2, <1>8 DEF TableTyped
  <1>12. QED BY <1>2, <1>5, <1>9, <1>10, <1>11

LEMMA EntryRemovedCounts ==
  ASSUME TrackerInv, NEW s \in TrackerSlots, NEW k \in TrackedKeys, trackerTable[s] = k,
         trackerTable' = [trackerTable EXCEPT ![s] = NoKey],
         trackerStats' = [trackerStats EXCEPT ![k.type] = Removed(@)],
         trackerReset' = trackerReset
  PROVE  /\ TableTyped'
         /\ Cardinality(Entries(k)') = Cardinality(Entries(k)) - 1
         /\ \A q \in TrackedKeys \ {k} : Entries(q)' = Entries(q)
         /\ \A y \in TrackedTypes : TypeExact(y)'
  <1> DEFINE y == k.type
             c == trackerStats[y]
             d == Removed(trackerStats[y])
  <1>1. y \in TrackedTypes /\ TableTyped
    BY DEF TrackedTypes, TrackerInv
  <1>2. /\ trackerTable' \in [TrackerSlots -> TrackedKeys \cup {NoKey}]
        /\ s \in Entries(k) /\ Entries(k)' = Entries(k) \ {s}
        /\ \A q \in TrackedKeys \ {k} : Entries(q)' = Entries(q)
        /\ s \in Listed(y) /\ Listed(y)' = Listed(y) \ {s}
        /\ \A z \in TrackedTypes \ {y} : Listed(z)' = Listed(z)
    BY <1>1, EntryRemoved
  <1>3. \A z \in TrackedTypes : TypeExact(z) /\ Cardinality(Listed(z)) \in Nat
                                /\ trackerStats[z] \in TrackedCounts
    BY TrackerSizes, <1>1 DEF TrackerInv, TableTyped
  <1>4. trackerStats' = [trackerStats EXCEPT ![y] = d]
    OBVIOUS
  <1> HIDE DEF y
  <1>5. /\ Cardinality(Entries(k)') = Cardinality(Entries(k)) - 1
        /\ Cardinality(Listed(y)') = Cardinality(Listed(y)) - 1
        /\ Cardinality(Listed(y)) >= 1
    BY <1>1, <1>2, SlotSizes, TrackerSizes
  <1>6. /\ d \in TrackedCounts
        /\ d.created = c.created /\ d.deleted = c.deleted + 1
        /\ d.current = (IF c.current > 0 THEN c.current - 1 ELSE c.current)
        /\ d.peak = c.peak
    BY <1>1, <1>3, RemovedCounts
  <1>7. /\ c.created \in Nat /\ c.deleted \in Nat /\ c.current \in Nat /\ c.peak \in Nat
        /\ c.current <= Cardinality(Listed(y)) /\ c.current <= c.peak
        /\ ~trackerReset => c.current = Cardinality(Listed(y)) /\ c.created = c.deleted + c.current
        /\ Cardinality(Listed(y)) \in Nat
    BY <1>1, <1>3 DEF TrackedCounts, TypeExact
  <1> HIDE DEF d
  <1>8. /\ trackerStats' \in [TrackedTypes -> TrackedCounts] /\ trackerStats'[y] = d
        /\ \A z \in TrackedTypes \ {y} : trackerStats'[z] = trackerStats[z]
    BY <1>1, <1>4, <1>6, CountsChange
  <1> HIDE DEF c
  <1>9. TypeExact(y)'
    BY <1>5, <1>6, <1>7, <1>8 DEF TypeExact
  <1>10. \A z \in TrackedTypes \ {y} : TypeExact(z)'
    BY <1>2, <1>3, <1>8 DEF TypeExact
  <1>11. TableTyped'
    BY <1>2, <1>8 DEF TableTyped
  <1>12. QED BY <1>2, <1>5, <1>9, <1>10, <1>11

LEMMA TableSame ==
  ASSUME TrackerInv, UNCHANGED <<trackerTable, trackerStats, trackerReset>>
  PROVE  /\ TableTyped'
         /\ \A q \in TrackedKeys : Entries(q)' = Entries(q)
         /\ \A y \in TrackedTypes : TypeExact(y)'
  <1>1. TableTyped' /\ \A q \in TrackedKeys : Entries(q)' = Entries(q)
    BY DEF TrackerInv, TableTyped, Entries
  <1>2. \A y \in TrackedTypes : Listed(y)' = Listed(y)
    BY DEF Listed, ResourceCheckLeaks
  <1>3. \A y \in TrackedTypes : TypeExact(y)'
    BY <1>2 DEF TrackerInv, TypeExact
  <1>4. QED BY <1>1, <1>3

\* The keys whose counts and history stay as they are.
LEMMA KeySame ==
  ASSUME NEW k \in TrackedKeys, KeyExact(k),
         Entries(k)' = Entries(k), Registered(k)' = Registered(k), Overtaken(k)' = Overtaken(k),
         trackerEarly \subseteq trackerEarly', trackerMissed \subseteq trackerMissed'
  PROVE  KeyExact(k)'
  BY DEF KeyExact

LEMMA TrackerRegisterKeeps ==
  ASSUME TrackerInv, NEW o \in TrackedObjects, ResourceRegister(o)
  PROVE  TrackerInv'
  <1>0. PICK k : k = object[o].key
    OBVIOUS
  <1> DEFINE r == [key |-> k, entry |-> "made", life |-> object[o].life]
  <1>1. /\ ObjectsTyped /\ object[o] \in ObjectStates /\ object[o].entry = "due"
        /\ k \in TrackedKeys
    BY <1>0 DEF ResourceRegister, TrackerInv, ObjectsTyped
  <1>2. r \in ObjectStates /\ r.key = k /\ r.entry = "made" /\ r.life = object[o].life
    BY <1>1 DEF ObjectStates
  <1>3. object' = [object EXCEPT ![o] = r]
    <2>1. [object[o] EXCEPT !.entry = "made"] = r
      BY <1>0, <1>1 DEF ObjectStates
    <2>2. QED BY <2>1 DEF ResourceRegister
  <1> HIDE DEF r
  <1>4. /\ ObjectsTyped'
        /\ \A q \in TrackedKeys :
             /\ Registered(q)' = IF r.key = q /\ r.entry = "made" /\ r.life # "over"
                                 THEN Registered(q) \cup {o} ELSE Registered(q) \ {o}
             /\ Overtaken(q)' = IF r.key = q /\ r.entry = "due" /\ r.life = "over"
                                THEN Overtaken(q) \cup {o} ELSE Overtaken(q) \ {o}
    BY <1>1, <1>2, <1>3, OneObjectChanges
  <1>5. \A q \in TrackedKeys : /\ o \notin Registered(q)
                               /\ o \in Overtaken(q) <=> q = k /\ object[o].life = "over"
    BY <1>0, <1>1, ObjectAmong
  <1>6. \A q \in TrackedKeys \ {k} : Registered(q)' = Registered(q) /\ Overtaken(q)' = Overtaken(q)
    BY <1>2, <1>4, <1>5
  <1>7. \/ /\ Cardinality(Registered(k)') = Cardinality(Registered(k)) + 1
           /\ Overtaken(k)' = Overtaken(k)
        \/ /\ Registered(k)' = Registered(k)
           /\ Cardinality(Overtaken(k)') = Cardinality(Overtaken(k)) - 1
           /\ Overtaken(k) # {}
    <2>1. CASE object[o].life = "over"
      <3>1. Registered(k)' = Registered(k) /\ Overtaken(k)' = Overtaken(k) \ {o} /\ o \in Overtaken(k)
        BY <1>1, <1>2, <1>4, <1>5, <2>1
      <3>2. QED BY <1>1, <3>1, ObjectSizes, TrackerSizes
    <2>2. CASE object[o].life # "over"
      <3>1. /\ Registered(k)' = Registered(k) \cup {o} /\ o \notin Registered(k)
            /\ Overtaken(k)' = Overtaken(k)
        BY <1>1, <1>2, <1>4, <1>5, <2>2
      <3>2. QED BY <1>1, <3>1, ObjectSizes, TrackerSizes
    <2>3. QED BY <2>1, <2>2
  <1>8. /\ \A q \in TrackedKeys : KeyExact(q)
        /\ trackerEarly' = trackerEarly /\ trackerReset' = trackerReset
        /\ Cardinality(Entries(k)) \in Nat /\ Cardinality(Registered(k)) \in Nat
        /\ Cardinality(Overtaken(k)) \in Nat
    BY <1>1, TrackerSizes DEF TrackerInv, ResourceRegister
  <1>9. /\ Overtaken(k) # {} => k \in trackerEarly
        /\ k \notin trackerEarly => Cardinality(Entries(k)) <= Cardinality(Registered(k))
        /\ k \notin trackerMissed =>
             Cardinality(Registered(k)) <= Cardinality(Entries(k)) + Cardinality(Overtaken(k))
    BY <1>1, <1>8 DEF KeyExact
  <1>10. Overtaken(k)' # {} => Overtaken(k) # {}
    BY <1>1, <1>4, <1>2
  <1>11. ASSUME NEW s \in TrackerSlots, FindFreeSlot(s),
                trackerTable' = [trackerTable EXCEPT ![s] = k],
                trackerStats' = [trackerStats EXCEPT ![k.type] = Entered(@)],
                UNCHANGED trackerMissed
         PROVE  TrackerInv'
    <2>1. trackerTable[s] = NoKey
      BY <1>11 DEF FindFreeSlot, FirstSlot
    <2>2. /\ TableTyped'
          /\ Cardinality(Entries(k)') = Cardinality(Entries(k)) + 1
          /\ \A q \in TrackedKeys \ {k} : Entries(q)' = Entries(q)
          /\ \A y \in TrackedTypes : TypeExact(y)'
      BY <1>1, <1>8, <1>11, <2>1, EntryMadeCounts
    <2>3. KeyExact(k)'
      <3>1. Overtaken(k)' # {} => k \in trackerEarly'
        BY <1>8, <1>9, <1>10
      <3>2. k \notin trackerEarly' => Cardinality(Entries(k)') <= Cardinality(Registered(k)')
        BY <1>7, <1>8, <1>9, <2>2
      <3>3. k \notin trackerMissed' =>
              Cardinality(Registered(k)') <= Cardinality(Entries(k)') + Cardinality(Overtaken(k)')
        BY <1>7, <1>8, <1>9, <1>11, <2>2
      <3>4. QED BY <3>1, <3>2, <3>3 DEF KeyExact
    <2>4. \A q \in TrackedKeys \ {k} : KeyExact(q)'
      BY <1>6, <1>8, <1>11, <2>2, KeySame
    <2>5. QED BY <1>4, <2>2, <2>3, <2>4 DEF TrackerInv
  <1>12. ASSUME trackerMissed' = trackerMissed \cup {k}, UNCHANGED <<trackerTable, trackerStats>>
         PROVE  TrackerInv'
    <2>1. /\ TableTyped'
          /\ \A q \in TrackedKeys : Entries(q)' = Entries(q)
          /\ \A y \in TrackedTypes : TypeExact(y)'
      BY <1>8, <1>12, TableSame
    <2>2. KeyExact(k)'
      <3>1. Overtaken(k)' # {} => k \in trackerEarly'
        BY <1>8, <1>9, <1>10
      <3>2. Cardinality(Entries(k)') = Cardinality(Entries(k))
        BY <1>1, <2>1
      <3>3. k \notin trackerEarly' => Cardinality(Entries(k)') <= Cardinality(Registered(k)')
        BY <1>7, <1>8, <1>9, <3>2
      <3>4. k \in trackerMissed'
        BY <1>12
      <3>5. QED BY <3>1, <3>3, <3>4 DEF KeyExact
    <2>3. \A q \in TrackedKeys \ {k} : KeyExact(q)'
      BY <1>6, <1>8, <1>12, <2>1, KeySame
    <2>4. QED BY <1>4, <2>1, <2>2, <2>3 DEF TrackerInv
  <1>13. QED BY <1>0, <1>11, <1>12 DEF ResourceRegister

LEMMA TrackerUnregisterKeeps ==
  ASSUME TrackerInv, NEW o \in TrackedObjects, ResourceUnregister(o)
  PROVE  TrackerInv'
  <1>0. PICK k : k = object[o].key
    OBVIOUS
  <1> DEFINE r == [key |-> k, entry |-> object[o].entry, life |-> "over"]
  <1>1. /\ ObjectsTyped /\ object[o] \in ObjectStates /\ object[o].life \in {"gone", "over"}
        /\ k \in TrackedKeys
    <2>1. /\ ObjectsTyped /\ object[o] \in ObjectStates /\ object[o].life \in {"gone", "over"}
          /\ k # NoKey
      BY <1>0 DEF ResourceUnregister, Unregistering, TrackerInv, ObjectsTyped
    <2>2. QED BY <1>0, <2>1 DEF ObjectStates
  <1>2. r \in ObjectStates /\ r.key = k /\ r.entry = object[o].entry /\ r.life = "over"
    BY <1>1 DEF ObjectStates
  <1>3. object' = [object EXCEPT ![o] = r]
    <2>1. [object[o] EXCEPT !.life = "over"] = r
      BY <1>0, <1>1 DEF ObjectStates
    <2>2. QED BY <2>1 DEF ResourceUnregister, Unregistering
  <1> HIDE DEF r
  <1>4. /\ ObjectsTyped'
        /\ \A q \in TrackedKeys :
             /\ Registered(q)' = IF r.key = q /\ r.entry = "made" /\ r.life # "over"
                                 THEN Registered(q) \cup {o} ELSE Registered(q) \ {o}
             /\ Overtaken(q)' = IF r.key = q /\ r.entry = "due" /\ r.life = "over"
                                THEN Overtaken(q) \cup {o} ELSE Overtaken(q) \ {o}
    BY <1>1, <1>2, <1>3, OneObjectChanges
  <1>5. \A q \in TrackedKeys \ {k} : o \notin Registered(q) /\ o \notin Overtaken(q)
    BY <1>0, <1>1, ObjectAmong
  <1>6. \A q \in TrackedKeys \ {k} : Registered(q)' = Registered(q) /\ Overtaken(q)' = Overtaken(q)
    BY <1>2, <1>4, <1>5
  <1>7. /\ trackerReset' = trackerReset
        /\ trackerEarly \subseteq trackerEarly' /\ trackerMissed \subseteq trackerMissed'
        /\ object[o].entry = "due" => k \in trackerEarly'
        /\ object[o].life = "over" => k \in trackerMissed'
    BY <1>0 DEF ResourceUnregister, Unregistering
  <1>8. \/ /\ Cardinality(Registered(k)') = Cardinality(Registered(k)) - 1
           /\ Cardinality(Registered(k)) >= 1
           /\ Overtaken(k)' = Overtaken(k)
        \/ /\ k \in trackerEarly'
           /\ Registered(k)' = Registered(k)
           /\ Cardinality(Overtaken(k)') = Cardinality(Overtaken(k)) + 1
        \/ /\ k \in trackerMissed'
           /\ Registered(k)' = Registered(k) /\ Overtaken(k)' = Overtaken(k)
    <2>1. CASE object[o].life = "over"
      <3>1. o \notin Registered(k) /\ (o \in Overtaken(k) <=> object[o].entry = "due")
        BY <1>0, <1>1, <2>1, ObjectAmong
      <3>2. Registered(k)' = Registered(k) /\ Overtaken(k)' = Overtaken(k)
        BY <1>1, <1>2, <1>4, <3>1
      <3>3. QED BY <1>7, <2>1, <3>2
    <2>2. CASE object[o].life # "over" /\ object[o].entry = "due"
      <3>1. o \notin Registered(k) /\ o \notin Overtaken(k)
        BY <1>0, <1>1, <2>2, ObjectAmong
      <3>2. Registered(k)' = Registered(k) /\ Overtaken(k)' = Overtaken(k) \cup {o}
        BY <1>1, <1>2, <1>4, <2>2, <3>1
      <3>3. QED BY <1>1, <1>7, <2>2, <3>1, <3>2, ObjectSizes, TrackerSizes
    <2>3. CASE object[o].life # "over" /\ object[o].entry = "made"
      <3>1. o \in Registered(k) /\ o \notin Overtaken(k)
        BY <1>0, <1>1, <2>3, ObjectAmong
      <3>2. Registered(k)' = Registered(k) \ {o} /\ Overtaken(k)' = Overtaken(k)
        BY <1>1, <1>2, <1>4, <2>3, <3>1
      <3>3. QED BY <1>1, <3>1, <3>2, ObjectSizes, TrackerSizes
    <2>4. QED BY <1>1, <2>1, <2>2, <2>3 DEF ObjectStates
  <1>9. /\ \A q \in TrackedKeys : KeyExact(q)
        /\ Cardinality(Entries(k)) \in Nat /\ Cardinality(Registered(k)) \in Nat
        /\ Cardinality(Overtaken(k)) \in Nat
    BY <1>1, TrackerSizes DEF TrackerInv
  <1>10. /\ Overtaken(k) # {} => k \in trackerEarly
         /\ k \notin trackerEarly => Cardinality(Entries(k)) <= Cardinality(Registered(k))
         /\ k \notin trackerMissed =>
              Cardinality(Registered(k)) <= Cardinality(Entries(k)) + Cardinality(Overtaken(k))
    BY <1>1, <1>9 DEF KeyExact
  <1>11. Overtaken(k)' # {} => k \in trackerEarly'
    BY <1>1, <1>2, <1>4, <1>7, <1>10
  <1>12. ASSUME TableTyped',
                \/ Cardinality(Entries(k)') = Cardinality(Entries(k)) - 1
                \/ /\ Cardinality(Entries(k)') = Cardinality(Entries(k))
                   /\ Cardinality(Entries(k)) = 0,
                \A q \in TrackedKeys \ {k} : Entries(q)' = Entries(q),
                \A y \in TrackedTypes : TypeExact(y)'
         PROVE  TrackerInv'
    <2>1. k \notin trackerEarly' => Cardinality(Entries(k)') <= Cardinality(Registered(k)')
      BY <1>7, <1>8, <1>9, <1>10, <1>12
    <2>2. k \notin trackerMissed' =>
            Cardinality(Registered(k)') <= Cardinality(Entries(k)') + Cardinality(Overtaken(k)')
      BY <1>7, <1>8, <1>9, <1>10, <1>12
    <2>3. KeyExact(k)'
      BY <1>11, <2>1, <2>2 DEF KeyExact
    <2>4. \A q \in TrackedKeys \ {k} : KeyExact(q)'
      BY <1>6, <1>7, <1>9, <1>12, KeySame
    <2>5. QED BY <1>4, <1>12, <2>3, <2>4 DEF TrackerInv
  <1>13. ASSUME NEW s \in TrackerSlots, FindResource(s, k),
                trackerTable' = [trackerTable EXCEPT ![s] = NoKey],
                trackerStats' = [trackerStats EXCEPT ![k.type] = Removed(@)]
         PROVE  TrackerInv'
    <2>1. trackerTable[s] = k
      BY <1>13 DEF FindResource, FirstSlot
    <2>2. QED BY <1>1, <1>7, <1>12, <1>13, <2>1, EntryRemovedCounts
  <1>14. ASSUME \A s \in TrackerSlots : trackerTable[s] # k, UNCHANGED <<trackerTable, trackerStats>>
         PROVE  TrackerInv'
    <2>1. Entries(k) = {} /\ Cardinality(Entries(k)) = 0
      BY <1>14, FS_EmptySet DEF Entries
    <2>2. QED BY <1>1, <1>7, <1>12, <1>14, <2>1, TableSame
  <1>15. QED BY <1>0, <1>13, <1>14 DEF ResourceUnregister

\* Objects come to exist and go without the tracker; a reset zeroes the counts.
LEMMA TrackerObjectKeeps ==
  ASSUME TrackerInv, NEW o \in TrackedObjects,
         ObjectDelete(o) \/ \E k \in TrackedKeys : ObjectCreate(o, k)
  PROVE  TrackerInv'
  <1>1. ObjectsTyped /\ object[o] \in ObjectStates
    BY DEF TrackerInv, ObjectsTyped
  <1>2. PICK r \in ObjectStates :
          /\ object' = [object EXCEPT ![o] = r]
          /\ r.life # "over" /\ r.key \in TrackedKeys
          /\ \/ object[o].entry = "made" /\ object[o].life = "over" /\ r.entry = "due"
             \/ /\ object[o].life = "live"
                /\ r.key = object[o].key /\ r.entry = object[o].entry
    <2>1. CASE ObjectDelete(o)
      <3> DEFINE r == [key |-> object[o].key, entry |-> object[o].entry, life |-> "gone"]
      <3>1. object[o].life = "live" /\ object' = [object EXCEPT ![o].life = "gone"]
        BY <2>1 DEF ObjectDelete
      <3>2. [object[o] EXCEPT !.life = "gone"] = r
        BY <1>1 DEF ObjectStates
      <3>3. object' = [object EXCEPT ![o] = r]
        BY <3>1, <3>2
      <3>4. r \in ObjectStates /\ r.life = "gone" /\ r.key = object[o].key
            /\ r.entry = object[o].entry /\ r.key \in TrackedKeys
        BY <1>1, <3>1 DEF ObjectStates, ObjectsTyped
      <3> HIDE DEF r
      <3>5. QED BY <3>1, <3>3, <3>4
    <2>2. ASSUME NEW k \in TrackedKeys, ObjectCreate(o, k)
          PROVE  \E r \in ObjectStates :
                   /\ object' = [object EXCEPT ![o] = r]
                   /\ r.life # "over" /\ r.key \in TrackedKeys
                   /\ object[o].entry = "made" /\ object[o].life = "over" /\ r.entry = "due"
      <3> DEFINE r == [key |-> k, entry |-> "due", life |-> "live"]
      <3>1. object' = [object EXCEPT ![o] = r] /\ object[o].entry = "made" /\ object[o].life = "over"
        BY <2>2 DEF ObjectCreate
      <3>2. r \in ObjectStates /\ r.entry = "due" /\ r.life = "live" /\ r.key = k
        BY DEF ObjectStates
      <3> HIDE DEF r
      <3>3. QED BY <3>1, <3>2
    <2>3. QED BY <2>1, <2>2
  <1>3. UNCHANGED <<trackerTable, trackerStats, trackerEarly, trackerMissed, trackerReset>>
    BY DEF ObjectDelete, ObjectCreate, trackerHistory
  <1>4. /\ ObjectsTyped'
        /\ \A q \in TrackedKeys :
             /\ Registered(q)' = IF r.key = q /\ r.entry = "made" /\ r.life # "over"
                                 THEN Registered(q) \cup {o} ELSE Registered(q) \ {o}
             /\ Overtaken(q)' = IF r.key = q /\ r.entry = "due" /\ r.life = "over"
                                THEN Overtaken(q) \cup {o} ELSE Overtaken(q) \ {o}
    BY <1>1, <1>2, OneObjectChanges
  <1>5. \A q \in TrackedKeys : Registered(q)' = Registered(q) /\ Overtaken(q)' = Overtaken(q)
    <2>1. \A q \in TrackedKeys :
            /\ o \notin Overtaken(q)
            /\ o \in Registered(q) <=> r.key = q /\ r.entry = "made"
      BY <1>1, <1>2, ObjectAmong
    <2> SUFFICES ASSUME NEW q \in TrackedKeys
                 PROVE  Registered(q)' = Registered(q) /\ Overtaken(q)' = Overtaken(q)
      OBVIOUS
    <2>2. Overtaken(q)' = Overtaken(q) \ {o} /\ o \notin Overtaken(q)
      BY <1>2, <1>4, <2>1
    <2>3. CASE r.key = q /\ r.entry = "made"
      <3>1. Registered(q)' = Registered(q) \cup {o} /\ o \in Registered(q)
        BY <1>2, <1>4, <2>1, <2>3
      <3>2. QED BY <2>2, <3>1
    <2>4. CASE ~(r.key = q /\ r.entry = "made")
      <3>1. Registered(q)' = Registered(q) \ {o} /\ o \notin Registered(q)
        BY <1>4, <2>1, <2>4
      <3>2. QED BY <2>2, <3>1
    <2>5. QED BY <2>3, <2>4
  <1>6. /\ TableTyped'
        /\ \A q \in TrackedKeys : Entries(q)' = Entries(q)
        /\ \A y \in TrackedTypes : TypeExact(y)'
    BY <1>3, TableSame
  <1>7. \A q \in TrackedKeys : KeyExact(q)'
    BY <1>3, <1>5, <1>6, KeySame DEF TrackerInv
  <1>8. QED BY <1>4, <1>6, <1>7 DEF TrackerInv

LEMMA TrackerResetKeeps == TrackerInv /\ ResourceResetStats => TrackerInv'
  <1> SUFFICES ASSUME TrackerInv, ResourceResetStats PROVE TrackerInv'
    OBVIOUS
  <1>1. /\ trackerStats' = [y \in TrackedTypes |-> NoCounts]
        /\ trackerReset' = TRUE /\ UNCHANGED <<trackerTable, object, trackerEarly, trackerMissed>>
    BY DEF ResourceResetStats
  <1>2. NoCounts \in TrackedCounts /\ NoCounts.current = 0 /\ NoCounts.peak = 0
    BY DEF NoCounts, TrackedCounts
  <1>3. TableTyped' /\ ObjectsTyped'
    BY <1>1, <1>2 DEF TrackerInv, TableTyped, ObjectsTyped
  <1>4. \A k \in TrackedKeys : /\ Registered(k)' = Registered(k) /\ Overtaken(k)' = Overtaken(k)
                               /\ Entries(k)' = Entries(k)
    BY <1>1 DEF Registered, Overtaken, Entries
  <1>5. \A y \in TrackedTypes : Cardinality(Listed(y)') \in Nat
    <2>1. \A y \in TrackedTypes : Listed(y)' = Listed(y)
      BY <1>1 DEF Listed, ResourceCheckLeaks
    <2>2. QED BY <2>1, TrackerSizes
  <1>6. \A y \in TrackedTypes : TypeExact(y)'
    <2>1. \A y \in TrackedTypes : trackerStats'[y] = NoCounts
      BY <1>1
    <2>2. \A n \in Nat : 0 <= n
      OBVIOUS
    <2>3. QED BY <1>1, <1>2, <1>5, <2>1, <2>2 DEF TypeExact
  <1>7. \A k \in TrackedKeys : KeyExact(k)'
    BY <1>1, <1>4, KeySame DEF TrackerInv
  <1>8. QED BY <1>3, <1>6, <1>7 DEF TrackerInv

\* CheckLeaks names no object that was unregistered, unless one of its key was
\* unregistered before it was registered; it names every registered object, though
\* one was, unless an entry was dropped or one unregistered twice; and the counts
\* are exact until they are reset (osal_resource_tracker.c:72-190).
THEOREM TrackerExactAlways == TrackerSpec => []TrackerExact
  <1>1. TrackerInv /\ [TrackerNext]_trackerVars => TrackerInv'
    <2> SUFFICES ASSUME TrackerInv, [TrackerNext]_trackerVars PROVE TrackerInv'
      OBVIOUS
    <2>1. CASE UNCHANGED trackerVars
      BY <2>1
      DEF trackerVars, trackerHistory, TrackerInv, TableTyped, ObjectsTyped, KeyExact, TypeExact,
          Entries, Registered, Overtaken, Listed, ResourceCheckLeaks
    <2>2. QED
      BY <2>1, TrackerRegisterKeeps, TrackerUnregisterKeeps, TrackerObjectKeeps, TrackerResetKeeps
      DEF TrackerNext
  <1>2. TrackerInv => TrackerExact
    <2> SUFFICES ASSUME TrackerInv PROVE TrackerExact
      OBVIOUS
    <2>1. \A k \in TrackedKeys : KeyExact(k)
      BY DEF TrackerInv
    <2>2. \A y \in TrackedTypes :
            LET c == ResourceGetStats(y) IN
            /\ c.current <= Cardinality(Listed(y))
            /\ c.current <= c.peak
            /\ ~trackerReset => c.current = Cardinality(Listed(y)) /\ c.created = c.deleted + c.current
      BY DEF TrackerInv, TypeExact, ResourceGetStats
    <2>3. QED BY <2>1, <2>2 DEF TrackerExact, KeyExact, Listed
  <1>3. QED BY TrackerInvInit, <1>1, <1>2, PTL DEF TrackerSpec

-----------------------------------------------------------------------------
(* The heap monitor.                                                       *)

\* What HeapBytes chooses: the bytes of the subsets of S, one element at a time.
SumsUp(f, S, g) ==
  g = [s \in SUBSET S |-> IF s = {} THEN 0
                          ELSE f[CHOOSE x \in s : TRUE] + g[s \ {CHOOSE x \in s : TRUE}]]

LEMMA BytesChosen ==
  ASSUME NEW f, NEW S
  PROVE  HeapBytes(f, S) = (CHOOSE g : SumsUp(f, S, g))[S]
  BY DEF HeapBytes, MapThenSumSet, MapThenFoldSet, SumsUp

\* The bytes of a set of blocks, each with its number in its block: HeapBytes is
\* how many there are, which needs no induction to be taken apart.
BytePairs(f, S) == {p \in S \X Nat : p[2] \in 1..f[p[1]]}

\* The bytes of one block more.
LEMMA BytesOfOneMore ==
  ASSUME NEW U, NEW f \in [U -> Nat], NEW S \in SUBSET U, NEW x \in S,
         IsFiniteSet(BytePairs(f, S \ {x}))
  PROVE  /\ IsFiniteSet(BytePairs(f, S))
         /\ Cardinality(BytePairs(f, S)) = f[x] + Cardinality(BytePairs(f, S \ {x}))
  <1> DEFINE X == {x} \X (1..f[x])
             R == BytePairs(f, S \ {x})
  <1>1. BytePairs(f, S) = X \cup R /\ X \cap R = {}
    BY DEF BytePairs
  <1>2. IsFiniteSet({x}) /\ Cardinality({x}) = 1
    BY FS_Singleton
  <1>3. f[x] \in Nat
    OBVIOUS
  <1>4. IsFiniteSet(1..f[x]) /\ Cardinality(1..f[x]) = f[x]
    BY <1>3, FS_Interval
  <1>5. IsFiniteSet(X) /\ Cardinality(X) = 1 * f[x]
    BY <1>2, <1>4, FS_Product
  <1> HIDE DEF X, R
  <1>6. IsFiniteSet(R)
    BY DEF R
  <1>7. /\ IsFiniteSet(X \cup R)
        /\ Cardinality(X \cup R) = Cardinality(X) + Cardinality(R) - Cardinality(X \cap R)
    BY <1>5, <1>6, FS_Union
  <1>8. Cardinality(R) \in Nat /\ Cardinality(X \cap R) = 0
    BY <1>1, <1>6, FS_CardinalityType, FS_EmptySet
  <1>9. Cardinality(X) = f[x]
    BY <1>3, <1>5
  <1>10. Cardinality(X \cup R) = f[x] + Cardinality(R)
    BY <1>3, <1>7, <1>8, <1>9
  <1>11. QED BY <1>1, <1>7, <1>10 DEF R

\* The induction on the subsets of a finite set, with the one set of those whose
\* bytes are not finitely many: it has a least element, of which one block can be
\* taken away.
LEMMA BytesFinite ==
  ASSUME NEW U, IsFiniteSet(U), NEW f \in [U -> Nat]
  PROVE  \A S \in SUBSET U : IsFiniteSet(BytePairs(f, S))
  <1> DEFINE Bad == {S \in SUBSET U : ~IsFiniteSet(BytePairs(f, S))}
  <1>1. SUFFICES ASSUME Bad # {} PROVE FALSE
    OBVIOUS
  <1>2. IsWellFoundedOn(StrictSubsetOrdering(U), SUBSET U)
    BY FS_StrictSubsetOrderingWellFounded, FS_FiniteSubsetsOfFinite
  <1>3. Bad \subseteq SUBSET U
    OBVIOUS
  <1> HIDE DEF Bad
  <1>4. PICK S \in Bad : \A T \in Bad : <<T, S>> \notin StrictSubsetOrdering(U)
    BY <1>1, <1>2, <1>3, WFMin
  <1>5. S \in SUBSET U /\ ~IsFiniteSet(BytePairs(f, S))
    BY <1>4 DEF Bad
  <1>6. CASE S = {}
    <2>1. BytePairs(f, S) = {}
      BY <1>6 DEF BytePairs
    <2>2. QED BY <1>5, <2>1, FS_EmptySet
  <1>7. CASE S # {}
    <2>1. PICK x \in S : TRUE
      BY <1>7
    <2>2. S \ {x} \in SUBSET U /\ <<S \ {x}, S>> \in StrictSubsetOrdering(U)
      BY <1>5, <2>1 DEF StrictSubsetOrdering
    <2>3. IsFiniteSet(BytePairs(f, S \ {x}))
      BY <1>4, <2>2 DEF Bad
    <2>4. QED BY <1>5, <2>1, <2>3, BytesOfOneMore
  <1>8. QED BY <1>6, <1>7

\* HeapBytes counts the bytes: the counts satisfy the recursion, and no other
\* function does.
LEMMA BytesCounted ==
  ASSUME NEW U, IsFiniteSet(U), NEW f \in [U -> Nat], NEW S \in SUBSET U
  PROVE  /\ HeapBytes(f, S) = Cardinality(BytePairs(f, S))
         /\ HeapBytes(f, S) \in Nat
  <1> DEFINE c == [s \in SUBSET S |-> Cardinality(BytePairs(f, s))]
             g == CHOOSE h : SumsUp(f, S, h)
             Bad == {s \in SUBSET S : g[s] # c[s]}
  <1>1. IsFiniteSet(S) /\ \A s \in SUBSET S : IsFiniteSet(BytePairs(f, s))
    BY BytesFinite, FS_Subset
  <1>2. c[{}] = 0
    <2>1. BytePairs(f, {}) = {}
      BY DEF BytePairs
    <2>2. QED BY <2>1, FS_EmptySet
  <1>3. \A s \in SUBSET S : \A x \in s : c[s] = f[x] + c[s \ {x}]
    <2> SUFFICES ASSUME NEW s \in SUBSET S, NEW x \in s PROVE c[s] = f[x] + c[s \ {x}]
      OBVIOUS
    <2>1. IsFiniteSet(BytePairs(f, s \ {x}))
      BY <1>1
    <2>2. QED BY <2>1, BytesOfOneMore
  <1>4. c \in [SUBSET S -> Nat]
    BY <1>1, FS_CardinalityType
  <1>5. c = [s \in SUBSET S |-> c[s]]
    OBVIOUS
  <1> HIDE DEF c
  <1>6. SumsUp(f, S, c)
    <2>1. \A s \in SUBSET S : s # {} => (CHOOSE x \in s : TRUE) \in s
      OBVIOUS
    <2>2. \A s \in SUBSET S :
            c[s] = IF s = {} THEN 0
                   ELSE f[CHOOSE x \in s : TRUE] + c[s \ {CHOOSE x \in s : TRUE}]
      BY <1>2, <1>3, <2>1
    <2>3. QED BY <1>5, <2>2 DEF SumsUp
  <1>7. SumsUp(f, S, g)
    BY <1>6
  <1> HIDE DEF g
  <1>8. \A s \in SUBSET S :
          g[s] = IF s = {} THEN 0 ELSE f[CHOOSE x \in s : TRUE] + g[s \ {CHOOSE x \in s : TRUE}]
    BY <1>7 DEF SumsUp
  <1>9. Bad = {}
    <2>1. SUFFICES ASSUME Bad # {} PROVE FALSE
      OBVIOUS
    <2>2. IsWellFoundedOn(StrictSubsetOrdering(S), SUBSET S)
      BY <1>1, FS_StrictSubsetOrderingWellFounded, FS_FiniteSubsetsOfFinite
    <2>3. Bad \subseteq SUBSET S
      OBVIOUS
    <2> HIDE DEF Bad
    <2>4. PICK s \in Bad : \A t \in Bad : <<t, s>> \notin StrictSubsetOrdering(S)
      BY <2>1, <2>2, <2>3, WFMin
    <2>5. s \in SUBSET S /\ g[s] # c[s]
      BY <2>4 DEF Bad
    <2>6. s # {}
      BY <1>2, <1>8, <2>5
    <2> DEFINE x == CHOOSE x \in s : TRUE
    <2>7. x \in s
      BY <2>6
    <2>8. g[s] = f[x] + g[s \ {x}]
      BY <1>8, <2>5, <2>6
    <2> HIDE DEF x
    <2>9. s \ {x} \in SUBSET S /\ <<s \ {x}, s>> \in StrictSubsetOrdering(S)
      BY <2>5, <2>7 DEF StrictSubsetOrdering
    <2>10. g[s \ {x}] = c[s \ {x}]
      BY <2>4, <2>9 DEF Bad
    <2>11. QED BY <1>3, <2>5, <2>7, <2>8, <2>10
  <1>10. HeapBytes(f, S) = g[S]
    BY BytesChosen DEF g
  <1>11. g[S] = c[S]
    BY <1>9
  <1>12. QED BY <1>4, <1>10, <1>11 DEF c

\* A block more, and a block less.
LEMMA BytesWithout ==
  ASSUME NEW U, IsFiniteSet(U), NEW f \in [U -> Nat], NEW S \in SUBSET U, NEW x \in S
  PROVE  /\ HeapBytes(f, S) = f[x] + HeapBytes(f, S \ {x})
         /\ HeapBytes(f, S \ {x}) \in Nat
  <1>1. S \ {x} \in SUBSET U
    OBVIOUS
  <1>2. IsFiniteSet(BytePairs(f, S \ {x}))
    BY <1>1, BytesFinite
  <1>3. Cardinality(BytePairs(f, S)) = f[x] + Cardinality(BytePairs(f, S \ {x}))
    BY <1>2, BytesOfOneMore
  <1>4. HeapBytes(f, S) = Cardinality(BytePairs(f, S))
    BY BytesCounted
  <1>5. /\ HeapBytes(f, S \ {x}) = Cardinality(BytePairs(f, S \ {x}))
        /\ HeapBytes(f, S \ {x}) \in Nat
    BY <1>1, BytesCounted
  <1>6. QED BY <1>3, <1>4, <1>5

\* The sizes of the other blocks do not count.
LEMMA BytesAgree ==
  ASSUME NEW U, IsFiniteSet(U), NEW f \in [U -> Nat], NEW g \in [U -> Nat], NEW S \in SUBSET U,
         \A x \in S : f[x] = g[x]
  PROVE  HeapBytes(f, S) = HeapBytes(g, S)
  <1>1. BytePairs(f, S) = BytePairs(g, S)
    BY DEF BytePairs
  <1>2. QED BY <1>1, BytesCounted

HeapSizes == [b \in HeapBlocks |-> heapBlock[b].size]
HeapLive == {b \in HeapBlocks : heapBlock[b].at = "live"}

LEMMA HeapOutIs == HeapOut = HeapBytes(HeapSizes, HeapLive)
  BY DEF HeapOut, HeapSizes, HeapLive

\* The blocks that are out are less than 2^32 bytes in all.
HeapFits == HeapOut < HeapWord

\* What HeapUsage needs besides: the types, of words and blocks.
HeapInv ==
  /\ heapCurrent \in 0..(HeapWord - 1)
  /\ heapPeak \in 0..(HeapWord - 1)
  /\ heapBlock \in [HeapBlocks -> [at : {"free", "raw", "live", "uncounted"}, size : Nat]]
  /\ heapSampled \in BOOLEAN
  /\ heapCurrent <= heapPeak
  /\ ~heapSampled => heapCurrent = HeapOut

\* A block b that goes elsewhere than in or out of the count changes no sum.
LEMMA HeapOutOfOthers ==
  ASSUME HeapInv, NEW b \in HeapBlocks, NEW r \in [at : {"free", "raw", "uncounted"}, size : Nat],
         heapBlock[b].at # "live", heapBlock' = [heapBlock EXCEPT ![b] = r]
  PROVE  /\ HeapOut' = HeapOut
         /\ heapBlock' \in [HeapBlocks -> [at : {"free", "raw", "live", "uncounted"}, size : Nat]]
  <1>1. HeapSizes \in [HeapBlocks -> Nat] /\ HeapSizes' \in [HeapBlocks -> Nat]
    BY DEF HeapInv, HeapSizes
  <1>2. HeapLive' = HeapLive /\ HeapLive \in SUBSET HeapBlocks
    BY DEF HeapInv, HeapLive
  <1>3. \A x \in HeapLive : HeapSizes'[x] = HeapSizes[x]
    BY DEF HeapInv, HeapSizes, HeapLive
  <1>4. IsFiniteSet(HeapBlocks)
    BY HeapAssumption
  <1>5. HeapBytes(HeapSizes', HeapLive) = HeapBytes(HeapSizes, HeapLive)
    BY <1>1, <1>2, <1>3, <1>4, BytesAgree
  <1>6. HeapOut' = HeapBytes(HeapSizes', HeapLive')
    BY DEF HeapOut, HeapSizes, HeapLive
  <1>7. heapBlock' \in [HeapBlocks -> [at : {"free", "raw", "live", "uncounted"}, size : Nat]]
    BY DEF HeapInv
  <1>8. QED BY <1>2, <1>5, <1>6, <1>7, HeapOutIs

\* A block that is counted in, or out, takes its size with it.
LEMMA HeapOutOfCounted ==
  ASSUME HeapInv, NEW b \in HeapBlocks, NEW p \in {"live", "uncounted"},
         heapBlock[b].at = (IF p = "live" THEN "raw" ELSE "live"),
         heapBlock' = [heapBlock EXCEPT ![b].at = p]
  PROVE  /\ IF p = "live" THEN HeapOut' = heapBlock[b].size + HeapOut
                          ELSE HeapOut = heapBlock[b].size + HeapOut'
         /\ HeapOut \in Nat /\ HeapOut' \in Nat /\ heapBlock[b].size \in Nat
         /\ heapBlock' \in [HeapBlocks -> [at : {"free", "raw", "live", "uncounted"}, size : Nat]]
  <1>1. /\ heapBlock' \in [HeapBlocks -> [at : {"free", "raw", "live", "uncounted"}, size : Nat]]
        /\ heapBlock'[b].at = p /\ heapBlock'[b].size = heapBlock[b].size
        /\ \A x \in HeapBlocks \ {b} : heapBlock'[x] = heapBlock[x]
    BY DEF HeapInv
  <1>2. /\ HeapSizes \in [HeapBlocks -> Nat] /\ HeapSizes[b] = heapBlock[b].size
        /\ HeapSizes[b] \in Nat
    BY DEF HeapInv, HeapSizes
  <1>3. HeapSizes' = HeapSizes
    BY <1>1 DEF HeapInv, HeapSizes
  <1>4. HeapLive \in SUBSET HeapBlocks /\ HeapLive' \in SUBSET HeapBlocks
    BY DEF HeapLive
  <1>5. IsFiniteSet(HeapBlocks)
    BY HeapAssumption
  <1>6. HeapOut' = HeapBytes(HeapSizes, HeapLive')
    BY <1>3 DEF HeapOut, HeapSizes, HeapLive
  <1>7. HeapOut \in Nat /\ HeapOut' \in Nat
    BY <1>2, <1>4, <1>5, <1>6, HeapOutIs, BytesCounted
  <1>8. CASE p = "live"
    <2>1. b \in HeapLive' /\ HeapLive = HeapLive' \ {b}
      BY <1>1, <1>8 DEF HeapLive
    <2>2. HeapBytes(HeapSizes, HeapLive') = HeapSizes[b] + HeapBytes(HeapSizes, HeapLive' \ {b})
      BY <1>2, <1>4, <1>5, <2>1, BytesWithout
    <2>3. QED BY <1>1, <1>2, <1>6, <1>7, <1>8, <2>1, <2>2, HeapOutIs
  <1>9. CASE p = "uncounted"
    <2>1. b \in HeapLive /\ HeapLive' = HeapLive \ {b}
      BY <1>1, <1>9 DEF HeapLive
    <2>2. HeapBytes(HeapSizes, HeapLive) = HeapSizes[b] + HeapBytes(HeapSizes, HeapLive \ {b})
      BY <1>2, <1>4, <1>5, <2>1, BytesWithout
    <2>3. QED BY <1>1, <1>2, <1>6, <1>7, <1>9, <2>1, <2>2, HeapOutIs
  <1>10. QED BY <1>8, <1>9

\* The steps that leave the blocks alone.
LEMMA HeapOutOfSame == heapBlock' = heapBlock => HeapOut' = HeapOut
  BY DEF HeapOut

LEMMA HeapSampleKeeps ==
  ASSUME HeapInv, NEW p \in HeapProc, HeapSample(p), heapBlock' = heapBlock
  PROVE  HeapInv'
  <1>1. /\ HeapWord \in Nat \ {0}
        /\ p[1] \in 0..(HeapWord - 1)
    BY HeapAssumption
  <1>2. CASE p = <<0, 0>>
    BY <1>2, HeapOutOfSame DEF HeapInv, HeapSample, heapCounters
  <1>3. CASE p # <<0, 0>>
    <2>1. /\ heapCurrent' = p[1] /\ heapPeak' = Larger(heapPeak, p[1]) /\ heapSampled' = TRUE
      BY <1>3 DEF HeapSample
    <2>2. PICK n \in 0..(HeapWord - 1) : n = p[1]
      BY <1>1
    <2>3. heapPeak \in 0..(HeapWord - 1)
      BY DEF HeapInv
    <2>4. Larger(heapPeak, n) \in 0..(HeapWord - 1) /\ n <= Larger(heapPeak, n)
      BY <1>1, <2>3 DEF Larger
    <2>5. QED BY <2>1, <2>2, <2>4 DEF HeapInv
  <1>4. QED BY <1>2, <1>3

LEMMA HeapInvStep == HeapInv /\ HeapFits' /\ [HeapNext]_heapVars => HeapInv'
  <1> SUFFICES ASSUME HeapInv, HeapFits', [HeapNext]_heapVars PROVE HeapInv'
    OBVIOUS
  <1>1. HeapWord \in Nat \ {0} /\ BlockSizes \subseteq Nat
    BY HeapAssumption
  <1>2. ASSUME NEW b \in HeapBlocks, NEW n \in BlockSizes, HeapMalloc(b, n)
        PROVE  HeapInv'
    <2>1. [at |-> "raw", size |-> n] \in [at : {"free", "raw", "uncounted"}, size : Nat]
      BY <1>1
    <2>2. heapBlock[b].at # "live" /\ heapBlock' = [heapBlock EXCEPT ![b] = [at |-> "raw", size |-> n]]
      BY <1>2 DEF HeapMalloc
    <2>3. QED BY <1>2, <2>1, <2>2, HeapOutOfOthers DEF HeapMalloc, HeapInv, heapCounters
  <1>3. ASSUME NEW b \in HeapBlocks, HeapCount(b)
        PROVE  HeapInv'
    <2>1. heapBlock[b].at = "raw" /\ heapBlock' = [heapBlock EXCEPT ![b].at = "live"]
      BY <1>3 DEF HeapCount
    <2>2. /\ HeapOut' = heapBlock[b].size + HeapOut
          /\ HeapOut \in Nat /\ HeapOut' \in Nat /\ heapBlock[b].size \in Nat
          /\ heapBlock' \in [HeapBlocks -> [at : {"free", "raw", "live", "uncounted"}, size : Nat]]
      BY <2>1, HeapOutOfCounted
    <2>3. HeapOut' < HeapWord
      BY DEF HeapFits
    <2>4. /\ heapCurrent' = (heapCurrent + heapBlock[b].size) % HeapWord
          /\ heapPeak' = Larger(heapPeak, heapCurrent')
          /\ heapSampled' = heapSampled
      BY <1>3 DEF HeapCount
    <2>5. PICK n \in Nat : n = heapCurrent + heapBlock[b].size
      BY <2>2 DEF HeapInv
    <2>6. /\ n % HeapWord \in 0..(HeapWord - 1)
          /\ n < HeapWord => n % HeapWord = n
      BY <1>1
    <2>7. heapCurrent' = n % HeapWord
      BY <2>4, <2>5
    <2>8. /\ heapCurrent' \in 0..(HeapWord - 1) /\ heapPeak' \in 0..(HeapWord - 1)
          /\ heapCurrent' <= heapPeak'
      BY <1>1, <2>4, <2>6, <2>7 DEF HeapInv, Larger
    <2>9. ASSUME ~heapSampled' PROVE heapCurrent' = HeapOut'
      <3>1. heapCurrent = HeapOut
        BY <2>4, <2>9 DEF HeapInv
      <3>2. n = HeapOut'
        BY <2>2, <2>5, <3>1
      <3>3. QED BY <2>3, <2>6, <2>7, <3>2
    <2>10. QED BY <2>2, <2>4, <2>8, <2>9 DEF HeapInv
  <1>4. ASSUME NEW b \in HeapBlocks, HeapFree(b)
        PROVE  HeapInv'
    <2>1. heapBlock[b].at = "live" /\ heapBlock' = [heapBlock EXCEPT ![b].at = "uncounted"]
      BY <1>4 DEF HeapFree
    <2>2. /\ HeapOut = heapBlock[b].size + HeapOut'
          /\ HeapOut \in Nat /\ HeapOut' \in Nat /\ heapBlock[b].size \in Nat
          /\ heapBlock' \in [HeapBlocks -> [at : {"free", "raw", "live", "uncounted"}, size : Nat]]
      BY <2>1, HeapOutOfCounted
    <2>3. /\ heapCurrent' = IF heapBlock[b].size > heapCurrent THEN 0
                            ELSE heapCurrent - heapBlock[b].size
          /\ heapPeak' = heapPeak /\ heapSampled' = heapSampled
      BY <1>4 DEF HeapFree
    <2>4. /\ heapCurrent' \in 0..(HeapWord - 1) /\ heapCurrent' <= heapPeak'
      BY <1>1, <2>2, <2>3 DEF HeapInv
    <2>5. ASSUME ~heapSampled' PROVE heapCurrent' = HeapOut'
      BY <2>2, <2>3, <2>5 DEF HeapInv
    <2>6. QED BY <2>2, <2>3, <2>4, <2>5 DEF HeapInv
  <1>5. ASSUME NEW b \in HeapBlocks, HeapRelease(b)
        PROVE  HeapInv'
    <2>1. [at |-> "free", size |-> 0] \in [at : {"free", "raw", "uncounted"}, size : Nat]
      OBVIOUS
    <2>2. heapBlock[b].at # "live" /\ heapBlock' = [heapBlock EXCEPT ![b] = [at |-> "free", size |-> 0]]
      BY <1>5 DEF HeapRelease
    <2>3. QED BY <1>5, <2>1, <2>2, HeapOutOfOthers DEF HeapRelease, HeapInv, heapCounters
  <1>6. ASSUME NEW n \in HeapPercents, HeapSetThreshold(n)
        PROVE  HeapInv'
    BY <1>6, HeapOutOfSame DEF HeapSetThreshold, HeapInv, heapCounters
  <1>7. ASSUME NEW p \in HeapProc, HeapGetInfo(p)
        PROVE  HeapInv'
    BY <1>7, HeapSampleKeeps DEF HeapGetInfo
  <1>8. ASSUME NEW p \in HeapProc, NEW t \in HeapThreads, HeapCheckUsage(t, p)
        PROVE  HeapInv'
    BY <1>8, HeapSampleKeeps DEF HeapCheckUsage
  <1>9. ASSUME NEW t \in HeapThreads, HeapCheckThreshold(t)
        PROVE  HeapInv'
    BY <1>9, HeapOutOfSame DEF HeapCheckThreshold, HeapInv, heapCounters
  <1>10. CASE UNCHANGED heapVars
    BY <1>10, HeapOutOfSame DEF heapVars, HeapInv, heapCounters
  <1>11. QED
    BY <1>2, <1>3, <1>4, <1>5, <1>6, <1>7, <1>8, <1>9, <1>10 DEF HeapNext

\* The peak is never below the usage; and until /proc overwrites it the usage is the
\* sum of the blocks that are out, in whatever order blocks are counted in and out
\* and the usage is read, as long as they never are 2^32 bytes in all.
THEOREM HeapUsageAlways == HeapSpec /\ []HeapFits => []HeapUsage
  <1>1. HeapInit => HeapInv
    <2> SUFFICES ASSUME HeapInit PROVE HeapInv
      OBVIOUS
    <2>1. HeapWord \in Nat \ {0} /\ IsFiniteSet(HeapBlocks)
      BY HeapAssumption
    <2>2. HeapLive = {} /\ HeapSizes \in [HeapBlocks -> Nat]
      BY DEF HeapInit, HeapLive, HeapSizes
    <2>3. BytePairs(HeapSizes, {}) = {}
      BY DEF BytePairs
    <2>4. HeapOut = 0
      BY <2>1, <2>2, <2>3, HeapOutIs, BytesCounted, FS_EmptySet
    <2>5. 0 \in 0..(HeapWord - 1) /\ 0 <= 0
      BY <2>1
    <2>6. heapBlock \in [HeapBlocks -> [at : {"free", "raw", "live", "uncounted"}, size : Nat]]
      BY DEF HeapInit
    <2>7. heapCurrent = 0 /\ heapPeak = 0 /\ heapSampled = FALSE
      BY DEF HeapInit
    <2>8. QED BY <2>4, <2>5, <2>6, <2>7 DEF HeapInv
  <1>2. HeapInv => HeapUsage
    BY DEF HeapInv, HeapUsage, HeapGetStats
  <1>3. QED BY <1>1, HeapInvStep, <1>2, PTL DEF HeapSpec
\* What holds of the counters whatever is out: they are words, and what Free takes
\* off, less than nothing included, never leaves the usage above the peak.
HeapWords ==
  /\ heapCurrent \in 0..(HeapWord - 1)
  /\ heapPeak \in 0..(HeapWord - 1)
  /\ heapCurrent <= heapPeak
  /\ heapBlock \in [HeapBlocks -> [at : {"free", "raw", "live", "uncounted"}, size : Nat]]

LEMMA HeapWordsSample ==
  ASSUME HeapWords, NEW p \in HeapProc, HeapSample(p), heapBlock' = heapBlock
  PROVE  HeapWords'
  <1>1. HeapWord \in Nat \ {0} /\ p[1] \in 0..(HeapWord - 1)
    BY HeapAssumption
  <1>2. CASE p = <<0, 0>>
    BY <1>2 DEF HeapWords, HeapSample, heapCounters
  <1>3. CASE p # <<0, 0>>
    <2>1. heapCurrent' = p[1] /\ heapPeak' = Larger(heapPeak, p[1])
      BY <1>3 DEF HeapSample
    <2>2. PICK n \in 0..(HeapWord - 1) : n = p[1]
      BY <1>1
    <2>3. Larger(heapPeak, n) \in 0..(HeapWord - 1) /\ n <= Larger(heapPeak, n)
      BY <1>1 DEF HeapWords, Larger
    <2>4. QED BY <2>1, <2>2, <2>3 DEF HeapWords
  <1>4. QED BY <1>2, <1>3

LEMMA HeapWordsStep == HeapWords /\ [HeapNext]_heapVars => HeapWords'
  <1> SUFFICES ASSUME HeapWords, [HeapNext]_heapVars PROVE HeapWords'
    OBVIOUS
  <1>1. HeapWord \in Nat \ {0} /\ BlockSizes \subseteq Nat
    BY HeapAssumption
  <1>2. ASSUME NEW b \in HeapBlocks, NEW n \in BlockSizes, HeapMalloc(b, n)
        PROVE  HeapWords'
    BY <1>1, <1>2 DEF HeapMalloc, HeapWords, heapCounters
  <1>3. ASSUME NEW b \in HeapBlocks, HeapCount(b)
        PROVE  HeapWords'
    <2>1. PICK n \in Nat : n = heapCurrent + heapBlock[b].size
      BY DEF HeapWords
    <2>2. n % HeapWord \in 0..(HeapWord - 1)
      BY <1>1
    <2>3. heapCurrent' = n % HeapWord /\ heapPeak' = Larger(heapPeak, heapCurrent')
      BY <1>3, <2>1 DEF HeapCount
    <2>4. /\ heapCurrent' \in 0..(HeapWord - 1) /\ heapPeak' \in 0..(HeapWord - 1)
          /\ heapCurrent' <= heapPeak'
      BY <1>1, <2>2, <2>3 DEF HeapWords, Larger
    <2>5. QED BY <1>3, <2>4 DEF HeapCount, HeapWords
  <1>4. ASSUME NEW b \in HeapBlocks, HeapFree(b)
        PROVE  HeapWords'
    <2>1. heapBlock[b].size \in Nat
      BY DEF HeapWords
    <2>2. heapCurrent' \in 0..(HeapWord - 1) /\ heapCurrent' <= heapPeak /\ heapPeak' = heapPeak
      BY <1>1, <1>4, <2>1 DEF HeapFree, HeapWords
    <2>3. QED BY <1>4, <2>2 DEF HeapFree, HeapWords
  <1>5. ASSUME NEW b \in HeapBlocks, HeapRelease(b)
        PROVE  HeapWords'
    BY <1>5 DEF HeapRelease, HeapWords, heapCounters
  <1>6. ASSUME NEW p \in HeapProc, HeapGetInfo(p) \/ \E t \in HeapThreads : HeapCheckUsage(t, p)
        PROVE  HeapWords'
    BY <1>6, HeapWordsSample DEF HeapGetInfo, HeapCheckUsage
  <1>7. CASE \/ \E n \in HeapPercents : HeapSetThreshold(n)
             \/ \E t \in HeapThreads : HeapCheckThreshold(t)
             \/ UNCHANGED heapVars
    BY <1>7 DEF HeapSetThreshold, HeapCheckThreshold, heapVars, HeapWords, heapCounters
  <1>8. QED BY <1>2, <1>3, <1>4, <1>5, <1>6, <1>7 DEF HeapNext

\* The counters of the heap stay words, and the peak is never below the usage, even
\* when the blocks that are out are more than a word can count.
THEOREM HeapWordsAlways == HeapSpec => []HeapWords
  <1>1. HeapInit => HeapWords
    BY HeapAssumption DEF HeapInit, HeapWords
  <1>2. QED BY <1>1, HeapWordsStep, PTL DEF HeapSpec

-----------------------------------------------------------------------------
(* The application.                                                        *)

\* main before it asks the statistics task to end.
AppCreating == {<<"create", "queue">>, <<"create", "worker">>, <<"create", "stats">>}
AppEarly == AppCreating \cup {<<"run">>, <<"delete", "worker">>, <<"join", "worker">>}
AppClosing ==
  {<<"delete", "stats">>, <<"join", "stats">>, <<"delete", "queue">>, <<"exited">>}

\* The statistics task runs as long as the worker may need it: until then it is not
\* asked to end and the queue is there.
AppInv ==
  /\ appMain \in AppEarly \cup AppClosing
  /\ appTask \in [AppTasks ->
                   {"none", "check", "put", "delay", "begin", "get", "ended"}]
  /\ appShut \in [AppTasks -> BOOLEAN]
  /\ appMain \in AppCreating => ~Created("stats")
  /\ appMain = <<"create", "stats">> => Created("worker")
  /\ Created("stats") => Created("worker")
  /\ appMain \in AppEarly =>
       ~appShut["stats"] /\ appTask["stats"] # "ended" /\ appQueue # "deleted"
  /\ appMain \in AppClosing => (Created("stats") => appTask["worker"] = "ended")

\* The cleanup begins with the worker.
LEMMA CleanupWorker == Cleanup = <<"delete", "worker">>
  <1>1. \A t \in AppTasks : (\A u \in AppTasks : AfterDelete(u) # t) <=> t = "worker"
    BY DEF AppTasks, AfterDelete
  <1>2. (CHOOSE t \in AppTasks : \A u \in AppTasks : AfterDelete(u) # t) = "worker"
    BY <1>1 DEF AppTasks
  <1>3. QED BY <1>2 DEF Cleanup

\* main goes on.
LEMMA AppMainInv == AppInv /\ MainStep => AppInv'
  <1> SUFFICES ASSUME AppInv, MainStep PROVE AppInv'
    OBVIOUS
  <1> USE DEF AppInv, AppTasks, AppCreating, AppEarly, AppClosing, Created
  <1>1. CASE MainCreatesQueue
    BY <1>1, CleanupWorker DEF MainCreatesQueue
  <1>2. CASE MainCreates("worker", <<"create", "stats">>)
    BY <1>2, CleanupWorker DEF MainCreates, TaskGoto
  <1>3. CASE MainCreates("stats", <<"run">>)
    BY <1>3, CleanupWorker DEF MainCreates, TaskGoto
  <1>4. CASE MainStops
    BY <1>4, CleanupWorker DEF MainStops
  <1>5. CASE MainAsks("worker")
    <2>1. /\ appMain = <<"delete", "worker">> /\ appTask' = appTask /\ appQueue' = appQueue
          /\ \/ appMain' = <<"join", "worker">> /\ appShut' = [appShut EXCEPT !["worker"] = TRUE]
             \/ ~Created("worker") /\ appMain' = <<"delete", "stats">> /\ appShut' = appShut
      BY <1>5 DEF MainAsks, AfterDelete
    <2>2. appShut' \in [AppTasks -> BOOLEAN] /\ appShut'["stats"] = appShut["stats"]
      BY <2>1
    <2>3. QED BY <2>1, <2>2
  <1>6. CASE MainAsks("stats")
    <2>1. /\ appMain = <<"delete", "stats">> /\ appTask' = appTask /\ appQueue' = appQueue
          /\ \/ appMain' = <<"join", "stats">> /\ appShut' = [appShut EXCEPT !["stats"] = TRUE]
             \/ appMain' = <<"delete", "queue">> /\ appShut' = appShut
      BY <1>6 DEF MainAsks, AfterDelete
    <2>2. appShut' \in [AppTasks -> BOOLEAN]
      BY <2>1
    <2>3. QED BY <2>1, <2>2
  <1>7. CASE MainJoins("worker") \/ MainJoins("stats")
    BY <1>7 DEF MainJoins, AfterDelete
  <1>8. CASE MainTimesOut("worker") \/ MainTimesOut("stats")
    BY <1>8 DEF MainTimesOut, Outlasts, AfterDelete
  <1>9. CASE MainDeletesQueue
    BY <1>9 DEF MainDeletesQueue
  <1>10. QED
    BY <1>1, <1>2, <1>3, <1>4, <1>5, <1>6, <1>7, <1>8, <1>9 DEF MainStep

\* The tasks go on.
LEMMA AppTasksInv == AppInv /\ (SignalHandler \/ WorkerStep \/ StatsStep) => AppInv'
  <1> SUFFICES ASSUME AppInv, SignalHandler \/ WorkerStep \/ StatsStep PROVE AppInv'
    OBVIOUS
  <1> USE DEF AppInv, AppTasks, AppCreating, AppEarly, AppClosing, Created
  <1>1. CASE SignalHandler
    BY <1>1 DEF SignalHandler
  <1>2. CASE TaskChecks("worker", "put")
    BY <1>2 DEF TaskChecks, Runs, TaskGoto
  <1>3. CASE WorkerPuts \/ WorkerDelays
    BY <1>3 DEF WorkerPuts, WorkerDelays, Runs, TaskGoto
  <1>4. CASE TaskChecks("stats", "begin")
    BY <1>4 DEF TaskChecks, Runs, TaskGoto
  <1>5. CASE StatsBegins \/ StatsGets \/ StatsTimesOut
    BY <1>5 DEF StatsBegins, StatsGets, StatsTimesOut, Runs, TaskGoto
  <1>6. CASE StatsBreaks
    BY <1>6 DEF StatsBreaks, Runs, TaskGoto
  <1>7. QED BY <1>1, <1>2, <1>3, <1>4, <1>5, <1>6 DEF WorkerStep, StatsStep

\* When main has returned, and both tasks ran, the worker has ended: it is never
\* left behind, blocked on the full queue.
THEOREM AppLeavesNoWorker == AppSpec => []NoWorkerLeft
  <1>1. AppInit => AppInv
    BY DEF AppInit, AppInv, AppTasks, AppCreating, AppEarly, AppClosing, Created
  <1>2. AppInv /\ [AppNext]_appVars => AppInv'
    <2>1. AppInv /\ UNCHANGED appVars => AppInv'
      BY DEF appVars, AppInv, Created
    <2>2. QED BY <2>1, AppMainInv, AppTasksInv DEF AppNext
  <1>3. AppInv => NoWorkerLeft
    BY DEF AppInv, NoWorkerLeft, AppClosing, AppEarly
  <1>4. QED BY <1>1, <1>2, <1>3, PTL DEF AppSpec
=============================================================================
