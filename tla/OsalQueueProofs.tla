-------------------------- MODULE OsalQueueProofs --------------------------
(***************************************************************************)
(* Proofs about OsalQueue, for any threads, slots, ids, depth and messages.*)
(***************************************************************************)
EXTENDS OsalQueue, FiniteSetTheorems, SequenceTheorems, TLAPS

-----------------------------------------------------------------------------
(* The ring.                                                               *)

\* The index arithmetic of the ring stays inside the buffer.
LEMMA NextCell ==
  ASSUME NEW k \in 0..(Depth - 1)
  PROVE  (k + 1) % Depth \in 0..(Depth - 1)
  BY QueueAssumption

\* A created queue has an empty ring of the right type.
LEMMA EmptyRingType == EmptyRing \in RingType
  BY QueueAssumption DEF EmptyRing, RingType

\* OSAL_QueuePut keeps the ring well-formed when there is room.
LEMMA WrittenType ==
  ASSUME NEW r \in RingType, NEW m \in Msgs, r.count < Depth
  PROVE  Written(r, m) \in RingType
  <1>1. (r.tail + 1) % Depth \in 0..(Depth - 1)
    BY NextCell DEF RingType
  <1>2. [r.buf EXCEPT ![r.tail] = m] \in [0..(Depth - 1) -> Msgs \cup {NoMsg}]
    BY DEF RingType
  <1>3. r.count + 1 \in 0..Depth /\ r.head \in 0..(Depth - 1)
    BY QueueAssumption DEF RingType
  <1>4. QED BY <1>1, <1>2, <1>3 DEF Written, RingType

\* OSAL_QueueGet keeps the ring well-formed when there is a message, and
\* what it copies is a cell of the buffer.
LEMMA TakenType ==
  ASSUME NEW r \in RingType, r.count > 0
  PROVE  Taken(r) \in RingType /\ r.buf[r.head] \in Msgs \cup {NoMsg}
  <1>1. (r.head + 1) % Depth \in 0..(Depth - 1)
    BY NextCell DEF RingType
  <1>2. r.count - 1 \in 0..Depth
    BY QueueAssumption DEF RingType
  <1>3. QED BY <1>1, <1>2 DEF Taken, RingType

-----------------------------------------------------------------------------
(* Types.                                                                  *)

\* A caller inside a call that leaves it keeps the types of its locals.
LEMMA LeaveType ==
  ASSUME TypeOK, NEW t \in Threads, Leave(t)
  PROVE  /\ pc' \in [Threads -> Pcs]
         /\ op' \in [Threads -> {"none", "create", "put", "get", "delete"}]
         /\ cur' \in [Threads -> 0..MaxId]
         /\ arg' \in [Threads -> Msgs \cup {TooBig} \cup Modes \cup Names \cup {None}]
         /\ slot' \in [Threads -> 0..NSlots]
         /\ res' \in [Threads -> Results]
         /\ hand' \in [Threads -> Msgs \cup {NoMsg}]
  BY QueueAssumption DEF TypeOK, Leave, Pcs, Results

\* The same for the end of osal_queue_release.
LEMMA ReturnType ==
  ASSUME TypeOK, NEW t \in Threads, Return(t)
  PROVE  /\ pc' \in [Threads -> Pcs]
         /\ op' \in [Threads -> {"none", "create", "put", "get", "delete"}]
         /\ cur' \in [Threads -> 0..MaxId]
         /\ arg' \in [Threads -> Msgs \cup {TooBig} \cup Modes \cup Names \cup {None}]
         /\ slot' \in [Threads -> 0..NSlots]
         /\ res' \in [Threads -> Results]
         /\ hand' \in [Threads -> Msgs \cup {NoMsg}]
  <1>1. CASE op[t] = "delete"
    BY <1>1 DEF Return, TypeOK, Pcs
  <1>2. CASE op[t] # "delete"
    BY <1>2, LeaveType DEF Return
  <1>3. QED BY <1>1, <1>2

\* A thread on its way to osal_queue_release holds a reference, so the
\* count it is about to decrement is not 0.
LEMMA HolderCounted ==
  ASSUME TypeOK, RefCountExact, NEW t \in Threads, pc[t] \in HoldPcs,
         cur[t] \in Ids
  PROVE  refs[cur[t]] >= 1
  <1>1. IsFiniteSet(Holders(cur[t]))
    BY FS_Subset, QueueAssumption DEF Holders
  <1>2. t \in Holders(cur[t])
    BY DEF Holders
  <1>3. Cardinality(Holders(cur[t])) \in Nat /\ Cardinality(Holders(cur[t])) # 0
    BY <1>1, <1>2, FS_CardinalityType, FS_EmptySet
  <1>4. QED BY <1>3 DEF RefCountExact

\* Every step keeps the type invariant.
LEMMA TypeStep == LifeInv /\ [Next]_vars => TypeOK'
  <1> SUFFICES ASSUME LifeInv, [Next]_vars PROVE TypeOK'
    OBVIOUS
  <1>0. TypeOK /\ LocalInv /\ RefCountExact
    BY DEF LifeInv
  <1>1. ASSUME NEW t \in Threads, NEW n \in Names, CreateFind(t, n) PROVE TypeOK'
    BY <1>0, <1>1, QueueAssumption
       DEF CreateFind, Enter, shared, TypeOK, Pcs, Slots
  <1>2. ASSUME NEW t \in Threads, NEW i \in Ids, NEW m \in Msgs \cup {TooBig},
               PutCall(t, i, m)
        PROVE  TypeOK'
    BY <1>0, <1>2, QueueAssumption DEF PutCall, Acquire, Enter, TypeOK, Pcs, Ids
  <1>3. ASSUME NEW t \in Threads, NEW i \in Ids, NEW mode \in Modes,
               GetCall(t, i, mode)
        PROVE  TypeOK'
    BY <1>0, <1>3, QueueAssumption DEF GetCall, Acquire, Enter, TypeOK, Pcs, Ids
  <1>4. ASSUME NEW t \in Threads, NEW i \in Ids, DeleteCall(t, i) PROVE TypeOK'
    <2>1. tbl' \in [Slots -> [used : BOOLEAN, id : 0..MaxId,
                              name : Names \cup {None}]]
      <3>1. PICK s \in Slots :
              tbl' = [tbl EXCEPT ![s] = [@ EXCEPT !.used = FALSE]]
        BY <1>4 DEF DeleteCall
      <3>2. [tbl[s] EXCEPT !.used = FALSE]
              \in [used : BOOLEAN, id : 0..MaxId, name : Names \cup {None}]
        BY <1>0 DEF TypeOK
      <3>3. QED BY <1>0, <3>1, <3>2 DEF TypeOK
    <2>2. QED BY <1>0, <1>4, <2>1, QueueAssumption DEF DeleteCall, Enter, TypeOK, Pcs, Ids
  <1>5. ASSUME NEW t \in Threads, CreateFill(t) PROVE TypeOK'
    <2>1. nextId \in Ids /\ arg[t] \in Names /\ slot[t] \in Slots /\ Leave(t)
      BY <1>0, <1>5, QueueAssumption DEF CreateFill, NewQueue, TypeOK, LocalInv, Ids
    <2>2. tbl' \in [Slots -> [used : BOOLEAN, id : 0..MaxId,
                              name : Names \cup {None}]]
      BY <1>0, <1>5, <2>1 DEF CreateFill, NewQueue, TypeOK, Ids
    <2>3. /\ nextId' \in 1..(MaxId + 1)
          /\ mem' \in [Ids -> {"none", "live", "freed"}]
          /\ valid' \in [Ids -> BOOLEAN]
          /\ refs' \in [Ids -> Nat]
          /\ ring' \in [Ids -> RingType]
          /\ tracked' \subseteq Ids
      BY <1>0, <1>5, <2>1, EmptyRingType, QueueAssumption
         DEF CreateFill, NewQueue, TypeOK, Ids
    <2>4. QED BY <1>0, <2>1, <2>2, <2>3, LeaveType DEF TypeOK
  <1>6. ASSUME NEW t \in Threads, CreateFail(t) PROVE TypeOK'
    BY <1>0, <1>6, LeaveType DEF CreateFail, shared, TypeOK
  <1>7. ASSUME NEW t \in Threads, PutOversize(t) PROVE TypeOK'
    BY <1>0, <1>7 DEF PutOversize, Finish, shared, TypeOK, Pcs, Results
  <1>8. ASSUME NEW t \in Threads, PutInvalid(t) PROVE TypeOK'
    BY <1>0, <1>8 DEF PutInvalid, Finish, shared, TypeOK, Pcs, Results
  <1>9. ASSUME NEW t \in Threads, PutWait(t) PROVE TypeOK'
    BY <1>0, <1>9 DEF PutWait, shared, TypeOK, Pcs
  <1>10. ASSUME NEW t \in Threads, PutStore(t) PROVE TypeOK'
    <2>1. cur[t] \in Ids /\ arg[t] \in Msgs
      BY <1>0, <1>10 DEF PutStore, PutRuns, LocalInv, Uses, HoldPcs
    <2>2. ring' \in [Ids -> RingType]
      BY <1>0, <1>10, <2>1, WrittenType DEF PutStore, HasRoom, TypeOK
    <2>3. pc' \in [Threads -> Pcs]
      BY <1>0, <1>10 DEF PutStore, SignalAndRelease, NotEmptyWaiters, TypeOK, Pcs
    <2>4. res' \in [Threads -> Results]
      BY <1>0, <1>10 DEF PutStore, TypeOK, Results
    <2>5. QED BY <1>0, <1>10, <2>2, <2>3, <2>4 DEF PutStore, TypeOK
  <1>11. ASSUME NEW t \in Threads, GetInvalid(t) PROVE TypeOK'
    BY <1>0, <1>11 DEF GetInvalid, Finish, shared, TypeOK, Pcs, Results
  <1>12. ASSUME NEW t \in Threads, GetEmpty(t) PROVE TypeOK'
    BY <1>0, <1>12 DEF GetEmpty, Finish, shared, TypeOK, Pcs, Results
  <1>13. ASSUME NEW t \in Threads, GetWait(t) PROVE TypeOK'
    BY <1>0, <1>13 DEF GetWait, shared, TypeOK, Pcs
  <1>14. ASSUME NEW t \in Threads, GetTimeout(t) PROVE TypeOK'
    BY <1>0, <1>14 DEF GetTimeout, Finish, shared, TypeOK, Pcs, Results
  <1>15. ASSUME NEW t \in Threads, GetTake(t) PROVE TypeOK'
    <2>1. cur[t] \in Ids
      BY <1>0, <1>15 DEF GetTake, CanTake, GetRuns, LocalInv, Uses, HoldPcs
    <2>2. /\ ring' \in [Ids -> RingType]
          /\ hand' \in [Threads -> Msgs \cup {NoMsg}]
      BY <1>0, <1>15, <2>1, TakenType DEF GetTake, CanTake, TypeOK
    <2>3. pc' \in [Threads -> Pcs]
      BY <1>0, <1>15 DEF GetTake, SignalAndRelease, NotFullWaiters, TypeOK, Pcs
    <2>4. res' \in [Threads -> Results]
      BY <1>0, <1>15 DEF GetTake, TypeOK, Results
    <2>5. QED BY <1>0, <1>15, <2>2, <2>3, <2>4 DEF GetTake, TypeOK
  <1>16. ASSUME NEW t \in Threads, DeleteMark(t) PROVE TypeOK'
    BY <1>0, <1>16 DEF DeleteMark, AfterBroadcast, TypeOK, Pcs, Results
  <1>17. ASSUME NEW t \in Threads, Release(t) PROVE TypeOK'
    <2>1. cur[t] \in Ids /\ refs[cur[t]] >= 1
      BY <1>0, <1>17, HolderCounted DEF Release, LocalInv, Uses, HoldPcs
    <2>2. refs' \in [Ids -> Nat]
      BY <1>0, <1>17, <2>1 DEF Release, TypeOK
    <2>3. CASE refs[cur[t]] = 1
      BY <1>0, <1>17, <2>2, <2>3 DEF Release, TypeOK, Pcs
    <2>4. CASE refs[cur[t]] # 1
      <3>1. Return(t)
        BY <1>17, <2>4 DEF Release
      <3>2. QED BY <1>0, <1>17, <2>2, <3>1, ReturnType DEF Release, TypeOK
    <2>5. QED BY <2>3, <2>4
  <1>18. ASSUME NEW t \in Threads, Drop(t) PROVE TypeOK'
    <2>1. Return(t)
      BY <1>18 DEF Drop
    <2>2. mem' \in [Ids -> {"none", "live", "freed"}] /\ ring' \in [Ids -> RingType]
      BY <1>0, <1>18, EmptyRingType DEF Drop, TypeOK
    <2>3. QED BY <1>0, <1>18, <2>1, <2>2, ReturnType DEF Drop, TypeOK
  <1>19. ASSUME NEW t \in Threads, Unregister(t) PROVE TypeOK'
    BY <1>0, <1>19, LeaveType DEF Unregister, TypeOK
  <1>20. ASSUME NEW t \in Threads, GetExpire(t) PROVE TypeOK'
    BY <1>0, <1>20 DEF GetExpire, shared, TypeOK, Pcs
  <1>21. ASSUME NEW t \in Threads, SpuriousWake(t) PROVE TypeOK'
    BY <1>0, <1>21 DEF SpuriousWake, shared, TypeOK, Pcs
  <1>22. CASE UNCHANGED vars
    BY <1>0, <1>22 DEF vars, TypeOK
  <1>23. QED
    BY <1>1, <1>2, <1>3, <1>4, <1>5, <1>6, <1>7, <1>8, <1>9, <1>10, <1>11,
       <1>12, <1>13, <1>14, <1>15, <1>16, <1>17, <1>18, <1>19, <1>20, <1>21,
       <1>22 DEF Next, Call, Step

-----------------------------------------------------------------------------
(* The initial state.                                                      *)

\* In the initial state no queue exists and no call is in progress.
LEMMA InitLife == Init => LifeInv
  <1> SUFFICES ASSUME Init PROVE LifeInv
    OBVIOUS
  <1>1. TypeOK
    BY EmptyRingType, QueueAssumption DEF Init, TypeOK, Pcs, Results
  <1>2. LocalInv /\ NoUseAfterFree /\ DropInv
    BY DEF Init, LocalInv, NoUseAfterFree, DropInv, Uses, HoldPcs
  <1>3. FreshInv /\ TableLive /\ DeleteInv
    BY DEF Init, FreshInv, TableLive, DeleteInv
  <1>4. RefCountExact
    <2>1. \A i \in Ids : Holders(i) = {}
      BY DEF Init, Holders, HoldPcs
    <2>2. \A i \in Ids : Cardinality(Holders(i)) = 0
      BY <2>1, FS_EmptySet
    <2>3. \A i \in Ids : ~Owned(i)
      BY DEF Init, Owned
    <2>4. \A i \in Ids : refs[i] = 0
      BY DEF Init
    <2>5. QED BY <2>2, <2>3, <2>4 DEF RefCountExact
  <1>5. QED BY <1>1, <1>2, <1>3, <1>4 DEF LifeInv

-----------------------------------------------------------------------------
(* What a thread knows of its arguments.                                   *)

\* Every step keeps LocalInv: a thread's arguments are set when it enters a
\* call, and cleared when it leaves.
LEMMA LocalStep == LifeInv /\ [Next]_vars => LocalInv'
  <1> SUFFICES ASSUME LifeInv, [Next]_vars PROVE LocalInv'
    OBVIOUS
  <1>0. TypeOK /\ LocalInv
    BY DEF LifeInv
  <1> USE DEF LocalInv, Uses, HoldPcs
  <1>1. ASSUME NEW t \in Threads, NEW n \in Names, CreateFind(t, n) PROVE LocalInv'
    BY <1>0, <1>1 DEF CreateFind, Enter, TypeOK
  <1>2. ASSUME NEW t \in Threads, NEW i \in Ids, NEW m \in Msgs \cup {TooBig},
               PutCall(t, i, m)
        PROVE  LocalInv'
    BY <1>0, <1>2 DEF PutCall, Enter, TypeOK
  <1>3. ASSUME NEW t \in Threads, NEW i \in Ids, NEW mode \in Modes,
               GetCall(t, i, mode)
        PROVE  LocalInv'
    BY <1>0, <1>3 DEF GetCall, Enter, TypeOK
  <1>4. ASSUME NEW t \in Threads, NEW i \in Ids, DeleteCall(t, i) PROVE LocalInv'
    BY <1>0, <1>4 DEF DeleteCall, Enter, TypeOK
  <1>5. ASSUME NEW t \in Threads, Leave(t) PROVE LocalInv'
    BY <1>0, <1>5 DEF Leave, TypeOK
  <1>6. ASSUME NEW t \in Threads, NEW r \in Results, Finish(t, r),
               cur[t] \in Ids
        PROVE  LocalInv'
    BY <1>0, <1>6 DEF Finish, TypeOK
  <1>7. ASSUME NEW t \in Threads, Return(t), cur[t] \in Ids PROVE LocalInv'
    BY <1>0, <1>5, <1>7 DEF Return, TypeOK
  <1>8. ASSUME NEW t \in Threads, PutWait(t) PROVE LocalInv'
    BY <1>0, <1>8 DEF PutWait, PutRuns, TypeOK
  <1>9. ASSUME NEW t \in Threads, PutStore(t) PROVE LocalInv'
    BY <1>0, <1>9 DEF PutStore, PutRuns, SignalAndRelease, NotEmptyWaiters, TypeOK
  <1>10. ASSUME NEW t \in Threads, GetWait(t) \/ GetExpire(t) PROVE LocalInv'
    BY <1>0, <1>10 DEF GetWait, GetRuns, GetExpire, TypeOK
  <1>11. ASSUME NEW t \in Threads, GetTake(t) PROVE LocalInv'
    BY <1>0, <1>11 DEF GetTake, CanTake, GetRuns, SignalAndRelease,
                       NotFullWaiters, TypeOK
  <1>12. ASSUME NEW t \in Threads, DeleteMark(t) PROVE LocalInv'
    BY <1>0, <1>12 DEF DeleteMark, AfterBroadcast, TypeOK
  <1>13. ASSUME NEW t \in Threads, Release(t) PROVE LocalInv'
    <2>1. cur[t] \in Ids
      BY <1>0, <1>13 DEF Release
    <2>2. CASE refs[cur[t]] = 1
      BY <1>0, <1>13, <2>1, <2>2 DEF Release, TypeOK
    <2>3. CASE refs[cur[t]] # 1
      BY <1>7, <1>13, <2>1, <2>3 DEF Release
    <2>4. QED BY <2>2, <2>3
  <1>14. ASSUME NEW t \in Threads, Drop(t) PROVE LocalInv'
    BY <1>0, <1>7, <1>14 DEF Drop
  <1>15. ASSUME NEW t \in Threads, SpuriousWake(t) PROVE LocalInv'
    BY <1>0, <1>15 DEF SpuriousWake, TypeOK
  <1>16. ASSUME NEW t \in Threads, PutOversize(t) \/ PutInvalid(t) PROVE LocalInv'
    BY <1>0, <1>6, <1>16 DEF PutOversize, PutInvalid, PutRuns, Results
  <1>17. ASSUME NEW t \in Threads, GetInvalid(t) \/ GetEmpty(t) \/ GetTimeout(t)
         PROVE  LocalInv'
    BY <1>0, <1>6, <1>17 DEF GetInvalid, GetEmpty, GetTimeout, GetRuns, Results
  <1>18. CASE UNCHANGED vars
    BY <1>0, <1>18 DEF vars
  <1>19. QED
    BY <1>1, <1>2, <1>3, <1>4, <1>5, <1>8, <1>9, <1>10, <1>11, <1>12, <1>13,
       <1>14, <1>15, <1>16, <1>17, <1>18
       DEF Next, Call, Step, CreateFill, CreateFail, Unregister

-----------------------------------------------------------------------------
(* The life of a queue: steps that change neither the table nor a count.   *)

\* What is left of LifeInv once TypeStep and LocalStep are done.
RestInv ==
  /\ FreshInv
  /\ NoUseAfterFree
  /\ RefCountExact
  /\ TableLive
  /\ DeleteInv
  /\ DropInv

QuietPcs == HoldPcs \ {"delete"}

\* A step that moves threads inside calls, from one point at which they hold
\* a reference to another, keeps the invariant.
LEMMA QuietStep ==
  ASSUME LifeInv,
         UNCHANGED <<tbl, nextId, mem, valid, refs, cur>>,
         \A u \in Threads :
           pc'[u] = pc[u] \/ (pc[u] \in QuietPcs /\ pc'[u] \in QuietPcs)
  PROVE  RestInv'
  <1> USE DEF QuietPcs, HoldPcs
  <1>0. TypeOK /\ RestInv
    BY DEF LifeInv, RestInv
  <1>1. FreshInv' /\ TableLive'
    BY <1>0 DEF RestInv, FreshInv, TableLive
  <1>2. NoUseAfterFree'
    BY <1>0 DEF RestInv, NoUseAfterFree, Uses
  <1>3. RefCountExact'
    <2>1. \A i \in Ids : Holders(i)' = Holders(i)
      BY DEF Holders
    <2>2. \A i \in Ids : Owned(i)' <=> Owned(i)
      BY DEF Owned
    <2>3. QED BY <1>0, <2>1, <2>2 DEF RestInv, RefCountExact
  <1>4. DeleteInv'
    BY <1>0 DEF RestInv, DeleteInv, InTable
  <1>5. DropInv'
    BY <1>0 DEF RestInv, DropInv
  <1>6. QED BY <1>1, <1>2, <1>3, <1>4, <1>5 DEF RestInv

OutsidePcs == {"idle", "create", "unregister"}

\* A step of a thread that holds no reference and takes none keeps the
\* invariant.
LEMMA OutsideStep ==
  ASSUME LifeInv, NEW t \in Threads,
         pc[t] \in OutsidePcs, pc'[t] \in OutsidePcs,
         \A u \in Threads \ {t} : pc'[u] = pc[u] /\ cur'[u] = cur[u],
         UNCHANGED <<tbl, nextId, mem, valid, refs>>
  PROVE  RestInv'
  <1> USE DEF OutsidePcs, HoldPcs
  <1>0. TypeOK /\ RestInv
    BY DEF LifeInv, RestInv
  <1>1. FreshInv' /\ TableLive'
    BY <1>0 DEF RestInv, FreshInv, TableLive
  <1>2. NoUseAfterFree'
    BY <1>0 DEF RestInv, NoUseAfterFree, Uses
  <1>3. RefCountExact'
    <2>1. \A i \in Ids : Holders(i)' = Holders(i)
      BY DEF Holders
    <2>2. \A i \in Ids : Owned(i)' <=> Owned(i)
      BY DEF Owned
    <2>3. QED BY <1>0, <2>1, <2>2 DEF RestInv, RefCountExact
  <1>4. DeleteInv'
    BY <1>0 DEF RestInv, DeleteInv, InTable
  <1>5. DropInv'
    BY <1>0 DEF RestInv, DropInv
  <1>6. QED BY <1>1, <1>2, <1>3, <1>4, <1>5 DEF RestInv

-----------------------------------------------------------------------------
(* The life of a queue: the steps that change the table or a count.        *)

LEMMA HoldersFinite ==
  ASSUME NEW i \in Ids
  PROVE  IsFiniteSet(Holders(i)) /\ Cardinality(Holders(i)) \in Nat
  BY FS_Subset, FS_CardinalityType, QueueAssumption DEF Holders

\* The new queue has a fresh id: nobody holds it, the table owns it.
LEMMA CreateLife ==
  ASSUME LifeInv, NEW t \in Threads, CreateFill(t)
  PROVE  RestInv'
  <1>0. TypeOK /\ LocalInv /\ RestInv
    BY DEF LifeInv, RestInv
  <1>1. PICK n \in Ids :
        /\ n = nextId /\ nextId' = n + 1
        /\ slot[t] \in Slots
        /\ tbl' = [tbl EXCEPT ![slot[t]] =
                     [used |-> TRUE, id |-> n, name |-> arg[t]]]
        /\ mem' = [mem EXCEPT ![n] = "live"]
        /\ valid' = [valid EXCEPT ![n] = TRUE]
        /\ refs' = [refs EXCEPT ![n] = 1]
    <2>1. nextId \in Ids /\ slot[t] \in Slots
      BY <1>0, QueueAssumption DEF CreateFill, NewQueue, TypeOK, LocalInv, Ids
    <2>2. QED BY <2>1 DEF CreateFill, NewQueue
  <1>2. /\ pc[t] = "create" /\ pc'[t] = "idle"
        /\ \A u \in Threads \ {t} : pc'[u] = pc[u] /\ cur'[u] = cur[u]
    BY <1>0 DEF CreateFill, Leave, TypeOK
  <1>3. mem[n] = "none"
    BY <1>0, <1>1 DEF RestInv, FreshInv, TypeOK, Ids
  <1>4. \A u \in Threads : Uses(u) => cur[u] # n
    BY <1>0, <1>3 DEF RestInv, NoUseAfterFree
  <1>5. \A s \in Slots : tbl[s].used => tbl[s].id # n
    BY <1>0, <1>3 DEF RestInv, TableLive
  <1>6. FreshInv'
    BY <1>0, <1>1 DEF RestInv, FreshInv, TypeOK, Ids
  <1>7. NoUseAfterFree'
    BY <1>0, <1>1, <1>2, <1>4 DEF RestInv, NoUseAfterFree, Uses, HoldPcs, TypeOK
  <1>8. RefCountExact'
    <2>1. \A i \in Ids : Holders(i)' = Holders(i)
      BY <1>2 DEF Holders, HoldPcs
    <2>2. ASSUME NEW i \in Ids, i # n
          PROVE  refs'[i] = Cardinality(Holders(i)') + (IF Owned(i)' THEN 1 ELSE 0)
      <3>1. Owned(i)' <=> Owned(i)
        BY <1>0, <1>1, <1>2, <2>2 DEF Owned, TypeOK
      <3>2. QED BY <1>0, <1>1, <2>1, <2>2, <3>1 DEF RestInv, RefCountExact, TypeOK
    <2>3. Holders(n)' = {}
      BY <2>1, <1>4 DEF Holders, Uses
    <2>4. Owned(n)'
      BY <1>0, <1>1, <1>2, <1>4 DEF Owned, Uses, HoldPcs, TypeOK
    <2>5. refs'[n] = 1
      BY <1>0, <1>1 DEF TypeOK
    <2>6. Cardinality(Holders(n)') = 0
      BY <2>3, FS_EmptySet
    <2>7. refs'[n] = Cardinality(Holders(n)')
                            + (IF Owned(n)' THEN 1 ELSE 0)
      BY <2>4, <2>5, <2>6
    <2>8. \A i \in Ids :
            refs'[i] = Cardinality(Holders(i)') + (IF Owned(i)' THEN 1 ELSE 0)
      BY <2>2, <2>7
    <2>9. QED BY <2>8 DEF RefCountExact
  <1>9. TableLive'
    BY <1>0, <1>1, <1>3 DEF RestInv, TableLive, FreshInv, TypeOK
  <1>10. DeleteInv'
    <2>1. \A s \in Slots : tbl'[s].used =>
             \/ s = slot[t] /\ tbl'[s].id = n
             \/ s # slot[t] /\ tbl[s].used /\ tbl'[s].id = tbl[s].id
      BY <1>0, <1>1 DEF TypeOK
    <2>2. \A r, s \in Slots :
             (tbl'[r].used /\ tbl'[s].used /\ tbl'[r].id = tbl'[s].id) => r = s
      BY <1>0, <1>5, <2>1 DEF RestInv, DeleteInv
    <2>3. \A u \in Threads : pc'[u] = "delete" =>
             /\ pc[u] = "delete" /\ cur'[u] = cur[u] /\ cur[u] # n
             /\ cur[u] \in Ids
      BY <1>0, <1>2, <1>4 DEF Uses, HoldPcs, LocalInv
    <2>4. \A u \in Threads : pc'[u] = "delete" =>
             valid'[cur'[u]] /\ ~InTable(cur[u])'
      <3> SUFFICES ASSUME NEW u \in Threads, pc'[u] = "delete"
                   PROVE  valid'[cur'[u]] /\ ~\E s \in Slots :
                            tbl'[s].used /\ tbl'[s].id = cur'[u]
        BY DEF InTable
      <3>1. valid[cur[u]] /\ ~\E s \in Slots : tbl[s].used /\ tbl[s].id = cur[u]
        BY <1>0, <2>3 DEF RestInv, DeleteInv, InTable
      <3>2. valid'[cur'[u]]
        BY <1>0, <1>1, <2>3, <3>1 DEF TypeOK
      <3>3. QED BY <2>1, <2>3, <3>1, <3>2
    <2>5. \A u, v \in Threads :
             (pc'[u] = "delete" /\ pc'[v] = "delete" /\ cur'[u] = cur'[v]) => u = v
      BY <1>0, <2>3 DEF RestInv, DeleteInv
    <2>6. QED BY <2>2, <2>4, <2>5 DEF DeleteInv, InTable
  <1>11. DropInv'
    BY <1>0, <1>1, <1>2, <1>4 DEF RestInv, DropInv, Uses, TypeOK
  <1>12. QED BY <1>6, <1>7, <1>8, <1>9, <1>10, <1>11 DEF RestInv

\* A caller of Put or Get takes one more reference to a queue of the table.
LEMMA AcquireLife ==
  ASSUME LifeInv, NEW t \in Threads, NEW i \in Ids, NEW p \in {"put", "get"},
         NEW o, NEW a, Acquire(i), Enter(t, o, p, i, a, 0),
         UNCHANGED <<tbl, nextId, mem, valid>>
  PROVE  RestInv'
  <1>0. TypeOK /\ LocalInv /\ RestInv
    BY DEF LifeInv, RestInv
  <1>1. /\ refs' = [refs EXCEPT ![i] = @ + 1] /\ valid[i] /\ mem[i] = "live"
        /\ pc[t] = "idle" /\ pc'[t] = p /\ cur'[t] = i
        /\ \A u \in Threads \ {t} : pc'[u] = pc[u] /\ cur'[u] = cur[u]
    BY <1>0 DEF Acquire, Enter, TypeOK, RestInv, FreshInv
  <1>2. FreshInv' /\ TableLive'
    BY <1>0 DEF RestInv, FreshInv, TableLive
  <1>3. NoUseAfterFree'
    BY <1>0, <1>1 DEF RestInv, NoUseAfterFree, Uses, HoldPcs
  <1>4. RefCountExact'
    <2>1. Holders(i)' = Holders(i) \cup {t} /\ t \notin Holders(i)
      BY <1>1 DEF Holders, HoldPcs
    <2>2. Cardinality(Holders(i)') = Cardinality(Holders(i)) + 1
      BY <2>1, HoldersFinite, FS_AddElement
    <2>3. \A j \in Ids : Owned(j)' <=> Owned(j)
      BY <1>1 DEF Owned
    <2>4. refs'[i] = refs[i] + 1 /\ \A j \in Ids : j # i => refs'[j] = refs[j]
      BY <1>0, <1>1 DEF TypeOK
    <2>5. refs'[i] = Cardinality(Holders(i)') + (IF Owned(i)' THEN 1 ELSE 0)
      BY <1>0, <2>2, <2>3, <2>4, HoldersFinite DEF RestInv, RefCountExact
    <2>6. \A j \in Ids : j # i => Holders(j)' = Holders(j)
      BY <1>1 DEF Holders, HoldPcs
    <2>7. QED BY <1>0, <2>3, <2>4, <2>5, <2>6 DEF RestInv, RefCountExact
  <1>5. DeleteInv'
    BY <1>0, <1>1 DEF RestInv, DeleteInv, InTable
  <1>6. DropInv'
    BY <1>0, <1>1 DEF RestInv, DropInv, TypeOK
  <1>7. QED BY <1>2, <1>3, <1>4, <1>5, <1>6 DEF RestInv

\* OSAL_QueueDelete takes the table's reference with the record: the count
\* stays, and the reference changes hands.
LEMMA DeleteLife ==
  ASSUME LifeInv, NEW t \in Threads, NEW i \in Ids, DeleteCall(t, i)
  PROVE  RestInv'
  <1>0. TypeOK /\ LocalInv /\ RestInv
    BY DEF LifeInv, RestInv
  <1>1. PICK s \in Slots :
          /\ tbl[s].used /\ tbl[s].id = i
          /\ tbl' = [tbl EXCEPT ![s] = [@ EXCEPT !.used = FALSE]]
    BY DEF DeleteCall
  <1>2. /\ UNCHANGED <<nextId, mem, valid, refs>>
        /\ pc[t] = "idle" /\ pc'[t] = "delete" /\ cur'[t] = i
        /\ \A u \in Threads \ {t} : pc'[u] = pc[u] /\ cur'[u] = cur[u]
    BY <1>0 DEF DeleteCall, Enter, TypeOK
  <1>3. mem[i] = "live" /\ valid[i]
    BY <1>0, <1>1 DEF RestInv, TableLive
  <1>4. \A u \in Threads : ~(pc[u] = "delete" /\ cur[u] = i)
    BY <1>0, <1>1 DEF RestInv, DeleteInv, InTable
  <1>5. \A r \in Slots :
          /\ tbl'[r].id = tbl[r].id
          /\ tbl'[r].used => tbl[r].used /\ r # s
    BY <1>0, <1>1 DEF TypeOK
  <1>6. FreshInv' /\ TableLive'
    BY <1>0, <1>2, <1>5 DEF RestInv, FreshInv, TableLive
  <1>7. NoUseAfterFree'
    BY <1>0, <1>2, <1>3 DEF RestInv, NoUseAfterFree, Uses, HoldPcs
  <1>8. RefCountExact'
    <2>1. Holders(i)' = Holders(i) \cup {t} /\ t \notin Holders(i)
      BY <1>2 DEF Holders, HoldPcs
    <2>2. Cardinality(Holders(i)') = Cardinality(Holders(i)) + 1
      BY <2>1, HoldersFinite, FS_AddElement
    <2>3. Owned(i) /\ ~Owned(i)'
      BY <1>2, <1>3, <1>4 DEF Owned
    <2>4. \A j \in Ids : j # i =>
            (Owned(j)' <=> Owned(j)) /\ Holders(j)' = Holders(j)
      BY <1>2 DEF Owned, Holders, HoldPcs
    <2>5. refs'[i] = Cardinality(Holders(i)') + (IF Owned(i)' THEN 1 ELSE 0)
      BY <1>0, <1>2, <2>2, <2>3, HoldersFinite DEF RestInv, RefCountExact
    <2>6. QED BY <1>0, <1>2, <2>4, <2>5 DEF RestInv, RefCountExact
  <1>9. DeleteInv'
    <2>1. \A r, q \in Slots :
            (tbl'[r].used /\ tbl'[q].used /\ tbl'[r].id = tbl'[q].id) => r = q
      BY <1>0, <1>5 DEF RestInv, DeleteInv
    <2>2. \A r \in Slots : tbl'[r].used => tbl'[r].id # i
      BY <1>0, <1>1, <1>5 DEF RestInv, DeleteInv
    <2>3. \A u \in Threads : pc'[u] = "delete" => valid'[cur'[u]] /\ ~InTable(cur[u])'
      BY <1>0, <1>2, <1>3, <1>5, <2>2 DEF RestInv, DeleteInv, InTable
    <2>4. \A u, v \in Threads :
            (pc'[u] = "delete" /\ pc'[v] = "delete" /\ cur'[u] = cur'[v]) => u = v
      BY <1>0, <1>2, <1>4 DEF RestInv, DeleteInv
    <2>5. QED BY <2>1, <2>3, <2>4 DEF DeleteInv, InTable
  <1>10. DropInv'
    BY <1>0, <1>2 DEF RestInv, DropInv
  <1>11. QED BY <1>6, <1>7, <1>8, <1>9, <1>10 DEF RestInv

\* Marking the queue invalid wakes its waiters and changes no reference.
LEMMA MarkLife ==
  ASSUME LifeInv, NEW t \in Threads, DeleteMark(t)
  PROVE  RestInv'
  <1> DEFINE i == cur[t]
  <1>0. TypeOK /\ LocalInv /\ RestInv
    BY DEF LifeInv, RestInv
  <1>1. /\ i \in Ids /\ pc[t] = "delete" /\ pc'[t] = "release"
        /\ valid' = [valid EXCEPT ![i] = FALSE]
        /\ UNCHANGED <<tbl, nextId, mem, refs, cur>>
    BY <1>0 DEF DeleteMark, AfterBroadcast, LocalInv, Uses, HoldPcs
  <1>2. \A u \in Threads \ {t} :
          pc'[u] = pc[u] \/ (pc[u] \in QuietPcs /\ pc'[u] \in QuietPcs)
    BY <1>0 DEF DeleteMark, AfterBroadcast, QuietPcs, HoldPcs, TypeOK
  <1>3. \A j \in Ids : valid'[j] = IF j = i THEN FALSE ELSE valid[j]
    BY <1>0, <1>1 DEF TypeOK
  <1>4. ~InTable(i)
    BY <1>0, <1>1 DEF RestInv, DeleteInv
  <1>5. FreshInv' /\ TableLive'
    BY <1>0, <1>1, <1>3, <1>4 DEF RestInv, FreshInv, TableLive, InTable
  <1>6. NoUseAfterFree'
    BY <1>0, <1>1, <1>2 DEF RestInv, NoUseAfterFree, Uses, QuietPcs, HoldPcs
  <1>7. RefCountExact'
    <2>1. \A j \in Ids : Holders(j)' = Holders(j)
      BY <1>1, <1>2 DEF Holders, QuietPcs, HoldPcs
    <2>2. \A j \in Ids : Owned(j)' <=> Owned(j)
      BY <1>1, <1>2, <1>3 DEF Owned, QuietPcs, HoldPcs
    <2>3. QED BY <1>0, <1>1, <2>1, <2>2 DEF RestInv, RefCountExact
  <1>8. DeleteInv'
    BY <1>0, <1>1, <1>2, <1>3
       DEF RestInv, DeleteInv, InTable, QuietPcs, HoldPcs, LocalInv, Uses
  <1>9. DropInv'
    BY <1>0, <1>1, <1>2, <1>3
       DEF RestInv, DropInv, QuietPcs, HoldPcs, LocalInv, Uses
  <1>10. QED BY <1>5, <1>6, <1>7, <1>8, <1>9 DEF RestInv

\* What osal_queue_release does to the caller: it goes on outside, with no
\* reference.
LEMMA ReturnPcs ==
  ASSUME TypeOK, NEW t \in Threads, Return(t)
  PROVE  /\ pc'[t] \in {"idle", "unregister"}
         /\ \A u \in Threads \ {t} : pc'[u] = pc[u] /\ cur'[u] = cur[u]
  <1>1. CASE op[t] = "delete"
    BY <1>1 DEF Return, TypeOK
  <1>2. CASE op[t] # "delete"
    BY <1>2 DEF Return, Leave, TypeOK
  <1>3. QED BY <1>1, <1>2

\* The decrement gives one reference back.  When it was the last one, no
\* other thread is inside a call on the queue and a delete has marked it.
LEMMA ReleaseLife ==
  ASSUME LifeInv, NEW t \in Threads, Release(t)
  PROVE  RestInv'
  <1>0. TypeOK /\ LocalInv /\ RestInv
    BY DEF LifeInv, RestInv
  <1>1. PICK i \in Ids : i = cur[t]
    BY <1>0 DEF Release, LocalInv, Uses, HoldPcs
  <1>2. /\ pc[t] = "release"
        /\ refs' = [refs EXCEPT ![i] = @ - 1]
        /\ UNCHANGED <<tbl, nextId, mem, valid>>
    BY <1>1 DEF Release
  <1>3. /\ \/ refs[i] = 1 /\ pc'[t] = "drop" /\ cur'[t] = i
           \/ refs[i] # 1 /\ pc'[t] \in {"idle", "unregister"}
        /\ \A u \in Threads \ {t} : pc'[u] = pc[u] /\ cur'[u] = cur[u]
    <2>1. CASE refs[i] = 1
      BY <1>0, <1>1, <2>1 DEF Release, TypeOK
    <2>2. CASE refs[i] # 1
      BY <1>0, <1>1, <2>2, ReturnPcs DEF Release
    <2>3. QED BY <2>1, <2>2
  <1>4. mem[i] = "live"
    BY <1>0, <1>1, <1>2 DEF RestInv, NoUseAfterFree, Uses, HoldPcs
  <1>5. refs'[i] = refs[i] - 1 /\ \A j \in Ids : j # i => refs'[j] = refs[j]
    BY <1>0, <1>2 DEF TypeOK
  <1>6. FreshInv' /\ TableLive'
    BY <1>0, <1>2 DEF RestInv, FreshInv, TableLive
  <1>7. NoUseAfterFree'
    BY <1>0, <1>2, <1>3, <1>4 DEF RestInv, NoUseAfterFree, Uses, HoldPcs
  <1>8. Holders(i)' = Holders(i) \ {t} /\ t \in Holders(i)
    BY <1>1, <1>2, <1>3 DEF Holders, HoldPcs
  <1>9. \A j \in Ids : Owned(j)' <=> Owned(j)
    BY <1>2, <1>3 DEF Owned
  <1>10. RefCountExact'
    <2>1. Cardinality(Holders(i)') = Cardinality(Holders(i)) - 1
      BY <1>8, HoldersFinite, FS_RemoveElement
    <2>2. refs'[i] = Cardinality(Holders(i)') + (IF Owned(i)' THEN 1 ELSE 0)
      BY <1>0, <1>5, <1>9, <2>1, HoldersFinite DEF RestInv, RefCountExact
    <2>3. \A j \in Ids : j # i => Holders(j)' = Holders(j)
      BY <1>1, <1>2, <1>3 DEF Holders, HoldPcs
    <2>4. QED BY <1>0, <1>5, <1>9, <2>2, <2>3 DEF RestInv, RefCountExact
  <1>11. DeleteInv'
    BY <1>0, <1>2, <1>3 DEF RestInv, DeleteInv, InTable
  <1>12. DropInv'
    <2>1. CASE refs[i] = 1
      <3>1. Cardinality(Holders(i)) >= 1
        <4>1. Cardinality(Holders(i)) # 0
          BY <1>8, HoldersFinite, FS_EmptySet
        <4>2. QED BY <4>1, HoldersFinite
      <3>2. Cardinality(Holders(i)) = 1 /\ ~Owned(i)
        BY <1>0, <2>1, <3>1, HoldersFinite DEF RestInv, RefCountExact
      <3>3. Holders(i) = {t}
        <4>1. PICK x : Holders(i) = {x}
          BY <3>2, HoldersFinite, FS_Singleton
        <4>2. QED BY <1>8, <4>1
      <3>4. ~valid[i]
        <4>1. ~\E d \in Threads : pc[d] = "delete" /\ cur[d] = i
          BY <1>2, <3>3 DEF Holders, HoldPcs
        <4>2. QED BY <1>4, <3>2, <4>1 DEF Owned
      <3>5. \A u \in Threads : ~(pc[u] = "drop" /\ cur[u] = i)
        BY <1>0, <2>1 DEF RestInv, DropInv
      <3>6. pc'[t] = "drop" /\ cur'[t] = i /\ refs'[i] = 0
        BY <1>3, <1>5, <2>1
      <3>7. \A u \in Threads \ {t} : pc'[u] = "drop" =>
               pc[u] = "drop" /\ cur'[u] = cur[u] /\ cur[u] \in Ids /\ cur[u] # i
        BY <1>0, <1>3, <3>5 DEF LocalInv, Uses
      <3>8. \A u \in Threads : pc'[u] = "drop" =>
               refs'[cur'[u]] = 0 /\ ~valid'[cur'[u]]
        BY <1>0, <1>2, <1>5, <3>4, <3>6, <3>7 DEF RestInv, DropInv
      <3>9. \A u, v \in Threads :
               (pc'[u] = "drop" /\ pc'[v] = "drop" /\ cur'[u] = cur'[v]) => u = v
        BY <1>0, <3>6, <3>7 DEF RestInv, DropInv
      <3>10. QED BY <3>8, <3>9 DEF DropInv
    <2>2. CASE refs[i] # 1
      <3>1. refs[i] >= 1
        BY <1>0, <1>1, <1>2, HolderCounted DEF RestInv, HoldPcs
      <3>2. \A u \in Threads : pc'[u] = "drop" =>
               /\ pc[u] = "drop" /\ cur'[u] = cur[u]
               /\ cur[u] \in Ids /\ cur[u] # i
        BY <1>0, <1>2, <1>3, <2>2, <3>1 DEF RestInv, DropInv, LocalInv, Uses
      <3>3. QED BY <1>0, <1>2, <1>5, <3>2 DEF RestInv, DropInv
    <2>3. QED BY <2>1, <2>2
  <1>13. QED BY <1>6, <1>7, <1>10, <1>11, <1>12 DEF RestInv

\* The thread that frees the queue is the only one that still leads to it.
LEMMA DropLife ==
  ASSUME LifeInv, NEW t \in Threads, Drop(t)
  PROVE  RestInv'
  <1>0. TypeOK /\ LocalInv /\ RestInv
    BY DEF LifeInv, RestInv
  <1>1. PICK i \in Ids : i = cur[t]
    BY <1>0 DEF Drop, LocalInv, Uses
  <1>2. pc[t] = "drop" /\ refs[i] = 0 /\ ~valid[i]
    BY <1>0, <1>1 DEF Drop, RestInv, DropInv
  <1>3. /\ mem' = [mem EXCEPT ![i] = "freed"]
        /\ UNCHANGED <<tbl, nextId, valid, refs>>
    BY <1>1, <1>2 DEF Drop
  <1>4. /\ pc'[t] \in {"idle", "unregister"}
        /\ \A u \in Threads \ {t} : pc'[u] = pc[u] /\ cur'[u] = cur[u]
    BY <1>0, ReturnPcs DEF Drop
  <1>5. Holders(i) = {}
    <2>1. Cardinality(Holders(i)) = 0
      BY <1>0, <1>2, HoldersFinite DEF RestInv, RefCountExact
    <2>2. QED BY <2>1, HoldersFinite, FS_EmptySet
  <1>6. \A u \in Threads \ {t} : Uses(u) => cur[u] # i
    BY <1>0, <1>1, <1>2, <1>5 DEF Uses, Holders, RestInv, DropInv
  <1>7. mem[i] = "live"
    BY <1>0, <1>1, <1>2 DEF RestInv, NoUseAfterFree, Uses
  <1>8. FreshInv' /\ TableLive'
    BY <1>0, <1>2, <1>3, <1>7 DEF RestInv, FreshInv, TableLive, TypeOK
  <1>9. NoUseAfterFree'
    BY <1>0, <1>3, <1>4, <1>6
       DEF RestInv, NoUseAfterFree, Uses, HoldPcs, LocalInv, TypeOK
  <1>10. RefCountExact'
    <2>1. \A j \in Ids : Holders(j)' = Holders(j)
      BY <1>2, <1>4 DEF Holders, HoldPcs
    <2>2. \A j \in Ids : Owned(j)' <=> Owned(j)
      BY <1>0, <1>2, <1>3, <1>4 DEF Owned, TypeOK
    <2>3. QED BY <1>0, <1>3, <2>1, <2>2 DEF RestInv, RefCountExact
  <1>11. DeleteInv'
    BY <1>0, <1>3, <1>4 DEF RestInv, DeleteInv, InTable
  <1>12. DropInv'
    BY <1>0, <1>3, <1>4 DEF RestInv, DropInv
  <1>13. QED BY <1>8, <1>9, <1>10, <1>11, <1>12 DEF RestInv

-----------------------------------------------------------------------------
(* The theorems.                                                           *)

\* Every step keeps the rest of LifeInv.
LEMMA RestStep == LifeInv /\ [Next]_vars => RestInv'
  <1> SUFFICES ASSUME LifeInv, [Next]_vars PROVE RestInv'
    OBVIOUS
  <1>0. TypeOK /\ LocalInv
    BY DEF LifeInv
  <1>1. ASSUME NEW t \in Threads, NEW n \in Names, CreateFind(t, n) PROVE RestInv'
    <2>1. /\ pc[t] \in OutsidePcs /\ pc'[t] \in OutsidePcs
          /\ \A u \in Threads \ {t} : pc'[u] = pc[u] /\ cur'[u] = cur[u]
          /\ UNCHANGED <<tbl, nextId, mem, valid, refs>>
      BY <1>0, <1>1 DEF CreateFind, Enter, shared, TypeOK, OutsidePcs
    <2>2. QED BY <2>1, OutsideStep
  <1>2. ASSUME NEW t \in Threads, CreateFail(t) \/ Unregister(t) PROVE RestInv'
    <2>1. /\ pc[t] \in OutsidePcs /\ pc'[t] \in OutsidePcs
          /\ \A u \in Threads \ {t} : pc'[u] = pc[u] /\ cur'[u] = cur[u]
          /\ UNCHANGED <<tbl, nextId, mem, valid, refs>>
      BY <1>0, <1>2 DEF CreateFail, Unregister, Leave, shared, TypeOK, OutsidePcs
    <2>2. QED BY <2>1, OutsideStep
  <1>3. ASSUME NEW t \in Threads, NEW i \in Ids, NEW m \in Msgs \cup {TooBig},
               PutCall(t, i, m)
        PROVE  RestInv'
    BY <1>3, AcquireLife DEF PutCall
  <1>4. ASSUME NEW t \in Threads, NEW i \in Ids, NEW mode \in Modes,
               GetCall(t, i, mode)
        PROVE  RestInv'
    BY <1>4, AcquireLife DEF GetCall
  <1>5. ASSUME NEW t \in Threads,
               \/ PutOversize(t) \/ PutInvalid(t) \/ PutWait(t) \/ PutStore(t)
               \/ GetInvalid(t) \/ GetEmpty(t) \/ GetWait(t) \/ GetTimeout(t)
               \/ GetTake(t) \/ GetExpire(t) \/ SpuriousWake(t)
        PROVE  RestInv'
    <2> USE DEF QuietPcs, HoldPcs
    <2>1. UNCHANGED <<tbl, nextId, mem, valid, refs, cur>>
      BY <1>5 DEF PutOversize, PutInvalid, PutWait, PutStore, GetInvalid,
                  GetEmpty, GetWait, GetTimeout, GetTake, GetExpire,
                  SpuriousWake, Finish, shared
    <2>2. CASE PutStore(t)
      BY <1>0, <2>1, <2>2, QuietStep
         DEF PutStore, PutRuns, SignalAndRelease, NotEmptyWaiters, TypeOK
    <2>3. CASE GetTake(t)
      BY <1>0, <2>1, <2>3, QuietStep
         DEF GetTake, CanTake, GetRuns, SignalAndRelease, NotFullWaiters, TypeOK
    <2>4. CASE SpuriousWake(t) \/ GetExpire(t)
      BY <1>0, <2>1, <2>4, QuietStep DEF SpuriousWake, GetExpire, TypeOK
    <2>5. CASE PutOversize(t) \/ PutInvalid(t) \/ PutWait(t)
      BY <1>0, <2>1, <2>5, QuietStep
         DEF PutOversize, PutInvalid, PutWait, PutRuns, Finish, TypeOK
    <2>6. CASE GetInvalid(t) \/ GetEmpty(t) \/ GetWait(t) \/ GetTimeout(t)
      BY <1>0, <2>1, <2>6, QuietStep
         DEF GetInvalid, GetEmpty, GetWait, GetTimeout, GetRuns, Finish, TypeOK
    <2>7. QED BY <1>5, <2>2, <2>3, <2>4, <2>5, <2>6
  <1>6. CASE UNCHANGED vars
    BY <1>6, QuietStep DEF vars
  <1>7. QED
    BY <1>1, <1>2, <1>3, <1>4, <1>5, <1>6, CreateLife, DeleteLife, MarkLife,
       ReleaseLife, DropLife DEF Next, Call, Step

\* The life of a queue, from creation to the last release, as one inductive
\* invariant of the specification.
THEOREM QueueLife == Spec => []LifeInv
  <1>1. LifeInv /\ [Next]_vars => LifeInv'
    BY TypeStep, LocalStep, RestStep DEF LifeInv, RestInv
  <1>2. QED BY <1>1, InitLife, PTL DEF Spec

\* Every variable keeps its type; head, tail and count of the ring stay in
\* range, so OSAL_QueuePut never writes outside the buffer.
THEOREM QueueTypes == Spec => []TypeOK
  BY QueueLife, PTL DEF LifeInv

\* For any number of threads that put, get and delete in any order, no step
\* dereferences a queue that osal_queue_release has freed.
THEOREM QueueNoUseAfterFree == Spec => []NoUseAfterFree
  BY QueueLife, PTL DEF LifeInv

\* ref_count is exact at every step, so the last thread out sees 1.
THEOREM QueueRefCount == Spec => []RefCountExact
  BY QueueLife, PTL DEF LifeInv

\* The table never leads to a freed or invalid queue.
THEOREM QueueTableLive == Spec => []TableLive
  BY QueueLife, PTL DEF LifeInv

-----------------------------------------------------------------------------
(* Wake-ups.  Both conditions are argued about at once: w is where a thread *)
(* is blocked, k where it is once it is awake, n how many are needed.       *)

At(i, p) == {u \in Threads : pc[u] = p /\ cur[u] = i}

\* Nobody is blocked at w on queue i unless n threads are awake at k.
Covered(i, w, k, n) == At(i, w) # {} => valid[i] /\ Cardinality(At(i, k)) >= n

\* Thread u neither stops being awake at k nor becomes blocked at w on i.
Calm(u, i, w, k) ==
  \/ pc'[u] = pc[u] /\ cur'[u] = cur[u]
  \/ pc[u] # k /\ pc'[u] # w
  \/ cur[u] # i /\ cur'[u] # i

LEMMA AtFinite ==
  ASSUME NEW i, NEW p
  PROVE  /\ IsFiniteSet(At(i, p)) /\ Cardinality(At(i, p)) \in Nat
         /\ IsFiniteSet(At(i, p)') /\ Cardinality(At(i, p)') \in Nat
  <1>1. At(i, p) \subseteq Threads /\ At(i, p)' \subseteq Threads
    BY DEF At
  <1>2. QED BY <1>1, FS_Subset, FS_CardinalityType, QueueAssumption

\* No lost wake-up, in these terms.
LEMMA Wakeups ==
  NoLostWakeup <=>
    \A i \in Ids : /\ Covered(i, "get_wait", "get_woken", ring[i].count)
                   /\ Covered(i, "put_wait", "put_woken", Depth - ring[i].count)
  BY DEF NoLostWakeup, Covered, At, Awake, NotEmptyWaiters, NotFullWaiters

\* A step calm for every thread, after which no more threads are needed.
LEMMA CalmStep ==
  ASSUME NEW i \in Ids, NEW w, NEW k, NEW m \in Int, NEW n \in Int,
         Covered(i, w, k, m), n <= m, valid[i] => valid'[i],
         \A u \in Threads : Calm(u, i, w, k)
  PROVE  Covered(i, w, k, n)'
  <1>1. At(i, w)' \subseteq At(i, w) /\ At(i, k) \subseteq At(i, k)'
    BY DEF At, Calm
  <1>2. Cardinality(At(i, k)) <= Cardinality(At(i, k)')
    BY <1>1, AtFinite, FS_Subset
  <1>3. QED BY <1>1, <1>2, AtFinite DEF Covered

\* One thread that was awake goes on, and one fewer is needed.
LEMMA AwakeStep ==
  ASSUME NEW i \in Ids, NEW w, NEW k, NEW m \in Int, NEW n \in Int,
         NEW t \in Threads,
         Covered(i, w, k, m), n <= m - 1, valid[i] => valid'[i],
         pc'[t] # w,
         \A u \in Threads \ {t} : Calm(u, i, w, k)
  PROVE  Covered(i, w, k, n)'
  <1>1. At(i, w)' \subseteq At(i, w) /\ At(i, k) \ {t} \subseteq At(i, k)'
    BY DEF At, Calm
  <1>2. Cardinality(At(i, k) \ {t}) <= Cardinality(At(i, k)')
    BY <1>1, AtFinite, FS_Subset
  <1>3. Cardinality(At(i, k) \ {t}) >= Cardinality(At(i, k)) - 1
    <2>1. CASE t \in At(i, k)
      <3>1. Cardinality(At(i, k) \ {t}) = Cardinality(At(i, k)) - 1
        BY <2>1, AtFinite, FS_RemoveElement
      <3>2. QED BY <3>1, AtFinite
    <2>2. CASE t \notin At(i, k)
      <3>1. At(i, k) \ {t} = At(i, k)
        BY <2>2
      <3>2. QED BY <3>1, AtFinite
    <2>3. QED BY <2>1, <2>2
  <1>4. Cardinality(At(i, k) \ {t}) \in Nat
    BY AtFinite, FS_Subset, FS_CardinalityType
  <1>5. QED BY <1>1, <1>2, <1>3, <1>4, AtFinite DEF Covered

\* One thread that was blocked is signalled, and one more is needed.
LEMMA SignalStep ==
  ASSUME NEW i \in Ids, NEW w, NEW k, w # k, NEW m \in Int, NEW n \in Int,
         NEW v \in At(i, w),
         Covered(i, w, k, m), n <= m + 1, valid[i] => valid'[i],
         pc'[v] = k, cur'[v] = i,
         \A u \in Threads \ {v} : Calm(u, i, w, k)
  PROVE  Covered(i, w, k, n)'
  <1>1. /\ v \in At(i, k)' /\ v \notin At(i, k) /\ v \in At(i, w)
        /\ At(i, k) \cup {v} \subseteq At(i, k)'
    BY DEF At, Calm
  <1>2. Cardinality(At(i, k) \cup {v}) = Cardinality(At(i, k)) + 1
    BY <1>1, AtFinite, FS_AddElement
  <1>3. Cardinality(At(i, k) \cup {v}) <= Cardinality(At(i, k)')
    BY <1>1, AtFinite, FS_Subset
  <1>4. Cardinality(At(i, k)) >= m /\ valid[i]
    BY <1>1 DEF Covered
  <1>5. QED BY <1>2, <1>3, <1>4, AtFinite DEF Covered

\* Nobody is needed, or nobody is blocked.
LEMMA FreeStep ==
  ASSUME NEW i \in Ids, NEW w, NEW k, NEW n \in Int,
         At(i, w)' = {} \/ (n <= 0 /\ valid'[i])
  PROVE  Covered(i, w, k, n)'
  BY AtFinite DEF Covered

\* A step that leaves the ring of i alone, or finds the ring of another queue,
\* and is calm for both conditions.
LEMMA BothCalm ==
  ASSUME TypeOK, NoLostWakeup, NEW i \in Ids,
         ring'[i] = ring[i], valid[i] => valid'[i],
         \A u \in Threads : /\ Calm(u, i, "get_wait", "get_woken")
                            /\ Calm(u, i, "put_wait", "put_woken")
  PROVE  /\ Covered(i, "get_wait", "get_woken", ring[i].count)'
         /\ Covered(i, "put_wait", "put_woken", Depth - ring[i].count)'
  <1>1. PICK c \in Int : c = ring[i].count /\ c = ring'[i].count
    BY DEF TypeOK, RingType
  <1>2. Depth - c \in Int
    BY QueueAssumption
  <1>3. /\ Covered(i, "get_wait", "get_woken", c)
        /\ Covered(i, "put_wait", "put_woken", Depth - c)
    BY <1>1, Wakeups
  <1>4. /\ Covered(i, "get_wait", "get_woken", c)'
        /\ Covered(i, "put_wait", "put_woken", Depth - c)'
    BY <1>2, <1>3, CalmStep
  <1>5. QED BY <1>1, <1>4 DEF Covered

\* What a step of the ring's user t means for the other queues.
LEMMA OtherQueues ==
  ASSUME TypeOK, NoLostWakeup, NEW t \in Threads, NEW i \in Ids, i # cur[t],
         cur' = cur, valid' = valid, ring'[i] = ring[i],
         \A u \in Threads \ {t} : pc'[u] = pc[u] \/ cur[u] = cur[t]
  PROVE  /\ Covered(i, "get_wait", "get_woken", ring[i].count)'
         /\ Covered(i, "put_wait", "put_woken", Depth - ring[i].count)'
  <1>1. \A u \in Threads : /\ Calm(u, i, "get_wait", "get_woken")
                           /\ Calm(u, i, "put_wait", "put_woken")
    BY DEF Calm
  <1>2. QED BY <1>1, BothCalm

\* A message is stored: a blocked reader is woken for it, and if it was a woken
\* writer that stored it, the cell it was woken for is gone.
LEMMA StoreWakes ==
  ASSUME TypeOK, LocalInv, NoLostWakeup, NEW t \in Threads, PutStore(t),
         NEW i \in Ids, i = cur[t]
  PROVE  /\ Covered(i, "get_wait", "get_woken", ring[i].count)'
         /\ Covered(i, "put_wait", "put_woken", Depth - ring[i].count)'
  <1>1. PICK c \in Int : c = ring[i].count
    BY DEF TypeOK, RingType
  <1>2. ring'[i].count = c + 1 /\ valid'[i] = valid[i] /\ cur' = cur
    BY <1>1 DEF PutStore, Written, TypeOK
  <1>3. Depth - c \in Int /\ Depth - (c + 1) \in Int
    BY QueueAssumption
  <1>4. /\ Covered(i, "get_wait", "get_woken", c)
        /\ Covered(i, "put_wait", "put_woken", Depth - c)
    BY <1>1, Wakeups
  <1>5. pc[t] \in {"put", "put_woken"} /\ pc'[t] = "release" /\ cur[t] = i
    BY DEF PutStore, PutRuns, SignalAndRelease, NotEmptyWaiters, TypeOK
  <1>6. \A u \in Threads \ {t} : Calm(u, i, "put_wait", "put_woken")
    BY <1>2 DEF PutStore, SignalAndRelease, NotEmptyWaiters, Calm, TypeOK
  <1>7. Covered(i, "put_wait", "put_woken", Depth - (c + 1))'
    <2>1. CASE pc[t] = "put_woken"
      BY <1>2, <1>3, <1>4, <1>5, <1>6, <2>1, AwakeStep, QueueAssumption
    <2>2. CASE pc[t] = "put"
      <3>1. Calm(t, i, "put_wait", "put_woken")
        BY <1>5, <2>2 DEF Calm
      <3>2. \A u \in Threads : Calm(u, i, "put_wait", "put_woken")
        BY <1>6, <3>1
      <3>3. Depth - (c + 1) <= Depth - c
        BY QueueAssumption
      <3>4. QED BY <1>2, <1>3, <1>4, <3>2, <3>3, CalmStep
    <2>3. QED BY <1>5, <2>1, <2>2
  <1>8. Covered(i, "get_wait", "get_woken", c + 1)'
    <2>1. CASE At(i, "get_wait") = {}
      <3>1. \A u \in Threads : pc'[u] = "get_wait" => pc[u] = "get_wait"
        BY <2>1 DEF PutStore, SignalAndRelease, NotEmptyWaiters, At, TypeOK
      <3>2. At(i, "get_wait")' = {}
        BY <1>2, <2>1, <3>1 DEF At
      <3>3. QED BY <3>2, FreeStep
    <2>2. CASE At(i, "get_wait") # {}
      <3>1. PICK v \in At(i, "get_wait") :
              pc' = [pc EXCEPT ![t] = "release", ![v] = "get_woken"]
        BY <2>2 DEF PutStore, SignalAndRelease, NotEmptyWaiters, At
      <3>2. /\ v \in Threads /\ v # t /\ pc'[v] = "get_woken" /\ cur'[v] = i
        BY <1>2, <1>5, <3>1 DEF At, TypeOK
      <3>3. \A u \in Threads \ {v} : Calm(u, i, "get_wait", "get_woken")
        BY <1>2, <1>5, <3>1 DEF Calm, TypeOK
      <3>4. QED BY <1>2, <1>4, <3>2, <3>3, SignalStep
    <2>3. QED BY <2>1, <2>2
  <1>9. QED BY <1>2, <1>7, <1>8 DEF Covered

\* The same for a message that is taken, with readers and writers exchanged.
LEMMA TakeWakes ==
  ASSUME TypeOK, LocalInv, NoLostWakeup, NEW t \in Threads, GetTake(t),
         NEW i \in Ids, i = cur[t]
  PROVE  /\ Covered(i, "get_wait", "get_woken", ring[i].count)'
         /\ Covered(i, "put_wait", "put_woken", Depth - ring[i].count)'
  <1>1. PICK c \in Int : c = ring[i].count
    BY DEF TypeOK, RingType
  <1>2. ring'[i].count = c - 1 /\ valid'[i] = valid[i] /\ cur' = cur
    BY <1>1 DEF GetTake, Taken, TypeOK
  <1>3. Depth - c \in Int /\ Depth - (c - 1) \in Int /\ Depth - (c - 1) <= Depth - c + 1
    BY QueueAssumption
  <1>4. /\ Covered(i, "get_wait", "get_woken", c)
        /\ Covered(i, "put_wait", "put_woken", Depth - c)
    BY <1>1, Wakeups
  <1>5. pc[t] \in {"get", "get_woken"} /\ pc'[t] = "release" /\ cur[t] = i
    BY DEF GetTake, CanTake, GetRuns, SignalAndRelease, NotFullWaiters, TypeOK
  <1>6. \A u \in Threads \ {t} : Calm(u, i, "get_wait", "get_woken")
    BY <1>2 DEF GetTake, SignalAndRelease, NotFullWaiters, Calm, TypeOK
  <1>7. Covered(i, "get_wait", "get_woken", c - 1)'
    <2>1. CASE pc[t] = "get_woken"
      BY <1>2, <1>4, <1>5, <1>6, <2>1, AwakeStep
    <2>2. CASE pc[t] = "get"
      <3>1. Calm(t, i, "get_wait", "get_woken")
        BY <1>5, <2>2 DEF Calm
      <3>2. \A u \in Threads : Calm(u, i, "get_wait", "get_woken")
        BY <1>6, <3>1
      <3>3. QED BY <1>2, <1>4, <3>2, CalmStep
    <2>3. QED BY <1>5, <2>1, <2>2
  <1>8. Covered(i, "put_wait", "put_woken", Depth - (c - 1))'
    <2>1. CASE At(i, "put_wait") = {}
      <3>1. \A u \in Threads : pc'[u] = "put_wait" => pc[u] = "put_wait"
        BY <2>1 DEF GetTake, SignalAndRelease, NotFullWaiters, At, TypeOK
      <3>2. At(i, "put_wait")' = {}
        BY <1>2, <2>1, <3>1 DEF At
      <3>3. QED BY <1>3, <3>2, FreeStep
    <2>2. CASE At(i, "put_wait") # {}
      <3>1. PICK v \in At(i, "put_wait") :
              pc' = [pc EXCEPT ![t] = "release", ![v] = "put_woken"]
        BY <2>2 DEF GetTake, SignalAndRelease, NotFullWaiters, At
      <3>2. /\ v \in Threads /\ v # t /\ pc'[v] = "put_woken" /\ cur'[v] = i
        BY <1>2, <1>5, <3>1 DEF At, TypeOK
      <3>3. \A u \in Threads \ {v} : Calm(u, i, "put_wait", "put_woken")
        BY <1>2, <1>5, <3>1 DEF Calm, TypeOK
      <3>4. QED BY <1>2, <1>3, <1>4, <3>2, <3>3, SignalStep
    <2>3. QED BY <2>1, <2>2
  <1>9. QED BY <1>2, <1>7, <1>8 DEF Covered

\* Every step keeps every wake-up.
LEMMA WakeStep == LifeInv /\ NoLostWakeup /\ [Next]_vars => NoLostWakeup'
  <1> SUFFICES ASSUME LifeInv, NoLostWakeup, [Next]_vars, NEW i \in Ids
               PROVE  /\ Covered(i, "get_wait", "get_woken", ring[i].count)'
                      /\ Covered(i, "put_wait", "put_woken", Depth - ring[i].count)'
    BY DEF NoLostWakeup, Covered, At, Awake, NotEmptyWaiters, NotFullWaiters
  <1> DEFINE Kept == /\ Covered(i, "get_wait", "get_woken", ring[i].count)'
                     /\ Covered(i, "put_wait", "put_woken", Depth - ring[i].count)'
  <1>0. TypeOK /\ LocalInv /\ NoUseAfterFree /\ FreshInv
    BY DEF LifeInv
  <1>a. TypeOK'
    BY TypeStep
  <1>b. ring'[i].count \in Int /\ Depth - ring'[i].count \in Int
    BY <1>a, QueueAssumption DEF TypeOK, RingType
  \* Nobody stays blocked on a queue.
  <1>c. ASSUME At(i, "get_wait")' = {}, At(i, "put_wait")' = {} PROVE Kept
    <2>1. PICK d \in Int : d = ring'[i].count /\ Depth - d \in Int
      BY <1>b
    <2>2. /\ Covered(i, "get_wait", "get_woken", d)'
          /\ Covered(i, "put_wait", "put_woken", Depth - d)'
      BY <1>c, <2>1, FreeStep
    <2>3. QED BY <2>1, <2>2 DEF Covered
  \* Nobody was, and nobody becomes.
  <1>d. ASSUME ~valid[i],
               \A u \in Threads : pc'[u] \in {"get_wait", "put_wait"} =>
                 pc'[u] = pc[u] /\ cur'[u] = cur[u]
        PROVE  Kept
    <2>1. At(i, "get_wait") = {} /\ At(i, "put_wait") = {}
      BY <1>d, Wakeups DEF Covered
    <2>2. At(i, "get_wait")' = {} /\ At(i, "put_wait")' = {}
      BY <1>d, <2>1 DEF At
    <2>3. QED BY <1>c, <2>2
  <1> HIDE DEF Kept
  <1>1. ASSUME NEW t \in Threads, NEW n \in Names, CreateFind(t, n) PROVE Kept
    <2>1. /\ \A u \in Threads : /\ Calm(u, i, "get_wait", "get_woken")
                                /\ Calm(u, i, "put_wait", "put_woken")
          /\ ring'[i] = ring[i] /\ valid'[i] = valid[i]
      BY <1>0, <1>1 DEF CreateFind, Enter, shared, Calm, TypeOK
    <2>2. QED BY <1>0, <2>1, BothCalm DEF Kept
  <1>2. ASSUME NEW t \in Threads, NEW j \in Ids, NEW p \in {"put", "get", "delete"},
               NEW o, NEW a, Enter(t, o, p, j, a, 0), UNCHANGED <<valid, ring>>
        PROVE  Kept
    <2>1. \A u \in Threads : /\ Calm(u, i, "get_wait", "get_woken")
                             /\ Calm(u, i, "put_wait", "put_woken")
      BY <1>0, <1>2 DEF Enter, Calm, TypeOK
    <2>2. QED BY <1>0, <1>2, <2>1, BothCalm DEF Kept
  <1>3. ASSUME NEW t \in Threads, CreateFill(t) PROVE Kept
    <2>1. /\ pc[t] = "create" /\ Leave(t)
          /\ nextId \in Ids
          /\ ring' = [ring EXCEPT ![nextId] = EmptyRing]
          /\ valid' = [valid EXCEPT ![nextId] = TRUE]
      BY <1>0, <1>3, QueueAssumption DEF CreateFill, NewQueue, TypeOK, Ids
    <2>2. \A u \in Threads : /\ Calm(u, i, "get_wait", "get_woken")
                             /\ Calm(u, i, "put_wait", "put_woken")
      BY <1>0, <2>1 DEF Leave, Calm, TypeOK
    <2>3. CASE i # nextId
      <3>1. ring'[i] = ring[i] /\ valid'[i] = valid[i]
        BY <1>0, <2>1, <2>3 DEF TypeOK
      <3>2. QED BY <1>0, <2>2, <3>1, BothCalm DEF Kept
    <2>4. CASE i = nextId
      <3>1. mem[i] = "none"
        BY <1>0, <2>4 DEF FreshInv, TypeOK, Ids
      <3>2. \A u \in Threads : Uses(u) => cur[u] # i
        BY <1>0, <3>1 DEF NoUseAfterFree
      <3>3. \A u \in Threads : pc'[u] \in {"get_wait", "put_wait"} =>
              cur'[u] # i
        BY <1>0, <2>1, <3>2 DEF Leave, Uses, HoldPcs, TypeOK
      <3>4. At(i, "get_wait")' = {} /\ At(i, "put_wait")' = {}
        BY <3>3 DEF At
      <3>5. QED BY <1>c, <3>4
    <2>5. QED BY <2>3, <2>4
  <1>4. ASSUME NEW t \in Threads, CreateFail(t) \/ Unregister(t) PROVE Kept
    <2>1. /\ pc[t] \in {"create", "unregister"} /\ Leave(t)
          /\ UNCHANGED <<valid, ring>>
      BY <1>4 DEF CreateFail, Unregister, shared
    <2>2. \A u \in Threads : /\ Calm(u, i, "get_wait", "get_woken")
                             /\ Calm(u, i, "put_wait", "put_woken")
      BY <1>0, <2>1 DEF Leave, Calm, TypeOK
    <2>3. QED BY <1>0, <2>1, <2>2, BothCalm DEF Kept
  \* The step does not change the ring or a validity, and it is not made by a
  \* thread that was woken for something.
  <1>5. ASSUME NEW t \in Threads,
               PutOversize(t) \/ GetTimeout(t) \/ GetExpire(t) \/ SpuriousWake(t)
        PROVE  Kept
    <2>1. /\ UNCHANGED <<valid, ring, cur>>
          /\ pc[t] \in {"put", "get_expired", "get_wait", "put_wait"}
          /\ pc'[t] \in {"release", "get_expired", "get_woken", "put_woken"}
          /\ \A u \in Threads \ {t} : pc'[u] = pc[u]
      BY <1>0, <1>5
         DEF PutOversize, GetTimeout, GetExpire, SpuriousWake, Finish, shared, TypeOK
    <2>2. \A u \in Threads : /\ Calm(u, i, "get_wait", "get_woken")
                             /\ Calm(u, i, "put_wait", "put_woken")
      BY <2>1 DEF Calm
    <2>3. QED BY <1>0, <2>1, <2>2, BothCalm DEF Kept
  <1>6. ASSUME NEW t \in Threads, Release(t) PROVE Kept
    <2>1. /\ pc[t] = "release" /\ pc'[t] \in {"drop", "idle", "unregister"}
          /\ \A u \in Threads \ {t} : pc'[u] = pc[u] /\ cur'[u] = cur[u]
          /\ UNCHANGED <<valid, ring>>
      <3>1. CASE refs[cur[t]] = 1
        BY <1>0, <1>6, <3>1 DEF Release, TypeOK
      <3>2. CASE refs[cur[t]] # 1
        BY <1>0, <1>6, <3>2, ReturnPcs DEF Release
      <3>3. QED BY <3>1, <3>2
    <2>2. \A u \in Threads : /\ Calm(u, i, "get_wait", "get_woken")
                             /\ Calm(u, i, "put_wait", "put_woken")
      BY <2>1 DEF Calm
    <2>3. QED BY <1>0, <2>1, <2>2, BothCalm DEF Kept
  <1>7. ASSUME NEW t \in Threads, Drop(t) PROVE Kept
    <2>1. /\ pc[t] = "drop" /\ pc'[t] \in {"idle", "unregister"}
          /\ \A u \in Threads \ {t} : pc'[u] = pc[u] /\ cur'[u] = cur[u]
          /\ UNCHANGED valid
      BY <1>0, <1>7, ReturnPcs DEF Drop
    <2>2. CASE ~valid[i]
      BY <1>d, <2>1, <2>2
    <2>3. CASE valid[i]
      <3>1. ring'[i] = ring[i]
        BY <1>0, <1>7, <2>3 DEF Drop, TypeOK
      <3>2. \A u \in Threads : /\ Calm(u, i, "get_wait", "get_woken")
                               /\ Calm(u, i, "put_wait", "put_woken")
        BY <2>1 DEF Calm
      <3>3. QED BY <1>0, <2>1, <3>1, <3>2, BothCalm DEF Kept
    <2>4. QED BY <2>2, <2>3
  \* The caller is in the loop on queue cur[t], and leaves the ring alone.
  <1>8. ASSUME NEW t \in Threads,
               \/ PutInvalid(t) \/ PutWait(t)
               \/ GetInvalid(t) \/ GetEmpty(t) \/ GetWait(t)
        PROVE  Kept
    <2>1. /\ UNCHANGED <<valid, ring, cur>> /\ cur[t] \in Ids
          /\ \A u \in Threads \ {t} : pc'[u] = pc[u]
      BY <1>0, <1>8
         DEF PutInvalid, PutWait, GetInvalid, GetEmpty, GetWait, PutRuns, GetRuns,
             Finish, shared, LocalInv, Uses, HoldPcs, TypeOK
    <2>2. CASE i # cur[t]
      BY <1>0, <2>1, <2>2, OtherQueues DEF Kept
    <2>3. CASE i = cur[t] /\ (PutInvalid(t) \/ GetInvalid(t))
      <3>1. ~valid[i] /\ pc'[t] = "release"
        BY <1>0, <2>3 DEF PutInvalid, GetInvalid, Finish, TypeOK
      <3>2. QED BY <1>d, <2>1, <3>1
    <2>4. CASE i = cur[t] /\ PutWait(t)
      <3>1. /\ valid[i] /\ pc[t] \in {"put", "put_woken"} /\ pc'[t] = "put_wait"
            /\ ring[i].count = Depth
        BY <1>0, <2>4, QueueAssumption DEF PutWait, PutRuns, HasRoom, TypeOK, RingType
      <3>2. \A u \in Threads : Calm(u, i, "get_wait", "get_woken")
        BY <2>1, <3>1 DEF Calm
      <3>3. PICK c \in Int : c = ring[i].count /\ c = ring'[i].count /\ Depth - c = 0
        BY <1>b, <2>1, <3>1, QueueAssumption
      <3>4. Covered(i, "get_wait", "get_woken", c)
        BY <3>3, Wakeups
      <3>5. Covered(i, "get_wait", "get_woken", c)'
        BY <2>1, <3>2, <3>4, CalmStep
      <3>6. Covered(i, "put_wait", "put_woken", 0)'
        BY <2>1, <3>1, FreeStep
      <3>7. QED BY <3>3, <3>5, <3>6 DEF Kept, Covered
    <2>5. CASE i = cur[t] /\ (GetEmpty(t) \/ GetWait(t))
      <3>1. /\ valid[i] /\ pc[t] \in {"get", "get_woken"}
            /\ pc'[t] \in {"get_wait", "release"} /\ ring[i].count = 0
        BY <1>0, <2>5 DEF GetEmpty, GetWait, GetRuns, Finish, TypeOK
      <3>2. \A u \in Threads : Calm(u, i, "put_wait", "put_woken")
        BY <2>1, <3>1 DEF Calm
      <3>3. PICK c \in Int : c = Depth - ring[i].count /\ c = Depth - ring'[i].count
        BY <1>b, <2>1
      <3>4. Covered(i, "put_wait", "put_woken", c)
        BY <3>3, Wakeups
      <3>5. Covered(i, "put_wait", "put_woken", c)'
        BY <2>1, <3>2, <3>4, CalmStep
      <3>6. Covered(i, "get_wait", "get_woken", 0)'
        BY <2>1, <3>1, FreeStep
      <3>7. ring'[i].count = 0
        BY <2>1, <3>1
      <3>8. QED BY <3>3, <3>5, <3>6, <3>7 DEF Kept, Covered
    <2>6. QED BY <1>8, <2>2, <2>3, <2>4, <2>5
  <1>9. ASSUME NEW t \in Threads, PutStore(t) \/ GetTake(t) PROVE Kept
    <2>1. CASE i = cur[t]
      BY <1>0, <1>9, <2>1, StoreWakes, TakeWakes DEF Kept
    <2>2. CASE i # cur[t]
      <3>1. /\ UNCHANGED <<valid, cur>> /\ ring'[i] = ring[i]
            /\ \A u \in Threads \ {t} : pc'[u] = pc[u] \/ cur[u] = cur[t]
        BY <1>0, <1>9, <2>2
           DEF PutStore, GetTake, SignalAndRelease, NotEmptyWaiters, NotFullWaiters,
               TypeOK
      <3>2. QED BY <1>0, <2>2, <3>1, OtherQueues DEF Kept
    <2>3. QED BY <2>1, <2>2
  <1>10. ASSUME NEW t \in Threads, DeleteMark(t) PROVE Kept
    <2>1. /\ UNCHANGED <<ring, cur>> /\ pc[t] = "delete" /\ pc'[t] = "release"
          /\ \A u \in Threads \ {t} :
               pc'[u] = IF cur[u] # cur[t] THEN pc[u]
                        ELSE IF pc[u] = "put_wait" THEN "put_woken"
                        ELSE IF pc[u] = "get_wait" THEN "get_woken"
                        ELSE pc[u]
      BY <1>0, <1>10 DEF DeleteMark, AfterBroadcast, TypeOK
    <2>2. CASE i = cur[t]
      <3>1. At(i, "get_wait")' = {} /\ At(i, "put_wait")' = {}
        BY <2>1, <2>2 DEF At
      <3>2. QED BY <1>c, <3>1
    <2>3. CASE i # cur[t]
      <3>1. valid'[i] = valid[i] /\ ring'[i] = ring[i]
        BY <1>0, <1>10, <2>3 DEF DeleteMark, TypeOK
      <3>2. \A u \in Threads : /\ Calm(u, i, "get_wait", "get_woken")
                               /\ Calm(u, i, "put_wait", "put_woken")
        BY <2>1, <2>3 DEF Calm
      <3>3. QED BY <1>0, <3>1, <3>2, BothCalm DEF Kept
    <2>4. QED BY <2>2, <2>3
  <1>11. CASE UNCHANGED vars
    BY <1>0, <1>11, BothCalm DEF vars, Calm, Kept
  <1>12. QED
    BY <1>1, <1>2, <1>3, <1>4, <1>5, <1>6, <1>7, <1>8, <1>9, <1>10, <1>11
       DEF Next, Call, Step, PutCall, GetCall, DeleteCall, Kept

\* No wake-up is lost, for any number of readers and writers: whoever is blocked
\* is blocked because there is nothing for it that is not another's already.
THEOREM QueueNoLostWakeup == Spec => []NoLostWakeup
  <1>1. Init => NoLostWakeup
    BY DEF Init, NoLostWakeup, NotEmptyWaiters, NotFullWaiters
  <1>2. QED BY <1>1, QueueLife, WakeStep, PTL DEF Spec

-----------------------------------------------------------------------------
(* The ring as a sequence.                                                 *)

\* An index of the ring is at most one turn ahead.
LEMMA CellOf ==
  ASSUME NEW n \in 0..(2 * Depth - 1)
  PROVE  n % Depth = IF n < Depth THEN n ELSE n - Depth
  <1>0. Depth \in Nat /\ Depth > 0
    BY QueueAssumption
  <1>1. \A q \in Int, r \in 0..(Depth - 1) : (q * Depth + r) % Depth = r
    BY <1>0
  <1>2. CASE n < Depth
    <2>1. (0 * Depth + n) % Depth = n
      BY <1>0, <1>1, <1>2
    <2>2. 0 * Depth + n = n
      BY <1>0
    <2>3. QED BY <1>2, <2>1, <2>2
  <1>3. CASE n >= Depth
    <2>1. PICK r \in 0..(Depth - 1) : r = n - Depth
      BY <1>0, <1>3
    <2>2. (1 * Depth + r) % Depth = r
      BY <1>1
    <2>3. 1 * Depth + r = n
      BY <1>0, <2>1
    <2>4. QED BY <1>0, <1>3, <2>1, <2>2, <2>3
  <1>4. QED BY <1>0, <1>2, <1>3

\* What a ring holds is a sequence of messages, as long as its count says.
LEMMA ContentSeq ==
  ASSUME NEW r \in RingType, RingHolds(r)
  PROVE  /\ Content(r) \in Seq(Msgs)
         /\ Len(Content(r)) = r.count
         /\ \A k \in 1..r.count : Content(r)[k] = r.buf[(r.head + k - 1) % Depth]
  <1>1. r.count \in Nat
    BY DEF RingType
  <1>2. Content(r) \in [1..r.count -> Msgs]
    BY DEF Content, RingHolds
  <1>3. Content(r) \in Seq(Msgs)
    BY <1>1, <1>2, Z3
  <1>4. Len(Content(r)) = r.count
    BY <1>1, <1>2, <1>3
  <1>5. QED BY <1>3, <1>4 DEF Content

\* A new ring holds nothing.
LEMMA EmptyHolds == RingHolds(EmptyRing) /\ Content(EmptyRing) = <<>>
  <1>0. EmptyRing \in RingType
    BY EmptyRingType
  <1>1. EmptyRing.count = 0 /\ EmptyRing.head = 0 /\ EmptyRing.tail = 0
    BY DEF EmptyRing
  <1>2. 0 % Depth = 0
    BY CellOf, QueueAssumption
  <1>3. RingHolds(EmptyRing)
    BY <1>1, <1>2 DEF RingHolds
  <1>4. Content(EmptyRing) \in Seq(Msgs) /\ Len(Content(EmptyRing)) = 0
    BY <1>0, <1>1, <1>3, ContentSeq
  <1>5. Content(EmptyRing) = <<>>
    BY <1>4, EmptySeq
  <1>6. QED BY <1>3, <1>5

\* OSAL_QueuePut appends: the cell at tail is not one of those in use.
LEMMA WrittenHolds ==
  ASSUME NEW r \in RingType, RingHolds(r), NEW m \in Msgs, r.count < Depth
  PROVE  /\ RingHolds(Written(r, m))
         /\ Content(Written(r, m)) = Append(Content(r), m)
  <1> DEFINE s == Written(r, m)
  <1>0. Depth \in Nat /\ Depth > 0
    BY QueueAssumption
  <1>1. PICK h \in 0..(Depth - 1), c \in 0..(Depth - 1) : h = r.head /\ c = r.count
    BY <1>0 DEF RingType
  <1>2. /\ s.head = h /\ s.count = c + 1 /\ s.tail = (r.tail + 1) % Depth
        /\ s.buf = [r.buf EXCEPT ![r.tail] = m]
    BY <1>1 DEF Written
  <1>3. s \in RingType
    BY WrittenType
  <1> HIDE DEF s
  <1>4. r.tail = (h + c) % Depth /\ r.tail \in 0..(Depth - 1)
    BY <1>1 DEF RingHolds, RingType
  <1>5. r.tail = IF h + c < Depth THEN h + c ELSE h + c - Depth
    <2>1. PICK n \in 0..(2 * Depth - 1) : n = h + c
      BY <1>0, <1>1
    <2>2. n % Depth = IF n < Depth THEN n ELSE n - Depth
      BY CellOf
    <2>3. n % Depth = (h + c) % Depth
      BY <2>1
    <2>4. r.tail = IF n < Depth THEN n ELSE n - Depth
      BY <1>4, <2>2, <2>3
    <2>5. QED BY <1>0, <1>1, <2>1, <2>4
  <1>6. s.tail = (h + (c + 1)) % Depth
    <2>1. s.tail = IF r.tail + 1 < Depth THEN r.tail + 1 ELSE r.tail + 1 - Depth
      BY <1>0, <1>2, <1>4, CellOf
    <2>2. PICK n \in 0..(2 * Depth - 1) : n = h + (c + 1)
      BY <1>0, <1>1
    <2>3. n % Depth = IF n < Depth THEN n ELSE n - Depth
      BY CellOf
    <2>4. s.tail = n % Depth
      <3>1. PICK x \in 0..(Depth - 1) : x = r.tail
        BY <1>4
      <3>2. x = IF h + c < Depth THEN h + c ELSE h + c - Depth
        BY <1>5, <3>1
      <3>3. s.tail = IF x + 1 < Depth THEN x + 1 ELSE x + 1 - Depth
        BY <2>1, <3>1
      <3>4. (IF x + 1 < Depth THEN x + 1 ELSE x + 1 - Depth)
              = (IF n < Depth THEN n ELSE n - Depth)
        BY <1>0, <1>1, <2>2, <3>2
      <3>5. QED BY <2>3, <3>3, <3>4
    <2>5. QED BY <2>2, <2>4
  <1>7. ASSUME NEW k \in 1..c
        PROVE  s.buf[(h + k - 1) % Depth] = r.buf[(h + k - 1) % Depth]
    <2>1. PICK n \in 0..(2 * Depth - 1) : n = h + k - 1
      BY <1>0, <1>1
    <2>2. n % Depth = IF n < Depth THEN n ELSE n - Depth
      BY CellOf
    <2>3. PICK x \in 0..(Depth - 1) : x = n % Depth
      BY <1>0, <2>1, <2>2
    <2>4. x # r.tail
      BY <1>0, <1>1, <1>5, <2>1, <2>2, <2>3
    <2>5. s.buf[x] = r.buf[x]
      BY <1>2, <1>4, <2>4 DEF RingType
    <2>6. QED BY <2>1, <2>3, <2>5
  <1>8. s.buf[(h + (c + 1) - 1) % Depth] = m
    <2>1. h + (c + 1) - 1 = h + c
      BY <1>1
    <2>2. s.buf[r.tail] = m
      BY <1>2, <1>4 DEF RingType
    <2>3. QED BY <1>4, <2>1, <2>2
  <1>9. RingHolds(s)
    <2>1. \A k \in 1..c : r.buf[(h + k - 1) % Depth] \in Msgs
      BY <1>1 DEF RingHolds
    <2>2. ASSUME NEW k \in 1..(c + 1) PROVE s.buf[(h + k - 1) % Depth] \in Msgs
      <3>1. CASE k \in 1..c
        BY <1>7, <2>1, <3>1
      <3>2. CASE k = c + 1
        BY <1>8, <3>2
      <3>3. QED BY <1>0, <1>1, <3>1, <3>2
    <2>3. QED BY <1>2, <1>6, <2>2 DEF RingHolds
  <1>10. Content(s) = Append(Content(r), m)
    <2>1. /\ Content(r) \in Seq(Msgs) /\ Len(Content(r)) = c
          /\ \A k \in 1..c : Content(r)[k] = r.buf[(h + k - 1) % Depth]
      BY <1>1, ContentSeq
    <2>2. /\ Content(s) \in Seq(Msgs) /\ Len(Content(s)) = c + 1
          /\ \A k \in 1..(c + 1) : Content(s)[k] = s.buf[(h + k - 1) % Depth]
      BY <1>2, <1>3, <1>9, ContentSeq
    <2>3. /\ Append(Content(r), m) \in Seq(Msgs)
          /\ Len(Append(Content(r), m)) = c + 1
          /\ \A k \in 1..c : Append(Content(r), m)[k] = Content(r)[k]
          /\ Append(Content(r), m)[c + 1] = m
      BY <2>1, AppendProperties
    <2>4. ASSUME NEW k \in 1..(c + 1)
          PROVE  Content(s)[k] = Append(Content(r), m)[k]
      <3>1. CASE k \in 1..c
        BY <1>7, <2>1, <2>2, <2>3, <3>1
      <3>2. CASE k = c + 1
        <4>1. Content(s)[k] = s.buf[(h + k - 1) % Depth]
          BY <2>2
        <4>2. (h + k - 1) % Depth = (h + (c + 1) - 1) % Depth
          BY <3>2
        <4>3. s.buf[(h + k - 1) % Depth] = m
          BY <1>8, <4>2
        <4>4. Append(Content(r), m)[k] = m
          BY <2>3, <3>2
        <4>5. QED BY <4>1, <4>3, <4>4
      <3>3. k \in 1..c \/ k = c + 1
        BY <1>0, <1>1
      <3>4. QED BY <3>1, <3>2, <3>3
    <2>5. QED BY <2>2, <2>3, <2>4, SeqEqual
  <1>11. QED BY <1>9, <1>10 DEF s

\* OSAL_QueueGet takes the oldest message off.
LEMMA TakenHolds ==
  ASSUME NEW r \in RingType, RingHolds(r), r.count > 0
  PROVE  /\ RingHolds(Taken(r))
         /\ Content(r) # <<>>
         /\ r.buf[r.head] = Head(Content(r)) /\ r.buf[r.head] \in Msgs
         /\ Content(Taken(r)) = Tail(Content(r))
  <1> DEFINE s == Taken(r)
  <1>0. Depth \in Nat /\ Depth > 0
    BY QueueAssumption
  <1>1. PICK h \in 0..(Depth - 1), c \in 1..Depth : h = r.head /\ c = r.count
    BY <1>0 DEF RingType
  <1>2. /\ s.head = (h + 1) % Depth /\ s.count = c - 1 /\ s.tail = r.tail
        /\ s.buf = r.buf
    BY <1>1 DEF Taken
  <1>3. s \in RingType
    BY TakenType
  <1> HIDE DEF s
  <1>4. PICK g \in 0..(Depth - 1) : g = s.head
    BY <1>3 DEF RingType
  <1>5. g = IF h + 1 < Depth THEN h + 1 ELSE h + 1 - Depth
    BY <1>0, <1>1, <1>2, <1>4, CellOf
  <1>6. ASSUME NEW k \in 0..(c - 1) PROVE (g + k) % Depth = (h + (k + 1)) % Depth
    <2>0. g + k \in 0..(2 * Depth - 1) /\ h + (k + 1) \in 0..(2 * Depth - 1)
      BY <1>0, <1>1
    <2>1. PICK a \in 0..(2 * Depth - 1), b \in 0..(2 * Depth - 1) :
            a = g + k /\ b = h + (k + 1)
      BY <2>0
    <2>2. /\ a % Depth = IF a < Depth THEN a ELSE a - Depth
          /\ b % Depth = IF b < Depth THEN b ELSE b - Depth
      BY CellOf
    <2>3. (IF a < Depth THEN a ELSE a - Depth) = (IF b < Depth THEN b ELSE b - Depth)
      BY <1>0, <1>1, <1>5, <2>1
    <2>4. a % Depth = b % Depth
      BY <2>2, <2>3
    <2>5. QED BY <2>1, <2>4
  <1>7. /\ Content(r) \in Seq(Msgs) /\ Len(Content(r)) = c
        /\ \A k \in 1..c : Content(r)[k] = r.buf[(h + k - 1) % Depth]
    BY <1>1, ContentSeq
  <1>8. RingHolds(s)
    <2>1. r.tail = (h + c) % Depth
      BY <1>1 DEF RingHolds
    <2>2. (g + (c - 1)) % Depth = (h + ((c - 1) + 1)) % Depth
      BY <1>1, <1>6
    <2>3. (c - 1) + 1 = c
      BY <1>1
    <2>4. s.tail = (g + (c - 1)) % Depth
      BY <1>2, <2>1, <2>2, <2>3
    <2>5. ASSUME NEW k \in 1..(c - 1) PROVE s.buf[(g + k - 1) % Depth] \in Msgs
      <3>1. k - 1 \in 0..(c - 1) /\ (k - 1) + 1 = k /\ g + k - 1 = g + (k - 1)
        BY <1>1
      <3>2. (g + (k - 1)) % Depth = (h + ((k - 1) + 1)) % Depth
        BY <1>6, <3>1
      <3>3. k + 1 \in 1..c /\ h + (k + 1) - 1 = h + k
        BY <1>1
      <3>4. r.buf[(h + (k + 1) - 1) % Depth] \in Msgs
        BY <1>1, <3>3 DEF RingHolds
      <3>5. QED BY <1>2, <3>1, <3>2, <3>3, <3>4
    <2>6. QED BY <1>2, <1>4, <2>4, <2>5 DEF RingHolds
  <1>9. Content(r) # <<>>
    BY <1>1, <1>7, EmptySeq
  <1>10. r.buf[r.head] = Head(Content(r)) /\ r.buf[r.head] \in Msgs
    <2>1. h + 1 - 1 = h /\ h % Depth = h /\ 1 \in 1..c
      BY <1>0, <1>1, CellOf
    <2>2. r.buf[h] = Content(r)[1]
      BY <1>7, <2>1
    <2>3. Head(Content(r)) = Content(r)[1]
      BY <1>7, <1>9
    <2>4. Content(r)[1] \in Msgs
      BY <1>7, <2>1, ElementOfSeq
    <2>5. QED BY <1>1, <2>2, <2>3, <2>4
  <1>11. Content(s) = Tail(Content(r))
    <2>1. /\ Content(s) \in Seq(Msgs) /\ Len(Content(s)) = c - 1
          /\ \A k \in 1..(c - 1) : Content(s)[k] = r.buf[(g + k - 1) % Depth]
      BY <1>2, <1>3, <1>4, <1>8, ContentSeq
    <2>2. /\ Tail(Content(r)) \in Seq(Msgs) /\ Len(Tail(Content(r))) = c - 1
          /\ \A k \in 1..(c - 1) : Tail(Content(r))[k] = Content(r)[k + 1]
      BY <1>7, <1>9, HeadTailProperties
    <2>3. ASSUME NEW k \in 1..(c - 1) PROVE Content(s)[k] = Tail(Content(r))[k]
      <3>1. k - 1 \in 0..(c - 1) /\ (k - 1) + 1 = k /\ g + k - 1 = g + (k - 1)
        BY <1>1
      <3>2. (g + (k - 1)) % Depth = (h + ((k - 1) + 1)) % Depth
        BY <1>6, <3>1
      <3>3. k + 1 \in 1..c /\ h + (k + 1) - 1 = h + k
        BY <1>1
      <3>4. Content(r)[k + 1] = r.buf[(h + (k + 1) - 1) % Depth]
        BY <1>7, <3>3
      <3>5. QED BY <2>1, <2>2, <3>1, <3>2, <3>3, <3>4
    <2>4. QED BY <2>1, <2>2, <2>3, SeqEqual
  <1>12. QED BY <1>8, <1>9, <1>10, <1>11 DEF s

-----------------------------------------------------------------------------
(* What is in the rings and in the hands of the readers.                   *)

\* What OSAL_QueuePut stores is a message, in a queue that has room for it.
LEMMA Storing ==
  ASSUME LifeInv, DataInv, NEW t \in Threads, PutStore(t), NEW i, i = cur[t]
  PROVE  /\ i \in Ids /\ valid[i] /\ arg[t] \in Msgs
         /\ ring[i] \in RingType /\ RingHolds(ring[i]) /\ ring[i].count < Depth
         /\ ring' = [ring EXCEPT ![i] = Written(ring[i], arg[t])]
  <1>1. TypeOK /\ LocalInv
    BY DEF LifeInv
  <1>2. i \in Ids /\ arg[t] \in Msgs
    BY <1>1 DEF PutStore, PutRuns, LocalInv, Uses, HoldPcs
  <1>3. QED BY <1>1, <1>2 DEF PutStore, HasRoom, TypeOK, DataInv

\* What OSAL_QueueGet takes is there, in a queue that is still valid.
LEMMA Taking ==
  ASSUME LifeInv, DataInv, NEW t \in Threads, GetTake(t), NEW i, i = cur[t]
  PROVE  /\ i \in Ids /\ valid[i]
         /\ ring[i] \in RingType /\ RingHolds(ring[i]) /\ ring[i].count > 0
         /\ ring' = [ring EXCEPT ![i] = Taken(ring[i])]
         /\ hand' = [hand EXCEPT ![t] = ring[i].buf[ring[i].head]]
         /\ ring[i].buf[ring[i].head] \in Msgs
  <1>1. TypeOK /\ LocalInv
    BY DEF LifeInv
  <1>2. i \in Ids
    BY <1>1 DEF GetTake, CanTake, GetRuns, LocalInv, Uses, HoldPcs
  <1>3. /\ valid[i] /\ ring[i] \in RingType /\ RingHolds(ring[i]) /\ ring[i].count > 0
        /\ ring' = [ring EXCEPT ![i] = Taken(ring[i])]
        /\ hand' = [hand EXCEPT ![t] = ring[i].buf[ring[i].head]]
    BY <1>1, <1>2 DEF GetTake, CanTake, TypeOK, DataInv
  <1>4. QED BY <1>2, <1>3, TakenHolds

\* Every step keeps the rings well-formed.
LEMMA RingStep ==
  LifeInv /\ DataInv /\ [Next]_vars => \A i \in Ids : RingHolds(ring'[i])
  <1> SUFFICES ASSUME LifeInv, DataInv, [Next]_vars, NEW i \in Ids
               PROVE  RingHolds(ring'[i])
    OBVIOUS
  <1>0. TypeOK /\ RingHolds(ring[i])
    BY DEF LifeInv, DataInv
  <1>1. CASE ring'[i] = ring[i]
    BY <1>0, <1>1
  <1>2. ASSUME NEW t \in Threads, CreateFill(t) PROVE RingHolds(ring'[i])
    <2>1. ring' = [ring EXCEPT ![nextId] = EmptyRing]
      BY <1>2 DEF CreateFill, NewQueue
    <2>2. ring'[i] = ring[i] \/ ring'[i] = EmptyRing
      BY <1>0, <2>1 DEF TypeOK
    <2>3. QED BY <1>1, <2>2, EmptyHolds
  <1>3. ASSUME NEW t \in Threads, Drop(t) PROVE RingHolds(ring'[i])
    <2>1. ring'[i] = ring[i] \/ ring'[i] = EmptyRing
      BY <1>0, <1>3 DEF Drop, TypeOK
    <2>2. QED BY <1>1, <2>1, EmptyHolds
  <1>4. ASSUME NEW t \in Threads, PutStore(t) PROVE RingHolds(ring'[i])
    <2>1. PICK j : j = cur[t]
      OBVIOUS
    <2>2. /\ ring' = [ring EXCEPT ![j] = Written(ring[j], arg[t])]
          /\ RingHolds(Written(ring[j], arg[t]))
      BY <1>4, <2>1, Storing, WrittenHolds
    <2>3. CASE i = j
      BY <1>0, <2>2, <2>3 DEF TypeOK
    <2>4. CASE i # j
      BY <1>0, <2>2, <2>4 DEF TypeOK
    <2>5. QED BY <2>3, <2>4
  <1>5. ASSUME NEW t \in Threads, GetTake(t) PROVE RingHolds(ring'[i])
    <2>1. PICK j : j = cur[t]
      OBVIOUS
    <2>2. /\ ring' = [ring EXCEPT ![j] = Taken(ring[j])]
          /\ RingHolds(Taken(ring[j]))
      BY <1>5, <2>1, Taking, TakenHolds
    <2>3. CASE i = j
      BY <1>0, <2>2, <2>3 DEF TypeOK
    <2>4. CASE i # j
      BY <1>0, <2>2, <2>4 DEF TypeOK
    <2>5. QED BY <2>3, <2>4
  <1>6. CASE UNCHANGED ring
    BY <1>1, <1>6
  <1>7. QED
    BY <1>2, <1>3, <1>4, <1>5, <1>6
       DEF Next, Call, Step, vars, shared, CreateFind, PutCall, GetCall, DeleteCall,
           CreateFail, PutOversize, PutInvalid, PutWait, GetInvalid, GetEmpty, GetWait,
           GetTimeout, DeleteMark, Release, Unregister, GetExpire, SpuriousWake

\* Every step keeps what a thread's place says of its answer.
LEMMA AnswerStep == LifeInv /\ DataInv /\ [Next]_vars => AnswerInv'
  <1> SUFFICES ASSUME LifeInv, DataInv, [Next]_vars PROVE AnswerInv'
    OBVIOUS
  <1>0. TypeOK /\ AnswerInv
    BY DEF LifeInv, DataInv
  <1> USE DEF AnswerInv
  <1>1. ASSUME NEW t \in Threads, NEW o, NEW p, NEW i, NEW a, NEW s,
               Enter(t, o, p, i, a, s),
               <<o, p>> \in {<<"create", "create">>, <<"put", "put">>,
                             <<"get", "get">>, <<"delete", "delete">>}
        PROVE  AnswerInv'
    BY <1>0, <1>1 DEF Enter, TypeOK
  <1>2. ASSUME NEW t \in Threads, Leave(t) PROVE AnswerInv'
    BY <1>0, <1>2 DEF Leave, TypeOK
  <1>3. ASSUME NEW t \in Threads, Return(t) PROVE AnswerInv'
    BY <1>0, <1>2, <1>3 DEF Return, TypeOK
  <1>4. ASSUME NEW t \in Threads, NEW r \in Results \ {"SUCCESS", "none"}, Finish(t, r),
               pc[t] \in {"put", "put_woken", "get", "get_woken", "get_expired"}
        PROVE  AnswerInv'
    BY <1>0, <1>4 DEF Finish, TypeOK
  <1>5. ASSUME NEW t \in Threads,
               PutWait(t) \/ GetWait(t) \/ GetExpire(t) \/ SpuriousWake(t)
        PROVE  AnswerInv'
    BY <1>0, <1>5
       DEF PutWait, GetWait, GetExpire, SpuriousWake, PutRuns, GetRuns, TypeOK
  <1>6. ASSUME NEW t \in Threads, PutStore(t) PROVE AnswerInv'
    <2>1. /\ pc[t] \in {"put", "put_woken"} /\ pc'[t] = "release"
          /\ \A u \in Threads \ {t} :
               pc'[u] = pc[u] \/ (pc[u] = "get_wait" /\ pc'[u] = "get_woken")
          /\ res' = [res EXCEPT ![t] = "SUCCESS"] /\ op' = op /\ hand' = hand
      BY <1>0, <1>6 DEF PutStore, PutRuns, SignalAndRelease, NotEmptyWaiters, TypeOK
    <2>2. QED BY <1>0, <2>1 DEF TypeOK
  <1>7. ASSUME NEW t \in Threads, GetTake(t) PROVE AnswerInv'
    <2>1. /\ pc[t] \in {"get", "get_woken"} /\ pc'[t] = "release"
          /\ \A u \in Threads \ {t} :
               pc'[u] = pc[u] \/ (pc[u] = "put_wait" /\ pc'[u] = "put_woken")
          /\ res' = [res EXCEPT ![t] = "SUCCESS"] /\ op' = op
      BY <1>0, <1>7 DEF GetTake, CanTake, GetRuns, SignalAndRelease, NotFullWaiters, TypeOK
    <2>2. PICK m \in Msgs : hand' = [hand EXCEPT ![t] = m]
      BY <1>7, Taking
    <2>3. m # NoMsg
      BY QueueAssumption
    <2>4. QED BY <1>0, <2>1, <2>2, <2>3 DEF TypeOK
  <1>8. ASSUME NEW t \in Threads, DeleteMark(t) PROVE AnswerInv'
    <2>1. /\ pc[t] = "delete" /\ pc'[t] = "release"
          /\ \A u \in Threads \ {t} :
               \/ pc'[u] = pc[u]
               \/ pc[u] = "get_wait" /\ pc'[u] = "get_woken"
               \/ pc[u] = "put_wait" /\ pc'[u] = "put_woken"
          /\ res' = [res EXCEPT ![t] = "SUCCESS"] /\ op' = op /\ hand' = hand
      BY <1>0, <1>8 DEF DeleteMark, AfterBroadcast, TypeOK
    <2>2. QED BY <1>0, <2>1 DEF TypeOK
  <1>9. ASSUME NEW t \in Threads, Release(t) PROVE AnswerInv'
    <2>1. CASE refs[cur[t]] = 1
      BY <1>0, <1>9, <2>1 DEF Release, TypeOK
    <2>2. CASE refs[cur[t]] # 1
      BY <1>3, <1>9, <2>2 DEF Release
    <2>3. QED BY <2>1, <2>2
  <1>10. CASE UNCHANGED vars
    BY <1>0, <1>10 DEF vars
  <1> HIDE DEF AnswerInv
  <1>11. ASSUME NEW t \in Threads, Call(t) PROVE AnswerInv'
    BY <1>1, <1>11 DEF Call, CreateFind, PutCall, GetCall, DeleteCall
  <1>12. ASSUME NEW t \in Threads,
                CreateFill(t) \/ CreateFail(t) \/ Unregister(t) \/ Drop(t)
         PROVE  AnswerInv'
    BY <1>2, <1>3, <1>12 DEF CreateFill, CreateFail, Unregister, Drop
  <1>13. ASSUME NEW t \in Threads,
                \/ PutOversize(t) \/ PutInvalid(t) \/ GetInvalid(t) \/ GetEmpty(t)
                \/ GetTimeout(t)
         PROVE  AnswerInv'
    BY <1>4, <1>13
       DEF PutOversize, PutInvalid, GetInvalid, GetEmpty, GetTimeout, PutRuns, GetRuns,
           Results
  <1>14. QED
    BY <1>5, <1>6, <1>7, <1>8, <1>9, <1>10, <1>11, <1>12, <1>13 DEF Next, Step

\* In the initial state every ring is empty, and every hand.
LEMMA InitData == Init => DataInv
  BY EmptyHolds DEF Init, DataInv, AnswerInv

\* The rings and the answers, as one inductive invariant.
LEMMA DataAlways == Spec => [](LifeInv /\ DataInv)
  <1>1. LifeInv /\ DataInv /\ [Next]_vars => DataInv'
    BY RingStep, AnswerStep DEF DataInv
  <1>2. QED BY <1>1, InitData, QueueLife, PTL DEF Spec

\* OSAL_QueueGet answers OSAL_SUCCESS exactly when it has copied a message, however
\* many readers were woken for it.
THEOREM QueueReportsDelivery == Spec => []GetReportsDelivery
  <1>1. DataInv => GetReportsDelivery
    BY DEF DataInv, AnswerInv, GetReportsDelivery
  <1>2. QED BY <1>1, DataAlways, PTL

-----------------------------------------------------------------------------
(* The queue implements a bounded FIFO.                                    *)

\* A step that leaves the queues as they are leaves the FIFO as it is.
LEMMA SameQueues ==
  ASSUME UNCHANGED <<mem, valid, ring>>
  PROVE  Phase' = Phase /\ Held' = Held
  BY DEF Phase, Held

\* A call that returns hands over the message it has, if it has one.
LEMMA LeaveHands ==
  ASSUME TypeOK, NEW t \in Threads, Leave(t) \/ Return(t),
         Phase' = Phase, Held' = Held
  PROVE  [Fifo!FifoNext]_(Fifo!fifoVars)
  <1>1. hand' = hand \/ hand' = [hand EXCEPT ![t] = NoMsg]
    BY DEF Leave, Return
  <1>2. CASE hand' = hand
    BY <1>2 DEF Fifo!fifoVars
  <1>3. CASE hand' # hand
    <2>1. hand[t] # NoMsg
      BY <1>1, <1>3 DEF TypeOK
    <2>2. Fifo!HandOver(t)
      BY <1>1, <1>3, <2>1 DEF Fifo!HandOver
    <2>3. QED BY <2>2 DEF Fifo!FifoNext
  <1>4. QED BY <1>2, <1>3

\* A created queue is opened, with nothing in it.
LEMMA CreateOpens ==
  ASSUME LifeInv, DataInv, NEW t \in Threads, CreateFill(t)
  PROVE  \E i \in Ids : Fifo!Open(i)
  <1>0. TypeOK /\ FreshInv /\ AnswerInv
    BY DEF LifeInv, DataInv
  <1>1. PICK n \in Ids :
        /\ n = nextId
        /\ mem' = [mem EXCEPT ![n] = "live"]
        /\ valid' = [valid EXCEPT ![n] = TRUE]
        /\ ring' = [ring EXCEPT ![n] = EmptyRing]
    <2>1. nextId \in Ids
      BY <1>0, QueueAssumption DEF CreateFill, NewQueue, TypeOK, Ids
    <2>2. QED BY <2>1 DEF CreateFill, NewQueue
  <1>2. mem[n] = "none" /\ ~valid[n]
    BY <1>0, <1>1 DEF FreshInv, TypeOK, Ids
  <1>3. Phase[n] = "new" /\ Phase' = [Phase EXCEPT ![n] = "open"]
    BY <1>0, <1>1, <1>2 DEF Phase, TypeOK
  <1>4. Held' = Held
    <2>1. ASSUME NEW j \in Ids
          PROVE  (IF valid'[j] THEN Content(ring'[j]) ELSE <<>>)
                   = (IF valid[j] THEN Content(ring[j]) ELSE <<>>)
      <3>1. CASE j = n
        <4>1. valid'[j] /\ ring'[j] = EmptyRing
          BY <1>0, <1>1, <3>1 DEF TypeOK
        <4>2. Content(ring'[j]) = <<>>
          BY <4>1, EmptyHolds
        <4>3. QED BY <1>2, <3>1, <4>1, <4>2
      <3>2. CASE j # n
        <4>1. valid'[j] = valid[j] /\ ring'[j] = ring[j]
          BY <1>0, <1>1, <3>2 DEF TypeOK
        <4>2. QED BY <4>1
      <3>3. QED BY <3>1, <3>2
    <2>2. Held' = [j \in Ids |-> IF valid'[j] THEN Content(ring'[j]) ELSE <<>>]
      BY DEF Held, Content
    <2>3. QED BY <2>1, <2>2 DEF Held
  <1>5. hand' = hand
    <2>1. hand[t] = NoMsg /\ hand' = [hand EXCEPT ![t] = NoMsg]
      BY <1>0 DEF CreateFill, Leave, AnswerInv
    <2>2. QED BY <1>0, <2>1 DEF TypeOK
  <1>6. Fifo!Open(n)
    BY <1>3, <1>4, <1>5 DEF Fifo!Open
  <1>7. QED BY <1>6

\* What a change of one ring is to the contents.
LEMMA OneRing ==
  ASSUME TypeOK, NEW i \in Ids, valid[i], NEW r,
         ring' = [ring EXCEPT ![i] = r], UNCHANGED <<mem, valid>>
  PROVE  /\ Phase' = Phase
         /\ Phase[i] = "open" \/ mem[i] = "none"
         /\ Held[i] = Content(ring[i])
         /\ Held' = [Held EXCEPT ![i] = Content(r)]
  <1>1. Phase' = Phase /\ (Phase[i] = "open" \/ mem[i] = "none")
    BY DEF Phase
  <1>2. Held[i] = Content(ring[i])
    BY DEF Held
  <1>3. ASSUME NEW j \in Ids
        PROVE  (IF valid'[j] THEN Content(ring'[j]) ELSE <<>>)
                 = (IF j = i THEN Content(r) ELSE Held[j])
    <2>1. CASE j = i
      <3>1. ring'[j] = r /\ valid'[j]
        BY <2>1 DEF TypeOK
      <3>2. QED BY <2>1, <3>1
    <2>2. CASE j # i
      <3>1. ring'[j] = ring[j] /\ valid'[j] = valid[j]
        BY <2>2 DEF TypeOK
      <3>2. QED BY <2>2, <3>1 DEF Held
    <2>3. QED BY <2>1, <2>2
  <1>4. Held' = [j \in Ids |-> IF valid'[j] THEN Content(ring'[j]) ELSE <<>>]
    BY DEF Held, Content
  <1>5. Held' = [j \in Ids |-> IF j = i THEN Content(r) ELSE Held[j]]
    BY <1>3, <1>4
  <1>6. Held' = [Held EXCEPT ![i] = Content(r)]
    BY <1>5 DEF Held
  <1>7. QED BY <1>1, <1>2, <1>6

\* A message stored is sent.
LEMMA StoreSends ==
  ASSUME LifeInv, DataInv, NEW t \in Threads, PutStore(t)
  PROVE  \E i \in Ids, m \in Msgs : Fifo!Send(i, m)
  <1>0. TypeOK /\ FreshInv
    BY DEF LifeInv
  <1>1. PICK i : i = cur[t]
    OBVIOUS
  <1>2. PICK m : m = arg[t]
    OBVIOUS
  <1>3. /\ i \in Ids /\ valid[i] /\ m \in Msgs
        /\ ring[i] \in RingType /\ RingHolds(ring[i]) /\ ring[i].count < Depth
        /\ ring' = [ring EXCEPT ![i] = Written(ring[i], m)]
    BY <1>1, <1>2, Storing
  <1>4. UNCHANGED <<mem, valid, hand>>
    BY DEF PutStore
  <1>5. mem[i] # "none"
    BY <1>0, <1>3 DEF FreshInv
  <1>6. /\ Phase' = Phase /\ Phase[i] = "open"
        /\ Held[i] = Content(ring[i])
        /\ Held' = [Held EXCEPT ![i] = Content(Written(ring[i], m))]
    BY <1>0, <1>3, <1>4, <1>5, OneRing
  <1>7. Content(Written(ring[i], m)) = Append(Held[i], m)
    BY <1>3, <1>6, WrittenHolds
  <1>8. Len(Held[i]) < Depth
    BY <1>3, <1>6, ContentSeq
  <1>9. Fifo!Send(i, m)
    BY <1>4, <1>6, <1>7, <1>8 DEF Fifo!Send
  <1>10. QED BY <1>3, <1>9

\* A message taken is received, by one caller, and it is the oldest.
LEMMA TakeReceives ==
  ASSUME LifeInv, DataInv, NEW t \in Threads, GetTake(t)
  PROVE  \E i \in Ids : Fifo!Receive(t, i)
  <1>0. TypeOK /\ FreshInv /\ AnswerInv
    BY DEF LifeInv, DataInv
  <1>1. PICK i : i = cur[t]
    OBVIOUS
  <1>2. /\ i \in Ids /\ valid[i]
        /\ ring[i] \in RingType /\ RingHolds(ring[i]) /\ ring[i].count > 0
        /\ ring' = [ring EXCEPT ![i] = Taken(ring[i])]
        /\ hand' = [hand EXCEPT ![t] = ring[i].buf[ring[i].head]]
    BY <1>1, Taking
  <1>3. UNCHANGED <<mem, valid>>
    BY DEF GetTake
  <1>4. mem[i] # "none"
    BY <1>0, <1>2 DEF FreshInv
  <1>5. /\ Phase' = Phase /\ Phase[i] = "open"
        /\ Held[i] = Content(ring[i])
        /\ Held' = [Held EXCEPT ![i] = Content(Taken(ring[i]))]
    BY <1>0, <1>2, <1>3, <1>4, OneRing
  <1>6. /\ Held[i] # <<>>
        /\ hand' = [hand EXCEPT ![t] = Head(Held[i])]
        /\ Content(Taken(ring[i])) = Tail(Held[i])
    BY <1>2, <1>5, TakenHolds
  <1>7. hand[t] = NoMsg
    BY <1>0 DEF GetTake, CanTake, GetRuns, AnswerInv
  <1>8. Fifo!Receive(t, i)
    BY <1>5, <1>6, <1>7 DEF Fifo!Receive
  <1>9. QED BY <1>2, <1>8

\* A queue marked invalid is closed.
LEMMA MarkCloses ==
  ASSUME LifeInv, NEW t \in Threads, DeleteMark(t)
  PROVE  \E i \in Ids : Fifo!Close(i)
  <1>0. TypeOK /\ LocalInv /\ DeleteInv /\ FreshInv
    BY DEF LifeInv
  <1>1. PICK i \in Ids : i = cur[t]
    BY <1>0 DEF DeleteMark, LocalInv, Uses, HoldPcs
  <1>2. /\ valid[i] /\ mem[i] # "none"
        /\ valid' = [valid EXCEPT ![i] = FALSE]
        /\ UNCHANGED <<mem, ring, hand>>
    BY <1>0, <1>1 DEF DeleteMark, DeleteInv, FreshInv
  <1>3. Phase[i] = "open" /\ Phase' = [Phase EXCEPT ![i] = "closed"]
    BY <1>0, <1>2 DEF Phase, TypeOK
  <1>4. Held' = [Held EXCEPT ![i] = <<>>]
    <2>1. Held' = [j \in Ids |-> IF valid'[j] THEN Content(ring[j]) ELSE <<>>]
      BY <1>2 DEF Held, Content
    <2>2. QED BY <1>0, <1>2, <2>1 DEF Held, TypeOK
  <1>5. Fifo!Close(i)
    BY <1>2, <1>3, <1>4 DEF Fifo!Close
  <1>6. QED BY <1>5

\* The memory is given back: the FIFO was closed before.
LEMMA DropKeeps ==
  ASSUME TypeOK, LocalInv, NoUseAfterFree, NEW t \in Threads, Drop(t)
  PROVE  Phase' = Phase /\ Held' = Held
  <1>1. PICK i \in Ids : i = cur[t] /\ mem[i] = "live"
    BY DEF Drop, LocalInv, NoUseAfterFree, Uses
  <1>2. CASE valid[i]
    <2>1. UNCHANGED <<mem, valid, ring>>
      BY <1>1, <1>2 DEF Drop
    <2>2. QED BY <2>1, SameQueues
  <1>3. CASE ~valid[i]
    <2>1. /\ valid' = valid
          /\ mem' = [mem EXCEPT ![i] = "freed"]
          /\ ring' = [ring EXCEPT ![i] = EmptyRing]
      BY <1>1, <1>3 DEF Drop
    <2>2. Phase' = Phase
      BY <1>1, <1>3, <2>1 DEF Phase, TypeOK
    <2>3. \A j \in Ids : valid[j] => ring'[j] = ring[j]
      BY <1>3, <2>1 DEF TypeOK
    <2>4. Held' = [j \in Ids |-> IF valid[j] THEN Content(ring'[j]) ELSE <<>>]
      BY <2>1 DEF Held, Content
    <2>5. Held' = Held
      BY <2>3, <2>4 DEF Held
    <2>6. QED BY <2>2, <2>5
  <1>4. QED BY <1>2, <1>3

\* Every step of the queue is a step of the FIFO, or none.
LEMMA FifoStep ==
  LifeInv /\ DataInv /\ [Next]_vars => [Fifo!FifoNext]_(Fifo!fifoVars)
  <1> SUFFICES ASSUME LifeInv, DataInv, [Next]_vars
               PROVE  [Fifo!FifoNext]_(Fifo!fifoVars)
    OBVIOUS
  <1>0. TypeOK /\ LocalInv /\ NoUseAfterFree
    BY DEF LifeInv
  <1>1. CASE UNCHANGED <<mem, valid, ring, hand>>
    BY <1>1, SameQueues DEF Fifo!fifoVars
  <1>2. ASSUME NEW t \in Threads, CreateFail(t) \/ Unregister(t)
        PROVE  [Fifo!FifoNext]_(Fifo!fifoVars)
    BY <1>0, <1>2, SameQueues, LeaveHands DEF CreateFail, Unregister, shared
  <1>3. ASSUME NEW t \in Threads, Release(t) PROVE [Fifo!FifoNext]_(Fifo!fifoVars)
    <2>1. CASE refs[cur[t]] = 1
      BY <1>1, <1>3, <2>1 DEF Release
    <2>2. CASE refs[cur[t]] # 1
      BY <1>0, <1>3, <2>2, SameQueues, LeaveHands DEF Release
    <2>3. QED BY <2>1, <2>2
  <1>4. ASSUME NEW t \in Threads, Drop(t) PROVE [Fifo!FifoNext]_(Fifo!fifoVars)
    BY <1>0, <1>4, DropKeeps, LeaveHands DEF Drop
  <1>5. ASSUME NEW t \in Threads, CreateFill(t) PROVE Fifo!FifoNext
    BY <1>5, CreateOpens DEF Fifo!FifoNext
  <1>6. ASSUME NEW t \in Threads, PutStore(t) PROVE Fifo!FifoNext
    BY <1>6, StoreSends DEF Fifo!FifoNext
  <1>7. ASSUME NEW t \in Threads, GetTake(t) PROVE Fifo!FifoNext
    BY <1>7, TakeReceives DEF Fifo!FifoNext
  <1>8. ASSUME NEW t \in Threads, DeleteMark(t) PROVE Fifo!FifoNext
    BY <1>8, MarkCloses DEF Fifo!FifoNext
  <1>9. ASSUME NEW t \in Threads,
               \/ Call(t) \/ PutOversize(t) \/ PutInvalid(t) \/ PutWait(t)
               \/ GetInvalid(t) \/ GetEmpty(t) \/ GetWait(t) \/ GetTimeout(t)
               \/ GetExpire(t) \/ SpuriousWake(t)
        PROVE  UNCHANGED <<mem, valid, ring, hand>>
    BY <1>9
       DEF Call, CreateFind, PutCall, GetCall, DeleteCall, Enter, PutOversize,
           PutInvalid, PutWait, GetInvalid, GetEmpty, GetWait, GetTimeout, GetExpire,
           SpuriousWake, Finish, shared
  <1>10. CASE UNCHANGED vars
    BY <1>1, <1>10 DEF vars
  <1>11. QED
    BY <1>1, <1>2, <1>3, <1>4, <1>5, <1>6, <1>7, <1>8, <1>9, <1>10 DEF Next, Step

\* At the start every FIFO is still to be opened.
LEMMA InitFifo == Init => Fifo!FifoInit
  BY DEF Init, Phase, Held, Fifo!FifoInit

\* The queue keeps what its callers count on, for any number of threads and any
\* depth: no message is lost, duplicated, reordered or handed to two readers, and
\* none is accepted or delivered once OSAL_QueueDelete has marked the queue.
THEOREM QueueImplementsFifo == Spec => ImplementsFifo
  BY DataAlways, FifoStep, InitFifo, PTL DEF Spec, ImplementsFifo, Fifo!FifoSpec

-----------------------------------------------------------------------------
(* The names in use and the entries of the resource tracker.               *)

\* The comparison of the name and the fill are one critical section, so a stale
\* slot does not bring two queues of one name.
LEMMA NameStep == LifeInv /\ NameInv /\ [Next]_vars => NameInv'
  <1> SUFFICES ASSUME LifeInv, NameInv, [Next]_vars PROVE NameInv'
    OBVIOUS
  <1>0. TypeOK /\ LocalInv
    BY DEF LifeInv
  <1>1. ASSUME NEW t \in Threads, CreateFill(t) PROVE NameInv'
    <2>1. PICK k \in Slots : k = slot[t]
      BY <1>0, <1>1 DEF CreateFill, LocalInv
    <2>2. PICK n, a : /\ n = nextId /\ a = arg[t]
                      /\ tbl' = [tbl EXCEPT ![k] = [used |-> TRUE, id |-> n, name |-> a]]
                      /\ \A s \in Slots : tbl[s].used => tbl[s].name # a
      BY <1>1, <2>1 DEF CreateFill, NewQueue, NameTaken
    <2>3. \A s \in Slots :
            tbl'[s] = IF s = k THEN [used |-> TRUE, id |-> n, name |-> a] ELSE tbl[s]
      BY <1>0, <2>2 DEF TypeOK
    <2>4. QED BY <2>1, <2>2, <2>3 DEF NameInv
  <1>2. ASSUME NEW t \in Threads, NEW i \in Ids, DeleteCall(t, i) PROVE NameInv'
    <2>1. PICK k \in Slots : tbl' = [tbl EXCEPT ![k] = [@ EXCEPT !.used = FALSE]]
      BY <1>2 DEF DeleteCall
    <2>2. /\ tbl'[k].used = FALSE
          /\ \A s \in Slots \ {k} : tbl'[s] = tbl[s]
      BY <1>0, <2>1 DEF TypeOK
    <2>3. QED BY <2>2 DEF NameInv
  <1>3. CASE UNCHANGED tbl
    BY <1>3 DEF NameInv
  <1>4. QED
    BY <1>1, <1>2, <1>3
       DEF Next, Call, Step, CreateFind, PutCall, GetCall, CreateFail, PutOversize,
           PutInvalid, PutWait, PutStore, GetInvalid, GetEmpty, GetWait, GetTimeout,
           GetTake, GetExpire, SpuriousWake, DeleteMark, Release, Drop, Unregister,
           shared, vars

\* OSAL_QueueGetIdByName has one answer at most, although OSAL_QueueCreate fills a
\* slot that it searched in an earlier critical section.
THEOREM QueueUniqueNames == Spec => []UniqueNames
  <1>1. Init => NameInv
    BY DEF Init, NameInv
  <1>2. NameInv => UniqueNames
    <2> SUFFICES ASSUME NameInv, NEW n \in Names
                 PROVE  Cardinality(GetIdByName(n)) <= 1
      BY DEF UniqueNames
    <2>1. CASE GetIdByName(n) = {}
      BY <2>1, FS_EmptySet
    <2>2. CASE GetIdByName(n) # {}
      <3>1. PICK s \in Slots : tbl[s].used /\ tbl[s].name = n
        BY <2>2 DEF GetIdByName
      <3>2. GetIdByName(n) = {tbl[s].id}
        BY <3>1 DEF GetIdByName, NameInv
      <3>3. Cardinality({tbl[s].id}) = 1
        BY FS_Singleton
      <3>4. QED BY <3>2, <3>3
    <2>3. QED BY <2>1, <2>2
  <1>3. QED BY <1>1, <1>2, NameStep, QueueLife, PTL DEF Spec

\* A step that neither opens nor closes a queue, in which no delete gets over
\* its mark or returns and nobody leaves osal_queue_release, keeps the entries.
LEMMA TrackSame ==
  ASSUME TrackInv,
         UNCHANGED <<mem, valid, tracked>>,
         \A i \in Ids : refs'[i] = 0 => refs[i] = 0,
         \A u \in Threads :
           \/ pc'[u] = pc[u] /\ op'[u] = op[u] /\ cur'[u] = cur[u]
           \/ ~Retiring(u) /\ ~Retiring(u)' /\ pc[u] # "drop"
  PROVE  TrackInv'
  <1>1. \A u \in Threads :
          /\ Retiring(u) => Retiring(u)' /\ cur'[u] = cur[u]
          /\ Retiring(u)' => Retiring(u) /\ cur'[u] = cur[u]
          /\ pc[u] = "drop" => pc'[u] = "drop" /\ cur'[u] = cur[u]
    BY DEF Retiring
  <1>2. QED BY <1>1 DEF TrackInv

\* A new queue is valid and has its entry, and no call knows its id yet.
LEMMA TrackCreate ==
  ASSUME LifeInv, TrackInv, NEW t \in Threads, CreateFill(t)
  PROVE  TrackInv'
  <1>0. TypeOK /\ FreshInv
    BY DEF LifeInv
  <1>1. PICK n \in Ids :
          /\ n = nextId
          /\ mem' = [mem EXCEPT ![n] = "live"]
          /\ valid' = [valid EXCEPT ![n] = TRUE]
          /\ refs' = [refs EXCEPT ![n] = 1]
          /\ tracked' = tracked \cup {n}
    <2>1. nextId \in Ids
      BY <1>0, QueueAssumption DEF CreateFill, NewQueue, TypeOK, Ids
    <2>2. QED BY <2>1 DEF CreateFill, NewQueue
  <1>2. /\ pc[t] = "create" /\ pc'[t] = "idle"
        /\ \A u \in Threads \ {t} :
             pc'[u] = pc[u] /\ op'[u] = op[u] /\ cur'[u] = cur[u]
    BY <1>0 DEF CreateFill, Leave, TypeOK
  <1>3. mem[n] = "none"
    BY <1>0, <1>1 DEF FreshInv, TypeOK, Ids
  <1>4. \A u \in Threads : Retiring(u) => cur[u] # n
    BY <1>3 DEF TrackInv
  <1>5. \A u \in Threads : Retiring(u)' <=> (Retiring(u) /\ u # t)
    BY <1>2 DEF Retiring
  <1>6. ~Retiring(t) /\ pc[t] # "drop"
    BY <1>2 DEF Retiring
  <1>7. \A j \in Ids \ {n} :
          mem'[j] = mem[j] /\ valid'[j] = valid[j] /\ refs'[j] = refs[j]
    BY <1>1
  <1>8. mem'[n] = "live" /\ valid'[n] /\ refs'[n] = 1
    BY <1>0, <1>1 DEF TypeOK
  <1>9. \A u \in Threads : Retiring(u)' => ~valid'[cur'[u]] /\ mem'[cur'[u]] # "none"
    <2> SUFFICES ASSUME NEW u \in Threads, Retiring(u)'
                 PROVE  ~valid'[cur'[u]] /\ mem'[cur'[u]] # "none"
      OBVIOUS
    <2>1. Retiring(u) /\ u # t /\ cur'[u] = cur[u] /\ cur[u] # n
      BY <1>2, <1>4, <1>5
    <2>2. QED BY <1>1, <2>1, <1>0 DEF TrackInv, TypeOK
  <1>10. \A i \in Ids : valid'[i] => i \in tracked'
    BY <1>1, <1>7 DEF TrackInv
  <1>11. \A i \in tracked' :
           valid'[i] \/ \E u \in Threads : Retiring(u)' /\ cur'[u] = i
    <2> SUFFICES ASSUME NEW i \in tracked', i # n
                 PROVE  valid'[i] \/ \E u \in Threads : Retiring(u)' /\ cur'[u] = i
      BY <1>8
    <2>1. i \in tracked /\ i \in Ids /\ valid'[i] = valid[i]
      BY <1>0, <1>1, <1>7 DEF TypeOK
    <2>2. QED BY <2>1, <1>2, <1>5, <1>6 DEF TrackInv
  <1>12. \A i \in Ids :
           (mem'[i] = "live" /\ refs'[i] = 0)
             => \E u \in Threads : pc'[u] = "drop" /\ cur'[u] = i
    <2> SUFFICES ASSUME NEW i \in Ids, mem'[i] = "live", refs'[i] = 0
                 PROVE  \E u \in Threads : pc'[u] = "drop" /\ cur'[u] = i
      OBVIOUS
    <2>1. i # n
      BY <1>8
    <2>2. PICK u \in Threads : pc[u] = "drop" /\ cur[u] = i
      BY <1>7, <2>1 DEF TrackInv
    <2>3. QED BY <1>2, <1>6, <2>2
  <1>13. QED BY <1>9, <1>10, <1>11, <1>12 DEF TrackInv

\* The entry of a queue marked invalid is left to the delete that marks it.
LEMMA TrackMark ==
  ASSUME LifeInv, DataInv, TrackInv, NEW t \in Threads, DeleteMark(t)
  PROVE  TrackInv'
  <1>0. TypeOK /\ LocalInv /\ NoUseAfterFree /\ AnswerInv
    BY DEF LifeInv, DataInv
  <1>1. PICK i \in Ids : i = cur[t]
    BY <1>0 DEF DeleteMark, LocalInv, Uses, HoldPcs
  <1>2. /\ pc[t] = "delete" /\ op[t] = "delete"
        /\ valid' = [valid EXCEPT ![i] = FALSE]
        /\ UNCHANGED <<mem, refs, tracked, op, cur>>
    BY <1>0, <1>1 DEF DeleteMark, AnswerInv
  <1>3. /\ pc'[t] = "release"
        /\ \A u \in Threads \ {t} :
             \/ pc'[u] = pc[u]
             \/ pc[u] \in {"put_wait", "get_wait"} /\ pc'[u] \in {"put_woken", "get_woken"}
    BY <1>0 DEF DeleteMark, AfterBroadcast, TypeOK
  <1>4. mem[i] = "live"
    BY <1>0, <1>1, <1>2 DEF NoUseAfterFree, Uses, HoldPcs
  <1>5. \A u \in Threads : Retiring(u)' <=> Retiring(u) \/ u = t
    BY <1>2, <1>3 DEF Retiring
  <1>6. \A u \in Threads : pc'[u] = "drop" <=> pc[u] = "drop"
    BY <1>2, <1>3
  <1>7. \A j \in Ids : valid'[j] <=> valid[j] /\ j # i
    BY <1>0, <1>2 DEF TypeOK
  <1>8. \A u \in Threads : Retiring(u)' => ~valid'[cur'[u]] /\ mem'[cur'[u]] # "none"
    BY <1>0, <1>1, <1>2, <1>4, <1>5, <1>7 DEF TrackInv, Retiring, LocalInv, Uses, HoldPcs
  <1>9. QED BY <1>0, <1>1, <1>2, <1>5, <1>6, <1>7, <1>8 DEF TrackInv, TypeOK

\* The end of a call: a delete that has still to unregister stays so.
LEMMA TrackReturn ==
  ASSUME TypeOK, NEW t \in Threads, pc[t] \in {"release", "drop"}, Return(t)
  PROVE  /\ Retiring(t)' <=> Retiring(t)
         /\ Retiring(t) => cur'[t] = cur[t]
         /\ pc'[t] # "drop"
         /\ \A u \in Threads \ {t} :
              pc'[u] = pc[u] /\ op'[u] = op[u] /\ cur'[u] = cur[u]
  <1>1. CASE op[t] = "delete"
    BY <1>1 DEF Return, Retiring, TypeOK
  <1>2. CASE op[t] # "delete"
    BY <1>2 DEF Return, Leave, Retiring, TypeOK
  <1>3. QED BY <1>1, <1>2

\* Who takes the count to 0 goes on to free the queue.
LEMMA TrackRelease ==
  ASSUME LifeInv, TrackInv, NEW t \in Threads, Release(t)
  PROVE  TrackInv'
  <1>0. TypeOK /\ LocalInv
    BY DEF LifeInv
  <1>1. PICK i \in Ids : i = cur[t]
    BY <1>0 DEF Release, LocalInv, Uses, HoldPcs
  <1>2. /\ pc[t] = "release"
        /\ refs' = [refs EXCEPT ![i] = @ - 1]
        /\ UNCHANGED <<mem, valid, tracked>>
    BY <1>1 DEF Release
  <1>3. /\ Retiring(t)' <=> Retiring(t)
        /\ Retiring(t) => cur'[t] = cur[t]
        /\ refs[i] = 1 => pc'[t] = "drop" /\ cur'[t] = i
        /\ \A u \in Threads \ {t} :
             pc'[u] = pc[u] /\ op'[u] = op[u] /\ cur'[u] = cur[u]
    <2>1. CASE refs[i] = 1
      BY <1>0, <1>1, <2>1 DEF Release, Retiring, TypeOK
    <2>2. CASE refs[i] # 1
      BY <1>0, <1>1, <1>2, <2>2, TrackReturn DEF Release
    <2>3. QED BY <2>1, <2>2
  <1>4. \A u \in Threads :
          (Retiring(u)' <=> Retiring(u)) /\ (Retiring(u) => cur'[u] = cur[u])
    BY <1>3 DEF Retiring
  <1>5. \A j \in Ids :
          (mem'[j] = "live" /\ refs'[j] = 0)
            => \E u \in Threads : pc'[u] = "drop" /\ cur'[u] = j
    <2> SUFFICES ASSUME NEW j \in Ids, mem'[j] = "live", refs'[j] = 0
                 PROVE  \E u \in Threads : pc'[u] = "drop" /\ cur'[u] = j
      OBVIOUS
    <2>1. CASE j = i
      <3>1. refs[i] = 1
        BY <1>0, <1>2, <2>1 DEF TypeOK
      <3>2. QED BY <1>3, <2>1, <3>1
    <2>2. CASE j # i
      <3>1. mem[j] = "live" /\ refs[j] = 0
        BY <1>2, <2>2
      <3>2. PICK u \in Threads : pc[u] = "drop" /\ cur[u] = j
        BY <3>1 DEF TrackInv
      <3>3. QED BY <1>2, <1>3, <3>2
    <2>3. QED BY <2>1, <2>2
  <1>6. QED BY <1>2, <1>4, <1>5 DEF TrackInv

\* The last one out frees the queue, and the entry stays with the delete.
LEMMA TrackDrop ==
  ASSUME LifeInv, TrackInv, NEW t \in Threads, Drop(t)
  PROVE  TrackInv'
  <1>0. TypeOK /\ LocalInv /\ DropInv
    BY DEF LifeInv
  <1>1. PICK i \in Ids : i = cur[t]
    BY <1>0 DEF Drop, LocalInv, Uses
  <1>2. /\ pc[t] = "drop" /\ ~valid[i]
        /\ mem' = [mem EXCEPT ![i] = "freed"]
        /\ UNCHANGED <<valid, refs, tracked>>
    BY <1>0, <1>1 DEF Drop, DropInv
  <1>3. /\ Retiring(t)' <=> Retiring(t)
        /\ Retiring(t) => cur'[t] = cur[t]
        /\ \A u \in Threads \ {t} :
             pc'[u] = pc[u] /\ op'[u] = op[u] /\ cur'[u] = cur[u]
    BY <1>0, <1>2, TrackReturn DEF Drop
  <1>4. \A u \in Threads :
          (Retiring(u)' <=> Retiring(u)) /\ (Retiring(u) => cur'[u] = cur[u])
    BY <1>3 DEF Retiring
  <1>5. \A j \in Ids : mem'[j] = IF j = i THEN "freed" ELSE mem[j]
    BY <1>0, <1>2 DEF TypeOK
  <1>6. \A u \in Threads : Retiring(u)' => ~valid'[cur'[u]] /\ mem'[cur'[u]] # "none"
    <2> SUFFICES ASSUME NEW u \in Threads, Retiring(u)'
                 PROVE  ~valid'[cur'[u]] /\ mem'[cur'[u]] # "none"
      OBVIOUS
    <2>1. Retiring(u) /\ cur'[u] = cur[u] /\ cur[u] \in Ids
      BY <1>0, <1>4 DEF Retiring, LocalInv, Uses, HoldPcs
    <2>2. QED BY <1>2, <1>5, <2>1 DEF TrackInv
  <1>7. \A j \in Ids :
          (mem'[j] = "live" /\ refs'[j] = 0)
            => \E u \in Threads : pc'[u] = "drop" /\ cur'[u] = j
    <2> SUFFICES ASSUME NEW j \in Ids, mem'[j] = "live", refs'[j] = 0
                 PROVE  \E u \in Threads : pc'[u] = "drop" /\ cur'[u] = j
      OBVIOUS
    <2>1. j # i /\ mem[j] = "live" /\ refs[j] = 0
      BY <1>2, <1>5
    <2>2. PICK u \in Threads : pc[u] = "drop" /\ cur[u] = j
      BY <2>1 DEF TrackInv
    <2>3. QED BY <1>1, <1>3, <2>1, <2>2
  <1>8. QED BY <1>2, <1>4, <1>6, <1>7 DEF TrackInv

\* OSAL_QueueDelete takes the entry of the queue it has marked, and that only.
LEMMA TrackUnregister ==
  ASSUME LifeInv, DataInv, TrackInv, NEW t \in Threads, Unregister(t)
  PROVE  TrackInv'
  <1>0. TypeOK /\ LocalInv /\ AnswerInv
    BY DEF LifeInv, DataInv
  <1>1. PICK i \in Ids : i = cur[t]
    BY <1>0 DEF Unregister, LocalInv
  <1>2. /\ pc[t] = "unregister" /\ tracked' = tracked \ {i}
        /\ UNCHANGED <<mem, valid, refs>>
        /\ pc'[t] = "idle"
        /\ \A u \in Threads \ {t} :
             pc'[u] = pc[u] /\ op'[u] = op[u] /\ cur'[u] = cur[u]
    BY <1>0, <1>1 DEF Unregister, Leave, TypeOK
  <1>3. Retiring(t) /\ ~valid[i]
    BY <1>0, <1>1, <1>2 DEF Retiring, AnswerInv, TrackInv
  <1>4. \A u \in Threads : Retiring(u)' <=> (Retiring(u) /\ u # t)
    BY <1>2 DEF Retiring
  <1>5. \A u \in Threads : pc'[u] = "drop" <=> pc[u] = "drop"
    BY <1>2
  <1>6. QED BY <1>1, <1>2, <1>3, <1>4, <1>5 DEF TrackInv

\* Every step keeps the entries.
LEMMA TrackStep == LifeInv /\ DataInv /\ TrackInv /\ [Next]_vars => TrackInv'
  <1> SUFFICES ASSUME LifeInv, DataInv, TrackInv, [Next]_vars PROVE TrackInv'
    OBVIOUS
  <1>0. TypeOK /\ AnswerInv
    BY DEF LifeInv, DataInv
  <1>1. ASSUME NEW t \in Threads, Call(t) PROVE TrackInv'
    <2>1. UNCHANGED <<mem, valid, tracked>>
      BY <1>1 DEF Call, CreateFind, PutCall, GetCall, DeleteCall, shared
    <2>2. \A i \in Ids : refs'[i] = 0 => refs[i] = 0
      BY <1>0, <1>1 DEF Call, CreateFind, PutCall, GetCall, DeleteCall, Acquire, shared,
                        TypeOK
    <2>3. /\ pc[t] = "idle" /\ pc'[t] \in {"create", "put", "get", "delete"}
          /\ \A u \in Threads \ {t} :
               pc'[u] = pc[u] /\ op'[u] = op[u] /\ cur'[u] = cur[u]
      BY <1>0, <1>1 DEF Call, CreateFind, PutCall, GetCall, DeleteCall, Enter, TypeOK
    <2>4. ~Retiring(t) /\ ~Retiring(t)' /\ pc[t] # "drop"
      BY <2>3 DEF Retiring
    <2>5. QED BY <2>1, <2>2, <2>3, <2>4, TrackSame
  <1>2. ASSUME NEW t \in Threads, CreateFail(t) PROVE TrackInv'
    <2>1. /\ pc[t] = "create" /\ pc'[t] = "idle"
          /\ \A u \in Threads \ {t} :
               pc'[u] = pc[u] /\ op'[u] = op[u] /\ cur'[u] = cur[u]
          /\ UNCHANGED <<mem, valid, tracked, refs>>
      BY <1>0, <1>2 DEF CreateFail, Leave, shared, TypeOK
    <2>2. ~Retiring(t) /\ ~Retiring(t)' /\ pc[t] # "drop"
      BY <2>1 DEF Retiring
    <2>3. QED BY <2>1, <2>2, TrackSame
  <1>3. ASSUME NEW t \in Threads,
               \/ PutOversize(t) \/ PutInvalid(t) \/ PutWait(t) \/ PutStore(t)
               \/ GetInvalid(t) \/ GetEmpty(t) \/ GetWait(t) \/ GetTimeout(t)
               \/ GetTake(t) \/ GetExpire(t) \/ SpuriousWake(t)
        PROVE  TrackInv'
    <2>1. UNCHANGED <<mem, valid, tracked, refs, op, cur>>
      BY <1>3 DEF PutOversize, PutInvalid, PutWait, PutStore, GetInvalid,
                  GetEmpty, GetWait, GetTimeout, GetTake, GetExpire,
                  SpuriousWake, Finish, shared
    <2>2. \A u \in Threads :
            \/ pc'[u] = pc[u]
            \/ /\ pc[u] \in {"put", "put_wait", "put_woken",
                             "get", "get_wait", "get_woken", "get_expired"}
      <3>1. CASE PutStore(t)
        BY <1>0, <3>1 DEF PutStore, PutRuns, SignalAndRelease, NotEmptyWaiters, TypeOK
      <3>2. CASE GetTake(t)
        BY <1>0, <3>2
           DEF GetTake, CanTake, GetRuns, SignalAndRelease, NotFullWaiters, TypeOK
      <3>3. CASE SpuriousWake(t) \/ GetExpire(t)
        BY <1>0, <3>3 DEF SpuriousWake, GetExpire, TypeOK
      <3>4. CASE PutOversize(t) \/ PutInvalid(t) \/ PutWait(t)
        BY <1>0, <3>4 DEF PutOversize, PutInvalid, PutWait, PutRuns, Finish, TypeOK
      <3>5. CASE GetInvalid(t) \/ GetEmpty(t) \/ GetWait(t) \/ GetTimeout(t)
        BY <1>0, <3>5
           DEF GetInvalid, GetEmpty, GetWait, GetTimeout, GetRuns, Finish, TypeOK
      <3>6. QED BY <1>3, <3>1, <3>2, <3>3, <3>4, <3>5
    <2>3. \A u \in Threads :
            \/ pc'[u] = pc[u] /\ op'[u] = op[u] /\ cur'[u] = cur[u]
            \/ ~Retiring(u) /\ ~Retiring(u)' /\ pc[u] # "drop"
      BY <1>0, <2>1, <2>2 DEF AnswerInv, Retiring
    <2>4. QED BY <2>1, <2>3, TrackSame
  <1>4. CASE UNCHANGED vars
    BY <1>4, TrackSame DEF vars
  <1>5. QED
    BY <1>1, <1>2, <1>3, <1>4, TrackCreate, TrackMark, TrackRelease, TrackDrop,
       TrackUnregister DEF Next, Step

\* When no call is in progress OSAL_ResourceCheckLeaks lists exactly the queues
\* whose memory is allocated, whatever calls went before.
THEOREM QueueTrackedExactly == Spec => []TrackedExactly
  <1>1. Init => TrackInv
    BY DEF Init, TrackInv, Retiring
  <1>2. LifeInv /\ TrackInv => TrackedExactly
    <2> SUFFICES ASSUME LifeInv, TrackInv, Idle, NEW i \in Ids
                 PROVE  i \in tracked <=> mem[i] = "live"
      BY DEF TrackedExactly, LifeInv, TypeOK
    <2>1. \A t \in Threads : ~Retiring(t) /\ pc[t] \notin HoldPcs \cup {"drop"}
      BY DEF Idle, Retiring, HoldPcs
    <2>2. i \in tracked => mem[i] = "live"
      BY <2>1 DEF TrackInv, LifeInv, FreshInv
    <2>3. ASSUME mem[i] = "live" PROVE i \in tracked
      <3>1. refs[i] # 0
        BY <2>1, <2>3 DEF TrackInv
      <3>2. Holders(i) = {}
        BY <2>1 DEF Holders
      <3>3. refs[i] = 0 + (IF Owned(i) THEN 1 ELSE 0)
        BY <3>2, FS_EmptySet DEF LifeInv, RefCountExact
      <3>4. Owned(i)
        BY <3>1, <3>3
      <3>5. QED BY <3>4 DEF Owned, TrackInv
    <2>4. QED BY <2>2, <2>3
  <1>3. QED BY <1>1, <1>2, TrackStep, DataAlways, PTL DEF Spec
=============================================================================
