--------------------------- MODULE OsalTaskProofs ---------------------------
(***************************************************************************)
(* Proofs about OsalTask, for any clients, slots, names and threads: most  *)
(* for one creator and callers that never delete one task twice at a time, *)
(* the ids for one creator, the types and the names for any callers.  The  *)
(* last part shows that OsalTask implements TaskService.                   *)
(***************************************************************************)
EXTENDS OsalTask, FiniteSetTheorems, WellFoundedInduction, TLAPS

-----------------------------------------------------------------------------
(* Types.                                                                  *)

AllPcs == {"idle", "create", "register", "unregister"} \cup DeletePcs

\* The part of TypeOK about clients.
LocalType ==
  /\ pc \in [Clients -> AllPcs]
  /\ arg \in [Clients -> Names \cup Ids \cup {None}]
  /\ slot \in [Clients -> 0..NTasks]
  /\ thr \in [Clients -> 0..MaxThreads]

\* The part about the table, the threads and the tracker.
SharedType ==
  /\ tbl \in [Slots -> RecordType]
  /\ ids \subseteq Ids
  /\ at \in [Threads -> {"none", "starting", "running", "returned", "marked",
                         "ended", "joined"}]
  /\ tid \in [Threads -> 0..NTasks]
  /\ pthread \in [Threads -> Pthreads \cup {None}]
  /\ nextThread \in 1..(MaxThreads + 1)
  /\ tracked \in [Ids -> Nat]
  /\ asked \subseteq Threads

LEMMA TypeParts == TypeOK <=> LocalType /\ SharedType
  BY DEF TypeOK, LocalType, SharedType, AllPcs

\* Entering, leaving or moving inside a call keeps the types of the locals.
LEMMA LeaveType ==
  ASSUME LocalType, NEW c \in Clients, Leave(c)
  PROVE  LocalType'
  BY TaskAssumption DEF LocalType, Leave, AllPcs

LEMMA GotoType ==
  ASSUME LocalType, NEW c \in Clients, NEW p \in AllPcs, Goto(c, p)
  PROVE  LocalType'
  BY DEF LocalType, Goto

LEMMA EnterType ==
  ASSUME LocalType, NEW c \in Clients, NEW p \in AllPcs,
         NEW a \in Names \cup Ids \cup {None}, NEW s \in 0..NTasks,
         NEW h \in 0..MaxThreads, Enter(c, p, a, s, h)
  PROVE  LocalType'
  BY DEF LocalType, Enter

\* Only records are written to the table.
LEMMA RecordTypes ==
  ASSUME NEW r \in RecordType, NEW i \in Ids, NEW n \in Names, NEW h \in Threads
  PROVE  /\ NewRecord(r, i, n, h) \in RecordType
         /\ Cleared(r) \in RecordType
         /\ [r EXCEPT !.shut = TRUE] \in RecordType
         /\ [r EXCEPT !.state = "RUNNING"] \in RecordType
         /\ [[r EXCEPT !.state = "TERMINATED"] EXCEPT !.exited = TRUE] \in RecordType
  <1>1. NewRecord(r, i, n, h) \in RecordType
    BY TaskAssumption DEF RecordType, NewRecord, Ids, Threads
  <1>2. \A q \in RecordType, v \in {"dead", "live"} : [q EXCEPT !.sync = v] \in RecordType
    BY DEF RecordType
  <1>3. \A q \in RecordType, v \in BOOLEAN :
          /\ [q EXCEPT !.used = v] \in RecordType
          /\ [q EXCEPT !.shut = v] \in RecordType
          /\ [q EXCEPT !.exited = v] \in RecordType
    BY DEF RecordType
  <1>4. \A q \in RecordType, v \in {"READY", "RUNNING", "TERMINATED"} :
          [q EXCEPT !.state = v] \in RecordType
    BY DEF RecordType
  <1>5. Cleared(r) \in RecordType
    BY <1>2, <1>3 DEF Cleared
  <1>6. QED BY <1>1, <1>3, <1>4, <1>5

\* What the writes to a record change.
LEMMA RecordFields ==
  ASSUME NEW r \in RecordType
  PROVE  /\ ~Cleared(r).used /\ Cleared(r).shut = r.shut
         /\ [r EXCEPT !.shut = TRUE].shut
         /\ [r EXCEPT !.shut = TRUE].used = r.used
         /\ [r EXCEPT !.shut = TRUE].id = r.id
         /\ [r EXCEPT !.shut = TRUE].name = r.name
         /\ [r EXCEPT !.shut = TRUE].thr = r.thr
         /\ [r EXCEPT !.state = "RUNNING"].shut = r.shut
         /\ [r EXCEPT !.state = "RUNNING"].used = r.used
         /\ [r EXCEPT !.state = "RUNNING"].id = r.id
         /\ [r EXCEPT !.state = "RUNNING"].name = r.name
         /\ [r EXCEPT !.state = "RUNNING"].thr = r.thr
         /\ [[r EXCEPT !.state = "TERMINATED"] EXCEPT !.exited = TRUE].shut = r.shut
         /\ [[r EXCEPT !.state = "TERMINATED"] EXCEPT !.exited = TRUE].used = r.used
         /\ [[r EXCEPT !.state = "TERMINATED"] EXCEPT !.exited = TRUE].id = r.id
         /\ [[r EXCEPT !.state = "TERMINATED"] EXCEPT !.exited = TRUE].name = r.name
         /\ [[r EXCEPT !.state = "TERMINATED"] EXCEPT !.exited = TRUE].thr = r.thr
  BY DEF RecordType, Cleared

\* The steps that leave the table, the threads and the requests alone.
Quiet == UNCHANGED <<table, threads, asked>>

\* Client c moves, and no other client does.
Moves(c) ==
  \A d \in Clients \ {c} :
    pc'[d] = pc[d] /\ arg'[d] = arg[d] /\ slot'[d] = slot[d] /\ thr'[d] = thr[d]

LEMMA MovesFacts ==
  ASSUME LocalType, NEW c \in Clients
  PROVE  /\ Leave(c) => Moves(c) /\ pc'[c] = "idle"
         /\ \A p \in AllPcs : Goto(c, p) =>
              /\ Moves(c) /\ pc'[c] = p
              /\ arg'[c] = arg[c] /\ slot'[c] = slot[c] /\ thr'[c] = thr[c]
         /\ \A p, a, s, h : Enter(c, p, a, s, h) =>
              /\ Moves(c) /\ pc[c] = "idle" /\ pc'[c] = p
              /\ arg'[c] = a /\ slot'[c] = s /\ thr'[c] = h
  BY DEF LocalType, Leave, Goto, Enter, Moves

-----------------------------------------------------------------------------
(* The initial states.                                                     *)

LEMMA InitInv == Init => TaskInv
  <1> SUFFICES ASSUME Init PROVE TaskInv
    OBVIOUS
  <1>1. TypeOK
    BY TaskAssumption DEF Init, TypeOK, RecordType, Slots, Ids, Threads, DeletePcs
  <1>2. ClientInv /\ DeleterInv
    BY DEF Init, ClientInv, DeleterInv, DeletePcs
  <1>3. RecordInv /\ DistinctInv /\ ExitedExact
    BY DEF Init, RecordInv, DistinctInv, ExitedExact
  <1>4. CoverInv
    BY DEF Init, CoverInv, Unjoined
  <1>5. ExitNotLost /\ ToldInv /\ asked \subseteq 1..(nextThread - 1)
    BY DEF Init, ExitNotLost, ToldInv
  <1>6. ShutInv /\ PthreadInv
    BY DEF Init, ShutInv, PthreadInv, Unjoined, DeletePcs
  <1>7. QED BY <1>1, <1>2, <1>3, <1>4, <1>5, <1>6 DEF TaskInv

-----------------------------------------------------------------------------
(* Steps of clients that leave the table alone.                            *)

\* The parts of TaskInv about the table, the threads and the requests.
TablePart ==
  /\ RecordInv
  /\ DistinctInv
  /\ CoverInv
  /\ ExitedExact
  /\ asked \subseteq 1..(nextThread - 1)
  /\ ToldInv

\* They hold after a step of a client that touches none of these, unless it
\* was about to remove a record.
LEMMA QuietTable ==
  ASSUME TaskInv, NEW c \in Clients, Quiet, Moves(c), pc[c] # "remove"
  PROVE  TablePart'
  <1>1. RecordInv'
    <2> SUFFICES ASSUME NEW s \in Slots, tbl[s].used
                 PROVE  /\ tbl[s].id \in ids /\ tbl[s].sync = "live"
                        /\ tbl[s].thr \in Threads /\ tbl[s].thr < nextThread
                        /\ at[tbl[s].thr] # "none" /\ tid[tbl[s].thr] = tbl[s].id
                        /\ at[tbl[s].thr] = "joined" =>
                             \E d \in Clients : pc'[d] = "remove" /\ slot'[d] = s
      BY DEF Quiet, table, threads, RecordInv
    <2>1. \A d \in Clients : pc[d] = "remove" => pc'[d] = "remove" /\ slot'[d] = slot[d]
      BY DEF Moves
    <2>2. QED BY <2>1 DEF TaskInv, RecordInv
  <1>2. DistinctInv' /\ CoverInv'
    BY DEF TaskInv, Quiet, table, threads, DistinctInv, CoverInv, Found, RecordOf, Unjoined
  <1>3. ExitedExact' /\ ToldInv' /\ asked' \subseteq 1..(nextThread' - 1)
    BY DEF TaskInv, Quiet, table, threads, ExitedExact, Past, ToldInv,
           Told, RecordOf
  <1>4. QED BY <1>1, <1>2, <1>3 DEF TablePart

\* The parts about clients hold after such a step if they hold of the client
\* that made it.
LEMMA QuietClients ==
  ASSUME TaskInv, NEW c \in Clients, Quiet, Moves(c),
         pc'[c] = "create" =>
           /\ c \in Creators /\ arg'[c] \in Names
           /\ slot'[c] \in Slots /\ ~tbl[slot'[c]].used,
         pc'[c] \in {"register", "unregister"} => arg'[c] \in Ids,
         pc'[c] \in DeletePcs =>
           /\ pc[c] \in DeletePcs /\ arg'[c] = arg[c]
           /\ slot'[c] = slot[c] /\ thr'[c] = thr[c],
         pc'[c] = "blocked" => ~tbl[slot[c]].exited,
         pc'[c] = "join" => tbl[slot[c]].exited,
         pc'[c] # "remove"
  PROVE  ClientInv' /\ DeleterInv' /\ ExitNotLost'
  <1>1. tbl' = tbl /\ at' = at
    BY DEF Quiet, table, threads
  <1>2. ClientInv /\ DeleterInv /\ ExitNotLost
    BY DEF TaskInv
  <1>3. ClientInv'
    <2> SUFFICES ASSUME NEW d \in Clients
                 PROVE  /\ pc'[d] = "create" =>
                             /\ d \in Creators /\ arg'[d] \in Names
                             /\ slot'[d] \in Slots /\ ~tbl[slot'[d]].used
                        /\ pc'[d] \in DeletePcs \cup {"register", "unregister"}
                             => arg'[d] \in Ids
                        /\ pc'[d] \in DeletePcs =>
                             /\ slot'[d] \in Slots /\ tbl[slot'[d]].used
                             /\ tbl[slot'[d]].id = arg'[d]
                             /\ tbl[slot'[d]].thr = thr'[d]
                        /\ pc'[d] = "join" => tbl[slot'[d]].exited
                        /\ pc'[d] = "remove" => at[thr'[d]] = "joined"
      BY <1>1 DEF ClientInv
    <2>1. CASE d = c
      BY <1>2, <2>1 DEF ClientInv, DeletePcs
    <2>2. CASE d # c
      BY <1>2, <2>2 DEF ClientInv, Moves
    <2>3. QED BY <2>1, <2>2
  <1>4. DeleterInv'
    <2>1. \A d \in Clients :
            pc'[d] \in DeletePcs => pc[d] \in DeletePcs /\ arg'[d] = arg[d]
      BY DEF Moves
    <2>2. QED BY <1>2, <2>1 DEF DeleterInv
  <1>5. ExitNotLost'
    BY <1>1, <1>2 DEF ExitNotLost, Moves, DeletePcs
  <1>6. QED BY <1>3, <1>4, <1>5

-----------------------------------------------------------------------------
(* OSAL_TaskCreate fills a record.                                         *)

\* What CreateFill does, record by record.
LEMMA FillFacts ==
  ASSUME TaskInv, NEW c \in Clients, CreateFill(c)
  PROVE  \E i \in Ids \ ids :
           /\ slot[c] \in Slots /\ ~tbl[slot[c]].used /\ arg[c] \in Names
           /\ nextThread \in Threads /\ nextThread' = nextThread + 1
           /\ ids' = ids \cup {i}
           /\ tbl'[slot[c]] = NewRecord(tbl[slot[c]], i, arg[c], nextThread)
           /\ \A s \in Slots \ {slot[c]} : tbl'[s] = tbl[s]
           /\ tbl' \in [Slots -> RecordType]
           /\ at' = [at EXCEPT ![nextThread] = "starting"]
           /\ tid' = [tid EXCEPT ![nextThread] = i]
           /\ pthread' \in [Threads -> Pthreads \cup {None}]
           /\ arg' = [arg EXCEPT ![c] = i]
           /\ pc' = [pc EXCEPT ![c] = "register"]
           /\ slot' = [slot EXCEPT ![c] = 0]
           /\ UNCHANGED <<tracked, thr, asked>>
  <1>1. PICK i \in Ids :
          /\ Allocate(i)
          /\ tbl' = [tbl EXCEPT ![slot[c]] =
                       NewRecord(tbl[slot[c]], i, arg[c], nextThread)]
          /\ tid' = [tid EXCEPT ![nextThread] = i]
          /\ arg' = [arg EXCEPT ![c] = i]
    BY DEF CreateFill
  <1>2. slot[c] \in Slots /\ ~tbl[slot[c]].used /\ arg[c] \in Names
    BY DEF TaskInv, ClientInv, CreateFill
  <1>3. nextThread \in Threads
    BY TaskAssumption DEF TaskInv, TypeOK, CreateFill, Threads
  <1>4. tbl \in [Slots -> RecordType]
    BY DEF TaskInv, TypeOK
  <1>5. NewRecord(tbl[slot[c]], i, arg[c], nextThread) \in RecordType
    BY <1>2, <1>3, <1>4, RecordTypes
  <1>6. pthread' \in [Threads -> Pthreads \cup {None}]
    BY <1>3 DEF CreateFill, TaskInv, TypeOK
  <1>7. QED
    BY <1>1, <1>2, <1>3, <1>4, <1>5, <1>6 DEF CreateFill, Allocate

LEMMA FillType ==
  ASSUME TaskInv, NEW c \in Clients, CreateFill(c)
  PROVE  TypeOK'
  <1>1. LocalType /\ SharedType
    BY TypeParts DEF TaskInv
  <1>2. PICK i \in Ids :
           /\ nextThread \in Threads /\ nextThread' = nextThread + 1
           /\ ids' = ids \cup {i}
           /\ tbl' \in [Slots -> RecordType]
           /\ at' = [at EXCEPT ![nextThread] = "starting"]
           /\ tid' = [tid EXCEPT ![nextThread] = i]
           /\ pthread' \in [Threads -> Pthreads \cup {None}]
           /\ arg' = [arg EXCEPT ![c] = i]
           /\ pc' = [pc EXCEPT ![c] = "register"]
           /\ slot' = [slot EXCEPT ![c] = 0]
           /\ UNCHANGED <<tracked, thr, asked>>
    BY FillFacts
  <1>3. LocalType'
    BY <1>1, <1>2, TaskAssumption DEF LocalType, AllPcs
  <1>4. SharedType'
    BY <1>1, <1>2, TaskAssumption DEF SharedType, Ids, Threads
  <1>5. QED BY <1>3, <1>4 DEF TypeOK, LocalType, SharedType, AllPcs

LEMMA FillInv ==
  ASSUME TaskInv, SoleCreator, NEW c \in Clients, CreateFill(c)
  PROVE  ClientInv' /\ DeleterInv' /\ ExitNotLost' /\ TablePart'
  <1> DEFINE S == slot[c]
             H == nextThread
  <1>0. /\ ClientInv /\ DeleterInv /\ ExitNotLost /\ RecordInv /\ DistinctInv
        /\ CoverInv /\ ExitedExact /\ ToldInv
        /\ asked \subseteq 1..(nextThread - 1)
        /\ TypeOK
    BY DEF TaskInv
  <1>1. PICK i \in Ids \ ids :
           /\ slot[c] \in Slots /\ ~tbl[slot[c]].used /\ arg[c] \in Names
           /\ nextThread \in Threads /\ nextThread' = nextThread + 1
           /\ ids' = ids \cup {i}
           /\ tbl'[slot[c]] = NewRecord(tbl[slot[c]], i, arg[c], nextThread)
           /\ \A s \in Slots \ {slot[c]} : tbl'[s] = tbl[s]
           /\ tbl' \in [Slots -> RecordType]
           /\ at' = [at EXCEPT ![nextThread] = "starting"]
           /\ tid' = [tid EXCEPT ![nextThread] = i]
           /\ pthread' \in [Threads -> Pthreads \cup {None}]
           /\ arg' = [arg EXCEPT ![c] = i]
           /\ pc' = [pc EXCEPT ![c] = "register"]
           /\ slot' = [slot EXCEPT ![c] = 0]
           /\ UNCHANGED <<tracked, thr, asked>>
    BY FillFacts
  <1>2. /\ tbl'[S].used /\ tbl'[S].id = i /\ tbl'[S].name = arg[c]
        /\ tbl'[S].thr = H /\ ~tbl'[S].exited /\ tbl'[S].sync = "live"
    BY <1>1 DEF NewRecord
  <1>3. /\ at'[H] = "starting" /\ tid'[H] = i
        /\ \A h \in Threads \ {H} : at'[h] = at[h] /\ tid'[h] = tid[h]
    BY <1>0, <1>1 DEF TypeOK
  <1>4. \A s \in Slots : tbl[s].used =>
          /\ s # S /\ tbl'[s] = tbl[s] /\ tbl[s].id # i
          /\ tbl[s].thr \in Threads \ {H}
          /\ at'[tbl[s].thr] = at[tbl[s].thr] /\ tid'[tbl[s].thr] = tid[tbl[s].thr]
    BY <1>0, <1>1, <1>3 DEF RecordInv, Threads
  <1>5. \A s \in Slots : tbl'[s].used => s = S \/ tbl[s].used
    BY <1>1
  <1>6. \A d \in Clients \ {c} :
          pc'[d] = pc[d] /\ arg'[d] = arg[d] /\ slot'[d] = slot[d] /\ thr'[d] = thr[d]
    BY <1>0, <1>1 DEF TypeOK
  <1>7. pc'[c] = "register" /\ arg'[c] = i
    BY <1>0, <1>1 DEF TypeOK
  <1>8. pc[c] = "create" /\ \A r \in Slots : tbl[r].used => tbl[r].name # arg[c]
    BY DEF CreateFill, NameTaken
  <1>9. ClientInv'
    <2> SUFFICES ASSUME NEW d \in Clients
                 PROVE  /\ pc'[d] = "create" =>
                             /\ d \in Creators /\ arg'[d] \in Names
                             /\ slot'[d] \in Slots /\ ~tbl'[slot'[d]].used
                        /\ pc'[d] \in DeletePcs \cup {"register", "unregister"}
                             => arg'[d] \in Ids
                        /\ pc'[d] \in DeletePcs =>
                             /\ slot'[d] \in Slots /\ tbl'[slot'[d]].used
                             /\ tbl'[slot'[d]].id = arg'[d]
                             /\ tbl'[slot'[d]].thr = thr'[d]
                        /\ pc'[d] = "join" => tbl'[slot'[d]].exited
                        /\ pc'[d] = "remove" => at'[thr'[d]] = "joined"
      BY DEF ClientInv
    <2>1. CASE d = c
      BY <2>1, <1>7 DEF DeletePcs
    <2>2. CASE d # c
      <3>1. pc[d] # "create"
        BY <1>0, <1>8, <2>2 DEF ClientInv, SoleCreator
      <3>2. pc[d] \in DeletePcs =>
              /\ slot[d] \in Slots /\ tbl[slot[d]].used
              /\ tbl'[slot[d]] = tbl[slot[d]] /\ thr[d] = tbl[slot[d]].thr
              /\ at'[thr[d]] = at[thr[d]]
        BY <1>0, <1>4 DEF ClientInv
      <3>3. QED BY <1>0, <1>6, <2>2, <3>1, <3>2 DEF ClientInv, DeletePcs
    <2>3. QED BY <2>1, <2>2
  <1>10. DeleterInv'
    BY <1>0, <1>6, <1>7 DEF DeleterInv, DeletePcs
  <1>11. ExitNotLost'
    <2>1. \A d \in Clients \ {c} : pc[d] = "blocked" => tbl'[slot[d]] = tbl[slot[d]]
      BY <1>0, <1>4 DEF ClientInv, DeletePcs
    <2>2. QED BY <1>0, <1>6, <1>7, <2>1 DEF ExitNotLost
  <1>12. RecordInv'
    <2> SUFFICES ASSUME NEW s \in Slots, tbl'[s].used
                 PROVE  /\ tbl'[s].id \in ids' /\ tbl'[s].sync = "live"
                        /\ tbl'[s].thr \in Threads /\ tbl'[s].thr < nextThread'
                        /\ at'[tbl'[s].thr] # "none"
                        /\ tid'[tbl'[s].thr] = tbl'[s].id
                        /\ at'[tbl'[s].thr] = "joined" =>
                             \E d \in Clients : pc'[d] = "remove" /\ slot'[d] = s
      BY DEF RecordInv
    <2>1. CASE s = S
      BY <2>1, <1>1, <1>2, <1>3 DEF Threads
    <2>2. CASE s # S
      <3>1. tbl[s].used /\ tbl'[s] = tbl[s]
        BY <2>2, <1>1, <1>5
      <3>2. \A d \in Clients : pc[d] = "remove" => pc'[d] = "remove" /\ slot'[d] = slot[d]
        BY <1>6, <1>8
      <3>3. tbl[s].thr < nextThread'
        BY <3>1, <1>0, <1>1 DEF RecordInv, Threads
      <3>4. QED BY <3>1, <3>2, <3>3, <1>0, <1>1, <1>4 DEF RecordInv
    <2>3. QED BY <2>1, <2>2
  <1>13. DistinctInv'
    BY <1>0, <1>2, <1>4, <1>5, <1>8 DEF DistinctInv
  <1>14. CoverInv'
    <2>1. \A j \in ids' : Found(j)' # {}
      BY <1>0, <1>1, <1>2, <1>4 DEF CoverInv, Found
    <2>2. \A h \in Threads : Unjoined(h)' => RecordOf(h)' # {}
      BY <1>0, <1>1, <1>2, <1>3, <1>4 DEF CoverInv, RecordOf, Unjoined
    <2>3. \A h \in Threads : h >= nextThread' => at'[h] = "none"
      BY <1>0, <1>1, <1>3 DEF CoverInv, Threads
    <2>4. QED BY <2>1, <2>2, <2>3 DEF CoverInv
  <1>15. ExitedExact'
    BY <1>0, <1>2, <1>3, <1>4, <1>5 DEF ExitedExact, Past
  <1>16. asked' \subseteq 1..(nextThread' - 1)
    BY <1>0, <1>1 DEF Threads
  <1>17. ToldInv'
    <2>1. \A h \in asked : h \in Threads \ {H}
      BY <1>0, <1>1 DEF Threads, TypeOK
    <2>2. \A h \in asked : Told(h) => Told(h)'
      BY <1>4 DEF Told, RecordOf
    <2>3. QED BY <1>0, <1>1, <1>3, <2>1, <2>2 DEF ToldInv
  <1>18. QED
    BY <1>9, <1>10, <1>11, <1>12, <1>13, <1>14, <1>15, <1>16, <1>17 DEF TablePart

-----------------------------------------------------------------------------
(* OSAL_TaskCreate gives the record back, and the other steps of a client  *)
(* on the table it does not write.                                         *)

LEMMA UndoInv ==
  ASSUME TaskInv, NEW c \in Clients, CreateUndo(c)
  PROVE  TypeOK' /\ ClientInv' /\ DeleterInv' /\ ExitNotLost' /\ TablePart'
  <1>0. /\ ClientInv /\ DeleterInv /\ ExitNotLost /\ RecordInv /\ DistinctInv
        /\ CoverInv /\ ExitedExact /\ ToldInv
        /\ asked \subseteq 1..(nextThread - 1)
        /\ TypeOK /\ LocalType /\ SharedType
    BY TypeParts DEF TaskInv
  <1>1. /\ pc[c] = "create" /\ Leave(c) /\ Moves(c) /\ pc'[c] = "idle"
        /\ tbl' = [tbl EXCEPT ![slot[c]] = Cleared(@)]
        /\ UNCHANGED <<ids, at, tid, pthread, nextThread, tracked, asked>>
    BY <1>0, MovesFacts DEF CreateUndo, threads
  <1>2. slot[c] \in Slots /\ ~tbl[slot[c]].used
    BY <1>0, <1>1 DEF ClientInv
  <1>3. tbl'[slot[c]] = Cleared(tbl[slot[c]]) /\ ~tbl'[slot[c]].used
    BY <1>0, <1>1, <1>2 DEF SharedType, RecordType, Cleared
  <1>4. \A s \in Slots : tbl'[s] = tbl[s] \/ (~tbl'[s].used /\ ~tbl[s].used)
    BY <1>0, <1>1, <1>2, <1>3 DEF SharedType
  <1>5. TypeOK'
    <2>1. Cleared(tbl[slot[c]]) \in RecordType
      <3>1. \A q \in RecordType, v \in {"dead", "live"} : [q EXCEPT !.sync = v] \in RecordType
        BY DEF RecordType
      <3>2. \A q \in RecordType, v \in BOOLEAN : [q EXCEPT !.used = v] \in RecordType
        BY DEF RecordType
      <3>3. QED BY <1>0, <1>2, <3>1, <3>2 DEF SharedType, Cleared
    <2>2. SharedType'
      BY <1>0, <1>1, <1>2, <2>1 DEF SharedType
    <2>3. LocalType'
      BY <1>0, <1>1, LeaveType
    <2>4. QED BY <2>2, <2>3 DEF TypeOK, LocalType, SharedType, AllPcs
  <1>6. ClientInv'
    BY <1>0, <1>1, <1>4 DEF ClientInv, Moves, DeletePcs
  <1>7. DeleterInv'
    BY <1>0, <1>1 DEF DeleterInv, Moves, DeletePcs
  <1>8. ExitNotLost'
    BY <1>0, <1>1, <1>4 DEF ExitNotLost, ClientInv, Moves, DeletePcs
  <1>9. RecordInv'
    <2> SUFFICES ASSUME NEW s \in Slots, tbl'[s].used
                 PROVE  /\ tbl'[s].id \in ids' /\ tbl'[s].sync = "live"
                        /\ tbl'[s].thr \in Threads /\ tbl'[s].thr < nextThread'
                        /\ at'[tbl'[s].thr] # "none"
                        /\ tid'[tbl'[s].thr] = tbl'[s].id
                        /\ at'[tbl'[s].thr] = "joined" =>
                             \E d \in Clients : pc'[d] = "remove" /\ slot'[d] = s
      BY DEF RecordInv
    <2>1. tbl'[s] = tbl[s]
      BY <1>4
    <2>2. \A d \in Clients : pc[d] = "remove" => pc'[d] = "remove" /\ slot'[d] = slot[d]
      BY <1>1 DEF Moves
    <2>3. QED BY <1>0, <1>1, <2>1, <2>2 DEF RecordInv
  <1>10. DistinctInv'
    BY <1>0, <1>4 DEF DistinctInv
  <1>11. CoverInv'
    <2>1. \A j \in ids : Found(j) # {} => Found(j)' # {}
      BY <1>4 DEF Found
    <2>2. \A h \in Threads : RecordOf(h) # {} => RecordOf(h)' # {}
      BY <1>4 DEF RecordOf
    <2>3. QED BY <1>0, <1>1, <2>1, <2>2 DEF CoverInv, Unjoined
  <1>12. ExitedExact'
    BY <1>0, <1>1, <1>4 DEF ExitedExact, Past
  <1>13. ToldInv' /\ asked' \subseteq 1..(nextThread' - 1)
    <2>1. \A h \in asked : Told(h) => Told(h)'
      BY <1>4 DEF Told, RecordOf
    <2>2. QED BY <1>0, <1>1, <2>1 DEF ToldInv
  <1>14. QED
    BY <1>5, <1>6, <1>7, <1>8, <1>9, <1>10, <1>11, <1>12, <1>13 DEF TablePart

\* The free slot osal_task_find_free_slot returns is noted.
LEMMA FindInv ==
  ASSUME TaskInv, NEW c \in Clients, NEW n \in Names, CreateFind(c, n)
  PROVE  TypeOK' /\ ClientInv' /\ DeleterInv' /\ ExitNotLost' /\ TablePart'
  <1>1. LocalType /\ SharedType
    BY TypeParts DEF TaskInv
  <1>2. PICK s \in Slots : ~tbl[s].used /\ Enter(c, "create", n, s, 0)
    BY DEF CreateFind, FirstFree
  <1>3. /\ c \in Creators /\ Quiet /\ Moves(c) /\ pc[c] = "idle"
        /\ pc'[c] = "create" /\ arg'[c] = n /\ slot'[c] = s
    BY <1>1, <1>2, MovesFacts DEF CreateFind, Quiet
  <1>4. LocalType'
    BY <1>1, <1>2, EnterType, TaskAssumption DEF Slots, AllPcs
  <1>5. SharedType'
    BY <1>1 DEF CreateFind, SharedType, table, threads
  <1>6. ClientInv' /\ DeleterInv' /\ ExitNotLost'
    BY <1>2, <1>3, QuietClients DEF DeletePcs
  <1>7. TablePart'
    BY <1>3, QuietTable
  <1>8. QED BY <1>4, <1>5, <1>6, <1>7 DEF TypeOK, LocalType, SharedType, AllPcs

\* A call ends with the table as it is.
LEMMA QuietLeaveInv ==
  ASSUME TaskInv, NEW c \in Clients, Quiet, Leave(c), pc[c] # "remove",
         tracked' \in [Ids -> Nat]
  PROVE  TypeOK' /\ ClientInv' /\ DeleterInv' /\ ExitNotLost' /\ TablePart'
  <1>1. LocalType /\ SharedType
    BY TypeParts DEF TaskInv
  <1>2. Moves(c) /\ pc'[c] = "idle"
    BY <1>1, MovesFacts
  <1>3. LocalType' /\ SharedType'
    BY <1>1, LeaveType DEF Quiet, SharedType, table, threads
  <1>4. ClientInv' /\ DeleterInv' /\ ExitNotLost'
    BY <1>2, QuietClients DEF DeletePcs
  <1>5. TablePart'
    BY <1>2, QuietTable
  <1>6. QED BY <1>3, <1>4, <1>5 DEF TypeOK, LocalType, SharedType, AllPcs

LEMMA LeaveInv ==
  ASSUME TaskInv, NEW c \in Clients,
         CreateFail(c) \/ Register(c) \/ DeleteExpire(c) \/ Unregister(c)
  PROVE  TypeOK' /\ ClientInv' /\ DeleterInv' /\ ExitNotLost' /\ TablePart'
  <1>1. tracked \in [Ids -> Nat] /\ ClientInv
    BY DEF TaskInv, TypeOK
  <1>2. /\ Quiet /\ Leave(c)
        /\ pc[c] \in {"create", "register", "blocked", "unregister"}
    BY DEF CreateFail, Register, DeleteExpire, Unregister, Quiet, table, threads
  <1>3. tracked' \in [Ids -> Nat]
    BY <1>1 DEF CreateFail, Register, DeleteExpire, Unregister, ClientInv
  <1>4. QED BY <1>2, <1>3, QuietLeaveInv

\* The loop around pthread_cond_timedwait.
LEMMA WaitInv ==
  ASSUME TaskInv, NEW c \in Clients, DeleteWait(c) \/ SpuriousWake(c)
  PROVE  TypeOK' /\ ClientInv' /\ DeleterInv' /\ ExitNotLost' /\ TablePart'
  <1>1. LocalType /\ SharedType
    BY TypeParts DEF TaskInv
  <1>2. Quiet /\ UNCHANGED tracked
    BY DEF DeleteWait, SpuriousWake, Quiet
  <1>3. PICK p \in {"join", "blocked", "woken"} :
          /\ Goto(c, p)
          /\ pc[c] \in {"lock", "woken", "blocked"}
          /\ p = "join" => tbl[slot[c]].exited
          /\ p = "blocked" => ~tbl[slot[c]].exited
    BY DEF DeleteWait, SpuriousWake
  <1>4. /\ Moves(c) /\ pc'[c] = p
        /\ arg'[c] = arg[c] /\ slot'[c] = slot[c] /\ thr'[c] = thr[c]
    BY <1>1, <1>3, MovesFacts DEF AllPcs, DeletePcs
  <1>5. LocalType' /\ SharedType'
    BY <1>1, <1>2, <1>3, GotoType
       DEF Quiet, SharedType, table, threads, AllPcs, DeletePcs
  <1>6. ClientInv' /\ DeleterInv' /\ ExitNotLost'
    BY <1>2, <1>3, <1>4, QuietClients DEF DeletePcs
  <1>7. TablePart'
    BY <1>2, <1>3, <1>4, QuietTable
  <1>8. QED BY <1>5, <1>6, <1>7 DEF TypeOK, LocalType, SharedType, AllPcs

-----------------------------------------------------------------------------
(* Steps that keep the identity of every record.                           *)

\* used, id, name, thr and sync of every record stay, and no thread starts
\* or is joined; no client leaves the point before the removal.
SameRecords ==
  /\ \A s \in Slots :
       /\ tbl'[s].used = tbl[s].used /\ tbl'[s].id = tbl[s].id
       /\ tbl'[s].name = tbl[s].name /\ tbl'[s].thr = tbl[s].thr
       /\ tbl'[s].sync = tbl[s].sync
  /\ ids' = ids /\ tid' = tid /\ nextThread' = nextThread
  /\ \A h \in Threads :
       /\ at'[h] = "none" <=> at[h] = "none"
       /\ at'[h] = "joined" <=> at[h] = "joined"
       /\ Unjoined(h)' <=> Unjoined(h)
  /\ \A d \in Clients : pc[d] = "remove" => pc'[d] = "remove" /\ slot'[d] = slot[d]

LEMMA SameRecordsInv ==
  ASSUME TaskInv, SameRecords
  PROVE  RecordInv' /\ DistinctInv' /\ CoverInv'
  <1>0. RecordInv /\ DistinctInv /\ CoverInv
    BY DEF TaskInv
  <1>1. RecordInv'
    <2> SUFFICES ASSUME NEW s \in Slots, tbl'[s].used
                 PROVE  /\ tbl'[s].id \in ids' /\ tbl'[s].sync = "live"
                        /\ tbl'[s].thr \in Threads /\ tbl'[s].thr < nextThread'
                        /\ at'[tbl'[s].thr] # "none"
                        /\ tid'[tbl'[s].thr] = tbl'[s].id
                        /\ at'[tbl'[s].thr] = "joined" =>
                             \E d \in Clients : pc'[d] = "remove" /\ slot'[d] = s
      BY DEF RecordInv
    <2>1. QED BY <1>0 DEF RecordInv, SameRecords
  <1>2. DistinctInv'
    BY <1>0 DEF DistinctInv, SameRecords
  <1>3. CoverInv'
    <2>1. \A j \in ids : Found(j)' = Found(j)
      BY DEF Found, SameRecords
    <2>2. \A h \in Threads : RecordOf(h)' = RecordOf(h)
      BY DEF RecordOf, SameRecords
    <2>3. QED BY <1>0, <2>1, <2>2 DEF CoverInv, SameRecords
  <1>4. QED BY <1>1, <1>2, <1>3

\* A thread that has not been joined is the thread of one record, the one
\* with its id.
LEMMA OwnSlot ==
  ASSUME TaskInv, NEW h \in Threads, Unjoined(h)
  PROVE  \E s \in Slots :
           /\ tbl[s].used /\ tbl[s].thr = h /\ tbl[s].id = tid[h]
           /\ Found(tid[h]) = {s} /\ RecordOf(h) = {s}
  <1>1. PICK s \in Slots : tbl[s].used /\ tbl[s].thr = h
    BY DEF TaskInv, CoverInv, RecordOf
  <1>2. tbl[s].id = tid[h]
    BY <1>1 DEF TaskInv, RecordInv
  <1>3. Found(tid[h]) = {s} /\ RecordOf(h) = {s}
    BY <1>1, <1>2 DEF TaskInv, DistinctInv, Found, RecordOf
  <1>4. QED BY <1>1, <1>2, <1>3

-----------------------------------------------------------------------------
(* Steps of task_wrapper.                                                  *)

\* A step of thread h from p to q that writes the state of its record at
\* most: the start of the wrapper, the entry function, the thread's end.
LEMMA ThreadInv ==
  ASSUME TaskInv, NEW h \in Threads, NEW q,
         \/ at[h] = "starting" /\ q = "running"
         \/ at[h] = "running" /\ q = "returned"
         \/ at[h] = "marked" /\ q = "ended",
         at' = [at EXCEPT ![h] = q],
         tbl' \in [Slots -> RecordType],
         \A s \in Slots :
           /\ tbl'[s].used = tbl[s].used /\ tbl'[s].id = tbl[s].id
           /\ tbl'[s].name = tbl[s].name /\ tbl'[s].thr = tbl[s].thr
           /\ tbl'[s].sync = tbl[s].sync /\ tbl'[s].shut = tbl[s].shut
           /\ tbl'[s].exited = tbl[s].exited,
         UNCHANGED <<ids, tid, pthread, nextThread, tracked, locals, asked>>
  PROVE  TypeOK' /\ ClientInv' /\ DeleterInv' /\ ExitNotLost' /\ TablePart'
  <1>0. /\ ClientInv /\ DeleterInv /\ ExitNotLost /\ RecordInv /\ DistinctInv
        /\ CoverInv /\ ExitedExact /\ ToldInv
        /\ asked \subseteq 1..(nextThread - 1)
        /\ TypeOK
    BY DEF TaskInv
  <1>1. TypeOK'
    BY <1>0 DEF TypeOK, locals
  <1>2. /\ at'[h] = q
        /\ \A g \in Threads \ {h} : at'[g] = at[g]
    BY <1>0 DEF TypeOK
  <1>3. \A g \in Threads :
          /\ at'[g] = "none" <=> at[g] = "none"
          /\ at'[g] = "joined" <=> at[g] = "joined"
          /\ Unjoined(g)' <=> Unjoined(g)
          /\ Past(g)' <=> Past(g)
    BY <1>2 DEF Unjoined, Past
  <1>4. SameRecords
    BY <1>3 DEF SameRecords, locals
  <1>5. RecordInv' /\ DistinctInv' /\ CoverInv'
    BY <1>4, SameRecordsInv
  <1>6. ClientInv'
    <2>1. \A d \in Clients : pc[d] = "remove" => thr[d] \in Threads
      BY <1>0 DEF ClientInv, RecordInv, DeletePcs
    <2>2. QED BY <1>0, <1>3, <2>1 DEF ClientInv, locals, DeletePcs
  <1>7. DeleterInv' /\ ExitNotLost'
    <2>1. DeleterInv'
      BY <1>0 DEF DeleterInv, locals
    <2>2. \A d \in Clients : pc[d] = "blocked" => slot[d] \in Slots
      BY <1>0 DEF ClientInv, DeletePcs
    <2>3. QED BY <1>0, <2>1, <2>2 DEF ExitNotLost, locals
  <1>8. ExitedExact'
    BY <1>0, <1>3 DEF ExitedExact, RecordInv
  <1>9. ToldInv' /\ asked' \subseteq 1..(nextThread' - 1)
    <2>1. \A g \in asked : Told(g)' <=> Told(g)
      BY DEF Told, RecordOf
    <2>2. \A g \in asked : at'[g] \in {"starting", "running"}
                             => at[g] \in {"starting", "running"}
      BY <1>0, <1>2 DEF TypeOK
    <2>3. QED BY <1>0, <2>1, <2>2 DEF ToldInv
  <1>10. QED BY <1>1, <1>5, <1>6, <1>7, <1>8, <1>9 DEF TablePart

LEMMA StartInv ==
  ASSUME TaskInv, NEW h \in Threads, TaskStart(h)
  PROVE  TypeOK' /\ ClientInv' /\ DeleterInv' /\ ExitNotLost' /\ TablePart'
  <1>1. tbl \in [Slots -> RecordType]
    BY DEF TaskInv, TypeOK
  <1>2. \A r \in RecordType :
          /\ [r EXCEPT !.state = "RUNNING"] \in RecordType
          /\ [r EXCEPT !.state = "RUNNING"].used = r.used
          /\ [r EXCEPT !.state = "RUNNING"].id = r.id
          /\ [r EXCEPT !.state = "RUNNING"].name = r.name
          /\ [r EXCEPT !.state = "RUNNING"].thr = r.thr
          /\ [r EXCEPT !.state = "RUNNING"].sync = r.sync
          /\ [r EXCEPT !.state = "RUNNING"].shut = r.shut
          /\ [r EXCEPT !.state = "RUNNING"].exited = r.exited
    BY DEF RecordType
  <1>3. \A s \in Slots :
          tbl'[s] = tbl[s] \/ tbl'[s] = [tbl[s] EXCEPT !.state = "RUNNING"]
    BY DEF TaskStart
  <1>4. tbl' \in [Slots -> RecordType]
    BY <1>1, <1>2 DEF TaskStart
  <1>5. QED
    BY <1>1, <1>2, <1>3, <1>4, ThreadInv DEF TaskStart

LEMMA RunInv ==
  ASSUME TaskInv, NEW h \in Threads, TaskObey(h) \/ TaskReturn(h) \/ TaskEnd(h)
  PROVE  TypeOK' /\ ClientInv' /\ DeleterInv' /\ ExitNotLost' /\ TablePart'
  <1>1. tbl' = tbl /\ tbl \in [Slots -> RecordType]
    BY DEF TaskInv, TypeOK, TaskObey, TaskReturn, TaskEnd, table
  <1>2. CASE TaskObey(h) \/ TaskReturn(h)
    BY <1>1, <1>2, ThreadInv DEF TaskObey, TaskReturn, table
  <1>3. CASE TaskEnd(h)
    BY <1>1, <1>3, ThreadInv DEF TaskEnd, table
  <1>4. QED BY <1>2, <1>3

\* The record is marked and the deleting client, if it waits, is woken.
LEMMA MarkInv ==
  ASSUME TaskInv, NEW h \in Threads, TaskMark(h)
  PROVE  TypeOK' /\ ClientInv' /\ DeleterInv' /\ ExitNotLost' /\ TablePart'
  <1>0. /\ ClientInv /\ DeleterInv /\ ExitNotLost /\ RecordInv /\ DistinctInv
        /\ CoverInv /\ ExitedExact /\ ToldInv
        /\ asked \subseteq 1..(nextThread - 1)
        /\ TypeOK
    BY DEF TaskInv
  <1>1. PICK s \in Slots :
          /\ tbl[s].used /\ tbl[s].thr = h /\ tbl[s].id = tid[h]
          /\ Found(tid[h]) = {s} /\ RecordOf(h) = {s}
    BY OwnSlot DEF TaskMark, Unjoined
  <1>2. /\ tbl' = [r \in Slots |->
                     IF r \in {s}
                       THEN [[tbl[r] EXCEPT !.state = "TERMINATED"] EXCEPT !.exited = TRUE]
                       ELSE tbl[r]]
        /\ SignalExit({s})
        /\ at[h] = "returned" /\ at' = [at EXCEPT ![h] = "marked"]
        /\ UNCHANGED <<ids, tid, pthread, nextThread, tracked, arg, slot, thr, asked>>
    BY <1>1 DEF TaskMark
  <1>3. \A r \in RecordType :
          /\ [[r EXCEPT !.state = "TERMINATED"] EXCEPT !.exited = TRUE].used = r.used
          /\ [[r EXCEPT !.state = "TERMINATED"] EXCEPT !.exited = TRUE].id = r.id
          /\ [[r EXCEPT !.state = "TERMINATED"] EXCEPT !.exited = TRUE].name = r.name
          /\ [[r EXCEPT !.state = "TERMINATED"] EXCEPT !.exited = TRUE].thr = r.thr
          /\ [[r EXCEPT !.state = "TERMINATED"] EXCEPT !.exited = TRUE].sync = r.sync
          /\ [[r EXCEPT !.state = "TERMINATED"] EXCEPT !.exited = TRUE].shut = r.shut
          /\ [[r EXCEPT !.state = "TERMINATED"] EXCEPT !.exited = TRUE].exited = TRUE
    BY DEF RecordType
  <1>4. /\ \A r \in Slots :
             /\ tbl'[r].used = tbl[r].used /\ tbl'[r].id = tbl[r].id
             /\ tbl'[r].name = tbl[r].name /\ tbl'[r].thr = tbl[r].thr
             /\ tbl'[r].sync = tbl[r].sync /\ tbl'[r].shut = tbl[r].shut
             /\ r # s => tbl'[r].exited = tbl[r].exited
        /\ tbl'[s].exited
    BY <1>0, <1>2, <1>3 DEF TypeOK
  <1>5. /\ at'[h] = "marked"
        /\ \A g \in Threads \ {h} : at'[g] = at[g]
    BY <1>0, <1>2 DEF TypeOK
  <1>args. arg' = arg /\ slot' = slot /\ thr' = thr
    BY <1>2
  <1>6. UNION {Blocked(r) : r \in {s}} = Blocked(s)
    OBVIOUS
  <1>7. \A d \in Clients :
          \/ pc'[d] = pc[d] /\ ~(pc[d] = "blocked" /\ slot[d] = s)
          \/ pc[d] = "blocked" /\ slot[d] = s /\ pc'[d] = "woken"
    <2>1. CASE Blocked(s) = {}
      BY <2>1, <1>2, <1>6 DEF SignalExit, Blocked
    <2>2. CASE Blocked(s) # {}
      <3>1. PICK c \in Blocked(s) : pc' = [pc EXCEPT ![c] = "woken"]
        BY <2>2, <1>2, <1>6 DEF SignalExit
      <3>2. \A d \in Blocked(s) : d = c
        BY <1>0, <3>1 DEF Blocked, ClientInv, DeleterInv, DeletePcs
      <3>3. QED BY <1>0, <3>1, <3>2 DEF Blocked, TypeOK
    <2>3. QED BY <2>1, <2>2
  <1>8. TypeOK'
    <2>1. pc' \in [Clients -> {"idle", "create", "register", "unregister"} \cup DeletePcs]
      BY <1>0, <1>2, <1>6 DEF SignalExit, Blocked, TypeOK, DeletePcs
    <2>2. tbl' \in [Slots -> RecordType]
      <3>2. \A r \in RecordType :
              [[r EXCEPT !.state = "TERMINATED"] EXCEPT !.exited = TRUE] \in RecordType
        <4>1. \A q \in RecordType : [q EXCEPT !.exited = TRUE] \in RecordType
          BY DEF RecordType
        <4>2. \A q \in RecordType : [q EXCEPT !.state = "TERMINATED"] \in RecordType
          BY DEF RecordType
        <4>3. QED BY <4>1, <4>2
      <3>3. QED BY <1>0, <1>2, <3>2 DEF TypeOK
    <2>3. QED BY <1>0, <1>2, <2>1, <2>2 DEF TypeOK
  <1>9. SameRecords
    BY <1>2, <1>4, <1>5, <1>7 DEF SameRecords, Unjoined
  <1>10. RecordInv' /\ DistinctInv' /\ CoverInv'
    BY <1>9, SameRecordsInv
  <1>11. ClientInv'
    <2> SUFFICES ASSUME NEW d \in Clients
                 PROVE  /\ pc'[d] = "create" =>
                             /\ d \in Creators /\ arg'[d] \in Names
                             /\ slot'[d] \in Slots /\ ~tbl'[slot'[d]].used
                        /\ pc'[d] \in DeletePcs \cup {"register", "unregister"}
                             => arg'[d] \in Ids
                        /\ pc'[d] \in DeletePcs =>
                             /\ slot'[d] \in Slots /\ tbl'[slot'[d]].used
                             /\ tbl'[slot'[d]].id = arg'[d]
                             /\ tbl'[slot'[d]].thr = thr'[d]
                        /\ pc'[d] = "join" => tbl'[slot'[d]].exited
                        /\ pc'[d] = "remove" => at'[thr'[d]] = "joined"
      BY DEF ClientInv
    <2>1. CASE pc'[d] = pc[d]
      <3>1. pc[d] = "remove" => thr[d] \in Threads \ {h}
        BY <1>0, <1>2, <1>1 DEF ClientInv, RecordInv, DeletePcs
      <3>2. pc[d] = "join" => slot[d] \in Slots /\ tbl[slot[d]].exited
        BY <1>0 DEF ClientInv, DeletePcs
      <3>3. pc[d] = "join" => tbl'[slot[d]].exited
        BY <1>4, <3>2
      <3>4. QED BY <1>0, <1>4, <1>5, <1>args, <2>1, <3>1, <3>3 DEF ClientInv, DeletePcs
    <2>2. CASE pc[d] = "blocked" /\ pc'[d] = "woken"
      BY <1>0, <1>4, <1>args, <2>2 DEF ClientInv, DeletePcs
    <2>3. QED BY <1>7, <2>1, <2>2
  <1>12. DeleterInv'
    BY <1>0, <1>2, <1>7 DEF DeleterInv, DeletePcs
  <1>13. ExitNotLost'
    BY <1>0, <1>2, <1>4, <1>7 DEF ExitNotLost, ClientInv, DeletePcs
  <1>14. ExitedExact'
    <2> SUFFICES ASSUME NEW r \in Slots, tbl'[r].used
                 PROVE  tbl'[r].exited <=>
                          at'[tbl'[r].thr] \in {"marked", "ended", "joined"}
      BY DEF ExitedExact, Past
    <2>1. CASE r = s
      BY <2>1, <1>1, <1>4, <1>5 DEF Past
    <2>2. CASE r # s
      <3>1. tbl[r].used /\ tbl[r].thr \in Threads \ {h} /\ tbl'[r].thr = tbl[r].thr
        BY <2>2, <1>0, <1>1, <1>4 DEF DistinctInv, RecordInv
      <3>2. at'[tbl[r].thr] = at[tbl[r].thr]
        BY <3>1, <1>5
      <3>3. QED BY <2>2, <3>1, <3>2, <1>0, <1>4 DEF ExitedExact, Past
    <2>3. QED BY <2>1, <2>2
  <1>15. ToldInv' /\ asked' \subseteq 1..(nextThread' - 1)
    <2>1. \A g \in asked : Told(g)' <=> Told(g)
      BY <1>4 DEF Told, RecordOf
    <2>2. \A g \in asked : at'[g] \in {"starting", "running"}
                             => at[g] \in {"starting", "running"}
      BY <1>0, <1>5 DEF TypeOK
    <2>3. QED BY <1>0, <1>2, <2>1, <2>2 DEF ToldInv
  <1>16. QED
    BY <1>8, <1>10, <1>11, <1>12, <1>13, <1>14, <1>15 DEF TablePart

-----------------------------------------------------------------------------
(* OSAL_TaskDelete.                                                        *)

\* The look-up: nobody else deletes the task, and its thread is asked.
LEMMA DeleteFindInv ==
  ASSUME TaskInv, Exclusive, NEW c \in Clients, NEW i \in Ids, DeleteFind(c, i)
  PROVE  TypeOK' /\ ClientInv' /\ DeleterInv' /\ ExitNotLost' /\ TablePart'
  <1>0. /\ ClientInv /\ DeleterInv /\ ExitNotLost /\ RecordInv /\ DistinctInv
        /\ CoverInv /\ ExitedExact /\ ToldInv
        /\ asked \subseteq 1..(nextThread - 1)
        /\ TypeOK /\ LocalType /\ SharedType
    BY TypeParts DEF TaskInv
  <1>1. PICK s \in Slots :
          /\ tbl[s].used /\ tbl[s].id = i
          /\ Enter(c, "lock", i, s, tbl[s].thr)
          /\ tbl' = [tbl EXCEPT ![s] = [tbl[s] EXCEPT !.shut = TRUE]]
          /\ asked' = asked \cup {tbl[s].thr}
    BY DEF DeleteFind, Found
  <1>2. UNCHANGED <<ids, at, tid, pthread, nextThread, tracked>>
    BY DEF DeleteFind, threads
  <1>3. /\ Moves(c) /\ pc[c] = "idle" /\ pc'[c] = "lock"
        /\ arg'[c] = i /\ slot'[c] = s /\ thr'[c] = tbl[s].thr
    BY <1>0, <1>1, MovesFacts
  <1>4. tbl[s].thr \in Threads /\ tbl[s].thr < nextThread
    BY <1>0, <1>1 DEF RecordInv
  <1>5. /\ \A r \in Slots :
             /\ tbl'[r].used = tbl[r].used /\ tbl'[r].id = tbl[r].id
             /\ tbl'[r].name = tbl[r].name /\ tbl'[r].thr = tbl[r].thr
             /\ tbl'[r].sync = tbl[r].sync /\ tbl'[r].exited = tbl[r].exited
             /\ r # s => tbl'[r].shut = tbl[r].shut
        /\ tbl'[s].shut
    BY <1>0, <1>1 DEF SharedType, RecordType
  <1>6. TypeOK'
    <2>1. LocalType'
      BY <1>0, <1>1, <1>4, EnterType DEF Slots, Threads, AllPcs, DeletePcs
    <2>2. [tbl[s] EXCEPT !.shut = TRUE] \in RecordType
      BY <1>0 DEF SharedType, RecordType
    <2>3. SharedType'
      BY <1>0, <1>1, <1>2, <1>4, <2>2 DEF SharedType
    <2>4. QED BY <2>1, <2>3 DEF TypeOK, LocalType, SharedType, AllPcs
  <1>7. SameRecords
    BY <1>2, <1>3, <1>5 DEF SameRecords, Unjoined, Moves
  <1>8. RecordInv' /\ DistinctInv' /\ CoverInv'
    BY <1>7, SameRecordsInv
  <1>9. ClientInv'
    <2> SUFFICES ASSUME NEW d \in Clients
                 PROVE  /\ pc'[d] = "create" =>
                             /\ d \in Creators /\ arg'[d] \in Names
                             /\ slot'[d] \in Slots /\ ~tbl'[slot'[d]].used
                        /\ pc'[d] \in DeletePcs \cup {"register", "unregister"}
                             => arg'[d] \in Ids
                        /\ pc'[d] \in DeletePcs =>
                             /\ slot'[d] \in Slots /\ tbl'[slot'[d]].used
                             /\ tbl'[slot'[d]].id = arg'[d]
                             /\ tbl'[slot'[d]].thr = thr'[d]
                        /\ pc'[d] = "join" => tbl'[slot'[d]].exited
                        /\ pc'[d] = "remove" => at'[thr'[d]] = "joined"
      BY DEF ClientInv
    <2>1. CASE d = c
      BY <2>1, <1>1, <1>3, <1>5
    <2>2. CASE d # c
      <3>1. pc'[d] = pc[d] /\ arg'[d] = arg[d] /\ slot'[d] = slot[d] /\ thr'[d] = thr[d]
        BY <2>2, <1>3 DEF Moves
      <3>2. QED BY <3>1, <1>0, <1>2, <1>5 DEF ClientInv, DeletePcs
    <2>3. QED BY <2>1, <2>2
  <1>10. DeleterInv'
    <2>1. \A d \in Clients : ~(pc[d] \in DeletePcs /\ arg[d] = i)
      BY DEF DeleteFind, Deleting
    <2>2. QED BY <1>0, <1>3, <2>1 DEF DeleterInv, Moves
  <1>11. ExitNotLost'
    BY <1>0, <1>3, <1>5 DEF ExitNotLost, ClientInv, Moves, DeletePcs
  <1>12. ExitedExact'
    BY <1>0, <1>2, <1>5 DEF ExitedExact, Past
  <1>13. asked' \subseteq 1..(nextThread' - 1)
    BY <1>0, <1>1, <1>2, <1>4 DEF Threads, TypeOK
  <1>14. ToldInv'
    <2>1. \A h \in asked : Told(h) => Told(h)'
      BY <1>5 DEF Told, RecordOf
    <2>2. ASSUME NEW h \in asked', h = tbl[s].thr PROVE Told(h)'
      BY <1>1, <1>5, <2>2 DEF Told, RecordOf
    <2>3. QED BY <1>0, <1>1, <1>2, <2>1, <2>2 DEF ToldInv
  <1>15. QED
    BY <1>6, <1>8, <1>9, <1>10, <1>11, <1>12, <1>13, <1>14 DEF TablePart

\* pthread_join: the thread is that of the record the client noted.  It is still to
\* be joined, so that no other has its pthread_t.
LEMMA JoinFacts ==
  ASSUME TaskInv, NEW c \in Clients, DeleteJoin(c)
  PROVE  /\ at[thr[c]] = "ended"
         /\ at' = [at EXCEPT ![thr[c]] = "joined"]
  <1> DEFINE H == thr[c]
  <1>0. ClientInv /\ DeleterInv /\ RecordInv /\ ExitedExact /\ PthreadInv /\ TypeOK
    BY DEF TaskInv
  <1>1. /\ pc[c] = "join"
        /\ \A g \in Joinable(H) : at[g] = "ended"
        /\ at' = [h \in Threads |-> IF h \in Joinable(H) THEN "joined" ELSE at[h]]
    BY DEF DeleteJoin
  <1>2. /\ slot[c] \in Slots /\ tbl[slot[c]].used /\ tbl[slot[c]].thr = H
        /\ tbl[slot[c]].id = arg[c] /\ tbl[slot[c]].exited /\ H \in Threads
    BY <1>0, <1>1 DEF ClientInv, RecordInv, DeletePcs
  <1>3. at[H] \in {"marked", "ended", "joined"}
    BY <1>0, <1>2 DEF ExitedExact, Past
  <1>4. at[H] # "joined"
    <2> SUFFICES ASSUME at[H] = "joined" PROVE FALSE
      OBVIOUS
    <2>1. PICK d \in Clients : pc[d] = "remove" /\ slot[d] = slot[c]
      BY <1>0, <1>2 DEF RecordInv
    <2>2. arg[d] = arg[c]
      BY <1>0, <1>2, <2>1 DEF ClientInv, DeletePcs
    <2>3. QED BY <1>0, <1>1, <2>1, <2>2 DEF DeleterInv, DeletePcs
  <1>5. Joinable(H) = {H}
    BY <1>0, <1>2, <1>3, <1>4 DEF Joinable, Unjoined, PthreadInv
  <1>6. at' = [h \in Threads |-> IF h = H THEN "joined" ELSE at[h]]
    BY <1>1, <1>5
  <1>7. QED BY <1>0, <1>1, <1>2, <1>5, <1>6 DEF TypeOK

LEMMA JoinInv ==
  ASSUME TaskInv, NEW c \in Clients, DeleteJoin(c)
  PROVE  TypeOK' /\ ClientInv' /\ DeleterInv' /\ ExitNotLost' /\ TablePart'
  <1> DEFINE S == slot[c]
             H == thr[c]
  <1>0. /\ ClientInv /\ DeleterInv /\ ExitNotLost /\ RecordInv /\ DistinctInv
        /\ CoverInv /\ ExitedExact /\ ToldInv
        /\ asked \subseteq 1..(nextThread - 1)
        /\ TypeOK /\ LocalType /\ SharedType
    BY TypeParts DEF TaskInv
  <1>1. /\ pc[c] = "join" /\ at[H] = "ended"
        /\ at' = [at EXCEPT ![H] = "joined"] /\ Goto(c, "remove")
        /\ tbl' = tbl
        /\ UNCHANGED <<ids, tid, pthread, nextThread, tracked, asked>>
    BY JoinFacts DEF DeleteJoin, table
  <1>2. /\ Moves(c) /\ pc'[c] = "remove"
        /\ arg'[c] = arg[c] /\ slot'[c] = slot[c] /\ thr'[c] = thr[c]
    BY <1>0, <1>1, MovesFacts DEF AllPcs, DeletePcs
  <1>3. /\ S \in Slots /\ tbl[S].used /\ tbl[S].thr = H /\ tbl[S].id = arg[c]
        /\ arg[c] \in Ids /\ H \in Threads
    BY <1>0, <1>1 DEF ClientInv, RecordInv, DeletePcs
  <1>4. at'[H] = "joined" /\ \A g \in Threads \ {H} : at'[g] = at[g]
    BY <1>0, <1>1, <1>3 DEF SharedType
  <1>5. TypeOK'
    <2>1. LocalType'
      BY <1>0, <1>1, GotoType DEF AllPcs, DeletePcs
    <2>2. SharedType'
      BY <1>0, <1>1 DEF SharedType
    <2>3. QED BY <2>1, <2>2 DEF TypeOK, LocalType, SharedType, AllPcs
  <1>6. RecordInv'
    <2> SUFFICES ASSUME NEW s \in Slots, tbl[s].used
                 PROVE  /\ tbl[s].id \in ids /\ tbl[s].sync = "live"
                        /\ tbl[s].thr \in Threads /\ tbl[s].thr < nextThread
                        /\ at'[tbl[s].thr] # "none" /\ tid[tbl[s].thr] = tbl[s].id
                        /\ at'[tbl[s].thr] = "joined" =>
                             \E d \in Clients : pc'[d] = "remove" /\ slot'[d] = s
      BY <1>1 DEF RecordInv
    <2>1. CASE s = S
      BY <2>1, <1>0, <1>2, <1>3, <1>4 DEF RecordInv
    <2>2. CASE s # S
      <3>1. tbl[s].thr \in Threads \ {H}
        BY <2>2, <1>0, <1>3 DEF DistinctInv, RecordInv
      <3>2. \A d \in Clients : pc[d] = "remove" => pc'[d] = "remove" /\ slot'[d] = slot[d]
        BY <1>1, <1>2 DEF Moves
      <3>3. QED BY <1>0, <1>4, <3>1, <3>2 DEF RecordInv
    <2>3. QED BY <2>1, <2>2
  <1>7. DistinctInv'
    BY <1>0, <1>1 DEF DistinctInv
  <1>8. CoverInv'
    <2>1. \A h \in Threads : Unjoined(h)' => Unjoined(h)
      BY <1>4 DEF Unjoined
    <2>2. \A h \in Threads : h >= nextThread => at'[h] = "none"
      <3>1. H < nextThread
        BY <1>0, <1>3 DEF RecordInv
      <3>2. QED BY <1>0, <1>3, <1>4, <3>1 DEF CoverInv, Threads, TypeOK
    <2>3. QED BY <1>0, <1>1, <2>1, <2>2 DEF CoverInv, Found, RecordOf
  <1>9. ClientInv'
    <2> SUFFICES ASSUME NEW d \in Clients
                 PROVE  /\ pc'[d] = "create" =>
                             /\ d \in Creators /\ arg'[d] \in Names
                             /\ slot'[d] \in Slots /\ ~tbl[slot'[d]].used
                        /\ pc'[d] \in DeletePcs \cup {"register", "unregister"}
                             => arg'[d] \in Ids
                        /\ pc'[d] \in DeletePcs =>
                             /\ slot'[d] \in Slots /\ tbl[slot'[d]].used
                             /\ tbl[slot'[d]].id = arg'[d]
                             /\ tbl[slot'[d]].thr = thr'[d]
                        /\ pc'[d] = "join" => tbl[slot'[d]].exited
                        /\ pc'[d] = "remove" => at'[thr'[d]] = "joined"
      BY <1>1 DEF ClientInv
    <2>1. CASE d = c
      BY <2>1, <1>2, <1>3, <1>4 DEF DeletePcs
    <2>2. CASE d # c
      <3>1. pc'[d] = pc[d] /\ arg'[d] = arg[d] /\ slot'[d] = slot[d] /\ thr'[d] = thr[d]
        BY <2>2, <1>2 DEF Moves
      <3>2. pc[d] = "remove" => thr[d] \in Threads /\ at[thr[d]] = "joined"
        BY <1>0 DEF ClientInv, RecordInv, DeletePcs
      <3>3. QED BY <3>1, <3>2, <1>0, <1>4 DEF ClientInv, DeletePcs
    <2>3. QED BY <2>1, <2>2
  <1>10. DeleterInv' /\ ExitNotLost'
    <2>1. \A d \in Clients :
            /\ pc'[d] \in DeletePcs => pc[d] \in DeletePcs
            /\ arg'[d] = arg[d] /\ slot'[d] = slot[d]
            /\ pc'[d] = "blocked" => pc[d] = "blocked"
      BY <1>1, <1>2 DEF Moves, DeletePcs
    <2>2. QED BY <1>0, <1>1, <2>1 DEF DeleterInv, ExitNotLost
  <1>11. ExitedExact'
    <2>1. \A g \in Threads : Past(g)' <=> Past(g)
      BY <1>1, <1>3, <1>4 DEF Past
    <2>2. QED BY <1>0, <1>1, <2>1 DEF ExitedExact, RecordInv
  <1>12. ToldInv' /\ asked' \subseteq 1..(nextThread' - 1)
    <2>1. \A g \in asked : g \in Threads /\ (Told(g)' <=> Told(g))
      BY <1>0, <1>1 DEF Told, RecordOf, SharedType
    <2>2. \A g \in asked : at'[g] \in {"starting", "running"}
                             => at[g] \in {"starting", "running"}
      BY <1>4, <2>1
    <2>3. QED BY <1>0, <1>1, <2>1, <2>2 DEF ToldInv
  <1>13. QED
    BY <1>5, <1>6, <1>7, <1>8, <1>9, <1>10, <1>11, <1>12 DEF TablePart

\* The removal: the slot still holds the record the client noted.
LEMMA RemoveInv ==
  ASSUME TaskInv, NEW c \in Clients, DeleteRemove(c)
  PROVE  TypeOK' /\ ClientInv' /\ DeleterInv' /\ ExitNotLost' /\ TablePart'
  <1> DEFINE S == slot[c]
             A == arg[c]
  <1>0. /\ ClientInv /\ DeleterInv /\ ExitNotLost /\ RecordInv /\ DistinctInv
        /\ CoverInv /\ ExitedExact /\ ToldInv
        /\ asked \subseteq 1..(nextThread - 1)
        /\ TypeOK /\ LocalType /\ SharedType
    BY TypeParts DEF TaskInv
  <1>1. /\ pc[c] = "remove" /\ Goto(c, "unregister")
        /\ UNCHANGED <<at, tid, pthread, nextThread, tracked, asked>>
    BY DEF DeleteRemove, threads
  <1>2. /\ S \in Slots /\ tbl[S].used /\ tbl[S].id = A /\ A \in Ids
        /\ tbl[S].thr \in Threads /\ at[tbl[S].thr] = "joined"
    BY <1>0, <1>1 DEF ClientInv, RecordInv, DeletePcs
  <1>3. tbl' = [tbl EXCEPT ![S] = Cleared(tbl[S])] /\ ids' = ids \ {A}
    BY <1>2 DEF DeleteRemove, Found, ReleaseId
  <1>4. /\ Moves(c) /\ pc'[c] = "unregister" /\ arg'[c] = A
    BY <1>0, <1>1, MovesFacts DEF AllPcs, DeletePcs
  <1>5. ~tbl'[S].used /\ \A s \in Slots \ {S} : tbl'[s] = tbl[s]
    BY <1>0, <1>2, <1>3 DEF SharedType, RecordType, Cleared
  <1>6. TypeOK'
    <2>1. Cleared(tbl[S]) \in RecordType
      <3>1. \A q \in RecordType, v \in {"dead", "live"} : [q EXCEPT !.sync = v] \in RecordType
        BY DEF RecordType
      <3>2. \A q \in RecordType, v \in BOOLEAN : [q EXCEPT !.used = v] \in RecordType
        BY DEF RecordType
      <3>3. QED BY <1>0, <1>2, <3>1, <3>2 DEF SharedType, Cleared
    <2>2. SharedType'
      BY <1>0, <1>1, <1>3, <2>1 DEF SharedType
    <2>3. LocalType'
      BY <1>0, <1>1, GotoType DEF AllPcs, DeletePcs
    <2>4. QED BY <2>2, <2>3 DEF TypeOK, LocalType, SharedType, AllPcs
  <1>7. \A d \in Clients \ {c} : pc[d] \in DeletePcs => slot[d] \in Slots \ {S}
    BY <1>0, <1>1, <1>2 DEF ClientInv, DeleterInv, DeletePcs
  <1>8. ClientInv'
    <2> SUFFICES ASSUME NEW d \in Clients
                 PROVE  /\ pc'[d] = "create" =>
                             /\ d \in Creators /\ arg'[d] \in Names
                             /\ slot'[d] \in Slots /\ ~tbl'[slot'[d]].used
                        /\ pc'[d] \in DeletePcs \cup {"register", "unregister"}
                             => arg'[d] \in Ids
                        /\ pc'[d] \in DeletePcs =>
                             /\ slot'[d] \in Slots /\ tbl'[slot'[d]].used
                             /\ tbl'[slot'[d]].id = arg'[d]
                             /\ tbl'[slot'[d]].thr = thr'[d]
                        /\ pc'[d] = "join" => tbl'[slot'[d]].exited
                        /\ pc'[d] = "remove" => at'[thr'[d]] = "joined"
      BY DEF ClientInv
    <2>1. CASE d = c
      BY <2>1, <1>2, <1>4 DEF DeletePcs
    <2>2. CASE d # c
      <3>1. pc'[d] = pc[d] /\ arg'[d] = arg[d] /\ slot'[d] = slot[d] /\ thr'[d] = thr[d]
        BY <2>2, <1>4 DEF Moves
      <3>2. pc[d] \in DeletePcs => tbl'[slot[d]] = tbl[slot[d]]
        BY <2>2, <1>5, <1>7
      <3>3. pc[d] = "create" => ~tbl'[slot[d]].used
        BY <1>0, <1>5 DEF ClientInv
      <3>4. QED BY <3>1, <3>2, <3>3, <1>0, <1>1 DEF ClientInv, DeletePcs
    <2>3. QED BY <2>1, <2>2
  <1>9. DeleterInv'
    BY <1>0, <1>4 DEF DeleterInv, Moves, DeletePcs
  <1>10. ExitNotLost'
    BY <1>0, <1>4, <1>5, <1>7 DEF ExitNotLost, Moves, DeletePcs
  <1>11. RecordInv'
    <2> SUFFICES ASSUME NEW s \in Slots, tbl'[s].used
                 PROVE  /\ tbl'[s].id \in ids' /\ tbl'[s].sync = "live"
                        /\ tbl'[s].thr \in Threads /\ tbl'[s].thr < nextThread'
                        /\ at'[tbl'[s].thr] # "none"
                        /\ tid'[tbl'[s].thr] = tbl'[s].id
                        /\ at'[tbl'[s].thr] = "joined" =>
                             \E d \in Clients : pc'[d] = "remove" /\ slot'[d] = s
      BY DEF RecordInv
    <2>1. s # S /\ tbl'[s] = tbl[s] /\ tbl[s].id # A
      BY <1>0, <1>2, <1>5 DEF DistinctInv
    <2>2. \A d \in Clients : pc[d] = "remove" /\ slot[d] = s
                               => pc'[d] = "remove" /\ slot'[d] = s
      BY <1>4, <2>1 DEF Moves
    <2>3. QED BY <1>0, <1>1, <1>3, <2>1, <2>2 DEF RecordInv
  <1>12. DistinctInv'
    BY <1>0, <1>5 DEF DistinctInv
  <1>13. CoverInv'
    <2>1. \A j \in ids' : Found(j)' # {}
      BY <1>0, <1>2, <1>3, <1>5 DEF CoverInv, Found
    <2>2. \A h \in Threads : Unjoined(h)' => RecordOf(h)' # {}
      BY <1>0, <1>1, <1>2, <1>5 DEF CoverInv, RecordOf, Unjoined
    <2>3. QED BY <1>0, <1>1, <2>1, <2>2 DEF CoverInv
  <1>14. ExitedExact'
    BY <1>0, <1>1, <1>5 DEF ExitedExact, Past
  <1>15. ToldInv' /\ asked' \subseteq 1..(nextThread' - 1)
    <2>1. \A h \in asked :
            Told(h) /\ at[h] \in {"starting", "running"} => Told(h)'
      BY <1>2, <1>5 DEF Told, RecordOf
    <2>2. QED BY <1>0, <1>1, <2>1 DEF ToldInv
  <1>16. QED
    BY <1>6, <1>8, <1>9, <1>10, <1>11, <1>12, <1>13, <1>14, <1>15 DEF TablePart

-----------------------------------------------------------------------------
(* What no step undoes, whoever calls.                                     *)

\* pthread_create gives out a pthread_t that no thread has which is still to be
\* joined, and a thread keeps its own.
LEMMA PthreadStep ==
  ASSUME TypeOK, PthreadInv, [Next]_vars
  PROVE  PthreadInv'
  <1> DEFINE Kept == /\ pthread' = pthread
                     /\ \A h \in Threads : Unjoined(h)' => Unjoined(h)
  <1>1. ASSUME NEW c \in Clients, CreateFill(c) PROVE PthreadInv'
    <2> DEFINE H == nextThread
    <2>1. H \in Threads /\ at' = [at EXCEPT ![H] = "starting"]
      BY <1>1, TaskAssumption DEF CreateFill, TypeOK, Threads
    <2>2. PICK p \in Pthreads : FreePthread(p) /\ pthread' = [pthread EXCEPT ![H] = p]
      BY <1>1 DEF CreateFill
    <2>3. \A h \in Threads \ {H} :
            pthread'[h] = pthread[h] /\ (Unjoined(h)' <=> Unjoined(h))
      BY <2>1, <2>2 DEF TypeOK, Unjoined
    <2>4. pthread'[H] = p
      BY <2>1, <2>2 DEF TypeOK
    <2>5. \A h \in Threads \ {H} : Unjoined(h)' => pthread'[h] # pthread'[H]
      BY <2>2, <2>3, <2>4 DEF FreePthread
    <2>6. \A g, h \in Threads \ {H} :
            Unjoined(g)' /\ Unjoined(h)' /\ g # h => pthread'[g] # pthread'[h]
      BY <2>3 DEF PthreadInv
    <2>7. QED BY <2>5, <2>6 DEF PthreadInv
  <1>2. ASSUME NEW c \in Clients, DeleteJoin(c) PROVE Kept
    BY <1>2 DEF DeleteJoin, Unjoined
  <1>3. ASSUME NEW c \in Clients,
               \/ Call(c) \/ CreateFail(c) \/ CreateUndo(c) \/ Register(c) \/ DeleteWait(c)
               \/ DeleteRemove(c) \/ Unregister(c) \/ DeleteExpire(c) \/ SpuriousWake(c)
        PROVE  Kept
    <2>1. UNCHANGED <<at, pthread>>
      BY <1>3 DEF Call, CreateFind, DeleteFind, CreateFail, CreateUndo, Register, DeleteWait,
                  DeleteRemove, Unregister, DeleteExpire, SpuriousWake, threads
    <2>2. QED BY <2>1 DEF Unjoined
  <1>4. ASSUME NEW h \in Threads, WrapperStep(h) \/ TaskObey(h) \/ TaskReturn(h)
        PROVE  Kept
    <2>1. PICK a : at' = [at EXCEPT ![h] = a] /\ Unjoined(h) /\ pthread' = pthread
      BY <1>4 DEF WrapperStep, TaskStart, TaskMark, TaskEnd, TaskObey, TaskReturn, Unjoined
    <2>2. QED BY <2>1 DEF TypeOK, Unjoined
  <1>5. CASE UNCHANGED vars
    BY <1>5 DEF vars, PthreadInv, Unjoined
  <1>6. Kept => PthreadInv'
    BY DEF PthreadInv
  <1>7. QED BY <1>1, <1>2, <1>3, <1>4, <1>5, <1>6 DEF Next, Step

\* A call of OSAL_TaskDelete has a slot in its hands.
SlotInv == \A c \in Clients : pc[c] \in DeletePcs => slot[c] \in Slots

\* Nothing takes shutdown_requested back, not even a new record in the slot.
LEMMA ShutStep ==
  ASSUME TypeOK, SlotInv, ShutInv, [Next]_vars
  PROVE  ShutInv'
  <1> DEFINE Kept == \A s \in Slots : tbl[s].shut => tbl'[s].shut
             Stays == \A c \in Clients :
                        pc'[c] \in DeletePcs => pc[c] \in DeletePcs /\ slot'[c] = slot[c]
  <1>0. LocalType /\ tbl \in [Slots -> RecordType]
    BY TypeParts DEF SharedType
  <1>1. Kept /\ Stays => ShutInv'
    BY DEF ShutInv, SlotInv
  <1>2. ASSUME NEW c \in Clients, CreateFill(c) PROVE Kept /\ Stays
    <2>1. PICK i \in Ids :
            tbl' = [tbl EXCEPT ![slot[c]] = NewRecord(tbl[slot[c]], i, arg[c], nextThread)]
      BY <1>2 DEF CreateFill
    <2>2. NewRecord(tbl[slot[c]], i, arg[c], nextThread).shut = tbl[slot[c]].shut
      BY DEF NewRecord
    <2>3. Kept
      BY <1>0, <2>1, <2>2
    <2>4. Stays
      BY <1>0, <1>2 DEF CreateFill, LocalType, DeletePcs
    <2>5. QED BY <2>3, <2>4
  <1>3. ASSUME NEW c \in Clients, CreateUndo(c) \/ DeleteRemove(c) PROVE Kept /\ Stays
    <2>1. \/ tbl' = tbl
          \/ slot[c] \in Slots /\ tbl' = [tbl EXCEPT ![slot[c]] = Cleared(tbl[slot[c]])]
      BY <1>0, <1>3 DEF CreateUndo, DeleteRemove, table, Found
    <2>2. Kept
      BY <1>0, <2>1, RecordFields
    <2>3. Stays
      BY <1>0, <1>3 DEF CreateUndo, DeleteRemove, Leave, Goto, LocalType, DeletePcs
    <2>4. QED BY <2>2, <2>3
  <1>4. ASSUME NEW c \in Clients, NEW i \in Ids, DeleteFind(c, i) PROVE ShutInv'
    <2>1. PICK s \in Slots : /\ Enter(c, "lock", i, s, tbl[s].thr)
                             /\ tbl' = [tbl EXCEPT ![s].shut = TRUE]
      BY <1>4 DEF DeleteFind, Found
    <2>2. tbl' = [tbl EXCEPT ![s] = [tbl[s] EXCEPT !.shut = TRUE]]
      BY <2>1
    <2>3. Kept /\ tbl'[s].shut
      BY <1>0, <2>2, RecordFields
    <2>4. Moves(c) /\ slot'[c] = s
      BY <1>0, <2>1, MovesFacts
    <2>5. QED BY <2>3, <2>4 DEF ShutInv, SlotInv, Moves
  <1>5. ASSUME NEW c \in Clients,
               \/ \E n \in Names : CreateFind(c, n)
               \/ CreateFail(c) \/ Register(c) \/ DeleteWait(c) \/ DeleteJoin(c)
               \/ Unregister(c) \/ DeleteExpire(c) \/ SpuriousWake(c)
        PROVE  Kept /\ Stays
    <2>1. tbl' = tbl
      BY <1>5 DEF CreateFind, CreateFail, Register, DeleteWait, DeleteJoin, Unregister,
                  DeleteExpire, SpuriousWake, table
    <2>2. \/ Leave(c)
          \/ pc[c] \in DeletePcs /\ \E p \in {"join", "blocked", "woken", "remove"} : Goto(c, p)
          \/ \E n \in Names, s \in Slots : Enter(c, "create", n, s, 0)
      BY <1>5 DEF CreateFind, CreateFail, Register, DeleteWait, DeleteJoin, Unregister,
                  DeleteExpire, SpuriousWake, DeletePcs
    <2>3. Stays
      BY <1>0, <2>2 DEF Leave, Goto, Enter, LocalType, DeletePcs
    <2>4. QED BY <2>1, <2>3
  <1>6. ASSUME NEW h \in Threads, WrapperStep(h) \/ TaskObey(h) \/ TaskReturn(h)
        PROVE  Kept /\ Stays
    <2>1. \A s \in Slots :
            \/ tbl'[s] = tbl[s]
            \/ tbl'[s] = [tbl[s] EXCEPT !.state = "RUNNING"]
            \/ tbl'[s] = [[tbl[s] EXCEPT !.state = "TERMINATED"] EXCEPT !.exited = TRUE]
      BY <1>6 DEF WrapperStep, TaskStart, TaskMark, TaskEnd, TaskObey, TaskReturn, table
    <2>2. Kept
      <3>1. ASSUME NEW s \in Slots PROVE tbl'[s].shut = tbl[s].shut
        <4>1. tbl[s] \in RecordType
          BY <1>0
        <4>2. PICK r \in RecordType : r = tbl[s]
          BY <4>1
        <4>3. /\ [r EXCEPT !.state = "RUNNING"].shut = r.shut
              /\ [[r EXCEPT !.state = "TERMINATED"] EXCEPT !.exited = TRUE].shut = r.shut
          BY RecordFields
        <4>4. QED BY <2>1, <4>2, <4>3
      <3>2. QED BY <3>1
    <2>3. slot' = slot
      BY <1>6 DEF WrapperStep, TaskStart, TaskMark, TaskEnd, TaskObey, TaskReturn, locals
    <2>4. \A c \in Clients : pc'[c] \in DeletePcs => pc[c] \in DeletePcs
      <3>1. CASE UNCHANGED pc
        BY <3>1
      <3>2. CASE pc' # pc
        <4>1. SignalExit(Found(tid[h]))
          BY <1>6, <3>2
             DEF WrapperStep, TaskStart, TaskMark, TaskEnd, TaskObey, TaskReturn, locals
        <4>2. PICK d \in UNION {Blocked(s) : s \in Found(tid[h])} :
                pc' = [pc EXCEPT ![d] = "woken"]
          BY <3>2, <4>1 DEF SignalExit
        <4>3. pc[d] \in DeletePcs
          BY DEF Blocked, DeletePcs
        <4>4. QED BY <1>0, <4>2, <4>3 DEF LocalType
      <3>3. QED BY <3>1, <3>2
    <2>5. QED BY <2>2, <2>3, <2>4
  <1>7. CASE UNCHANGED vars
    BY <1>7 DEF vars, ShutInv
  <1>8. QED BY <1>1, <1>2, <1>3, <1>4, <1>5, <1>6, <1>7 DEF Next, Call, Step

-----------------------------------------------------------------------------
(* The theorems.                                                           *)

\* TaskInv is inductive when one client creates tasks and no two delete the
\* same one at a time.
LEMMA TaskStep ==
  ASSUME SoleCreator, Exclusive
  PROVE  TaskInv /\ [Next]_vars => TaskInv'
  <1> SUFFICES ASSUME TaskInv, [Next]_vars PROVE TaskInv'
    OBVIOUS
  <1> DEFINE Parts == TypeOK /\ ClientInv /\ DeleterInv /\ ExitNotLost /\ TablePart
  <1>1. Parts' => TaskInv'
    <2>1. PthreadInv'
      BY PthreadStep DEF TaskInv
    <2>2. SlotInv
      BY DEF TaskInv, ClientInv, SlotInv
    <2>3. ShutInv'
      BY <2>2, ShutStep DEF TaskInv
    <2>4. QED BY <2>1, <2>3 DEF TablePart, TaskInv
  <1>2. ASSUME NEW c \in Clients, Call(c) PROVE Parts'
    BY <1>2, FindInv, DeleteFindInv DEF Call
  <1>3. ASSUME NEW c \in Clients, Step(c) \/ DeleteExpire(c) \/ SpuriousWake(c)
        PROVE  Parts'
    <2>1. CASE CreateFill(c)
      BY <2>1, FillType, FillInv
    <2>2. CASE CreateUndo(c)
      BY <2>2, UndoInv
    <2>3. CASE CreateFail(c) \/ Register(c) \/ DeleteExpire(c) \/ Unregister(c)
      BY <2>3, LeaveInv
    <2>4. CASE DeleteWait(c) \/ SpuriousWake(c)
      BY <2>4, WaitInv
    <2>5. CASE DeleteJoin(c)
      BY <2>5, JoinInv
    <2>6. CASE DeleteRemove(c)
      BY <2>6, RemoveInv
    <2>7. QED BY <1>3, <2>1, <2>2, <2>3, <2>4, <2>5, <2>6 DEF Step
  <1>4. ASSUME NEW h \in Threads, WrapperStep(h) \/ TaskObey(h) \/ TaskReturn(h)
        PROVE  Parts'
    BY <1>4, StartInv, MarkInv, RunInv DEF WrapperStep
  <1>5. CASE UNCHANGED vars
    BY <1>5 DEF vars, TaskInv, TypeOK, ClientInv, DeleterInv, RecordInv, DistinctInv,
       CoverInv, ExitedExact, ExitNotLost, ToldInv, ShutInv, PthreadInv, Found, RecordOf,
       Unjoined, Past, Told
  <1>6. QED BY <1>1, <1>2, <1>3, <1>4, <1>5 DEF Next

\* TaskInv holds in every reachable state: OSAL_TaskDelete, which keeps only
\* a slot number while it waits, finds its record there when it comes back.
THEOREM TaskLife ==
  ASSUME SoleCreator, Exclusive
  PROVE  Spec => []TaskInv
  <1>1. Init => TaskInv
    BY InitInv
  <1>2. TaskInv /\ [Next]_vars => TaskInv'
    BY TaskStep
  <1>3. QED BY <1>1, <1>2, PTL DEF Spec

\* The records with the pthread_t of a thread are its own and those that a call of
\* OSAL_TaskDelete has still to remove, their threads joined.
LEMMA MineFacts ==
  ASSUME TaskInv, NEW h \in Threads, Unjoined(h)
  PROVE  \E s \in Mine(h) :
           /\ Found(tid[h]) = {s} /\ RecordOf(h) = {s}
           /\ tbl[s].thr = h /\ tbl[s].id = tid[h]
           /\ \A r \in Mine(h) \ {s} : \E c \in Clients : pc[c] = "remove" /\ slot[c] = r
  <1>0. RecordInv /\ PthreadInv /\ TypeOK
    BY DEF TaskInv
  <1>1. PICK s \in Slots :
          /\ tbl[s].used /\ tbl[s].thr = h /\ tbl[s].id = tid[h]
          /\ Found(tid[h]) = {s} /\ RecordOf(h) = {s}
    BY OwnSlot
  <1>2. s \in Mine(h)
    BY <1>1 DEF Mine
  <1>3. ASSUME NEW r \in Mine(h) \ {s}
        PROVE  \E c \in Clients : pc[c] = "remove" /\ slot[c] = r
    <2>1. /\ r \in Slots /\ tbl[r].used /\ tbl[r].thr \in Threads
          /\ pthread[tbl[r].thr] = pthread[h]
      BY <1>0 DEF Mine, RecordInv
    <2>2. tbl[r].thr # h
      BY <1>1, <2>1 DEF RecordOf
    <2>3. ~Unjoined(tbl[r].thr)
      BY <1>0, <2>1, <2>2 DEF PthreadInv
    <2>4. at[tbl[r].thr] = "joined"
      BY <1>0, <2>1, <2>3 DEF TypeOK, Unjoined, RecordInv
    <2>5. QED BY <1>0, <2>1, <2>4 DEF RecordInv
  <1>4. QED BY <1>1, <1>2, <1>3

\* A thread that has not been joined has exactly one record, found by the id that
\* it was given.  Another with its pthread_t is about to be removed, so that
\* OSAL_TaskGetId speaks for no other task that is alive.
THEOREM TaskOwnRecord ==
  ASSUME SoleCreator, Exclusive
  PROVE  Spec => []OwnRecord
  <1>1. TaskInv => OwnRecord
    BY MineFacts DEF OwnRecord
  <1>2. QED BY <1>1, TaskLife, PTL

\* A set in which all elements are equal has at most one.
LEMMA AtMostOne ==
  ASSUME NEW S, \A x, y \in S : x = y
  PROVE  Cardinality(S) <= 1
  <1>1. CASE S = {}
    BY <1>1, FS_EmptySet
  <1>2. CASE S # {}
    <2>1. PICK x \in S : S = {x}
      BY <1>2
    <2>2. QED BY <2>1, FS_Singleton
  <1>3. QED BY <1>1, <1>2

\* Nobody destroys exit_mutex and exit_cond under a client that waits with
\* them, and no thread is joined twice.
THEOREM TaskSync ==
  ASSUME SoleCreator, Exclusive
  PROVE  Spec => [](SyncLive /\ JoinedOnce)
  <1>1. TaskInv => SyncLive
    BY DEF TaskInv, ClientInv, RecordInv, SyncLive, DeletePcs
  <1>2. TaskInv => JoinedOnce
    <2> SUFFICES ASSUME TaskInv, NEW c \in Clients, pc[c] = "join",
                        at[thr[c]] = "joined"
                 PROVE  FALSE
      BY DEF JoinedOnce
    <2>1. slot[c] \in Slots /\ tbl[slot[c]].used /\ tbl[slot[c]].id = arg[c]
          /\ tbl[slot[c]].thr = thr[c]
      BY DEF TaskInv, ClientInv, DeletePcs
    <2>2. PICK d \in Clients : pc[d] = "remove" /\ slot[d] = slot[c]
      BY <2>1 DEF TaskInv, RecordInv
    <2>3. arg[d] = arg[c]
      BY <2>1, <2>2 DEF TaskInv, ClientInv, DeletePcs
    <2>4. QED BY <2>2, <2>3 DEF TaskInv, DeleterInv, DeletePcs
  <1>3. QED BY <1>1, <1>2, TaskLife, PTL

\* The exit of a task is recorded when it happens and its signal not lost.
THEOREM TaskExit ==
  ASSUME SoleCreator, Exclusive
  PROVE  Spec => [](ExitedExact /\ ExitNotLost)
  <1>1. TaskInv => ExitedExact /\ ExitNotLost
    BY DEF TaskInv
  <1>2. QED BY <1>1, TaskLife, PTL

\* A set of slots that is not empty has a first one.
LEMMA FirstSlot ==
  ASSUME NEW S \in SUBSET Slots, S # {}
  PROVE  \E s \in S : \A r \in S : s <= r
  <1>1. IsWellFoundedOn(OpToRel(<, Nat), Nat)
    BY NatLessThanWellFounded
  <1>2. S \subseteq Nat
    BY TaskAssumption DEF Slots
  <1>3. PICK s \in S : \A r \in S : ~(<<r, s>> \in OpToRel(<, Nat))
    BY <1>1, <1>2, WFMin
  <1>4. \A r \in S : ~(r < s)
    BY <1>2, <1>3 DEF OpToRel
  <1>5. QED BY <1>2, <1>4

\* A request to shut down is never forgotten: a search that stops at a record whose
\* thread was joined stops at one that was told to shut down, too.
THEOREM TaskRequestKept ==
  ASSUME SoleCreator, Exclusive
  PROVE  Spec => []RequestKept
  <1>1. TaskInv => RequestKept
    <2> SUFFICES ASSUME TaskInv, NEW h \in asked, at[h] \in {"starting", "running"}
                 PROVE  ShouldShutdown(h)
      BY DEF RequestKept
    <2>1. h \in Threads /\ Unjoined(h) /\ Told(h)
      BY DEF TaskInv, TypeOK, Unjoined, ToldInv
    <2>2. PICK s \in Mine(h) :
            /\ RecordOf(h) = {s}
            /\ \A r \in Mine(h) \ {s} : \E c \in Clients : pc[c] = "remove" /\ slot[c] = r
      BY <2>1, MineFacts
    <2>3. tbl[s].shut
      BY <2>1, <2>2 DEF Told
    <2>4. \A r \in Mine(h) : tbl[r].shut
      BY <2>2, <2>3 DEF TaskInv, ShutInv, DeletePcs
    <2>5. Mine(h) \in SUBSET Slots /\ Mine(h) # {}
      BY <2>2 DEF Mine
    <2>6. PICK r \in Mine(h) : \A q \in Mine(h) : r <= q
      BY <2>5, FirstSlot
    <2>7. QED BY <2>4, <2>6 DEF ShouldShutdown, FirstMine
  <1>2. QED BY <1>1, TaskLife, PTL

-----------------------------------------------------------------------------
(* The tracker.                                                            *)

LEMMA LedgerFinite ==
  ASSUME NEW i
  PROVE  /\ IsFiniteSet(Registering(i)) /\ Cardinality(Registering(i)) \in Nat
         /\ IsFiniteSet(Unregistering(i)) /\ Cardinality(Unregistering(i)) \in Nat
  <1>1. Registering(i) \subseteq Clients /\ Unregistering(i) \subseteq Clients
    BY DEF Registering, Unregistering
  <1>2. QED BY <1>1, FS_Subset, FS_CardinalityType, TaskAssumption

\* A step that neither begins nor ends a call of the tracker, and changes
\* neither its entries nor the ids.
LEMMA LedgerSame ==
  ASSUME LedgerInv, UNCHANGED <<tracked, ids>>,
         \A c \in Clients :
           pc[c] \in {"register", "unregister"} \/ pc'[c] \in {"register", "unregister"}
             => pc'[c] = pc[c] /\ arg'[c] = arg[c]
  PROVE  LedgerInv'
  <1>1. \A i \in Ids : Registering(i)' = Registering(i)
    BY DEF Registering
  <1>2. \A i \in Ids : Unregistering(i)' = Unregistering(i)
    BY DEF Unregistering
  <1>3. QED BY <1>1, <1>2 DEF LedgerInv

\* A new task takes an id, and its creator is to register it.
LEMMA LedgerFill ==
  ASSUME TaskInv, LedgerInv, NEW c \in Clients, CreateFill(c)
  PROVE  LedgerInv'
  <1>0. TypeOK
    BY DEF TaskInv
  <1>1. PICK i \in Ids \ ids :
          /\ ids' = ids \cup {i} /\ tracked' = tracked
          /\ arg' = [arg EXCEPT ![c] = i] /\ pc' = [pc EXCEPT ![c] = "register"]
    BY FillFacts
  <1>2. pc[c] = "create"
    BY DEF CreateFill
  <1>3. ASSUME NEW j \in Ids
        PROVE  tracked'[j] + Cardinality(Registering(j)')
                 >= (IF j \in ids' THEN 1 ELSE 0) + Cardinality(Unregistering(j)')
    <2>1. Unregistering(j)' = Unregistering(j)
      BY <1>0, <1>1, <1>2 DEF Unregistering, TypeOK
    <2>2. CASE j = i
      <3>1. Registering(j)' = Registering(j) \cup {c} /\ c \notin Registering(j)
        BY <1>0, <1>1, <1>2, <2>2 DEF Registering, TypeOK
      <3>2. Cardinality(Registering(j)') = Cardinality(Registering(j)) + 1
        BY <3>1, LedgerFinite, FS_AddElement
      <3>3. tracked'[j] = tracked[j] /\ tracked[j] \in Nat /\ j \notin ids
        BY <1>0, <1>1, <2>2 DEF TypeOK
      <3>4. tracked[j] + Cardinality(Registering(j)) >= 0 + Cardinality(Unregistering(j))
        BY <3>3 DEF LedgerInv
      <3>5. QED BY <1>1, <2>1, <2>2, <3>2, <3>3, <3>4, LedgerFinite
    <2>3. CASE j # i
      <3>1. Registering(j)' = Registering(j)
        BY <1>0, <1>1, <1>2, <2>3 DEF Registering, TypeOK
      <3>2. j \in ids' <=> j \in ids
        BY <1>1, <2>3
      <3>3. QED BY <1>1, <2>1, <3>1, <3>2 DEF LedgerInv
    <2>4. QED BY <2>2, <2>3
  <1>4. QED BY <1>3 DEF LedgerInv

\* The entry is made.
LEMMA LedgerRegister ==
  ASSUME TaskInv, LedgerInv, NEW c \in Clients, Register(c)
  PROVE  LedgerInv'
  <1>0. TypeOK
    BY DEF TaskInv
  <1>1. PICK i \in Ids : i = arg[c]
    BY DEF Register, TaskInv, ClientInv
  <1>2. /\ pc[c] = "register" /\ ids' = ids /\ Leave(c)
        /\ tracked' = [tracked EXCEPT ![i] = @ + 1]
    BY <1>1 DEF Register, table
  <1>3. ASSUME NEW j \in Ids
        PROVE  tracked'[j] + Cardinality(Registering(j)')
                 >= (IF j \in ids' THEN 1 ELSE 0) + Cardinality(Unregistering(j)')
    <2>1. Unregistering(j)' = Unregistering(j)
      BY <1>0, <1>2 DEF Unregistering, Leave, TypeOK
    <2>2. CASE j = i
      <3>1. Registering(j)' = Registering(j) \ {c} /\ c \in Registering(j)
        BY <1>0, <1>1, <1>2, <2>2 DEF Registering, Leave, TypeOK
      <3>2. Cardinality(Registering(j)') = Cardinality(Registering(j)) - 1
        BY <3>1, LedgerFinite, FS_RemoveElement
      <3>3. tracked'[j] = tracked[j] + 1 /\ tracked[j] \in Nat
        BY <1>0, <1>2, <2>2 DEF TypeOK
      <3>4. QED BY <1>2, <2>1, <3>2, <3>3, LedgerFinite DEF LedgerInv
    <2>3. CASE j # i
      <3>1. Registering(j)' = Registering(j) /\ tracked'[j] = tracked[j]
        BY <1>0, <1>1, <1>2, <2>3 DEF Registering, Leave, TypeOK
      <3>2. QED BY <1>2, <2>1, <3>1 DEF LedgerInv
    <2>4. QED BY <2>2, <2>3
  <1>4. QED BY <1>3 DEF LedgerInv

\* A record is removed: its id is free, and its entry is to go.
LEMMA LedgerRemove ==
  ASSUME TaskInv, LedgerInv, NEW c \in Clients, DeleteRemove(c)
  PROVE  LedgerInv'
  <1>0. TypeOK /\ ClientInv /\ RecordInv
    BY DEF TaskInv
  <1>1. PICK i \in Ids : i = arg[c]
    BY <1>0 DEF DeleteRemove, ClientInv, DeletePcs
  <1>2. /\ pc[c] = "remove" /\ Goto(c, "unregister") /\ tracked' = tracked
        /\ i \in ids /\ ids' = ids \ {i}
    BY <1>0, <1>1 DEF DeleteRemove, ClientInv, RecordInv, Found, ReleaseId, DeletePcs
  <1>3. ASSUME NEW j \in Ids
        PROVE  tracked'[j] + Cardinality(Registering(j)')
                 >= (IF j \in ids' THEN 1 ELSE 0) + Cardinality(Unregistering(j)')
    <2>1. Registering(j)' = Registering(j)
      BY <1>0, <1>2 DEF Registering, Goto, TypeOK
    <2>2. CASE j = i
      <3>1. Unregistering(j)' = Unregistering(j) \cup {c} /\ c \notin Unregistering(j)
        BY <1>0, <1>1, <1>2, <2>2 DEF Unregistering, Goto, TypeOK
      <3>2. Cardinality(Unregistering(j)') = Cardinality(Unregistering(j)) + 1
        BY <3>1, LedgerFinite, FS_AddElement
      <3>3. tracked[j] \in Nat
        BY <1>0 DEF TypeOK
      <3>4. tracked[j] + Cardinality(Registering(j)) >= 1 + Cardinality(Unregistering(j))
        BY <1>2, <2>2 DEF LedgerInv
      <3>5. QED BY <1>2, <2>1, <2>2, <3>2, <3>3, <3>4, LedgerFinite
    <2>3. CASE j # i
      <3>1. Unregistering(j)' = Unregistering(j)
        BY <1>0, <1>1, <1>2, <2>3 DEF Unregistering, Goto, TypeOK
      <3>2. j \in ids' <=> j \in ids
        BY <1>2, <2>3
      <3>3. QED BY <1>2, <2>1, <3>1, <3>2 DEF LedgerInv
    <2>4. QED BY <2>2, <2>3
  <1>4. QED BY <1>3 DEF LedgerInv

\* An entry goes, if there is one.
LEMMA LedgerUnregister ==
  ASSUME TaskInv, LedgerInv, NEW c \in Clients, Unregister(c)
  PROVE  LedgerInv'
  <1>0. TypeOK
    BY DEF TaskInv
  <1>1. PICK i \in Ids : i = arg[c]
    BY DEF Unregister, TaskInv, ClientInv
  <1>2. /\ pc[c] = "unregister" /\ ids' = ids /\ Leave(c)
        /\ tracked' = [tracked EXCEPT ![i] = IF @ = 0 THEN 0 ELSE @ - 1]
    BY <1>1 DEF Unregister, table
  <1>3. ASSUME NEW j \in Ids
        PROVE  tracked'[j] + Cardinality(Registering(j)')
                 >= (IF j \in ids' THEN 1 ELSE 0) + Cardinality(Unregistering(j)')
    <2>1. Registering(j)' = Registering(j)
      BY <1>0, <1>2 DEF Registering, Leave, TypeOK
    <2>2. CASE j = i
      <3>1. Unregistering(j)' = Unregistering(j) \ {c} /\ c \in Unregistering(j)
        BY <1>0, <1>1, <1>2, <2>2 DEF Unregistering, Leave, TypeOK
      <3>2. Cardinality(Unregistering(j)') = Cardinality(Unregistering(j)) - 1
        BY <3>1, LedgerFinite, FS_RemoveElement
      <3>3. /\ tracked[j] \in Nat
            /\ tracked'[j] = IF tracked[j] = 0 THEN 0 ELSE tracked[j] - 1
        BY <1>0, <1>2, <2>2 DEF TypeOK
      <3>4. QED BY <1>2, <2>1, <3>2, <3>3, LedgerFinite DEF LedgerInv
    <2>3. CASE j # i
      <3>1. Unregistering(j)' = Unregistering(j) /\ tracked'[j] = tracked[j]
        BY <1>0, <1>1, <1>2, <2>3 DEF Unregistering, Leave, TypeOK
      <3>2. QED BY <1>2, <2>1, <3>1 DEF LedgerInv
    <2>4. QED BY <2>2, <2>3
  <1>4. QED BY <1>3 DEF LedgerInv

\* Every step keeps the entries of the tracker enough.
LEMMA LedgerStep == TaskInv /\ LedgerInv /\ [Next]_vars => LedgerInv'
  <1> SUFFICES ASSUME TaskInv, LedgerInv, [Next]_vars PROVE LedgerInv'
    OBVIOUS
  <1>0. TypeOK
    BY DEF TaskInv
  <1>1. ASSUME NEW c \in Clients,
               \/ Call(c) \/ CreateFail(c) \/ CreateUndo(c) \/ DeleteWait(c)
               \/ DeleteJoin(c) \/ DeleteExpire(c) \/ SpuriousWake(c)
        PROVE  LedgerInv'
    <2>1. UNCHANGED <<tracked, ids>>
      BY <1>1 DEF Call, CreateFind, DeleteFind, CreateFail, CreateUndo, DeleteWait,
                  DeleteJoin, DeleteExpire, SpuriousWake, table
    <2>2. /\ pc[c] \notin {"register", "unregister"}
          /\ pc'[c] \notin {"register", "unregister"}
          /\ \A d \in Clients \ {c} : pc'[d] = pc[d] /\ arg'[d] = arg[d]
      BY <1>0, <1>1 DEF Call, CreateFind, DeleteFind, CreateFail, CreateUndo, DeleteWait,
                  DeleteJoin, DeleteExpire, SpuriousWake, Enter, Leave, Goto, TypeOK
    <2>3. QED BY <2>1, <2>2, LedgerSame
  <1>2. ASSUME NEW h \in Threads, WrapperStep(h) \/ TaskObey(h) \/ TaskReturn(h)
        PROVE  LedgerInv'
    <2>1. UNCHANGED <<tracked, ids, arg>>
      BY <1>2 DEF WrapperStep, TaskStart, TaskMark, TaskEnd, TaskObey, TaskReturn,
                  table, locals
    <2>2. \A c \in Clients :
            pc'[c] = pc[c] \/ (pc[c] = "blocked" /\ pc'[c] = "woken")
      <3>1. CASE TaskMark(h)
        <4>1. CASE UNCHANGED pc
          BY <4>1
        <4>2. CASE pc' # pc
          <5>1. PICK d \in UNION {Blocked(s) : s \in Found(tid[h])} :
                  pc' = [pc EXCEPT ![d] = "woken"]
            BY <3>1, <4>2 DEF TaskMark, SignalExit
          <5>2. pc[d] = "blocked"
            BY <5>1 DEF Blocked
          <5>3. \A c \in Clients : pc'[c] = pc[c] \/ c = d
            BY <1>0, <5>1 DEF TypeOK
          <5>4. d \in Clients /\ pc'[d] = "woken"
            BY <1>0, <5>1 DEF Blocked, TypeOK
          <5>5. QED BY <5>2, <5>3, <5>4
        <4>3. QED BY <4>1, <4>2
      <3>2. CASE ~TaskMark(h)
        BY <1>2, <3>2 DEF WrapperStep, TaskStart, TaskEnd, TaskObey, TaskReturn, locals
      <3>3. QED BY <3>1, <3>2
    <2>3. QED BY <2>1, <2>2, LedgerSame
  <1>3. CASE UNCHANGED vars
    BY <1>3, LedgerSame DEF vars
  <1>4. QED
    BY <1>1, <1>2, <1>3, LedgerFill, LedgerRegister, LedgerRemove, LedgerUnregister
       DEF Next, Step

\* OSAL_ResourceCheckLeaks is not blind to a task whose id was used before: when no
\* call is in progress every task of the table has an entry.
THEOREM TaskLeaksSeen ==
  ASSUME SoleCreator, Exclusive
  PROVE  Spec => []LeaksSeen
  <1>1. Init => LedgerInv
    <2> SUFFICES ASSUME Init, NEW i \in Ids
                 PROVE  tracked[i] + Cardinality(Registering(i))
                          >= (IF i \in ids THEN 1 ELSE 0) + Cardinality(Unregistering(i))
      BY DEF LedgerInv
    <2>1. Registering(i) = {} /\ Unregistering(i) = {}
      BY DEF Init, Registering, Unregistering
    <2>2. QED BY <2>1, FS_EmptySet DEF Init
  <1>2. TaskInv /\ LedgerInv => LeaksSeen
    <2> SUFFICES ASSUME TaskInv, LedgerInv, Idle, NEW i \in ids PROVE tracked[i] > 0
      BY DEF LeaksSeen
    <2>1. i \in Ids /\ tracked[i] \in Nat
      BY DEF TaskInv, TypeOK
    <2>2. Registering(i) = {} /\ Unregistering(i) = {}
      BY DEF Idle, Registering, Unregistering
    <2>3. Cardinality(Registering(i)) = 0 /\ Cardinality(Unregistering(i)) = 0
      BY <2>2, FS_EmptySet
    <2>4. tracked[i] + 0 >= 1 + 0
      BY <2>1, <2>3 DEF LedgerInv
    <2>5. QED BY <2>1, <2>4
  <1>3. QED BY <1>1, <1>2, LedgerStep, TaskLife, PTL DEF Spec
-----------------------------------------------------------------------------
(* What holds with several creators, and when one task is deleted twice at *)
(* a time.  Then a call may come back to a slot that holds another's       *)
(* record, and neither slot nor thread is what it noted.                   *)

\* What a call keeps of its argument and its slot.
CallInv ==
  \A c \in Clients :
    /\ pc[c] = "create" => arg[c] \in Names /\ slot[c] \in Slots
    /\ pc[c] \in DeletePcs \cup {"register", "unregister"} => arg[c] \in Ids
    /\ pc[c] \in DeletePcs => slot[c] \in Slots

UsedInv == \A s \in Slots : tbl[s].used => tbl[s].thr \in Threads /\ tbl[s].id \in Ids

NamesInv ==
  \A r, s \in Slots :
    tbl[r].used /\ tbl[s].used /\ r # s => tbl[r].name # tbl[s].name

BaseInv == TypeOK /\ CallInv /\ UsedInv /\ NamesInv

\* The records in use after a step were in use before it, under the same name,
\* thread and id.
NoneNew ==
  \A s \in Slots : tbl'[s].used =>
    /\ tbl[s].used /\ tbl'[s].name = tbl[s].name
    /\ tbl'[s].thr = tbl[s].thr /\ tbl'[s].id = tbl[s].id

LEMMA NoneNewInv ==
  ASSUME UsedInv, NamesInv, NoneNew
  PROVE  UsedInv' /\ NamesInv'
  BY DEF UsedInv, NamesInv, NoneNew

\* A client that moves knows what it has to, and the others what they did.
LEMMA CallMoves ==
  ASSUME CallInv, NEW c \in Clients, Moves(c),
         pc'[c] = "create" => arg'[c] \in Names /\ slot'[c] \in Slots,
         pc'[c] \in DeletePcs \cup {"register", "unregister"} => arg'[c] \in Ids,
         pc'[c] \in DeletePcs => slot'[c] \in Slots
  PROVE  CallInv'
  <1>1. ASSUME NEW d \in Clients \ {c}
        PROVE  pc'[d] = pc[d] /\ arg'[d] = arg[d] /\ slot'[d] = slot[d]
    BY <1>1 DEF Moves
  <1>2. QED BY <1>1 DEF CallInv

\* Written records keep their type.
LEMMA ClearedType == \A r \in RecordType : Cleared(r) \in RecordType
  <1>1. \A q \in RecordType, v \in {"dead", "live"} : [q EXCEPT !.sync = v] \in RecordType
    BY DEF RecordType
  <1>2. \A q \in RecordType : [q EXCEPT !.used = FALSE] \in RecordType
    BY DEF RecordType
  <1>3. QED BY <1>1, <1>2 DEF Cleared

LEMMA ShutType == \A r \in RecordType : [r EXCEPT !.shut = TRUE] \in RecordType
  BY DEF RecordType

\* Steps of a client that leave the table alone.
LEMMA BaseQuiet ==
  ASSUME BaseInv, NEW c \in Clients, Quiet,
         \/ \E n \in Names : CreateFind(c, n)
         \/ CreateFail(c) \/ Register(c) \/ DeleteExpire(c) \/ Unregister(c)
         \/ DeleteWait(c) \/ SpuriousWake(c)
  PROVE  BaseInv'
  <1>0. LocalType /\ SharedType /\ CallInv /\ UsedInv /\ NamesInv
    BY TypeParts DEF BaseInv
  <1>1. UsedInv' /\ NamesInv'
    BY <1>0 DEF Quiet, table, UsedInv, NamesInv
  <1>2. ASSUME tracked' \in [Ids -> Nat] PROVE SharedType'
    BY <1>0, <1>2 DEF Quiet, SharedType, table, threads
  <1>3. ASSUME NEW n \in Names, CreateFind(c, n) PROVE BaseInv'
    <2>1. PICK s \in Slots : Enter(c, "create", n, s, 0)
      BY <1>3 DEF CreateFind
    <2>2. Moves(c) /\ pc'[c] = "create" /\ arg'[c] = n /\ slot'[c] = s
      BY <1>0, <2>1, MovesFacts
    <2>3. LocalType'
      BY <1>0, <2>1, EnterType, TaskAssumption DEF Slots, AllPcs
    <2>4. SharedType'
      BY <1>0, <1>2, <1>3 DEF CreateFind, SharedType
    <2>5. CallInv'
      BY <1>0, <2>2, CallMoves DEF DeletePcs
    <2>6. QED BY <1>1, <2>3, <2>4, <2>5 DEF BaseInv, TypeOK, LocalType, SharedType, AllPcs
  <1>4. ASSUME CreateFail(c) \/ Register(c) \/ DeleteExpire(c) \/ Unregister(c)
        PROVE  BaseInv'
    <2>1. Leave(c)
      BY <1>4 DEF CreateFail, Register, DeleteExpire, Unregister
    <2>2. Moves(c) /\ pc'[c] = "idle" /\ LocalType'
      BY <1>0, <2>1, MovesFacts, LeaveType
    <2>3. tracked' \in [Ids -> Nat]
      BY <1>0, <1>4 DEF CreateFail, Register, DeleteExpire, Unregister, CallInv, SharedType
    <2>4. CallInv'
      BY <1>0, <2>2, CallMoves DEF DeletePcs
    <2>5. QED
      BY <1>1, <1>2, <2>2, <2>3, <2>4 DEF BaseInv, TypeOK, LocalType, SharedType, AllPcs
  <1>5. ASSUME DeleteWait(c) \/ SpuriousWake(c) PROVE BaseInv'
    <2>1. PICK p \in {"join", "blocked", "woken"} :
            Goto(c, p) /\ pc[c] \in {"lock", "woken", "blocked"}
      BY <1>5 DEF DeleteWait, SpuriousWake
    <2>2. /\ Moves(c) /\ pc'[c] = p /\ arg'[c] = arg[c] /\ slot'[c] = slot[c]
          /\ LocalType'
      BY <1>0, <2>1, MovesFacts, GotoType DEF AllPcs, DeletePcs
    <2>3. SharedType'
      BY <1>0, <1>2, <1>5 DEF DeleteWait, SpuriousWake, SharedType
    <2>4. arg[c] \in Ids /\ slot[c] \in Slots
      BY <1>0, <2>1 DEF CallInv, DeletePcs
    <2>5. CallInv'
      BY <1>0, <2>1, <2>2, <2>4, CallMoves
    <2>6. QED BY <1>1, <2>2, <2>3, <2>5 DEF BaseInv, TypeOK, LocalType, SharedType, AllPcs
  <1>6. QED BY <1>3, <1>4, <1>5

\* The second critical section of OSAL_TaskCreate, whatever the slot holds: the
\* name is compared in it, so no other record has it.
LEMMA BaseFill ==
  ASSUME BaseInv, NEW c \in Clients, CreateFill(c)
  PROVE  BaseInv'
  <1>0. LocalType /\ SharedType /\ CallInv /\ UsedInv /\ NamesInv
    BY TypeParts DEF BaseInv
  <1> DEFINE S == slot[c]
             H == nextThread
  <1>1. PICK i \in Ids :
          /\ ids' = ids \cup {i}
          /\ tbl' = [tbl EXCEPT ![S] = NewRecord(tbl[S], i, arg[c], H)]
          /\ tid' = [tid EXCEPT ![H] = i]
          /\ arg' = [arg EXCEPT ![c] = i]
    BY DEF CreateFill, Allocate
  <1>2. /\ S \in Slots /\ arg[c] \in Names /\ ~NameTaken(arg[c])
        /\ H \in Threads /\ H + 1 \in 1..(MaxThreads + 1)
        /\ at' = [at EXCEPT ![H] = "starting"] /\ nextThread' = H + 1
        /\ pc' = [pc EXCEPT ![c] = "register"] /\ slot' = [slot EXCEPT ![c] = 0]
        /\ pthread' \in [Threads -> Pthreads \cup {None}]
        /\ UNCHANGED <<tracked, thr, asked>>
    BY <1>0, TaskAssumption DEF CreateFill, CallInv, SharedType, Threads
  <1>3. NewRecord(tbl[S], i, arg[c], H) \in RecordType
    BY <1>0, <1>2, RecordTypes DEF SharedType
  <1>4. /\ tbl'[S] = NewRecord(tbl[S], i, arg[c], H)
        /\ \A s \in Slots \ {S} : tbl'[s] = tbl[s]
        /\ tbl' \in [Slots -> RecordType]
    BY <1>0, <1>1, <1>2, <1>3 DEF SharedType
  <1>5. LocalType'
    BY <1>0, <1>1, <1>2, TaskAssumption DEF LocalType, AllPcs
  <1>6. SharedType'
    BY <1>0, <1>1, <1>2, <1>4, TaskAssumption DEF SharedType, Ids
  <1>7. CallInv'
    <2>1. /\ pc'[c] = "register" /\ arg'[c] = i
          /\ \A d \in Clients \ {c} :
               pc'[d] = pc[d] /\ arg'[d] = arg[d] /\ slot'[d] = slot[d]
      BY <1>0, <1>1, <1>2 DEF LocalType
    <2>2. QED BY <1>0, <2>1 DEF CallInv, DeletePcs
  <1>8. tbl'[S].used /\ tbl'[S].name = arg[c] /\ tbl'[S].thr = H /\ tbl'[S].id = i
    BY <1>4 DEF NewRecord
  <1>9. UsedInv'
    BY <1>0, <1>2, <1>4, <1>8 DEF UsedInv
  <1>10. NamesInv'
    <2>1. \A s \in Slots \ {S} : tbl'[s].used => tbl'[s].name # arg[c]
      BY <1>2, <1>4 DEF NameTaken
    <2>2. QED BY <1>0, <1>4, <1>8, <2>1 DEF NamesInv
  <1>11. QED
    BY <1>5, <1>6, <1>7, <1>9, <1>10 DEF BaseInv, TypeOK, LocalType, SharedType, AllPcs

\* The steps that write the table and put no new record into it.
LEMMA BaseClear ==
  ASSUME BaseInv, NEW c \in Clients,
         CreateUndo(c) \/ DeleteRemove(c) \/ \E i \in Ids : DeleteFind(c, i)
  PROVE  BaseInv' /\ NoneNew
  <1>0. LocalType /\ SharedType /\ CallInv /\ UsedInv /\ NamesInv
    BY TypeParts DEF BaseInv
  <1>1. ASSUME CreateUndo(c)
        PROVE  LocalType' /\ SharedType' /\ CallInv' /\ NoneNew
    <2>1. /\ slot[c] \in Slots /\ Leave(c)
          /\ tbl' = [tbl EXCEPT ![slot[c]] = Cleared(tbl[slot[c]])]
          /\ UNCHANGED <<ids, at, tid, pthread, nextThread, tracked, asked>>
      BY <1>0, <1>1 DEF CreateUndo, CallInv, threads
    <2>2. Moves(c) /\ pc'[c] = "idle" /\ LocalType'
      BY <1>0, <2>1, MovesFacts, LeaveType
    <2>3. Cleared(tbl[slot[c]]) \in RecordType /\ ~Cleared(tbl[slot[c]]).used
      BY <1>0, <2>1, ClearedType, RecordFields DEF SharedType
    <2>4. SharedType' /\ NoneNew
      BY <1>0, <2>1, <2>3 DEF SharedType, NoneNew
    <2>5. QED BY <1>0, <2>2, <2>4, CallMoves DEF DeletePcs
  <1>2. ASSUME DeleteRemove(c)
        PROVE  LocalType' /\ SharedType' /\ CallInv' /\ NoneNew
    <2>1. /\ pc[c] = "remove" /\ slot[c] \in Slots /\ arg[c] \in Ids
          /\ Goto(c, "unregister")
          /\ UNCHANGED <<at, tid, pthread, nextThread, tracked, asked>>
          /\ ids' \subseteq ids
      BY <1>0, <1>2 DEF DeleteRemove, CallInv, threads, table, ReleaseId, DeletePcs
    <2>2. \/ tbl' = [tbl EXCEPT ![slot[c]] = Cleared(tbl[slot[c]])]
          \/ tbl' = tbl
      BY <1>2 DEF DeleteRemove, table
    <2>3. Moves(c) /\ pc'[c] = "unregister" /\ arg'[c] = arg[c] /\ LocalType'
      BY <1>0, <2>1, MovesFacts, GotoType DEF AllPcs
    <2>4. Cleared(tbl[slot[c]]) \in RecordType /\ ~Cleared(tbl[slot[c]]).used
      BY <1>0, <2>1, ClearedType, RecordFields DEF SharedType
    <2>5. SharedType' /\ NoneNew
      BY <1>0, <2>1, <2>2, <2>4 DEF SharedType, NoneNew
    <2>6. QED BY <1>0, <2>1, <2>3, <2>5, CallMoves DEF DeletePcs
  <1>3. ASSUME NEW i \in Ids, DeleteFind(c, i)
        PROVE  LocalType' /\ SharedType' /\ CallInv' /\ NoneNew
    <2>1. PICK s \in Slots :
            /\ tbl[s].used /\ Enter(c, "lock", i, s, tbl[s].thr)
            /\ tbl' = [tbl EXCEPT ![s].shut = TRUE]
            /\ asked' = asked \cup {tbl[s].thr}
            /\ UNCHANGED <<ids, at, tid, pthread, nextThread, tracked>>
      BY <1>3 DEF DeleteFind, Found, threads
    <2>2. tbl[s] \in RecordType /\ tbl[s].thr \in Threads /\ tbl[s].thr \in 0..MaxThreads
      BY <1>0, <2>1 DEF UsedInv, SharedType, RecordType
    <2>3. Moves(c) /\ pc'[c] = "lock" /\ arg'[c] = i /\ slot'[c] = s
      BY <1>0, <2>1, MovesFacts
    <2>4. LocalType'
      BY <1>0, <2>1, <2>2, EnterType, TaskAssumption DEF Slots, AllPcs, DeletePcs
    <2>5. tbl' = [tbl EXCEPT ![s] = [tbl[s] EXCEPT !.shut = TRUE]]
      BY <2>1
    <2>6. tbl' \in [Slots -> RecordType]
      BY <1>0, <2>2, <2>5, ShutType DEF SharedType
    <2>7. SharedType'
      BY <1>0, <2>1, <2>2, <2>6 DEF SharedType
    <2>8. NoneNew
      BY <1>0, <2>2, <2>5, RecordFields DEF SharedType, NoneNew
    <2>9. QED BY <1>0, <2>3, <2>4, <2>7, <2>8, CallMoves DEF DeletePcs
  <1>4. LocalType' /\ SharedType' /\ CallInv' /\ NoneNew
    BY <1>1, <1>2, <1>3
  <1>5. QED
    BY <1>0, <1>4, NoneNewInv DEF BaseInv, TypeOK, LocalType, SharedType, AllPcs

\* The thread is joined.
LEMMA BaseJoin ==
  ASSUME BaseInv, NEW c \in Clients, DeleteJoin(c)
  PROVE  BaseInv'
  <1>0. LocalType /\ SharedType /\ CallInv /\ UsedInv /\ NamesInv
    BY TypeParts DEF BaseInv
  <1>1. /\ pc[c] = "join" /\ Goto(c, "remove")
        /\ at' = [h \in Threads |-> IF h \in Joinable(thr[c]) THEN "joined" ELSE at[h]]
        /\ UNCHANGED <<tbl, ids, tid, pthread, nextThread, tracked, asked>>
    BY DEF DeleteJoin, table
  <1>2. /\ Moves(c) /\ pc'[c] = "remove" /\ arg'[c] = arg[c] /\ slot'[c] = slot[c]
        /\ LocalType'
    BY <1>0, <1>1, MovesFacts, GotoType DEF AllPcs, DeletePcs
  <1>3. SharedType'
    BY <1>0, <1>1 DEF SharedType
  <1>4. arg[c] \in Ids /\ slot[c] \in Slots
    BY <1>0, <1>1 DEF CallInv, DeletePcs
  <1>5. CallInv'
    BY <1>0, <1>2, <1>4, CallMoves
  <1>6. UsedInv' /\ NamesInv'
    BY <1>0, <1>1 DEF UsedInv, NamesInv
  <1>7. QED BY <1>2, <1>3, <1>5, <1>6 DEF BaseInv, TypeOK, LocalType, SharedType, AllPcs

\* A thread moves no client but one that is blocked.
LEMMA ThreadWakes ==
  ASSUME BaseInv, NEW h \in Threads, WrapperStep(h) \/ TaskObey(h) \/ TaskReturn(h)
  PROVE  /\ pc' \in [Clients -> AllPcs]
         /\ \A c \in Clients : pc'[c] = pc[c] \/ (pc[c] = "blocked" /\ pc'[c] = "woken")
  <1>0. LocalType
    BY TypeParts DEF BaseInv
  <1>1. CASE UNCHANGED pc
    BY <1>0, <1>1 DEF LocalType
  <1>2. CASE pc' # pc
    <2>1. SignalExit(Found(tid[h]))
      BY <1>2 DEF WrapperStep, TaskStart, TaskMark, TaskEnd, TaskObey, TaskReturn, locals
    <2>2. PICK d \in UNION {Blocked(s) : s \in Found(tid[h])} :
            pc' = [pc EXCEPT ![d] = "woken"]
      BY <1>2, <2>1 DEF SignalExit
    <2>3. d \in Clients /\ pc[d] = "blocked"
      BY DEF Blocked
    <2>4. QED BY <1>0, <2>2, <2>3 DEF LocalType, AllPcs, DeletePcs
  <1>3. QED BY <1>1, <1>2

\* task_wrapper and the entry function write state and exited of the records
\* they find, and wake at most a client that is blocked.
LEMMA BaseThread ==
  ASSUME BaseInv, NEW h \in Threads, WrapperStep(h) \/ TaskObey(h) \/ TaskReturn(h)
  PROVE  BaseInv' /\ NoneNew
  <1>0. LocalType /\ SharedType /\ CallInv /\ UsedInv /\ NamesInv
    BY TypeParts DEF BaseInv
  <1>1. PICK a \in {"running", "returned", "marked", "ended"} : at' = [at EXCEPT ![h] = a]
    BY DEF WrapperStep, TaskStart, TaskMark, TaskEnd, TaskObey, TaskReturn
  <1>2. UNCHANGED <<ids, tid, pthread, nextThread, tracked, arg, slot, thr, asked>>
    BY DEF WrapperStep, TaskStart, TaskMark, TaskEnd, TaskObey, TaskReturn, table, locals
  <1>3. tbl' \in [Slots -> RecordType] /\ NoneNew
    <2>1. CASE TaskStart(h)
      <3>1. \A s \in Slots : [tbl[s] EXCEPT !.state = "RUNNING"] \in RecordType
        BY <1>0 DEF SharedType, RecordType
      <3>2. QED BY <1>0, <2>1, <3>1, RecordFields DEF TaskStart, SharedType, NoneNew
    <2>2. CASE TaskMark(h)
      <3>1. \A q \in RecordType : [q EXCEPT !.state = "TERMINATED"] \in RecordType
        BY DEF RecordType
      <3>2. \A q \in RecordType : [q EXCEPT !.exited = TRUE] \in RecordType
        BY DEF RecordType
      <3>3. \A s \in Slots :
              [[tbl[s] EXCEPT !.state = "TERMINATED"] EXCEPT !.exited = TRUE] \in RecordType
        BY <1>0, <3>1, <3>2 DEF SharedType
      <3>4. QED BY <1>0, <2>2, <3>3, RecordFields DEF TaskMark, SharedType, NoneNew
    <2>3. CASE UNCHANGED tbl
      BY <1>0, <2>3 DEF SharedType, NoneNew
    <2>4. QED
      BY <2>1, <2>2, <2>3 DEF WrapperStep, TaskEnd, TaskObey, TaskReturn, table
  <1>4. SharedType'
    BY <1>0, <1>1, <1>2, <1>3 DEF SharedType
  <1>5. /\ pc' \in [Clients -> AllPcs]
        /\ \A c \in Clients : pc'[c] = pc[c] \/ (pc[c] = "blocked" /\ pc'[c] = "woken")
    BY ThreadWakes
  <1>6. LocalType'
    BY <1>0, <1>2, <1>5 DEF LocalType
  <1>7. CallInv'
    BY <1>0, <1>2, <1>5 DEF CallInv, DeletePcs
  <1>8. QED
    BY <1>0, <1>3, <1>4, <1>6, <1>7, NoneNewInv
       DEF BaseInv, TypeOK, LocalType, SharedType, AllPcs

LEMMA BaseStep == BaseInv /\ [Next]_vars => BaseInv'
  <1> SUFFICES ASSUME BaseInv, [Next]_vars PROVE BaseInv'
    OBVIOUS
  <1>1. ASSUME NEW c \in Clients, Call(c) \/ Step(c) \/ DeleteExpire(c) \/ SpuriousWake(c)
        PROVE  BaseInv'
    <2>1. CASE \/ \E n \in Names : CreateFind(c, n)
               \/ CreateFail(c) \/ Register(c) \/ DeleteExpire(c) \/ Unregister(c)
               \/ DeleteWait(c) \/ SpuriousWake(c)
      <3>1. Quiet
        BY <2>1 DEF CreateFind, CreateFail, Register, DeleteExpire, Unregister,
                    DeleteWait, SpuriousWake, Quiet, table, threads
      <3>2. QED BY <2>1, <3>1, BaseQuiet
    <2>2. CASE CreateFill(c)
      BY <2>2, BaseFill
    <2>3. CASE CreateUndo(c) \/ DeleteRemove(c) \/ \E i \in Ids : DeleteFind(c, i)
      BY <2>3, BaseClear
    <2>4. CASE DeleteJoin(c)
      BY <2>4, BaseJoin
    <2>5. QED BY <1>1, <2>1, <2>2, <2>3, <2>4 DEF Call, Step
  <1>2. ASSUME NEW h \in Threads, WrapperStep(h) \/ TaskObey(h) \/ TaskReturn(h)
        PROVE  BaseInv'
    BY <1>2, BaseThread
  <1>3. CASE UNCHANGED vars
    BY <1>3 DEF vars, BaseInv, TypeOK, CallInv, UsedInv, NamesInv
  <1>4. QED BY <1>1, <1>2, <1>3 DEF Next

\* The types hold, and every call has its argument, however many create and
\* however often one task is deleted.
THEOREM TaskTypes == Spec => []BaseInv
  <1>1. Init => BaseInv
    <2>1. Init => TypeOK
      BY InitInv DEF TaskInv
    <2>2. Init => CallInv /\ UsedInv /\ NamesInv
      BY DEF Init, CallInv, UsedInv, NamesInv, DeletePcs
    <2>3. QED BY <2>1, <2>2 DEF BaseInv
  <1>2. QED BY <1>1, BaseStep, PTL DEF Spec

\* No two tasks share a name: not even when another creator has filled the slot
\* that a call found, as the name is compared where the slot is filled.
THEOREM TaskNames == Spec => []UniqueNames
  <1>1. BaseInv => UniqueNames
    <2> SUFFICES ASSUME BaseInv, NEW n \in Names
                 PROVE  Cardinality(GetIdByName(n)) <= 1
      BY DEF UniqueNames
    <2>1. \A i, j \in GetIdByName(n) : i = j
      BY DEF BaseInv, NamesInv, GetIdByName
    <2>2. QED BY <2>1, AtMostOne
  <1>2. QED BY <1>1, TaskTypes, PTL

-----------------------------------------------------------------------------
(* The ids, for one creator: a deletion that comes late removes a record   *)
(* only if the slot holds the id, and then its id goes with it.            *)

\* The slot noted by OSAL_TaskCreate is free until it is filled.
CreatorInv ==
  \A c \in Clients : pc[c] = "create" => c \in Creators /\ ~tbl[slot[c]].used

\* The ids in use are those of the records in use, and no two have the same.
BitmapInv ==
  /\ \A i \in ids : \E s \in Slots : tbl[s].used /\ tbl[s].id = i
  /\ \A s \in Slots : tbl[s].used => tbl[s].id \in ids
  /\ \A r, s \in Slots : tbl[r].used /\ tbl[s].used /\ r # s => tbl[r].id # tbl[s].id

IdsInv == CreatorInv /\ BitmapInv

\* Every record stays in use or out of use, and keeps its id.
SameUse ==
  /\ \A s \in Slots : tbl'[s].used = tbl[s].used /\ tbl'[s].id = tbl[s].id
  /\ ids' = ids

LEMMA SameUseIds ==
  ASSUME BaseInv, IdsInv, SameUse,
         \A c \in Clients : pc'[c] = "create" =>
           \/ pc[c] = "create" /\ slot'[c] = slot[c]
           \/ c \in Creators /\ slot'[c] \in Slots /\ ~tbl[slot'[c]].used
  PROVE  IdsInv'
  <1>1. CreatorInv'
    <2> SUFFICES ASSUME NEW c \in Clients, pc'[c] = "create"
                 PROVE  c \in Creators /\ ~tbl'[slot'[c]].used
      BY DEF CreatorInv
    <2>1. c \in Creators /\ slot'[c] \in Slots /\ ~tbl[slot'[c]].used
      BY DEF IdsInv, CreatorInv, BaseInv, CallInv
    <2>2. QED BY <2>1 DEF SameUse
  <1>2. BitmapInv'
    BY DEF IdsInv, BitmapInv, SameUse
  <1>3. QED BY <1>1, <1>2 DEF IdsInv

\* Steps of a client that keep the records.
LEMMA IdsClient ==
  ASSUME BaseInv, IdsInv, NEW c \in Clients,
         \/ Call(c) \/ CreateFail(c) \/ Register(c) \/ DeleteWait(c) \/ DeleteJoin(c)
         \/ Unregister(c) \/ DeleteExpire(c) \/ SpuriousWake(c)
  PROVE  IdsInv'
  <1>0. LocalType /\ SharedType
    BY TypeParts DEF BaseInv
  <1>1. ASSUME NEW n \in Names, CreateFind(c, n) PROVE IdsInv'
    <2>1. PICK s \in Slots : ~tbl[s].used /\ Enter(c, "create", n, s, 0)
      BY <1>1 DEF CreateFind, FirstFree
    <2>2. c \in Creators /\ Moves(c) /\ slot'[c] = s /\ tbl' = tbl /\ ids' = ids
      BY <1>0, <1>1, <2>1, MovesFacts DEF CreateFind, table
    <2>3. SameUse
      BY <2>2 DEF SameUse
    <2>4. QED BY <2>1, <2>2, <2>3, SameUseIds DEF Moves
  <1>2. ASSUME NEW i \in Ids, DeleteFind(c, i) PROVE IdsInv'
    <2>1. PICK s \in Slots :
            /\ Enter(c, "lock", i, s, tbl[s].thr)
            /\ tbl' = [tbl EXCEPT ![s].shut = TRUE] /\ ids' = ids
      BY <1>2 DEF DeleteFind, Found
    <2>2. tbl' = [tbl EXCEPT ![s] = [tbl[s] EXCEPT !.shut = TRUE]]
      BY <2>1
    <2>3. SameUse
      BY <1>0, <2>1, <2>2, RecordFields DEF SharedType, SameUse
    <2>4. Moves(c) /\ pc'[c] = "lock"
      BY <1>0, <2>1, MovesFacts
    <2>5. QED BY <2>3, <2>4, SameUseIds DEF Moves
  <1>3. ASSUME \/ CreateFail(c) \/ Register(c) \/ DeleteWait(c) \/ DeleteJoin(c)
               \/ Unregister(c) \/ DeleteExpire(c) \/ SpuriousWake(c)
        PROVE  IdsInv'
    <2>1. SameUse
      BY <1>3 DEF CreateFail, Register, DeleteWait, DeleteJoin, Unregister, DeleteExpire,
                  SpuriousWake, table, SameUse
    <2>2. Leave(c) \/ \E p \in {"join", "blocked", "woken", "remove"} : Goto(c, p)
      BY <1>3 DEF CreateFail, Register, DeleteWait, DeleteJoin, Unregister, DeleteExpire,
                  SpuriousWake
    <2>3. Moves(c) /\ pc'[c] # "create"
      BY <1>0, <2>2, MovesFacts DEF AllPcs, DeletePcs
    <2>4. QED BY <2>1, <2>3, SameUseIds DEF Moves
  <1>4. QED BY <1>1, <1>2, <1>3 DEF Call

\* The free slot is filled, with an id that was free.
LEMMA IdsFill ==
  ASSUME SoleCreator, BaseInv, IdsInv, NEW c \in Clients, CreateFill(c)
  PROVE  IdsInv'
  <1>0. LocalType /\ SharedType /\ CreatorInv /\ BitmapInv
    BY TypeParts DEF BaseInv, IdsInv
  <1>1. PICK i \in Ids \ ids :
          /\ ids' = ids \cup {i}
          /\ tbl' = [tbl EXCEPT ![slot[c]] =
                       NewRecord(tbl[slot[c]], i, arg[c], nextThread)]
    BY DEF CreateFill, Allocate
  <1>2. PICK S \in Slots : S = slot[c] /\ ~tbl[S].used /\ c \in Creators
    BY <1>0 DEF CreateFill, CreatorInv, BaseInv, CallInv
  <1>3. /\ tbl'[S].used /\ tbl'[S].id = i
        /\ \A s \in Slots \ {S} : tbl'[s] = tbl[s]
    BY <1>0, <1>1, <1>2 DEF SharedType, NewRecord
  <1>4. CreatorInv'
    <2>1. \A d \in Clients : pc'[d] # "create"
      <3>1. pc' = [pc EXCEPT ![c] = "register"]
        BY DEF CreateFill
      <3>2. QED BY <1>0, <1>2, <3>1 DEF CreatorInv, SoleCreator, LocalType
    <2>2. QED BY <2>1 DEF CreatorInv
  <1>5. BitmapInv'
    BY <1>0, <1>1, <1>2, <1>3 DEF BitmapInv
  <1>6. QED BY <1>4, <1>5 DEF IdsInv

\* The free slot is given back.
LEMMA IdsUndo ==
  ASSUME BaseInv, IdsInv, NEW c \in Clients, CreateUndo(c)
  PROVE  IdsInv'
  <1>0. LocalType /\ SharedType /\ CreatorInv /\ BitmapInv
    BY TypeParts DEF BaseInv, IdsInv
  <1>1. PICK S \in Slots : S = slot[c] /\ ~tbl[S].used
    BY <1>0 DEF CreateUndo, CreatorInv, BaseInv, CallInv
  <1>2. /\ tbl' = [tbl EXCEPT ![S] = Cleared(tbl[S])] /\ ids' = ids
        /\ Moves(c) /\ pc'[c] = "idle"
    BY <1>0, <1>1, MovesFacts DEF CreateUndo
  <1>3. Cleared(tbl[S]).used = tbl[S].used /\ Cleared(tbl[S]).id = tbl[S].id
    <2>1. \A r \in RecordType :
            [r EXCEPT !.used = FALSE].id = r.id /\ [r EXCEPT !.used = FALSE] \in RecordType
      BY DEF RecordType
    <2>2. \A r \in RecordType : [r EXCEPT !.sync = "dead"].id = r.id
      BY DEF RecordType
    <2>3. tbl[S] \in RecordType
      BY <1>0 DEF SharedType
    <2>4. Cleared(tbl[S]).id = tbl[S].id
      BY <2>1, <2>2, <2>3 DEF Cleared
    <2>5. ~Cleared(tbl[S]).used /\ Cleared(tbl[S]) \in RecordType
      BY <2>3, RecordFields, ClearedType
    <2>6. Cleared(tbl[S]).used = FALSE /\ tbl[S].used = FALSE
      BY <1>1, <2>3, <2>5 DEF RecordType
    <2>7. QED BY <2>4, <2>6
  <1>4. SameUse
    BY <1>0, <1>1, <1>2, <1>3 DEF SameUse, SharedType
  <1>5. QED BY <1>2, <1>4, SameUseIds DEF Moves

\* A record goes with its id, whoever it belongs to by now.
LEMMA IdsRemove ==
  ASSUME BaseInv, IdsInv, NEW c \in Clients, DeleteRemove(c)
  PROVE  IdsInv'
  <1>0. LocalType /\ SharedType /\ CreatorInv /\ BitmapInv
    BY TypeParts DEF BaseInv, IdsInv
  <1>1. Moves(c) /\ pc'[c] = "unregister"
    BY <1>0, MovesFacts DEF DeleteRemove, AllPcs
  <1>2. CASE UNCHANGED table
    <2>1. SameUse
      BY <1>2 DEF SameUse, table
    <2>2. QED BY <1>1, <2>1, SameUseIds DEF Moves
  <1>3. CASE slot[c] \in Found(arg[c])
    <2>1. PICK S \in Slots :
            /\ S = slot[c] /\ tbl[S].used /\ tbl[S].id = arg[c]
            /\ tbl' = [tbl EXCEPT ![S] = Cleared(tbl[S])] /\ ids' = ids \ {arg[c]}
      BY <1>3 DEF DeleteRemove, Found, ReleaseId
    <2>2. ~tbl'[S].used /\ \A s \in Slots \ {S} : tbl'[s] = tbl[s]
      BY <1>0, <2>1, RecordFields DEF SharedType
    <2>3. BitmapInv'
      BY <1>0, <2>1, <2>2 DEF BitmapInv
    <2>4. CreatorInv'
      <3> SUFFICES ASSUME NEW d \in Clients, pc'[d] = "create"
                   PROVE  d \in Creators /\ ~tbl'[slot'[d]].used
        BY DEF CreatorInv
      <3>1. pc[d] = "create" /\ slot'[d] = slot[d]
        BY <1>1 DEF Moves
      <3>2. d \in Creators /\ slot[d] \in Slots /\ ~tbl[slot[d]].used
        BY <1>0, <3>1 DEF CreatorInv, BaseInv, CallInv
      <3>3. QED BY <2>2, <3>1, <3>2
    <2>5. QED BY <2>3, <2>4 DEF IdsInv
  <1>4. QED BY <1>2, <1>3 DEF DeleteRemove

\* task_wrapper writes neither is_used nor id.
LEMMA IdsThread ==
  ASSUME BaseInv, IdsInv, NEW h \in Threads,
         WrapperStep(h) \/ TaskObey(h) \/ TaskReturn(h)
  PROVE  IdsInv'
  <1>0. tbl \in [Slots -> RecordType]
    BY DEF BaseInv, TypeOK
  <1>1. SameUse
    <2>1. CASE TaskStart(h)
      BY <1>0, <2>1, RecordFields DEF TaskStart, SameUse
    <2>2. CASE TaskMark(h)
      BY <1>0, <2>2, RecordFields DEF TaskMark, SameUse
    <2>3. CASE TaskEnd(h) \/ TaskObey(h) \/ TaskReturn(h)
      BY <2>3 DEF TaskEnd, TaskObey, TaskReturn, table, SameUse
    <2>4. QED BY <2>1, <2>2, <2>3 DEF WrapperStep
  <1>2. ASSUME NEW c \in Clients, pc'[c] = "create"
        PROVE  pc[c] = "create" /\ slot'[c] = slot[c]
    <2>1. slot' = slot
      BY DEF WrapperStep, TaskStart, TaskMark, TaskEnd, TaskObey, TaskReturn, locals
    <2>2. QED BY <1>2, <2>1, ThreadWakes
  <1>3. QED BY <1>1, <1>2, SameUseIds

LEMMA IdsStep ==
  ASSUME SoleCreator
  PROVE  BaseInv /\ IdsInv /\ [Next]_vars => IdsInv'
  <1> SUFFICES ASSUME BaseInv, IdsInv, [Next]_vars PROVE IdsInv'
    OBVIOUS
  <1>1. ASSUME NEW c \in Clients, Call(c) \/ Step(c) \/ DeleteExpire(c) \/ SpuriousWake(c)
        PROVE  IdsInv'
    BY <1>1, IdsClient, IdsFill, IdsUndo, IdsRemove DEF Step
  <1>2. ASSUME NEW h \in Threads, WrapperStep(h) \/ TaskObey(h) \/ TaskReturn(h)
        PROVE  IdsInv'
    BY <1>2, IdsThread
  <1>3. CASE UNCHANGED vars
    BY <1>3 DEF vars, IdsInv, CreatorInv, BitmapInv
  <1>4. QED BY <1>1, <1>2, <1>3 DEF Next

\* The bit map holds exactly the ids in the table, each once, even if one task is
\* deleted by several at a time.
THEOREM TaskIds ==
  ASSUME SoleCreator
  PROVE  Spec => []IdsExact
  <1>1. Init => IdsInv
    BY DEF Init, IdsInv, CreatorInv, BitmapInv
  <1>2. IdsInv => IdsExact
    <2> SUFFICES ASSUME IdsInv PROVE IdsExact
      OBVIOUS
    <2>1. ids = {tbl[s].id : s \in {r \in Slots : tbl[r].used}}
      BY DEF IdsInv, BitmapInv
    <2>2. ASSUME NEW i \in Ids PROVE Cardinality(Found(i)) <= 1
      <3>1. \A r, s \in Found(i) : r = s
        BY DEF IdsInv, BitmapInv, Found
      <3>2. QED BY <3>1, AtMostOne
    <2>3. QED BY <2>1, <2>2 DEF IdsExact
  <1>3. QED BY <1>1, <1>2, IdsStep, TaskTypes, PTL DEF Spec

-----------------------------------------------------------------------------
(* What a deletion waits for, and what a thread knows of itself, for any   *)
(* callers.                                                                *)

\* The thread of a record was started, and given the id of the record.
BornInv ==
  /\ \A h \in Threads : h < nextThread => at[h] # "none"
  /\ \A s \in Slots : tbl[s].used =>
       tbl[s].thr < nextThread /\ tid[tbl[s].thr] = tbl[s].id
  /\ \A c \in Clients : pc[c] \in DeletePcs \cup {"unregister"} =>
       thr[c] \in Threads /\ thr[c] < nextThread

JoinedInv == BornInv /\ DeletedEnded

\* A step that makes no record and takes no thread back from the joined.
LEMMA JoinedKept ==
  ASSUME BaseInv, JoinedInv, NoneNew, UNCHANGED <<tid, nextThread>>,
         \A h \in Threads : /\ at[h] = "joined" => at'[h] = "joined"
                            /\ at[h] # "none" => at'[h] # "none",
         \A c \in Clients :
           /\ pc'[c] \in DeletePcs \cup {"unregister"} =>
                \/ pc[c] \in DeletePcs \cup {"unregister"} /\ thr'[c] = thr[c]
                \/ \E s \in Slots : tbl[s].used /\ thr'[c] = tbl[s].thr
           /\ pc'[c] \in {"remove", "unregister"} =>
                \/ pc[c] \in {"remove", "unregister"} /\ thr'[c] = thr[c]
                \/ at'[thr'[c]] = "joined"
  PROVE  JoinedInv'
  <1>0. \A h \in Threads : at[h] = "joined" => at'[h] = "joined"
    OBVIOUS
  <1>1. BornInv'
    <2>1. \A h \in Threads : h < nextThread' => at'[h] # "none"
      BY DEF JoinedInv, BornInv
    <2>2. \A s \in Slots : tbl'[s].used =>
            tbl'[s].thr < nextThread' /\ tid'[tbl'[s].thr] = tbl'[s].id
      BY DEF JoinedInv, BornInv, NoneNew
    <2>3. \A c \in Clients : pc'[c] \in DeletePcs \cup {"unregister"} =>
            thr'[c] \in Threads /\ thr'[c] < nextThread'
      BY DEF JoinedInv, BornInv, BaseInv, UsedInv
    <2>4. QED BY <2>1, <2>2, <2>3 DEF BornInv
  <1>2. DeletedEnded'
    <2> SUFFICES ASSUME NEW c \in Clients, pc'[c] \in {"remove", "unregister"}
                 PROVE  at'[thr'[c]] = "joined"
      BY DEF DeletedEnded
    <2>1. CASE at'[thr'[c]] = "joined"
      BY <2>1
    <2>2. CASE pc[c] \in {"remove", "unregister"} /\ thr'[c] = thr[c]
      <3>1. thr[c] \in Threads /\ at[thr[c]] = "joined"
        BY <2>2 DEF JoinedInv, BornInv, DeletedEnded, DeletePcs
      <3>2. QED BY <1>0, <2>2, <3>1
    <2>3. QED BY <2>1, <2>2
  <1>3. QED BY <1>1, <1>2 DEF JoinedInv

\* Steps of a client other than the one that starts a thread.
LEMMA JoinedClient ==
  ASSUME BaseInv, JoinedInv, NEW c \in Clients,
         Call(c) \/ Step(c) \/ DeleteExpire(c) \/ SpuriousWake(c), ~CreateFill(c)
  PROVE  JoinedInv'
  <1>0. LocalType /\ SharedType
    BY TypeParts DEF BaseInv
  <1>1. CASE CreateUndo(c) \/ DeleteRemove(c) \/ \E i \in Ids : DeleteFind(c, i)
    <2>1. NoneNew /\ UNCHANGED <<at, tid, nextThread>>
      BY <1>1, BaseClear DEF CreateUndo, DeleteRemove, DeleteFind, threads
    <2>2. CASE CreateUndo(c)
      <3>1. Moves(c) /\ pc'[c] = "idle"
        BY <1>0, <2>2, MovesFacts DEF CreateUndo
      <3>2. QED BY <2>1, <3>1, JoinedKept DEF Moves, DeletePcs
    <2>3. CASE DeleteRemove(c)
      <3>1. /\ Moves(c) /\ pc[c] = "remove" /\ pc'[c] = "unregister"
            /\ thr'[c] = thr[c]
        BY <1>0, <2>3, MovesFacts DEF DeleteRemove, AllPcs
      <3>2. QED BY <2>1, <3>1, JoinedKept DEF Moves, DeletePcs
    <2>4. ASSUME NEW i \in Ids, DeleteFind(c, i) PROVE JoinedInv'
      <3>1. PICK s \in Slots : tbl[s].used /\ Enter(c, "lock", i, s, tbl[s].thr)
        BY <2>4 DEF DeleteFind, Found
      <3>2. Moves(c) /\ pc'[c] = "lock" /\ thr'[c] = tbl[s].thr
        BY <1>0, <3>1, MovesFacts
      <3>3. QED BY <2>1, <3>1, <3>2, JoinedKept DEF Moves, DeletePcs
    <2>5. QED BY <1>1, <2>2, <2>3, <2>4
  <1>2. CASE DeleteJoin(c)
    <2>1. /\ pc[c] = "join" /\ Goto(c, "remove")
          /\ \A g \in Joinable(thr[c]) : at[g] = "ended"
          /\ at' = [h \in Threads |-> IF h \in Joinable(thr[c]) THEN "joined" ELSE at[h]]
          /\ UNCHANGED <<tbl, tid, nextThread>>
      BY <1>2 DEF DeleteJoin, table
    <2>2. Moves(c) /\ pc'[c] = "remove" /\ thr'[c] = thr[c]
      BY <1>0, <2>1, MovesFacts DEF AllPcs, DeletePcs
    <2>3. thr[c] \in Threads /\ at[thr[c]] # "none"
      BY <2>1 DEF JoinedInv, BornInv, DeletePcs
    <2>4. /\ at'[thr[c]] = "joined"
          /\ \A h \in Threads : /\ at[h] = "joined" => at'[h] = "joined"
                                /\ at[h] # "none" => at'[h] # "none"
      <3>1. thr[c] \in Joinable(thr[c]) \/ at[thr[c]] = "joined"
        BY <1>0, <2>3 DEF SharedType, Joinable, Unjoined
      <3>2. QED BY <2>1, <2>3, <3>1
    <2>5. NoneNew
      BY <2>1 DEF NoneNew
    <2>6. QED BY <2>1, <2>2, <2>4, <2>5, JoinedKept DEF Moves, DeletePcs
  <1>3. CASE \/ \E n \in Names : CreateFind(c, n)
             \/ CreateFail(c) \/ Register(c) \/ DeleteExpire(c) \/ Unregister(c)
             \/ DeleteWait(c) \/ SpuriousWake(c)
    <2>1. UNCHANGED <<tbl, at, tid, nextThread>>
      BY <1>3 DEF CreateFind, CreateFail, Register, DeleteExpire, Unregister,
                  DeleteWait, SpuriousWake, table, threads
    <2>2. /\ Moves(c)
          /\ \/ pc'[c] \in {"create", "idle"}
             \/ pc[c] \in DeletePcs /\ pc'[c] \in {"join", "blocked", "woken"}
                /\ thr'[c] = thr[c]
      <3>1. ASSUME NEW n \in Names, CreateFind(c, n) PROVE Moves(c) /\ pc'[c] = "create"
        BY <1>0, <3>1, MovesFacts DEF CreateFind
      <3>2. ASSUME CreateFail(c) \/ Register(c) \/ DeleteExpire(c) \/ Unregister(c)
            PROVE  Moves(c) /\ pc'[c] = "idle"
        BY <1>0, <3>2, MovesFacts DEF CreateFail, Register, DeleteExpire, Unregister
      <3>3. ASSUME DeleteWait(c) \/ SpuriousWake(c)
            PROVE  /\ Moves(c) /\ pc[c] \in DeletePcs
                   /\ pc'[c] \in {"join", "blocked", "woken"} /\ thr'[c] = thr[c]
        <4>1. PICK p \in {"join", "blocked", "woken"} :
                Goto(c, p) /\ pc[c] \in {"lock", "woken", "blocked"}
          BY <3>3 DEF DeleteWait, SpuriousWake
        <4>2. QED BY <1>0, <4>1, MovesFacts DEF AllPcs, DeletePcs
      <3>4. QED BY <1>3, <3>1, <3>2, <3>3
    <2>3. NoneNew
      BY <2>1 DEF NoneNew
    <2>4. QED BY <2>1, <2>2, <2>3, JoinedKept DEF Moves, DeletePcs
  <1>4. QED BY <1>1, <1>2, <1>3 DEF Call, Step

\* A thread is started: it is none that was there.
LEMMA JoinedFill ==
  ASSUME BaseInv, JoinedInv, NEW c \in Clients, CreateFill(c)
  PROVE  JoinedInv'
  <1>0. LocalType /\ SharedType
    BY TypeParts DEF BaseInv
  <1> DEFINE H == nextThread
  <1>1. PICK i \in Ids :
          /\ tbl' = [tbl EXCEPT ![slot[c]] = NewRecord(tbl[slot[c]], i, arg[c], H)]
          /\ tid' = [tid EXCEPT ![H] = i]
    BY DEF CreateFill
  <1>2. /\ slot[c] \in Slots /\ H \in Threads /\ nextThread' = H + 1
        /\ at' = [at EXCEPT ![H] = "starting"]
        /\ pc' = [pc EXCEPT ![c] = "register"] /\ thr' = thr
    BY <1>0, TaskAssumption DEF CreateFill, BaseInv, CallInv, SharedType, Threads
  <1>3. /\ tbl'[slot[c]].used /\ tbl'[slot[c]].thr = H /\ tbl'[slot[c]].id = i
        /\ \A s \in Slots \ {slot[c]} : tbl'[s] = tbl[s]
    BY <1>0, <1>1, <1>2 DEF SharedType, NewRecord
  <1>4. ASSUME NEW h \in Threads, h < H
        PROVE  tid'[h] = tid[h] /\ at'[h] = at[h] /\ h < nextThread'
    BY <1>0, <1>1, <1>2, <1>4 DEF SharedType, Threads
  <1>5. tid'[H] = i /\ H < nextThread'
    BY <1>0, <1>1, <1>2 DEF SharedType, Threads
  <1>6. ASSUME NEW s \in Slots, tbl'[s].used
        PROVE  tbl'[s].thr < nextThread' /\ tid'[tbl'[s].thr] = tbl'[s].id
    <2>1. CASE s = slot[c]
      BY <1>3, <1>5, <2>1
    <2>2. CASE s # slot[c]
      BY <1>3, <1>4, <1>6, <2>2 DEF JoinedInv, BornInv, BaseInv, UsedInv
    <2>3. QED BY <2>1, <2>2
  <1>7. \A d \in Clients : pc'[d] = pc[d] \/ pc'[d] = "register"
    BY <1>0, <1>2 DEF LocalType
  <1>8. BornInv'
    <2>1. \A h \in Threads : h < nextThread' => at'[h] # "none"
      BY <1>0, <1>2, <1>4 DEF JoinedInv, BornInv, SharedType, Threads
    <2>2. QED BY <1>2, <1>4, <1>6, <1>7, <2>1 DEF JoinedInv, BornInv, DeletePcs
  <1>9. DeletedEnded'
    BY <1>2, <1>4, <1>7 DEF JoinedInv, BornInv, DeletedEnded, DeletePcs
  <1>10. QED BY <1>8, <1>9 DEF JoinedInv

LEMMA JoinedStep == BaseInv /\ JoinedInv /\ [Next]_vars => JoinedInv'
  <1> SUFFICES ASSUME BaseInv, JoinedInv, [Next]_vars PROVE JoinedInv'
    OBVIOUS
  <1>1. ASSUME NEW c \in Clients, Call(c) \/ Step(c) \/ DeleteExpire(c) \/ SpuriousWake(c)
        PROVE  JoinedInv'
    BY <1>1, JoinedClient, JoinedFill
  <1>2. ASSUME NEW h \in Threads, WrapperStep(h) \/ TaskObey(h) \/ TaskReturn(h)
        PROVE  JoinedInv'
    <2>1. NoneNew
      BY <1>2, BaseThread
    <2>2. UNCHANGED <<tid, nextThread, thr>>
      BY <1>2 DEF WrapperStep, TaskStart, TaskMark, TaskEnd, TaskObey, TaskReturn, locals
    <2>3. \A g \in Threads : /\ at[g] = "joined" => at'[g] = "joined"
                             /\ at[g] # "none" => at'[g] # "none"
      BY <1>2 DEF WrapperStep, TaskStart, TaskMark, TaskEnd, TaskObey, TaskReturn,
                  BaseInv, TypeOK
    <2>4. \A c \in Clients : pc'[c] = pc[c] \/ (pc[c] = "blocked" /\ pc'[c] = "woken")
      BY <1>2, ThreadWakes
    <2>5. QED BY <2>1, <2>2, <2>3, <2>4, JoinedKept DEF DeletePcs
  <1>3. CASE UNCHANGED vars
    BY <1>3 DEF vars, JoinedInv, BornInv, DeletedEnded
  <1>4. QED BY <1>1, <1>2, <1>3 DEF Next

LEMMA JoinedAlways == Spec => [](BaseInv /\ JoinedInv)
  <1>1. Init => JoinedInv
    BY TaskAssumption DEF Init, JoinedInv, BornInv, DeletedEnded, DeletePcs, Threads
  <1>2. QED BY <1>1, JoinedStep, TaskTypes, PTL DEF Spec

\* Whoever else creates or deletes, OSAL_TaskDelete gives no record back and does
\* not succeed before the thread that it found has terminated.
THEOREM TaskDeleteWaits == Spec => []DeletedEnded
  <1>1. JoinedInv => DeletedEnded
    BY DEF JoinedInv
  <1>2. QED BY <1>1, JoinedAlways, PTL

LEMMA PthreadAlways == Spec => []PthreadInv
  <1>1. Init => PthreadInv
    BY InitInv DEF TaskInv
  <1>2. BaseInv /\ PthreadInv /\ [Next]_vars => PthreadInv'
    BY PthreadStep DEF BaseInv
  <1>3. QED BY <1>1, <1>2, TaskTypes, PTL DEF Spec

\* A thread that asks for its id, even one that has lost its record, is answered its
\* own or that of a joined thread whose pthread_t it was given, and no other's.
THEOREM TaskOwnId == Spec => []OwnIdOnly
  <1>1. BaseInv /\ JoinedInv /\ PthreadInv => OwnIdOnly
    <2> SUFFICES ASSUME BaseInv, JoinedInv, PthreadInv,
                        NEW h \in Threads, Unjoined(h), NEW s \in FirstMine(h)
                 PROVE  \/ tbl[s].id = tid[h]
                        \/ \E g \in Threads : /\ tbl[s].id = tid[g] /\ at[g] = "joined"
                                             /\ pthread[g] = pthread[h]
      BY DEF OwnIdOnly, GetId
    <2>1. PICK g \in Threads : g = tbl[s].thr
      BY DEF FirstMine, Mine, BaseInv, UsedInv
    <2>2. s \in Slots /\ tbl[s].used /\ pthread[g] = pthread[h]
      BY <2>1 DEF FirstMine, Mine
    <2>3. tbl[s].id = tid[g] /\ at[g] # "none"
      BY <2>1, <2>2 DEF JoinedInv, BornInv
    <2>4. CASE g = h
      BY <2>3, <2>4
    <2>5. CASE g # h
      <3>1. ~Unjoined(g)
        BY <2>2, <2>5 DEF PthreadInv
      <3>2. at[g] = "joined"
        BY <2>3, <3>1 DEF BaseInv, TypeOK, Unjoined
      <3>3. QED BY <2>2, <2>3, <3>2
    <2>6. QED BY <2>4, <2>5
  <1>2. QED BY <1>1, JoinedAlways, PthreadAlways, PTL

-----------------------------------------------------------------------------
(* The refinement of TaskService, for one creator and exclusive deletes.   *)

\* What a task is to its callers stays as long as its record does.
LEMMA ListedSame ==
  ASSUME \A s \in Slots :
           /\ tbl'[s].used <=> tbl[s].used
           /\ tbl[s].used => /\ tbl'[s].id = tbl[s].id /\ tbl'[s].name = tbl[s].name
                             /\ tbl'[s].thr = tbl[s].thr
  PROVE  Listed' = Listed
  BY DEF Listed

\* Neither state nor exited is part of it.
LEMMA ListedMarked ==
  ASSUME tbl \in [Slots -> RecordType],
         \A s \in Slots :
           \/ tbl'[s] = tbl[s]
           \/ tbl'[s] = [tbl[s] EXCEPT !.state = "RUNNING"]
           \/ tbl'[s] = [[tbl[s] EXCEPT !.state = "TERMINATED"] EXCEPT !.exited = TRUE]
  PROVE  Listed' = Listed
  <1>1. ASSUME NEW r \in RecordType,
               NEW q \in {[r EXCEPT !.state = "RUNNING"],
                          [[r EXCEPT !.state = "TERMINATED"] EXCEPT !.exited = TRUE]}
        PROVE  q.used = r.used /\ q.id = r.id /\ q.name = r.name /\ q.thr = r.thr
    <2>1. CASE q = [r EXCEPT !.state = "RUNNING"]
      BY <2>1, RecordFields
    <2>2. CASE q = [[r EXCEPT !.state = "TERMINATED"] EXCEPT !.exited = TRUE]
      BY <2>2, RecordFields
    <2>3. QED BY <2>1, <2>2
  <1>2. ASSUME NEW s \in Slots
        PROVE  /\ tbl'[s].used = tbl[s].used /\ tbl'[s].id = tbl[s].id
               /\ tbl'[s].name = tbl[s].name /\ tbl'[s].thr = tbl[s].thr
    BY <1>1
  <1>3. QED BY <1>2, ListedSame

LEMMA LifeSame == at' = at => Life' = Life
  BY DEF Life

\* A new task.
LEMMA FillStarts ==
  ASSUME TaskInv, NEW c \in Clients, CreateFill(c)
  PROVE  Service!ServiceNext
  <1>0. RecordInv /\ CoverInv /\ tbl \in [Slots -> RecordType] /\ TypeOK
    BY DEF TaskInv, TypeOK
  <1> DEFINE H == nextThread
             n == arg[c]
  <1>1. PICK i \in Ids \ ids :
          /\ slot[c] \in Slots /\ ~tbl[slot[c]].used /\ n \in Names
          /\ H \in Threads
          /\ tbl'[slot[c]] = NewRecord(tbl[slot[c]], i, n, H)
          /\ \A s \in Slots \ {slot[c]} : tbl'[s] = tbl[s]
          /\ at' = [at EXCEPT ![H] = "starting"]
    BY FillFacts
  <1>2. PICK S \in Slots : S = slot[c]
    BY <1>1
  <1>3. /\ tbl'[S].used /\ tbl'[S].id = i /\ tbl'[S].name = n /\ tbl'[S].thr = H
    BY <1>1, <1>2 DEF NewRecord
  <1>4. Listed' = Listed \cup {[id |-> i, name |-> n, thr |-> H]}
    <2>1. ASSUME NEW r \in Listed' PROVE r \in Listed \/ r = [id |-> i, name |-> n, thr |-> H]
      BY <1>1, <1>2, <1>3 DEF Listed
    <2>2. [id |-> i, name |-> n, thr |-> H] \in Listed'
      BY <1>3 DEF Listed
    <2>3. ASSUME NEW r \in Listed PROVE r \in Listed'
      <3>1. PICK s \in Slots :
              tbl[s].used /\ r = [id |-> tbl[s].id, name |-> tbl[s].name, thr |-> tbl[s].thr]
        BY <2>3 DEF Listed
      <3>2. tbl'[s] = tbl[s]
        BY <1>1, <3>1
      <3>3. QED BY <3>1, <3>2 DEF Listed
    <2>4. QED BY <2>1, <2>2, <2>3
  <1>5. \A r \in Listed : r.id # i /\ r.name # n
    <2>1. ~NameTaken(n)
      BY DEF CreateFill
    <2>2. QED BY <1>0, <1>1, <2>1 DEF Listed, NameTaken, RecordInv
  <1>6. at[H] = "none" /\ Life[H] = "new"
    BY <1>0, <1>1, TaskAssumption DEF CoverInv, Life, Threads
  <1>7. Life' = [Life EXCEPT ![H] = "running"]
    <2>1. \A h \in Threads : at'[h] = IF h = H THEN "starting" ELSE at[h]
      BY <1>0, <1>1 DEF TypeOK
    <2>2. PICK K \in Threads : K = H
      BY <1>1
    <2>3. Life' = [h \in Threads |-> IF h = K THEN "running" ELSE Life[h]]
      <3>1. Life' = [h \in Threads |-> CASE at'[h] = "none" -> "new"
                                         [] at'[h] \in {"ended", "joined"} -> "ended"
                                         [] OTHER -> "running"]
        BY DEF Life
      <3>2. ASSUME NEW h \in Threads
            PROVE  (CASE at'[h] = "none" -> "new"
                      [] at'[h] \in {"ended", "joined"} -> "ended"
                      [] OTHER -> "running")
                   = IF h = K THEN "running" ELSE Life[h]
        <4>1. CASE h = K
          BY <2>1, <2>2, <4>1
        <4>2. CASE h # K
          BY <2>1, <2>2, <4>2 DEF Life
        <4>3. QED BY <4>1, <4>2
      <3>3. QED BY <3>1, <3>2
    <2>4. Life' = [Life EXCEPT ![K] = "running"]
      BY <2>3 DEF Life
    <2>5. QED BY <2>2, <2>4
  <1>8. Service!Start(i, n, H)
    BY <1>4, <1>5, <1>6, <1>7 DEF Service!Start
  <1>9. QED BY <1>1, <1>8 DEF Service!ServiceNext

\* A record is removed: it is that of the thread that was joined, and no other's.
LEMMA RemoveRemoves ==
  ASSUME TaskInv, NEW c \in Clients, DeleteRemove(c)
  PROVE  Service!ServiceNext
  <1>0. ClientInv /\ RecordInv /\ DistinctInv /\ tbl \in [Slots -> RecordType]
    BY DEF TaskInv, TypeOK
  <1>1. PICK S \in Slots :
          /\ S = slot[c] /\ tbl[S].used /\ tbl[S].id = arg[c]
          /\ tbl[S].thr \in Threads /\ at[tbl[S].thr] = "joined"
    BY <1>0 DEF DeleteRemove, ClientInv, RecordInv, DeletePcs
  <1>2. tbl' = [tbl EXCEPT ![S] = Cleared(tbl[S])] /\ at' = at
    BY <1>1 DEF DeleteRemove, Found, threads
  <1>3. ~tbl'[S].used /\ \A s \in Slots \ {S} : tbl'[s] = tbl[s]
    BY <1>0, <1>2, RecordFields
  <1> DEFINE row == [id |-> tbl[S].id, name |-> tbl[S].name, thr |-> tbl[S].thr]
  <1>4. row \in Listed
    BY <1>1 DEF Listed
  <1>5. Listed' = Listed \ {row}
    <2>1. ASSUME NEW r \in Listed' PROVE r \in Listed /\ r # row
      <3>1. PICK s \in Slots :
              tbl'[s].used /\ r = [id |-> tbl'[s].id, name |-> tbl'[s].name, thr |-> tbl'[s].thr]
        BY <2>1 DEF Listed
      <3>2. s # S /\ tbl'[s] = tbl[s]
        BY <1>3, <3>1
      <3>3. tbl[s].id # tbl[S].id
        BY <1>0, <1>1, <3>1, <3>2 DEF DistinctInv
      <3>4. QED BY <3>1, <3>2, <3>3 DEF Listed
    <2>2. ASSUME NEW r \in Listed, r # row PROVE r \in Listed'
      <3>1. PICK s \in Slots :
              tbl[s].used /\ r = [id |-> tbl[s].id, name |-> tbl[s].name, thr |-> tbl[s].thr]
        BY <2>2 DEF Listed
      <3>2. tbl'[s] = tbl[s]
        BY <1>3, <2>2, <3>1
      <3>3. QED BY <3>1, <3>2 DEF Listed
    <2>3. QED BY <2>1, <2>2
  <1>6. Life[row.thr] = "ended" /\ Life' = Life
    BY <1>1, <1>2 DEF Life
  <1>7. Service!Remove(row)
    BY <1>4, <1>5, <1>6 DEF Service!Remove
  <1>8. QED BY <1>4, <1>7 DEF Service!ServiceNext

\* Every other step leaves the tasks as they are, or ends a thread.
LEMMA ServiceStep ==
  ASSUME TaskInv, [Next]_vars
  PROVE  [Service!ServiceNext]_(Service!serviceVars)
  <1>0. TypeOK /\ ClientInv /\ tbl \in [Slots -> RecordType] /\ LocalType
    BY TypeParts DEF TaskInv, TypeOK
  <1>1. ASSUME NEW c \in Clients, CreateFill(c) PROVE Service!ServiceNext
    BY <1>1, FillStarts
  <1>2. ASSUME NEW c \in Clients, DeleteRemove(c) PROVE Service!ServiceNext
    BY <1>2, RemoveRemoves
  <1>3. ASSUME NEW c \in Clients, CreateUndo(c) PROVE Listed' = Listed /\ Life' = Life
    <2>1. /\ slot[c] \in Slots /\ ~tbl[slot[c]].used
          /\ tbl' = [tbl EXCEPT ![slot[c]] = Cleared(tbl[slot[c]])] /\ at' = at
      BY <1>0, <1>3 DEF CreateUndo, ClientInv, threads
    <2>2. ~tbl'[slot[c]].used /\ \A s \in Slots \ {slot[c]} : tbl'[s] = tbl[s]
      BY <1>0, <2>1, RecordFields
    <2>3. QED BY <2>1, <2>2, ListedSame, LifeSame
  <1>4. ASSUME NEW c \in Clients, NEW i \in Ids, DeleteFind(c, i)
        PROVE  Listed' = Listed /\ Life' = Life
    <2>1. PICK s \in Slots : tbl' = [tbl EXCEPT ![s].shut = TRUE]
      BY <1>4 DEF DeleteFind, Found
    <2>2. tbl' = [tbl EXCEPT ![s] = [tbl[s] EXCEPT !.shut = TRUE]] /\ at' = at
      BY <1>4, <2>1 DEF DeleteFind, threads
    <2>3. QED BY <1>0, <2>2, RecordFields, ListedSame, LifeSame
  <1>5. ASSUME NEW c \in Clients, DeleteJoin(c) PROVE Listed' = Listed /\ Life' = Life
    <2>1. /\ tbl' = tbl /\ at[thr[c]] = "ended"
          /\ at' = [at EXCEPT ![thr[c]] = "joined"]
      BY <1>5, JoinFacts DEF DeleteJoin, table
    <2>2. QED BY <1>0, <2>1 DEF Listed, Life, TypeOK
  <1>6. ASSUME NEW c \in Clients,
               \/ \E n \in Names : CreateFind(c, n)
               \/ CreateFail(c) \/ Register(c) \/ DeleteExpire(c) \/ Unregister(c)
               \/ DeleteWait(c) \/ SpuriousWake(c)
        PROVE  Listed' = Listed /\ Life' = Life
    <2>1. UNCHANGED <<tbl, at>>
      BY <1>6 DEF CreateFind, CreateFail, Register, DeleteExpire, Unregister,
                  DeleteWait, SpuriousWake, table, threads
    <2>2. QED BY <2>1 DEF Listed, Life
  <1>7. ASSUME NEW h \in Threads, TaskStart(h) \/ TaskObey(h) \/ TaskReturn(h) \/ TaskMark(h)
        PROVE  Listed' = Listed /\ Life' = Life
    <2>1. PICK a \in {"running", "returned", "marked"} :
            at' = [at EXCEPT ![h] = a] /\ at[h] \in {"starting", "running", "returned"}
      BY <1>7 DEF TaskStart, TaskObey, TaskReturn, TaskMark
    <2>2. Life' = Life
      BY <1>0, <2>1 DEF Life, TypeOK
    <2>3. CASE TaskStart(h)
      BY <1>0, <2>2, <2>3, ListedMarked DEF TaskStart
    <2>4. CASE TaskMark(h)
      BY <1>0, <2>2, <2>4, ListedMarked DEF TaskMark
    <2>5. CASE TaskObey(h) \/ TaskReturn(h)
      BY <2>2, <2>5 DEF TaskObey, TaskReturn, table, Listed
    <2>6. QED BY <1>7, <2>3, <2>4, <2>5
  <1>8. ASSUME NEW h \in Threads, TaskEnd(h) PROVE Service!ServiceNext
    <2>1. /\ Listed' = Listed /\ at[h] = "marked"
          /\ at' = [at EXCEPT ![h] = "ended"]
      BY <1>8 DEF TaskEnd, table, Listed
    <2>2. Life[h] = "running" /\ Life' = [Life EXCEPT ![h] = "ended"]
      BY <1>0, <2>1 DEF Life, TypeOK
    <2>3. Service!End(h)
      BY <2>1, <2>2 DEF Service!End
    <2>4. QED BY <2>3 DEF Service!ServiceNext
  <1>9. CASE UNCHANGED vars
    BY <1>9 DEF vars, Listed, Life, Service!serviceVars
  <1>10. QED
    BY <1>1, <1>2, <1>3, <1>4, <1>5, <1>6, <1>7, <1>8, <1>9
       DEF Next, Call, Step, WrapperStep, Service!serviceVars

\* Tasks as they are coded keep the promise of TaskService, although a call finds
\* and fills a slot in two critical sections, and a deletion looks a record up,
\* waits and comes back to a slot number.
THEOREM TaskImplementsService ==
  ASSUME SoleCreator, Exclusive
  PROVE  Spec => ImplementsService
  <1>1. Init => Service!ServiceInit
    BY DEF Init, Listed, Life, Service!ServiceInit
  <1>2. TaskInv /\ [Next]_vars => [Service!ServiceNext]_(Service!serviceVars)
    BY ServiceStep
  <1>3. QED BY <1>1, <1>2, TaskLife, PTL DEF Spec, ImplementsService, Service!ServiceSpec

\* TaskService alone: a thread that was not started is in no task's record.
LEMMA ServiceSoundStep ==
  ASSUME Service!ServiceFresh, Service!ServiceSound,
         [Service!ServiceNext]_(Service!serviceVars)
  PROVE  Service!ServiceFresh' /\ Service!ServiceSound'
  <1>1. ASSUME NEW i \in Ids, NEW n \in Names, NEW h \in Threads, Service!Start(i, n, h)
        PROVE  Service!ServiceFresh' /\ Service!ServiceSound'
    <2> DEFINE row == [id |-> i, name |-> n, thr |-> h]
    <2>1. /\ Life[h] = "new" /\ Life \in [Threads -> {"new", "running", "ended"}]
          /\ Listed' = Listed \cup {row} /\ Life' = [Life EXCEPT ![h] = "running"]
          /\ \A r \in Listed : /\ r.id # i /\ r.name # n
                               /\ r.thr \in Threads /\ Life[r.thr] # "new"
      BY <1>1 DEF Service!Start, Service!ServiceFresh
    <2>2. \A r \in Listed : r.thr # h
      BY <2>1
    <2>3. Service!ServiceFresh'
      BY <2>1 DEF Service!ServiceFresh
    <2>4. \A g \in Threads : Life'[g] = "running" => \E r \in Listed' : r.thr = g
      <3>1. row \in Listed' /\ row.thr = h
        BY <2>1
      <3>2. ASSUME NEW g \in Threads, g # h, Life'[g] = "running"
            PROVE  \E r \in Listed' : r.thr = g
        <4>1. Life[g] = "running"
          BY <2>1, <3>2
        <4>2. PICK r \in Listed : r.thr = g
          BY <4>1 DEF Service!ServiceSound
        <4>3. QED BY <2>1, <4>2
      <3>3. QED BY <3>1, <3>2
    <2>5. \A q, r \in Listed' :
            q.id = r.id \/ q.name = r.name \/ q.thr = r.thr => q = r
      BY <2>1, <2>2 DEF Service!ServiceSound
    <2>6. QED BY <2>3, <2>4, <2>5 DEF Service!ServiceSound
  <1>2. ASSUME NEW h \in Threads, Service!End(h)
        PROVE  Service!ServiceFresh' /\ Service!ServiceSound'
    BY <1>2 DEF Service!End, Service!ServiceFresh, Service!ServiceSound
  <1>3. ASSUME NEW r \in Listed, Service!Remove(r)
        PROVE  Service!ServiceFresh' /\ Service!ServiceSound'
    BY <1>3 DEF Service!Remove, Service!ServiceFresh, Service!ServiceSound
  <1>4. CASE UNCHANGED Service!serviceVars
    BY <1>4 DEF Service!serviceVars, Service!ServiceFresh, Service!ServiceSound
  <1>5. QED BY <1>1, <1>2, <1>3, <1>4 DEF Service!ServiceNext

LEMMA ServiceSoundAlways == Service!ServiceSpec => []Service!ServiceSound
  <1>1. Service!ServiceInit => Service!ServiceFresh /\ Service!ServiceSound
    BY DEF Service!ServiceInit, Service!ServiceFresh, Service!ServiceSound
  <1>2. QED BY <1>1, ServiceSoundStep, PTL DEF Service!ServiceSpec

\* Hence every thread of the code that runs has its record, and an id, a name or a
\* thread stands in one record only: it follows from TaskService, without a look at
\* the slots or the locks again.
THEOREM TaskServiceSound ==
  ASSUME SoleCreator, Exclusive
  PROVE  Spec => []Service!ServiceSound
  BY TaskImplementsService, ServiceSoundAlways, PTL DEF ImplementsService
=============================================================================
