------------------------------ MODULE OsalTask ------------------------------
(***************************************************************************)
(* Tasks of OSAL, osal/src/posix/ipc/osal_task.c.                          *)
(*                                                                         *)
(* Clients call OSAL_TaskCreate and OSAL_TaskDelete on a shared table;     *)
(* each successful Create starts a thread that runs task_wrapper around    *)
(* the user's entry function.  A step is one critical section of           *)
(* g_task_table_mutex, of a record's exit_mutex or of the resource         *)
(* tracker, one event inside pthread_cond_timedwait, or the return of      *)
(* pthread_join.  task_wrapper takes exit_mutex inside the table's mutex,  *)
(* in one step.                                                            *)
(*                                                                         *)
(* A thread outlives its record or the record its thread only if something *)
(* is wrong: a record is found again by its id, ids are reused at once,    *)
(* and OSAL_TaskDelete keeps the slot, not the lock, while it waits.  A    *)
(* thread looks for its own record by its pthread_t, which is free again   *)
(* once it is joined, while its record is still to be removed.             *)
(*                                                                         *)
(* Threads are numbered as they are started.  Where the code keeps a       *)
(* pthread_t, in a record or in thread_to_delete, the model keeps the      *)
(* number, and looks only at the pthread_t of that number.                 *)
(*                                                                         *)
(* A call that returns at once and changes nothing is a stuttering step.   *)
(* Left out, as nothing reads them back but OSAL_TaskGetInfo: priority and *)
(* stack_size.  ref_count is always 1, so OSAL_ERR_BUSY is never answered. *)
(*                                                                         *)
(* A definition Mut... is a fault put in the place of the definition after *)
(* it to see that a property notices; no specification uses one.           *)
(***************************************************************************)
EXTENDS Naturals, FiniteSets

CONSTANTS Clients,     \* the threads that create and delete tasks
          Creators,    \* those that call OSAL_TaskCreate
          Exclusive,   \* TRUE: callers never delete one task twice at a time
          NTasks,      \* OS_MAX_TASKS, the number of slots and of ids
          MaxThreads,  \* bound: threads ever started
          Pthreads,    \* the values of pthread_t
          Names,       \* task names
          Cooperative, \* the threads whose entry asks ShouldShutdown and obeys
          None         \* the argument of a client that is in no call

ASSUME TaskAssumption ==
  /\ IsFiniteSet(Clients)
  /\ Creators \subseteq Clients
  /\ Exclusive \in BOOLEAN
  /\ NTasks \in Nat \ {0}
  /\ MaxThreads \in Nat \ {0}
  /\ Names \cap Nat = {}
  /\ Cooperative \subseteq 1..MaxThreads

Slots == 1..NTasks
Ids == 1..NTasks
Threads == 1..MaxThreads

VARIABLES
  tbl,        \* g_osal_task_table
  ids,        \* g_task_id_bitmap, the ids in use
  at,         \* how far the thread of a task has come
  tid,        \* the task_id its wrapper was given
  pthread,    \* its pthread_t
  nextThread, \* the number of the next thread
  tracked,    \* how often the resource tracker lists each id
  pc,         \* where each client is
  arg,        \* the name of Create, the id to register or to delete
  slot,       \* the slot found
  thr,        \* thread_to_delete
  asked       \* history: the threads OSAL_TaskDelete was called for

table == <<tbl, ids>>
threads == <<at, tid, pthread, nextThread>>
locals == <<pc, arg, slot, thr>>
vars == <<tbl, ids, at, tid, pthread, nextThread, tracked, pc, arg, slot, thr, asked>>

Init ==
  /\ tbl = [s \in Slots |->
              [used |-> FALSE, id |-> 0, name |-> None, thr |-> 0,
               state |-> "READY", shut |-> FALSE, exited |-> FALSE,
               sync |-> "dead"]]
  /\ ids = {}
  /\ at = [h \in Threads |-> "none"]
  /\ tid = [h \in Threads |-> 0]
  /\ pthread = [h \in Threads |-> None]
  /\ nextThread = 1
  /\ tracked = [i \in Ids |-> 0]
  /\ pc = [c \in Clients |-> "idle"]
  /\ arg = [c \in Clients |-> None]
  /\ slot = [c \in Clients |-> 0]
  /\ thr = [c \in Clients |-> 0]
  /\ asked = {}

Goto(c, p) ==
  /\ pc' = [pc EXCEPT ![c] = p]
  /\ UNCHANGED <<arg, slot, thr>>

Enter(c, p, a, s, h) ==
  /\ pc[c] = "idle"
  /\ pc' = [pc EXCEPT ![c] = p]
  /\ arg' = [arg EXCEPT ![c] = a]
  /\ slot' = [slot EXCEPT ![c] = s]
  /\ thr' = [thr EXCEPT ![c] = h]

Leave(c) ==
  /\ pc' = [pc EXCEPT ![c] = "idle"]
  /\ arg' = [arg EXCEPT ![c] = None]
  /\ slot' = [slot EXCEPT ![c] = 0]
  /\ thr' = [thr EXCEPT ![c] = 0]

-----------------------------------------------------------------------------
(* OSAL_TaskCreate.                                                        *)

\* Mutant: is_used of the slot itself is not looked at.
MutFirstFree(s) == \A r \in Slots : r < s => tbl[r].used

FirstFree(s) ==
  /\ ~tbl[s].used
  /\ \A r \in Slots : r < s => tbl[r].used

\* osal_task_find_free_slot: the table is locked for the search only.
CreateFind(c, n) ==
  /\ c \in Creators
  /\ \E s \in Slots : FirstFree(s) /\ Enter(c, "create", n, s, 0)
  /\ UNCHANGED <<table, threads, tracked, asked>>

\* Mutant: the names in use are not compared.
MutNameTaken(n) == FALSE

NameTaken(n) == \E s \in Slots : tbl[s].used /\ tbl[s].name = n

\* allocate_task_id: the lowest free id.
Allocate(i) ==
  /\ i \in Ids \ ids
  /\ \A j \in Ids : j < i => j \in ids
  /\ ids' = ids \cup {i}

\* The record of a new task: shutdown_requested is what the slot held.
NewRecord(r, i, n, h) ==
  [used |-> TRUE, id |-> i, name |-> n, thr |-> h, state |-> "READY",
   shut |-> r.shut, exited |-> FALSE, sync |-> "live"]

\* A record given back: what is left in it is overwritten by the next Create,
\* except shutdown_requested.
Cleared(r) == [[r EXCEPT !.used = FALSE] EXCEPT !.sync = "dead"]

\* Started by pthread_create and not yet joined.
Unjoined(h) == at[h] \in {"starting", "running", "returned", "marked", "ended"}

\* A pthread_t that no thread has, or none but threads that were joined.
FreePthread(p) == \A h \in Threads : Unjoined(h) => pthread[h] # p

\* The second critical section: the slot found before is filled, whatever it
\* holds by now, and pthread_create succeeds.
CreateFill(c) ==
  /\ pc[c] = "create"
  /\ ~NameTaken(arg[c])
  /\ nextThread <= MaxThreads
  /\ \E i \in Ids :
       /\ Allocate(i)
       /\ tbl' = [tbl EXCEPT ![slot[c]] =
                    NewRecord(tbl[slot[c]], i, arg[c], nextThread)]
       /\ tid' = [tid EXCEPT ![nextThread] = i]
       /\ arg' = [arg EXCEPT ![c] = i]
  /\ \E p \in Pthreads : FreePthread(p) /\ pthread' = [pthread EXCEPT ![nextThread] = p]
  /\ at' = [at EXCEPT ![nextThread] = "starting"]
  /\ nextThread' = nextThread + 1
  /\ pc' = [pc EXCEPT ![c] = "register"]
  /\ slot' = [slot EXCEPT ![c] = 0]
  /\ UNCHANGED <<tracked, thr, asked>>

\* The name is taken, malloc fails, or every id is in use.
CreateFail(c) ==
  /\ pc[c] = "create"
  /\ Leave(c)
  /\ UNCHANGED <<table, threads, tracked, asked>>

\* pthread_cond_init, pthread_mutex_init or pthread_create fails: the record
\* and the id are given back and what was initialised is destroyed.
CreateUndo(c) ==
  /\ pc[c] = "create"
  /\ ~NameTaken(arg[c])
  /\ ids # Ids
  /\ tbl' = [tbl EXCEPT ![slot[c]] = Cleared(@)]
  /\ Leave(c)
  /\ UNCHANGED <<ids, threads, tracked, asked>>

\* Mutant: the tracker keeps one entry for each id.
MutRegister(c) ==
  /\ pc[c] = "register"
  /\ tracked' = [tracked EXCEPT ![arg[c]] = 1]
  /\ Leave(c)
  /\ UNCHANGED <<table, threads, asked>>

\* OSAL_ResourceRegister, after the table is unlocked; the tracker's table
\* has room.
Register(c) ==
  /\ pc[c] = "register"
  /\ tracked' = [tracked EXCEPT ![arg[c]] = @ + 1]
  /\ Leave(c)
  /\ UNCHANGED <<table, threads, asked>>

-----------------------------------------------------------------------------
(* task_wrapper, and the entry function it calls.                          *)

Found(i) == {s \in Slots : tbl[s].used /\ tbl[s].id = i}

TaskStart(h) ==
  /\ at[h] = "starting"
  /\ tbl' = [s \in Slots |->
               IF s \in Found(tid[h]) THEN [tbl[s] EXCEPT !.state = "RUNNING"]
                                      ELSE tbl[s]]
  /\ at' = [at EXCEPT ![h] = "running"]
  /\ UNCHANGED <<ids, tid, pthread, nextThread, tracked, locals, asked>>

\* The records with the pthread_t of thread h, and the one a search stops at.
Mine(h) == {s \in Slots : tbl[s].used /\ pthread[tbl[s].thr] = pthread[h]}
FirstMine(h) == {s \in Mine(h) : \A r \in Mine(h) : s <= r}

\* OSAL_TaskShouldShutdown, called by thread h.
ShouldShutdown(h) == \E s \in FirstMine(h) : tbl[s].shut

\* An entry function that asks OSAL_TaskShouldShutdown and obeys.
TaskObey(h) ==
  /\ at[h] = "running"
  /\ ShouldShutdown(h)
  /\ at' = [at EXCEPT ![h] = "returned"]
  /\ UNCHANGED <<table, tid, pthread, nextThread, tracked, locals, asked>>

\* An entry function that returns for a reason of its own.
TaskReturn(h) ==
  /\ at[h] = "running"
  /\ at' = [at EXCEPT ![h] = "returned"]
  /\ UNCHANGED <<table, tid, pthread, nextThread, tracked, locals, asked>>

Blocked(s) == {c \in Clients : pc[c] = "blocked" /\ slot[c] = s}

\* Mutant: exit_cond is not signalled.
MutSignalExit(S) == UNCHANGED pc

\* pthread_cond_signal of the exit_cond of the records S: one client that
\* waits there is woken, if there is one.
SignalExit(S) ==
  IF UNION {Blocked(s) : s \in S} = {}
    THEN UNCHANGED pc
    ELSE \E c \in UNION {Blocked(s) : s \in S} : pc' = [pc EXCEPT ![c] = "woken"]

\* The entry function has returned: the record is marked and the client in
\* OSAL_TaskDelete is told.
TaskMark(h) ==
  /\ at[h] = "returned"
  /\ tbl' = [s \in Slots |->
               IF s \in Found(tid[h])
                 THEN [[tbl[s] EXCEPT !.state = "TERMINATED"] EXCEPT !.exited = TRUE]
                 ELSE tbl[s]]
  /\ SignalExit(Found(tid[h]))
  /\ at' = [at EXCEPT ![h] = "marked"]
  /\ UNCHANGED <<ids, tid, pthread, nextThread, tracked, arg, slot, thr, asked>>

\* The thread terminates; it can be joined.
TaskEnd(h) ==
  /\ at[h] = "marked"
  /\ at' = [at EXCEPT ![h] = "ended"]
  /\ UNCHANGED <<table, tid, pthread, nextThread, tracked, locals, asked>>

-----------------------------------------------------------------------------
(* OSAL_TaskDelete.                                                        *)

\* From the look-up to the removal of the record.
DeletePcs == {"lock", "blocked", "woken", "join", "remove"}

Deleting(c, i) == pc[c] \in DeletePcs /\ arg[c] = i

\* Mutant: shutdown_requested is not set.
MutDeleteFind(c, i) ==
  /\ Exclusive => \A d \in Clients : ~Deleting(d, i)
  /\ \E s \in Found(i) :
       /\ Enter(c, "lock", i, s, tbl[s].thr)
       /\ asked' = asked \cup {tbl[s].thr}
  /\ UNCHANGED <<table, threads, tracked>>

\* The look-up: the task is told to shut down, its slot and thread are noted.
DeleteFind(c, i) ==
  /\ Exclusive => \A d \in Clients : ~Deleting(d, i)
  /\ \E s \in Found(i) :
       /\ Enter(c, "lock", i, s, tbl[s].thr)
       /\ tbl' = [tbl EXCEPT ![s].shut = TRUE]
       /\ asked' = asked \cup {tbl[s].thr}
  /\ UNCHANGED <<ids, threads, tracked>>

\* The loop around pthread_cond_timedwait, with exit_mutex held: `exited' of
\* the slot noted at the look-up.
DeleteWait(c) ==
  /\ pc[c] \in {"lock", "woken"}
  /\ Goto(c, IF tbl[slot[c]].exited THEN "join" ELSE "blocked")
  /\ UNCHANGED <<table, threads, tracked, asked>>

\* Mutant: the loop ignores ETIMEDOUT.
MutDeleteExpire(c) ==
  /\ pc[c] = "blocked"
  /\ Goto(c, "woken")
  /\ UNCHANGED <<table, threads, tracked, asked>>

\* ETIMEDOUT after 5 seconds, even if the task exits at that moment: the
\* record stays and nothing is detached.
DeleteExpire(c) ==
  /\ pc[c] = "blocked"
  /\ Leave(c)
  /\ UNCHANGED <<table, threads, tracked, asked>>

\* POSIX allows pthread_cond_timedwait to return with no signal.
SpuriousWake(c) ==
  /\ pc[c] = "blocked"
  /\ Goto(c, "woken")
  /\ UNCHANGED <<table, threads, tracked, asked>>

\* The thread that has the pthread_t of h now.
Joinable(h) == {g \in Threads : Unjoined(g) /\ pthread[g] = pthread[h]}

\* Mutant: OSAL_TaskDelete does not wait in pthread_join.
MutDeleteJoin(c) ==
  /\ pc[c] = "join"
  /\ Goto(c, "remove")
  /\ UNCHANGED <<table, threads, tracked, asked>>

\* pthread_join returns.  For a thread already joined it waits for the one that
\* has the same pthread_t by now; without one it is undefined, and is taken to
\* return an error, and pthread_detach to do nothing.
DeleteJoin(c) ==
  /\ pc[c] = "join"
  /\ \A g \in Joinable(thr[c]) : at[g] = "ended"
  /\ at' = [h \in Threads |-> IF h \in Joinable(thr[c]) THEN "joined" ELSE at[h]]
  /\ Goto(c, "remove")
  /\ UNCHANGED <<table, tid, pthread, nextThread, tracked, asked>>

\* Mutant: release_task_id is not called.
MutReleaseId(i) == UNCHANGED ids

ReleaseId(i) == ids' = ids \ {i}

\* The record is removed if the slot still holds the id.
DeleteRemove(c) ==
  LET s == slot[c]
  IN /\ pc[c] = "remove"
     /\ IF s \in Found(arg[c])
          THEN /\ tbl' = [tbl EXCEPT ![s] = Cleared(@)]
               /\ ReleaseId(arg[c])
          ELSE UNCHANGED table
     /\ Goto(c, "unregister")
     /\ UNCHANGED <<threads, tracked, asked>>

\* OSAL_ResourceUnregister: one entry of the id goes, if there is one.
Unregister(c) ==
  LET i == arg[c]
  IN /\ pc[c] = "unregister"
     /\ tracked' = [tracked EXCEPT ![i] = IF @ = 0 THEN 0 ELSE @ - 1]
     /\ Leave(c)
     /\ UNCHANGED <<table, threads, asked>>

-----------------------------------------------------------------------------
(* The next-state relation.                                                *)

\* OSAL_TaskGetIdByName: the ids it can answer.
GetIdByName(n) == {tbl[s].id : s \in {r \in Slots : tbl[r].used /\ tbl[r].name = n}}

\* OSAL_TaskGetId, called by thread h: the ids it can answer.
GetId(h) == {tbl[s].id : s \in FirstMine(h)}

Call(c) ==
  \/ \E n \in Names : CreateFind(c, n)
  \/ \E i \in Ids : DeleteFind(c, i)

\* A client goes on with the call it is in.
Step(c) ==
  \/ CreateFill(c) \/ CreateFail(c) \/ CreateUndo(c) \/ Register(c)
  \/ DeleteWait(c) \/ DeleteJoin(c) \/ DeleteRemove(c) \/ Unregister(c)

\* task_wrapper goes on outside the entry function.
WrapperStep(h) == TaskStart(h) \/ TaskMark(h) \/ TaskEnd(h)

Next ==
  \/ \E c \in Clients : Call(c) \/ Step(c) \/ DeleteExpire(c) \/ SpuriousWake(c)
  \/ \E h \in Threads : WrapperStep(h) \/ TaskObey(h) \/ TaskReturn(h)

Spec == Init /\ [][Next]_vars

\* Every thread that is not blocked runs: weak fairness of Step and of
\* WrapperStep.  The deadline of OSAL_TaskDelete is absolute: strong
\* fairness of DeleteExpire.  Cooperative entry functions ask
\* OSAL_TaskShouldShutdown again and again, as osal/docs/USAGE_GUIDE.md:64
\* has them do.  Nobody is obliged to make a call, and no other entry
\* function to return.
Fairness ==
  /\ \A c \in Clients : WF_vars(Step(c)) /\ SF_vars(DeleteExpire(c))
  /\ \A h \in Threads : WF_vars(WrapperStep(h))
  /\ \A h \in Cooperative : WF_vars(TaskObey(h))

FairSpec == Spec /\ Fairness

-----------------------------------------------------------------------------
(* Safety.                                                                 *)

RecordType ==
  [used : BOOLEAN, id : 0..NTasks, name : Names \cup {None},
   thr : 0..MaxThreads, state : {"READY", "RUNNING", "TERMINATED"},
   shut : BOOLEAN, exited : BOOLEAN, sync : {"dead", "live"}]

\* Every variable has its type.
TypeOK ==
  /\ tbl \in [Slots -> RecordType]
  /\ ids \subseteq Ids
  /\ at \in [Threads -> {"none", "starting", "running", "returned", "marked",
                         "ended", "joined"}]
  /\ tid \in [Threads -> 0..NTasks]
  /\ pthread \in [Threads -> Pthreads \cup {None}]
  /\ nextThread \in 1..(MaxThreads + 1)
  /\ tracked \in [Ids -> Nat]
  /\ pc \in [Clients -> {"idle", "create", "register", "unregister"}
                          \cup DeletePcs]
  /\ arg \in [Clients -> Names \cup Ids \cup {None}]
  /\ slot \in [Clients -> 0..NTasks]
  /\ thr \in [Clients -> 0..MaxThreads]
  /\ asked \subseteq Threads

\* The bit map holds exactly the ids of the table, each in one record: no id
\* is lost and none is given to two tasks, although ids are reused.
IdsExact ==
  /\ ids = {tbl[s].id : s \in {r \in Slots : tbl[r].used}}
  /\ \A i \in Ids : Cardinality(Found(i)) <= 1

\* A thread that has not been joined has exactly one record, the one its wrapper
\* finds by the id it was given, even if the id was used before.  Another record
\* has its pthread_t only while the OSAL_TaskDelete that joined its thread has it
\* still to remove: OSAL_TaskGetId speaks for no other task that is alive.
OwnRecord ==
  \A h \in Threads : Unjoined(h) =>
    \E s \in Mine(h) :
      /\ Found(tid[h]) = {s} /\ tbl[s].thr = h
      /\ \A r \in Mine(h) \ {s} : \E c \in Clients : pc[c] = "remove" /\ slot[c] = r

\* OSAL_TaskDelete waits with the exit_mutex and exit_cond of its record
\* while they are initialised: nobody destroys them under it.
SyncLive ==
  \A c \in Clients :
    pc[c] \in {"lock", "blocked", "woken"} => tbl[slot[c]].sync = "live"

\* No thread is joined twice.
JoinedOnce == \A c \in Clients : pc[c] = "join" => at[thr[c]] # "joined"

\* Past the marking of the record at the end of task_wrapper.
Past(h) == at[h] \in {"marked", "ended", "joined"}

\* The record says a task has exited exactly when its thread is past the
\* entry function: OSAL_TaskDelete joins without waiting for user code.
ExitedExact ==
  \A s \in Slots :
    tbl[s].used => (tbl[s].exited <=> Past(tbl[s].thr))

\* The exit signal is not lost: a client stays blocked in OSAL_TaskDelete
\* only while the task it waits for has not exited.
ExitNotLost == \A c \in Clients : pc[c] = "blocked" => ~tbl[slot[c]].exited

\* OSAL_TaskDelete removes a record, and returns OSAL_SUCCESS, only when the thread
\* it found at the look-up has terminated and was joined.
DeletedEnded ==
  \A c \in Clients : pc[c] \in {"remove", "unregister"} => at[thr[c]] = "joined"

\* Whoever creates and deletes, OSAL_TaskGetId answers a thread its own id or that
\* of a joined one whose pthread_t it was given, and no other task's.
OwnIdOnly ==
  \A h \in Threads : Unjoined(h) =>
    GetId(h) \subseteq {tid[h]} \cup {tid[g] : g \in {k \in Threads : at[k] = "joined"
                                                           /\ pthread[k] = pthread[h]}}

\* Two tasks never share a name.
UniqueNames == \A n \in Names : Cardinality(GetIdByName(n)) <= 1

Idle == \A c \in Clients : pc[c] = "idle"

\* When no call is in progress every task of the table is listed by the
\* tracker: an id that is reused before its entry is removed does not make
\* OSAL_ResourceCheckLeaks blind to the new task.
LeaksSeen == Idle => \A i \in ids : tracked[i] > 0

\* osal_task.h: OSAL_TaskShouldShutdown is true when the current task should
\* shut down; so only after OSAL_TaskDelete was called for it.
StopOnlyIfAsked ==
  \A h \in Threads : at[h] = "running" /\ ShouldShutdown(h) => h \in asked

\* A request to shut down is never forgotten while the task runs, whatever
\* becomes of the call that made it.
RequestKept ==
  \A h \in asked : at[h] \in {"starting", "running"} => ShouldShutdown(h)

-----------------------------------------------------------------------------
(* What OSAL promises its callers.                                         *)

Listed ==
  {[id |-> tbl[s].id, name |-> tbl[s].name, thr |-> tbl[s].thr] :
     s \in {r \in Slots : tbl[r].used}}

Life ==
  [h \in Threads |-> CASE at[h] = "none" -> "new"
                       [] at[h] \in {"ended", "joined"} -> "ended"
                       [] OTHER -> "running"]

Service == INSTANCE TaskService
             WITH TaskIds <- Ids, Titles <- Names, Workers <- Threads,
                  listed <- Listed, life <- Life

\* Whatever a call has in its hands while the table is unlocked, it puts no task
\* into the table beside one with the same id or name, overwrites none, and removes
\* none but one whose thread has ended.
ImplementsService == Service!ServiceSpec

-----------------------------------------------------------------------------
(* The inductive strengthening of the safety invariants, for one creator   *)
(* and exclusive deletes.                                                  *)

SoleCreator == \A c, d \in Creators : c = d

\* What a client inside a call knows of the slot it noted.
ClientInv ==
  \A c \in Clients :
    /\ pc[c] = "create" =>
         c \in Creators /\ arg[c] \in Names /\ slot[c] \in Slots /\ ~tbl[slot[c]].used
    /\ pc[c] \in DeletePcs \cup {"register", "unregister"} => arg[c] \in Ids
    /\ pc[c] \in DeletePcs =>
         /\ slot[c] \in Slots /\ tbl[slot[c]].used
         /\ tbl[slot[c]].id = arg[c] /\ tbl[slot[c]].thr = thr[c]
    /\ pc[c] = "join" => tbl[slot[c]].exited
    /\ pc[c] = "remove" => at[thr[c]] = "joined"

\* A task that is being deleted has been told to shut down.
ShutInv == \A c \in Clients : pc[c] \in DeletePcs => tbl[slot[c]].shut

DeleterInv ==
  \A c, d \in Clients :
    pc[c] \in DeletePcs /\ pc[d] \in DeletePcs /\ arg[c] = arg[d] => c = d

\* A record in use belongs to a thread that was given its id, and to a
\* joined one only while the client that joined it is about to remove it.
RecordInv ==
  \A s \in Slots : tbl[s].used =>
    /\ tbl[s].id \in ids /\ tbl[s].sync = "live"
    /\ tbl[s].thr \in Threads /\ tbl[s].thr < nextThread
    /\ at[tbl[s].thr] # "none" /\ tid[tbl[s].thr] = tbl[s].id
    /\ at[tbl[s].thr] = "joined" =>
         \E c \in Clients : pc[c] = "remove" /\ slot[c] = s

DistinctInv ==
  \A r, s \in Slots :
    tbl[r].used /\ tbl[s].used /\ r # s =>
      /\ tbl[r].id # tbl[s].id
      /\ tbl[r].thr # tbl[s].thr
      /\ tbl[r].name # tbl[s].name

\* The record of thread h, and whether it says to shut down.
RecordOf(h) == {s \in Slots : tbl[s].used /\ tbl[s].thr = h}
Told(h) == \E s \in RecordOf(h) : tbl[s].shut

ToldInv == \A h \in asked : at[h] \in {"starting", "running"} => Told(h)

\* No two threads have one pthread_t, unless one has been joined.
PthreadInv ==
  \A g, h \in Threads : Unjoined(g) /\ Unjoined(h) /\ g # h => pthread[g] # pthread[h]

CoverInv ==
  /\ \A i \in ids : Found(i) # {}
  /\ \A h \in Threads : Unjoined(h) => RecordOf(h) # {}
  /\ \A h \in Threads : h >= nextThread => at[h] = "none"

TaskInv ==
  /\ TypeOK
  /\ ClientInv
  /\ DeleterInv
  /\ RecordInv
  /\ DistinctInv
  /\ CoverInv
  /\ ExitedExact
  /\ ExitNotLost
  /\ asked \subseteq 1..(nextThread - 1)
  /\ ToldInv
  /\ ShutInv
  /\ PthreadInv

-----------------------------------------------------------------------------
(* The inductive strengthening of LeaksSeen.                               *)

Registering(i) == {c \in Clients : pc[c] = "register" /\ arg[c] = i}
Unregistering(i) == {c \in Clients : pc[c] = "unregister" /\ arg[c] = i}

\* The tracker's entries for an id, with those on their way in, are enough for
\* the task that has the id and for every removal on its way.  They may be
\* more: a task deleted before its creator registered it leaves one behind.
LedgerInv ==
  \A i \in Ids :
    tracked[i] + Cardinality(Registering(i))
      >= (IF i \in ids THEN 1 ELSE 0) + Cardinality(Unregistering(i))

-----------------------------------------------------------------------------
(* Liveness.                                                               *)

InDelete(c) == pc[c] \in DeletePcs \cup {"unregister"}

\* OSAL_TaskDelete returns, even if the task never exits.
DeleteReturns == \A c \in Clients : InDelete(c) ~> (pc[c] = "idle")

\* A task that asks OSAL_TaskShouldShutdown ends after OSAL_TaskDelete was
\* called for it, even if that call timed out.
AskedEnds == \A h \in Cooperative : (h \in asked) ~> (at[h] \in {"ended", "joined"})

=============================================================================
