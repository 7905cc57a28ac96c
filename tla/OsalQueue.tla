----------------------------- MODULE OsalQueue -----------------------------
(***************************************************************************)
(* The POSIX message queue of OSAL, osal/src/posix/ipc/osal_queue.c.       *)
(*                                                                         *)
(* Threads call OSAL_QueueCreate, Put, Get and Delete on a shared table of *)
(* queues.  A thread is at a point `pc' of the call it is in; a step is    *)
(* one critical section of g_queue_table_mutex or of the queue's own       *)
(* mutex, one atomic operation on ref_count, or one event inside           *)
(* pthread_cond_wait.  A critical section is one step because everything   *)
(* it reads or writes is read and written under the same mutex, with two   *)
(* exceptions: `valid' is read without it in osal_queue_acquire and        *)
(* osal_queue_release, in steps of their own here.                         *)
(*                                                                         *)
(* A call that returns at once and changes nothing (a NULL pointer, a size *)
(* over the limits, an id that is not in the table, no free slot,          *)
(* a look-up by name) is a stuttering step.                                *)
(*                                                                         *)
(* An identifier names its record and its queue_impl_t: g_next_queue_id is *)
(* incremented once for each queue_impl_t entered in the table.            *)
(*                                                                         *)
(* A definition Mut... is a fault put in the place of the definition after *)
(* it to see that a property notices; no specification uses one.           *)
(***************************************************************************)
EXTENDS Naturals, Sequences, FiniteSets

CONSTANTS Threads,    \* the calling threads
          Creators,   \* those that call OSAL_QueueCreate
          NSlots,     \* OS_MAX_QUEUES
          MaxId,      \* bound: queues ever created (g_next_queue_id <= MaxId)
          Depth,      \* queue_depth, the same for every queue
          Names,      \* queue names
          Msgs,       \* messages of at most msg_size bytes
          TooBig,     \* a message larger than msg_size
          NoMsg,      \* no message: an unwritten cell, an untouched buffer
          None        \* the argument of a thread that is in no call

Modes == {"check", "timed", "forever"}   \* OS_CHECK, timeout > 0, OS_PEND

ASSUME QueueAssumption ==
  /\ IsFiniteSet(Threads)
  /\ Creators \subseteq Threads
  /\ NSlots \in Nat \ {0}
  /\ MaxId \in Nat \ {0}
  /\ Depth \in Nat \ {0}
  /\ NoMsg \notin Msgs
  /\ TooBig \notin Msgs \cup {NoMsg}

Slots == 1..NSlots
Ids == 1..MaxId

VARIABLES
  tbl,       \* g_osal_queue_table: is_used, id, name of each slot
  nextId,    \* g_next_queue_id
  mem,       \* the queue_impl_t: "none", "live" or "freed"
  valid,     \* impl->valid
  refs,      \* impl->ref_count
  ring,      \* impl->head, tail, count and buffer
  tracked,   \* the ids registered with the resource tracker
  pc,        \* where each thread is
  op,        \* the call it is in
  cur,       \* its impl, 0 when it has none
  arg,       \* the message of Put, the timeout of Get, the name of Create
  slot,      \* the slot Create found, 0 when none
  res,       \* the result of the call, "none" before it is known
  hand       \* the buffer Get copies the message to

shared == <<tbl, nextId, mem, valid, refs, ring, tracked>>
locals == <<pc, op, cur, arg, slot, res, hand>>
vars == <<tbl, nextId, mem, valid, refs, ring, tracked,
          pc, op, cur, arg, slot, res, hand>>

Pcs == {"idle", "create",
        "put", "put_wait", "put_woken",
        "get", "get_wait", "get_woken", "get_expired",
        "delete", "release", "drop", "unregister"}

\* Between the increment and the decrement of ref_count, and for the
\* deleting thread between removing the record and the decrement.
HoldPcs == {"put", "put_wait", "put_woken",
            "get", "get_wait", "get_woken", "get_expired",
            "delete", "release"}

Results == {"none", "SUCCESS", "INVALID_ID", "QUEUE_EMPTY", "QUEUE_TIMEOUT",
            "QUEUE_INVALID_SIZE"}

EmptyRing == [head |-> 0, tail |-> 0, count |-> 0,
              buf |-> [k \in 0..(Depth - 1) |-> NoMsg]]

Init ==
  /\ tbl = [s \in Slots |-> [used |-> FALSE, id |-> 0, name |-> None]]
  /\ nextId = 1
  /\ mem = [i \in Ids |-> "none"]
  /\ valid = [i \in Ids |-> FALSE]
  /\ refs = [i \in Ids |-> 0]
  /\ ring = [i \in Ids |-> EmptyRing]
  /\ tracked = {}
  /\ pc = [t \in Threads |-> "idle"]
  /\ op = [t \in Threads |-> "none"]
  /\ cur = [t \in Threads |-> 0]
  /\ arg = [t \in Threads |-> None]
  /\ slot = [t \in Threads |-> 0]
  /\ res = [t \in Threads |-> "none"]
  /\ hand = [t \in Threads |-> NoMsg]

-----------------------------------------------------------------------------
(* Entering and leaving a call.                                            *)

Enter(t, o, p, i, a, s) ==
  /\ pc[t] = "idle"
  /\ pc' = [pc EXCEPT ![t] = p]
  /\ op' = [op EXCEPT ![t] = o]
  /\ cur' = [cur EXCEPT ![t] = i]
  /\ arg' = [arg EXCEPT ![t] = a]
  /\ slot' = [slot EXCEPT ![t] = s]
  /\ UNCHANGED <<res, hand>>

Leave(t) ==
  /\ pc' = [pc EXCEPT ![t] = "idle"]
  /\ op' = [op EXCEPT ![t] = "none"]
  /\ cur' = [cur EXCEPT ![t] = 0]
  /\ arg' = [arg EXCEPT ![t] = None]
  /\ slot' = [slot EXCEPT ![t] = 0]
  /\ res' = [res EXCEPT ![t] = "none"]
  /\ hand' = [hand EXCEPT ![t] = NoMsg]

\* The call has its result and goes on to osal_queue_release.
Finish(t, r) ==
  /\ pc' = [pc EXCEPT ![t] = "release"]
  /\ res' = [res EXCEPT ![t] = r]
  /\ UNCHANGED <<op, cur, arg, slot, hand>>

-----------------------------------------------------------------------------
(* OSAL_QueueCreate.                                                       *)

FirstFree(s) ==
  /\ ~tbl[s].used
  /\ \A r \in Slots : r < s => tbl[r].used

\* osal_queue_find_free_slot: the table is locked for the search only.
CreateFind(t, n) ==
  /\ t \in Creators
  /\ \E s \in Slots : FirstFree(s) /\ Enter(t, "create", "create", 0, n, s)
  /\ UNCHANGED shared

\* Mutant: the names in use are not compared.
MutNameTaken(n) == FALSE

NameTaken(n) == \E s \in Slots : tbl[s].used /\ tbl[s].name = n

NewQueue(t) ==
  /\ nextId <= MaxId
  /\ tbl' = [tbl EXCEPT ![slot[t]] =
               [used |-> TRUE, id |-> nextId, name |-> arg[t]]]
  /\ nextId' = nextId + 1
  /\ mem' = [mem EXCEPT ![nextId] = "live"]
  /\ valid' = [valid EXCEPT ![nextId] = TRUE]
  /\ refs' = [refs EXCEPT ![nextId] = 1]
  /\ ring' = [ring EXCEPT ![nextId] = EmptyRing]
  /\ tracked' = tracked \cup {nextId}

\* The second critical section: the record is filled in the slot found
\* before, whatever the slot holds by now.
CreateFill(t) ==
  /\ pc[t] = "create"
  /\ ~NameTaken(arg[t])
  /\ NewQueue(t)
  /\ Leave(t)

\* The name is taken, or an allocation or an initialisation fails and what
\* was allocated before it is given back.
CreateFail(t) ==
  /\ pc[t] = "create"
  /\ Leave(t)
  /\ UNCHANGED shared

-----------------------------------------------------------------------------
(* The reference count.                                                    *)

InTable(i) == \E s \in Slots : tbl[s].used /\ tbl[s].id = i

\* Mutant: the queue is found and its reference not counted.
MutAcquire(i) ==
  /\ InTable(i)
  /\ valid[i]
  /\ UNCHANGED refs

\* osal_queue_acquire, with the table locked.
Acquire(i) ==
  /\ InTable(i)
  /\ valid[i]
  /\ refs' = [refs EXCEPT ![i] = @ + 1]

\* The end of a call: OSAL_QueueDelete still has to unregister the id.
Return(t) ==
  IF op[t] = "delete"
    THEN /\ pc' = [pc EXCEPT ![t] = "unregister"]
         /\ UNCHANGED <<op, cur, arg, slot, res, hand>>
    ELSE Leave(t)

\* atomic_fetch_sub in osal_queue_release.  The thread whose fetch_sub
\* returned 1 goes on to look at `valid'.
Release(t) ==
  /\ pc[t] = "release"
  /\ refs' = [refs EXCEPT ![cur[t]] = @ - 1]
  /\ IF refs[cur[t]] = 1
       THEN /\ pc' = [pc EXCEPT ![t] = "drop"]
            /\ UNCHANGED <<op, cur, arg, slot, res, hand>>
       ELSE Return(t)
  /\ UNCHANGED <<tbl, nextId, mem, valid, ring, tracked>>

\* The rest of osal_queue_release: destroy and free the invalid queue.
\* What freed memory holds is never looked at.
Drop(t) ==
  LET i == cur[t]
      last == ~valid[i]
  IN /\ pc[t] = "drop"
     /\ mem' = IF last THEN [mem EXCEPT ![i] = "freed"] ELSE mem
     /\ ring' = IF last THEN [ring EXCEPT ![i] = EmptyRing] ELSE ring
     /\ Return(t)
     /\ UNCHANGED <<tbl, nextId, valid, refs, tracked>>

-----------------------------------------------------------------------------
(* The condition variables: a signal wakes one waiter if there is one.     *)

NotEmptyWaiters(i) == {w \in Threads : pc[w] = "get_wait" /\ cur[w] = i}
NotFullWaiters(i) == {w \in Threads : pc[w] = "put_wait" /\ cur[w] = i}

\* Mutant: the condition is not signalled.
MutNoSignal(t, W, woken) == pc' = [pc EXCEPT ![t] = "release"]

\* The caller t leaves its critical section for `release' after it has
\* signalled a condition whose waiters are W and resume at `woken'.
SignalAndRelease(t, W, woken) ==
  \/ /\ W = {}
     /\ pc' = [pc EXCEPT ![t] = "release"]
  \/ \E w \in W : pc' = [pc EXCEPT ![t] = "release", ![w] = woken]

\* POSIX allows pthread_cond_wait to return with no signal.
SpuriousWake(t) ==
  /\ \/ pc[t] = "put_wait" /\ pc' = [pc EXCEPT ![t] = "put_woken"]
     \/ pc[t] = "get_wait" /\ pc' = [pc EXCEPT ![t] = "get_woken"]
  /\ UNCHANGED <<op, cur, arg, slot, res, hand>>
  /\ UNCHANGED shared

-----------------------------------------------------------------------------
(* OSAL_QueuePut.                                                          *)

PutCall(t, i, m) ==
  /\ Acquire(i)
  /\ Enter(t, "put", "put", i, m, 0)
  /\ UNCHANGED <<tbl, nextId, mem, valid, ring, tracked>>

\* Mutant: the early return skips osal_queue_release.
MutPutOversize(t) ==
  /\ pc[t] = "put"
  /\ arg[t] = TooBig
  /\ Leave(t)
  /\ UNCHANGED shared

PutOversize(t) ==
  /\ pc[t] = "put"
  /\ arg[t] = TooBig
  /\ Finish(t, "QUEUE_INVALID_SIZE")
  /\ UNCHANGED shared

\* With the queue's mutex held, from the lock or from pthread_cond_wait.
PutRuns(t) == pc[t] = "put_woken" \/ (pc[t] = "put" /\ arg[t] # TooBig)

PutInvalid(t) ==
  /\ PutRuns(t)
  /\ ~valid[cur[t]]
  /\ Finish(t, "INVALID_ID")
  /\ UNCHANGED shared

\* The loop that waits for a free cell is over.
HasRoom(t) == ring[cur[t]].count < Depth

PutWait(t) ==
  /\ PutRuns(t)
  /\ valid[cur[t]]
  /\ ~HasRoom(t)
  /\ pc' = [pc EXCEPT ![t] = "put_wait"]
  /\ UNCHANGED <<op, cur, arg, slot, res, hand>>
  /\ UNCHANGED shared

\* Mutant: the tail stays where it is.
MutWritten(r, m) ==
  [head |-> r.head, tail |-> r.tail, count |-> r.count + 1,
   buf |-> [r.buf EXCEPT ![r.tail] = m]]

\* The ring after a message is written at its tail.
Written(r, m) ==
  [head |-> r.head, tail |-> (r.tail + 1) % Depth, count |-> r.count + 1,
   buf |-> [r.buf EXCEPT ![r.tail] = m]]

PutStore(t) ==
  LET i == cur[t]
  IN /\ PutRuns(t)
     /\ valid[i]
     /\ HasRoom(t)
     /\ ring' = [ring EXCEPT ![i] = Written(@, arg[t])]
     /\ SignalAndRelease(t, NotEmptyWaiters(i), "get_woken")
     /\ res' = [res EXCEPT ![t] = "SUCCESS"]
     /\ UNCHANGED <<op, cur, arg, slot, hand>>
     /\ UNCHANGED <<tbl, nextId, mem, valid, refs, tracked>>

-----------------------------------------------------------------------------
(* OSAL_QueueGet.                                                          *)

GetCall(t, i, mode) ==
  /\ Acquire(i)
  /\ Enter(t, "get", "get", i, mode, 0)
  /\ UNCHANGED <<tbl, nextId, mem, valid, ring, tracked>>

\* With the queue's mutex held and no ETIMEDOUT.
GetRuns(t) == pc[t] \in {"get", "get_woken"}

\* `valid' overrides a timeout.
GetInvalid(t) ==
  /\ GetRuns(t) \/ pc[t] = "get_expired"
  /\ ~valid[cur[t]]
  /\ Finish(t, "INVALID_ID")
  /\ UNCHANGED shared

GetEmpty(t) ==
  /\ GetRuns(t)
  /\ arg[t] = "check"
  /\ valid[cur[t]]
  /\ ring[cur[t]].count = 0
  /\ Finish(t, "QUEUE_EMPTY")
  /\ UNCHANGED shared

\* Mutant: `if' in the place of `while': a woken reader that finds the queue
\* empty again goes on.
MutGetWait(t) ==
  /\ GetRuns(t)
  /\ arg[t] # "check"
  /\ valid[cur[t]]
  /\ ring[cur[t]].count = 0
  /\ IF pc[t] = "get"
       THEN /\ pc' = [pc EXCEPT ![t] = "get_wait"]
            /\ UNCHANGED <<op, cur, arg, slot, res, hand>>
       ELSE Finish(t, "SUCCESS")
  /\ UNCHANGED shared

GetWait(t) ==
  /\ GetRuns(t)
  /\ arg[t] # "check"
  /\ valid[cur[t]]
  /\ ring[cur[t]].count = 0
  /\ pc' = [pc EXCEPT ![t] = "get_wait"]
  /\ UNCHANGED <<op, cur, arg, slot, res, hand>>
  /\ UNCHANGED shared

\* The deadline of pthread_cond_timedwait passes before a wake-up.
GetExpire(t) ==
  /\ pc[t] = "get_wait"
  /\ arg[t] = "timed"
  /\ pc' = [pc EXCEPT ![t] = "get_expired"]
  /\ UNCHANGED <<op, cur, arg, slot, res, hand>>
  /\ UNCHANGED shared

\* ETIMEDOUT with the mutex held again: whatever arrived stays in the queue.
GetTimeout(t) ==
  /\ pc[t] = "get_expired"
  /\ valid[cur[t]]
  /\ Finish(t, "QUEUE_TIMEOUT")
  /\ UNCHANGED shared

\* The ring after the message at its head is read.
Taken(r) ==
  [head |-> (r.head + 1) % Depth, tail |-> r.tail, count |-> r.count - 1,
   buf |-> r.buf]

\* The loop that waits for a message is over when there is one.
CanTake(t) ==
  /\ GetRuns(t)
  /\ valid[cur[t]]
  /\ ring[cur[t]].count > 0

GetTake(t) ==
  LET i == cur[t]
  IN /\ CanTake(t)
     /\ ring' = [ring EXCEPT ![i] = Taken(@)]
     /\ hand' = [hand EXCEPT ![t] = ring[i].buf[ring[i].head]]
     /\ SignalAndRelease(t, NotFullWaiters(i), "put_woken")
     /\ res' = [res EXCEPT ![t] = "SUCCESS"]
     /\ UNCHANGED <<op, cur, arg, slot>>
     /\ UNCHANGED <<tbl, nextId, mem, valid, refs, tracked>>

-----------------------------------------------------------------------------
(* OSAL_QueueDelete.                                                       *)

\* The record leaves the table; its reference goes to the caller.
DeleteCall(t, i) ==
  /\ \E s \in Slots :
       /\ tbl[s].used
       /\ tbl[s].id = i
       /\ tbl' = [tbl EXCEPT ![s] = [@ EXCEPT !.used = FALSE]]
  /\ Enter(t, "delete", "delete", i, None, 0)
  /\ UNCHANGED <<nextId, mem, valid, refs, ring, tracked>>

\* Mutant: not_full is not broadcast.
MutAfterBroadcast(i) ==
  [w \in Threads |->
     IF cur[w] = i /\ pc[w] = "get_wait" THEN "get_woken" ELSE pc[w]]

\* The threads blocked on queue i after both conditions are broadcast.
AfterBroadcast(i) ==
  [w \in Threads |->
     IF cur[w] # i THEN pc[w]
     ELSE IF pc[w] = "put_wait" THEN "put_woken"
     ELSE IF pc[w] = "get_wait" THEN "get_woken"
     ELSE pc[w]]

\* Mutant: the initial reference is not released.
MutDeleteMark(t) ==
  /\ pc[t] = "delete"
  /\ valid' = [valid EXCEPT ![cur[t]] = FALSE]
  /\ pc' = [AfterBroadcast(cur[t]) EXCEPT ![t] = "unregister"]
  /\ res' = [res EXCEPT ![t] = "SUCCESS"]
  /\ UNCHANGED <<op, cur, arg, slot, hand>>
  /\ UNCHANGED <<tbl, nextId, mem, refs, ring, tracked>>

DeleteMark(t) ==
  /\ pc[t] = "delete"
  /\ valid' = [valid EXCEPT ![cur[t]] = FALSE]
  /\ pc' = [AfterBroadcast(cur[t]) EXCEPT ![t] = "release"]
  /\ res' = [res EXCEPT ![t] = "SUCCESS"]
  /\ UNCHANGED <<op, cur, arg, slot, hand>>
  /\ UNCHANGED <<tbl, nextId, mem, refs, ring, tracked>>

Unregister(t) ==
  /\ pc[t] = "unregister"
  /\ tracked' = tracked \ {cur[t]}
  /\ Leave(t)
  /\ UNCHANGED <<tbl, nextId, mem, valid, refs, ring>>

\* OSAL_QueueGetIdByName: the ids it can answer.
GetIdByName(n) == {tbl[s].id : s \in {r \in Slots : tbl[r].used /\ tbl[r].name = n}}

-----------------------------------------------------------------------------
(* The next-state relation.                                                *)

\* A thread makes a call.
Call(t) ==
  \/ \E n \in Names : CreateFind(t, n)
  \/ \E i \in Ids, m \in Msgs \cup {TooBig} : PutCall(t, i, m)
  \/ \E i \in Ids, mode \in Modes : GetCall(t, i, mode)
  \/ \E i \in Ids : DeleteCall(t, i)

\* A thread goes on with the call it is in; it is not blocked.
Step(t) ==
  \/ CreateFill(t) \/ CreateFail(t)
  \/ PutOversize(t) \/ PutInvalid(t) \/ PutWait(t) \/ PutStore(t)
  \/ GetInvalid(t) \/ GetEmpty(t) \/ GetWait(t) \/ GetTimeout(t) \/ GetTake(t)
  \/ DeleteMark(t) \/ Release(t) \/ Drop(t) \/ Unregister(t)

Next ==
  \E t \in Threads : Call(t) \/ Step(t) \/ GetExpire(t) \/ SpuriousWake(t)

Spec == Init /\ [][Next]_vars

\* Every thread that is not blocked runs, and every mutex request is granted
\* in the end: weak fairness of Step.  The deadline of a timed Get is
\* absolute, so a thread that waits again and again meets it: strong
\* fairness of GetExpire.  Nobody is obliged to make a call.
Fairness ==
  \A t \in Threads : WF_vars(Step(t)) /\ SF_vars(GetExpire(t))

FairSpec == Spec /\ Fairness

-----------------------------------------------------------------------------
(* Safety.                                                                 *)

RingType == [head : 0..(Depth - 1), tail : 0..(Depth - 1), count : 0..Depth,
             buf : [0..(Depth - 1) -> Msgs \cup {NoMsg}]]

\* Every variable has its type: head and tail stay inside the buffer and
\* count never exceeds the depth, so no Put writes outside it.
TypeOK ==
  /\ tbl \in [Slots -> [used : BOOLEAN, id : 0..MaxId,
                        name : Names \cup {None}]]
  /\ nextId \in 1..(MaxId + 1)
  /\ mem \in [Ids -> {"none", "live", "freed"}]
  /\ valid \in [Ids -> BOOLEAN]
  /\ refs \in [Ids -> Nat]
  /\ ring \in [Ids -> RingType]
  /\ tracked \subseteq Ids
  /\ pc \in [Threads -> Pcs]
  /\ op \in [Threads -> {"none", "create", "put", "get", "delete"}]
  /\ cur \in [Threads -> 0..MaxId]
  /\ arg \in [Threads -> Msgs \cup {TooBig} \cup Modes \cup Names \cup {None}]
  /\ slot \in [Threads -> 0..NSlots]
  /\ res \in [Threads -> Results]
  /\ hand \in [Threads -> Msgs \cup {NoMsg}]

\* The thread's next step dereferences its queue_impl_t.
Uses(t) == pc[t] \in HoldPcs \cup {"drop"}

\* A thread between osal_queue_acquire (or the removal of the record) and
\* the end of osal_queue_release never meets a queue another thread has
\* freed, and the thread that frees it frees it once.
NoUseAfterFree == \A t \in Threads : Uses(t) => mem[cur[t]] = "live"

Holders(i) == {t \in Threads : pc[t] \in HoldPcs /\ cur[t] = i}

\* The initial reference is still the table's: no delete has taken it.
Owned(i) ==
  /\ mem[i] = "live"
  /\ valid[i]
  /\ ~\E t \in Threads : pc[t] = "delete" /\ cur[t] = i

\* ref_count is the number of threads inside a call on the queue, plus the
\* initial reference until OSAL_QueueDelete takes it.
RefCountExact ==
  \A i \in Ids : refs[i] = Cardinality(Holders(i)) + (IF Owned(i) THEN 1 ELSE 0)

\* No queue is freed while the table still leads to it: osal_queue_acquire
\* never increments the count of freed memory.
TableLive ==
  \A s \in Slots : tbl[s].used => mem[tbl[s].id] = "live" /\ valid[tbl[s].id]

Awake(i, p) == Cardinality({t \in Threads : pc[t] = p /\ cur[t] = i})

\* No wake-up is lost: a reader stays blocked only while every message in
\* the queue has a reader already woken for it, a writer only while every
\* free cell has a writer already woken, and none once the queue is invalid.
NoLostWakeup ==
  \A i \in Ids :
    /\ NotEmptyWaiters(i) # {} =>
         valid[i] /\ Awake(i, "get_woken") >= ring[i].count
    /\ NotFullWaiters(i) # {} =>
         valid[i] /\ Awake(i, "put_woken") >= Depth - ring[i].count

\* OSAL_QueueGet reports success exactly when it hands over a message, even
\* when another reader took the message a blocked reader was woken for.
GetReportsDelivery ==
  \A t \in Threads :
    op[t] = "get" => (res[t] = "SUCCESS" <=> hand[t] # NoMsg)

\* Two queues in use never share a name: OSAL_QueueGetIdByName has at most
\* one answer, although the slot is searched in an earlier critical section.
UniqueNames == \A n \in Names : Cardinality(GetIdByName(n)) <= 1

Idle == \A t \in Threads : pc[t] = "idle"

\* When no call is in progress the resource tracker lists exactly the queues
\* whose memory is allocated: nothing leaks unseen, nothing freed is listed.
TrackedExactly == Idle => tracked = {i \in Ids : mem[i] = "live"}

\* A queue stays reachable by its id until OSAL_QueueDelete takes it.
Reachable == \A i \in Ids : Owned(i) => InTable(i)

-----------------------------------------------------------------------------
(* The inductive strengthening of NoUseAfterFree and RefCountExact.         *)

\* What a thread at a point of a call knows of its arguments.
LocalInv ==
  \A t \in Threads :
    /\ pc[t] = "create" => arg[t] \in Names /\ slot[t] \in Slots
    /\ pc[t] \in {"put", "put_wait", "put_woken"} => arg[t] \in Msgs \cup {TooBig}
    /\ pc[t] \in {"put_wait", "put_woken"} => arg[t] # TooBig
    /\ Uses(t) \/ pc[t] = "unregister" => cur[t] \in Ids

\* Ids are given out once: an id not yet given out belongs to nothing.
FreshInv ==
  /\ \A i \in Ids : i >= nextId => mem[i] = "none"
  /\ \A i \in Ids : valid[i] => mem[i] = "live"
  /\ \A s \in Slots : tbl[s].used => tbl[s].id \in Ids

\* An id is in one slot at most, and in none once it is being deleted; one
\* thread deletes it.
DeleteInv ==
  /\ \A r, s \in Slots :
       (tbl[r].used /\ tbl[s].used /\ tbl[r].id = tbl[s].id) => r = s
  /\ \A t \in Threads : pc[t] = "delete" => valid[cur[t]] /\ ~InTable(cur[t])
  /\ \A t, u \in Threads :
       (pc[t] = "delete" /\ pc[u] = "delete" /\ cur[t] = cur[u]) => t = u

\* The thread that saw the count fall to 0 is alone, and the queue invalid.
DropInv ==
  /\ \A t \in Threads :
       pc[t] = "drop" => refs[cur[t]] = 0 /\ ~valid[cur[t]]
  /\ \A t, u \in Threads :
       (pc[t] = "drop" /\ pc[u] = "drop" /\ cur[t] = cur[u]) => t = u

\* The whole life of a queue, from the table to the last release: the
\* conjunction that every step preserves.
LifeInv ==
  /\ TypeOK
  /\ LocalInv
  /\ FreshInv
  /\ NoUseAfterFree
  /\ RefCountExact
  /\ TableLive
  /\ DeleteInv
  /\ DropInv

-----------------------------------------------------------------------------
(* The inductive strengthening of GetReportsDelivery and ImplementsFifo.    *)

\* The cells from head on hold messages, and tail is the one behind them.
RingHolds(r) ==
  /\ r.tail = (r.head + r.count) % Depth
  /\ \A k \in 1..r.count : r.buf[(r.head + k - 1) % Depth] \in Msgs

\* What the point a thread is at says of its call and of its answer.
AnswerInv ==
  \A t \in Threads :
    /\ pc[t] \in {"idle", "create"} => res[t] = "none" /\ hand[t] = NoMsg
    /\ pc[t] \in {"put", "put_wait", "put_woken"} => op[t] = "put"
    /\ pc[t] \in {"get", "get_wait", "get_woken", "get_expired"} =>
         op[t] = "get" /\ res[t] = "none" /\ hand[t] = NoMsg
    /\ pc[t] \in {"delete", "unregister"} => op[t] = "delete"
    /\ op[t] = "get" => (res[t] = "SUCCESS" <=> hand[t] # NoMsg)

\* What is in the rings and in the hands of the readers.
DataInv ==
  /\ \A i \in Ids : RingHolds(ring[i])
  /\ AnswerInv

-----------------------------------------------------------------------------
(* The inductive strengthening of TrackedExactly and UniqueNames.           *)

\* The thread has marked the queue invalid and not yet unregistered it.
Retiring(t) == op[t] = "delete" /\ pc[t] \in {"release", "drop", "unregister"}

\* The tracker lists the valid queues and those whose delete is not over, and
\* memory nobody refers to is about to be freed by the last one out.
TrackInv ==
  /\ \A t \in Threads : Retiring(t) => ~valid[cur[t]] /\ mem[cur[t]] # "none"
  /\ \A i \in Ids : valid[i] => i \in tracked
  /\ \A i \in tracked :
       valid[i] \/ \E t \in Threads : Retiring(t) /\ cur[t] = i
  /\ \A i \in Ids :
       (mem[i] = "live" /\ refs[i] = 0)
         => \E t \in Threads : pc[t] = "drop" /\ cur[t] = i

\* A name is in one slot at most.
NameInv ==
  \A r, s \in Slots :
    (tbl[r].used /\ tbl[s].used /\ tbl[r].name = tbl[s].name) => r = s

-----------------------------------------------------------------------------
(* The queue implements the abstract FIFO: the messages in the ring, from  *)
(* head on, are the content, until the queue is marked invalid.            *)

Content(r) == [k \in 1..r.count |-> r.buf[(r.head + k - 1) % Depth]]

Phase == [i \in Ids |-> IF mem[i] = "none" THEN "new"
                        ELSE IF valid[i] THEN "open"
                        ELSE "closed"]

Held == [i \in Ids |-> IF valid[i] THEN Content(ring[i]) ELSE <<>>]

Fifo == INSTANCE BoundedFifo
          WITH Callers <- Threads, Queues <- Ids,
               phase <- Phase, content <- Held, hand <- hand

\* Every step on the shared ring is a step of a bounded FIFO: no message is
\* lost, duplicated, reordered or handed to two readers, and none is
\* delivered or accepted after the queue is marked invalid.
ImplementsFifo == Fifo!FifoSpec

-----------------------------------------------------------------------------
(* Liveness.                                                               *)

\* A deleted queue is freed: the last thread out gives the memory back, even
\* when readers and writers were blocked on it.
DeletedIsFreed ==
  \A i \in Ids :
    (\E t \in Threads : pc[t] = "delete" /\ cur[t] = i) ~> (mem[i] = "freed")

Blocked(t) == pc[t] \in {"put_wait", "get_wait"}

\* OSAL_QueueDelete wakes every blocked thread, and each one returns.
BlockedCallReturns ==
  \A t \in Threads, i \in Ids :
    (Blocked(t) /\ cur[t] = i /\ \E d \in Threads : pc[d] = "delete" /\ cur[d] = i)
      ~> (pc[t] = "idle")

\* OSAL_QueueGet with a timeout returns, whoever takes the messages.
TimedGetReturns ==
  \A t \in Threads : (op[t] = "get" /\ arg[t] = "timed") ~> (pc[t] = "idle")

=============================================================================
