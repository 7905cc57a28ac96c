---------------------------- MODULE TaskService ----------------------------
(***************************************************************************)
(* What OSAL promises those who create and delete tasks, with no slots,    *)
(* bit map, locks or condition variables: a task is listed from its        *)
(* creation until it is removed, under an id and a name no other task has; *)
(* its thread is started once and runs once; and a task is removed only    *)
(* when its thread has ended.                                              *)
(***************************************************************************)
EXTENDS Naturals

CONSTANTS TaskIds,  \* the ids a task can have
          Titles,   \* the names
          Workers   \* the threads that can be started

VARIABLES listed,  \* the tasks, each with its id, its name and its thread
          life     \* "new", "running" or "ended", of each thread

serviceVars == <<listed, life>>

ServiceInit == listed = {} /\ life = [h \in Workers |-> "new"]

Start(i, n, h) ==
  /\ life[h] = "new"
  /\ \A r \in listed : r.id # i /\ r.name # n
  /\ listed' = listed \cup {[id |-> i, name |-> n, thr |-> h]}
  /\ life' = [life EXCEPT ![h] = "running"]

\* Whether it was asked to or not.
End(h) ==
  /\ life[h] = "running"
  /\ life' = [life EXCEPT ![h] = "ended"]
  /\ UNCHANGED listed

Remove(r) ==
  /\ r \in listed
  /\ life[r.thr] = "ended"
  /\ listed' = listed \ {r}
  /\ UNCHANGED life

ServiceNext ==
  \/ \E i \in TaskIds, n \in Titles, h \in Workers : Start(i, n, h)
  \/ \E h \in Workers : End(h)
  \/ \E r \in listed : Remove(r)

ServiceSpec == ServiceInit /\ [][ServiceNext]_serviceVars

\* The inductive strengthening of ServiceSound: a listed thread was started.
ServiceFresh ==
  /\ life \in [Workers -> {"new", "running", "ended"}]
  /\ \A r \in listed : r.thr \in Workers /\ life[r.thr] # "new"

\* Every thread that runs is listed, and no two tasks have one id, name or thread:
\* whoever has the id of a task can wait for its thread, and for no other.
ServiceSound ==
  /\ \A h \in Workers : life[h] = "running" => \E r \in listed : r.thr = h
  /\ \A q, r \in listed :
       q.id = r.id \/ q.name = r.name \/ q.thr = r.thr => q = r
=============================================================================
