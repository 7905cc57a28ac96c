----------------------------- MODULE SampleApp -----------------------------
(***************************************************************************)
(* The sample application, apps/sample_app/src/main.c: the main thread, a  *)
(* worker task that puts messages and a statistics task that gets them,    *)
(* over the tasks and the queue of OSAL as OsalTask and OsalQueue show     *)
(* them.                                                                   *)
(*                                                                         *)
(* No clock: a time-out comes only where the time can pass.  The deletion  *)
(* of a task waits 5 s, and ends without the task only if that is in a     *)
(* call that lasts longer: the worker in Put on a full queue nobody gets   *)
(* from, as Put has no time-out, or the statistics task in a Get of 5 s    *)
(* that it began after the deletion.  When main returns the process ends,  *)
(* and every task with it.                                                 *)
(***************************************************************************)
EXTENDS Naturals

CONSTANT QueueDepth  \* QUEUE_DEPTH

ASSUME AppAssumption == QueueDepth \in Nat \ {0}

AppTasks == {"worker", "stats"}

VARIABLES
  appMain,     \* what main does next
  appRunning,  \* g_running
  appTask,     \* where each task is
  appShut,     \* the shutdown request of each task
  appQueue,    \* "none", "live" or "deleted"
  appCount,    \* messages in the queue
  appLate      \* the Get of the statistics task began after its deletion

appVars == <<appMain, appRunning, appTask, appShut, appQueue, appCount, appLate>>

AppInit ==
  /\ appMain = <<"create", "queue">>
  /\ appRunning = TRUE
  /\ appTask = [t \in AppTasks |-> "none"]
  /\ appShut = [t \in AppTasks |-> FALSE]
  /\ appQueue = "none"
  /\ appCount = 0
  /\ appLate = FALSE

Created(t) == appTask[t] # "none"
TaskGoto(t, p) == appTask' = [appTask EXCEPT ![t] = p]

-----------------------------------------------------------------------------
(* main.                                                                   *)

\* The handler of SIGINT and SIGTERM.
SignalHandler ==
  /\ appRunning
  /\ appMain # <<"exited">>
  /\ appRunning' = FALSE
  /\ UNCHANGED <<appMain, appTask, appShut, appQueue, appCount, appLate>>

\* Mutant: the statistics task is deleted first.
MutAfterDelete(t) == IF t = "stats" THEN "worker" ELSE "queue"

\* What is deleted after task t.
AfterDelete(t) == IF t = "worker" THEN "stats" ELSE "queue"
Cleanup == <<"delete", CHOOSE t \in AppTasks : \A u \in AppTasks : AfterDelete(u) # t>>

\* A failure goes to the cleanup.
MainCreatesQueue ==
  /\ appMain = <<"create", "queue">>
  /\ \/ appQueue' = "live" /\ appMain' = <<"create", "worker">>
     \/ appMain' = Cleanup /\ UNCHANGED appQueue
  /\ UNCHANGED <<appRunning, appTask, appShut, appCount, appLate>>

MainCreates(t, next) ==
  /\ appMain = <<"create", t>>
  /\ \/ TaskGoto(t, "check") /\ appMain' = next
     \/ appMain' = Cleanup /\ UNCHANGED appTask
  /\ UNCHANGED <<appRunning, appShut, appQueue, appCount, appLate>>

MainStops ==
  /\ appMain = <<"run">>
  /\ ~appRunning
  /\ appMain' = Cleanup
  /\ UNCHANGED <<appRunning, appTask, appShut, appQueue, appCount, appLate>>

\* OSAL_TaskDelete asks the task, or is not called.
MainAsks(t) ==
  /\ appMain = <<"delete", t>>
  /\ IF Created(t)
     THEN appMain' = <<"join", t>> /\ appShut' = [appShut EXCEPT ![t] = TRUE]
     ELSE appMain' = <<"delete", AfterDelete(t)>> /\ UNCHANGED appShut
  /\ UNCHANGED <<appRunning, appTask, appQueue, appCount, appLate>>

MainJoins(t) ==
  /\ appMain = <<"join", t>>
  /\ appTask[t] = "ended"
  /\ appMain' = <<"delete", AfterDelete(t)>>
  /\ UNCHANGED <<appRunning, appTask, appShut, appQueue, appCount, appLate>>

\* The task is in a call that lasts longer than OSAL_TaskDelete waits.
Outlasts(t) ==
  IF t = "worker"
  THEN appTask[t] = "put" /\ appCount = QueueDepth /\ appTask["stats"] \in {"none", "ended"}
  ELSE appTask[t] = "get" /\ appCount = 0 /\ appLate

\* main logs the OSAL_ERR_TIMEOUT and goes on.
MainTimesOut(t) ==
  /\ appMain = <<"join", t>>
  /\ Outlasts(t)
  /\ appMain' = <<"delete", AfterDelete(t)>>
  /\ UNCHANGED <<appRunning, appTask, appShut, appQueue, appCount, appLate>>

MainDeletesQueue ==
  /\ appMain = <<"delete", "queue">>
  /\ appQueue' = IF appQueue = "live" THEN "deleted" ELSE appQueue
  /\ appMain' = <<"exited">>
  /\ UNCHANGED <<appRunning, appTask, appShut, appCount, appLate>>

-----------------------------------------------------------------------------
(* worker_task and stats_task.                                             *)

Runs(t, p) == appMain # <<"exited">> /\ appTask[t] = p

\* OSAL_TaskShouldShutdown.
TaskChecks(t, next) ==
  /\ Runs(t, "check")
  /\ TaskGoto(t, IF appShut[t] THEN "ended" ELSE next)
  /\ UNCHANGED <<appMain, appRunning, appShut, appQueue, appCount, appLate>>

WorkerPuts ==
  /\ Runs("worker", "put")
  /\ \/ appQueue = "live" /\ appCount < QueueDepth /\ appCount' = appCount + 1
     \/ appQueue = "deleted" /\ UNCHANGED appCount
  /\ TaskGoto("worker", "delay")
  /\ UNCHANGED <<appMain, appRunning, appShut, appQueue, appLate>>

WorkerDelays ==
  /\ Runs("worker", "delay")
  /\ TaskGoto("worker", "check")
  /\ UNCHANGED <<appMain, appRunning, appShut, appQueue, appCount, appLate>>

StatsBegins ==
  /\ Runs("stats", "begin")
  /\ TaskGoto("stats", "get")
  /\ appLate' = (appMain = <<"join", "stats">>)
  /\ UNCHANGED <<appMain, appRunning, appShut, appQueue, appCount>>

StatsGets ==
  /\ Runs("stats", "get")
  /\ appQueue = "live"
  /\ appCount > 0
  /\ appCount' = appCount - 1
  /\ TaskGoto("stats", "check")
  /\ UNCHANGED <<appMain, appRunning, appShut, appQueue, appLate>>

\* OSAL_ERR_QUEUE_TIMEOUT: it shows the count and goes on.
StatsTimesOut ==
  /\ Runs("stats", "get")
  /\ appQueue = "live"
  /\ appCount = 0
  /\ TaskGoto("stats", "check")
  /\ UNCHANGED <<appMain, appRunning, appShut, appQueue, appCount, appLate>>

\* Any other answer breaks the loop.
StatsBreaks ==
  /\ Runs("stats", "get")
  /\ appQueue = "deleted"
  /\ TaskGoto("stats", "ended")
  /\ UNCHANGED <<appMain, appRunning, appShut, appQueue, appCount, appLate>>

-----------------------------------------------------------------------------
MainStep ==
  \/ MainCreatesQueue
  \/ MainCreates("worker", <<"create", "stats">>) \/ MainCreates("stats", <<"run">>)
  \/ MainStops
  \/ \E t \in AppTasks : MainAsks(t) \/ MainJoins(t) \/ MainTimesOut(t)
  \/ MainDeletesQueue

WorkerStep == TaskChecks("worker", "put") \/ WorkerPuts \/ WorkerDelays
StatsStep ==
  TaskChecks("stats", "begin") \/ StatsBegins \/ StatsGets \/ StatsTimesOut \/ StatsBreaks

AppNext == SignalHandler \/ MainStep \/ WorkerStep \/ StatsStep

AppSpec == AppInit /\ [][AppNext]_appVars

\* Every thread goes on when it can.
AppFairness == /\ WF_appVars(MainStep)
               /\ WF_appVars(WorkerStep)
               /\ WF_appVars(StatsStep)

-----------------------------------------------------------------------------
(* Properties.                                                             *)

\* main.c:216-265: if both tasks ran, main leaves no worker behind: a worker blocked
\* on the full queue is let go by the statistics task, which is only asked to end
\* when the worker has.
NoWorkerLeft ==
  appMain = <<"exited">> /\ Created("stats") => appTask["worker"] = "ended"

\* After the signal main ends, and leaves no worker behind.
AppShutsDown == ~appRunning ~> (appMain = <<"exited">> /\ NoWorkerLeft)
=============================================================================
