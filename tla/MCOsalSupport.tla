--------------------------- MODULE MCOsalSupport ---------------------------
(***************************************************************************)
(* Small instances for TLC of the components beside OSAL's queues and      *)
(* tasks, and of the sample application.  A behaviour is one of one of     *)
(* them: `part' says of which, and the others stay as they are.            *)
(***************************************************************************)
EXTENDS OsalMutex, OsalTracker, OsalHeap, OsalLog, SampleApp

CONSTANTS cb1, cb2

VARIABLE part

supportVars == <<part, mutexVars, trackerVars, heapVars, logVars, appVars>>

SupportInit ==
  /\ part \in {"mutex", "tracker", "heap", "log", "app"}
  /\ MutexInit /\ TrackerInit /\ HeapInit /\ LogInitially /\ AppInit
  /\ part # "log" => logLevel = 1 /\ maxLogSize = 1 /\ maxLogFiles = 1
  /\ part # "heap" => heapThreshold = 0

Only(p) ==
  /\ part = p
  /\ UNCHANGED part
  /\ p # "mutex" => UNCHANGED mutexVars
  /\ p # "tracker" => UNCHANGED trackerVars
  /\ p # "heap" => UNCHANGED heapVars
  /\ p # "log" => UNCHANGED logVars
  /\ p # "app" => UNCHANGED appVars

SupportNext ==
  \/ Only("mutex") /\ MutexNext
  \/ Only("tracker") /\ TrackerNext
  \/ Only("heap") /\ HeapNext
  \/ Only("log") /\ LogNext
  \/ Only("app") /\ AppNext

\* The application takes its steps in its own behaviours only.
SupportSpec ==
  /\ SupportInit /\ [][SupportNext]_supportVars
  /\ MutexFairness
  /\ part = "app" => AppFairness

DeadlockSettings == {[threshold |-> 1, callback |-> cb1], [threshold |-> 2, callback |-> cb2]}
SomeKeys == {[type |-> "task", id |-> 1], [type |-> "task", id |-> 2]}
ProcReadings == {<<0, 0>>, <<3, 4>>, <<5, 5>>}
=============================================================================
