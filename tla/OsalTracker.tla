---------------------------- MODULE OsalTracker ----------------------------
(***************************************************************************)
(* The resource tracker, osal/src/posix/util/osal_resource_tracker.c, and  *)
(* the calls the tasks, queues and mutexes of OSAL make on it.             *)
(*                                                                         *)
(* Every operation is one critical section of g_resource_mutex.  An object *)
(* is registered some time after it exists and unregistered some time      *)
(* after it is gone (osal_mutex.c:85-88, 123-129, osal_task.c:281-284,     *)
(* 382-384).  So another thread may delete it, by its name, and unregister *)
(* it before it is registered; its key, the type and the id, may be that   *)
(* of a new object by then, as the ids of tasks are reused; and two        *)
(* deletions that overlap unregister it twice.  A key or type out of range *)
(* is a stuttering step.  Names, files and line numbers are left out.      *)
(***************************************************************************)
EXTENDS Naturals, FiniteSets

CONSTANTS TrackedObjects,  \* tasks, queues and mutexes
          TrackedKeys,     \* [type, id] records
          TrackerSize,     \* OSAL_MAX_TRACKED_RESOURCES
          MaxTotal,        \* bound: total_created of a type
          NoKey

ASSUME TrackerAssumption ==
  /\ IsFiniteSet(TrackedObjects)
  /\ TrackerSize \in Nat
  /\ MaxTotal \in Nat
  /\ NoKey \notin TrackedKeys

VARIABLES
  trackerTable,   \* g_resource_table, NoKey where not in_use
  trackerStats,   \* g_resource_stats
  object,         \* [key, entry, life]: its Register is due or made; it lives,
                  \* is gone with its Unregister to come, or all is over
  trackerEarly,   \* history: keys unregistered before they were registered
  trackerMissed,  \* history: keys of a dropped entry or a second Unregister
  trackerReset    \* history: the statistics were reset

trackerHistory == <<trackerEarly, trackerMissed, trackerReset>>
trackerVars == <<trackerTable, trackerStats, object, trackerHistory>>

TrackerSlots == 1..TrackerSize
TrackedTypes == {k.type : k \in TrackedKeys}
NoCounts == [created |-> 0, deleted |-> 0, current |-> 0, peak |-> 0]

TrackerInit ==
  /\ trackerTable = [s \in TrackerSlots |-> NoKey]
  /\ trackerStats = [y \in TrackedTypes |-> NoCounts]
  /\ object = [o \in TrackedObjects |-> [key |-> NoKey, entry |-> "made", life |-> "over"]]
  /\ trackerEarly = {} /\ trackerMissed = {} /\ trackerReset = FALSE

-----------------------------------------------------------------------------
\* The object is created, to be registered.
ObjectCreate(o, k) ==
  /\ object[o].entry = "made" /\ object[o].life = "over"
  /\ trackerStats[k.type].created < MaxTotal
  /\ \A p \in TrackedObjects : object[p].key = k => object[p].life # "live"
  /\ object' = [object EXCEPT ![o] = [key |-> k, entry |-> "due", life |-> "live"]]
  /\ UNCHANGED <<trackerTable, trackerStats, trackerHistory>>

\* The object is deleted, registered or not, to be unregistered.
ObjectDelete(o) ==
  /\ object[o].life = "live"
  /\ object' = [object EXCEPT ![o].life = "gone"]
  /\ UNCHANGED <<trackerTable, trackerStats, trackerHistory>>

FirstSlot(s, K) ==
  trackerTable[s] \in K /\ \A r \in TrackerSlots : r < s => trackerTable[r] \notin K

FindFreeSlot(s) == FirstSlot(s, {NoKey})
FindResource(s, k) == FirstSlot(s, {k})

Entered(c) ==
  [c EXCEPT !.created = @ + 1, !.current = @ + 1,
            !.peak = IF c.current + 1 > @ THEN c.current + 1 ELSE @]

Removed(c) ==
  [c EXCEPT !.deleted = @ + 1, !.current = IF @ > 0 THEN @ - 1 ELSE @]

\* OSAL_ResourceRegister; with the table full the entry is dropped.
ResourceRegister(o) ==
  LET k == object[o].key IN
  /\ object[o].entry = "due"
  /\ object' = [object EXCEPT ![o].entry = "made"]
  /\ \/ \E s \in TrackerSlots :
          /\ FindFreeSlot(s)
          /\ trackerTable' = [trackerTable EXCEPT ![s] = k]
          /\ trackerStats' = [trackerStats EXCEPT ![k.type] = Entered(@)]
          /\ UNCHANGED trackerMissed
     \/ /\ \A s \in TrackerSlots : trackerTable[s] # NoKey
        /\ trackerMissed' = trackerMissed \cup {k}
        /\ UNCHANGED <<trackerTable, trackerStats>>
  /\ UNCHANGED <<trackerEarly, trackerReset>>

\* An Unregister is to come, or a second deletion of the object makes one more.
Unregistering(o) ==
  LET k == object[o].key IN
  /\ k # NoKey
  /\ object[o].life \in {"gone", "over"}
  /\ object' = [object EXCEPT ![o].life = "over"]
  /\ trackerEarly' = IF object[o].entry = "due" THEN trackerEarly \cup {k} ELSE trackerEarly
  /\ trackerMissed' = IF object[o].life = "over" THEN trackerMissed \cup {k} ELSE trackerMissed
  /\ UNCHANGED trackerReset

\* Mutant: every entry of the key is removed.
MutResourceUnregister(o) ==
  LET k == object[o].key IN
  /\ Unregistering(o)
  /\ trackerTable' = [s \in TrackerSlots |->
                        IF trackerTable[s] = k THEN NoKey ELSE trackerTable[s]]
  /\ trackerStats' = [trackerStats EXCEPT ![k.type] = Removed(@)]

\* OSAL_ResourceUnregister.
ResourceUnregister(o) ==
  LET k == object[o].key IN
  /\ Unregistering(o)
  /\ \/ \E s \in TrackerSlots :
          /\ FindResource(s, k)
          /\ trackerTable' = [trackerTable EXCEPT ![s] = NoKey]
          /\ trackerStats' = [trackerStats EXCEPT ![k.type] = Removed(@)]
     \/ /\ \A s \in TrackerSlots : trackerTable[s] # k
        /\ UNCHANGED <<trackerTable, trackerStats>>

\* OSAL_ResourceResetStats leaves the table as it is.
ResourceResetStats ==
  /\ trackerStats' = [y \in TrackedTypes |-> NoCounts]
  /\ trackerReset' = TRUE
  /\ UNCHANGED <<trackerTable, object, trackerEarly, trackerMissed>>

\* OSAL_ResourceCheckLeaks and OSAL_ResourceGetStats.
ResourceCheckLeaks == {s \in TrackerSlots : trackerTable[s] # NoKey}
ResourceGetStats(y) == trackerStats[y]

-----------------------------------------------------------------------------
TrackerNext ==
  \/ \E o \in TrackedObjects :
       \/ \E k \in TrackedKeys : ObjectCreate(o, k)
       \/ ObjectDelete(o) \/ ResourceRegister(o) \/ ResourceUnregister(o)
  \/ ResourceResetStats

TrackerSpec == TrackerInit /\ [][TrackerNext]_trackerVars

-----------------------------------------------------------------------------
(* Properties.                                                             *)

Entries(k) == {s \in TrackerSlots : trackerTable[s] = k}

\* Registered and not unregistered, and unregistered with the registration to come.
Registered(k) ==
  {o \in TrackedObjects : object[o].key = k /\ object[o].entry = "made" /\ object[o].life # "over"}
Overtaken(k) ==
  {o \in TrackedObjects : object[o].key = k /\ object[o].entry = "due" /\ object[o].life = "over"}

\* osal_resource_tracker.c:72-190: CheckLeaks names no object that was unregistered,
\* though keys are reused before they are unregistered, unless one of its key was
\* unregistered before it was registered; it names every object, though one was,
\* unless an entry was dropped or one unregistered twice, and but for those whose
\* late Register is still to come.  current_count is the number of entries until
\* the statistics are reset, and never more.
TrackerExact ==
  /\ \A k \in TrackedKeys :
       /\ k \notin trackerEarly => Cardinality(Entries(k)) <= Cardinality(Registered(k))
       /\ k \notin trackerMissed =>
            Cardinality(Registered(k)) <= Cardinality(Entries(k)) + Cardinality(Overtaken(k))
  /\ \A y \in TrackedTypes :
       LET c == ResourceGetStats(y)
           listed == {s \in ResourceCheckLeaks : trackerTable[s].type = y}
       IN  /\ c.current <= Cardinality(listed)
           /\ c.current <= c.peak
           /\ ~trackerReset => /\ c.current = Cardinality(listed)
                               /\ c.created = c.deleted + c.current
=============================================================================
