----------------------------- MODULE OsalMutex -----------------------------
(***************************************************************************)
(* Mutexes of OSAL, osal/src/posix/ipc/osal_mutex.c.                       *)
(*                                                                         *)
(* Every call looks its record up under g_mutex_table_mutex and uses the   *)
(* pthread mutex inside the record after the table is unlocked.  A step is *)
(* one critical section of the table, one call of pthread_mutex_lock,      *)
(* timedlock, unlock or destroy, or a call of the resource tracker.        *)
(*                                                                         *)
(* A mutex is only ever unlocked by the thread that holds it.  With Quiet  *)
(* nobody deletes a mutex that is held, or on which another call is under  *)
(* way; a call that begins later than the deletion may come at any time.   *)
(* The time a timed lock has waited is any of Waits.                       *)
(*                                                                         *)
(* A call that returns at once and changes nothing is a stuttering step.   *)
(* The definitions carry the prefix Mutex so that a module can extend this *)
(* one with others; Mut... is a fault to see that a property notices.      *)
(***************************************************************************)
EXTENDS Naturals, FiniteSets

CONSTANTS MutexThreads,  \* threads that call
          MutexSlots,    \* 1..OS_MAX_MUTEXES
          MaxMutexId,    \* bound: mutexes ever created
          MutexNames,    \* names
          Settings,      \* [threshold, callback] pairs of SetDeadlockDetection
          Waits,         \* how long a timed lock may have waited
          Quiet,         \* TRUE: callers delete only what nobody uses
          Nobody         \* no thread, no name, no callback

ASSUME MutexAssumption ==
  /\ MaxMutexId \in Nat
  /\ MutexSlots \subseteq Nat \ {0}
  /\ Nobody \notin MutexThreads \cup MutexNames
  /\ Quiet \in BOOLEAN

VARIABLES
  mutexTable,   \* g_osal_mutex_table
  nextMutexId,  \* g_next_mutex_id
  detection,    \* g_deadlock_threshold_msec and g_deadlock_callback
  mutexTracked, \* the ids the resource tracker lists
  mutexPc,      \* where each thread is
  mutexArg,     \* the mutex_id of the call, or wait_time in the callback
  mutexSlot,    \* target_mutex, mutex_to_destroy
  mutexSeen     \* the threshold and the callback it has read

mutexCalls == <<mutexPc, mutexArg, mutexSlot>>
mutexVars == <<mutexTable, nextMutexId, detection, mutexTracked, mutexCalls, mutexSeen>>

MutexIds == 1..MaxMutexId
NoSetting == [threshold |-> 0, callback |-> Nobody]

\* The calls that hold a pointer to the pthread mutex of a record.
MutexUses == {"lock", "timed", "unlock", "destroy"}

MutexInit ==
  /\ mutexTable = [s \in MutexSlots |->
       [used |-> FALSE, id |-> 0, name |-> Nobody, valid |-> FALSE,
        live |-> FALSE, owner |-> Nobody]]
  /\ nextMutexId = 1
  /\ detection = NoSetting
  /\ mutexTracked = {}
  /\ mutexPc = [t \in MutexThreads |-> "idle"]
  /\ mutexArg = [t \in MutexThreads |-> 0]
  /\ mutexSlot = [t \in MutexThreads |-> 0]
  /\ mutexSeen = [t \in MutexThreads |-> NoSetting]

MutexGoto(t, p, i, s) ==
  /\ mutexPc' = [mutexPc EXCEPT ![t] = p]
  /\ mutexArg' = [mutexArg EXCEPT ![t] = i]
  /\ mutexSlot' = [mutexSlot EXCEPT ![t] = s]

MutexReturn(t) == MutexGoto(t, "idle", 0, 0)

MutexHolds(t, s) == mutexTable[s].owner = t
MutexFree(s) == mutexTable[s].owner = Nobody

-----------------------------------------------------------------------------
(* OSAL_MutexCreate: search, comparison of names and filling are one       *)
(* critical section; the registration follows it.                          *)

MutexFirstFree(s) ==
  /\ ~mutexTable[s].used
  /\ \A r \in MutexSlots : r < s => mutexTable[r].used

MutexCreate(t, n) ==
  /\ mutexPc[t] = "idle"
  /\ nextMutexId <= MaxMutexId
  /\ \A s \in MutexSlots : mutexTable[s].used => mutexTable[s].name # n
  /\ \E s \in MutexSlots :
       /\ MutexFirstFree(s)
       /\ mutexTable' = [mutexTable EXCEPT ![s] =
            [used |-> TRUE, id |-> nextMutexId, name |-> n, valid |-> TRUE,
             live |-> TRUE, owner |-> Nobody]]
  /\ nextMutexId' = nextMutexId + 1
  /\ MutexGoto(t, "register", nextMutexId, 0)
  /\ UNCHANGED <<detection, mutexTracked, mutexSeen>>

MutexRegister(t) ==
  /\ mutexPc[t] = "register"
  /\ mutexTracked' = mutexTracked \cup {mutexArg[t]}
  /\ MutexReturn(t)
  /\ UNCHANGED <<mutexTable, nextMutexId, detection, mutexSeen>>

-----------------------------------------------------------------------------
(* OSAL_MutexLock, OSAL_MutexLockTimeout and OSAL_MutexUnlock.             *)

\* Mutant: valid is not looked at.
MutMutexFound(i) == {s \in MutexSlots : mutexTable[s].used /\ mutexTable[s].id = i}

MutexFound(i) == {s \in MutexSlots : /\ mutexTable[s].used
                                     /\ mutexTable[s].id = i
                                     /\ mutexTable[s].valid}

\* The look-up of the three; what is not found is INVALID_ID, and a stutter.
\* A thread does not lock what it holds.
MutexLookUp(t, i, p) ==
  /\ mutexPc[t] = "idle"
  /\ \E s \in MutexFound(i) :
       /\ MutexHolds(t, s) <=> p = "unlock"
       /\ MutexGoto(t, p, i, s)
  /\ UNCHANGED <<mutexTable, nextMutexId, detection, mutexTracked, mutexSeen>>

\* pthread_mutex_lock or timedlock gets the mutex the pointer leads to.
MutexAcquire(t) ==
  /\ mutexPc[t] \in {"lock", "timed"}
  /\ MutexFree(mutexSlot[t])
  /\ mutexTable' = [mutexTable EXCEPT ![mutexSlot[t]].owner = t]
  /\ MutexReturn(t)
  /\ UNCHANGED <<nextMutexId, detection, mutexTracked, mutexSeen>>

MutexRelease(t) ==
  /\ mutexPc[t] = "unlock"
  /\ mutexTable' = [mutexTable EXCEPT ![mutexSlot[t]].owner = Nobody]
  /\ MutexReturn(t)
  /\ UNCHANGED <<nextMutexId, detection, mutexTracked, mutexSeen>>

\* Mutant: the wait begins again.
MutMutexExpire(t) ==
  /\ mutexPc[t] = "timed"
  /\ UNCHANGED mutexVars

\* ETIMEDOUT, even if the mutex is released at that moment.
MutexExpire(t) ==
  /\ mutexPc[t] = "timed"
  /\ MutexGoto(t, "expired", 0, 0)
  /\ UNCHANGED <<mutexTable, nextMutexId, detection, mutexTracked, mutexSeen>>

\* Mutant: the threshold is not read again, the callback is.
MutMutexReadDetection(t) ==
  /\ mutexPc[t] = "expired"
  /\ mutexSeen' = [mutexSeen EXCEPT ![t].callback = detection.callback]
  /\ MutexGoto(t, "report", 0, 0)
  /\ UNCHANGED <<mutexTable, nextMutexId, detection, mutexTracked>>

\* The threshold and the callback are copied under the lock of the table.
MutexReadDetection(t) ==
  /\ mutexPc[t] = "expired"
  /\ mutexSeen' = [mutexSeen EXCEPT ![t] = detection]
  /\ MutexGoto(t, "report", 0, 0)
  /\ UNCHANGED <<mutexTable, nextMutexId, detection, mutexTracked>>

\* The callback, called with no lock held, or none; then OSAL_ERR_TIMEOUT.
MutexReports(t, w) ==
  /\ w >= mutexSeen[t].threshold
  /\ mutexSeen[t].callback # Nobody

MutexCallback(t, w) ==
  /\ mutexPc[t] = "report"
  /\ MutexReports(t, w)
  /\ MutexGoto(t, "callback", w, 0)
  /\ UNCHANGED <<mutexTable, nextMutexId, detection, mutexTracked, mutexSeen>>

MutexTimedOut(t, w) ==
  /\ \/ mutexPc[t] = "report" /\ ~MutexReports(t, w)
     \/ mutexPc[t] = "callback" /\ mutexArg[t] = w
  /\ mutexSeen' = [mutexSeen EXCEPT ![t] = NoSetting]
  /\ MutexReturn(t)
  /\ UNCHANGED <<mutexTable, nextMutexId, detection, mutexTracked>>

\* OSAL_MutexSetDeadlockDetection.
SetDetection(t, d) ==
  /\ mutexPc[t] = "idle"
  /\ detection' = d
  /\ UNCHANGED <<mutexTable, nextMutexId, mutexTracked, mutexCalls, mutexSeen>>

-----------------------------------------------------------------------------
(* OSAL_MutexDelete.                                                       *)

\* What callers promise with Quiet.
MutexUnused(i) ==
  /\ \A t \in MutexThreads : mutexArg[t] # i \/ mutexPc[t] \notin MutexUses \cup {"clear"}
  /\ \A s \in MutexSlots : mutexTable[s].id = i /\ mutexTable[s].used =>
       MutexFree(s)

\* The look-up of Delete does not ask for valid.
MutexDeleteFind(t, i) ==
  /\ mutexPc[t] = "idle"
  /\ Quiet => MutexUnused(i)
  /\ \E s \in MutexSlots :
       /\ mutexTable[s].used /\ mutexTable[s].id = i
       /\ mutexTable' = [mutexTable EXCEPT ![s].valid = FALSE]
       /\ MutexGoto(t, "destroy", i, s)
  /\ UNCHANGED <<nextMutexId, detection, mutexTracked, mutexSeen>>

\* pthread_mutex_destroy: EBUSY, which nobody looks at, if somebody holds it.
MutexDestroy(t) ==
  /\ mutexPc[t] = "destroy"
  /\ mutexTable' = [mutexTable EXCEPT ![mutexSlot[t]].live =
                      @ /\ ~MutexFree(mutexSlot[t])]
  /\ MutexGoto(t, "clear", mutexArg[t], mutexSlot[t])
  /\ UNCHANGED <<nextMutexId, detection, mutexTracked, mutexSeen>>

\* The slot noted at the look-up is given back, whatever it holds by now.
MutexClear(t) ==
  /\ mutexPc[t] = "clear"
  /\ mutexTable' = [mutexTable EXCEPT ![mutexSlot[t]].used = FALSE]
  /\ MutexGoto(t, "unregister", mutexArg[t], 0)
  /\ UNCHANGED <<nextMutexId, detection, mutexTracked, mutexSeen>>

MutexUnregister(t) ==
  /\ mutexPc[t] = "unregister"
  /\ mutexTracked' = mutexTracked \ {mutexArg[t]}
  /\ MutexReturn(t)
  /\ UNCHANGED <<mutexTable, nextMutexId, detection, mutexSeen>>

-----------------------------------------------------------------------------
MutexStep(t) ==
  \/ \E n \in MutexNames : MutexCreate(t, n)
  \/ MutexRegister(t)
  \/ \E i \in MutexIds, p \in {"lock", "timed", "unlock"} : MutexLookUp(t, i, p)
  \/ MutexAcquire(t)
  \/ MutexRelease(t)
  \/ MutexExpire(t)
  \/ MutexReadDetection(t)
  \/ \E w \in Waits : MutexCallback(t, w)
  \/ \E w \in Waits : MutexTimedOut(t, w)
  \/ \E d \in Settings : SetDetection(t, d)
  \/ \E i \in MutexIds : MutexDeleteFind(t, i)
  \/ MutexDestroy(t)
  \/ MutexClear(t)
  \/ MutexUnregister(t)

MutexNext == \E t \in MutexThreads : MutexStep(t)

MutexSpec == MutexInit /\ [][MutexNext]_mutexVars

\* The rest of a call the timed lock makes: the kernel wakes it at its
\* deadline, and the callback returns.
MutexTimedStep(t) ==
  \/ MutexExpire(t)
  \/ MutexReadDetection(t)
  \/ \E w \in Waits : MutexCallback(t, w) \/ MutexTimedOut(t, w)

MutexFairness == \A t \in MutexThreads : WF_mutexVars(MutexTimedStep(t))

-----------------------------------------------------------------------------
(* Properties.                                                             *)

\* Every variable keeps its type.
MutexTypeOK ==
  /\ mutexTable \in [MutexSlots ->
       [used : BOOLEAN, id : 0..MaxMutexId, name : MutexNames \cup {Nobody},
        valid : BOOLEAN, live : BOOLEAN, owner : MutexThreads \cup {Nobody}]]
  /\ nextMutexId \in 1..(MaxMutexId + 1)
  /\ mutexTracked \subseteq MutexIds
  /\ mutexPc \in [MutexThreads -> MutexUses \cup
       {"idle", "register", "expired", "report", "callback", "clear", "unregister"}]
  /\ mutexSlot \in [MutexThreads -> MutexSlots \cup {0}]

\* osal_mutex.c:117-159: the pointer a call took under the lock of the table
\* still leads to the mutex it looked up, initialised, when it is used, though
\* other threads delete mutexes and create new ones in their slots meanwhile.
MutexPointers ==
  \A t \in MutexThreads : mutexPc[t] \in MutexUses =>
    LET r == mutexTable[mutexSlot[t]] IN r.used /\ r.live /\ r.id = mutexArg[t]

\* osal_mutex.c:290-299: a callback that is called was set together with a
\* threshold that the wait has reached, though the setting changes meanwhile.
MutexReport ==
  \A t \in MutexThreads : mutexPc[t] = "callback" =>
    \E d \in Settings : /\ d.callback = mutexSeen[t].callback
                        /\ mutexArg[t] >= d.threshold

\* osal_mutex.c:281-301: a timed lock returns, whoever holds the mutex.
MutexTimedReturns ==
  \A t \in MutexThreads : mutexPc[t] = "timed" ~> mutexPc[t] = "idle"
=============================================================================
