---------------------------- MODULE PdlSatellite ----------------------------
(***************************************************************************)
(* The satellite service of PDL, pdl/src/pdl_satellite/pdl_satellite.c and *)
(* pdl_satellite_can.c, on top of what the CAN driver promises (CanPort,   *)
(* which HalCan implements).                                               *)
(*                                                                         *)
(* An application thread starts the service, registers callbacks, sends    *)
(* and stops it; the receive task and the heartbeat task run in between.   *)
(* All three call the driver at once: the lock of the service is only held *)
(* for the statistics and the callback.  A step is the begin or the end of *)
(* a call of the driver, one access to the context, or a call of OSAL.     *)
(*                                                                         *)
(* OSAL is taken at its word (OsalTask): OSAL_TaskDelete asks a task to    *)
(* stop and waits for its end, at most 5 s, after which the task keeps its *)
(* record and its name; a new task may find in its slot the                *)
(* shutdown_requested of an earlier one.                                   *)
(*                                                                         *)
(* Left out: PDL_Satellite_GetStats, which takes the lock and reads, and   *)
(* `running', which nothing reads.  A frame is only told apart by whether  *)
(* its DLC is 8 and whether it is a command.                               *)
(*                                                                         *)
(* A definition Mut... is a fault put in the place of the definition after *)
(* it to see that a property notices; no specification uses one.           *)
(***************************************************************************)
EXTENDS Integers, FiniteSets

CONSTANTS App, Rx, Hb, \* the application's thread, the threads of the tasks
          Callbacks,   \* command callbacks, each with user data of its own
          None,        \* NULL, or nobody
          Prompt,      \* TRUE: a receive or a callback takes less than 5 s
          Wrap         \* the counters count modulo Wrap, 2^32 in the code

Threads == {App, Rx, Hb}
Tasks == {Rx, Hb}

ASSUME SatelliteAssumption ==
  /\ Cardinality(Threads) = 3
  /\ None \notin Threads \cup Callbacks
  /\ Prompt \in BOOLEAN
  /\ Wrap \in Nat \ {0, 1}

VARIABLES
  alive, tx, call, ret, \* the driver, see CanPort
  ctx,      \* the context is allocated
  mutex,    \* its mutex exists
  holder,   \* who holds it
  callback, \* ctx->callback
  userData, \* ctx->user_data
  stats,    \* rx_count, tx_count, error_count
  named,    \* the tasks that have a record in OSAL
  asked,    \* the tasks whose shutdown_requested is set
  at,       \* where each thread is
  cnt,      \* the statistic it is about to count
  val,      \* the value of it that it loaded
  snap      \* the callback and the data the receive task took

can == <<alive, tx, call, ret>>
context == <<ctx, mutex, holder, callback, userData, stats>>
osal == <<named, asked>>
locals == <<at, cnt, val, snap>>
vars == <<can, context, osal, locals>>

Can == INSTANCE CanPort

\* Nothing taken, or what was taken is dead.
NoSnap == [cb |-> None, ud |-> None]

Init ==
  /\ Can!Init
  /\ ctx = FALSE
  /\ mutex = FALSE
  /\ holder = None
  /\ callback = None
  /\ userData = None
  /\ stats = [rx |-> 0, tx |-> 0, err |-> 0]
  /\ named = {}
  /\ asked = {}
  /\ at = [t \in Threads |-> "off"]
  /\ cnt = [t \in Threads |-> "tx"]
  /\ val = [t \in Threads |-> 0]
  /\ snap = NoSnap

Goto(t, p) ==
  /\ at' = [at EXCEPT ![t] = p]
  /\ UNCHANGED <<cnt, val, snap>>

\* t will count c under the lock.
WillCount(t, c) ==
  /\ at' = [at EXCEPT ![t] = "lock"]
  /\ cnt' = [cnt EXCEPT ![t] = c]
  /\ UNCHANGED <<val, snap>>

-----------------------------------------------------------------------------
(* Counting, done in the same way by all: lock, load, store, unlock.       *)

\* Mutant: the lock keeps nobody out.
MutLock(t) ==
  /\ mutex
  /\ holder' = t
  /\ UNCHANGED <<ctx, mutex>>

Lock(t) ==
  /\ mutex
  /\ holder = None
  /\ holder' = t
  /\ UNCHANGED <<ctx, mutex>>

Unlock(t) ==
  /\ holder' = None
  /\ UNCHANGED <<ctx, mutex>>

Counted(n) == (n + 1) % Wrap

\* Mutant: the statistic is counted without the lock.
MutCountLoad(t) ==
  /\ at[t] = "lock"
  /\ at' = [at EXCEPT ![t] = "store"]
  /\ val' = [val EXCEPT ![t] = stats[cnt[t]]]
  /\ UNCHANGED <<can, context, osal, cnt, snap>>

CountLoad(t) ==
  /\ at[t] = "lock"
  /\ Lock(t)
  /\ at' = [at EXCEPT ![t] = "store"]
  /\ val' = [val EXCEPT ![t] = stats[cnt[t]]]
  /\ UNCHANGED <<can, callback, userData, stats, osal, cnt, snap>>

\* Where a thread goes on: a received frame may be a command.
Afterwards(t) ==
  CASE t = App -> {"up"}
    [] t = Hb -> {"sleep"}
    [] t = Rx -> IF cnt[t] = "rx" THEN {"peek", "top"} ELSE {"top"}

CountStore(t) ==
  /\ at[t] = "store"
  /\ stats' = [stats EXCEPT ![cnt[t]] = Counted(val[t])]
  /\ Unlock(t)
  /\ \E p \in Afterwards(t) : at' = [at EXCEPT ![t] = p]
  /\ cnt' = [cnt EXCEPT ![t] = "tx"]
  /\ val' = [val EXCEPT ![t] = 0]
  /\ UNCHANGED <<can, callback, userData, osal, snap>>

-----------------------------------------------------------------------------
(* Sending: the heartbeat of the task, and the responses and heartbeats    *)
(* the application and its callbacks send.                                 *)

Send(t) ==
  /\ Can!Begin(t, "send") \/ Can!Refuse(t)
  /\ Goto(t, "send")
  /\ UNCHANGED <<context, osal>>

SendEnds(t) ==
  /\ at[t] = "send"
  /\ Can!Return(t)
  /\ WillCount(t, IF ret[t] = "ok" THEN "tx" ELSE "err")
  /\ UNCHANGED <<context, osal>>

-----------------------------------------------------------------------------
(* The tasks.                                                              *)

\* OSAL_TaskShouldShutdown, on top of each loop.
Stop(t) ==
  /\ at[t] = "top"
  /\ t \in asked
  /\ Goto(t, "off")
  /\ UNCHANGED <<can, context, osal>>

Beat == at[Hb] = "top" /\ Hb \notin asked /\ Send(Hb)

\* OSAL_TaskDelay.
Wake ==
  /\ at[Hb] = "sleep"
  /\ Goto(Hb, "top")
  /\ UNCHANGED <<can, context, osal>>

Listen ==
  /\ at[Rx] = "top"
  /\ Rx \notin asked
  /\ Can!Begin(Rx, "recv") \/ Can!Refuse(Rx)
  /\ Goto(Rx, "recv")
  /\ UNCHANGED <<context, osal>>

\* satellite_can_recv: a frame counts when its DLC is 8.
ListenEnds ==
  /\ at[Rx] = "recv"
  /\ Can!Return(Rx)
  /\ \/ ret[Rx] = "ok" /\ WillCount(Rx, "rx")
     \/ ret[Rx] \in {"ok", "error"} /\ WillCount(Rx, "err")
     \/ ret[Rx] = "timeout" /\ Goto(Rx, "top")
  /\ UNCHANGED <<context, osal>>

\* A command: the callback and its data are read under the lock.
PeekCallback ==
  /\ at[Rx] = "peek"
  /\ Lock(Rx)
  /\ snap' = [snap EXCEPT !.cb = callback]
  /\ at' = [at EXCEPT ![Rx] = "peeked"]
  /\ UNCHANGED <<can, callback, userData, stats, osal, cnt, val>>

PeekData ==
  /\ at[Rx] = "peeked"
  /\ Unlock(Rx)
  /\ IF snap.cb = None
     THEN at' = [at EXCEPT ![Rx] = "top"] /\ snap' = NoSnap
     ELSE at' = [at EXCEPT ![Rx] = "called"] /\ snap' = [snap EXCEPT !.ud = userData]
  /\ UNCHANGED <<can, callback, userData, stats, osal, cnt, val>>

\* The callback returns, or answers with PDL_Satellite_SendResponse first.
CallbackReturns ==
  /\ at[Rx] = "called"
  /\ at' = [at EXCEPT ![Rx] = "top"]
  /\ snap' = NoSnap
  /\ UNCHANGED <<can, context, osal, cnt, val>>

CallbackAnswers ==
  /\ at[Rx] = "called"
  /\ Can!Begin(Rx, "send") \/ Can!Refuse(Rx)
  /\ at' = [at EXCEPT ![Rx] = "send"]
  /\ snap' = NoSnap
  /\ UNCHANGED <<context, osal, cnt, val>>

-----------------------------------------------------------------------------
(* PDL_Satellite_Init, in the order of its acquisitions.                   *)

\* The context and the mutex; if one cannot be had, nothing is left behind.
InitContext ==
  /\ at[App] = "off"
  /\ ctx' = TRUE
  /\ mutex' = TRUE
  /\ callback' = None
  /\ userData' = None
  /\ stats' = [rx |-> 0, tx |-> 0, err |-> 0]
  /\ Goto(App, "initCan")
  /\ UNCHANGED <<can, holder, osal>>

\* The failure paths lead into the releases of Deinit, at the right place.
InitCan ==
  /\ at[App] = "initCan"
  /\ \/ Can!Open /\ Goto(App, "initRx")
     \/ UNCHANGED can /\ Goto(App, "mutexDelete")
  /\ UNCHANGED <<context, osal>>

\* OSAL_TaskCreate: fails if the name is taken, or for want of a slot.  The
\* slot may be that of a task deleted before, with its shutdown_requested.
Create(t) ==
  /\ t \notin named
  /\ named' = named \cup {t}
  /\ \E stop \in IF asked \subseteq named THEN {{}} ELSE {{}, {t}} :
       asked' = (asked \ {t}) \cup stop
  /\ at' = [at EXCEPT ![t] = "top", ![App] = IF t = Rx THEN "initHb" ELSE "up"]
  /\ UNCHANGED <<cnt, val, snap>>

InitRx ==
  /\ at[App] = "initRx"
  /\ \/ Create(Rx)
     \/ Goto(App, "canDeinit") /\ UNCHANGED osal
  /\ UNCHANGED <<can, context>>

\* Mutant: the receive task is left running when the heartbeat task fails.
MutInitHb ==
  /\ at[App] = "initHb"
  /\ \/ Create(Hb)
     \/ Goto(App, "canDeinit") /\ UNCHANGED osal
  /\ UNCHANGED <<can, context>>

InitHb ==
  /\ at[App] = "initHb"
  /\ \/ Create(Hb)
     \/ Goto(App, "undoRx") /\ UNCHANGED osal
  /\ UNCHANGED <<can, context>>

-----------------------------------------------------------------------------
(* The calls of the application while the service is up.                   *)

Register(c) ==
  /\ at[App] = "up"
  /\ Lock(App)
  /\ callback' = c
  /\ at' = [at EXCEPT ![App] = "registering"]
  /\ UNCHANGED <<can, userData, stats, osal, cnt, val, snap>>

RegisterData ==
  /\ at[App] = "registering"
  /\ Unlock(App)
  /\ userData' = callback
  /\ at' = [at EXCEPT ![App] = "up"]
  /\ UNCHANGED <<can, callback, stats, osal, cnt, val, snap>>

AppSends == at[App] = "up" /\ Send(App)

-----------------------------------------------------------------------------
(* PDL_Satellite_Deinit.                                                   *)

Deinit ==
  /\ at[App] = "up"
  /\ Goto(App, "deleteRx")
  /\ UNCHANGED <<can, context, osal>>

\* Mutant: the task is told by `running', which it does not look at.
MutAsk(p, t, q) ==
  /\ at[App] = p
  /\ Goto(App, q)
  /\ UNCHANGED <<can, context, osal>>

\* OSAL_TaskDelete sets shutdown_requested ...
Ask(p, t, q) ==
  /\ at[App] = p
  /\ asked' = asked \cup {t}
  /\ Goto(App, q)
  /\ UNCHANGED <<can, context, named>>

\* ... and waits for the end of the task, 5 s at most; a task that sleeps
\* overruns them when heartbeat_interval_ms is 5000 or more, as it is in the
\* configurations.  The result is not looked at.
Overruns(t) ==
  at[t] = "sleep" \/ ((call[t] = "recv" \/ at[t] = "called") /\ ~Prompt)

\* Mutant: Deinit does not wait for the tasks.
MutJoin(p, t, q) ==
  /\ at[App] = p
  /\ named' = named \ {t}
  /\ Goto(App, q)
  /\ UNCHANGED <<can, context, asked>>

Join(p, t, q) ==
  /\ at[App] = p
  /\ \/ at[t] = "off" /\ named' = named \ {t}
     \/ Overruns(t) /\ UNCHANGED named
  /\ Goto(App, q)
  /\ UNCHANGED <<can, context, asked>>

CanDeinit ==
  /\ at[App] = "canDeinit"
  /\ Can!Close
  /\ Goto(App, "mutexDelete")
  /\ UNCHANGED <<context, osal>>

MutexDelete ==
  /\ at[App] = "mutexDelete"
  /\ mutex' = FALSE
  /\ Goto(App, "free")
  /\ UNCHANGED <<can, ctx, holder, callback, userData, stats, osal>>

Free ==
  /\ at[App] = "free"
  /\ ctx' = FALSE
  /\ callback' = None
  /\ userData' = None
  /\ stats' = [rx |-> 0, tx |-> 0, err |-> 0]
  /\ Goto(App, "off")
  /\ UNCHANGED <<can, mutex, holder, osal>>

Release ==
  \/ Ask("deleteRx", Rx, "joinRx") \/ Join("joinRx", Rx, "deleteHb")
  \/ Ask("deleteHb", Hb, "joinHb") \/ Join("joinHb", Hb, "canDeinit")
  \/ Ask("undoRx", Rx, "rejoinRx") \/ Join("rejoinRx", Rx, "canDeinit")
  \/ CanDeinit \/ MutexDelete \/ Free

-----------------------------------------------------------------------------
\* The driver is done with the call of t.
DriverEnds(t) ==
  /\ Can!Ends(t)
  /\ UNCHANGED <<context, osal, locals>>

\* What thread t does without waiting for anything but the lock.
Proceed(t) ==
  \/ DriverEnds(t) \/ CountLoad(t) \/ CountStore(t) \/ SendEnds(t) \/ Stop(t)

RxStep == Listen \/ ListenEnds \/ PeekCallback \/ PeekData
AppStep ==
  InitCan \/ InitRx \/ InitHb \/ RegisterData \/ Release

Next ==
  \/ \E t \in Threads : Proceed(t)
  \/ RxStep \/ CallbackReturns \/ CallbackAnswers
  \/ Beat \/ Wake
  \/ InitContext \/ AppStep \/ AppSends \/ Deinit
  \/ \E c \in Callbacks \cup {None} : Register(c)

Spec == Init /\ [][Next]_vars

\* Every thread runs; what waits for the lock gets it in the end, and the
\* driver, the delay and the callback come back.
Fairness ==
  /\ \A t \in Threads :
       /\ WF_vars(DriverEnds(t) \/ CountStore(t) \/ SendEnds(t) \/ Stop(t))
       /\ SF_vars(CountLoad(t))
  /\ WF_vars(Listen \/ ListenEnds \/ PeekData \/ CallbackReturns)
  /\ SF_vars(PeekCallback)
  /\ WF_vars(Beat) /\ WF_vars(Wake)
  /\ WF_vars(AppStep)

FairSpec == Spec /\ Fairness

-----------------------------------------------------------------------------
(* Properties.                                                             *)

\* Type correctness of the service and its threads.
TypeOK ==
  /\ alive \in BOOLEAN
  /\ tx \in 0..(Wrap - 1)
  /\ call \in [Threads -> {"idle", "send", "recv", "done"}]
  /\ ret \in [Threads -> {"none", "ok", "timeout", "error"}]
  /\ ctx \in BOOLEAN
  /\ mutex \in BOOLEAN
  /\ holder \in Threads \cup {None}
  /\ {callback, userData, snap.cb, snap.ud} \subseteq Callbacks \cup {None}
  /\ stats \in [{"rx", "tx", "err"} -> 0..(Wrap - 1)]
  /\ named \subseteq Tasks
  /\ asked \subseteq Tasks
  /\ at \in [Threads ->
       {"off", "top", "send", "recv", "lock", "store", "sleep", "peek", "peeked",
        "called", "up", "registering", "initCan", "initRx", "initHb", "undoRx",
        "rejoinRx", "deleteRx", "joinRx", "deleteHb", "joinHb", "canDeinit",
        "mutexDelete", "free"}]
  /\ cnt \in [Threads -> {"rx", "tx", "err"}]
  /\ val \in [Threads -> 0..(Wrap - 1)]

\* tx_count of the service agrees with tx_count of the driver, but for the
\* sends that have returned from the driver and are not counted yet: none of
\* the three threads that count loses an update of another.
Uncounted ==
  {t \in Threads : \/ at[t] = "send" /\ ret[t] = "ok"
                   \/ at[t] \in {"lock", "store"} /\ cnt[t] = "tx"}
StatsAgree ==
  alive => tx = (stats.tx + Cardinality(Uncounted)) % Wrap

\* A callback is called with the user data it was registered with, whatever
\* the application registers meanwhile.
CallbackPair == at[Rx] = "called" => snap.cb = snap.ud

\* When the context is freed, by Deinit or by an Init that failed at any
\* point, nothing is left: no driver handle, no mutex, no task that will
\* touch the context again.
NothingLeft ==
  ~ctx =>
    /\ ~alive /\ ~mutex /\ holder = None
    /\ at[Rx] = "off"
    /\ at[Hb] \in {"sleep", "top"} => Hb \in asked
    /\ at[Hb] \in {"off", "sleep", "top"}

\* No thread is inside the driver when its handle is freed.
DriverUnused == ~alive => \A t \in Threads : call[t] = "idle"

\* Deinit comes to its end, although both tasks may be anywhere, and no
\* thread waits for the lock of one that waits for it.
DeinitEnds == at[App] = "deleteRx" ~> at[App] = "off"
=============================================================================
