------------------------- MODULE PdlSatelliteProofs -------------------------
(***************************************************************************)
(* Proofs about PdlSatellite: the satellite service, for any callbacks and *)
(* any width of the counters.  The safety of the release needs Prompt, as  *)
(* the model says.                                                         *)
(***************************************************************************)
EXTENDS PdlSatellite, FiniteSetTheorems, TLAPS

\* The three threads are three.
LEMMA ThreeThreads == App # Rx /\ App # Hb /\ Rx # Hb
  <1>1. \A x, y : Cardinality({x, y}) <= 2
    <2> SUFFICES ASSUME NEW x, NEW y PROVE Cardinality({x, y}) <= 2
      OBVIOUS
    <2>1. IsFiniteSet({x}) /\ Cardinality({x}) = 1
      BY FS_Singleton
    <2>2. Cardinality({x} \cup {y}) = IF y \in {x} THEN Cardinality({x}) ELSE Cardinality({x}) + 1
      BY <2>1, FS_AddElement
    <2>3. {x, y} = {x} \cup {y}
      OBVIOUS
    <2>4. Cardinality({x} \cup {y}) \in {1, 2}
      BY <2>1, <2>2
    <2>5. QED BY <2>3, <2>4
  <1>2. Cardinality({App, Rx, Hb}) = 3
    BY SatelliteAssumption DEF Threads
  <1>3. App = Rx => {App, Rx, Hb} = {App, Hb}
    OBVIOUS
  <1>4. App = Hb => {App, Rx, Hb} = {App, Rx}
    OBVIOUS
  <1>5. Rx = Hb => {App, Rx, Hb} = {App, Rx}
    OBVIOUS
  <1>6. \A n : n <= 2 => n # 3
    OBVIOUS
  <1>7. QED BY <1>1, <1>2, <1>3, <1>4, <1>5, <1>6

-----------------------------------------------------------------------------
(* Types.                                                                  *)

\* Where each thread can be.
PlacesOf(t) ==
  IF t = App
  THEN {"off", "up", "registering", "send", "lock", "store", "initCan", "initRx", "initHb",
        "undoRx", "rejoinRx", "deleteRx", "joinRx", "deleteHb", "joinHb", "canDeinit",
        "mutexDelete", "free"}
  ELSE IF t = Rx
  THEN {"off", "top", "recv", "send", "lock", "store", "peek", "peeked", "called"}
  ELSE {"off", "top", "send", "lock", "store", "sleep"}

Places == PlacesOf(App) \cup PlacesOf(Rx) \cup PlacesOf(Hb)

Pointers == Callbacks \cup {None}
Counters == {"rx", "tx", "err"}

DriverTypes ==
  /\ alive \in BOOLEAN /\ tx \in 0..(Wrap - 1)
  /\ call \in [Threads -> {"idle", "send", "recv", "done"}]
  /\ ret \in [Threads -> {"none", "ok", "timeout", "error"}]

ContextTypes ==
  /\ ctx \in BOOLEAN /\ mutex \in BOOLEAN /\ holder \in Threads \cup {None}
  /\ callback \in Pointers /\ userData \in Pointers
  /\ stats \in [Counters -> 0..(Wrap - 1)]

TaskTypes == named \subseteq Tasks /\ asked \subseteq Tasks

PlaceTypes ==
  /\ at \in [Threads -> Places]
  /\ \A t \in Threads : at[t] \in PlacesOf(t)

LocalTypes ==
  /\ cnt \in [Threads -> Counters]
  /\ val \in [Threads -> 0..(Wrap - 1)]
  /\ snap \in [cb : Pointers, ud : Pointers]

Typed == DriverTypes /\ ContextTypes /\ TaskTypes /\ PlaceTypes /\ LocalTypes

LEMMA TypedOK == Typed => TypeOK
  <1>1. App \in Threads /\ Rx \in Threads /\ Hb \in Threads
    BY DEF Threads
  <1>2. PlaceTypes => at \in [Threads ->
       {"off", "top", "send", "recv", "lock", "store", "sleep", "peek", "peeked",
        "called", "up", "registering", "initCan", "initRx", "initHb", "undoRx",
        "rejoinRx", "deleteRx", "joinRx", "deleteHb", "joinHb", "canDeinit",
        "mutexDelete", "free"}]
    BY <1>1, ThreeThreads DEF PlaceTypes, Places, PlacesOf
  <1>3. QED
    BY <1>2
    DEF Typed, TypeOK, DriverTypes, ContextTypes, TaskTypes, LocalTypes, Pointers, Counters

LEMMA ZeroCount == 0 \in 0..(Wrap - 1) /\ \A n \in 0..(Wrap - 1) : Counted(n) \in 0..(Wrap - 1)
  BY SatelliteAssumption DEF Counted

LEMMA ZeroStats == [rx |-> 0, tx |-> 0, err |-> 0] \in [Counters -> 0..(Wrap - 1)]
  BY ZeroCount DEF Counters

LEMMA TypedInit == Init => Typed
  <1> SUFFICES ASSUME Init PROVE Typed
    OBVIOUS
  <1>1. DriverTypes
    BY ZeroCount DEF Init, Can!Init, DriverTypes
  <1>2. ContextTypes /\ TaskTypes
    BY ZeroStats DEF Init, ContextTypes, TaskTypes, Pointers
  <1>3. PlaceTypes
    BY ThreeThreads DEF Init, PlaceTypes, Places, PlacesOf, Threads
  <1>4. LocalTypes
    BY ZeroCount DEF Init, LocalTypes, NoSnap, Pointers, Counters
  <1>5. QED BY <1>1, <1>2, <1>3, <1>4 DEF Typed

\* One thread goes to another of its places.
LEMMA Moved ==
  ASSUME PlaceTypes, NEW t \in Threads, NEW p \in PlacesOf(t), at' = [at EXCEPT ![t] = p]
  PROVE  /\ PlaceTypes' /\ at'[t] = p
         /\ \A u \in Threads \ {t} : at'[u] = at[u]
  <1>1. PlacesOf(t) \subseteq Places
    BY DEF Places, Threads
  <1>2. QED BY <1>1 DEF PlaceTypes

LEMMA PlacesStep == Typed /\ [Next]_vars => PlaceTypes'
  <1> SUFFICES ASSUME Typed, [Next]_vars PROVE PlaceTypes'
    OBVIOUS
  <1>0. /\ PlaceTypes /\ App \in Threads /\ Rx \in Threads /\ Hb \in Threads
        /\ App # Rx /\ App # Hb /\ Rx # Hb
    BY ThreeThreads DEF Typed, Threads
  <1>1. ASSUME NEW t \in Threads, NEW p \in PlacesOf(t), at' = [at EXCEPT ![t] = p]
        PROVE  PlaceTypes'
    BY <1>0, <1>1, Moved
  <1>2. CASE at' = at
    BY <1>0, <1>2 DEF PlaceTypes
  <1>3. ASSUME NEW t \in Threads, Proceed(t)
        PROVE  PlaceTypes'
    <2>1. {"lock", "store", "off"} \cup Afterwards(t) \subseteq PlacesOf(t)
      BY <1>0 DEF Afterwards, PlacesOf, Threads
    <2>2. CASE DriverEnds(t)
      BY <1>2, <2>2 DEF DriverEnds, locals
    <2>3. CASE CountLoad(t) \/ SendEnds(t) \/ Stop(t)
      BY <1>1, <2>1, <2>3 DEF CountLoad, SendEnds, Stop, WillCount, Goto
    <2>4. CASE CountStore(t)
      BY <1>1, <2>1, <2>4 DEF CountStore
    <2>5. QED BY <1>3, <2>2, <2>3, <2>4 DEF Proceed
  <1>4. CASE RxStep \/ CallbackReturns \/ CallbackAnswers
    <2>1. {"recv", "lock", "top", "peeked", "called", "send"} \subseteq PlacesOf(Rx)
      BY <1>0 DEF PlacesOf
    <2>2. QED
      BY <1>0, <1>1, <1>4, <2>1
      DEF RxStep, Listen, ListenEnds, PeekCallback, PeekData, CallbackReturns, CallbackAnswers,
          WillCount, Goto
  <1>5. CASE Beat \/ Wake
    <2>1. {"send", "top"} \subseteq PlacesOf(Hb)
      BY <1>0 DEF PlacesOf
    <2>2. QED BY <1>0, <1>1, <1>5, <2>1 DEF Beat, Wake, Send, Goto
  <1>6. {"off", "up", "registering", "send", "initCan", "initRx", "initHb", "undoRx", "rejoinRx",
         "deleteRx", "joinRx", "deleteHb", "joinHb", "canDeinit", "mutexDelete", "free"}
        \subseteq PlacesOf(App)
    BY DEF PlacesOf
  <1>7. CASE \/ InitContext \/ InitCan \/ RegisterData \/ AppSends \/ Deinit
             \/ \E c \in Callbacks \cup {None} : Register(c)
    BY <1>0, <1>1, <1>6, <1>7
    DEF InitContext, InitCan, RegisterData, AppSends, Deinit, Register, Send, Goto
  <1>8. CASE Release
    BY <1>0, <1>1, <1>6, <1>8 DEF Release, Ask, Join, CanDeinit, MutexDelete, Free, Goto
  <1>9. ASSUME NEW t \in Tasks, Create(t)
        PROVE  PlaceTypes'
    <2>1. PICK p \in {"initHb", "up"} : at' = [[at EXCEPT ![t] = "top"] EXCEPT ![App] = p]
      BY <1>9 DEF Create
    <2>2. "top" \in PlacesOf(t) /\ "top" \in Places /\ p \in Places /\ t \in Threads
      BY <1>0, <1>6, <1>9 DEF PlacesOf, Places, Tasks
    <2>3. p \in PlacesOf(App)
      BY <1>6
    <2>4. QED BY <1>0, <2>1, <2>2, <2>3 DEF PlaceTypes
  <1>10. CASE InitRx \/ InitHb
    BY <1>0, <1>1, <1>6, <1>9, <1>10 DEF InitRx, InitHb, Goto, Tasks
  <1>11. QED
    BY <1>2, <1>3, <1>4, <1>5, <1>7, <1>8, <1>10 DEF Next, AppStep, vars, locals

\* What a step does to the driver is something its port offers.
Ported ==
  \/ UNCHANGED can \/ Can!Open \/ Can!Close
  \/ \E t \in Threads : \/ \E o \in {"send", "recv"} : Can!Begin(t, o)
                        \/ Can!Refuse(t) \/ Can!Ends(t) \/ Can!Return(t)

LEMMA PortedStep == [Next]_vars => Ported
  <1> SUFFICES ASSUME [Next]_vars PROVE Ported
    OBVIOUS
  <1>0. App \in Threads /\ Rx \in Threads /\ Hb \in Threads
    BY DEF Threads
  <1>1. ASSUME NEW t \in Threads, Proceed(t)
        PROVE  Ported
    BY <1>1 DEF Proceed, DriverEnds, CountLoad, CountStore, SendEnds, Stop, Ported
  <1>2. CASE RxStep \/ CallbackReturns \/ CallbackAnswers
    BY <1>0, <1>2
    DEF RxStep, Listen, ListenEnds, PeekCallback, PeekData, CallbackReturns, CallbackAnswers, Ported
  <1>3. CASE Beat \/ Wake
    BY <1>0, <1>3 DEF Beat, Wake, Send, Ported
  <1>4. CASE \/ InitContext \/ InitCan \/ InitRx \/ InitHb \/ RegisterData \/ AppSends \/ Deinit
             \/ \E c \in Callbacks \cup {None} : Register(c)
    BY <1>0, <1>4
    DEF InitContext, InitCan, InitRx, InitHb, RegisterData, AppSends, Deinit, Register, Send, Ported
  <1>5. CASE Release
    BY <1>5 DEF Release, Ask, Join, CanDeinit, MutexDelete, Free, Ported
  <1>6. QED BY <1>1, <1>2, <1>3, <1>4, <1>5 DEF Next, AppStep, vars, Ported

LEMMA DriverTypesStep == DriverTypes /\ Ported => DriverTypes'
  <1> SUFFICES ASSUME DriverTypes, Ported PROVE DriverTypes'
    OBVIOUS
  <1>1. (tx + 1) % Wrap \in 0..(Wrap - 1) /\ 0 \in 0..(Wrap - 1)
    BY SatelliteAssumption, ZeroCount DEF DriverTypes, Counted
  <1>2. CASE UNCHANGED can \/ Can!Open \/ Can!Close
    BY <1>1, <1>2 DEF can, Can!Open, Can!Close, DriverTypes
  <1>3. ASSUME NEW t \in Threads,
               \/ \E o \in {"send", "recv"} : Can!Begin(t, o)
               \/ Can!Refuse(t) \/ Can!Ends(t) \/ Can!Return(t)
        PROVE  DriverTypes'
    BY <1>1, <1>3
    DEF Can!Begin, Can!Refuse, Can!End, Can!Ends, Can!SendOk, Can!SendFails, Can!RecvEnds, Can!Return,
        DriverTypes
  <1>4. QED BY <1>2, <1>3 DEF Ported

LEMMA TypedStep == Typed /\ [Next]_vars => Typed'
  <1> SUFFICES ASSUME Typed, [Next]_vars PROVE Typed'
    OBVIOUS
  <1>0. /\ App \in Threads /\ Rx \in Threads /\ Hb \in Threads /\ Rx \in Tasks /\ Hb \in Tasks
        /\ None \in Pointers /\ NoSnap \in [cb : Pointers, ud : Pointers]
        /\ "rx" \in Counters /\ "tx" \in Counters /\ "err" \in Counters
    BY DEF Threads, Tasks, Pointers, NoSnap, Counters
  <1>1. DriverTypes' /\ PlaceTypes'
    BY PlacesStep, PortedStep, DriverTypesStep DEF Typed
  <1>2. ContextTypes'
    <2>1. CASE UNCHANGED context
      BY <2>1 DEF Typed, ContextTypes, context
    <2>2. ASSUME NEW t \in Threads, Proceed(t)
          PROVE  ContextTypes'
      <3>1. CASE CountStore(t)
        <4>1. stats' = [stats EXCEPT ![cnt[t]] = Counted(val[t])] /\ holder' = None
              /\ UNCHANGED <<ctx, mutex, callback, userData>>
          BY <3>1 DEF CountStore, Unlock
        <4>2. Counted(val[t]) \in 0..(Wrap - 1)
          BY ZeroCount DEF Typed, LocalTypes
        <4>3. QED BY <4>1, <4>2 DEF Typed, ContextTypes
      <3>2. CASE CountLoad(t)
        BY <3>2 DEF CountLoad, Lock, Typed, ContextTypes
      <3>3. CASE DriverEnds(t) \/ SendEnds(t) \/ Stop(t)
        BY <2>1, <3>3 DEF DriverEnds, SendEnds, Stop
      <3>4. QED BY <2>2, <3>1, <3>2, <3>3 DEF Proceed
    <2>3. CASE PeekCallback \/ PeekData \/ RegisterData \/ MutexDelete
      BY <1>0, <2>3 DEF PeekCallback, PeekData, RegisterData, MutexDelete, Lock, Unlock, Typed, ContextTypes
    <2>4. ASSUME NEW c \in Callbacks \cup {None}, Register(c)
          PROVE  ContextTypes'
      BY <1>0, <2>4 DEF Register, Lock, Typed, ContextTypes, Pointers
    <2>5. CASE InitContext \/ Free
      BY <1>0, <2>5, ZeroStats DEF InitContext, Free, Typed, ContextTypes
    <2>6. QED
      BY <2>1, <2>2, <2>3, <2>4, <2>5
      DEF Next, vars, RxStep, AppStep, Release, Listen, ListenEnds, CallbackReturns, CallbackAnswers,
          Beat, Wake, Send, InitCan, InitRx, InitHb, AppSends, Deinit, Ask, Join, CanDeinit
  <1>3. TaskTypes'
    <2>1. CASE UNCHANGED osal
      BY <2>1 DEF Typed, TaskTypes, osal
    <2>2. ASSUME NEW t \in Tasks, Create(t)
          PROVE  TaskTypes'
      <3>1. PICK stop \in {{}, {t}} : named' = named \cup {t} /\ asked' = (asked \ {t}) \cup stop
        BY <2>2 DEF Create
      <3>2. QED BY <2>2, <3>1 DEF Typed, TaskTypes
    <2>3. ASSUME NEW p, NEW t \in Tasks, NEW q, Ask(p, t, q) \/ Join(p, t, q)
          PROVE  TaskTypes'
      BY <2>3 DEF Ask, Join, Typed, TaskTypes
    <2>4. CASE InitRx \/ InitHb
      BY <1>0, <2>1, <2>2, <2>4 DEF InitRx, InitHb
    <2>5. CASE Release
      BY <1>0, <2>1, <2>3, <2>5 DEF Release, CanDeinit, MutexDelete, Free
    <2>6. QED
      BY <2>1, <2>4, <2>5
      DEF Next, vars, Proceed, DriverEnds, CountLoad, CountStore, SendEnds, Stop, RxStep, Listen,
          ListenEnds, PeekCallback, PeekData, CallbackReturns, CallbackAnswers, Beat, Wake, Send,
          InitContext, AppStep, InitCan, RegisterData, AppSends, Deinit, Register
  <1>4. LocalTypes'
    <2>1. CASE UNCHANGED <<cnt, val, snap>>
      BY <2>1 DEF Typed, LocalTypes
    <2>2. ASSUME NEW t \in Threads, NEW c \in Counters, WillCount(t, c)
          PROVE  LocalTypes'
      BY <2>2 DEF WillCount, Typed, LocalTypes
    <2>3. ASSUME NEW t \in Threads, Proceed(t)
          PROVE  LocalTypes'
      <3>1. CASE CountLoad(t)
        BY <3>1 DEF CountLoad, Typed, LocalTypes, ContextTypes
      <3>2. CASE CountStore(t)
        BY <1>0, <3>2, ZeroCount DEF CountStore, Typed, LocalTypes
      <3>3. CASE SendEnds(t)
        BY <1>0, <2>2, <3>3 DEF SendEnds
      <3>4. CASE DriverEnds(t) \/ Stop(t)
        BY <2>1, <3>4 DEF DriverEnds, Stop, Goto, locals
      <3>5. QED BY <2>3, <3>1, <3>2, <3>3, <3>4 DEF Proceed
    <2>4. CASE PeekCallback
      BY <2>4 DEF PeekCallback, Typed, LocalTypes, ContextTypes
    <2>5. CASE PeekData
      <3>1. UNCHANGED <<cnt, val>> /\ snap' \in {NoSnap, [snap EXCEPT !.ud = userData]}
        BY <2>5 DEF PeekData
      <3>2. [snap EXCEPT !.ud = userData] \in [cb : Pointers, ud : Pointers]
        BY DEF Typed, LocalTypes, ContextTypes
      <3>3. QED BY <1>0, <3>1, <3>2 DEF Typed, LocalTypes
    <2>6. CASE CallbackReturns \/ CallbackAnswers
      BY <1>0, <2>6 DEF CallbackReturns, CallbackAnswers, Typed, LocalTypes
    <2>7. CASE ListenEnds
      BY <1>0, <2>1, <2>2, <2>7 DEF ListenEnds, Goto
    <2>8. CASE \/ Listen \/ Beat \/ Wake \/ InitContext \/ InitCan \/ InitRx \/ InitHb \/ RegisterData
               \/ AppSends \/ Deinit \/ \E c \in Callbacks \cup {None} : Register(c)
      BY <2>1, <2>8
      DEF Listen, Beat, Wake, Send, InitContext, InitCan, InitRx, InitHb, Create, RegisterData,
          AppSends, Deinit, Register, Goto
    <2>9. CASE Release
      BY <2>1, <2>9 DEF Release, Ask, Join, CanDeinit, MutexDelete, Free, Goto
    <2>10. QED
      BY <2>1, <2>3, <2>4, <2>5, <2>6, <2>7, <2>8, <2>9 DEF Next, vars, locals, RxStep, AppStep
  <1>5. QED BY <1>1, <1>2, <1>3, <1>4 DEF Typed

\* The service and its threads keep their types.
THEOREM SatelliteTypes == Spec => []TypeOK
  <1>1. QED BY TypedInit, TypedStep, TypedOK, PTL DEF Spec

-----------------------------------------------------------------------------
(* How far the application has come, and what that says of the rest.       *)

\* A heartbeat task that outlived the wait for it does no more than see its
\* request; its record stays.
HbLeft == at[Hb] = "off" \/ (at[Hb] \in {"sleep", "top"} /\ Hb \in asked)

Phases ==
  /\ ctx <=> at[App] # "off"
  /\ mutex <=> at[App] \notin {"off", "free"}
  /\ alive <=> at[App] \notin {"off", "initCan", "mutexDelete", "free"}
  /\ \A t \in Tasks : t \notin named => at[t] = "off"
  /\ at[App] \in {"off", "initCan", "initRx", "deleteHb", "joinHb", "canDeinit", "mutexDelete",
                  "free"} => at[Rx] = "off"
  /\ at[App] \in {"off", "initCan", "initRx", "initHb", "undoRx", "rejoinRx", "canDeinit",
                  "mutexDelete", "free"} => HbLeft
  /\ at[App] = "joinHb" => Hb \in asked

\* The thread t goes from p to q, and nothing else that Phases speaks of changes.
LEMMA PhasesKept ==
  ASSUME Typed, Phases, NEW t \in Threads, NEW q \in PlacesOf(t), at' = [at EXCEPT ![t] = q],
         UNCHANGED <<alive, ctx, mutex, osal>>,
         \/ /\ t = App /\ at[App] \in {"up", "registering", "send", "lock", "store"}
            /\ q \in {"up", "registering", "send", "lock", "store", "deleteRx"}
         \/ t = Rx /\ at[Rx] # "off"
         \/ /\ t = Hb /\ at[Hb] # "off"
            /\ at[Hb] \in {"sleep", "top"} /\ Hb \in asked => q \in {"sleep", "top", "off"}
  PROVE  Phases'
  <1>0. PlaceTypes /\ App # Rx /\ App # Hb /\ Rx # Hb /\ Threads = {App, Rx, Hb} /\ Tasks = {Rx, Hb}
    BY ThreeThreads DEF Typed, Threads, Tasks
  <1>1. at'[t] = q /\ \A u \in Threads \ {t} : at'[u] = at[u]
    BY <1>0, Moved
  <1>2. UNCHANGED <<alive, ctx, mutex, named, asked>>
    BY DEF osal
  <1>3. CASE t = App
    BY <1>0, <1>1, <1>2, <1>3 DEF Phases, HbLeft
  <1>4. CASE t = Rx
    BY <1>0, <1>1, <1>2, <1>4 DEF Phases, HbLeft
  <1>5. CASE t = Hb
    BY <1>0, <1>1, <1>2, <1>5 DEF Phases, HbLeft
  <1>6. QED BY <1>3, <1>4, <1>5

LEMMA PhasesStep ==
  ASSUME Prompt
  PROVE  Typed /\ Phases /\ [Next]_vars => Phases'
  <1> SUFFICES ASSUME Typed, Phases, [Next]_vars PROVE Phases'
    OBVIOUS
  <1>0. /\ PlaceTypes /\ App # Rx /\ App # Hb /\ Rx # Hb /\ Tasks = {Rx, Hb}
        /\ App \in Threads /\ Rx \in Threads /\ Hb \in Threads
        /\ at \in [Threads -> Places] /\ at[App] \in PlacesOf(App)
        /\ at[Rx] \in PlacesOf(Rx) /\ at[Hb] \in PlacesOf(Hb)
    BY ThreeThreads DEF Typed, PlaceTypes, Threads, Tasks
  <1>1. CASE UNCHANGED <<alive, ctx, mutex, named, asked, at>>
    BY <1>1 DEF Phases, HbLeft
  <1>2. ASSUME NEW t \in Threads, Proceed(t)
        PROVE  Phases'
    <2>0. {"lock", "store", "off"} \cup Afterwards(t) \subseteq PlacesOf(t)
      BY <1>0 DEF Afterwards, PlacesOf, Threads
    <2>1. CASE DriverEnds(t)
      BY <1>1, <2>1
      DEF DriverEnds, Can!Ends, Can!SendOk, Can!SendFails, Can!RecvEnds, Can!End, context, osal, locals
    <2>2. CASE CountLoad(t)
      BY <1>0, <2>0, <2>2, PhasesKept DEF CountLoad, Lock, can, osal, Threads
    <2>3. CASE CountStore(t)
      <3>1. PICK q \in Afterwards(t) : at' = [at EXCEPT ![t] = q]
        BY <2>3 DEF CountStore
      <3>2. t = App => q \in {"up"}
        BY <1>0, <3>1 DEF Afterwards
      <3>3. UNCHANGED <<alive, ctx, mutex, osal>> /\ at[t] = "store"
        BY <2>3 DEF CountStore, Unlock, can
      <3>4. QED BY <1>0, <2>0, <3>1, <3>2, <3>3, PhasesKept DEF Threads
    <2>4. CASE SendEnds(t)
      BY <1>0, <2>0, <2>4, PhasesKept DEF SendEnds, WillCount, Can!Return, context, Threads
    <2>5. CASE Stop(t)
      <3>1. t # App
        BY <1>0, <2>5 DEF Stop, PlacesOf
      <3>2. QED BY <1>0, <2>0, <2>5, <3>1, PhasesKept DEF Stop, Goto, can, context, Threads
    <2>6. QED BY <1>2, <2>1, <2>2, <2>3, <2>4, <2>5 DEF Proceed
  <1>3. CASE RxStep \/ CallbackReturns \/ CallbackAnswers
    <2>1. PICK q \in {"recv", "lock", "top", "peeked", "called", "send"} :
            /\ at' = [at EXCEPT ![Rx] = q] /\ at[Rx] # "off"
            /\ UNCHANGED <<alive, ctx, mutex, osal>>
      BY <1>3
      DEF RxStep, Listen, ListenEnds, PeekCallback, PeekData, CallbackReturns, CallbackAnswers,
          WillCount, Goto, Can!Begin, Can!Refuse, Can!End, Can!Return, Lock, Unlock, can, context
    <2>2. q \in PlacesOf(Rx)
      BY <1>0 DEF PlacesOf
    <2>3. QED BY <1>0, <2>1, <2>2, PhasesKept
  <1>4. CASE Beat \/ Wake
    <2>1. PICK q \in {"send", "top"} :
            /\ at' = [at EXCEPT ![Hb] = q] /\ at[Hb] # "off"
            /\ q = "send" => Hb \notin asked
            /\ UNCHANGED <<alive, ctx, mutex, osal>>
      BY <1>4
      DEF Beat, Wake, Send, Goto, Can!Begin, Can!Refuse, Can!End, can, context
    <2>2. q \in PlacesOf(Hb)
      BY <1>0 DEF PlacesOf
    <2>3. QED BY <1>0, <2>1, <2>2, PhasesKept
  <1>5. CASE \/ RegisterData \/ AppSends \/ Deinit
             \/ \E c \in Callbacks \cup {None} : Register(c)
    <2>1. PICK q \in {"up", "registering", "send", "deleteRx"} :
            /\ at' = [at EXCEPT ![App] = q] /\ at[App] \in {"up", "registering"}
            /\ UNCHANGED <<alive, ctx, mutex, osal>>
      BY <1>5
      DEF RegisterData, AppSends, Deinit, Register, Send, Goto, Can!Begin, Can!Refuse, Can!End,
          Lock, Unlock, can, context
    <2>2. q \in PlacesOf(App)
      BY <1>0 DEF PlacesOf
    <2>3. QED BY <1>0, <2>1, <2>2, PhasesKept
  <1>6. CASE InitContext
    BY <1>0, <1>6 DEF InitContext, Goto, Phases, HbLeft, can, osal
  <1>7. CASE InitCan
    BY <1>0, <1>7 DEF InitCan, Goto, Phases, HbLeft, Can!Open, can, context, osal
  <1>8. CASE InitRx
    <2>1. at[App] = "initRx" /\ UNCHANGED <<alive, ctx, mutex>>
      BY <1>8 DEF InitRx, can, context
    <2>2. CASE Create(Rx)
      <3>1. /\ at' = [at EXCEPT ![Rx] = "top", ![App] = "initHb"]
            /\ named' = named \cup {Rx}
            /\ Hb \in asked' <=> Hb \in asked
        BY <1>0, <2>2 DEF Create
      <3>2. at'[Rx] = "top" /\ at'[App] = "initHb" /\ at'[Hb] = at[Hb]
        BY <1>0, <3>1
      <3>3. QED BY <1>0, <2>1, <3>1, <3>2 DEF Phases, HbLeft
    <2>3. CASE Goto(App, "canDeinit") /\ UNCHANGED osal
      BY <1>0, <2>1, <2>3 DEF Goto, osal, Phases, HbLeft
    <2>4. QED BY <1>8, <2>2, <2>3 DEF InitRx
  <1>9. CASE InitHb
    <2>1. at[App] = "initHb" /\ UNCHANGED <<alive, ctx, mutex>>
      BY <1>9 DEF InitHb, can, context
    <2>2. CASE Create(Hb)
      <3>1. at' = [at EXCEPT ![Hb] = "top", ![App] = "up"] /\ named' = named \cup {Hb}
        BY <1>0, <2>2 DEF Create
      <3>2. at'[Hb] = "top" /\ at'[App] = "up" /\ at'[Rx] = at[Rx]
        BY <1>0, <3>1
      <3>3. QED BY <1>0, <2>1, <3>1, <3>2 DEF Phases
    <2>3. CASE Goto(App, "undoRx") /\ UNCHANGED osal
      BY <1>0, <2>1, <2>3 DEF Goto, osal, Phases, HbLeft
    <2>4. QED BY <1>9, <2>2, <2>3 DEF InitHb
  <1>10. ASSUME NEW p, NEW t \in Tasks, NEW q, Ask(p, t, q), <<p, t, q>> \in
                {<<"deleteRx", Rx, "joinRx">>, <<"deleteHb", Hb, "joinHb">>, <<"undoRx", Rx, "rejoinRx">>}
         PROVE  Phases'
    BY <1>0, <1>10 DEF Ask, Goto, can, context, Phases, HbLeft
  <1>11. ASSUME NEW p, NEW q, Join(p, Rx, q),
                <<p, q>> \in {<<"joinRx", "deleteHb">>, <<"rejoinRx", "canDeinit">>}
         PROVE  Phases'
    <2>1. at[Rx] = "off" /\ named' = named \ {Rx}
      BY <1>0, <1>11 DEF Join, Overruns, PlacesOf
    <2>2. QED BY <1>0, <1>11, <2>1 DEF Join, Goto, can, context, Phases, HbLeft
  <1>12. CASE Join("joinHb", Hb, "canDeinit")
    <2>1. /\ at[App] = "joinHb" /\ at' = [at EXCEPT ![App] = "canDeinit"]
          /\ UNCHANGED <<alive, ctx, mutex, asked>>
      BY <1>12 DEF Join, Goto, can, context
    <2>2. \/ at[Hb] = "off" /\ named' = named \ {Hb}
          \/ at[Hb] = "sleep" /\ named' = named
      BY <1>0, <1>12 DEF Join, Overruns, PlacesOf
    <2>3. QED BY <1>0, <2>1, <2>2 DEF Phases, HbLeft
  <1>13. CASE CanDeinit \/ MutexDelete \/ Free
    BY <1>0, <1>13 DEF CanDeinit, MutexDelete, Free, Goto, Can!Close, can, context, osal, Phases, HbLeft
  <1>14. CASE Release
    BY <1>0, <1>10, <1>11, <1>12, <1>13, <1>14 DEF Release
  <1>15. QED
    BY <1>1, <1>2, <1>3, <1>4, <1>5, <1>6, <1>7, <1>8, <1>9, <1>14
    DEF Next, AppStep, vars, can, context, osal, locals

-----------------------------------------------------------------------------
(* The driver while the service calls it, and the lock.                    *)

\* A thread that is not in a call of the driver has none under way, and a call
\* has a result when it is done.
Drives(p, c, r) ==
  /\ p \notin {"send", "recv"} => c = "idle"
  /\ p = "send" => c \in {"send", "done"}
  /\ p = "recv" => c \in {"recv", "done"}
  /\ c = "done" <=> r # "none"

Driving == \A t \in Threads : Drives(at[t], call[t], ret[t])

\* Only a thread that holds the lock is where one has to hold it.
Holding == \A t \in Threads : at[t] \in {"store", "registering", "peeked"} <=> holder = t

\* The threads other than t stay, and t goes to q.
Goes(t, q) == at'[t] = q /\ \A u \in Threads \ {t} : at'[u] = at[u]

LEMMA GoesTo ==
  ASSUME Typed, NEW t \in Threads, NEW q, at' = [at EXCEPT ![t] = q]
  PROVE  Goes(t, q)
  BY DEF Typed, PlaceTypes, Goes

LEMMA DrivingStep == Typed /\ Phases /\ Driving /\ [Next]_vars => Driving'
  <1> SUFFICES ASSUME Typed, Phases, Driving, [Next]_vars PROVE Driving'
    OBVIOUS
  <1>0. /\ App \in Threads /\ Rx \in Threads /\ Hb \in Threads
        /\ call \in [Threads -> {"idle", "send", "recv", "done"}]
        /\ ret \in [Threads -> {"none", "ok", "timeout", "error"}]
        /\ App # Rx /\ App # Hb /\ Rx # Hb
    BY ThreeThreads DEF Typed, DriverTypes, Threads
  <1>1. ASSUME UNCHANGED can,
               \A t \in Threads : \/ at'[t] = at[t]
                                  \/ at[t] \notin {"send", "recv"} /\ at'[t] \notin {"send", "recv"}
        PROVE  Driving'
    BY <1>1 DEF Driving, Drives, can
  <1>2. ASSUME NEW t \in Threads, NEW q, UNCHANGED can, at' = [at EXCEPT ![t] = q],
               at[t] \notin {"send", "recv"}, q \notin {"send", "recv"}
        PROVE  Driving'
    BY <1>1, <1>2, GoesTo DEF Goes
  <1>3. ASSUME NEW t \in Threads, NEW o \in {"send", "recv"}, at' = [at EXCEPT ![t] = o],
               Can!Begin(t, o) \/ Can!Refuse(t)
        PROVE  Driving'
    <2>1. Goes(t, o)
      BY <1>3, GoesTo
    <2>2. /\ \A u \in Threads \ {t} : call'[u] = call[u] /\ ret'[u] = ret[u]
          /\ \/ call'[t] = o /\ ret'[t] = ret[t] /\ call[t] = "idle"
             \/ call'[t] = "done" /\ ret'[t] = "error"
      BY <1>0, <1>3 DEF Can!Begin, Can!Refuse, Can!End
    <2>3. QED BY <1>0, <2>1, <2>2 DEF Goes, Driving, Drives
  <1>4. ASSUME NEW t \in Threads, NEW q, Can!Return(t), at' = [at EXCEPT ![t] = q],
               q \notin {"send", "recv"}
        PROVE  Driving'
    <2>1. Goes(t, q)
      BY <1>4, GoesTo
    <2>2. /\ \A u \in Threads \ {t} : call'[u] = call[u] /\ ret'[u] = ret[u]
          /\ call'[t] = "idle" /\ ret'[t] = "none"
      BY <1>0, <1>4 DEF Can!Return
    <2>3. QED BY <1>4, <2>1, <2>2 DEF Goes, Driving, Drives
  <1>5. ASSUME NEW t \in Threads, DriverEnds(t)
        PROVE  Driving'
    <2>1. PICK r \in {"ok", "timeout", "error"} : Can!End(t, r) /\ call[t] \in {"send", "recv"}
      BY <1>5 DEF DriverEnds, Can!Ends, Can!SendOk, Can!SendFails, Can!RecvEnds
    <2>2. /\ \A u \in Threads \ {t} : call'[u] = call[u] /\ ret'[u] = ret[u]
          /\ call'[t] = "done" /\ ret'[t] = r /\ at' = at
      BY <1>0, <1>5, <2>1 DEF Can!End, DriverEnds, locals
    <2>3. at[t] \in {"send", "recv"}
      BY <2>1 DEF Driving, Drives
    <2>4. QED BY <2>1, <2>2, <2>3 DEF Driving, Drives
  <1>6. ASSUME NEW t \in Threads, CountLoad(t) \/ CountStore(t) \/ SendEnds(t) \/ Stop(t)
        PROVE  Driving'
    <2>1. CASE CountLoad(t)
      BY <1>2, <2>1 DEF CountLoad
    <2>2. CASE CountStore(t)
      <3>1. PICK q \in Afterwards(t) : at' = [at EXCEPT ![t] = q]
        BY <2>2 DEF CountStore
      <3>2. q \notin {"send", "recv"}
        BY <1>0, <3>1 DEF Afterwards, Threads
      <3>3. UNCHANGED can /\ at[t] = "store"
        BY <2>2 DEF CountStore
      <3>4. QED BY <1>2, <3>1, <3>2, <3>3
    <2>3. CASE SendEnds(t)
      <3>1. PICK q : q \notin {"send", "recv"} /\ Can!Return(t) /\ at' = [at EXCEPT ![t] = q]
        BY <2>3 DEF SendEnds, WillCount
      <3>2. QED BY <1>4, <3>1
    <2>4. CASE Stop(t)
      BY <1>2, <2>4 DEF Stop, Goto
    <2>5. QED BY <1>6, <2>1, <2>2, <2>3, <2>4
  <1>7. CASE PeekCallback \/ PeekData \/ CallbackReturns \/ Wake
    BY <1>0, <1>2, <1>7 DEF PeekCallback, PeekData, CallbackReturns, Wake, Goto
  <1>8. CASE Listen \/ CallbackAnswers \/ Beat \/ AppSends
    BY <1>0, <1>3, <1>8 DEF Listen, CallbackAnswers, Beat, AppSends, Send, Goto
  <1>9. CASE ListenEnds
    BY <1>0, <1>4, <1>9 DEF ListenEnds, WillCount, Goto
  <1>10. CASE InitContext \/ RegisterData \/ Deinit \/ \E c \in Callbacks \cup {None} : Register(c)
    BY <1>0, <1>2, <1>10 DEF InitContext, RegisterData, Deinit, Register, Goto
  <1>11. CASE InitCan \/ CanDeinit
    <2>1. PICK q \in {"initRx", "mutexDelete"} :
            at' = [at EXCEPT ![App] = q] /\ at[App] \in {"initCan", "canDeinit"}
      BY <1>11 DEF InitCan, CanDeinit, Goto
    <2>2. UNCHANGED <<call, ret>>
      BY <1>11 DEF InitCan, CanDeinit, Can!Open, Can!Close, can
    <2>3. Goes(App, q)
      BY <1>0, <2>1, GoesTo
    <2>4. QED BY <2>1, <2>2, <2>3 DEF Goes, Driving, Drives
  <1>12. ASSUME NEW t \in Tasks, Create(t), UNCHANGED can, at[App] \in {"initRx", "initHb"}
         PROVE  Driving'
    <2>1. at[t] = "off"
      BY <1>12 DEF Create, Phases
    <2>2. PICK q \in {"initHb", "up"} : at' = [[at EXCEPT ![t] = "top"] EXCEPT ![App] = q]
      BY <1>12 DEF Create
    <2>3. \A u \in Threads : at'[u] = at[u] \/ (u \in {t, App} /\ at'[u] \in {"top", "initHb", "up"})
      BY <2>2 DEF Typed, PlaceTypes
    <2>4. QED BY <1>1, <1>12, <2>1, <2>3
  <1>13. CASE InitRx \/ InitHb
    BY <1>0, <1>2, <1>12, <1>13 DEF InitRx, InitHb, Goto, Tasks
  <1>14. CASE Release
    <2>1. ASSUME NEW p \in {"deleteRx", "joinRx", "deleteHb", "joinHb", "undoRx", "rejoinRx"},
                 NEW t, NEW q \in {"joinRx", "deleteHb", "joinHb", "canDeinit", "rejoinRx"},
                 Ask(p, t, q) \/ Join(p, t, q)
          PROVE  Driving'
      BY <1>0, <1>2, <2>1 DEF Ask, Join, Goto
    <2>2. CASE MutexDelete \/ Free
      BY <1>0, <1>2, <2>2 DEF MutexDelete, Free, Goto
    <2>3. QED BY <1>11, <1>14, <2>1, <2>2 DEF Release
  <1>15. CASE UNCHANGED vars
    BY <1>1, <1>15 DEF vars, locals
  <1>16. QED
    BY <1>5, <1>6, <1>7, <1>8, <1>9, <1>10, <1>11, <1>13, <1>14, <1>15
    DEF Next, Proceed, RxStep, AppStep

LEMMA HoldingStep == Typed /\ Phases /\ Holding /\ [Next]_vars => Holding'
  <1> SUFFICES ASSUME Typed, Phases, Holding, [Next]_vars PROVE Holding'
    OBVIOUS
  <1> DEFINE Held == {"store", "registering", "peeked"}
  <1>0. /\ App \in Threads /\ Rx \in Threads /\ Hb \in Threads /\ None \notin Threads
        /\ App # Rx /\ App # Hb /\ Rx # Hb
    BY ThreeThreads, SatelliteAssumption DEF Threads
  <1>1. ASSUME UNCHANGED holder,
               \A t \in Threads : at'[t] = at[t] \/ (at[t] \notin Held /\ at'[t] \notin Held)
        PROVE  Holding'
    BY <1>1 DEF Holding
  <1>2. ASSUME NEW t \in Threads, NEW q, UNCHANGED holder, at' = [at EXCEPT ![t] = q],
               at[t] \notin Held, q \notin Held
        PROVE  Holding'
    BY <1>1, <1>2, GoesTo DEF Goes
  <1>3. ASSUME NEW t \in Threads, NEW q \in Held, Lock(t), at' = [at EXCEPT ![t] = q]
        PROVE  Holding'
    <2>1. Goes(t, q) /\ holder = None /\ holder' = t
      BY <1>3, GoesTo DEF Lock
    <2>2. QED BY <1>0, <2>1 DEF Goes, Holding
  <1>4. ASSUME NEW t \in Threads, NEW q, at[t] \in Held, q \notin Held, Unlock(t),
               at' = [at EXCEPT ![t] = q]
        PROVE  Holding'
    <2>1. Goes(t, q) /\ holder = t /\ holder' = None
      BY <1>4, GoesTo DEF Unlock, Holding
    <2>2. QED BY <1>0, <1>4, <2>1 DEF Goes, Holding
  <1>5. ASSUME NEW t \in Threads, Proceed(t)
        PROVE  Holding'
    <2>1. CASE DriverEnds(t)
      BY <1>1, <2>1 DEF DriverEnds, locals, context
    <2>2. CASE CountLoad(t)
      BY <1>3, <2>2 DEF CountLoad
    <2>3. CASE CountStore(t)
      <3>1. PICK q \in Afterwards(t) : at' = [at EXCEPT ![t] = q]
        BY <2>3 DEF CountStore
      <3>2. q \notin Held
        BY <1>0, <3>1 DEF Afterwards, Threads
      <3>3. Unlock(t) /\ at[t] \in Held
        BY <2>3 DEF CountStore
      <3> HIDE DEF Held
      <3>4. QED BY <1>4, <3>1, <3>2, <3>3
    <2>4. CASE SendEnds(t) \/ Stop(t)
      BY <1>2, <2>4 DEF SendEnds, Stop, WillCount, Goto, context
    <2>5. QED BY <1>5, <2>1, <2>2, <2>3, <2>4 DEF Proceed
  <1>6. CASE PeekCallback \/ \E c \in Callbacks \cup {None} : Register(c)
    BY <1>0, <1>3, <1>6 DEF PeekCallback, Register
  <1>7. CASE PeekData \/ RegisterData
    BY <1>0, <1>4, <1>7 DEF PeekData, RegisterData
  <1>8. CASE CallbackReturns \/ CallbackAnswers \/ Listen \/ ListenEnds \/ Wake \/ Beat \/ AppSends \/ Deinit
    BY <1>0, <1>2, <1>8
    DEF CallbackReturns, CallbackAnswers, Listen, ListenEnds, Wake, Beat, AppSends, Deinit, Send, Goto,
        WillCount, context
  <1>9. CASE InitContext \/ InitCan \/ CanDeinit \/ MutexDelete \/ Free
    BY <1>0, <1>2, <1>9 DEF InitContext, InitCan, CanDeinit, MutexDelete, Free, Goto, context
  <1>10. ASSUME NEW t \in Tasks, Create(t), UNCHANGED context, at[App] \in {"initRx", "initHb"}
         PROVE  Holding'
    <2>1. at[t] = "off"
      BY <1>10 DEF Create, Phases
    <2>2. PICK q \in {"initHb", "up"} : at' = [[at EXCEPT ![t] = "top"] EXCEPT ![App] = q]
      BY <1>10 DEF Create
    <2>3. \A u \in Threads : at'[u] = at[u] \/ (u \in {t, App} /\ at'[u] \in {"top", "initHb", "up"})
      BY <2>2 DEF Typed, PlaceTypes
    <2>4. QED BY <1>1, <1>10, <2>1, <2>3 DEF context
  <1>11. CASE InitRx \/ InitHb
    BY <1>0, <1>2, <1>10, <1>11 DEF InitRx, InitHb, Goto, Tasks, context
  <1>12. CASE Release
    <2>1. ASSUME NEW p \in {"deleteRx", "joinRx", "deleteHb", "joinHb", "undoRx", "rejoinRx"},
                 NEW t, NEW q \in {"joinRx", "deleteHb", "joinHb", "canDeinit", "rejoinRx"},
                 Ask(p, t, q) \/ Join(p, t, q)
          PROVE  Holding'
      BY <1>0, <1>2, <2>1 DEF Ask, Join, Goto, context
    <2>2. QED BY <1>9, <1>12, <2>1 DEF Release
  <1>13. CASE UNCHANGED vars
    BY <1>1, <1>13 DEF vars, locals, context
  <1>14. QED
    BY <1>5, <1>6, <1>7, <1>8, <1>9, <1>11, <1>12, <1>13 DEF Next, RxStep, AppStep

\* The invariant of all that follows.
Standing == Typed /\ Phases /\ Driving /\ Holding

LEMMA StandingInit == Init => Standing
  <1> SUFFICES ASSUME Init PROVE Standing
    OBVIOUS
  <1>1. Typed
    BY TypedInit
  <1>2. \A t \in Threads : at[t] = "off" /\ call[t] = "idle" /\ ret[t] = "none"
    BY DEF Init, Can!Init
  <1>3. App \in Threads /\ Tasks \subseteq Threads /\ Rx \in Threads /\ Hb \in Threads
    BY DEF Threads, Tasks
  <1>4. Phases
    BY <1>2, <1>3 DEF Init, Can!Init, Phases, HbLeft
  <1>5. Driving
    BY <1>2 DEF Driving, Drives
  <1>6. Holding
    BY <1>2, SatelliteAssumption DEF Init, Holding
  <1>7. QED BY <1>1, <1>4, <1>5, <1>6 DEF Standing

LEMMA StandingStep ==
  ASSUME Prompt
  PROVE  Standing /\ [Next]_vars => Standing'
  BY TypedStep, PhasesStep, DrivingStep, HoldingStep DEF Standing

\* Once the context is freed, by a Deinit or by an Init that failed at any point,
\* no handle, no mutex and no holder of it is left, and no task that will touch
\* the context again.
THEOREM NothingLeftAlways ==
  ASSUME Prompt
  PROVE  Spec => []NothingLeft
  <1>1. Standing => NothingLeft
    <2> SUFFICES ASSUME Standing, ~ctx PROVE ~alive /\ ~mutex /\ holder = None /\ at[Rx] = "off" /\ HbLeft
      BY DEF NothingLeft, HbLeft
    <2>1. at[App] = "off" /\ ~alive /\ ~mutex /\ at[Rx] = "off" /\ HbLeft
      BY DEF Standing, Phases
    <2>2. holder \in Threads \cup {None} /\ \A t \in Threads : holder # t
      BY <2>1, ThreeThreads DEF Standing, Typed, ContextTypes, Holding, HbLeft, Threads
    <2>3. QED BY <2>1, <2>2
  <1>2. QED BY StandingInit, StandingStep, <1>1, PTL DEF Spec

LEMMA UnusedWhenClosed == Standing => DriverUnused
  <1> SUFFICES ASSUME Standing, ~alive, NEW t \in Threads PROVE call[t] = "idle"
    BY DEF DriverUnused
  <1>1. at[App] \notin {"send", "recv"} /\ at[Rx] = "off" /\ HbLeft
    BY DEF Standing, Phases
  <1>2. at[t] \notin {"send", "recv"}
    BY <1>1 DEF Threads, HbLeft
  <1>3. QED BY <1>2 DEF Standing, Driving, Drives

\* No thread is inside the driver when its handle is freed.
THEOREM DriverUnusedAlways ==
  ASSUME Prompt
  PROVE  Spec => []DriverUnused
  BY StandingInit, StandingStep, UnusedWhenClosed, PTL DEF Spec

\* What the service does to the driver is what CanPort, which HalCan implements,
\* has it do: it opens a handle when there is none, each thread makes one call
\* at a time, and Close never overtakes a call, whichever task is in one when
\* Deinit comes. So the guarantees of the driver hold under it.
THEOREM SatelliteKeepsPort ==
  ASSUME Prompt
  PROVE  Spec => Can!Spec
  <1>1. Init => Can!Init
    BY DEF Init
  <1>2. ASSUME Standing, [Next]_vars
        PROVE  [Can!Next]_(Can!vars)
    <2>1. Ported
      BY <1>2, PortedStep
    <2>2. Standing'
      BY <1>2, StandingStep
    <2>4. CASE Can!Close
      <3>1. ~alive' /\ call' = call
        BY <2>4 DEF Can!Close
      <3>2. \A t \in Threads : call'[t] = "idle"
        <4>1. DriverUnused'
          BY <2>2, UnusedWhenClosed, PTL
        <4>2. QED BY <3>1, <4>1 DEF DriverUnused
      <3>3. QED BY <2>4, <3>1, <3>2 DEF Can!Next
    <2>5. ASSUME NEW t \in Threads,
                 \/ \E o \in {"send", "recv"} : Can!Begin(t, o)
                 \/ Can!Refuse(t) \/ Can!Ends(t) \/ Can!Return(t)
          PROVE  Can!Next
      BY <2>5 DEF Can!Next
    <2>6. QED BY <2>1, <2>4, <2>5 DEF Ported, can, Can!vars, Can!Next
  <1>3. QED BY StandingInit, StandingStep, <1>1, <1>2, PTL DEF Spec, Can!Spec

-----------------------------------------------------------------------------
(* The callback and its data.                                              *)

Paired ==
  /\ at[App] # "registering" => callback = userData
  /\ at[Rx] = "peeked" => snap.cb = callback
  /\ at[Rx] = "called" => snap.cb = snap.ud

LEMMA PairedStep == Standing /\ Paired /\ [Next]_vars => Paired'
  <1> SUFFICES ASSUME Standing, Paired, [Next]_vars PROVE Paired'
    OBVIOUS
  <1>0. /\ App \in Threads /\ Rx \in Threads /\ Hb \in Threads /\ None \notin Threads
        /\ App # Rx /\ App # Hb /\ Rx # Hb
        /\ at \in [Threads -> Places]
    BY ThreeThreads, SatelliteAssumption DEF Threads, Standing, Typed, PlaceTypes
  <1>1. ASSUME UNCHANGED <<callback, userData, snap>>,
               at'[App] # "registering" => at[App] # "registering",
               at'[Rx] \in {"peeked", "called"} => at'[Rx] = at[Rx]
        PROVE  Paired'
    BY <1>1 DEF Paired
  <1>2. ASSUME NEW t \in Threads, NEW q, at' = [at EXCEPT ![t] = q], at[t] # "registering",
               q \notin {"peeked", "called"}, UNCHANGED <<callback, userData, snap>>
        PROVE  Paired'
    BY <1>0, <1>1, <1>2
  <1>3. ASSUME NEW t \in Threads, Proceed(t)
        PROVE  Paired'
    <2>1. CASE DriverEnds(t)
      BY <1>1, <2>1 DEF DriverEnds, context, locals
    <2>2. CASE CountLoad(t)
      <3>1. PICK q : /\ q \notin {"peeked", "called"} /\ at' = [at EXCEPT ![t] = q]
                     /\ at[t] # "registering" /\ UNCHANGED <<callback, userData, snap>>
        BY <2>2 DEF CountLoad
      <3>2. QED BY <1>2, <3>1
    <2>3. CASE CountStore(t)
      <3>1. PICK q \in Afterwards(t) : at' = [at EXCEPT ![t] = q]
        BY <2>3 DEF CountStore
      <3>2. q \notin {"peeked", "called"}
        BY <1>0, <3>1 DEF Afterwards, Threads
      <3>3. at[t] # "registering" /\ UNCHANGED <<callback, userData, snap>>
        BY <2>3 DEF CountStore
      <3>4. QED BY <1>2, <3>1, <3>2, <3>3
    <2>4. CASE SendEnds(t) \/ Stop(t)
      BY <1>2, <2>4 DEF SendEnds, Stop, WillCount, Goto, context
    <2>5. QED BY <1>3, <2>1, <2>2, <2>3, <2>4 DEF Proceed
  <1>4. CASE PeekCallback
    BY <1>0, <1>4 DEF PeekCallback, Paired, Standing, Typed, LocalTypes
  <1>5. CASE PeekData
    <2>1. at[Rx] = "peeked" /\ holder = Rx /\ at[App] # "registering"
      BY <1>0, <1>5 DEF PeekData, Standing, Holding
    <2>2. snap.cb = callback /\ callback = userData
      BY <2>1 DEF Paired
    <2>3. UNCHANGED <<callback, userData>>
      BY <1>5 DEF PeekData
    <2>4. CASE snap.cb = None
      BY <1>0, <1>5, <2>1, <2>2, <2>3, <2>4 DEF PeekData, Paired
    <2>5. CASE snap.cb # None
      <3>1. snap' = [snap EXCEPT !.ud = userData] /\ at' = [at EXCEPT ![Rx] = "called"]
        BY <1>5, <2>5 DEF PeekData
      <3>2. snap'.cb = snap.cb /\ snap'.ud = userData
        BY <3>1 DEF Standing, Typed, LocalTypes
      <3>3. QED BY <1>0, <2>2, <2>3, <3>1, <3>2 DEF Paired
    <2>6. QED BY <2>4, <2>5
  <1>6. CASE CallbackReturns \/ CallbackAnswers
    BY <1>0, <1>6 DEF CallbackReturns, CallbackAnswers, Paired, context
  <1>7. CASE Listen \/ ListenEnds \/ Wake \/ Beat \/ AppSends \/ Deinit
    BY <1>0, <1>2, <1>7
    DEF Listen, ListenEnds, Wake, Beat, AppSends, Deinit, Send, Goto, WillCount, context
  <1>8. ASSUME NEW c \in Callbacks \cup {None}, Register(c)
        PROVE  Paired'
    <2>1. holder = None /\ at[Rx] # "peeked"
      BY <1>0, <1>8 DEF Register, Lock, Standing, Holding
    <2>2. QED BY <1>0, <1>8, <2>1 DEF Register, Paired
  <1>9. CASE RegisterData
    <2>1. holder = App /\ at[Rx] # "peeked"
      BY <1>0, <1>9 DEF RegisterData, Standing, Holding
    <2>2. QED BY <1>0, <1>9, <2>1 DEF RegisterData, Paired
  <1>10. CASE InitContext \/ Free
    <2>1. at[Rx] = "off"
      BY <1>10 DEF InitContext, Free, Standing, Phases
    <2>2. QED BY <1>0, <1>10, <2>1 DEF InitContext, Free, Goto, Paired
  <1>11. CASE InitCan \/ CanDeinit \/ MutexDelete
    BY <1>0, <1>2, <1>11 DEF InitCan, CanDeinit, MutexDelete, Goto, context
  <1>12. ASSUME NEW t \in Tasks, Create(t), UNCHANGED context, at[App] \in {"initRx", "initHb"}
         PROVE  Paired'
    <2>1. PICK q \in {"initHb", "up"} : at' = [[at EXCEPT ![t] = "top"] EXCEPT ![App] = q]
      BY <1>12 DEF Create
    <2>2. at'[App] = q /\ at'[Rx] \in {at[Rx], "top"}
      BY <1>0, <1>12, <2>1 DEF Tasks
    <2>3. QED BY <1>1, <1>12, <2>2 DEF Create, context
  <1>13. CASE InitRx \/ InitHb
    BY <1>0, <1>2, <1>12, <1>13 DEF InitRx, InitHb, Goto, Tasks, context
  <1>14. CASE Release
    <2>1. ASSUME NEW p \in {"deleteRx", "joinRx", "deleteHb", "joinHb", "undoRx", "rejoinRx"},
                 NEW t, NEW q \in {"joinRx", "deleteHb", "joinHb", "canDeinit", "rejoinRx"},
                 Ask(p, t, q) \/ Join(p, t, q)
          PROVE  Paired'
      BY <1>0, <1>2, <2>1 DEF Ask, Join, Goto, context
    <2>2. QED BY <1>10, <1>11, <1>14, <2>1 DEF Release
  <1>15. CASE UNCHANGED vars
    BY <1>1, <1>15 DEF vars, locals, context
  <1>16. QED
    BY <1>3, <1>4, <1>5, <1>6, <1>7, <1>8, <1>9, <1>10, <1>11, <1>13, <1>14, <1>15
    DEF Next, RxStep, AppStep

\* A callback is called with the data it was registered with, whatever the
\* application registers meanwhile.
THEOREM CallbackPairAlways ==
  ASSUME Prompt
  PROVE  Spec => []CallbackPair
  <1>1. Init => Paired
    BY DEF Init, Paired, Threads
  <1>2. Paired => CallbackPair
    BY DEF Paired, CallbackPair
  <1>3. QED BY StandingInit, StandingStep, PairedStep, <1>1, <1>2, PTL DEF Spec

-----------------------------------------------------------------------------
(* The statistics: arithmetic of the counters.                             *)

LEMMA Divided == \A n \in Nat : \E q \in Int, r \in 0..(Wrap - 1) : n = q * Wrap + r
  <1> SUFFICES ASSUME NEW n \in Nat PROVE \E q \in Int, r \in 0..(Wrap - 1) : n = q * Wrap + r
    OBVIOUS
  <1>1. n % Wrap \in 0..(Wrap - 1) /\ n \div Wrap \in Int
    BY SatelliteAssumption
  <1>2. n = (n \div Wrap) * Wrap + (n % Wrap)
    BY SatelliteAssumption, Z3
  <1>3. QED BY <1>1, <1>2

LEMMA Rest == \A q \in Int, r \in 0..(Wrap - 1) : (q * Wrap + r) % Wrap = r
  BY SatelliteAssumption

\* One more, and a whole turn more.
LEMMA Successor ==
  ASSUME NEW n \in Nat
  PROVE  /\ (n + 1) % Wrap = (IF (n % Wrap) + 1 = Wrap THEN 0 ELSE (n % Wrap) + 1)
         /\ (n + Wrap) % Wrap = n % Wrap
         /\ n % Wrap \in 0..(Wrap - 1)
         /\ n < Wrap => n % Wrap = n
  <1>0. Wrap \in Nat /\ Wrap > 1
    BY SatelliteAssumption
  <1>1. PICK q \in Int, r \in 0..(Wrap - 1) : n = q * Wrap + r
    BY Divided
  <1>2. n % Wrap = r
    BY <1>1, Rest
  <1>3. (n + 1) % Wrap = (IF (n % Wrap) + 1 = Wrap THEN 0 ELSE (n % Wrap) + 1)
    <2>1. CASE r + 1 = Wrap
      <3>1. n + 1 = (q + 1) * Wrap + 0
        BY <1>0, <1>1, <2>1
      <3>2. ((q + 1) * Wrap + 0) % Wrap = 0
        BY <1>0, Rest
      <3>3. QED BY <1>2, <2>1, <3>1, <3>2
    <2>2. CASE r + 1 # Wrap
      <3>1. n + 1 = q * Wrap + (r + 1) /\ r + 1 \in 0..(Wrap - 1)
        BY <1>0, <1>1, <2>2
      <3>2. (q * Wrap + (r + 1)) % Wrap = r + 1
        BY <3>1, Rest
      <3>3. QED BY <1>2, <2>2, <3>1, <3>2
    <2>3. QED BY <2>1, <2>2
  <1>4. (n + Wrap) % Wrap = n % Wrap
    <2>1. n + Wrap = (q + 1) * Wrap + r
      BY <1>0, <1>1
    <2>2. ((q + 1) * Wrap + r) % Wrap = r
      BY <1>0, Rest
    <2>3. QED BY <1>2, <2>1, <2>2
  <1>5. n < Wrap => n % Wrap = n
    BY <1>0
  <1>6. QED BY <1>2, <1>3, <1>4, <1>5

\* Counting before or after reducing is the same, in the driver and in the service.
LEMMA CountedDriver ==
  ASSUME NEW n \in Nat
  PROVE  ((n % Wrap) + 1) % Wrap = (n + 1) % Wrap
  <1>1. n % Wrap \in Nat /\ n % Wrap < Wrap /\ (n % Wrap) % Wrap = n % Wrap
    <2>1. n % Wrap \in 0..(Wrap - 1) /\ Wrap \in Nat
      BY Successor, SatelliteAssumption
    <2>2. n % Wrap \in Nat /\ n % Wrap < Wrap
      BY <2>1
    <2>3. QED BY <2>2, Successor
  <1>2. ((n % Wrap) + 1) % Wrap = (IF ((n % Wrap) % Wrap) + 1 = Wrap THEN 0 ELSE ((n % Wrap) % Wrap) + 1)
    BY <1>1, Successor
  <1>3. QED BY <1>1, <1>2, Successor

LEMMA CountedService ==
  ASSUME NEW s \in 0..(Wrap - 1), NEW n \in Nat, n >= 1
  PROVE  (Counted(s) + (n - 1)) % Wrap = (s + n) % Wrap
  <1>0. s \in Nat /\ s < Wrap /\ Wrap \in Nat /\ n - 1 \in Nat
    BY SatelliteAssumption
  <1>1. Counted(s) = IF s + 1 = Wrap THEN 0 ELSE s + 1
    BY <1>0, Successor DEF Counted
  <1>2. CASE s + 1 = Wrap
    <2>1. s + n = (n - 1) + Wrap /\ Counted(s) + (n - 1) = n - 1
      BY <1>0, <1>1, <1>2
    <2>2. QED BY <1>0, <2>1, Successor
  <1>3. CASE s + 1 # Wrap
    <2>1. Counted(s) + (n - 1) = s + n
      BY <1>0, <1>1, <1>3
    <2>2. QED BY <2>1
  <1>4. QED BY <1>2, <1>3

-----------------------------------------------------------------------------
(* The statistics.                                                         *)

\* A send of a thread has succeeded and is not counted yet.
IsUncounted(p, r, c) == (p = "send" /\ r = "ok") \/ (p \in {"lock", "store"} /\ c = "tx")

LEMMA UncountedFacts ==
  /\ Uncounted = {t \in Threads : IsUncounted(at[t], ret[t], cnt[t])}
  /\ IsFiniteSet(Uncounted) /\ Cardinality(Uncounted) \in Nat
  /\ \A t \in Threads \ Uncounted : Cardinality(Uncounted \cup {t}) = Cardinality(Uncounted) + 1
  /\ \A t \in Uncounted : /\ Cardinality(Uncounted \ {t}) = Cardinality(Uncounted) - 1
                          /\ Cardinality(Uncounted) >= 1
  <1>1. Uncounted = {t \in Threads : IsUncounted(at[t], ret[t], cnt[t])}
    BY DEF Uncounted, IsUncounted
  <1>2. IsFiniteSet(Threads)
    <2>1. IsFiniteSet({Hb}) /\ {Hb} = {} \cup {Hb}
      BY FS_Singleton
    <2>2. IsFiniteSet({Hb} \cup {Rx})
      BY <2>1, FS_AddElement
    <2>3. IsFiniteSet(({Hb} \cup {Rx}) \cup {App})
      BY <2>2, FS_AddElement
    <2>4. ({Hb} \cup {Rx}) \cup {App} = Threads
      BY DEF Threads
    <2>5. QED BY <2>3, <2>4
  <1>3. IsFiniteSet(Uncounted)
    BY <1>2, FS_Subset DEF Uncounted
  <1>4. Cardinality(Uncounted) \in Nat /\ (Cardinality(Uncounted) = 0 <=> Uncounted = {})
    BY <1>3, FS_CardinalityType, FS_EmptySet
  <1>5. \A t \in Threads \ Uncounted : Cardinality(Uncounted \cup {t}) = Cardinality(Uncounted) + 1
    BY <1>3, FS_AddElement
  <1>6. ASSUME NEW t \in Uncounted
        PROVE  Cardinality(Uncounted \ {t}) = Cardinality(Uncounted) - 1 /\ Cardinality(Uncounted) >= 1
    <2>1. Cardinality(Uncounted \ {t}) = Cardinality(Uncounted) - 1
      BY <1>3, FS_RemoveElement
    <2>2. \A n \in Nat : n # 0 => n >= 1
      OBVIOUS
    <2>3. Uncounted # {}
      OBVIOUS
    <2>4. QED BY <1>4, <2>1, <2>2, <2>3
  <1>7. QED BY <1>1, <1>3, <1>4, <1>5, <1>6

\* Besides, the thread that is about to store has loaded what is still there.
Counting ==
  /\ \A t \in Threads : at[t] = "store" => val[t] = stats[cnt[t]]
  /\ at[App] = "initCan" => stats["tx"] = 0
  /\ alive => tx = (stats["tx"] + Cardinality(Uncounted)) % Wrap

LEMMA CountingStep == Standing /\ Standing' /\ Counting /\ [Next]_vars => Counting'
  <1> SUFFICES ASSUME Standing, Standing', Counting, [Next]_vars PROVE Counting'
    OBVIOUS
  <1>0. /\ App \in Threads /\ Rx \in Threads /\ Hb \in Threads /\ Threads = {App, Rx, Hb}
        /\ App # Rx /\ App # Hb /\ Rx # Hb
        /\ at \in [Threads -> Places] /\ cnt \in [Threads -> Counters]
        /\ ret \in [Threads -> {"none", "ok", "timeout", "error"}]
        /\ val \in [Threads -> 0..(Wrap - 1)] /\ stats \in [Counters -> 0..(Wrap - 1)]
        /\ tx \in 0..(Wrap - 1) /\ stats["tx"] \in 0..(Wrap - 1)
    BY ThreeThreads
    DEF Threads, Standing, Typed, PlaceTypes, LocalTypes, DriverTypes, ContextTypes, Counters
  <1> DEFINE Pending(t) == IsUncounted(at[t], ret[t], cnt[t])
  <1>1. ASSUME UNCHANGED <<alive, tx, stats>>, \A t \in Threads : Pending(t)' <=> Pending(t),
               \A t \in Threads : at'[t] = "store" => at[t] = "store" /\ val'[t] = val[t] /\ cnt'[t] = cnt[t],
               at'[App] = "initCan" => at[App] = "initCan"
        PROVE  Counting'
    <2>1. Uncounted' = Uncounted
      BY <1>1, UncountedFacts DEF IsUncounted, Uncounted
    <2>2. QED BY <1>1, <2>1 DEF Counting
  <1>2. ASSUME NEW t \in Threads, NEW q, at' = [at EXCEPT ![t] = q], ~Pending(t),
               q \notin {"send", "lock", "store", "initCan"}, UNCHANGED <<alive, tx, stats, ret, cnt, val>>
        PROVE  Counting'
    <2>1. Goes(t, q)
      BY <1>2, GoesTo DEF Standing
    <2>2. \A u \in Threads : Pending(u)' <=> Pending(u)
      BY <1>2, <2>1 DEF Goes, IsUncounted
    <2>3. \A u \in Threads : at'[u] = "store" => at[u] = "store" /\ val'[u] = val[u] /\ cnt'[u] = cnt[u]
      BY <1>2, <2>1 DEF Goes
    <2>4. at'[App] = "initCan" => at[App] = "initCan"
      BY <1>0, <1>2, <2>1 DEF Goes
    <2>5. QED BY <1>1, <1>2, <2>2, <2>3, <2>4
  <1>3. ASSUME ~alive', \A t \in Threads : at'[t] # "store", at'[App] = "initCan" => stats'["tx"] = 0
        PROVE  Counting'
    BY <1>3 DEF Counting
  \* A call begins, or is refused.
  <1>4. ASSUME NEW t \in Threads, NEW o \in {"send", "recv"}, at' = [at EXCEPT ![t] = o],
               Can!Begin(t, o) \/ Can!Refuse(t), at[t] \in {"top", "up", "called"},
               UNCHANGED <<stats, cnt, val>>
        PROVE  Counting'
    <2>1. Goes(t, o)
      BY <1>4, GoesTo DEF Standing
    <2>2. /\ \A u \in Threads \ {t} : ret'[u] = ret[u]
          /\ ret'[t] # "ok" /\ UNCHANGED <<alive, tx>>
      BY <1>0, <1>4 DEF Can!Begin, Can!Refuse, Can!End, Standing, Driving, Drives
    <2>3. \A u \in Threads : Pending(u)' <=> Pending(u)
      BY <1>4, <2>1, <2>2 DEF Goes, IsUncounted
    <2>4. \A u \in Threads : at'[u] = "store" => at[u] = "store" /\ val'[u] = val[u] /\ cnt'[u] = cnt[u]
      BY <1>4, <2>1 DEF Goes
    <2>5. at'[App] = "initCan" => at[App] = "initCan"
      BY <1>0, <1>4, <2>1 DEF Goes
    <2>6. QED BY <1>1, <1>4, <2>2, <2>3, <2>4, <2>5
  \* A call returns, and c will be counted.
  <1>5. ASSUME NEW t \in Threads, NEW c, Can!Return(t), WillCount(t, c), at[t] \in {"send", "recv"},
               c = "tx" <=> at[t] = "send" /\ ret[t] = "ok", UNCHANGED stats
        PROVE  Counting'
    <2>1. Goes(t, "lock") /\ Goes(t, "lock")
      BY <1>5, GoesTo DEF Standing, WillCount
    <2>2. /\ \A u \in Threads \ {t} : ret'[u] = ret[u] /\ cnt'[u] = cnt[u]
          /\ cnt'[t] = c /\ UNCHANGED <<alive, tx, val>>
      BY <1>0, <1>5 DEF Can!Return, WillCount
    <2>3. \A u \in Threads : Pending(u)' <=> Pending(u)
      BY <1>5, <2>1, <2>2 DEF Goes, IsUncounted
    <2>4. \A u \in Threads : at'[u] = "store" => at[u] = "store" /\ val'[u] = val[u] /\ cnt'[u] = cnt[u]
      BY <2>1, <2>2 DEF Goes
    <2>5. at'[App] = "initCan" => at[App] = "initCan"
      BY <1>0, <1>5, <2>1 DEF Goes
    <2>6. QED BY <1>1, <1>5, <2>2, <2>3, <2>4, <2>5
  <1>6. ASSUME NEW t \in Threads, DriverEnds(t)
        PROVE  Counting'
    <2>1. PICK r \in {"ok", "timeout", "error"} :
            /\ call[t] \in {"send", "recv"} /\ ret' = [ret EXCEPT ![t] = r] /\ UNCHANGED alive
            /\ \/ call[t] = "send" /\ r = "ok" /\ tx' = (tx + 1) % Wrap
               \/ ~(call[t] = "send" /\ r = "ok") /\ tx' = tx
      BY <1>6 DEF DriverEnds, Can!Ends, Can!SendOk, Can!SendFails, Can!RecvEnds, Can!End
    <2>2. UNCHANGED <<at, cnt, val, stats>>
      BY <1>6 DEF DriverEnds, locals, context
    <2>3. call[t] = at[t] /\ ret[t] = "none"
      BY <2>1 DEF Standing, Driving, Drives
    <2>4. ~Pending(t) /\ \A u \in Threads \ {t} : ret'[u] = ret[u]
      BY <1>0, <2>1, <2>3 DEF IsUncounted
    <2>5. CASE call[t] = "send" /\ r = "ok"
      <3>1. Pending(t)' /\ \A u \in Threads \ {t} : Pending(u)' <=> Pending(u)
        BY <1>0, <2>1, <2>2, <2>3, <2>4, <2>5 DEF IsUncounted
      <3>2. Uncounted' = Uncounted \cup {t} /\ t \notin Uncounted
        BY <2>4, <3>1 DEF IsUncounted, Uncounted
      <3>3. Cardinality(Uncounted') = Cardinality(Uncounted) + 1 /\ Cardinality(Uncounted) \in Nat
        BY <3>2, UncountedFacts
      <3>4. ASSUME alive' PROVE tx' = (stats'["tx"] + Cardinality(Uncounted')) % Wrap
        <4>1. tx = (stats["tx"] + Cardinality(Uncounted)) % Wrap /\ tx' = (tx + 1) % Wrap
          BY <2>1, <2>5, <3>4 DEF Counting
        <4> DEFINE n == stats["tx"] + Cardinality(Uncounted)
        <4>2. n \in Nat /\ n + 1 = stats'["tx"] + Cardinality(Uncounted')
          BY <1>0, <2>2, <3>3
        <4>3. ((n % Wrap) + 1) % Wrap = (n + 1) % Wrap
          BY <4>2, CountedDriver
        <4>4. QED BY <4>1, <4>2, <4>3
      <3>5. QED BY <2>2, <3>4 DEF Counting
    <2>6. CASE ~(call[t] = "send" /\ r = "ok")
      <3>1. \A u \in Threads : Pending(u)' <=> Pending(u)
        BY <1>0, <2>1, <2>2, <2>3, <2>4, <2>6 DEF IsUncounted
      <3>2. QED BY <1>1, <2>1, <2>2, <2>6, <3>1
    <2>7. QED BY <2>5, <2>6
  <1>7. ASSUME NEW t \in Threads, CountLoad(t)
        PROVE  Counting'
    <2>1. /\ at[t] = "lock" /\ at' = [at EXCEPT ![t] = "store"] /\ val' = [val EXCEPT ![t] = stats[cnt[t]]]
          /\ UNCHANGED <<alive, tx, ret, stats, cnt>>
      BY <1>7 DEF CountLoad, can
    <2>2. Goes(t, "store")
      BY <2>1, GoesTo DEF Standing
    <2>3. \A u \in Threads : Pending(u)' <=> Pending(u)
      BY <2>1, <2>2 DEF Goes, IsUncounted
    <2>4. Uncounted' = Uncounted
      BY <2>3 DEF IsUncounted, Uncounted
    <2>5. \A u \in Threads : at'[u] = "store" => val'[u] = stats'[cnt'[u]]
      BY <1>0, <2>1, <2>2 DEF Goes, Counting
    <2>6. at'[App] = "initCan" => at[App] = "initCan"
      BY <1>0, <2>2 DEF Goes
    <2>7. QED BY <2>1, <2>4, <2>5, <2>6 DEF Counting
  <1>8. ASSUME NEW t \in Threads, CountStore(t)
        PROVE  Counting'
    <2>1. PICK q \in Afterwards(t) : at' = [at EXCEPT ![t] = q]
      BY <1>8 DEF CountStore
    <2>2. q \notin {"send", "lock", "store", "initCan"}
      BY <1>0, <2>1 DEF Afterwards
    <2>3. /\ at[t] = "store" /\ stats' = [stats EXCEPT ![cnt[t]] = Counted(val[t])]
          /\ cnt' = [cnt EXCEPT ![t] = "tx"] /\ UNCHANGED <<alive, tx, ret>>
      BY <1>8 DEF CountStore, can
    <2>4. Goes(t, q)
      BY <2>1, GoesTo DEF Standing
    <2>5. \A u \in Threads \ {t} : at'[u] # "store" /\ (Pending(u)' <=> Pending(u))
      <3>1. \A u \in Threads \ {t} : at[u] # "store"
        BY <2>3 DEF Standing, Holding
      <3>2. QED BY <1>0, <2>3, <2>4, <3>1 DEF Goes, IsUncounted
    <2>6. ~Pending(t)' /\ (Pending(t) <=> cnt[t] = "tx")
      BY <2>2, <2>3, <2>4 DEF Goes, IsUncounted
    <2>7. \A u \in Threads : at'[u] # "store"
      BY <2>2, <2>4, <2>5 DEF Goes
    <2>8. at'[App] = "initCan" => at[App] = "initCan" /\ App # t
      BY <1>0, <2>2, <2>4 DEF Goes
    <2>9. CASE cnt[t] = "tx"
      <3>1. stats'["tx"] = Counted(stats["tx"])
        BY <1>0, <2>3, <2>9 DEF Counting
      <3>2. Uncounted' = Uncounted \ {t} /\ t \in Uncounted
        BY <2>5, <2>6, <2>9 DEF IsUncounted, Uncounted
      <3>3. /\ Cardinality(Uncounted') = Cardinality(Uncounted) - 1
            /\ Cardinality(Uncounted) >= 1 /\ Cardinality(Uncounted) \in Nat
        BY <3>2, UncountedFacts
      <3>4. alive' => tx' = (stats'["tx"] + Cardinality(Uncounted')) % Wrap
        BY <1>0, <2>3, <3>1, <3>3, CountedService DEF Counting
      <3>5. at[App] # "initCan"
        <4>1. at[App] = "initCan" => \A u \in Threads : at[u] # "store"
          BY <1>0 DEF Standing, Phases, HbLeft
        <4>2. QED BY <2>3, <4>1
      <3>6. QED BY <2>7, <2>8, <3>4, <3>5 DEF Counting
    <2>10. CASE cnt[t] # "tx"
      <3>1. stats'["tx"] = stats["tx"]
        BY <1>0, <2>3, <2>10 DEF Counters
      <3>2. Uncounted' = Uncounted
        BY <2>5, <2>6, <2>10 DEF IsUncounted, Uncounted
      <3>3. QED BY <2>3, <2>7, <2>8, <3>1, <3>2 DEF Counting
    <2>11. QED BY <2>9, <2>10
  <1>9. ASSUME NEW t \in Threads, Stop(t)
        PROVE  Counting'
    <2>1. /\ at' = [at EXCEPT ![t] = "off"] /\ at[t] = "top"
          /\ UNCHANGED <<alive, tx, stats, ret, cnt, val>>
      BY <1>9 DEF Stop, Goto, can, context
    <2>2. PICK q : q = "off"
      OBVIOUS
    <2>3. ~Pending(t)
      BY <2>1 DEF IsUncounted
    <2>4. at' = [at EXCEPT ![t] = q] /\ q \notin {"send", "lock", "store", "initCan"}
      BY <2>1, <2>2
    <2>5. QED BY <1>2, <2>1, <2>3, <2>4
  <1>10. ASSUME NEW t \in Threads, SendEnds(t)
         PROVE  Counting'
    <2>1. PICK c : c = IF ret[t] = "ok" THEN "tx" ELSE "err"
      OBVIOUS
    <2>2. Can!Return(t) /\ WillCount(t, c) /\ at[t] = "send" /\ UNCHANGED stats
      BY <1>10, <2>1 DEF SendEnds, context
    <2>3. c = "tx" <=> at[t] = "send" /\ ret[t] = "ok"
      BY <2>1, <2>2
    <2>4. QED BY <1>5, <2>2, <2>3
  <1>11. CASE Listen \/ CallbackAnswers \/ Beat \/ AppSends
    <2>1. PICK t \in Threads, o \in {"send", "recv"} :
            /\ at' = [at EXCEPT ![t] = o]
            /\ Can!Begin(t, o) \/ Can!Refuse(t)
            /\ at[t] \in {"top", "up", "called"} /\ UNCHANGED <<stats, cnt, val>>
      BY <1>0, <1>11 DEF Listen, CallbackAnswers, Beat, AppSends, Send, Goto, context
    <2>2. QED BY <1>4, <2>1
  <1>12. CASE ListenEnds
    <2>1. Can!Return(Rx) /\ at[Rx] = "recv" /\ UNCHANGED stats
      BY <1>12 DEF ListenEnds, context
    <2>2. ASSUME NEW c \in {"rx", "err"}, WillCount(Rx, c)
          PROVE  Counting'
      BY <1>0, <1>5, <2>1, <2>2
    <2>3. CASE Goto(Rx, "top")
      <3>1. /\ at' = [at EXCEPT ![Rx] = "top"] /\ UNCHANGED <<alive, tx, cnt, val>>
            /\ ret' = [ret EXCEPT ![Rx] = "none"]
        BY <2>1, <2>3 DEF Goto, Can!Return
      <3>2. Goes(Rx, "top") /\ \A u \in Threads \ {Rx} : ret'[u] = ret[u]
        BY <1>0, <3>1, GoesTo DEF Standing
      <3>3. \A u \in Threads : Pending(u)' <=> Pending(u)
        BY <2>1, <3>1, <3>2 DEF Goes, IsUncounted
      <3>4. \A u \in Threads : at'[u] = "store" => at[u] = "store" /\ val'[u] = val[u] /\ cnt'[u] = cnt[u]
        BY <3>1, <3>2 DEF Goes
      <3>5. at'[App] = "initCan" => at[App] = "initCan"
        BY <1>0, <3>2 DEF Goes
      <3>6. QED BY <1>1, <2>1, <3>1, <3>3, <3>4, <3>5
    <2>4. QED BY <1>12, <2>2, <2>3 DEF ListenEnds
  <1>13. CASE \/ PeekCallback \/ PeekData \/ CallbackReturns \/ Wake \/ Deinit \/ RegisterData
              \/ \E c \in Callbacks \cup {None} : Register(c)
    <2>1. PICK t \in Threads, q \in {"peeked", "called", "top", "deleteRx", "up", "registering"} :
            /\ at' = [at EXCEPT ![t] = q]
            /\ at[t] \in {"peek", "peeked", "called", "sleep", "up", "registering"}
            /\ UNCHANGED <<alive, tx, stats, ret, cnt, val>>
      BY <1>0, <1>13
      DEF PeekCallback, PeekData, CallbackReturns, Wake, Deinit, RegisterData, Register, Goto, can, context
    <2>2. ~Pending(t) /\ q \notin {"send", "lock", "store", "initCan"}
      BY <2>1 DEF IsUncounted
    <2>3. QED BY <1>2, <2>1, <2>2
  <1>14. CASE InitContext \/ Free \/ MutexDelete \/ CanDeinit
    <2>1. \A t \in Threads : at[t] # "store"
      BY <1>0, <1>14 DEF InitContext, Free, MutexDelete, CanDeinit, Standing, Phases, HbLeft
    <2>2. PICK q \in {"initCan", "off", "free", "mutexDelete"} :
            at' = [at EXCEPT ![App] = q] /\ (q = "initCan" => stats'["tx"] = 0)
      BY <1>14 DEF InitContext, Free, MutexDelete, CanDeinit, Goto
    <2>3. Goes(App, q)
      BY <1>0, <2>2, GoesTo DEF Standing
    <2>4. ~alive'
      BY <1>0, <2>2, <2>3 DEF Goes, Standing, Phases
    <2>5. \A t \in Threads : at'[t] # "store"
      BY <2>1, <2>2, <2>3 DEF Goes
    <2>6. at'[App] = "initCan" => stats'["tx"] = 0
      BY <2>2, <2>3 DEF Goes
    <2>7. QED BY <1>3, <2>4, <2>5, <2>6
  <1>15. CASE InitCan
    <2>0. at[App] = "initCan" /\ at[Rx] = "off" /\ HbLeft /\ stats["tx"] = 0 /\ stats' = stats
      BY <1>15 DEF InitCan, Standing, Phases, Counting, context
    <2>1. CASE Can!Open /\ Goto(App, "initRx")
      <3>1. Goes(App, "initRx") /\ tx' = 0 /\ alive'
        BY <1>0, <2>1, GoesTo DEF Goto, Can!Open, Standing
      <3>2. \A t \in Threads : at'[t] \notin {"send", "lock", "store"}
        BY <1>0, <2>0, <3>1 DEF Goes, HbLeft
      <3>3. Uncounted' = {} /\ Cardinality({}) = 0
        BY <3>2, FS_EmptySet DEF Uncounted
      <3>4. 0 % Wrap = 0
        BY SatelliteAssumption
      <3>5. at'[App] = "initRx"
        BY <3>1 DEF Goes
      <3>6. QED BY <2>0, <3>1, <3>2, <3>3, <3>4, <3>5 DEF Counting
    <2>2. CASE UNCHANGED can /\ Goto(App, "mutexDelete")
      <3>1. Goes(App, "mutexDelete")
        BY <1>0, <2>2, GoesTo DEF Goto, Standing
      <3>2. ~alive' /\ \A t \in Threads : at'[t] \notin {"store", "initCan"}
        BY <1>0, <2>0, <3>1 DEF Goes, HbLeft, Standing, Phases
      <3>3. QED BY <1>0, <1>3, <3>2
    <2>3. QED BY <1>15, <2>1, <2>2 DEF InitCan
  <1>16. ASSUME NEW t \in Tasks, Create(t), UNCHANGED <<can, context>>, at[App] \in {"initRx", "initHb"}
         PROVE  Counting'
    <2>1. at[t] = "off"
      BY <1>16 DEF Create, Standing, Phases
    <2>2. PICK q \in {"initHb", "up"} : at' = [[at EXCEPT ![t] = "top"] EXCEPT ![App] = q]
      BY <1>16 DEF Create
    <2>3. \A u \in Threads :
            \/ at'[u] = at[u]
            \/ at[u] \in {"off", "initRx", "initHb"} /\ at'[u] \in {"top", "initHb", "up"}
      BY <1>0, <1>16, <2>1, <2>2 DEF Tasks
    <2>4. UNCHANGED <<alive, tx, stats, ret, cnt, val>>
      BY <1>16 DEF Create, can, context
    <2>5. \A u \in Threads : Pending(u)' <=> Pending(u)
      BY <2>3, <2>4 DEF IsUncounted
    <2>6. \A u \in Threads : at'[u] \in {"store", "initCan"} => at'[u] = at[u]
      BY <2>3
    <2>7. QED BY <1>0, <1>1, <2>4, <2>5, <2>6
  <1>17. ASSUME NEW q \in {"canDeinit", "undoRx", "joinRx", "deleteHb", "joinHb", "rejoinRx"},
                at' = [at EXCEPT ![App] = q], at[App] \notin {"send", "lock", "store"},
                UNCHANGED <<can, context, cnt, val>>
         PROVE  Counting'
    <2>1. ~Pending(App) /\ q \notin {"send", "lock", "store", "initCan"}
      BY <1>17 DEF IsUncounted
    <2>2. QED BY <1>0, <1>2, <1>17, <2>1 DEF can, context
  <1>18. CASE InitRx \/ InitHb
    <2>1. CASE Goto(App, "canDeinit") \/ Goto(App, "undoRx")
      BY <1>17, <1>18, <2>1 DEF InitRx, InitHb, Goto
    <2>2. QED BY <1>16, <1>18, <2>1 DEF InitRx, InitHb, Tasks
  <1>19. CASE Release
    <2>1. ASSUME NEW p \in {"deleteRx", "joinRx", "deleteHb", "joinHb", "undoRx", "rejoinRx"},
                 NEW t, NEW q \in {"joinRx", "deleteHb", "joinHb", "canDeinit", "rejoinRx"},
                 Ask(p, t, q) \/ Join(p, t, q)
          PROVE  Counting'
      BY <1>17, <2>1 DEF Ask, Join, Goto
    <2>2. QED BY <1>14, <1>19, <2>1 DEF Release
  <1>20. CASE UNCHANGED vars
    BY <1>1, <1>20 DEF vars, can, context, locals
  <1>21. QED
    BY <1>6, <1>7, <1>8, <1>9, <1>10, <1>11, <1>12, <1>13, <1>14, <1>15, <1>18, <1>19, <1>20
    DEF Next, Proceed, RxStep, AppStep

\* The statistics of the service agree with the driver's but for the sends that
\* have returned and are not counted yet, at any width of the counters.
THEOREM StatsAgreeAlways ==
  ASSUME Prompt
  PROVE  Spec => []StatsAgree
  <1>1. Init => Counting
    BY DEF Init, Can!Init, Counting, Threads
  <1>2. Counting => StatsAgree
    BY DEF Counting, StatsAgree
  <1>3. Standing /\ Counting /\ [Next]_vars => Standing' /\ Counting'
    BY StandingStep, CountingStep
  <1>4. QED BY StandingInit, <1>1, <1>2, <1>3, PTL DEF Spec
=============================================================================
