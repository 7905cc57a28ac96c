---------------------------- MODULE HalCanProofs ----------------------------
(***************************************************************************)
(* Proofs about HalCan, for any threads, descriptors and threshold, when   *)
(* the calls of the driver do not overlap.                                 *)
(***************************************************************************)
EXTENDS HalCan, TLAPS

-----------------------------------------------------------------------------
(* Types.                                                                  *)

LEMMA ZeroType == 0 \in 0..Threshold /\ 0 \in 0..(Wrap - 1)
  BY CanAssumption

\* The part of TypeOK about the threads.
LocalType ==
  /\ op \in [Threads -> {"none", "send", "recv"}]
  /\ step \in [Threads -> Steps]
  /\ fd \in [Threads -> Fds \cup {NoFd}]
  /\ tmp \in [Threads -> 0..Threshold]
  /\ ret \in [Threads -> {"none", "ok", "timeout", "error"}]
  /\ stale \subseteq Threads

\* The part about the handle and the world.
SharedType ==
  /\ alive \in BOOLEAN
  /\ sockfd \in Fds \cup {NoFd}
  /\ consec \in 0..Threshold
  /\ tx \in 0..(Wrap - 1)
  /\ file \in [Fds -> {"free", "other", "socket", "bound"}]
  /\ link \in {"up", "down", "gone"}

LEMMA TypeParts == TypeOK <=> LocalType /\ SharedType
  BY DEF TypeOK, LocalType, SharedType

\* Thread t moves to s, and no other thread moves.
Moves(t, s) ==
  /\ step'[t] = s
  /\ \A u \in Threads \ {t} :
       step'[u] = step[u] /\ fd'[u] = fd[u] /\ tmp'[u] = tmp[u]

\* The three ways to move keep the types and leave the other threads alone.
LEMMA MoveFacts ==
  ASSUME LocalType, NEW t \in Threads
  PROVE  /\ \A s \in Steps : Goto(t, s) =>
              LocalType' /\ Moves(t, s) /\ fd'[t] = fd[t] /\ tmp'[t] = tmp[t]
         /\ SharedType => \A s \in Steps : Load(t, s) =>
              LocalType' /\ Moves(t, s) /\ fd'[t] = sockfd
         /\ \A r \in {"ok", "timeout", "error"} : Finish(t, r) =>
              LocalType' /\ Moves(t, "done")
  <1>1. ASSUME NEW s \in Steps, Goto(t, s)
        PROVE  LocalType' /\ Moves(t, s) /\ fd'[t] = fd[t] /\ tmp'[t] = tmp[t]
    BY <1>1 DEF Goto, LocalType, Moves
  <1>2. ASSUME SharedType, NEW s \in Steps, Load(t, s)
        PROVE  LocalType' /\ Moves(t, s) /\ fd'[t] = sockfd
    BY <1>2 DEF Load, LocalType, SharedType, Moves
  <1>3. ASSUME NEW r \in {"ok", "timeout", "error"}, Finish(t, r)
        PROVE  LocalType' /\ Moves(t, "done")
    BY <1>3, ZeroType DEF Finish, LocalType, Moves, Steps, NoFd
  <1>4. QED BY <1>1, <1>2, <1>3

LEMMA BeginFacts ==
  ASSUME LocalType, SharedType, NEW t \in Threads,
         NEW o \in {"send", "recv"}, NEW s \in Steps, Begin(t, o, s)
  PROVE  LocalType' /\ Moves(t, s) /\ fd'[t] = sockfd /\ sockfd # NoFd
  BY DEF Begin, LocalType, SharedType, Moves

LEMMA IncrType == \A n \in Nat : Incr(n) \in 0..(Wrap - 1)
  BY CanAssumption DEF Incr

-----------------------------------------------------------------------------
(* CanInv in parts: what is about the sockets, and what about the threads. *)

\* A thread that is not idle is alone.
Alone == \A t, u \in Threads : step[t] # "idle" /\ step[u] # "idle" => t = u

LEMMA InitInv == Init => CanInv
  <1> SUFFICES ASSUME Init PROVE CanInv
    OBVIOUS
  <1>1. TypeOK
    <2>1. LocalType
      BY ZeroType DEF Init, LocalType, Steps
    <2>2. SharedType
      BY ZeroType DEF Init, SharedType
    <2>3. QED BY <2>1, <2>2, TypeParts
  <1>2. QED BY <1>1 DEF Init, CanInv, OneSocket, IsSocket, NoFd, NoSocketSteps, Fds

\* What CanInv says of the handle while thread t, at s, is the only one that
\* may be in the driver.
Good(t, s) ==
  /\ alive
  /\ OneSocket
  /\ sockfd # NoFd => IsSocket(sockfd) \/ s \in NoSocketSteps
  /\ s \in NoSocketSteps => \A f \in Fds : ~IsSocket(f)
  /\ s \notin {"idle", "done"} => sockfd # NoFd
  /\ s \in {"write", "close"} => fd[t] = sockfd
  /\ s = "count" => tmp[t] = consec
  /\ \/ sockfd = NoFd
     \/ consec < Threshold
     \/ consec = Threshold /\ s \in RecoverySteps \cup {"test"}

\* A thread may enter when nobody is in the driver.
CanEnter == \A u \in Threads : step[u] = "idle"

LEMMA GoodBefore ==
  ASSUME CanInv, NEW t \in Threads, step[t] # "idle"
  PROVE  Good(t, step[t]) /\ \A u \in Threads : u # t => step[u] = "idle"
  <1>1. \A u \in Threads : u # t => step[u] = "idle"
    BY DEF CanInv
  <1>2. QED
    BY <1>1 DEF CanInv, Good, NoSocketSteps, RecoverySteps, TypeOK

\* A step of t that leaves it at s with Good preserves CanInv.
LEMMA GoodAfter ==
  ASSUME NEW t \in Threads, NEW s \in Steps,
         \A u \in Threads : u # t => step[u] = "idle",
         LocalType', SharedType', Moves(t, s), Good(t, s)'
  PROVE  CanInv'
  <1>1. TypeOK'
    BY TypeParts DEF TypeOK, LocalType, SharedType
  <1>2. \A u \in Threads : u # t => step'[u] = "idle"
    BY DEF Moves
  <1>3. step'[t] = s
    BY DEF Moves
  <1>4. QED
    BY <1>1, <1>2, <1>3
    DEF CanInv, Good, NoSocketSteps, RecoverySteps

-----------------------------------------------------------------------------
(* Steps that change neither the descriptors nor the streak.               *)

LEMMA EnterGood ==
  ASSUME CanInv, Serial, NEW t \in Threads, Enter(t)
  PROVE  /\ \A u \in Threads : step[u] = "idle"
         /\ Good(t, "idle") /\ LocalType /\ SharedType /\ SharedType'
  BY DEF CanInv, Enter, Good, NoSocketSteps, RecoverySteps, TypeOK, LocalType,
         SharedType, handle, world

LEMMA EnterInv ==
  ASSUME CanInv, Serial, NEW t \in Threads,
         Refused(t) \/ SendEnter(t) \/ RecvEnter(t)
  PROVE  CanInv'
  <1>1. Enter(t)
    BY DEF Refused, SendEnter, RecvEnter, Begin
  <1>2. PICK s \in {"done", "write", "poll"} :
          /\ LocalType' /\ Moves(t, s)
          /\ s # "done" => sockfd # NoFd
          /\ s = "write" => fd'[t] = sockfd
    <2>1. "done" \in Steps /\ "write" \in Steps /\ "poll" \in Steps
      BY DEF Steps
    <2>2. QED
      BY <1>1, <2>1, EnterGood, MoveFacts, BeginFacts DEF Refused, SendEnter, RecvEnter
  <1>3. Good(t, s)'
    BY <1>1, <1>2, EnterGood
    DEF Good, Enter, handle, world, OneSocket, IsSocket, NoSocketSteps, RecoverySteps
  <1>4. QED
    BY <1>1, <1>2, <1>3, EnterGood, GoodAfter DEF Steps

\* The steps of a call up to its end or the beginning of recovery, and those
\* of recovery that only look at the interface.
QuietStep(t) ==
  \/ Write(t) \/ Sent(t) \/ Poll(t) \/ Read(t) \/ Arrive(t) \/ Received(t)
  \/ Fail(t) \/ Count(t) \/ Test(t) \/ RecIoctl(t) \/ RecNoBind(t)

LEMMA QuietType ==
  ASSUME TypeOK, NEW t \in Threads, QuietStep(t)
  PROVE  SharedType'
  <1> USE TypeParts
  <1>1. CASE Write(t)
    BY <1>1 DEF Write, SharedType, handle, world
  <1>2. CASE Sent(t)
    BY <1>2, IncrType, ZeroType DEF Sent, SharedType, world
  <1>3. CASE Poll(t) \/ Read(t) \/ Arrive(t) \/ Test(t) \/ RecIoctl(t) \/ RecNoBind(t)
    BY <1>3 DEF Poll, Read, Arrive, Test, RecIoctl, RecNoBind, SharedType, handle, world
  <1>4. CASE Received(t)
    BY <1>4, ZeroType DEF Received, SharedType, world
  <1>5. CASE Fail(t)
    BY <1>5 DEF Fail, SharedType, handle, world
  <1>6. CASE Count(t)
    BY <1>6, CanAssumption DEF Count, UpToThreshold, SharedType, LocalType, world
  <1>7. QED
    BY <1>1, <1>2, <1>3, <1>4, <1>5, <1>6, QuietStep(t) DEF QuietStep

\* Thread t moves to s by one of them: what that does to the streak.
Leads(t, s) ==
  /\ UNCHANGED <<alive, sockfd, file>>
  /\ step[t] \notin {"idle", "done", "socket", "forget"}
  /\ LocalType' /\ Moves(t, s)
  /\ s = "close" => fd'[t] = sockfd
  /\ s = "count" => tmp'[t] = consec'
  /\ \/ consec' = 0
     \/ consec' = consec
        /\ \/ s \notin RecoverySteps /\ consec < Threshold
           \/ s \in RecoverySteps \cup {"test"}
     \/ s = "test" /\ consec' = UpToThreshold(tmp[t] + 1) /\ step[t] = "count"

QuietTargets == Steps \ ({"idle", "write"} \cup NoSocketSteps)

LEMMA QuietFacts ==
  ASSUME CanInv, NEW t \in Threads, QuietStep(t)
  PROVE  \E s \in QuietTargets : Leads(t, s)
  <1>0. LocalType /\ SharedType
    BY TypeParts DEF CanInv
  <1>1. step[t] # "idle" => Good(t, step[t])
    BY GoodBefore
  <1>2. step[t] \in {"write", "sent", "poll", "read", "blocked", "received", "fail",
                     "count"}
          => consec < Threshold
    BY <1>1 DEF Good, RecoverySteps
  <1>3. CASE Write(t)
    <2>1. \E s \in {"sent", "fail"} : Goto(t, s)
      BY <1>3 DEF Write
    <2>2. \E s \in {"sent", "fail"} : Leads(t, s)
      BY <1>0, <1>2, <1>3, <2>1, MoveFacts DEF Leads, Write, handle, world, Steps, RecoverySteps
    <2>3. QED BY <2>2 DEF QuietTargets, Steps, NoSocketSteps
  <1>4. CASE Sent(t) \/ Received(t)
    <2>1. Finish(t, "ok")
      BY <1>4 DEF Sent, Received
    <2>2. Leads(t, "done")
      BY <1>0, <1>4, <2>1, MoveFacts DEF Leads, Sent, Received, world
    <2>3. QED BY <2>2 DEF QuietTargets, Steps, NoSocketSteps
  <1>5. CASE Poll(t)
    <2>1. Finish(t, "timeout") \/ \E s \in {"read", "fail"} : Goto(t, s)
      BY <1>5 DEF Poll
    <2>2. \E s \in {"read", "fail", "done"} : Leads(t, s)
      BY <1>0, <1>2, <1>5, <2>1, MoveFacts DEF Leads, Poll, handle, world, Steps, RecoverySteps
    <2>3. QED BY <2>2 DEF QuietTargets, Steps, NoSocketSteps
  <1>6. CASE Read(t)
    <2>1. \E s \in {"received", "blocked", "fail"} : Goto(t, s)
      BY <1>6 DEF Read
    <2>2. \E s \in {"received", "blocked", "fail"} : Leads(t, s)
      BY <1>0, <1>2, <1>6, <2>1, MoveFacts DEF Leads, Read, handle, world, Steps, RecoverySteps
    <2>3. QED BY <2>2 DEF QuietTargets, Steps, NoSocketSteps
  <1>7. CASE Arrive(t)
    <2>1. \E s \in {"received", "fail"} : Goto(t, s)
      BY <1>7 DEF Arrive
    <2>2. \E s \in {"received", "fail"} : Leads(t, s)
      BY <1>0, <1>2, <1>7, <2>1, MoveFacts DEF Leads, Arrive, handle, world, Steps, RecoverySteps
    <2>3. QED BY <2>2 DEF QuietTargets, Steps, NoSocketSteps
  <1>8. CASE Fail(t)
    <2>1. LocalType' /\ Moves(t, "count") /\ tmp'[t] = consec
      BY <1>0, <1>8 DEF Fail, LocalType, SharedType, Moves, Steps
    <2>2. Leads(t, "count")
      BY <1>2, <1>8, <2>1 DEF Leads, Fail, handle, world, RecoverySteps
    <2>3. QED BY <2>2 DEF QuietTargets, Steps, NoSocketSteps
  <1>9. CASE Count(t)
    <2>1. Leads(t, "test")
      BY <1>0, <1>9, MoveFacts DEF Leads, Count, world, Steps
    <2>2. QED BY <2>1 DEF QuietTargets, Steps, NoSocketSteps
  <1>10. CASE Test(t)
    <2>1. \/ AtThreshold /\ Load(t, "close")
          \/ consec < Threshold /\ Finish(t, "error")
      BY <1>0, <1>10, CanAssumption DEF Test, AtThreshold, SharedType
    <2>2. \E s \in {"close", "done"} : Leads(t, s)
      BY <1>0, <1>10, <2>1, MoveFacts DEF Leads, Test, handle, world, Steps, RecoverySteps
    <2>3. QED BY <2>2 DEF QuietTargets, Steps, NoSocketSteps
  <1>11. CASE RecIoctl(t) \/ RecNoBind(t)
    <2>1. \E s \in {"bind", "drop"} : Goto(t, s)
      BY <1>11 DEF RecIoctl, RecNoBind
    <2>2. \E s \in {"bind", "drop"} : Leads(t, s)
      BY <1>0, <1>11, <2>1, MoveFacts
      DEF Leads, RecIoctl, RecNoBind, handle, world, Steps, RecoverySteps
    <2>3. QED BY <2>2 DEF QuietTargets, Steps, NoSocketSteps
  <1>12. QED
    BY <1>3, <1>4, <1>5, <1>6, <1>7, <1>8, <1>9, <1>10, <1>11 DEF QuietStep

LEMMA QuietInv ==
  ASSUME CanInv, NEW t \in Threads, QuietStep(t)
  PROVE  CanInv'
  <1>1. PICK s \in QuietTargets : Leads(t, s)
    BY QuietFacts
  <1>2. Good(t, step[t]) /\ \A u \in Threads : u # t => step[u] = "idle"
    BY <1>1, GoodBefore DEF Leads
  <1>3. SharedType' /\ consec \in 0..Threshold
    BY QuietType DEF CanInv, TypeOK
  <1>4. Good(t, s)'
    <2>1. /\ alive' /\ OneSocket' /\ sockfd' # NoFd /\ IsSocket(sockfd)'
      BY <1>1, <1>2 DEF Leads, QuietTargets, Good, OneSocket, IsSocket, NoSocketSteps
    <2>2. \/ consec' < Threshold
          \/ consec' = Threshold /\ s \in RecoverySteps \cup {"test"}
      BY <1>1, <1>2, <1>3, CanAssumption DEF Leads, Good, RecoverySteps, UpToThreshold, SharedType, LocalType
    <2>3. QED BY <1>1, <2>1, <2>2 DEF Leads, QuietTargets, Good
  <1>5. QED BY <1>1, <1>2, <1>3, <1>4, GoodAfter DEF Leads, QuietTargets

-----------------------------------------------------------------------------
(* Steps that open, close or give up a descriptor.                         *)

LEMMA FileTypes ==
  ASSUME SharedType
  PROVE  /\ \A f \in Fds \cup {NoFd} :
              Closed(f) \in [Fds -> {"free", "other", "socket", "bound"}]
         /\ \A f \in Fds, k \in {"free", "other", "socket", "bound"} :
              [file EXCEPT ![f] = k] \in [Fds -> {"free", "other", "socket", "bound"}]
  BY DEF SharedType, Closed

LEMMA RecCloseInv ==
  ASSUME CanInv, NEW t \in Threads, RecClose(t)
  PROVE  CanInv'
  <1>1. Good(t, "close") /\ \A u \in Threads : u # t => step[u] = "idle"
    BY GoodBefore DEF RecClose
  <1>2. LocalType /\ SharedType
    BY TypeParts DEF CanInv
  <1>3. LocalType' /\ Moves(t, "socket")
    BY <1>2 DEF RecClose, Shut, LocalType, Moves, Steps
  <1>4. fd[t] = sockfd /\ sockfd \in Fds
    BY <1>1, <1>2 DEF Good, SharedType
  <1>5. SharedType'
    BY <1>2, <1>4, FileTypes DEF RecClose, Shut, SharedType, handle
  <1>6. \A f \in Fds : ~IsSocket(f)'
    BY <1>1, <1>4 DEF Good, OneSocket, RecClose, Shut, Closed, IsSocket
  <1>7. Good(t, "socket")'
    BY <1>1, <1>2, <1>6, CanAssumption
    DEF Good, OneSocket, RecClose, handle, NoSocketSteps, RecoverySteps
  <1>8. QED BY <1>1, <1>3, <1>5, <1>7, GoodAfter DEF Steps

LEMMA RecDropInv ==
  ASSUME CanInv, NEW t \in Threads, RecDrop(t)
  PROVE  CanInv'
  <1>1. Good(t, "drop") /\ \A u \in Threads : u # t => step[u] = "idle"
    BY GoodBefore DEF RecDrop
  <1>2. LocalType /\ SharedType
    BY TypeParts DEF CanInv
  <1>3. LocalType' /\ Moves(t, "forget")
    BY <1>2 DEF RecDrop, Shut, LocalType, Moves, Steps
  <1>4. SharedType'
    BY <1>2, FileTypes DEF RecDrop, Shut, SharedType, handle
  <1>5. \A f \in Fds : ~IsSocket(f)'
    BY <1>1 DEF Good, OneSocket, RecDrop, Shut, Closed, IsSocket
  <1>6. Good(t, "forget")'
    BY <1>1, <1>2, <1>5, CanAssumption
    DEF Good, OneSocket, RecDrop, handle, NoSocketSteps, RecoverySteps
  <1>7. QED BY <1>1, <1>3, <1>4, <1>6, GoodAfter DEF Steps

\* Recovery without a socket: from socket, when there is no descriptor left,
\* or from forget.
LEMMA GiveUpInv ==
  ASSUME CanInv, NEW t \in Threads, RecNoSocket(t) \/ RecForget(t)
  PROVE  CanInv'
  <1>1. /\ Good(t, step[t]) /\ \A u \in Threads : u # t => step[u] = "idle"
        /\ step[t] \in NoSocketSteps
    BY GoodBefore DEF RecNoSocket, RecForget, NoSocketSteps
  <1>2. LocalType /\ SharedType
    BY TypeParts DEF CanInv
  <1>3. GiveUp(t) /\ UNCHANGED world
    BY DEF RecNoSocket, RecForget
  <1>4. LocalType' /\ Moves(t, "done")
    BY <1>2, <1>3, MoveFacts DEF GiveUp
  <1>5. SharedType'
    BY <1>2, <1>3, IncrType DEF GiveUp, SharedType, world, Fds, NoFd
  <1>6. Good(t, "done")'
    BY <1>1, <1>3 DEF Good, GiveUp, world, OneSocket, IsSocket, NoSocketSteps
  <1>7. QED BY <1>1, <1>4, <1>5, <1>6, GoodAfter DEF Steps

LEMMA RecSocketInv ==
  ASSUME CanInv, NEW t \in Threads, RecSocket(t)
  PROVE  CanInv'
  <1>1. Good(t, "socket") /\ \A u \in Threads : u # t => step[u] = "idle"
    BY GoodBefore DEF RecSocket
  <1>2. LocalType /\ SharedType
    BY TypeParts DEF CanInv
  <1>3. LocalType' /\ Moves(t, "ioctl")
    BY <1>2, MoveFacts DEF RecSocket, Steps
  <1>4. PICK f \in Fds : file' = [file EXCEPT ![f] = "socket"] /\ sockfd' = f
    BY DEF RecSocket
  <1>5. SharedType'
    BY <1>2, <1>4, FileTypes DEF RecSocket, SharedType
  <1>6. OneSocket' /\ IsSocket(sockfd)'
    BY <1>1, <1>2, <1>4
    DEF Good, OneSocket, IsSocket, NoSocketSteps, RecSocket, SharedType, Fds, NoFd
  <1>7. Good(t, "ioctl")'
    BY <1>1, <1>2, <1>6, CanAssumption
    DEF Good, IsSocket, RecSocket, NoSocketSteps, RecoverySteps
  <1>8. QED BY <1>1, <1>3, <1>5, <1>7, GoodAfter DEF Steps

LEMMA RecBindInv ==
  ASSUME CanInv, NEW t \in Threads, RecBind(t)
  PROVE  CanInv'
  <1>1. Good(t, "bind") /\ \A u \in Threads : u # t => step[u] = "idle"
    BY GoodBefore DEF RecBind
  <1>2. LocalType /\ SharedType
    BY TypeParts DEF CanInv
  <1>3. LocalType' /\ Moves(t, "done")
    BY <1>2, MoveFacts DEF RecBind
  <1>4. SharedType'
    BY <1>2, FileTypes, ZeroType DEF RecBind, SharedType, HasInterface, IsSocket
  <1>5. OneSocket' /\ IsSocket(sockfd)'
    BY <1>1, <1>2 DEF Good, OneSocket, IsSocket, RecBind, HasInterface, SharedType
  <1>6. Good(t, "done")'
    BY <1>1, <1>5, CanAssumption DEF Good, RecBind, NoSocketSteps
  <1>7. QED BY <1>1, <1>3, <1>4, <1>6, GoodAfter DEF Steps

LEMMA ReturnInv ==
  ASSUME CanInv, NEW t \in Threads, Return(t)
  PROVE  CanInv'
  <1>1. Good(t, "done") /\ \A u \in Threads : u # t => step[u] = "idle"
    BY GoodBefore DEF Return
  <1>2. LocalType' /\ SharedType' /\ Moves(t, "idle")
    BY TypeParts DEF CanInv, Return, LocalType, SharedType, Moves, Steps, handle, world
  <1>3. Good(t, "idle")'
    BY <1>1 DEF Good, Return, handle, world, OneSocket, IsSocket, NoSocketSteps,
                RecoverySteps
  <1>4. QED BY <1>1, <1>2, <1>3, GoodAfter DEF Steps

-----------------------------------------------------------------------------
(* The types need no Serial.                                               *)

LEMMA EnvironmentType ==
  ASSUME SharedType, Environment
  PROVE  link' \in {"up", "down", "gone"}
         /\ file' \in [Fds -> {"free", "other", "socket", "bound"}]
  <1>1. CASE OtherOpens
    BY <1>1 DEF OtherOpens, LowestFree, SharedType
  <1>2. CASE OtherCloses
    BY <1>2 DEF OtherCloses, Closed, SharedType
  <1>3. CASE LinkFails \/ LinkHeals \/ Unplug \/ Replug
    <2>1. PICK l \in {"up", "down", "gone"} : LinkChange(l)
      BY <1>3 DEF LinkFails, LinkHeals, Unplug, Replug
    <2>2. QED BY <2>1 DEF LinkChange, SharedType
  <1>4. QED BY <1>1, <1>2, <1>3 DEF Environment

LEMMA NextType ==
  ASSUME TypeOK, [Next]_vars
  PROVE  TypeOK'
  <1>0. LocalType /\ SharedType
    BY TypeParts
  <1> SUFFICES LocalType' /\ SharedType'
    BY DEF TypeOK, LocalType, SharedType
  <1>1. CASE UNCHANGED vars
    BY <1>0, <1>1 DEF vars, LocalType, SharedType
  <1>2. CASE Open
    BY <1>0, <1>2, ZeroType, FileTypes DEF Open, locals, LocalType, SharedType
  <1>3. CASE Close
    BY <1>0, <1>3, ZeroType, FileTypes DEF Close, locals, LocalType, SharedType
  <1>4. CASE Environment
    <2>1. UNCHANGED <<handle, locals>>
      BY <1>4 DEF Environment, LinkFails, LinkHeals, Unplug, Replug, LinkChange,
                  OtherOpens, OtherCloses
    <2>2. QED
      BY <1>0, <1>4, <2>1, EnvironmentType DEF handle, locals, LocalType, SharedType
  <1>5. ASSUME NEW t \in Threads, Refused(t) \/ SendEnter(t) \/ RecvEnter(t)
        PROVE  LocalType' /\ SharedType'
    <2>1. UNCHANGED <<handle, world>>
      BY <1>5 DEF Refused, SendEnter, RecvEnter, Begin, Enter
    <2>2. SharedType'
      BY <1>0, <2>1 DEF handle, world, SharedType
    <2>3. LocalType'
      BY <1>0, <1>5, MoveFacts, BeginFacts DEF Refused, SendEnter, RecvEnter, Steps
    <2>4. QED BY <2>2, <2>3
  <1>6. ASSUME NEW t \in Threads, QuietStep(t)
        PROVE  LocalType' /\ SharedType'
    <2>1. SharedType'
      BY <1>6, QuietType
    <2>2. CASE Fail(t)
      BY <1>0, <2>1, <2>2 DEF Fail, LocalType, SharedType, Steps
    <2>3. CASE ~Fail(t)
      <3>1. (\E s \in Steps : Goto(t, s) \/ Load(t, s))
            \/ \E r \in {"ok", "timeout", "error"} : Finish(t, r)
        BY <1>6, <2>3 DEF QuietStep, Write, Sent, Poll, Read, Arrive, Received, Count,
                          Test, RecIoctl, RecNoBind, Steps
      <3>2. LocalType'
        BY <1>0, <3>1, MoveFacts
      <3>3. QED BY <2>1, <3>2
    <2>4. QED BY <2>2, <2>3
  <1>7. ASSUME NEW t \in Threads,
               RecClose(t) \/ RecSocket(t) \/ RecNoSocket(t) \/ RecBind(t)
               \/ RecDrop(t) \/ RecForget(t)
        PROVE  LocalType' /\ SharedType'
    <2>1. CASE RecClose(t) \/ RecDrop(t)
      <3>1. LocalType'
        BY <1>0, <2>1 DEF RecClose, RecDrop, Shut, LocalType, Steps
      <3>2. SharedType'
        BY <1>0, <2>1, FileTypes
        DEF RecClose, RecDrop, Shut, SharedType, LocalType, handle
      <3>3. QED BY <3>1, <3>2
    <2>2. CASE RecNoSocket(t) \/ RecForget(t)
      BY <1>0, <2>2, MoveFacts DEF RecNoSocket, RecForget, GiveUp, SharedType, world
    <2>3. CASE RecSocket(t)
      BY <1>0, <2>3, MoveFacts, FileTypes DEF RecSocket, SharedType, Steps
    <2>4. CASE RecBind(t)
      BY <1>0, <2>4, MoveFacts, FileTypes, ZeroType
      DEF RecBind, SharedType, HasInterface, IsSocket
    <2>5. QED BY <1>7, <2>1, <2>2, <2>3, <2>4
  <1>8. ASSUME NEW t \in Threads, Return(t)
        PROVE  LocalType' /\ SharedType'
    BY <1>0, <1>8 DEF Return, LocalType, SharedType, Steps, handle, world
  <1>9. QED
    BY <1>1, <1>2, <1>3, <1>4, <1>5, <1>6, <1>7, <1>8 DEF Next, Driver, QuietStep

-----------------------------------------------------------------------------
(* Init, Deinit and the world.                                             *)

LEMMA OpenInv ==
  ASSUME CanInv, Open
  PROVE  CanInv'
  <1>1. PICK f \in Fds :
          /\ file' = [file EXCEPT ![f] = "bound"] /\ sockfd' = f /\ alive'
          /\ \A g \in Fds : ~IsSocket(g)
    BY DEF Open, CanInv, OneSocket
  <1>2. /\ LocalType /\ SharedType
        /\ UNCHANGED <<op, step, fd, tmp, ret, stale>>
        /\ \A t \in Threads : step[t] = "idle"
    BY TypeParts DEF CanInv, Open, locals
  <1>3. SharedType'
    BY <1>1, <1>2, ZeroType, FileTypes DEF Open, SharedType
  <1>4. TypeOK'
    BY <1>2, <1>3, TypeParts DEF TypeOK, LocalType, SharedType
  <1>5. OneSocket' /\ IsSocket(sockfd)'
    BY <1>1, <1>2 DEF OneSocket, IsSocket, SharedType, Fds, NoFd
  <1>6. QED
    BY <1>1, <1>2, <1>4, <1>5, CanAssumption DEF CanInv, Open, NoSocketSteps

LEMMA CloseInv ==
  ASSUME CanInv, Close, \A t \in Threads : step[t] = "idle"
  PROVE  CanInv'
  <1>1. LocalType /\ SharedType /\ UNCHANGED <<op, step, fd, tmp, ret, stale>>
    BY TypeParts DEF CanInv, Close, locals
  <1>2. SharedType'
    BY <1>1, ZeroType, FileTypes DEF Close, SharedType
  <1>3. TypeOK'
    BY <1>1, <1>2, TypeParts DEF TypeOK, LocalType, SharedType
  <1>4. OneSocket'
    BY DEF CanInv, OneSocket, IsSocket, Close, Closed
  <1>5. QED
    BY <1>1, <1>3, <1>4 DEF CanInv, Close, NoSocketSteps

\* The environment changes no CAN socket into anything else and makes none.
LEMMA EnvironmentInv ==
  ASSUME CanInv, Environment
  PROVE  CanInv'
  <1>1. LocalType /\ SharedType
    BY TypeParts DEF CanInv
  <1>2. UNCHANGED <<handle, op, step, fd, tmp, ret, stale>>
    BY DEF Environment, LinkFails, LinkHeals, Unplug, Replug, LinkChange,
           OtherOpens, OtherCloses, locals
  <1>3. /\ link' \in {"up", "down", "gone"}
        /\ file' \in [Fds -> {"free", "other", "socket", "bound"}]
        /\ \A f \in Fds : IsSocket(f)' <=> IsSocket(f)
    <2>1. CASE OtherOpens
      BY <1>1, <2>1 DEF OtherOpens, LowestFree, SharedType, IsSocket
    <2>2. CASE OtherCloses
      BY <1>1, <2>2 DEF OtherCloses, Closed, SharedType, IsSocket
    <2>3. CASE LinkFails \/ LinkHeals \/ Unplug \/ Replug
      <3>1. PICK l \in {"up", "down", "gone"} : LinkChange(l)
        BY <2>3 DEF LinkFails, LinkHeals, Unplug, Replug
      <3>2. QED BY <1>1, <3>1 DEF LinkChange, SharedType, IsSocket
    <2>4. QED BY <2>1, <2>2, <2>3 DEF Environment
  <1>4. TypeOK'
    BY <1>1, <1>2, <1>3 DEF TypeOK, LocalType, SharedType, handle
  <1>5. OneSocket' /\ (sockfd # NoFd /\ IsSocket(sockfd) => IsSocket(sockfd)')
    BY <1>1, <1>2, <1>3 DEF CanInv, OneSocket, SharedType, handle
  <1>6. QED
    BY <1>2, <1>3, <1>4, <1>5 DEF CanInv, handle, NoSocketSteps, RecoverySteps

-----------------------------------------------------------------------------
(* The theorems.                                                           *)

LEMMA NextInv ==
  ASSUME CanInv, Serial, [Next]_vars
  PROVE  CanInv'
  <1>1. CASE UNCHANGED vars
    BY <1>1 DEF vars, CanInv, TypeOK, OneSocket, IsSocket, NoSocketSteps, RecoverySteps
  <1>2. CASE Open
    BY <1>2, OpenInv
  <1>3. CASE Close /\ \A t \in Threads : step[t] = "idle"
    BY <1>3, CloseInv
  <1>4. CASE Environment
    BY <1>4, EnvironmentInv
  <1>5. ASSUME NEW t \in Threads,
               \/ Refused(t) \/ SendEnter(t) \/ RecvEnter(t)
               \/ Driver(t) \/ Arrive(t) \/ Return(t)
        PROVE  CanInv'
    <2>1. CASE Refused(t) \/ SendEnter(t) \/ RecvEnter(t)
      BY <2>1, EnterInv
    <2>2. CASE Return(t)
      BY <2>2, ReturnInv
    <2>3. CASE QuietStep(t)
      BY <2>3, QuietInv
    <2>4. CASE RecClose(t) \/ RecSocket(t) \/ RecNoSocket(t) \/ RecBind(t)
               \/ RecDrop(t) \/ RecForget(t)
      BY <2>4, RecCloseInv, RecSocketInv, GiveUpInv, RecBindInv, RecDropInv
    <2>5. QED
      BY <1>5, <2>1, <2>2, <2>3, <2>4 DEF Driver, QuietStep
  <1>6. QED
    BY <1>1, <1>2, <1>3, <1>4, <1>5 DEF Next

\* CanInv is an invariant when calls do not overlap.
THEOREM CanSerial ==
  ASSUME Serial
  PROVE  Spec => []CanInv
  <1>1. CanInv /\ [Next]_vars => CanInv'
    BY NextInv
  <1>2. QED BY <1>1, InitInv, PTL DEF Spec

\* Types, whether calls overlap or not.
THEOREM CanTypes == Spec => []TypeOK
  <1>1. Init => TypeOK
    BY InitInv DEF CanInv
  <1>2. TypeOK /\ [Next]_vars => TypeOK'
    BY NextType
  <1>3. QED BY <1>1, <1>2, PTL DEF Spec

\* The driver never has more than one socket open, and none after Deinit.
THEOREM CanOneSocket ==
  ASSUME Serial
  PROVE  Spec => []OneSocket
  <1>1. CanInv => OneSocket
    BY DEF CanInv
  <1>2. QED BY <1>1, CanSerial, PTL

\* The driver touches no file of anybody else.
THEOREM CanNoForeignFile ==
  ASSUME Serial
  PROVE  Spec => []NoForeignFile
  <1>1. CanInv => NoForeignFile
    <2> SUFFICES ASSUME CanInv, NEW t \in Threads,
                        step[t] \in {"write", "close", "read", "drop"}
                 PROVE  /\ step[t] \in {"write", "close"} => fd[t] = sockfd
                        /\ sockfd # NoFd => file[sockfd] # "other"
      BY DEF NoForeignFile
    <2>1. Good(t, step[t])
      BY GoodBefore
    <2>2. QED BY <2>1 DEF Good, IsSocket, NoSocketSteps
  <1>2. QED BY <1>1, CanSerial, PTL

\* A streak of errors below the threshold is left behind between calls.
THEOREM CanStreak ==
  ASSUME Serial
  PROVE  Spec => []StreakBelowThreshold
  <1>1. CanInv => StreakBelowThreshold
    BY DEF CanInv, StreakBelowThreshold, RecoverySteps
  <1>2. QED BY <1>1, CanSerial, PTL

-----------------------------------------------------------------------------
(* HalCan implements CanPort, whether calls overlap or not.                *)

\* The call a thread is in fits the step it is at.
OpFits(t) ==
  /\ step[t] \in {"write", "sent"} => op[t] = "send"
  /\ step[t] \in {"poll", "read", "blocked", "received"} => op[t] = "recv"
  /\ step[t] \notin {"idle", "done"} => op[t] # "none"

PortInv ==
  /\ op \in [Threads -> {"none", "send", "recv"}]
  /\ step \in [Threads -> Steps]
  /\ ret \in [Threads -> {"none", "ok", "timeout", "error"}]
  /\ \A t \in Threads : OpFits(t)

Busy == Steps \ {"idle", "done"}

\* A step inside the call of t, which only CanPort does not see.
Inside(t, s) ==
  /\ step[t] \notin {"idle", "done"}
  /\ s \in Busy \ {"write", "poll"}
  /\ s = "sent" => step[t] = "write"
  /\ s \in {"read", "blocked", "received"} => step[t] \in {"poll", "read", "blocked"}
  /\ step' = [step EXCEPT ![t] = s]
  /\ UNCHANGED <<alive, tx, op, ret>>

\* The call of t ends with r.
Leaves(t, r) ==
  /\ step[t] \notin {"idle", "done"}
  /\ r \in {"ok", "timeout", "error"}
  /\ step' = [step EXCEPT ![t] = "done"]
  /\ ret' = [ret EXCEPT ![t] = r]
  /\ UNCHANGED <<alive, op>>
  /\ \/ op[t] = "recv" /\ UNCHANGED tx
     \/ op[t] = "send" /\ r = "ok" /\ tx' = (tx + 1) % Wrap
     \/ op[t] = "send" /\ r = "error" /\ UNCHANGED tx

LEMMA DriverKinds ==
  ASSUME PortInv, NEW t \in Threads, Driver(t) \/ Arrive(t)
  PROVE  (\E s \in Steps : Inside(t, s)) \/ (\E r \in {"ok", "timeout", "error"} : Leaves(t, r))
  <1>0. OpFits(t) /\ op[t] \in {"none", "send", "recv"}
    BY DEF PortInv
  <1> USE DEF Steps, Busy
  <1>1. CASE Write(t) \/ Read(t) \/ Arrive(t) \/ RecIoctl(t) \/ RecNoBind(t)
    BY <1>1 DEF Write, Read, Arrive, RecIoctl, RecNoBind, Goto, Inside, handle, world
  <1>2. CASE Poll(t)
    <2>1. CASE Finish(t, "timeout")
      BY <1>0, <1>2, <2>1 DEF Poll, Finish, Leaves, OpFits, handle
    <2>2. CASE Goto(t, "read") \/ Goto(t, "fail")
      BY <1>2, <2>2 DEF Poll, Goto, Inside, handle
    <2>3. QED BY <1>2, <2>1, <2>2 DEF Poll
  <1>3. CASE Sent(t) \/ Received(t)
    BY <1>0, <1>3 DEF Sent, Received, Finish, Leaves, OpFits, Incr
  <1>4. CASE Fail(t) \/ Count(t) \/ RecClose(t) \/ RecSocket(t) \/ RecDrop(t)
    BY <1>4 DEF Fail, Count, RecClose, RecSocket, RecDrop, Shut, Goto, Inside, handle
  <1>5. CASE Test(t)
    <2>1. CASE Load(t, "close")
      BY <1>5, <2>1 DEF Test, Load, Inside, handle
    <2>2. CASE Finish(t, "error")
      BY <1>0, <1>5, <2>2 DEF Test, Finish, Leaves, OpFits, handle
    <2>3. QED BY <1>5, <2>1, <2>2 DEF Test
  <1>6. CASE RecNoSocket(t) \/ RecBind(t) \/ RecForget(t)
    BY <1>0, <1>6 DEF RecNoSocket, RecBind, RecForget, GiveUp, Finish, Leaves, OpFits
  <1>7. QED
    BY <1>1, <1>2, <1>3, <1>4, <1>5, <1>6 DEF Driver

\* What the other steps do to the calls.
Quiet == UNCHANGED <<alive, tx, op, step, ret>>
Enters(t, o, s) ==
  /\ alive /\ step[t] = "idle"
  /\ op' = [op EXCEPT ![t] = o]
  /\ step' = [step EXCEPT ![t] = s]
  /\ UNCHANGED <<alive, tx, ret>>

LEMMA NextKinds ==
  ASSUME PortInv, [Next]_vars
  PROVE  \/ Quiet
         \/ Open
         \/ Close /\ \A t \in Threads : step[t] = "idle"
         \/ \E t \in Threads :
              \/ Refused(t) \/ Return(t)
              \/ Enters(t, "send", "write") \/ Enters(t, "recv", "poll")
              \/ (\E s \in Steps : Inside(t, s))
              \/ (\E r \in {"ok", "timeout", "error"} : Leaves(t, r))
  <1>1. UNCHANGED vars => Quiet
    BY DEF vars, Quiet
  <1>2. Environment => Quiet
    BY DEF Environment, LinkFails, LinkHeals, Unplug, Replug, LinkChange, OtherOpens,
           OtherCloses, Quiet, handle, locals
  <1>3. ASSUME NEW t \in Threads
        PROVE  /\ SendEnter(t) => Enters(t, "send", "write")
               /\ RecvEnter(t) => Enters(t, "recv", "poll")
    BY DEF SendEnter, RecvEnter, Begin, Enter, Enters, handle
  <1>4. QED
    BY <1>1, <1>2, <1>3, DriverKinds DEF Next

LEMMA PortInvNext ==
  ASSUME PortInv, [Next]_vars
  PROVE  PortInv'
  <1> USE DEF PortInv, OpFits
  <1>1. CASE Quiet
    BY <1>1 DEF Quiet
  <1>2. CASE Open \/ Close
    BY <1>2 DEF Open, Close, locals
  <1>3. ASSUME NEW t \in Threads, Refused(t) \/ Return(t)
        PROVE  PortInv'
    BY <1>3 DEF Refused, Return, Finish, Enter, Steps
  <1>4. ASSUME NEW t \in Threads, Enters(t, "send", "write") \/ Enters(t, "recv", "poll")
        PROVE  PortInv'
    BY <1>4 DEF Enters, Steps
  <1>5. ASSUME NEW t \in Threads, NEW s \in Steps, Inside(t, s)
        PROVE  PortInv'
    BY <1>5 DEF Inside, Steps, Busy
  <1>6. ASSUME NEW t \in Threads, NEW r \in {"ok", "timeout", "error"}, Leaves(t, r)
        PROVE  PortInv'
    BY <1>6 DEF Leaves, Steps
  <1>7. QED
    BY NextKinds, <1>1, <1>2, <1>3, <1>4, <1>5, <1>6

\* The state of CanPort.
Call == [t \in Threads |-> CallOf(t)]

LEMMA CallMoves ==
  ASSUME PortInv, NEW t \in Threads, \A u \in Threads \ {t} : CallOf(u)' = CallOf(u)
  PROVE  Call' = [Call EXCEPT ![t] = CallOf(t)']
  BY DEF Call

\* A thread that moves leaves the calls of the others alone.
LEMMA OthersCalls ==
  ASSUME PortInv, NEW t \in Threads,
         (\E s \in Steps : step' = [step EXCEPT ![t] = s]),
         UNCHANGED op \/ (\E o \in {"none", "send", "recv"} : op' = [op EXCEPT ![t] = o])
  PROVE  \A u \in Threads \ {t} : CallOf(u)' = CallOf(u)
  BY DEF PortInv, CallOf

LEMMA PortStep ==
  ASSUME PortInv, [Next]_vars
  PROVE  [Port!Next]_(Port!vars)
  <1> USE DEF Call, Port!vars
  <1>1. CASE Quiet
    BY <1>1 DEF Quiet, CallOf
  <1>2. CASE Open
    BY <1>2 DEF Open, locals, CallOf, Port!Open, Port!Next
  <1>3. CASE Close /\ \A t \in Threads : step[t] = "idle"
    BY <1>3 DEF Close, locals, CallOf, Port!Close, Port!Next
  <1>4. ASSUME NEW t \in Threads, Refused(t)
        PROVE  Port!Next
    <2>1. Call' = [Call EXCEPT ![t] = "done"]
      BY <1>4, CallMoves, OthersCalls DEF Refused, Finish, CallOf, Steps, PortInv
    <2>2. Port!Refuse(t)
      BY <1>4, <2>1 DEF Refused, Finish, Enter, handle, CallOf, Port!Refuse, Port!End
    <2>3. QED BY <2>2 DEF Port!Next
  <1>5. ASSUME NEW t \in Threads, Return(t)
        PROVE  Port!Next
    <2>1. Call' = [Call EXCEPT ![t] = "idle"]
      BY <1>5, CallMoves, OthersCalls DEF Return, CallOf, Steps, PortInv
    <2>2. Port!Return(t)
      BY <1>5, <2>1 DEF Return, handle, CallOf, Port!Return
    <2>3. QED BY <2>2 DEF Port!Next
  <1>6. ASSUME NEW t \in Threads, NEW o \in {"send", "recv"}, NEW s \in {"write", "poll"},
               Enters(t, o, s)
        PROVE  Port!Begin(t, o)
    <2>1. Call' = [Call EXCEPT ![t] = o]
      BY <1>6, CallMoves, OthersCalls DEF Enters, CallOf, Steps, PortInv
    <2>2. QED BY <1>6, <2>1 DEF Enters, CallOf, Port!Begin
  <1>7. ASSUME NEW t \in Threads, NEW s \in Steps, Inside(t, s)
        PROVE  UNCHANGED Port!vars
    <2>1. Call' = [Call EXCEPT ![t] = CallOf(t)]
      BY <1>7, CallMoves, OthersCalls DEF Inside, CallOf, Busy, PortInv
    <2>2. QED BY <1>7, <2>1 DEF Inside
  <1>8. ASSUME NEW t \in Threads, NEW r \in {"ok", "timeout", "error"}, Leaves(t, r)
        PROVE  Port!Ends(t)
    <2>1. Call' = [Call EXCEPT ![t] = "done"]
      BY <1>8, CallMoves, OthersCalls DEF Leaves, CallOf, Steps, PortInv
    <2>2. Call[t] = op[t]
      BY <1>8 DEF Leaves, CallOf
    <2>3. QED
      BY <1>8, <2>1, <2>2
      DEF Leaves, Port!Ends, Port!SendOk, Port!SendFails, Port!RecvEnds, Port!End
  <1>9. QED
    BY NextKinds, <1>1, <1>2, <1>3, <1>4, <1>5, <1>6, <1>7, <1>8 DEF Port!Next

\* The driver keeps what its users count on: every call ends once, and what
\* is counted as sent are the sends that returned OSAL_SUCCESS.
THEOREM CanImplementsPort == Spec => ImplementsPort
  <1>1. Init => PortInv /\ Port!Init
    BY DEF Init, PortInv, OpFits, Steps, CallOf, Port!Init
  <1>2. PortInv /\ [Next]_vars => PortInv'
    BY PortInvNext
  <1>3. PortInv /\ [Next]_vars => [Port!Next]_(Port!vars)
    BY PortStep
  <1>4. QED
    BY <1>1, <1>2, <1>3, PTL DEF Spec, ImplementsPort, Port!Spec
=============================================================================
