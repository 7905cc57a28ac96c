------------------------------- MODULE HalCan -------------------------------
(***************************************************************************)
(* The SocketCAN driver of HAL, hal/src/linux/hal_can.c: one handle, the   *)
(* threads that send and receive on it, and its recovery of the bus.       *)
(*                                                                         *)
(* The driver has no lock.  A step is one access to the handle or one      *)
(* system call; tx_count is a C11 atomic, the rest of the handle is not.   *)
(* A descriptor is a number the kernel hands out again as                  *)
(* soon as it is closed, the lowest free one first, and other threads of   *)
(* the process open and close files too.                                   *)
(*                                                                         *)
(* pdl_mcu_can.c calls the driver under the lock of its service (Serial),  *)
(* pdl_satellite_can.c from two tasks at once.  All of them pass           *)
(* HAL_CAN_Recv a timeout >= 0, so poll comes before every read.           *)
(*                                                                         *)
(* Left out: the contents of a frame, the filter and the socket's          *)
(* timeouts, the error callback (nothing in the code sets one) and         *)
(* rx_count and err_count, atomics that nothing in the code reads.         *)
(*                                                                         *)
(* A definition Mut... is a fault put in the place of the definition after *)
(* it to see that a property notices; no specification uses one.           *)
(***************************************************************************)
EXTENDS Integers, FiniteSets

CONSTANTS Threads,     \* the threads that call the driver
          Serial,      \* TRUE: their calls never overlap
          Unpluggable, \* TRUE: the interface may disappear and come back
          NFds,        \* the descriptors of the process
          MaxOther,    \* bound: files the rest of the process holds open
          Threshold,   \* error_threshold, 10 in the code
          Wrap         \* the counters count modulo Wrap, 2^32 in the code

ASSUME CanAssumption ==
  /\ Serial \in BOOLEAN
  /\ Unpluggable \in BOOLEAN
  /\ NFds \in Nat \ {0}
  /\ MaxOther \in Nat
  /\ Threshold \in Nat \ {0}
  /\ Wrap \in Nat \ {0, 1}

NoFd == 0    \* -1
Fds == 1..NFds

VARIABLES
  alive,    \* the handle exists: between Init and Deinit
  sockfd,   \* impl->sockfd
  consec,   \* impl->consecutive_errors
  tx,       \* impl->tx_count
  file,     \* what each descriptor is: free, a file of somebody else,
            \* a CAN socket not bound or bound to the interface
  link,     \* the interface: up, down, gone
  op,       \* the call each thread is in: none, send, recv
  step,     \* where it is in the driver
  fd,       \* the descriptor it loaded
  tmp,      \* the value of consecutive_errors it loaded
  stale,    \* the receivers whose socket was closed since they called
  ret       \* what its call returns

handle == <<alive, sockfd, consec, tx>>
world == <<file, link>>
locals == <<op, step, fd, tmp, ret, stale>>
vars == <<alive, sockfd, consec, tx, file, link,
          op, step, fd, tmp, ret, stale>>

Init ==
  /\ alive = FALSE
  /\ sockfd = NoFd
  /\ consec = 0
  /\ tx = 0
  /\ file = [f \in Fds |-> "free"]
  /\ link = "up"
  /\ op = [t \in Threads |-> "none"]
  /\ step = [t \in Threads |-> "idle"]
  /\ fd = [t \in Threads |-> NoFd]
  /\ tmp = [t \in Threads |-> 0]
  /\ ret = [t \in Threads |-> "none"]
  /\ stale = {}

IsSocket(f) == f # NoFd /\ file[f] \in {"socket", "bound"}
Closed(f) == [g \in Fds |-> IF g = f THEN "free" ELSE file[g]]
LowestFree(f) ==
  /\ f \in Fds
  /\ file[f] = "free"
  /\ \A g \in Fds : g < f => file[g] # "free"

Incr(n) == (n + 1) % Wrap

Goto(t, s) ==
  /\ step' = [step EXCEPT ![t] = s]
  /\ UNCHANGED <<op, fd, tmp, ret, stale>>

\* t goes on to s with the descriptor of the handle loaded.
Load(t, s) ==
  /\ step' = [step EXCEPT ![t] = s]
  /\ fd' = [fd EXCEPT ![t] = sockfd]
  /\ UNCHANGED <<op, tmp, ret, stale>>

\* The call of t returns r; what it loaded is dead.
Finish(t, r) ==
  /\ step' = [step EXCEPT ![t] = "done"]
  /\ fd' = [fd EXCEPT ![t] = NoFd]
  /\ tmp' = [tmp EXCEPT ![t] = 0]
  /\ ret' = [ret EXCEPT ![t] = r]
  /\ stale' = stale \ {t}
  /\ UNCHANGED op

-----------------------------------------------------------------------------
(* HAL_CAN_Init and HAL_CAN_Deinit.  Init works on a handle nobody else    *)
(* has; when it fails, it closes and frees what it has acquired.           *)

Open ==
  /\ ~alive
  /\ link # "gone"
  /\ \E f \in Fds :
       /\ LowestFree(f)
       /\ file' = [file EXCEPT ![f] = "bound"]
       /\ sockfd' = f
  /\ alive' = TRUE
  /\ consec' = 0
  /\ tx' = 0
  /\ UNCHANGED <<link, locals>>

Close ==
  /\ alive
  /\ alive' = FALSE
  /\ sockfd' = NoFd
  /\ consec' = 0
  /\ tx' = 0
  /\ file' = Closed(sockfd)
  /\ UNCHANGED <<link, locals>>

-----------------------------------------------------------------------------
(* HAL_CAN_Send.                                                           *)

Enter(t) ==
  /\ alive
  /\ step[t] = "idle"
  /\ Serial => \A u \in Threads : step[u] = "idle"
  /\ UNCHANGED <<handle, world>>

\* Without a socket a call fails before it counts an error.
Refused(t) == Enter(t) /\ sockfd = NoFd /\ Finish(t, "error")

\* A call begins at s, with the descriptor loaded.
Begin(t, o, s) ==
  /\ Enter(t)
  /\ sockfd # NoFd
  /\ op' = [op EXCEPT ![t] = o]
  /\ step' = [step EXCEPT ![t] = s]
  /\ fd' = [fd EXCEPT ![t] = sockfd]
  /\ UNCHANGED <<tmp, ret, stale>>

SendEnter(t) == Begin(t, "send", "write")

\* write: a frame written to a socket that is bound to an interface that is
\* up reaches the bus, unless its queue is full; a file of somebody else takes
\* the bytes as well.
Write(t) ==
  /\ step[t] = "write"
  /\ LET f == file[fd[t]] IN
       \/ /\ f = "other" \/ (f = "bound" /\ link = "up")
          /\ Goto(t, "sent")
       \/ f # "other" /\ Goto(t, "fail")
  /\ UNCHANGED <<handle, world>>

Sent(t) ==
  /\ step[t] = "sent"
  /\ consec' = 0
  /\ tx' = Incr(tx)
  /\ Finish(t, "ok")
  /\ UNCHANGED <<alive, sockfd, world>>

-----------------------------------------------------------------------------
(* HAL_CAN_Recv.                                                           *)

RecvEnter(t) == Begin(t, "recv", "poll")

\* Mutant: hearing nothing ends the streak of errors.
MutPoll(t) ==
  /\ step[t] = "poll"
  /\ consec' = 0
  /\ \/ Finish(t, "timeout")
     \/ Goto(t, "read")
     \/ Goto(t, "fail")
  /\ UNCHANGED <<alive, sockfd, tx, world>>

\* poll: nothing came in time; there is something to read, which may be an
\* error of the socket or a descriptor that is no more; or a signal.
Poll(t) ==
  /\ step[t] = "poll"
  /\ \/ Finish(t, "timeout")
     \/ Goto(t, "read")
     \/ Goto(t, "fail")
  /\ UNCHANGED <<handle, world>>

\* read, on the descriptor the handle holds by now.  A bound socket of an
\* interface that is up gives the frame poll saw.  When the socket has been
\* replaced since, read waits for the first frame of the new one, and waits
\* for ever: hal_can_recover sets no SO_RCVTIMEO.
Read(t) ==
  /\ step[t] = "read"
  /\ LET f == IF sockfd = NoFd THEN "free" ELSE file[sockfd] IN
       \/ /\ f = "other" \/ (f = "bound" /\ link = "up" /\ t \notin stale)
          /\ Goto(t, "received")
       \/ /\ f = "bound" /\ link = "up" /\ t \in stale
          /\ Goto(t, "blocked")
       \/ /\ f # "bound" \/ link # "up"
          /\ Goto(t, "fail")
  /\ UNCHANGED <<handle, world>>

\* A frame or an error arrives at last.
Arrive(t) ==
  /\ step[t] = "blocked"
  /\ Goto(t, IF link = "up" THEN "received" ELSE "fail")
  /\ UNCHANGED <<handle, world>>

\* Mutant: what is received is counted in tx_count.
MutReceived(t) ==
  /\ step[t] = "received"
  /\ consec' = 0
  /\ tx' = Incr(tx)
  /\ Finish(t, "ok")
  /\ UNCHANGED <<alive, sockfd, world>>

Received(t) ==
  /\ step[t] = "received"
  /\ consec' = 0
  /\ Finish(t, "ok")
  /\ UNCHANGED <<alive, sockfd, tx, world>>

-----------------------------------------------------------------------------
(* The error path of both, and hal_can_recover.                            *)

\* consecutive_errors++ is a load and a store.
Fail(t) ==
  /\ step[t] = "fail"
  /\ step' = [step EXCEPT ![t] = "count"]
  /\ tmp' = [tmp EXCEPT ![t] = consec]
  /\ UNCHANGED <<handle, world, op, fd, ret, stale>>

\* From the threshold on, the lengths of a streak are not told apart.
UpToThreshold(n) == IF n < Threshold THEN n ELSE Threshold

Count(t) ==
  /\ step[t] = "count"
  /\ consec' = UpToThreshold(tmp[t] + 1)
  /\ Goto(t, "test")
  /\ UNCHANGED <<alive, sockfd, tx, world>>

AtThreshold == consec >= Threshold

\* At the threshold the driver recovers: it takes the old descriptor.
Test(t) ==
  /\ step[t] = "test"
  /\ IF AtThreshold THEN Load(t, "close") ELSE Finish(t, "error")
  /\ UNCHANGED <<handle, world>>

\* close, and what it does to the receivers on that socket.
Shut(f) ==
  /\ file' = Closed(f)
  /\ stale' = IF IsSocket(f)
              THEN stale \cup {u \in Threads : step[u] \in {"poll", "read"}}
              ELSE stale

\* Mutant: the old socket is left open.
MutRecClose(t) ==
  /\ step[t] = "close"
  /\ Goto(t, "socket")
  /\ UNCHANGED <<handle, world>>

RecClose(t) ==
  /\ step[t] = "close"
  /\ Shut(fd[t])
  /\ step' = [step EXCEPT ![t] = "socket"]
  /\ UNCHANGED <<handle, link, op, fd, tmp, ret>>

\* A recovery that cannot be completed leaves the handle without a socket.
GiveUp(t) ==
  /\ sockfd' = NoFd
  /\ Finish(t, "error")
  /\ UNCHANGED <<alive, consec, tx>>

RecSocket(t) ==
  /\ step[t] = "socket"
  /\ \E f \in Fds :
       /\ LowestFree(f)
       /\ file' = [file EXCEPT ![f] = "socket"]
       /\ sockfd' = f
  /\ Goto(t, "ioctl")
  /\ UNCHANGED <<alive, consec, tx, link>>

\* socket fails when every descriptor of the process is taken.
RecNoSocket(t) ==
  /\ step[t] = "socket"
  /\ \A f \in Fds : file[f] # "free"
  /\ GiveUp(t)
  /\ UNCHANGED world

\* ioctl and bind use what the handle holds by then.
HasInterface == IsSocket(sockfd) /\ link # "gone"

RecIoctl(t) ==
  /\ step[t] = "ioctl"
  /\ Goto(t, IF HasInterface THEN "bind" ELSE "drop")
  /\ UNCHANGED <<handle, world>>

\* The call that set the recovery off fails all the same.
RecBind(t) ==
  /\ step[t] = "bind"
  /\ HasInterface
  /\ file' = [file EXCEPT ![sockfd] = "bound"]
  /\ consec' = 0
  /\ Finish(t, "error")
  /\ UNCHANGED <<alive, sockfd, tx, link>>

RecNoBind(t) ==
  /\ step[t] = "bind"
  /\ ~HasInterface
  /\ Goto(t, "drop")
  /\ UNCHANGED <<handle, world>>

RecDrop(t) ==
  /\ step[t] = "drop"
  /\ Shut(sockfd)
  /\ step' = [step EXCEPT ![t] = "forget"]
  /\ UNCHANGED <<handle, link, op, fd, tmp, ret>>

\* Mutant: the number of the closed descriptor stays in the handle.
MutRecForget(t) ==
  /\ step[t] = "forget"
  /\ Finish(t, "error")
  /\ UNCHANGED <<alive, sockfd, consec, tx, world>>

RecForget(t) ==
  /\ step[t] = "forget"
  /\ GiveUp(t)
  /\ UNCHANGED world

\* The call returns to its caller.
Return(t) ==
  /\ step[t] = "done"
  /\ step' = [step EXCEPT ![t] = "idle"]
  /\ op' = [op EXCEPT ![t] = "none"]
  /\ ret' = [ret EXCEPT ![t] = "none"]
  /\ UNCHANGED <<handle, world, fd, tmp, stale>>

\* What a thread in the driver does next, but for waiting in read.
Driver(t) ==
  \/ Write(t) \/ Sent(t) \/ Poll(t) \/ Read(t) \/ Received(t)
  \/ Fail(t) \/ Count(t) \/ Test(t) \/ RecClose(t)
  \/ RecSocket(t) \/ RecNoSocket(t) \/ RecIoctl(t)
  \/ RecBind(t) \/ RecNoBind(t) \/ RecDrop(t) \/ RecForget(t)

-----------------------------------------------------------------------------
(* The interface, and the rest of the process.                             *)

\* A socket loses its binding when its interface disappears.
LinkChange(l) ==
  /\ link' = l
  /\ file' = IF l = "gone"
             THEN [f \in Fds |-> IF file[f] = "bound" THEN "socket" ELSE file[f]]
             ELSE file
  /\ UNCHANGED <<handle, locals>>

LinkFails == link = "up" /\ LinkChange("down")
LinkHeals == link = "down" /\ LinkChange("up")
Unplug == Unpluggable /\ link # "gone" /\ LinkChange("gone")
Replug == link = "gone" /\ LinkChange("down")

OtherOpens ==
  /\ Cardinality({f \in Fds : file[f] = "other"}) < MaxOther
  /\ \E f \in Fds : LowestFree(f) /\ file' = [file EXCEPT ![f] = "other"]
  /\ UNCHANGED <<handle, link, locals>>

OtherCloses ==
  /\ \E f \in Fds : file[f] = "other" /\ file' = Closed(f)
  /\ UNCHANGED <<handle, link, locals>>

Environment ==
  LinkFails \/ LinkHeals \/ Unplug \/ Replug \/ OtherOpens \/ OtherCloses

\* Callers use a handle after Init and Deinit it when no call is running.
Next ==
  \/ Open
  \/ Close /\ \A t \in Threads : step[t] = "idle"
  \/ \E t \in Threads :
       \/ Refused(t) \/ SendEnter(t) \/ RecvEnter(t)
       \/ Driver(t) \/ Arrive(t) \/ Return(t)
  \/ Environment

Spec == Init /\ [][Next]_vars

\* A thread inside the driver goes on, and somebody keeps sending.
Fairness ==
  /\ \A t \in Threads : WF_vars(Driver(t)) /\ WF_vars(Return(t))
  /\ SF_vars(\E t \in Threads : SendEnter(t))

FairSpec == Spec /\ Fairness

-----------------------------------------------------------------------------
(* Properties.                                                             *)

Steps == {"idle", "write", "sent", "poll", "read", "blocked", "received", "fail",
          "count", "test", "close", "socket", "ioctl", "bind", "drop", "forget",
          "done"}

\* Type correctness of the handle, the descriptors and the threads.
TypeOK ==
  /\ alive \in BOOLEAN
  /\ sockfd \in Fds \cup {NoFd}
  /\ consec \in 0..Threshold
  /\ tx \in 0..(Wrap - 1)
  /\ file \in [Fds -> {"free", "other", "socket", "bound"}]
  /\ link \in {"up", "down", "gone"}
  /\ op \in [Threads -> {"none", "send", "recv"}]
  /\ step \in [Threads -> Steps]
  /\ fd \in [Threads -> Fds \cup {NoFd}]
  /\ tmp \in [Threads -> 0..Threshold]
  /\ ret \in [Threads -> {"none", "ok", "timeout", "error"}]
  /\ stale \subseteq Threads

\* At most one socket: the one in the handle, and none without a handle.
\* hal_can_recover closes the old one before it opens the next and closes
\* what it cannot bind.
OneSocket ==
  \A f \in Fds : IsSocket(f) => alive /\ f = sockfd

\* Whatever descriptor a thread is about to write, read or close is not a
\* file of somebody else, although numbers are handed out again at once and
\* the handle keeps the old number during recovery.
NoForeignFile ==
  \A t \in Threads :
    /\ step[t] \in {"write", "close"} /\ fd[t] # NoFd => file[fd[t]] # "other"
    /\ step[t] \in {"read", "drop"} /\ sockfd # NoFd => file[sockfd] # "other"

\* The streak of errors: between calls it is below the threshold, so that it
\* is the next streak, not an old one, that sets off the next recovery;
\* unless recovery has given the socket up.
StreakBelowThreshold ==
  (\A t \in Threads : step[t] = "idle") /\ alive /\ sockfd # NoFd
    => consec < Threshold

\* The recovery holds a number that names no socket; it has counted enough.
NoSocketSteps == {"socket", "forget"}
RecoverySteps == {"close", "socket", "ioctl", "bind", "drop", "forget"}

\* The inductive invariant behind OneSocket, NoForeignFile and
\* StreakBelowThreshold when calls do not overlap: whoever is in the driver is
\* alone, and the handle names a socket but between close and socket, or close
\* and the reset of the handle.
CanInv ==
  /\ TypeOK
  /\ \A t, u \in Threads : step[t] # "idle" /\ step[u] # "idle" => t = u
  /\ OneSocket
  /\ ~alive => sockfd = NoFd /\ \A t \in Threads : step[t] = "idle"
  /\ sockfd # NoFd =>
       \/ IsSocket(sockfd)
       \/ \E t \in Threads : step[t] \in NoSocketSteps
  /\ \A t \in Threads :
       /\ step[t] \in NoSocketSteps => \A f \in Fds : ~IsSocket(f)
       /\ step[t] \notin {"idle", "done"} => sockfd # NoFd
       /\ step[t] \in {"write", "close"} => fd[t] = sockfd
       /\ step[t] = "count" => tmp[t] = consec
  /\ \/ sockfd = NoFd
     \/ consec < Threshold
     \/ consec = Threshold
        /\ \E t \in Threads : step[t] \in RecoverySteps \cup {"test"}

\* The handle has a socket that is bound to the interface.
Usable == alive /\ sockfd # NoFd /\ file[sockfd] = "bound"
LinkStaysUp == <>[](alive /\ link = "up")

\* The handle has no socket, and no call makes it another.
GivenUp == alive /\ sockfd = NoFd

\* No recovery is tried while the interface is gone, or the process short of
\* descriptors.
Served ==
  \A t \in Threads :
    /\ step[t] # "drop"
    /\ step[t] = "socket" => \E f \in Fds : file[f] = "free"

\* An interface that fails, or is unplugged and plugged in again, and then
\* stays up is used again as long as somebody sends and every recovery was
\* served: the sends on the dead socket fail, their errors reach the threshold,
\* and the recovery binds a new one.  If one was not, then the handle is either
\* used again or is never used again: there is no third way to lose the bus.
LinkComesBack ==
  LinkStaysUp =>
    /\ []Served => []<>Usable
    /\ []<>Usable \/ <>[]GivenUp

\* The same whenever recovery was tried ("the CAN driver recovers by itself",
\* docs/BSP_...md:995).  The code does not: see the README.
RecoversAfterReplug == LinkStaysUp => []<>Usable

\* The driver keeps what its users count on, with overlapping calls too.
CallOf(t) ==
  IF step[t] \in {"idle", "done"} THEN step[t] ELSE op[t]
Port == INSTANCE CanPort WITH call <- [t \in Threads |-> CallOf(t)]
ImplementsPort == Port!Spec
=============================================================================
