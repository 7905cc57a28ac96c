------------------------------- MODULE PdlBmc -------------------------------
(***************************************************************************)
(* The BMC driver, pdl/src/pdl_bmc/: one context with a network and a      *)
(* serial channel, used by several threads, and the BMC at the other end.  *)
(*                                                                         *)
(* A command holds the mutex of the context while it sends and receives.   *)
(* The BMC takes the commands of a channel in turn, executes each and      *)
(* answers, in its own time; a command or an answer may be lost on the     *)
(* serial line, an answer may come after the time-out of its command, and  *)
(* in two pieces.  A command, its answer and a piece of it carry the       *)
(* number of the command; Noise is what the buffer of the response held    *)
(* before.  What a command does to the payload and what an answer says are *)
(* left out: all the power commands and GetPowerState differ in nothing    *)
(* else, but ReadSensors is a stub.                                        *)
(*                                                                         *)
(* OSAL_MutexLock and _Unlock are taken as OsalMutex shows them.  One      *)
(* thread opens and closes; the name of the mutex is free.  A call that    *)
(* is refused at once, as ExecuteCommand always is, is a stuttering step.  *)
(***************************************************************************)
EXTENDS Naturals, Sequences, Functions, OsalCodes

CONSTANTS BmcThreads,   \* threads that use the context
          MaxCommands,  \* bound: commands ever begun
          MaxSwitches,  \* bound: switch_count
          NoOne, Noise

ASSUME BmcAssumption ==
  MaxCommands \in Nat /\ MaxSwitches \in Nat /\ NoOne \notin BmcThreads

Channels == {"network", "serial"}

VARIABLES
  bmcUp,         \* there is a context
  bmcHandle,     \* net_handle and serial_handle: TRUE if not NULL
  bmcChannel,    \* current_channel
  bmcConnected,  \* connected
  bmcStats,      \* cmd_count, success_count, fail_count, switch_count
  bmcLock,       \* the holder of the mutex
  bmcPc,         \* where each thread is
  bmcCall,       \* its command: number, stub or not, the answer taken, what it returns,
                 \*   and whether no ended command had left anything when it was sent
  bmcLast,       \* the number of the last command
  bmcSent,       \* by channel, the commands on their way, and the rests of answers
  bmcReceived,   \* by channel, the answers and pieces that have come and not been read
  bmcEnded       \* the BMC has closed the network connection

bmcContext == <<bmcUp, bmcHandle, bmcChannel, bmcConnected>>
bmcWires == <<bmcSent, bmcReceived, bmcEnded>>
bmcVars == <<bmcContext, bmcStats, bmcLock, bmcPc, bmcCall, bmcLast, bmcWires>>

NoStats == [cmd |-> 0, success |-> 0, fail |-> 0, switch |-> 0]
NoCommand == [number |-> 0, stub |-> FALSE, answer |-> 0, ret |-> OSAL_SUCCESS, clean |-> FALSE]
Whole(n) == [number |-> n, whole |-> TRUE]
Piece(x) == [x EXCEPT !.whole = FALSE]
Silence == [c \in Channels |-> <<>>]

BmcInit ==
  /\ bmcUp = FALSE
  /\ bmcHandle = [c \in Channels |-> FALSE]
  /\ bmcChannel = "network"
  /\ bmcConnected = FALSE
  /\ bmcStats = NoStats
  /\ bmcLock = NoOne
  /\ bmcPc = [t \in BmcThreads |-> "idle"]
  /\ bmcCall = [t \in BmcThreads |-> NoCommand]
  /\ bmcLast = 0
  /\ bmcSent = Silence
  /\ bmcReceived = Silence
  /\ bmcEnded = FALSE

BmcIdle == \A t \in BmcThreads : bmcPc[t] = "idle"

-----------------------------------------------------------------------------
(* PDL_BMC_Init and PDL_BMC_Deinit.                                        *)

Opened(primary, opened) == primary \in opened

\* opened are the channels bmc_redfish_init and bmc_serial_init have opened; a
\* channel that cannot be opened costs no more than a warning.  The connection is
\* new, and the serial line is flushed.
BmcOpen(primary, opened) ==
  /\ ~bmcUp
  /\ bmcUp' = TRUE
  /\ bmcHandle' = [c \in Channels |-> c \in opened]
  /\ bmcChannel' = primary
  /\ bmcConnected' = Opened(primary, opened)
  /\ bmcStats' = NoStats
  /\ bmcReceived' = Silence
  /\ bmcEnded' = FALSE
  /\ UNCHANGED <<bmcLock, bmcPc, bmcCall, bmcLast, bmcSent>>

\* The connection is gone; a command on the serial line may still be answered.
BmcClose ==
  /\ bmcUp
  /\ BmcIdle
  /\ bmcUp' = FALSE
  /\ bmcHandle' = [c \in Channels |-> FALSE]
  /\ bmcConnected' = FALSE
  /\ bmcSent' = [bmcSent EXCEPT !["network"] = <<>>]
  /\ UNCHANGED <<bmcChannel, bmcStats, bmcLock, bmcPc, bmcCall, bmcLast, bmcReceived, bmcEnded>>

-----------------------------------------------------------------------------
(* PowerOn, PowerOff, PowerReset, GetPowerState and ReadSensors.           *)

BmcBegin(t, stub) ==
  /\ bmcUp
  /\ bmcPc[t] = "idle"
  /\ bmcLast < MaxCommands
  /\ bmcLast' = bmcLast + 1
  /\ bmcPc' = [bmcPc EXCEPT ![t] = "lock"]
  /\ bmcCall' = [bmcCall EXCEPT ![t] = [NoCommand EXCEPT !.stub = stub, !.number = bmcLast + 1]]
  /\ UNCHANGED <<bmcContext, bmcStats, bmcLock, bmcWires>>

PowerOn(t) == BmcBegin(t, FALSE)
PowerOff(t) == BmcBegin(t, FALSE)
PowerReset(t) == BmcBegin(t, FALSE)
GetPowerState(t) == BmcBegin(t, FALSE)
ReadSensors(t) == BmcBegin(t, TRUE)

\* Mutant: the mutex is not there.
MutBmcTake(t) ==
  /\ bmcPc[t] = "lock"
  /\ bmcLock' = t
  /\ bmcStats' = [bmcStats EXCEPT !.cmd = @ + 1]
  /\ bmcPc' = [bmcPc EXCEPT ![t] = "send"]
  /\ UNCHANGED <<bmcContext, bmcCall, bmcLast, bmcWires>>

BmcTake(t) ==
  /\ bmcPc[t] = "lock"
  /\ bmcLock = NoOne
  /\ bmcLock' = t
  /\ bmcStats' = [bmcStats EXCEPT !.cmd = @ + 1]
  /\ bmcPc' = [bmcPc EXCEPT ![t] = "send"]
  /\ UNCHANGED <<bmcContext, bmcCall, bmcLast, bmcWires>>

\* The call has its result: the answer n, and r to return.
BmcResult(t, n, r) ==
  /\ bmcPc' = [bmcPc EXCEPT ![t] = "count"]
  /\ bmcCall' = [bmcCall EXCEPT ![t].answer = n, ![t].ret = r]

\* The current channel is the connection the BMC has closed.
BmcAtEnd == bmcChannel = "network" /\ bmcEnded

\* Nothing on channel c is of a command that has ended.
BmcClean(c) ==
  \A x \in Range(bmcSent[c]) \cup Range(bmcReceived[c]) :
    \E u \in BmcThreads : bmcPc[u] = "receive" /\ bmcCall[u].number = x.number

\* The request goes out on the current channel; before its answer is waited for.
BmcSend(t) ==
  /\ bmcPc[t] = "send"
  /\ ~bmcCall[t].stub
  /\ bmcHandle[bmcChannel]
  /\ bmcSent' = [bmcSent EXCEPT ![bmcChannel] =
                   IF BmcAtEnd THEN @ ELSE Append(@, Whole(bmcCall[t].number))]
  /\ bmcPc' = [bmcPc EXCEPT ![t] = "receive"]
  /\ bmcCall' = [bmcCall EXCEPT ![t].clean = BmcClean(bmcChannel)]
  /\ UNCHANGED <<bmcContext, bmcStats, bmcLock, bmcLast, bmcReceived, bmcEnded>>

\* The handle is NULL, the request cannot be sent whole, or it is a stub.
BmcSendFails(t) ==
  /\ bmcPc[t] = "send"
  /\ BmcResult(t, 0, OSAL_ERR_GENERIC)
  /\ UNCHANGED <<bmcContext, bmcStats, bmcLock, bmcLast, bmcWires>>

\* What one read of at most 16 bytes may leave of r: it takes at least the first
\* bytes, and ends behind an item or within one.
Unread(r) ==
  {SubSeq(r, n + 1, Len(r)) : n \in 1..Len(r)} \cup
  {<<Piece(r[n])>> \o SubSeq(r, n + 1, Len(r)) : n \in {m \in 1..Len(r) : r[m].whole}}

\* There is one read, of what has come.  The caller looks at the first bytes;
\* that their status is not 0, or that they are not all, is not an error.
BmcReceive(t) ==
  /\ bmcPc[t] = "receive"
  /\ bmcReceived[bmcChannel] # <<>>
  /\ \E rest \in Unread(bmcReceived[bmcChannel]) :
       bmcReceived' = [bmcReceived EXCEPT ![bmcChannel] = rest]
  /\ BmcResult(t, Head(bmcReceived[bmcChannel]).number, OSAL_SUCCESS)
  /\ UNCHANGED <<bmcContext, bmcStats, bmcLock, bmcLast, bmcSent, bmcEnded>>

\* recv says 0, or the read of a line that has hung up or has a time-out of 0:
\* the call succeeds, with no answer.
BmcReceiveEnd(t) ==
  /\ bmcPc[t] = "receive"
  /\ BmcAtEnd \/ bmcChannel = "serial"
  /\ bmcReceived[bmcChannel] = <<>>
  /\ BmcResult(t, 0, OSAL_SUCCESS)
  /\ UNCHANGED <<bmcContext, bmcStats, bmcLock, bmcLast, bmcWires>>

\* The receiving failed with e.  recv says -1.  HAL_Serial_Read says e, and as that
\* is not negative it is taken for a response of e bytes, which are Noise.
BmcNothing(t, e) ==
  /\ bmcPc[t] = "receive"
  /\ IF bmcChannel = "serial" /\ e >= 0
     THEN BmcResult(t, Noise, OSAL_SUCCESS)
     ELSE BmcResult(t, 0, OSAL_ERR_GENERIC)
  /\ UNCHANGED <<bmcContext, bmcStats, bmcLock, bmcLast, bmcWires>>

\* Nothing has come in time.
BmcTimeout(t) ==
  /\ ~BmcAtEnd
  /\ bmcReceived[bmcChannel] = <<>>
  /\ BmcNothing(t, OSAL_ERR_TIMEOUT)

\* recv, select or read fails, as when a signal interrupts it.
BmcReceiveFails(t) == BmcNothing(t, OSAL_ERR_GENERIC)

\* Mutant: a failure is not counted.
MutOutcome(r) == IF r = OSAL_SUCCESS THEN "success" ELSE "switch"

\* The counter of an outcome.
Outcome(r) == IF r = OSAL_SUCCESS THEN "success" ELSE "fail"

\* The outcome is counted and the mutex released.
BmcCount(t) ==
  /\ bmcPc[t] = "count"
  /\ bmcStats' = [bmcStats EXCEPT ![Outcome(bmcCall[t].ret)] = @ + 1]
  /\ bmcLock' = NoOne
  /\ bmcPc' = [bmcPc EXCEPT ![t] = "returned"]
  /\ UNCHANGED <<bmcContext, bmcCall, bmcLast, bmcWires>>

BmcSeen(t) ==
  /\ bmcPc[t] = "returned"
  /\ bmcPc' = [bmcPc EXCEPT ![t] = "idle"]
  /\ bmcCall' = [bmcCall EXCEPT ![t] = NoCommand]
  /\ UNCHANGED <<bmcContext, bmcStats, bmcLock, bmcLast, bmcWires>>

-----------------------------------------------------------------------------
(* PDL_BMC_SwitchChannel and the queries.                                  *)

\* The mutex is taken, the channel is not there, and the mutex is released.
BmcSwitchRefused(t, c) ==
  /\ bmcUp /\ bmcPc[t] = "idle" /\ bmcLock = NoOne
  /\ ~bmcHandle[c]
  /\ UNCHANGED bmcVars

BmcSwitch(t, c) ==
  /\ bmcUp /\ bmcPc[t] = "idle" /\ bmcLock = NoOne
  /\ bmcHandle[c]
  /\ bmcStats.switch < MaxSwitches
  /\ bmcChannel' = c
  /\ bmcConnected' = TRUE
  /\ bmcStats' = [bmcStats EXCEPT !.switch = @ + 1]
  /\ UNCHANGED <<bmcUp, bmcHandle, bmcLock, bmcPc, bmcCall, bmcLast, bmcWires>>

\* What GetChannel, IsConnected and GetStats answer a thread that has the mutex.
BmcGetChannel == bmcChannel
BmcIsConnected == bmcConnected
BmcGetStats == bmcStats

-----------------------------------------------------------------------------
(* The BMC and the wires.                                                  *)

\* An answer, or the rest of it, comes.
BmcAnswer(c) ==
  /\ bmcSent[c] # <<>>
  /\ bmcReceived' = [bmcReceived EXCEPT ![c] = Append(@, Head(bmcSent[c]))]
  /\ bmcSent' = [bmcSent EXCEPT ![c] = Tail(@)]
  /\ UNCHANGED <<bmcContext, bmcStats, bmcLock, bmcPc, bmcCall, bmcLast, bmcEnded>>

\* The first bytes of an answer come; the rest is still to come.
BmcAnswerInPart(c) ==
  /\ bmcSent[c] # <<>>
  /\ Head(bmcSent[c]).whole
  /\ bmcReceived' = [bmcReceived EXCEPT ![c] = Append(@, Piece(Head(bmcSent[c])))]
  /\ bmcSent' = [bmcSent EXCEPT ![c] = <<Piece(Head(@))>> \o Tail(@)]
  /\ UNCHANGED <<bmcContext, bmcStats, bmcLock, bmcPc, bmcCall, bmcLast, bmcEnded>>

BmcHangUp ==
  /\ bmcHandle["network"]
  /\ ~bmcEnded
  /\ bmcEnded' = TRUE
  /\ bmcSent' = [bmcSent EXCEPT !["network"] = <<>>]
  /\ UNCHANGED <<bmcContext, bmcStats, bmcLock, bmcPc, bmcCall, bmcLast, bmcReceived>>

\* The serial line loses a command or an answer, or the rest of one.
BmcLose ==
  /\ bmcSent["serial"] # <<>>
  /\ bmcSent' = [bmcSent EXCEPT !["serial"] = Tail(@)]
  /\ UNCHANGED <<bmcContext, bmcStats, bmcLock, bmcPc, bmcCall, bmcLast, bmcReceived, bmcEnded>>

-----------------------------------------------------------------------------
BmcProgress(t) ==
  BmcSend(t) \/ BmcSendFails(t) \/ BmcReceive(t) \/ BmcReceiveEnd(t)
  \/ BmcTimeout(t) \/ BmcReceiveFails(t) \/ BmcCount(t) \/ BmcSeen(t)

BmcNext ==
  \/ \E p \in Channels, o \in SUBSET Channels : BmcOpen(p, o)
  \/ BmcClose
  \/ \E t \in BmcThreads :
       \/ PowerOn(t) \/ PowerOff(t) \/ PowerReset(t) \/ GetPowerState(t) \/ ReadSensors(t)
       \/ BmcTake(t)
       \/ BmcProgress(t)
       \/ \E c \in Channels : BmcSwitch(t, c) \/ BmcSwitchRefused(t, c)
  \/ \E c \in Channels : BmcAnswer(c) \/ BmcAnswerInPart(c)
  \/ BmcLose \/ BmcHangUp

BmcSpec == BmcInit /\ [][BmcNext]_bmcVars

-----------------------------------------------------------------------------
(* Properties.                                                             *)

\* pdl_bmc.c:166-191, pdl_bmc_redfish.c:109-146, 206-242: a command takes the
\* answer of another only if one that had ended had left it, or a part of it, on
\* the channel before.  Threads that share the channels, switch between them and
\* hang up meanwhile do not mix answers up; nor do earlier time-outs, failed reads
\* and partial answers once what they left is gone.
BmcOwnAnswer ==
  \A t \in BmcThreads :
    bmcCall[t].clean => bmcCall[t].answer \in {0, Noise, bmcCall[t].number}

\* pdl_bmc.c:168-184, 472-502: whoever gets the mutex reads counters in which
\* every command that has begun has succeeded or failed.
BmcCounts ==
  bmcLock = NoOne => BmcGetStats.cmd = BmcGetStats.success + BmcGetStats.fail
=============================================================================
