------------------------------- MODULE PdlMcu -------------------------------
(***************************************************************************)
(* The MCU driver, pdl/src/pdl_mcu/: one context, used by several threads, *)
(* that talks CAN or serial, and the MCU at the other end.                 *)
(*                                                                         *)
(* A command holds the mutex of the context, and from its sending on that  *)
(* of its interface too.  The MCU takes the commands in turn and answers   *)
(* in its own time; on the bus there are frames of others, on the line an  *)
(* answer comes in pieces, and either may lose something.                  *)
(*                                                                         *)
(* PDL_MCU_Init passes &config->can or &config->serial to a function that  *)
(* takes it for the whole configuration and so reads behind its end: which *)
(* device is opened, if any, with which ids, and whether a CRC is wanted   *)
(* are any of the values that may be found there.                          *)
(*                                                                         *)
(* A command and its answer are the number of the command; what they say   *)
(* is left out, so that the six commands differ only in their names.       *)
(***************************************************************************)
EXTENDS Naturals, Sequences, Functions, OsalCodes

CONSTANTS McuThreads,      \* threads that use the context
          MaxMcuCommands,  \* bound: commands ever begun
          MaxForeign,      \* bound: frames of other nodes
          NoMcuThread

ASSUME McuAssumption ==
  MaxMcuCommands \in Nat /\ MaxForeign \in Nat /\ NoMcuThread \notin McuThreads

VARIABLES
  mcuLink,      \* the interface: "can", "serial", or "none" without a context
  mcuCrc,       \* enable_crc of the serial context
  mcuRightId,   \* rx_id of the CAN context is the id the MCU answers with
  mcuLock,      \* the holder of ctx->mutex
  mcuRxLock,    \* the holder of rx_mutex
  mcuPc,        \* where each thread is
  mcuCall,      \* its command: number, the answer it took, what it returns, and
                \*   whether no ended command had left anything when it was sent
  mcuLast,      \* the number of the last command
  mcuSent,      \* the commands on their way, and the tails of answers
  mcuReceived,  \* what has come and has not been read
  mcuForeign    \* bound counter of frames of others

mcuContext == <<mcuLink, mcuCrc, mcuRightId>>
mcuVars == <<mcuContext, mcuLock, mcuRxLock, mcuPc, mcuCall, mcuLast, mcuSent, mcuReceived,
             mcuForeign>>

NoMcuCall == [number |-> 0, answer |-> 0, ret |-> OSAL_SUCCESS, clean |-> FALSE]

McuInit ==
  /\ mcuLink = "none"
  /\ mcuCrc = FALSE
  /\ mcuRightId = FALSE
  /\ mcuLock = NoMcuThread
  /\ mcuRxLock = NoMcuThread
  /\ mcuPc = [t \in McuThreads |-> "idle"]
  /\ mcuCall = [t \in McuThreads |-> NoMcuCall]
  /\ mcuLast = 0
  /\ mcuSent = <<>>
  /\ mcuReceived = <<>>
  /\ mcuForeign = 0

McuWaits(t) == mcuPc[t] \in {"lock rx", "receive"}
McuIdle == \A t \in McuThreads : mcuPc[t] = "idle"

-----------------------------------------------------------------------------
(* PDL_MCU_Init and PDL_MCU_Deinit.  An Init that fails undoes what it has  *)
(* done, and is a stuttering step.                                         *)

McuCanInit ==
  /\ mcuLink' = "can"
  /\ mcuRightId' \in BOOLEAN
  /\ UNCHANGED mcuCrc

McuSerialInit ==
  /\ mcuLink' = "serial"
  /\ mcuCrc' \in BOOLEAN
  /\ UNCHANGED mcuRightId

McuOpen ==
  /\ mcuLink = "none"
  /\ McuCanInit \/ McuSerialInit
  /\ mcuReceived' = <<>>
  /\ UNCHANGED <<mcuLock, mcuRxLock, mcuPc, mcuCall, mcuLast, mcuSent, mcuForeign>>

\* What is still to come from the MCU is not followed any further.
McuClose ==
  /\ mcuLink # "none"
  /\ McuIdle
  /\ mcuLink' = "none"
  /\ mcuSent' = <<>>
  /\ UNCHANGED <<mcuCrc, mcuRightId, mcuLock, mcuRxLock, mcuPc, mcuCall, mcuLast, mcuReceived,
                 mcuForeign>>

-----------------------------------------------------------------------------
(* mcu_send_command_internal, mcu_can_send_command, mcu_serial_send_command. *)

McuBegin(t) ==
  /\ mcuLink # "none"
  /\ mcuPc[t] = "idle"
  /\ mcuLast < MaxMcuCommands
  /\ mcuLast' = mcuLast + 1
  /\ mcuPc' = [mcuPc EXCEPT ![t] = "lock"]
  /\ mcuCall' = [mcuCall EXCEPT ![t] = [NoMcuCall EXCEPT !.number = mcuLast + 1]]
  /\ UNCHANGED <<mcuContext, mcuLock, mcuRxLock, mcuSent, mcuReceived, mcuForeign>>

GetVersion(t) == McuBegin(t)
GetStatus(t) == McuBegin(t)
Reset(t) == McuBegin(t)
ReadRegister(t) == McuBegin(t)
WriteRegister(t) == McuBegin(t)
SendCommand(t) == McuBegin(t)

\* Mutant: the mutex is not there.
MutMcuTake(t) ==
  /\ mcuPc[t] = "lock"
  /\ mcuLock' = t
  /\ mcuPc' = [mcuPc EXCEPT ![t] = "send"]
  /\ UNCHANGED <<mcuContext, mcuRxLock, mcuCall, mcuLast, mcuSent, mcuReceived, mcuForeign>>

McuTake(t) ==
  /\ mcuPc[t] = "lock"
  /\ mcuLock = NoMcuThread
  /\ mcuLock' = t
  /\ mcuPc' = [mcuPc EXCEPT ![t] = "send"]
  /\ UNCHANGED <<mcuContext, mcuRxLock, mcuCall, mcuLast, mcuSent, mcuReceived, mcuForeign>>

\* Nothing on the bus or the line is of a command that has ended.
McuClean ==
  \A x \in Range(mcuSent) \cup Range(mcuReceived) :
    x.number = 0 \/ \E u \in McuThreads : McuWaits(u) /\ mcuCall[u].number = x.number

McuSend(t) ==
  /\ mcuPc[t] = "send"
  /\ mcuSent' = Append(mcuSent, [number |-> mcuCall[t].number, part |-> "whole"])
  /\ mcuPc' = [mcuPc EXCEPT ![t] = "lock rx"]
  /\ mcuCall' = [mcuCall EXCEPT ![t].clean = McuClean]
  /\ UNCHANGED <<mcuContext, mcuLock, mcuRxLock, mcuLast, mcuReceived, mcuForeign>>

\* A failed call of the CAN driver may open another socket, where nothing has
\* come yet.
McuReopened ==
  \/ UNCHANGED mcuReceived
  \/ mcuLink = "can" /\ mcuReceived' = <<>>

\* The driver cannot send, or has sent a part only.
McuSendFails(t) ==
  /\ mcuPc[t] = "send"
  /\ mcuPc' = [mcuPc EXCEPT ![t] = "unlock"]
  /\ mcuCall' = [mcuCall EXCEPT ![t].ret = OSAL_ERR_GENERIC]
  /\ McuReopened
  /\ UNCHANGED <<mcuContext, mcuLock, mcuRxLock, mcuLast, mcuSent, mcuForeign>>

McuTakeRx(t) ==
  /\ mcuPc[t] = "lock rx"
  /\ mcuRxLock = NoMcuThread
  /\ mcuRxLock' = t
  /\ mcuPc' = [mcuPc EXCEPT ![t] = "receive"]
  /\ UNCHANGED <<mcuContext, mcuLock, mcuCall, mcuLast, mcuSent, mcuReceived, mcuForeign>>

\* The wait is over: rx_mutex is released, with the answer n and r to return.
McuResult(t, n, r) ==
  /\ mcuRxLock' = NoMcuThread
  /\ mcuPc' = [mcuPc EXCEPT ![t] = "unlock"]
  /\ mcuCall' = [mcuCall EXCEPT ![t].answer = n, ![t].ret = r]
  /\ UNCHANGED <<mcuContext, mcuLock, mcuLast, mcuForeign>>

\* One frame is taken.  With another id than rx_id it is dropped, and the call
\* ends though its own answer is still to come.
McuCanRefuses(r) == r.number = 0 \/ ~mcuRightId

McuReceiveCan(t) ==
  /\ mcuPc[t] = "receive" /\ mcuLink = "can"
  /\ mcuReceived # <<>>
  /\ LET r == Head(mcuReceived) IN
     IF McuCanRefuses(r)
     THEN McuResult(t, 0, OSAL_ERR_GENERIC)
     ELSE \E ret \in {OSAL_SUCCESS, OSAL_ERR_GENERIC} : McuResult(t, r.number, ret)
  /\ mcuReceived' = Tail(mcuReceived)
  /\ UNCHANGED mcuSent

\* The sender's CRC is over the frame without its header and the CRC, 4 bytes,
\* the receiver's over 6 bytes less than the frame: none passes but by chance.
PackCrcBytes(n) == n - 4
UnpackCrcBytes(n) == n - 6

\* An answer of n bytes whose first part is taken is unpacked: it begins with
\* the header and has at least 6 bytes.  Its length field is taken at its word.
Unpacks(r, n) ==
  /\ r.part \in {"whole", "head"}
  /\ mcuCrc => r.part = "whole" /\ PackCrcBytes(n) = UnpackCrcBytes(n)

\* HAL_Serial_Read answers as soon as there is anything, and with all there is.
McuReceiveSerial(t) ==
  /\ mcuPc[t] = "receive" /\ mcuLink = "serial"
  /\ mcuReceived # <<>>
  /\ LET r == Head(mcuReceived) IN
     \E ret \in {IF Unpacks(r, 8) THEN OSAL_SUCCESS ELSE OSAL_ERR_GENERIC, OSAL_ERR_GENERIC} :
       McuResult(t, r.number, ret)
  /\ mcuReceived' = <<>>
  /\ UNCHANGED mcuSent

\* Nothing has come in time.  HAL_Serial_Read says 4, which is taken for 4 bytes
\* and is too short for a frame; the CAN driver says OSAL_ERR_TIMEOUT.
McuTimeout(t) ==
  /\ mcuPc[t] = "receive"
  /\ mcuReceived = <<>>
  /\ McuResult(t, 0, IF mcuLink = "can" THEN OSAL_ERR_TIMEOUT ELSE OSAL_ERR_GENERIC)
  /\ UNCHANGED <<mcuSent, mcuReceived>>

\* poll, select or read fails, which HAL_Serial_Read says with a 1 that is taken
\* for a byte; or it has nothing after all, and on a line that has hung up 0.
McuReceiveFails(t) ==
  /\ mcuPc[t] = "receive"
  /\ \E ret \in {OSAL_ERR_GENERIC, OSAL_ERR_TIMEOUT} : McuResult(t, 0, ret)
  /\ McuReopened
  /\ UNCHANGED mcuSent

McuUnlock(t) ==
  /\ mcuPc[t] = "unlock"
  /\ mcuLock' = NoMcuThread
  /\ mcuPc' = [mcuPc EXCEPT ![t] = "returned"]
  /\ UNCHANGED <<mcuContext, mcuRxLock, mcuCall, mcuLast, mcuSent, mcuReceived, mcuForeign>>

McuSeen(t) ==
  /\ mcuPc[t] = "returned"
  /\ mcuPc' = [mcuPc EXCEPT ![t] = "idle"]
  /\ mcuCall' = [mcuCall EXCEPT ![t] = NoMcuCall]
  /\ UNCHANGED <<mcuContext, mcuLock, mcuRxLock, mcuLast, mcuSent, mcuReceived, mcuForeign>>

-----------------------------------------------------------------------------
(* The MCU, the bus and the line.                                          *)

Came(items) ==
  /\ mcuReceived' = mcuReceived \o items
  /\ UNCHANGED <<mcuContext, mcuLock, mcuRxLock, mcuPc, mcuCall, mcuLast>>

McuAnswers ==
  /\ mcuSent # <<>>
  /\ mcuSent' = Tail(mcuSent)
  /\ Came(<<Head(mcuSent)>>)
  /\ UNCHANGED mcuForeign

\* The first 6 or more bytes, or fewer; the tail is still to come.
McuAnswersInPart ==
  /\ mcuSent # <<>> /\ mcuLink = "serial"
  /\ Head(mcuSent).part = "whole"
  /\ mcuSent' = [mcuSent EXCEPT ![1].part = "tail"]
  /\ \E p \in {"head", "short"} : Came(<<[Head(mcuSent) EXCEPT !.part = p]>>)
  /\ UNCHANGED mcuForeign

McuLose ==
  /\ mcuSent # <<>>
  /\ mcuSent' = Tail(mcuSent)
  /\ Came(<<>>)
  /\ UNCHANGED mcuForeign

McuForeignFrame ==
  /\ mcuLink = "can" /\ mcuForeign < MaxForeign
  /\ mcuForeign' = mcuForeign + 1
  /\ Came(<<[number |-> 0, part |-> "whole"]>>)
  /\ UNCHANGED mcuSent

-----------------------------------------------------------------------------
McuProgress(t) ==
  \/ McuSend(t) \/ McuSendFails(t) \/ McuTakeRx(t) \/ McuReceiveCan(t) \/ McuReceiveSerial(t)
  \/ McuTimeout(t) \/ McuReceiveFails(t) \/ McuUnlock(t) \/ McuSeen(t)

McuNext ==
  \/ McuOpen \/ McuClose
  \/ \E t \in McuThreads :
       \/ GetVersion(t) \/ GetStatus(t) \/ Reset(t)
       \/ ReadRegister(t) \/ WriteRegister(t) \/ SendCommand(t)
       \/ McuTake(t)
       \/ McuProgress(t)
  \/ McuAnswers \/ McuAnswersInPart \/ McuLose \/ McuForeignFrame

McuSpec == McuInit /\ [][McuNext]_mcuVars

-----------------------------------------------------------------------------
(* Properties.                                                             *)

\* pdl_mcu.c:122-154: a command takes the answer of another only if one that had
\* ended had left it, or a part of it, on the bus or the line before.  Threads that
\* share it do not mix answers up; nor do frames of other nodes, earlier time-outs
\* and pieces of answers once what they left is gone.
McuOwnAnswer ==
  \A t \in McuThreads : mcuCall[t].clean => mcuCall[t].answer \in {0, mcuCall[t].number}
=============================================================================
