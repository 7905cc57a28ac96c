----------------------------- MODULE HalSerial -----------------------------
(***************************************************************************)
(* The serial driver of HAL, hal/src/linux/hal_serial.c: one port, opened  *)
(* and closed by one thread while no other is in a call, and used by all.  *)
(*                                                                         *)
(* A call holds the lock of the context from the beginning to the end, the *)
(* wait of select included.  A step is the taking of the lock, what select *)
(* answers, or the read, write, flush or setting that follows, with the    *)
(* unlocking; what has been received is counted in bytes.                  *)
(***************************************************************************)
EXTENDS Naturals, OsalCodes

CONSTANTS SerialThreads,  \* threads that call
          SerialConfigs,  \* [baud_rate, data_bits, stop_bits, parity] records
          MaxInput,       \* bound: bytes in the input queue of the port
          NoThread, NoConfig

ASSUME SerialAssumption ==
  MaxInput \in Nat /\ NoThread \notin SerialThreads /\ NoConfig \notin SerialConfigs

VARIABLES
  serialConfig,  \* ctx->config, or NoConfig if there is no context
  serialLine,    \* the settings of the terminal, which outlive the context
  serialLock,    \* the thread that holds ctx->lock
  serialInput,   \* bytes received and not read
  serialPc,      \* where each thread is
  serialCall     \* its call: op, whether timeout > 0, config, what it returns

serialVars == <<serialConfig, serialLine, serialLock, serialInput, serialPc, serialCall>>

-----------------------------------------------------------------------------
(* The settings.                                                           *)

\* The rates the switch knows; any other is 115200.
SerialRates == {9600, 19200, 38400, 57600, 115200, 230400, 460800, 500000, 576000, 921600,
                1000000, 1152000, 1500000, 2000000, 2500000, 3000000, 3500000, 4000000}

SerialSpeed(rate) == IF rate \in SerialRates THEN rate ELSE 115200

\* What a configuration makes of the terminal: 5 and 6 data bits are 8, any
\* other number of stop bits than 2 is 1, 1 is odd and 2 is even parity.
Termios(c) ==
  [speed |-> SerialSpeed(c.baud_rate),
   size |-> IF c.data_bits = 7 THEN 7 ELSE 8,
   stop |-> IF c.stop_bits = 2 THEN 2 ELSE 1,
   parity |-> IF c.parity \in {1, 2} THEN c.parity ELSE 0]

-----------------------------------------------------------------------------
NoCall == [op |-> "none", timed |-> FALSE, config |-> NoConfig, ret |-> OSAL_SUCCESS]

SerialInit ==
  /\ serialConfig = NoConfig
  /\ serialLine = NoConfig
  /\ serialLock = NoThread
  /\ serialInput = 0
  /\ serialPc = [t \in SerialThreads |-> "idle"]
  /\ serialCall = [t \in SerialThreads |-> NoCall]

SerialIdle == \A t \in SerialThreads : serialPc[t] = "idle"

\* The port is opened, set and flushed.
SerialOpen(c) ==
  /\ serialConfig = NoConfig
  /\ serialConfig' = c
  /\ serialLine' = Termios(c)
  /\ serialInput' = 0
  /\ UNCHANGED <<serialLock, serialPc, serialCall>>

\* The lock cannot be made: the port is closed, and has been set.
SerialOpenFails(c) ==
  /\ serialConfig = NoConfig
  /\ serialLine' = Termios(c)
  /\ serialInput' = 0
  /\ UNCHANGED <<serialConfig, serialLock, serialPc, serialCall>>

SerialClose ==
  /\ serialConfig # NoConfig
  /\ SerialIdle
  /\ serialConfig' = NoConfig
  /\ UNCHANGED <<serialLine, serialLock, serialInput, serialPc, serialCall>>

\* A byte comes in.
SerialArrive ==
  /\ serialInput < MaxInput
  /\ serialInput' = serialInput + 1
  /\ UNCHANGED <<serialConfig, serialLine, serialLock, serialPc, serialCall>>

-----------------------------------------------------------------------------
(* HAL_Serial_Write, HAL_Serial_Read, HAL_Serial_Flush, HAL_Serial_SetConfig. *)

SerialBegin(t, op, timed, c) ==
  /\ serialConfig # NoConfig
  /\ serialPc[t] = "idle"
  /\ serialPc' = [serialPc EXCEPT ![t] = "lock"]
  /\ serialCall' = [serialCall EXCEPT ![t] =
                      [op |-> op, timed |-> timed, config |-> c, ret |-> OSAL_SUCCESS]]
  /\ UNCHANGED <<serialConfig, serialLine, serialLock, serialInput>>

\* After the lock a call with a timeout waits in select.
AfterLock(t) == IF serialCall[t].timed THEN "select" ELSE "io"

\* Mutant: the lock is not waited for.
MutSerialLock(t) ==
  /\ serialPc[t] = "lock"
  /\ serialLock' = t
  /\ serialPc' = [serialPc EXCEPT ![t] = AfterLock(t)]
  /\ UNCHANGED <<serialConfig, serialLine, serialInput, serialCall>>

SerialLock(t) ==
  /\ serialPc[t] = "lock"
  /\ serialLock = NoThread
  /\ serialLock' = t
  /\ serialPc' = [serialPc EXCEPT ![t] = AfterLock(t)]
  /\ UNCHANGED <<serialConfig, serialLine, serialInput, serialCall>>

\* The call unlocks and returns r, a number of bytes or a code.
SerialReturn(t, r) ==
  /\ serialLock' = NoThread
  /\ serialPc' = [serialPc EXCEPT ![t] = "returned"]
  /\ serialCall' = [serialCall EXCEPT ![t].ret = r]

\* select has found the port ready: there is input, or room for output.
SerialSelected(t) ==
  /\ serialPc[t] = "select"
  /\ serialCall[t].op = "read" => serialInput > 0
  /\ serialPc' = [serialPc EXCEPT ![t] = "io"]
  /\ UNCHANGED <<serialConfig, serialLine, serialLock, serialInput, serialCall>>

\* Mutant: a time-out returns and keeps the lock.
MutSerialTimeout(t) ==
  /\ serialPc[t] = "select"
  /\ serialCall[t].op = "read" => serialInput = 0
  /\ serialPc' = [serialPc EXCEPT ![t] = "returned"]
  /\ serialCall' = [serialCall EXCEPT ![t].ret = OSAL_ERR_TIMEOUT]
  /\ UNCHANGED <<serialConfig, serialLine, serialLock, serialInput>>

SerialTimeout(t) ==
  /\ serialPc[t] = "select"
  /\ serialCall[t].op = "read" => serialInput = 0
  /\ SerialReturn(t, OSAL_ERR_TIMEOUT)
  /\ UNCHANGED <<serialConfig, serialLine, serialInput>>

\* select, read, write, tcflush, tcgetattr or tcsetattr has failed.
SerialFails(t) ==
  /\ serialPc[t] \in {"select", "io"}
  /\ SerialReturn(t, OSAL_ERR_GENERIC)
  /\ UNCHANGED <<serialConfig, serialLine, serialInput>>

\* With VMIN = VTIME = 0 read takes what there is, even nothing.
SerialRead(t) ==
  /\ serialPc[t] = "io" /\ serialCall[t].op = "read"
  /\ \E n \in 0..serialInput :
       /\ n = 0 => serialInput = 0
       /\ serialInput' = serialInput - n
       /\ SerialReturn(t, n)
  /\ UNCHANGED <<serialConfig, serialLine>>

\* write takes the bytes, of which there are 2 here.
SerialWrite(t) ==
  /\ serialPc[t] = "io" /\ serialCall[t].op = "write"
  /\ \E n \in 1..2 : SerialReturn(t, n)
  /\ UNCHANGED <<serialConfig, serialLine, serialInput>>

SerialFlush(t) ==
  /\ serialPc[t] = "io" /\ serialCall[t].op = "flush"
  /\ serialInput' = 0
  /\ SerialReturn(t, OSAL_SUCCESS)
  /\ UNCHANGED <<serialConfig, serialLine>>

SerialSetConfig(t) ==
  /\ serialPc[t] = "io" /\ serialCall[t].op = "config"
  /\ serialLine' = Termios(serialCall[t].config)
  /\ serialConfig' = serialCall[t].config
  /\ SerialReturn(t, OSAL_SUCCESS)
  /\ UNCHANGED serialInput

\* The caller looks at what has been returned.
SerialSeen(t) ==
  /\ serialPc[t] = "returned"
  /\ serialPc' = [serialPc EXCEPT ![t] = "idle"]
  /\ serialCall' = [serialCall EXCEPT ![t] = NoCall]
  /\ UNCHANGED <<serialConfig, serialLine, serialLock, serialInput>>

-----------------------------------------------------------------------------
SerialProgress(t) ==
  \/ SerialSelected(t) \/ SerialTimeout(t) \/ SerialFails(t) \/ SerialRead(t)
  \/ SerialWrite(t) \/ SerialFlush(t) \/ SerialSetConfig(t) \/ SerialSeen(t)

SerialNext ==
  \/ \E c \in SerialConfigs : SerialOpen(c) \/ SerialOpenFails(c)
  \/ SerialClose
  \/ SerialArrive
  \/ \E t \in SerialThreads :
       \/ \E op \in {"read", "write"}, timed \in BOOLEAN : SerialBegin(t, op, timed, NoConfig)
       \/ SerialBegin(t, "flush", FALSE, NoConfig)
       \/ \E c \in SerialConfigs : SerialBegin(t, "config", FALSE, c)
       \/ SerialLock(t)
       \/ SerialProgress(t)

SerialSpec == SerialInit /\ [][SerialNext]_serialVars

\* select ends at its timeout, and a call that has the port goes on.
SerialFairness == \A t \in SerialThreads : WF_serialVars(SerialProgress(t))

-----------------------------------------------------------------------------
(* Properties.                                                             *)

\* hal_serial.c:297-331: nobody takes or flushes the input a Read with a timeout
\* has been told of by select, so it never returns 0 bytes for a time-out.
SerialReady ==
  \A t \in SerialThreads :
    serialPc[t] = "io" /\ serialCall[t].op = "read" /\ serialCall[t].timed => serialInput > 0

\* hal_serial.c:220-455: the lock, which is held while select waits, is free again
\* in the end, whether the device answers or not and whatever fails.
SerialLockFreed ==
  \A t \in SerialThreads : serialLock = t ~> serialLock # t
=============================================================================
