------------------------------- MODULE HalBus -------------------------------
(***************************************************************************)
(* The I2C and the SPI driver of HAL, hal/src/linux/hal_i2c.c and          *)
(* hal_spi.c: one device each, that several threads use.                   *)
(*                                                                         *)
(* An I2C device remembers the slave that I2C_SLAVE has set, for the read  *)
(* or write that follows; a combined transfer names its slaves itself, and *)
(* takes no lock.  An SPI device remembers the mode, bits and speed that   *)
(* are set one by one; the context keeps what it believes them to be, and  *)
(* SetConfig takes no lock.  A step is one system call, one taking of a    *)
(* lock, or one assignment to the context; any system call may fail.  What *)
(* is transferred is left out.  A device is closed when nobody uses it.    *)
(***************************************************************************)
EXTENDS Naturals

CONSTANTS BusThreads,  \* threads that call
          SpiSetters,  \* those that call HAL_SPI_SetConfig
          Slaves,      \* I2C addresses
          SpiConfigs,  \* [mode, bits, speed] records
          NoBus        \* no thread, no slave, no configuration

SpiRecords == [mode : Nat, bits : Nat, speed : Nat]

ASSUME BusAssumption ==
  /\ SpiSetters \subseteq BusThreads
  /\ SpiConfigs \subseteq SpiRecords
  /\ NoBus \notin BusThreads \cup Slaves \cup SpiRecords

VARIABLES
  i2cUp,     \* there is an I2C context
  i2cSlave,  \* the slave the device file has been told
  i2cLock,   \* the holder of the lock of the context
  i2cPc,     \* where each thread is
  i2cCall,   \* slave_addr of its call, and the slave that it has reached
  spiCtx,    \* mode, bits_per_word and max_speed_hz of the context
  spiDev,    \* those of the device, which keeps them while it is closed
  spiLock,   \* the holder of the lock of the context
  spiPc,     \* where each thread is
  spiCall    \* the configuration a thread is setting

i2cVars == <<i2cUp, i2cSlave, i2cLock, i2cPc, i2cCall>>
spiVars == <<spiCtx, spiDev, spiLock, spiPc, spiCall>>
busVars == <<i2cVars, spiVars>>

NoI2cCall == [slave |-> NoBus, reached |-> NoBus]

BusInit ==
  /\ i2cUp = FALSE
  /\ i2cSlave = NoBus
  /\ i2cLock = NoBus
  /\ i2cPc = [t \in BusThreads |-> "idle"]
  /\ i2cCall = [t \in BusThreads |-> NoI2cCall]
  /\ spiCtx = NoBus
  /\ spiDev \in SpiConfigs
  /\ spiLock = NoBus
  /\ spiPc = [t \in BusThreads |-> "idle"]
  /\ spiCall = [t \in BusThreads |-> NoBus]

-----------------------------------------------------------------------------
(* I2C.                                                                    *)

I2cOpen ==
  /\ ~i2cUp
  /\ i2cUp' = TRUE
  /\ i2cSlave' = NoBus
  /\ UNCHANGED <<i2cLock, i2cPc, i2cCall, spiVars>>

I2cClose ==
  /\ i2cUp
  /\ \A t \in BusThreads : i2cPc[t] = "idle"
  /\ i2cUp' = FALSE
  /\ UNCHANGED <<i2cSlave, i2cLock, i2cPc, i2cCall, spiVars>>

\* HAL_I2C_Write, HAL_I2C_Read, and HAL_I2C_WriteReg, a Write of one byte more.
I2cBegin(t, a) ==
  /\ i2cUp
  /\ i2cPc[t] = "idle"
  /\ i2cPc' = [i2cPc EXCEPT ![t] = "lock"]
  /\ i2cCall' = [i2cCall EXCEPT ![t] = [slave |-> a, reached |-> NoBus]]
  /\ UNCHANGED <<i2cUp, i2cSlave, i2cLock, spiVars>>

\* Mutant: each thread has a lock of its own.
MutI2cTake(t) ==
  /\ i2cPc[t] = "lock"
  /\ i2cLock' = t
  /\ i2cPc' = [i2cPc EXCEPT ![t] = "address"]
  /\ UNCHANGED <<i2cUp, i2cSlave, i2cCall, spiVars>>

I2cTake(t) ==
  /\ i2cPc[t] = "lock"
  /\ i2cLock = NoBus
  /\ i2cLock' = t
  /\ i2cPc' = [i2cPc EXCEPT ![t] = "address"]
  /\ UNCHANGED <<i2cUp, i2cSlave, i2cCall, spiVars>>

I2cAddress(t) ==
  /\ i2cPc[t] = "address"
  /\ i2cSlave' = i2cCall[t].slave
  /\ i2cPc' = [i2cPc EXCEPT ![t] = "io"]
  /\ UNCHANGED <<i2cUp, i2cLock, i2cCall, spiVars>>

\* The call unlocks and returns, having reached the slave a or none.
I2cReturn(t, a) ==
  /\ i2cLock' = NoBus
  /\ i2cPc' = [i2cPc EXCEPT ![t] = "returned"]
  /\ i2cCall' = [i2cCall EXCEPT ![t].reached = a]
  /\ UNCHANGED <<i2cUp, i2cSlave, spiVars>>

I2cAddressFails(t) == i2cPc[t] = "address" /\ I2cReturn(t, NoBus)

\* All bytes, some or none.
I2cIo(t) == i2cPc[t] = "io" /\ \E a \in {i2cSlave, NoBus} : I2cReturn(t, a)

\* HAL_I2C_ReadReg, HAL_I2C_Transfer: I2C_RDWR.
I2cCombined(t, a) ==
  /\ i2cUp
  /\ i2cPc[t] = "idle"
  /\ i2cPc' = [i2cPc EXCEPT ![t] = "returned"]
  /\ \E r \in {a, NoBus} : i2cCall' = [i2cCall EXCEPT ![t] = [slave |-> a, reached |-> r]]
  /\ UNCHANGED <<i2cUp, i2cSlave, i2cLock, spiVars>>

I2cSeen(t) ==
  /\ i2cPc[t] = "returned"
  /\ i2cPc' = [i2cPc EXCEPT ![t] = "idle"]
  /\ i2cCall' = [i2cCall EXCEPT ![t] = NoI2cCall]
  /\ UNCHANGED <<i2cUp, i2cSlave, i2cLock, spiVars>>

-----------------------------------------------------------------------------
(* SPI.                                                                    *)

\* HAL_SPI_Open: one of the three settings fails, and the device is closed.
SpiOpen(c) ==
  /\ spiCtx = NoBus
  /\ spiCtx' = c
  /\ spiDev' = c
  /\ UNCHANGED <<spiLock, spiPc, spiCall, i2cVars>>

SpiOpenFails(c) ==
  /\ spiCtx = NoBus
  /\ \E done \in {{}, {"mode"}, {"mode", "bits"}} :
       spiDev' = [f \in DOMAIN c |-> IF f \in done THEN c[f] ELSE spiDev[f]]
  /\ UNCHANGED <<spiCtx, spiLock, spiPc, spiCall, i2cVars>>

SpiClose ==
  /\ spiCtx # NoBus
  /\ \A t \in BusThreads : spiPc[t] = "idle"
  /\ spiCtx' = NoBus
  /\ UNCHANGED <<spiDev, spiLock, spiPc, spiCall, i2cVars>>

\* HAL_SPI_Write, HAL_SPI_Read, HAL_SPI_Transfer: the lock is held for the
\* system call.  HAL_SPI_TransferMulti makes the same call without the lock.
SpiTake(t) ==
  /\ spiCtx # NoBus
  /\ spiPc[t] = "idle"
  /\ spiLock = NoBus
  /\ spiLock' = t
  /\ spiPc' = [spiPc EXCEPT ![t] = "transfer"]
  /\ UNCHANGED <<spiCtx, spiDev, spiCall, i2cVars>>

SpiTransfer(t) ==
  /\ spiPc[t] = "transfer"
  /\ spiLock' = NoBus
  /\ spiPc' = [spiPc EXCEPT ![t] = "idle"]
  /\ UNCHANGED <<spiCtx, spiDev, spiCall, i2cVars>>

\* HAL_SPI_SetConfig goes through mode, bits and speed, and sets what differs.
AfterSetting == [mode |-> "bits", bits |-> "speed", speed |-> "idle"]
Assigning == [mode |-> "assign mode", bits |-> "assign bits", speed |-> "assign speed"]

SpiSetConfig(t, c) ==
  /\ t \in SpiSetters
  /\ spiCtx # NoBus
  /\ spiPc[t] = "idle"
  /\ spiPc' = [spiPc EXCEPT ![t] = "mode"]
  /\ spiCall' = [spiCall EXCEPT ![t] = c]
  /\ UNCHANGED <<spiCtx, spiDev, spiLock, i2cVars>>

SpiSame(t, f) ==
  /\ spiPc[t] = f
  /\ spiCall[t][f] = spiCtx[f]
  /\ spiPc' = [spiPc EXCEPT ![t] = AfterSetting[f]]
  /\ UNCHANGED <<spiCtx, spiDev, spiLock, spiCall, i2cVars>>

SpiIoctl(t, f) ==
  /\ spiPc[t] = f
  /\ spiCall[t][f] # spiCtx[f]
  /\ spiDev' = [spiDev EXCEPT ![f] = spiCall[t][f]]
  /\ spiPc' = [spiPc EXCEPT ![t] = Assigning[f]]
  /\ UNCHANGED <<spiCtx, spiLock, spiCall, i2cVars>>

\* Mutant: the context has taken the new value by then.
MutSpiIoctlFails(t, f) ==
  /\ spiPc[t] = f
  /\ spiCall[t][f] # spiCtx[f]
  /\ spiCtx' = [spiCtx EXCEPT ![f] = spiCall[t][f]]
  /\ spiPc' = [spiPc EXCEPT ![t] = "idle"]
  /\ UNCHANGED <<spiDev, spiLock, spiCall, i2cVars>>

SpiIoctlFails(t, f) ==
  /\ spiPc[t] = f
  /\ spiCall[t][f] # spiCtx[f]
  /\ spiPc' = [spiPc EXCEPT ![t] = "idle"]
  /\ UNCHANGED <<spiCtx, spiDev, spiLock, spiCall, i2cVars>>

SpiAssign(t, f) ==
  /\ spiPc[t] = Assigning[f]
  /\ spiCtx' = [spiCtx EXCEPT ![f] = spiCall[t][f]]
  /\ spiPc' = [spiPc EXCEPT ![t] = AfterSetting[f]]
  /\ UNCHANGED <<spiDev, spiLock, spiCall, i2cVars>>

-----------------------------------------------------------------------------
BusNext ==
  \/ I2cOpen \/ I2cClose \/ SpiClose
  \/ \E c \in SpiConfigs : SpiOpen(c) \/ SpiOpenFails(c)
  \/ \E t \in BusThreads :
       \/ \E a \in Slaves : I2cBegin(t, a) \/ I2cCombined(t, a)
       \/ I2cTake(t) \/ I2cAddress(t) \/ I2cAddressFails(t) \/ I2cIo(t) \/ I2cSeen(t)
       \/ SpiTake(t) \/ SpiTransfer(t)
       \/ \E c \in SpiConfigs : SpiSetConfig(t, c)
       \/ \E f \in {"mode", "bits", "speed"} :
            SpiSame(t, f) \/ SpiIoctl(t, f) \/ SpiIoctlFails(t, f) \/ SpiAssign(t, f)

BusSpec == BusInit /\ [][BusNext]_busVars

-----------------------------------------------------------------------------
(* Properties.                                                             *)

\* hal_i2c.c:116-205: a read or write reaches the slave of its own call, though
\* the device remembers only the last one it was told by any thread.
I2cReachesOwnSlave ==
  \A t \in BusThreads :
    i2cCall[t].reached # NoBus => i2cCall[t].reached = i2cCall[t].slave

\* hal_spi.c:323-377: while nobody is in SetConfig the device is set to what the
\* context believes, also when a setting has failed half-way, so that the next
\* SetConfig leaves out nothing it has to set.  It needs a single setter.
SpiInStep ==
  spiCtx # NoBus /\ (\A t \in SpiSetters : spiPc[t] \in {"idle", "transfer"})
    => spiCtx = spiDev
=============================================================================
