-------------------------- MODULE HalDeviceProofs --------------------------
(***************************************************************************)
(* Proofs about HalSerial and HalBus: the serial port, the I2C and the SPI *)
(* device, for any threads, slaves and configurations.                     *)
(***************************************************************************)
EXTENDS HalSerial, HalBus, TLAPS

-----------------------------------------------------------------------------
(* The serial port.                                                        *)

\* The types the proofs need.
SerialType ==
  /\ serialConfig \in SerialConfigs \cup {NoConfig}
  /\ serialInput \in Nat
  /\ serialLock \in SerialThreads \cup {NoThread}
  /\ serialPc \in [SerialThreads -> {"idle", "lock", "select", "io", "returned"}]
  /\ DOMAIN serialCall = SerialThreads
  /\ \A t \in SerialThreads :
       DOMAIN serialCall[t] = {"op", "timed", "config", "ret"}

\* A call is in select or further on only while it has the lock, and the lock is
\* nobody's unless such a call has it.
SerialLocked ==
  \A t \in SerialThreads : serialPc[t] \in {"select", "io"} <=> serialLock = t

\* Nobody is in a call of a port that is not open, and what SetConfig is about to
\* make the configuration is one.
SerialOpened ==
  /\ serialConfig = NoConfig => SerialIdle
  /\ \A t \in SerialThreads :
       serialPc[t] # "idle" /\ serialCall[t].op = "config" => serialCall[t].config \in SerialConfigs

SerialInv == SerialType /\ SerialLocked /\ SerialOpened /\ SerialReady

LEMMA SerialInvInit == SerialInit => SerialInv
  BY SerialAssumption
  DEF SerialInit, SerialInv, SerialType, SerialLocked, SerialOpened, SerialReady, SerialIdle, NoCall

\* A call that has the port returns: it gives the lock up, and the input may
\* have become anything, since no other call has been told of it.
LEMMA SerialReturns ==
  ASSUME SerialInv, NEW t \in SerialThreads, serialPc[t] \in {"select", "io"},
         NEW r, SerialReturn(t, r), serialInput' \in Nat,
         serialConfig' = serialConfig \/ serialConfig' \in SerialConfigs
  PROVE  SerialInv'
  <1> USE SerialAssumption DEF SerialInv, SerialReturn
  <1>1. SerialType'
    BY DEF SerialType
  <1>2. SerialLocked'
    BY DEF SerialType, SerialLocked
  <1>3. SerialOpened'
    BY DEF SerialType, SerialOpened, SerialIdle
  <1>4. SerialReady'
    BY DEF SerialType, SerialLocked, SerialReady
  <1>5. QED BY <1>1, <1>2, <1>3, <1>4

LEMMA SerialInvStep == SerialInv /\ [SerialNext]_serialVars => SerialInv'
  <1> SUFFICES ASSUME SerialInv, [SerialNext]_serialVars PROVE SerialInv'
    OBVIOUS
  <1> USE SerialAssumption DEF SerialInv
  <1>1. ASSUME NEW c \in SerialConfigs, SerialOpen(c) \/ SerialOpenFails(c)
        PROVE  SerialInv'
    BY <1>1 DEF SerialOpen, SerialOpenFails, SerialType, SerialLocked, SerialOpened, SerialReady,
                SerialIdle
  <1>2. CASE SerialClose \/ SerialArrive
    BY <1>2 DEF SerialClose, SerialArrive, SerialType, SerialLocked, SerialOpened, SerialReady,
                SerialIdle
  <1>3. ASSUME NEW t \in SerialThreads, NEW o, NEW b, NEW c, o = "config" => c \in SerialConfigs,
               SerialBegin(t, o, b, c)
        PROVE  SerialInv'
    BY <1>3 DEF SerialBegin, SerialType, SerialLocked, SerialOpened, SerialReady, SerialIdle
  <1>4. ASSUME NEW t \in SerialThreads, SerialLock(t)
        PROVE  SerialInv'
    <2>1. SerialType' /\ SerialLocked' /\ SerialOpened'
      BY <1>4 DEF SerialLock, AfterLock, SerialType, SerialLocked, SerialOpened, SerialIdle
    <2>2. SerialReady'
      BY <1>4 DEF SerialLock, AfterLock, SerialType, SerialReady
    <2>3. QED BY <2>1, <2>2
  <1>5. ASSUME NEW t \in SerialThreads, SerialSelected(t) \/ SerialSeen(t)
        PROVE  SerialInv'
    BY <1>5 DEF SerialSelected, SerialSeen, SerialType, SerialLocked, SerialOpened, SerialReady,
                SerialIdle, NoCall
  <1>6. ASSUME NEW t \in SerialThreads, SerialTimeout(t) \/ SerialFails(t) \/ SerialWrite(t)
        PROVE  SerialInv'
    BY <1>6, SerialReturns DEF SerialTimeout, SerialFails, SerialWrite, SerialType
  <1>7. ASSUME NEW t \in SerialThreads, SerialRead(t)
        PROVE  SerialInv'
    <2>1. PICK n \in 0..serialInput : serialInput' = serialInput - n /\ SerialReturn(t, n)
      BY <1>7 DEF SerialRead
    <2>2. serialInput' \in Nat
      BY <2>1 DEF SerialType
    <2>3. QED BY <1>7, <2>1, <2>2, SerialReturns DEF SerialRead
  <1>8. ASSUME NEW t \in SerialThreads, SerialFlush(t) \/ SerialSetConfig(t)
        PROVE  SerialInv'
    BY <1>8, SerialReturns DEF SerialFlush, SerialSetConfig, SerialType, SerialOpened
  <1>9. CASE UNCHANGED serialVars
    BY <1>9 DEF serialVars, SerialType, SerialLocked, SerialOpened, SerialReady, SerialIdle
  <1>10. QED
    BY <1>1, <1>2, <1>3, <1>4, <1>5, <1>6, <1>7, <1>8, <1>9 DEF SerialNext, SerialProgress

\* What select told a Read with a timeout is still so when it reads: the lock is
\* held meanwhile, and nobody else takes or flushes the input.
THEOREM SerialReadyAlways == SerialSpec => []SerialReady
  <1>1. SerialInv => SerialReady
    BY DEF SerialInv
  <1>2. QED BY SerialInvInit, SerialInvStep, <1>1, PTL DEF SerialSpec

\* The lock is held by the one call that waits in select or uses the port, and
\* by nobody otherwise: whatever fails, no call returns with it.
THEOREM SerialLockedAlways == SerialSpec => []SerialLocked
  <1>1. SerialInv => SerialLocked
    BY DEF SerialInv
  <1>2. QED BY SerialInvInit, SerialInvStep, <1>1, PTL DEF SerialSpec

-----------------------------------------------------------------------------
(* The I2C device.                                                         *)

I2cType ==
  /\ i2cUp \in BOOLEAN
  /\ i2cLock \in BusThreads \cup {NoBus}
  /\ i2cPc \in [BusThreads -> {"idle", "lock", "address", "io", "returned"}]
  /\ i2cCall \in [BusThreads -> [slave : Slaves \cup {NoBus}, reached : Slaves \cup {NoBus}]]

\* The thread that sets the slave and uses it has the lock; nobody is in a call
\* of a device that is closed.
I2cLocked ==
  /\ \A t \in BusThreads : i2cPc[t] \in {"address", "io"} <=> i2cLock = t
  /\ ~i2cUp => \A t \in BusThreads : i2cPc[t] = "idle"

\* What the device has been told is the slave of the call that is about to use it.
I2cTold ==
  \A t \in BusThreads : i2cPc[t] = "io" => i2cSlave = i2cCall[t].slave

I2cInv == I2cType /\ I2cLocked /\ I2cTold /\ I2cReachesOwnSlave

LEMMA I2cInvInit == BusInit => I2cInv
  <1> SUFFICES ASSUME BusInit PROVE I2cInv
    OBVIOUS
  <1>1. NoBus \notin BusThreads
    BY BusAssumption
  <1>2. NoI2cCall.reached = NoBus /\ NoI2cCall \in [slave : {NoBus}, reached : {NoBus}]
    BY DEF NoI2cCall
  <1>3. I2cType /\ I2cReachesOwnSlave
    BY <1>2 DEF BusInit, I2cType, I2cReachesOwnSlave
  <1>4. I2cLocked /\ I2cTold
    BY <1>1 DEF BusInit, I2cLocked, I2cTold
  <1>5. QED BY <1>3, <1>4 DEF I2cInv

\* A call that gives up the lock has reached its own slave or none.
LEMMA I2cReturns ==
  ASSUME I2cInv, NEW t \in BusThreads, i2cPc[t] \in {"address", "io"},
         NEW a \in {i2cCall[t].slave, NoBus}, I2cReturn(t, a)
  PROVE  I2cInv'
  <1> USE BusAssumption DEF I2cInv, I2cReturn, I2cType
  <1>1. i2cCall' = [i2cCall EXCEPT ![t].reached = a] /\ a \in Slaves \cup {NoBus}
    OBVIOUS
  <1>2. I2cType' /\ I2cReachesOwnSlave'
    BY <1>1 DEF I2cReachesOwnSlave
  <1>3. I2cLocked' /\ I2cTold'
    BY <1>1 DEF I2cLocked, I2cTold
  <1>4. QED BY <1>2, <1>3

LEMMA I2cInvStep == I2cInv /\ [BusNext]_busVars => I2cInv'
  <1> SUFFICES ASSUME I2cInv, [BusNext]_busVars PROVE I2cInv'
    OBVIOUS
  <1> USE BusAssumption DEF I2cInv
  <1>1. CASE UNCHANGED i2cVars
    BY <1>1 DEF i2cVars, I2cType, I2cLocked, I2cTold, I2cReachesOwnSlave
  <1>2. CASE I2cOpen \/ I2cClose
    BY <1>2 DEF I2cOpen, I2cClose, I2cType, I2cLocked, I2cTold, I2cReachesOwnSlave
  <1>3. ASSUME NEW t \in BusThreads, NEW a \in Slaves, I2cBegin(t, a)
        PROVE  I2cInv'
    BY <1>3 DEF I2cBegin, I2cType, I2cLocked, I2cTold, I2cReachesOwnSlave
  <1>4. ASSUME NEW t \in BusThreads, NEW a \in Slaves, I2cCombined(t, a)
        PROVE  I2cInv'
    BY <1>4 DEF I2cCombined, I2cType, I2cLocked, I2cTold, I2cReachesOwnSlave
  <1>5. ASSUME NEW t \in BusThreads, I2cTake(t)
        PROVE  I2cInv'
    BY <1>5 DEF I2cTake, I2cType, I2cLocked, I2cTold, I2cReachesOwnSlave
  <1>6. ASSUME NEW t \in BusThreads, I2cAddress(t)
        PROVE  I2cInv'
    BY <1>6 DEF I2cAddress, I2cType, I2cLocked, I2cTold, I2cReachesOwnSlave
  <1>7. ASSUME NEW t \in BusThreads, I2cAddressFails(t) \/ I2cIo(t)
        PROVE  I2cInv'
    BY <1>7, I2cReturns DEF I2cAddressFails, I2cIo, I2cTold
  <1>8. ASSUME NEW t \in BusThreads, I2cSeen(t)
        PROVE  I2cInv'
    BY <1>8 DEF I2cSeen, NoI2cCall, I2cType, I2cLocked, I2cTold, I2cReachesOwnSlave
  <1>9. QED
    <2>1. \A c \in SpiConfigs : SpiOpen(c) \/ SpiOpenFails(c) \/ SpiClose => UNCHANGED i2cVars
      BY DEF SpiOpen, SpiOpenFails, SpiClose
    <2>2. \A t \in BusThreads, c \in SpiConfigs :
            SpiTake(t) \/ SpiTransfer(t) \/ SpiSetConfig(t, c) => UNCHANGED i2cVars
      BY DEF SpiTake, SpiTransfer, SpiSetConfig
    <2>3. \A t \in BusThreads, f \in {"mode", "bits", "speed"} :
            SpiSame(t, f) \/ SpiIoctl(t, f) \/ SpiIoctlFails(t, f) \/ SpiAssign(t, f)
              => UNCHANGED i2cVars
      BY DEF SpiSame, SpiIoctl, SpiIoctlFails, SpiAssign
    <2>4. SpiClose \/ (\E t \in BusThreads : SpiTake(t) \/ SpiTransfer(t)) => UNCHANGED i2cVars
      BY DEF SpiClose, SpiTake, SpiTransfer
    <2>5. QED
      BY <1>1, <1>2, <1>3, <1>4, <1>5, <1>6, <1>7, <1>8, <2>1, <2>2, <2>3, <2>4
      DEF BusNext, busVars

\* Though the device remembers one slave for all its threads, a read or write
\* reaches the one its own call named, or none.
THEOREM I2cReachesOwnSlaveAlways == BusSpec => []I2cReachesOwnSlave
  <1>1. I2cInv => I2cReachesOwnSlave
    BY DEF I2cInv
  <1>2. QED BY I2cInvInit, I2cInvStep, <1>1, PTL DEF BusSpec

-----------------------------------------------------------------------------
(* The SPI device.                                                         *)

SpiFields == {"mode", "bits", "speed"}
SpiAssigns == {"assign mode", "assign bits", "assign speed"}

SpiType ==
  /\ spiCtx \in SpiRecords \cup {NoBus}
  /\ spiDev \in SpiRecords
  /\ spiPc \in [BusThreads -> {"idle", "transfer"} \cup SpiFields \cup SpiAssigns]
  /\ spiCall \in [BusThreads -> SpiRecords \cup {NoBus}]

\* Who is in SetConfig may be there, and has a configuration to set; nobody is in
\* a call of a device that is closed.
SpiCalls ==
  /\ \A t \in BusThreads : spiPc[t] \notin {"idle", "transfer"} =>
       t \in SpiSetters /\ spiCall[t] \in SpiRecords
  /\ spiCtx = NoBus => \A t \in BusThreads : spiPc[t] = "idle"

\* Only the field that is about to be assigned differs between the context and
\* the device, which has been told the value of the call.
SpiFieldInStep(f) ==
  /\ (\A t \in BusThreads : spiPc[t] # Assigning[f]) => spiCtx[f] = spiDev[f]
  /\ \A t \in BusThreads : spiPc[t] = Assigning[f] => spiDev[f] = spiCall[t][f]

SpiInv == SpiType /\ SpiCalls /\ (spiCtx # NoBus => \A f \in SpiFields : SpiFieldInStep(f))

LEMMA SpiInvInit == BusInit => SpiInv
  BY BusAssumption DEF BusInit, SpiInv, SpiType, SpiCalls

\* The places of a SetConfig that goes on after field f, and of its assignment.
LEMMA SpiPlaces ==
  ASSUME NEW f \in SpiFields
  PROVE  /\ AfterSetting[f] \in {"bits", "speed", "idle"}
         /\ Assigning[f] \in SpiAssigns
         /\ \A g \in SpiFields : Assigning[f] = Assigning[g] => f = g
         /\ Assigning[f] \notin {"idle", "transfer"} \cup SpiFields
  <1>1. /\ AfterSetting["mode"] = "bits" /\ Assigning["mode"] = "assign mode"
        /\ AfterSetting["bits"] = "speed" /\ Assigning["bits"] = "assign bits"
        /\ AfterSetting["speed"] = "idle" /\ Assigning["speed"] = "assign speed"
    BY DEF AfterSetting, Assigning
  <1>2. QED BY <1>1 DEF SpiFields, SpiAssigns

\* Records that agree in their three fields are the same.
LEMMA SpiEqual ==
  ASSUME NEW c \in SpiRecords, NEW d \in SpiRecords, \A f \in SpiFields : c[f] = d[f]
  PROVE  c = d
  <1>1. c.mode = d.mode /\ c.bits = d.bits /\ c.speed = d.speed
    BY DEF SpiFields
  <1>2. QED BY <1>1 DEF SpiRecords

\* A field that is set leaves a record.
LEMMA SpiSet ==
  ASSUME NEW c \in SpiRecords, NEW d \in SpiRecords, NEW f \in SpiFields
  PROVE  /\ [c EXCEPT ![f] = d[f]] \in SpiRecords
         /\ [c EXCEPT ![f] = d[f]][f] = d[f]
         /\ \A g \in SpiFields \ {f} : [c EXCEPT ![f] = d[f]][g] = c[g]
  BY DEF SpiRecords, SpiFields

\* The steps of SetConfig, in a context that is there.
LEMMA SpiSetting ==
  ASSUME SpiInv, \A s, u \in SpiSetters : s = u,
         NEW t \in BusThreads, NEW f \in SpiFields,
         SpiSame(t, f) \/ SpiIoctl(t, f) \/ SpiIoctlFails(t, f) \/ SpiAssign(t, f)
  PROVE  SpiInv'
  <1> USE BusAssumption DEF SpiInv
  <1>1. spiPc[t] \notin {"idle", "transfer"}
    BY SpiPlaces DEF SpiSame, SpiIoctl, SpiIoctlFails, SpiAssign, SpiFields
  <1>2. /\ spiCtx \in SpiRecords /\ spiCtx # NoBus /\ spiDev \in SpiRecords
        /\ t \in SpiSetters /\ spiCall[t] \in SpiRecords
    BY <1>1 DEF SpiType, SpiCalls
  <1>3. \A u \in BusThreads \ {t} : spiPc[u] \in {"idle", "transfer"}
    BY <1>2 DEF SpiCalls
  <1>4. \A u \in BusThreads, g \in SpiFields : spiPc[u] = Assigning[g] => u = t
    BY <1>3, SpiPlaces
  <1>5. /\ spiCtx' \in SpiRecords /\ spiDev' \in SpiRecords /\ spiCall' = spiCall
        /\ spiPc' \in [BusThreads -> {"idle", "transfer"} \cup SpiFields \cup SpiAssigns]
        /\ \A u \in BusThreads \ {t} : spiPc'[u] = spiPc[u]
    <2>1. PICK s \in {"bits", "speed", "idle"} \cup SpiAssigns : spiPc' = [spiPc EXCEPT ![t] = s]
      BY SpiPlaces DEF SpiSame, SpiIoctl, SpiIoctlFails, SpiAssign
    <2>2. /\ spiPc' \in [BusThreads -> {"idle", "transfer"} \cup SpiFields \cup SpiAssigns]
          /\ \A u \in BusThreads \ {t} : spiPc'[u] = spiPc[u]
      BY <2>1 DEF SpiType, SpiFields
    <2>3. spiCtx' \in SpiRecords /\ spiDev' \in SpiRecords /\ spiCall' = spiCall
      BY <1>2, SpiSet DEF SpiSame, SpiIoctl, SpiIoctlFails, SpiAssign
    <2>4. QED BY <2>2, <2>3
  <1>6. SpiType' /\ SpiCalls'
    BY <1>2, <1>5 DEF SpiType, SpiCalls
  <1>7. ASSUME NEW g \in SpiFields
        PROVE  SpiFieldInStep(g)'
    <2>1. SpiFieldInStep(g) /\ SpiFieldInStep(f)
      BY <1>2
    <2>2. CASE SpiSame(t, f) \/ SpiIoctlFails(t, f)
      <3>1. \A u \in BusThreads : spiPc[u] # Assigning[g]
        BY <1>4, <2>2, SpiPlaces DEF SpiSame, SpiIoctlFails
      <3>2. \A u \in BusThreads : spiPc'[u] # Assigning[g]
        <4>1. spiPc'[t] \in {"bits", "speed", "idle"}
          BY <2>2, SpiPlaces DEF SpiSame, SpiIoctlFails, SpiType
        <4>2. spiPc'[t] # Assigning[g]
          BY <4>1, SpiPlaces DEF SpiAssigns
        <4>3. QED BY <3>1, <1>5, <4>2
      <3>3. QED
        BY <2>1, <2>2, <3>1, <3>2 DEF SpiFieldInStep, SpiSame, SpiIoctlFails
    <2>3. CASE SpiIoctl(t, f)
      <3>1. \A u \in BusThreads : spiPc[u] # Assigning[g]
        BY <1>4, <2>3, SpiPlaces DEF SpiIoctl
      <3>2. CASE g = f
        <4>1. spiDev'[g] = spiCall[t][g]
          <5>1. spiDev' = [spiDev EXCEPT ![f] = spiCall[t][f]]
            BY <2>3 DEF SpiIoctl
          <5>2. QED BY <1>2, <3>2, <5>1, SpiSet
        <4>2. spiPc'[t] = Assigning[g]
          BY <2>3, <3>2 DEF SpiIoctl, SpiType
        <4>3. \A u \in BusThreads : spiPc'[u] = Assigning[g] => u = t
          BY <1>5, <3>1
        <4>4. QED BY <1>5, <4>1, <4>2, <4>3 DEF SpiFieldInStep
      <3>3. CASE g # f
        <4>1. spiDev'[g] = spiDev[g] /\ spiCtx' = spiCtx
          BY <1>2, <2>3, <3>3, SpiSet DEF SpiIoctl
        <4>2. \A u \in BusThreads : spiPc'[u] # Assigning[g]
          BY <1>5, <2>3, <3>1, <3>3, SpiPlaces DEF SpiIoctl, SpiType
        <4>3. QED BY <2>1, <3>1, <4>1, <4>2 DEF SpiFieldInStep
      <3>4. QED BY <3>2, <3>3
    <2>4. CASE SpiAssign(t, f)
      <3>1. spiPc'[t] # Assigning[g]
        BY <2>4, SpiPlaces DEF SpiAssign, SpiType, SpiAssigns
      <3>2. \A u \in BusThreads : spiPc'[u] # Assigning[g]
        BY <1>4, <1>5, <3>1
      <3>3. CASE g = f
        <4>1. spiCtx'[g] = spiCall[t][g] /\ spiDev[g] = spiCall[t][g]
          BY <1>2, <2>1, <2>4, <3>3, SpiSet DEF SpiAssign, SpiFieldInStep
        <4>2. QED BY <2>4, <3>2, <4>1 DEF SpiAssign, SpiFieldInStep
      <3>4. CASE g # f
        <4>1. spiCtx'[g] = spiCtx[g]
          BY <1>2, <2>4, <3>4, SpiSet DEF SpiAssign
        <4>2. \A u \in BusThreads : spiPc[u] # Assigning[g]
          BY <1>4, <2>4, <3>4, SpiPlaces DEF SpiAssign
        <4>3. QED BY <2>1, <2>4, <3>2, <4>1, <4>2 DEF SpiAssign, SpiFieldInStep
      <3>5. QED BY <3>3, <3>4
    <2>5. QED BY <2>2, <2>3, <2>4
  <1>8. QED BY <1>2, <1>5, <1>6, <1>7

LEMMA SpiInvStep ==
  ASSUME \A s, u \in SpiSetters : s = u
  PROVE  SpiInv /\ [BusNext]_busVars => SpiInv'
  <1> SUFFICES ASSUME SpiInv, [BusNext]_busVars PROVE SpiInv'
    OBVIOUS
  <1> USE BusAssumption DEF SpiInv
  <1>1. CASE UNCHANGED spiVars
    BY <1>1 DEF spiVars, SpiType, SpiCalls, SpiFieldInStep
  <1>2. ASSUME NEW c \in SpiConfigs, SpiOpen(c)
        PROVE  SpiInv'
    <2>1. /\ \A t \in BusThreads : spiPc[t] = "idle"
          /\ spiCtx' = c /\ spiDev' = c /\ c \in SpiRecords
          /\ UNCHANGED <<spiPc, spiCall>>
      BY <1>2 DEF SpiOpen, SpiCalls
    <2>2. SpiType' /\ SpiCalls'
      BY <2>1 DEF SpiType, SpiCalls
    <2>3. \A f \in SpiFields : SpiFieldInStep(f)'
      BY <2>1, SpiPlaces DEF SpiFieldInStep
    <2>4. QED BY <2>2, <2>3
  <1>3. ASSUME NEW c \in SpiConfigs, SpiOpenFails(c)
        PROVE  SpiInv'
    <2>1. PICK done \in SUBSET SpiFields :
            spiDev' = [f \in DOMAIN c |-> IF f \in done THEN c[f] ELSE spiDev[f]]
      BY <1>3 DEF SpiOpenFails, SpiFields
    <2>2. spiDev' \in SpiRecords
      BY <2>1 DEF SpiRecords, SpiType
    <2>3. QED
      BY <1>3, <2>2 DEF SpiOpenFails, SpiType, SpiCalls
  <1>4. CASE SpiClose
    BY <1>4 DEF SpiClose, SpiType, SpiCalls
  <1>5. ASSUME NEW t \in BusThreads, SpiTake(t) \/ SpiTransfer(t)
        PROVE  SpiInv'
    <2>1. /\ spiPc' \in [BusThreads -> {"idle", "transfer"} \cup SpiFields \cup SpiAssigns]
          /\ UNCHANGED <<spiCtx, spiDev, spiCall>>
          /\ spiPc[t] \in {"idle", "transfer"} /\ spiPc'[t] \in {"idle", "transfer"}
          /\ \A u \in BusThreads \ {t} : spiPc'[u] = spiPc[u]
          /\ spiCtx # NoBus
      BY <1>5 DEF SpiTake, SpiTransfer, SpiType, SpiCalls
    <2>2. SpiType' /\ SpiCalls'
      BY <2>1 DEF SpiType, SpiCalls
    <2>3. \A u \in BusThreads, f \in SpiFields : spiPc'[u] = Assigning[f] <=> spiPc[u] = Assigning[f]
      BY <2>1, SpiPlaces
    <2>4. QED BY <2>1, <2>2, <2>3 DEF SpiFieldInStep
  <1>6. ASSUME NEW t \in BusThreads, NEW c \in SpiConfigs, SpiSetConfig(t, c)
        PROVE  SpiInv'
    <2>1. /\ spiPc' \in [BusThreads -> {"idle", "transfer"} \cup SpiFields \cup SpiAssigns]
          /\ UNCHANGED <<spiCtx, spiDev>>
          /\ spiCall' \in [BusThreads -> SpiRecords \cup {NoBus}] /\ spiCall'[t] \in SpiRecords
          /\ spiPc[t] = "idle" /\ spiPc'[t] = "mode" /\ t \in SpiSetters
          /\ \A u \in BusThreads \ {t} : spiPc'[u] = spiPc[u] /\ spiCall'[u] = spiCall[u]
          /\ spiCtx # NoBus
      BY <1>6 DEF SpiSetConfig, SpiType, SpiFields
    <2>2. SpiType' /\ SpiCalls'
      BY <2>1 DEF SpiType, SpiCalls
    <2>3. \A u \in BusThreads, f \in SpiFields :
            /\ spiPc'[u] = Assigning[f] <=> spiPc[u] = Assigning[f]
            /\ spiPc'[u] = Assigning[f] => spiCall'[u] = spiCall[u]
      BY <2>1, SpiPlaces DEF SpiFields
    <2>4. QED BY <2>1, <2>2, <2>3 DEF SpiFieldInStep
  <1>7. QED
    <2>1. \A t \in BusThreads, a \in Slaves :
            I2cBegin(t, a) \/ I2cCombined(t, a) => UNCHANGED spiVars
      BY DEF I2cBegin, I2cCombined
    <2>2. \A t \in BusThreads :
            I2cTake(t) \/ I2cAddress(t) \/ I2cAddressFails(t) \/ I2cIo(t) \/ I2cSeen(t)
              => UNCHANGED spiVars
      BY DEF I2cTake, I2cAddress, I2cAddressFails, I2cIo, I2cSeen, I2cReturn
    <2>3. I2cOpen \/ I2cClose => UNCHANGED spiVars
      BY DEF I2cOpen, I2cClose
    <2>4. QED
      BY <1>1, <1>2, <1>3, <1>4, <1>5, <1>6, SpiSetting, <2>1, <2>2, <2>3
      DEF BusNext, busVars, SpiFields

\* With a single setter the context and the device agree whenever it is not in
\* SetConfig, also after a setting that failed half-way.
THEOREM SpiInStepAlways ==
  ASSUME \A s, u \in SpiSetters : s = u
  PROVE  BusSpec => []SpiInStep
  <1>1. SpiInv => SpiInStep
    <2> SUFFICES ASSUME SpiInv, spiCtx # NoBus,
                        \A t \in SpiSetters : spiPc[t] \in {"idle", "transfer"}
                 PROVE  spiCtx = spiDev
      BY DEF SpiInStep
    <2>1. \A t \in BusThreads : spiPc[t] \in {"idle", "transfer"}
      BY DEF SpiInv, SpiCalls
    <2>2. \A f \in SpiFields : spiCtx[f] = spiDev[f]
      BY <2>1, SpiPlaces DEF SpiInv, SpiFieldInStep
    <2>3. QED BY <2>2, SpiEqual DEF SpiInv, SpiType
  <1>2. SpiInv /\ [BusNext]_busVars => SpiInv'
    BY SpiInvStep
  <1>3. QED BY SpiInvInit, <1>1, <1>2, PTL DEF BusSpec
=============================================================================
