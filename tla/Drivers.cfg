SPECIFICATION DriversSpec
CONSTANTS
  SerialThreads = {t1, t2}
  SerialConfigs <- SomeConfigs
  MaxInput = 2
  NoThread = NoThread
  NoConfig = NoConfig
  BusThreads = {s1, s2}
  SpiSetters = {s1}
  Slaves = {x1, x2}
  SpiConfigs <- SomeSettings
  NoBus = NoBus
  BmcThreads = {b1, b2}
  MaxCommands = 2
  MaxSwitches = 1
  NoOne = NoOne
  Noise = Noise
  McuThreads = {m1, m2}
  MaxMcuCommands = 2
  MaxForeign = 1
  NoMcuThread = NoMcuThread
  Null = Null
  PclOffered <- Offered
  PclEnvs <- Envs
  PclDefault = Null
  PclMax = 4
CHECK_DEADLOCK FALSE
INVARIANTS
  SerialReady
  I2cReachesOwnSlave
  SpiInStep
  BmcOwnAnswer
  BmcCounts
  McuOwnAnswer
  PclRegistrySound
  PclShipped
PROPERTY
  SerialLockFreed
