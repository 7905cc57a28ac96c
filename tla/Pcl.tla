-------------------------------- MODULE Pcl --------------------------------
(***************************************************************************)
(* The board configuration library, pcl/src/: the registry of boards, its  *)
(* validation, the queries, and the choice of a board at start.            *)
(*                                                                         *)
(* The library has no lock and is used by one thread: an action is a whole *)
(* call.  A call that fails or only looks something up changes nothing; it *)
(* is an operator, and its call a stuttering step.  A query that would     *)
(* follow a NULL pointer cannot be evaluated.                              *)
(*                                                                         *)
(* PclSelectDefault is followed by the program, which keeps the board as   *)
(* long as it lives (examples/pcl_example.c).  What PCL_GetBoard reads is  *)
(* never assigned, so it always answers NULL and has no variable here.     *)
(***************************************************************************)
EXTENDS PclBoards, FiniteSets

CONSTANTS PclOffered,  \* boards a program may register, besides g_all_configs
          PclEnvs,     \* the environment: a [platform, product, version] query
          PclDefault,  \* DEFAULT_PLATFORM, _PRODUCT, _VERSION, or Null
          PclMax       \* MAX_BOARD_CONFIGS

\* The fields that are a list, and the type of their counts, uint32_t.
BoardLists ==
  {"mcus", "bmcs", "satellites", "sensors", "storages", "power_domains", "apps"}
Counted(b) == \A f \in BoardLists : b[f].count \in Nat

ASSUME PclAssumption ==
  /\ PclMax \in Nat
  /\ Null \notin PclOffered
  /\ \A b \in PclOffered : Counted(b)

VARIABLES
  pclInitialized,  \* g_initialized
  pclRegistry,     \* g_registry.configs[0 .. count - 1]
  pclAll,          \* history: RegisterAll has returned, with room for all
  pclChosen        \* the board the program works with

pclVars == <<pclInitialized, pclRegistry, pclAll, pclChosen>>

-----------------------------------------------------------------------------
(* PCL_Validate.                                                           *)

Named(s) == s # Null /\ s # ""

ValidCan(c) == Named(c.device) /\ c.bitrate # 0

ValidUart(c) ==
  /\ Named(c.device)
  /\ c.baudrate # 0
  /\ c.data_bits \in 5..8
  /\ c.stop_bits \in 1..2
  /\ c.parity \in {"N", "E", "O"}

ValidI2c(c) == Named(c.device) /\ c.slave_addr <= 127 /\ c.speed_hz # 0

ValidSpi(c) ==
  Named(c.device) /\ c.speed_hz # 0 /\ c.mode <= 3 /\ c.bits_per_word \in 1..32

ValidMcu(c) ==
  \/ c.type = "CAN" /\ ValidCan(c)
  \/ c.type = "UART" /\ ValidUart(c)
  \/ c.type = "I2C" /\ ValidI2c(c)
  \/ c.type = "SPI" /\ ValidSpi(c)

ValidSatellite(c) ==
  \/ c.type = "CAN" /\ ValidCan(c)
  \/ c.type = "UART" /\ ValidUart(c)
  \/ c.type = "SPACEWIRE" /\ Named(c.device)
  \/ c.type = "1553B" /\ Named(c.device) /\ c.rt_address <= 31

ValidBmc(b) ==
  /\ b.primary_channel.protocol = "IPMI" =>
       /\ Named(b.primary_channel.interface)
       /\ Named(b.primary_channel.ip_addr)
       /\ b.primary_channel.port # 0
  /\ b.primary_channel.protocol = "REDFISH" => Named(b.primary_channel.base_url)
  /\ b.backup_channel.protocol = "IPMI" =>
       Named(b.backup_channel.device) /\ b.backup_channel.baudrate # 0

\* Mutant: nobody asks for the names.
MutListed(l) ==
  l.count > 0 =>
    l.items # Null /\ \A i \in 1..l.count : l.items[i] # Null

\* The array is there, and every entry of it, with a name.
Listed(l) ==
  l.count > 0 =>
    /\ l.items # Null
    /\ \A i \in 1..l.count : l.items[i] # Null /\ Named(l.items[i].name)

Validate(b) ==
  /\ Named(b.platform) /\ Named(b.product) /\ Named(b.version)
  /\ Listed(b.mcus)
  /\ \A i \in 1..b.mcus.count :
       b.mcus.items[i].enabled => ValidMcu(b.mcus.items[i].interface)
  /\ Listed(b.bmcs)
  /\ \A i \in 1..b.bmcs.count : b.bmcs.items[i].enabled => ValidBmc(b.bmcs.items[i])
  /\ Listed(b.satellites)
  /\ \A i \in 1..b.satellites.count :
       b.satellites.items[i].enabled => ValidSatellite(b.satellites.items[i].interface)
  /\ Listed(b.sensors) /\ Listed(b.storages) /\ Listed(b.power_domains)
  /\ Listed(b.apps)
  /\ \A i \in 1..b.apps.count :
       b.apps.items[i].mappings.count > 0 => b.apps.items[i].mappings.items # Null

-----------------------------------------------------------------------------
(* The queries of a board and of its applications.                         *)

\* The first of the entries at the places I, or NULL.
FirstOf(l, I) ==
  IF I = {} THEN Null ELSE l.items[CHOOSE i \in I : \A j \in I : i <= j]

ByName(l, name) == FirstOf(l, {i \in 1..l.count : l.items[i].name = name})
ById(l, id) == IF id < l.count THEN l.items[id + 1] ELSE Null

HwFindMCU(b, name) == ByName(b.mcus, name)
HwGetMCU(b, id) == ById(b.mcus, id)
HwFindBMC(b, name) == ByName(b.bmcs, name)
HwGetBMC(b, id) == ById(b.bmcs, id)
HwFindSatellite(b, name) == ByName(b.satellites, name)
HwGetSatellite(b, id) == ById(b.satellites, id)
HwFindSensor(b, name) == ByName(b.sensors, name)
HwGetSensor(b, id) == ById(b.sensors, id)
HwFindStorage(b, name) == ByName(b.storages, name)
HwGetStorage(b, id) == ById(b.storages, id)
HwFindPowerDomain(b, name) == ByName(b.power_domains, name)

AppFind(b, name) == ByName(b.apps, name)
AppFindDevice(app, function) ==
  FirstOf(app.mappings,
          {i \in 1..app.mappings.count : app.mappings.items[i].function = function})

AppGetDeviceByMapping(b, m) ==
  CASE m.device_type = "MCU" -> HwGetMCU(b, m.device_id)
    [] m.device_type = "BMC" -> HwGetBMC(b, m.device_id)
    [] m.device_type = "SATELLITE" -> HwGetSatellite(b, m.device_id)
    [] m.device_type = "SENSOR" -> HwGetSensor(b, m.device_id)
    [] m.device_type = "STORAGE" -> HwGetStorage(b, m.device_id)
    [] OTHER -> Null

\* An application finds each device it requires on the board b.
Resolves(b) ==
  \A a \in 1..b.apps.count :
    LET app == AppFind(b, b.apps.items[a].name) IN
    \A k \in 1..app.mappings.count :
      LET m == AppFindDevice(app, app.mappings.items[k].function) IN
      m.required => AppGetDeviceByMapping(b, m) # Null

-----------------------------------------------------------------------------
(* The registry.                                                           *)

SameTriple(b, c) ==
  b.platform = c.platform /\ b.product = c.product /\ b.version = c.version

Matches(b, q) ==
  b.platform = q.platform /\ b.product = q.product /\ q.version \in {Null, b.version}

\* PCL_Find in the boards r.
FindIn(r, q) == FirstOf(List(r), {i \in 1..Len(r) : Matches(r[i], q)})
Find(q) == IF pclInitialized THEN FindIn(pclRegistry, q) ELSE Null

\* PCL_List with a buffer of n boards.
ListBoards(n) == SubSeq(pclRegistry, 1, IF Len(pclRegistry) < n THEN Len(pclRegistry) ELSE n)

\* What r becomes when PCL_Register is called with b.
Registered(r, b) ==
  IF Len(r) < PclMax /\ Validate(b) /\ \A i \in 1..Len(r) : ~SameTriple(r[i], b)
  THEN Append(r, b)
  ELSE r

\* g_all_configs, and what PCL_RegisterAll makes of r.
AllConfigs == <<H200Base, H200V1, H200V2>>

RegisteredAll(r) ==
  Registered(Registered(Registered(r, AllConfigs[1]), AllConfigs[2]), AllConfigs[3])

\* PCL_SelectDefault: the environment, the build, the first of the table.
SelectDefault(q) ==
  IF q # Null /\ Find(q) # Null THEN Find(q)
  ELSE IF PclDefault # Null /\ Find(PclDefault) # Null THEN Find(PclDefault)
  ELSE AllConfigs[1]

-----------------------------------------------------------------------------
PclInit ==
  /\ pclInitialized = FALSE
  /\ pclRegistry = <<>>
  /\ pclAll = FALSE
  /\ pclChosen = Null

\* PCL_Init, once; PCL_Cleanup.
PclStart ==
  /\ ~pclInitialized
  /\ pclInitialized' = TRUE
  /\ pclRegistry' = <<>>
  /\ UNCHANGED <<pclAll, pclChosen>>

PclCleanup ==
  /\ pclInitialized
  /\ pclInitialized' = FALSE
  /\ pclRegistry' = <<>>
  /\ pclAll' = FALSE
  /\ UNCHANGED pclChosen

PclRegister(b) ==
  /\ pclInitialized
  /\ pclRegistry' = Registered(pclRegistry, b)
  /\ UNCHANGED <<pclInitialized, pclAll, pclChosen>>

PclRegisterAll ==
  /\ pclInitialized
  /\ pclRegistry' = RegisteredAll(pclRegistry)
  /\ pclAll' = (pclAll \/ Len(pclRegistry) + Len(AllConfigs) <= PclMax)
  /\ UNCHANGED <<pclInitialized, pclChosen>>

\* The program asks for its board and keeps the answer.
PclSelect(q) ==
  /\ pclChosen = Null
  /\ pclChosen' = SelectDefault(q)
  /\ UNCHANGED <<pclInitialized, pclRegistry, pclAll>>

PclNext ==
  \/ PclStart \/ PclCleanup \/ PclRegisterAll
  \/ \E b \in PclOffered : PclRegister(b)
  \/ \E q \in PclEnvs : PclSelect(q)

PclSpec == PclInit /\ [][PclNext]_pclVars

-----------------------------------------------------------------------------
(* Properties.                                                             *)

\* The pointers the queries of pcl_api.c:165-341 follow in a list.
Followed(l) == \A i \in 1..l.count : l.items # Null /\ l.items[i] # Null /\ l.items[i].name # Null

\* pcl_api.c:62-106, 628-796: whatever has been registered, no query of a board
\* in the registry follows a NULL pointer, every enabled satellite interface
\* can be addressed on its bus, and no two boards have the same triple.
PclRegistrySound ==
  /\ Len(pclRegistry) <= PclMax
  /\ \A i, j \in DOMAIN pclRegistry :
       SameTriple(pclRegistry[i], pclRegistry[j]) => i = j
  /\ \A i \in DOMAIN pclRegistry : LET b == pclRegistry[i] IN
       /\ \A f \in BoardLists : Followed(b[f])
       /\ \A k \in 1..b.apps.count : LET m == b.apps.items[k].mappings IN
            m.count > 0 => m.items # Null
       /\ \A k \in 1..b.satellites.count : LET s == b.satellites.items[k] IN
            s.enabled /\ s.interface.type = "1553B" => s.interface.rt_address <= 31

\* pcl_register.c:48-72: once PCL_RegisterAll has returned, every board of this
\* repository is listed and found under its name, and each device its
\* applications require is there; an invalid table would be dropped with no more
\* than a line in the log.  The board a program starts with is a valid one, though
\* it is that of the table when nothing has been registered.
PclShipped ==
  /\ pclChosen # Null => Validate(pclChosen)
  /\ pclAll =>
       \A i \in DOMAIN AllConfigs :
         LET b == AllConfigs[i]
             listed == ListBoards(PclMax)
             f == Find([platform |-> b.platform, product |-> b.product,
                        version |-> b.version])
         IN
         /\ f # Null
         /\ \E k \in DOMAIN listed : SameTriple(listed[k], b)
         /\ Resolves(f)
=============================================================================
