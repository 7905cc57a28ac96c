------------------------------ MODULE PclProofs ------------------------------
(***************************************************************************)
(* What holds of the registry of boards whatever boards a program offers,  *)
(* and what the boards of this repository are worth in it.                 *)
(***************************************************************************)
EXTENDS Pcl, WellFoundedInduction, TLAPS

\* What may come to be registered: a board of the program, or of g_all_configs.
Boards == PclOffered \cup {H200Base, H200V1, H200V2}

\* pcl_api.c:62-106.  A registry PCL_Register may have built: within its array,
\* of boards that have passed the validation, no two under the same triple.
Sound(r) ==
  /\ r \in Seq(Boards)
  /\ Len(r) <= PclMax
  /\ \A i \in 1..Len(r) : Validate(r[i])
  /\ \A i, j \in 1..Len(r) : SameTriple(r[i], r[j]) => i = j

RegistryInv == Sound(pclRegistry)

-----------------------------------------------------------------------------
\* The tables of this repository: each list has its count.
LEMMA TablesCounted ==
  \A b \in {H200Base, H200V1, H200V2} : Counted(b)
<1>1. Counted(H200Base)
  <2>1. /\ H200BaseMcus.count \in Nat /\ H200BaseBmcs.count \in Nat
        /\ H200BaseSatellites.count \in Nat /\ H200BaseSensors.count \in Nat
        /\ H200BaseStorages.count \in Nat /\ H200BasePower.count \in Nat
        /\ H200BaseApps.count \in Nat
    BY DEF H200BaseMcus, H200BaseBmcs, H200BaseSatellites, H200BaseSensors,
           H200BaseStorages, H200BasePower, H200BaseApps, List
  <2>2. /\ H200Base.mcus = H200BaseMcus /\ H200Base.bmcs = H200BaseBmcs
        /\ H200Base.satellites = H200BaseSatellites /\ H200Base.sensors = H200BaseSensors
        /\ H200Base.storages = H200BaseStorages
        /\ H200Base.power_domains = H200BasePower /\ H200Base.apps = H200BaseApps
    BY DEF H200Base, Board, H200BaseDevices
  <2> QED BY <2>1, <2>2 DEF Counted, BoardLists
<1>2. Counted(H200V1)
  <2>1. /\ H200V1Mcus.count \in Nat /\ H200V1Satellites.count \in Nat
        /\ H200V1Sensors.count \in Nat /\ H200V1Power.count \in Nat
        /\ H200V1Apps.count \in Nat /\ NoList.count \in Nat
    BY DEF H200V1Mcus, H200V1Satellites, H200V1Sensors, H200V1Power, H200V1Apps,
           List, NoList
  <2>2. /\ H200V1.mcus = H200V1Mcus /\ H200V1.bmcs = NoList
        /\ H200V1.satellites = H200V1Satellites /\ H200V1.sensors = H200V1Sensors
        /\ H200V1.storages = NoList
        /\ H200V1.power_domains = H200V1Power /\ H200V1.apps = H200V1Apps
    BY DEF H200V1, Board, H200V1Devices
  <2> QED BY <2>1, <2>2 DEF Counted, BoardLists
<1>3. Counted(H200V2)
  <2>1. /\ H200V2Bmcs.count \in Nat /\ H200V2Satellites.count \in Nat
        /\ H200V2Sensors.count \in Nat /\ H200V2Storages.count \in Nat
        /\ H200V2Power.count \in Nat /\ H200V2Apps.count \in Nat /\ NoList.count \in Nat
    BY DEF H200V2Bmcs, H200V2Satellites, H200V2Sensors, H200V2Storages, H200V2Power,
           H200V2Apps, List, NoList
  <2>2. /\ H200V2.mcus = NoList /\ H200V2.bmcs = H200V2Bmcs
        /\ H200V2.satellites = H200V2Satellites /\ H200V2.sensors = H200V2Sensors
        /\ H200V2.storages = H200V2Storages
        /\ H200V2.power_domains = H200V2Power /\ H200V2.apps = H200V2Apps
    BY DEF H200V2, Board, H200V2Devices
  <2> QED BY <2>1, <2>2 DEF Counted, BoardLists
<1> QED BY <1>1, <1>2, <1>3

\* Every board that may be registered has counts.
LEMMA BoardsCounted == \A b \in Boards : Counted(b)
BY TablesCounted, PclAssumption DEF Boards

\* A list that passes the validation can be followed.
LEMMA ListedFollowed ==
  ASSUME NEW l, l.count \in Nat, Listed(l)
  PROVE  Followed(l)
<1>1. ASSUME NEW i \in 1..l.count
      PROVE  l.items # Null /\ l.items[i] # Null /\ l.items[i].name # Null
  <2>1. l.count > 0 OBVIOUS
  <2>2. /\ l.items # Null
        /\ \A k \in 1..l.count : l.items[k] # Null /\ Named(l.items[k].name)
    BY <2>1 DEF Listed
  <2> QED BY <2>2 DEF Named
<1> QED BY <1>1 DEF Followed

\* pcl_api.c:62-106.  A call of PCL_Register leaves a sound registry sound.
LEMMA RegisterKeeps ==
  ASSUME NEW r, Sound(r), NEW b \in Boards
  PROVE  Sound(Registered(r, b))
<1>1. CASE /\ Len(r) < PclMax /\ Validate(b)
           /\ \A i \in 1..Len(r) : ~SameTriple(r[i], b)
  <2> DEFINE s == Append(r, b)
  <2>1. Registered(r, b) = s BY <1>1 DEF Registered
  <2>2. /\ r \in Seq(Boards) /\ Len(r) \in Nat /\ PclMax \in Nat
    BY PclAssumption DEF Sound
  <2>3. /\ s \in Seq(Boards) /\ Len(s) = Len(r) + 1
        /\ \A i \in 1..Len(r) : s[i] = r[i]
        /\ s[Len(r) + 1] = b
    BY <2>2
  <2> HIDE DEF s
  <2>4. Len(s) <= PclMax BY <1>1, <2>2, <2>3
  <2>5. ASSUME NEW i \in 1..Len(s) PROVE Validate(s[i])
    <3>1. CASE i \in 1..Len(r) BY <2>3, <3>1 DEF Sound
    <3>2. CASE i = Len(r) + 1 BY <1>1, <2>3, <3>2
    <3> QED BY <2>2, <2>3, <3>1, <3>2
  <2>6. ASSUME NEW i \in 1..Len(s), NEW j \in 1..Len(s), SameTriple(s[i], s[j])
        PROVE  i = j
    <3>1. CASE i \in 1..Len(r) /\ j \in 1..Len(r) BY <2>3, <2>6, <3>1 DEF Sound
    <3>2. CASE i \in 1..Len(r) /\ j = Len(r) + 1 BY <1>1, <2>3, <2>6, <3>2
    <3>3. CASE i = Len(r) + 1 /\ j \in 1..Len(r)
      BY <1>1, <2>3, <2>6, <3>3 DEF SameTriple
    <3> QED BY <2>2, <2>3, <3>1, <3>2, <3>3
  <2> QED BY <2>1, <2>3, <2>4, <2>5, <2>6 DEF Sound
<1>2. CASE ~(/\ Len(r) < PclMax /\ Validate(b)
             /\ \A i \in 1..Len(r) : ~SameTriple(r[i], b))
  BY <1>2 DEF Registered
<1> QED BY <1>1, <1>2

\* pcl_register.c:48-72.  So does PCL_RegisterAll.
LEMMA RegisterAllKeeps ==
  ASSUME NEW r, Sound(r)
  PROVE  Sound(RegisteredAll(r))
<1> DEFINE r1 == Registered(r, H200Base)
           r2 == Registered(r1, H200V1)
<1>1. H200Base \in Boards /\ H200V1 \in Boards /\ H200V2 \in Boards BY DEF Boards
<1>2. Sound(r1) BY <1>1, RegisterKeeps
<1> HIDE DEF r1
<1>3. Sound(r2) BY <1>1, <1>2, RegisterKeeps
<1> HIDE DEF r2
<1>4. Sound(Registered(r2, H200V2)) BY <1>1, <1>3, RegisterKeeps
<1>5. AllConfigs[1] = H200Base /\ AllConfigs[2] = H200V1 /\ AllConfigs[3] = H200V2
  BY DEF AllConfigs
<1> QED BY <1>4, <1>5 DEF RegisteredAll, r1, r2

-----------------------------------------------------------------------------
\* The registry stays sound in every step.
LEMMA RegistryStep == RegistryInv /\ [PclNext]_pclVars => RegistryInv'
<1> SUFFICES ASSUME RegistryInv, [PclNext]_pclVars PROVE RegistryInv'
  OBVIOUS
<1>0. Sound(<<>>) BY PclAssumption DEF Sound
<1>1. CASE PclStart BY <1>0, <1>1 DEF PclStart, RegistryInv
<1>2. CASE PclCleanup BY <1>0, <1>2 DEF PclCleanup, RegistryInv
<1>3. CASE PclRegisterAll BY <1>3, RegisterAllKeeps DEF PclRegisterAll, RegistryInv
<1>4. ASSUME NEW b \in PclOffered, PclRegister(b) PROVE RegistryInv'
  <2>1. b \in Boards BY DEF Boards
  <2> QED BY <1>4, <2>1, RegisterKeeps DEF PclRegister, RegistryInv
<1>5. ASSUME NEW q \in PclEnvs, PclSelect(q) PROVE RegistryInv'
  BY <1>5 DEF PclSelect, RegistryInv
<1>6. CASE UNCHANGED pclVars BY <1>6 DEF pclVars, RegistryInv
<1> QED BY <1>1, <1>2, <1>3, <1>4, <1>5, <1>6 DEF PclNext

\* What a sound registry means for whoever queries it.
LEMMA SoundMeans == RegistryInv => PclRegistrySound
<1> SUFFICES ASSUME RegistryInv PROVE PclRegistrySound
  OBVIOUS
<1>1. /\ pclRegistry \in Seq(Boards) /\ DOMAIN pclRegistry = 1..Len(pclRegistry)
  BY DEF RegistryInv, Sound
<1>2. Len(pclRegistry) <= PclMax BY DEF RegistryInv, Sound
<1>3. \A i, j \in DOMAIN pclRegistry : SameTriple(pclRegistry[i], pclRegistry[j]) => i = j
  BY <1>1 DEF RegistryInv, Sound
<1>4. ASSUME NEW i \in DOMAIN pclRegistry
      PROVE  LET b == pclRegistry[i] IN
             /\ \A f \in BoardLists : Followed(b[f])
             /\ \A k \in 1..b.apps.count : LET m == b.apps.items[k].mappings IN
                  m.count > 0 => m.items # Null
             /\ \A k \in 1..b.satellites.count : LET s == b.satellites.items[k] IN
                  s.enabled /\ s.interface.type = "1553B" => s.interface.rt_address <= 31
  <2>1. PICK b : b = pclRegistry[i] OBVIOUS
  <2>2. b \in Boards BY <1>1, <2>1
  <2>3. Validate(b) BY <1>1, <2>1 DEF RegistryInv, Sound
  <2>4. Counted(b) BY <2>2, BoardsCounted
  <2>5. /\ Listed(b.mcus) /\ Listed(b.bmcs) /\ Listed(b.satellites) /\ Listed(b.sensors)
        /\ Listed(b.storages) /\ Listed(b.power_domains) /\ Listed(b.apps)
    BY <2>3 DEF Validate
  <2>6. \A f \in BoardLists : Listed(b[f]) BY <2>5 DEF BoardLists
  <2>7. \A f \in BoardLists : Followed(b[f]) BY <2>4, <2>6, ListedFollowed DEF Counted
  <2>8. \A k \in 1..b.apps.count :
          b.apps.items[k].mappings.count > 0 => b.apps.items[k].mappings.items # Null
    BY <2>3 DEF Validate
  <2>9. \A k \in 1..b.satellites.count :
          b.satellites.items[k].enabled => ValidSatellite(b.satellites.items[k].interface)
    BY <2>3 DEF Validate
  <2>10. \A k \in 1..b.satellites.count :
           /\ b.satellites.items[k].enabled
           /\ b.satellites.items[k].interface.type = "1553B"
           => b.satellites.items[k].interface.rt_address <= 31
    BY <2>9 DEF ValidSatellite
  <2> QED BY <2>1, <2>7, <2>8, <2>10
<1> QED BY <1>2, <1>3, <1>4 DEF PclRegistrySound

\* pcl_api.c:62-106, 628-796: whatever boards are registered, in whatever order,
\* and whatever they hold, a query of a board that made it into the registry
\* follows no NULL pointer, and a triple names one board.
THEOREM PclRegistrySoundAlways == PclSpec => []PclRegistrySound
<1>1. PclInit => RegistryInv BY PclAssumption DEF PclInit, RegistryInv, Sound
<1> QED BY <1>1, RegistryStep, SoundMeans, PTL DEF PclSpec

-----------------------------------------------------------------------------
(* The tables of this repository pass the validation.                      *)

\* The names and devices of the tables that the validation looks at.
TableTexts ==
  {"ti/am6254", "H200_100P", "base", "v1.0", "v2.0",
   "stm32_mcu", "payload_bmc", "satellite_platform", "board_temp", "emmc_storage",
   "payload_power", "sensor_power", "can_gateway", "protocol_converter",
   "backup_mcu", "satellite_backup", "board_gyro", "board_accel", "imu_power",
   "payload_bmc_v2", "satellite_1553b", "board_gps", "nvme_storage", "gps_power", "nvme_power",
   "/dev/ttyS1", "/dev/ttyS2", "eth0", "192.168.1.100", "can0", "can1", "can2",
   "/dev/mil1553b0"}

\* NULL is no text, and no structure or array.
NullIsNothing ==
  /\ Null \notin TableTexts
  /\ \A f : f = [x \in DOMAIN f |-> f[x]] => f # Null

\* A string that is there.
LEMMA Texts == NullIsNothing => \A s \in TableTexts : Named(s)
  BY DEF NullIsNothing, Named, TableTexts

\* What a device of a table is made of.
LEMMA Peripherals ==
  ASSUME NullIsNothing, NEW n \in TableTexts, NEW c
  PROVE  /\ Peripheral(n, c) # Null /\ Named(Peripheral(n, c).name)
         /\ Peripheral(n, c).interface = c
<1>1. Peripheral(n, c) = [x \in DOMAIN Peripheral(n, c) |-> Peripheral(n, c)[x]]
  BY DEF Peripheral
<1>2. Peripheral(n, c) # Null
  BY <1>1 DEF NullIsNothing
<1> QED BY <1>2, Texts DEF Peripheral

LEMMA Bmcs ==
  ASSUME NullIsNothing, NEW n \in TableTexts, NEW p, NEW s, NEW k
  PROVE  /\ Bmc(n, p, s, k) # Null /\ Named(Bmc(n, p, s, k).name)
         /\ Bmc(n, p, s, k).primary_channel = p /\ Bmc(n, p, s, k).backup_channel = s
<1>1. Bmc(n, p, s, k) = [x \in DOMAIN Bmc(n, p, s, k) |-> Bmc(n, p, s, k)[x]]
  BY DEF Bmc
<1>2. Bmc(n, p, s, k) # Null
  BY <1>1 DEF NullIsNothing
<1> QED BY <1>2, Texts DEF Bmc

LEMMA Others ==
  ASSUME NullIsNothing, NEW n \in TableTexts, NEW x, NEW y
  PROVE  /\ Storage(n, x) # Null /\ Named(Storage(n, x).name)
         /\ Power(n, x, y) # Null /\ Named(Power(n, x, y).name)
         /\ App(n, x) # Null /\ Named(App(n, x).name) /\ App(n, x).name = n
         /\ App(n, x).mappings = x
<1>1. Storage(n, x) = [z \in DOMAIN Storage(n, x) |-> Storage(n, x)[z]]
  BY DEF Storage
<1>2. Power(n, x, y) = [z \in DOMAIN Power(n, x, y) |-> Power(n, x, y)[z]]
  BY DEF Power
<1>3. App(n, x) = [z \in DOMAIN App(n, x) |-> App(n, x)[z]]
  BY DEF App
<1>4. Storage(n, x) # Null /\ Power(n, x, y) # Null /\ App(n, x) # Null
  BY <1>1, <1>2, <1>3 DEF NullIsNothing
<1> QED BY <1>4, Texts DEF Storage, Power, App

\* The lists of a table.
LEMMA ListOfOne ==
  ASSUME NullIsNothing, NEW d
  PROVE  /\ List(<<d>>).count = 1 /\ List(<<d>>).items # Null /\ List(<<d>>).items[1] = d
         /\ 1..1 = {1}
         /\ d # Null /\ Named(d.name) => Listed(List(<<d>>))
<1>1. <<d>> = [i \in DOMAIN <<d>> |-> <<d>>[i]]
  OBVIOUS
<1>2. <<d>> # Null
  BY <1>1 DEF NullIsNothing
<1>3. List(<<d>>).count = 1 /\ List(<<d>>).items = <<d>>
  BY DEF List
<1>4. 1..1 = {1}
  OBVIOUS
<1> QED BY <1>2, <1>3, <1>4 DEF Listed

LEMMA ListOfTwo ==
  ASSUME NullIsNothing, NEW d, NEW e
  PROVE  LET l == List(<<d, e>>) IN
         /\ l.count = 2 /\ l.items # Null /\ l.items[1] = d /\ l.items[2] = e
         /\ 1..2 = {1, 2}
         /\ d # Null /\ Named(d.name) /\ e # Null /\ Named(e.name) => Listed(l)
<1>1. <<d, e>> = [i \in DOMAIN <<d, e>> |-> <<d, e>>[i]]
  OBVIOUS
<1>2. <<d, e>> # Null
  BY <1>1 DEF NullIsNothing
<1>3. List(<<d, e>>).count = 2 /\ List(<<d, e>>).items = <<d, e>>
  BY DEF List
<1>4. 1..2 = {1, 2}
  OBVIOUS
<1> QED BY <1>2, <1>3, <1>4 DEF Listed

LEMMA ListOfNone == NoList.count = 0 /\ Listed(NoList)
  BY DEF NoList, Listed

\* The links of the tables are ones the validation lets pass.
LEMMA Links ==
  ASSUME NullIsNothing, NEW d \in TableTexts, NEW n \in Nat \ {0}
  PROVE  /\ ValidMcu(UartCfg(d, n, 8, 1, "N")) /\ ValidMcu(CanCfg(d, n))
         /\ ValidSatellite(CanCfg(d, n))
         /\ \A a \in 0..31 : ValidSatellite(Mil1553bCfg(d, a))
<1>1. Named(d)
  BY Texts
<1>2. ValidUart(UartCfg(d, n, 8, 1, "N")) /\ UartCfg(d, n, 8, 1, "N").type = "UART"
  <2>1. LET c == UartCfg(d, n, 8, 1, "N") IN
        /\ c.type = "UART" /\ c.device = d /\ c.baudrate = n
        /\ c.data_bits = 8 /\ c.stop_bits = 1 /\ c.parity = "N"
    BY DEF UartCfg
  <2>2. n # 0 /\ 8 \in 5..8 /\ 1 \in 1..2
    OBVIOUS
  <2> QED BY <1>1, <2>1, <2>2 DEF ValidUart
<1>3. ValidCan(CanCfg(d, n)) /\ CanCfg(d, n).type = "CAN"
  BY <1>1 DEF CanCfg, ValidCan
<1>4. ASSUME NEW a \in 0..31
      PROVE  ValidSatellite(Mil1553bCfg(d, a))
  <2>1. LET c == Mil1553bCfg(d, a) IN c.type = "1553B" /\ c.device = d /\ c.rt_address = a
    BY DEF Mil1553bCfg
  <2>2. a <= 31
    OBVIOUS
  <2> QED BY <1>1, <2>1, <2>2 DEF ValidSatellite
<1> QED BY <1>2, <1>3, <1>4 DEF ValidMcu, ValidSatellite

\* And so are the channels of its BMC.
LEMMA Channels ==
  ASSUME NullIsNothing, NEW n, NEW k
  PROVE  ValidBmc(Bmc(n, IpmiLan("eth0", "192.168.1.100", 623), IpmiSerial("/dev/ttyS2", 115200), k))
<1> DEFINE p == IpmiLan("eth0", "192.168.1.100", 623)
           s == IpmiSerial("/dev/ttyS2", 115200)
<1>1. Named("eth0") /\ Named("192.168.1.100") /\ Named("/dev/ttyS2")
  BY Texts DEF TableTexts
<1>2. /\ p.protocol = "IPMI" /\ p.interface = "eth0" /\ p.ip_addr = "192.168.1.100"
      /\ p.port = 623
  BY DEF IpmiLan
<1>3. s.device = "/dev/ttyS2" /\ s.baudrate = 115200
  BY DEF IpmiSerial
<1>4. Bmc(n, p, s, k).primary_channel = p /\ Bmc(n, p, s, k).backup_channel = s
  BY DEF Bmc
<1> HIDE DEF p, s
<1>5. ValidBmc(Bmc(n, p, s, k))
  <2> DEFINE b == Bmc(n, p, s, k)
  <2>1. b.primary_channel = p /\ b.backup_channel = s
    BY <1>4
  <2> HIDE DEF b
  <2>2. ValidBmc(b)
    BY <1>1, <1>2, <1>3, <2>1 DEF ValidBmc
  <2> QED BY <2>2 DEF b
<1> QED BY <1>5 DEF p, s

\* The tables of the base.
LEMMA BaseValid ==
  ASSUME NullIsNothing
  PROVE  Validate(H200Base)
<1>1. Listed(H200Base.mcus) /\ \A i \in 1..H200Base.mcus.count :
        ValidMcu(H200Base.mcus.items[i].interface)
  <2> DEFINE d == Peripheral("stm32_mcu", UartCfg("/dev/ttyS1", 115200, 8, 1, "N"))
  <2>1. H200Base.mcus = List(<<d>>)
    BY DEF H200Base, Board, H200BaseDevices, H200BaseMcus
  <2>2. d # Null /\ Named(d.name) /\ ValidMcu(d.interface)
    BY Peripherals, Links DEF TableTexts
  <2> HIDE DEF d
  <2> QED BY <2>1, <2>2, ListOfOne
<1>2. Listed(H200Base.bmcs) /\ \A i \in 1..H200Base.bmcs.count : ValidBmc(H200Base.bmcs.items[i])
  <2> DEFINE d == Bmc("payload_bmc", IpmiLan("eth0", "192.168.1.100", 623),
                      IpmiSerial("/dev/ttyS2", 115200), 5)
  <2>1. H200Base.bmcs = List(<<d>>)
    BY DEF H200Base, Board, H200BaseDevices, H200BaseBmcs
  <2>2. d # Null /\ Named(d.name) /\ ValidBmc(d)
    BY Bmcs, Channels DEF TableTexts
  <2> HIDE DEF d
  <2> QED BY <2>1, <2>2, ListOfOne
<1>3. Listed(H200Base.satellites) /\ \A i \in 1..H200Base.satellites.count :
        ValidSatellite(H200Base.satellites.items[i].interface)
  <2> DEFINE d == Peripheral("satellite_platform", CanCfg("can0", 500000))
  <2>1. H200Base.satellites = List(<<d>>)
    BY DEF H200Base, Board, H200BaseDevices, H200BaseSatellites
  <2>2. d # Null /\ Named(d.name) /\ ValidSatellite(d.interface)
    BY Peripherals, Links DEF TableTexts
  <2> HIDE DEF d
  <2> QED BY <2>1, <2>2, ListOfOne
<1>4. Listed(H200Base.sensors)
  <2> DEFINE d == Peripheral("board_temp", I2cCfg("/dev/i2c-1", 72, 400000))
  <2>1. H200Base.sensors = List(<<d>>)
    BY DEF H200Base, Board, H200BaseDevices, H200BaseSensors
  <2>2. d # Null /\ Named(d.name)
    BY Peripherals DEF TableTexts
  <2> HIDE DEF d
  <2> QED BY <2>1, <2>2, ListOfOne
<1>5. Listed(H200Base.storages) /\ Listed(H200Base.power_domains)
  <2> DEFINE s == Storage("emmc_storage", "/dev/mmcblk0")
             p == Power("payload_power", 12000, 100)
             q == Power("sensor_power", 3300, 50)
  <2>1. H200Base.storages = List(<<s>>) /\ H200Base.power_domains = List(<<p, q>>)
    BY DEF H200Base, Board, H200BaseDevices, H200BaseStorages, H200BasePower
  <2>2. /\ s # Null /\ Named(s.name) /\ p # Null /\ Named(p.name)
        /\ q # Null /\ Named(q.name)
    BY Others DEF TableTexts
  <2> HIDE DEF s, p, q
  <2> QED BY <2>1, <2>2, ListOfOne, ListOfTwo
<1>6. Listed(H200Base.apps) /\ \A i \in 1..H200Base.apps.count :
        H200Base.apps.items[i].mappings.items # Null
  <2> DEFINE l == List(<<Mapping("satellite_comm", "SATELLITE", 0, TRUE),
                         Mapping("aux_control", "MCU", 0, FALSE)>>)
             m == List(<<Mapping("satellite_comm", "SATELLITE", 0, FALSE),
                         Mapping("payload_comm", "BMC", 0, FALSE)>>)
             a == App("can_gateway", l)
             b == App("protocol_converter", m)
  <2>1. H200Base.apps = List(<<a, b>>)
    BY DEF H200Base, Board, H200BaseApps
  <2>2. l.items # Null /\ m.items # Null
    BY ListOfTwo
  <2> HIDE DEF l, m
  <2>3. /\ a # Null /\ Named(a.name) /\ a.mappings = l
        /\ b # Null /\ Named(b.name) /\ b.mappings = m
    BY Others DEF TableTexts
  <2> HIDE DEF a, b
  <2> QED BY <2>1, <2>2, <2>3, ListOfTwo
<1>7. Named(H200Base.platform) /\ Named(H200Base.product) /\ Named(H200Base.version)
  BY Texts DEF H200Base, Board, TableTexts
<1> HIDE DEF H200Base
<1> QED BY <1>1, <1>2, <1>3, <1>4, <1>5, <1>6, <1>7 DEF Validate

\* What the applications of versions 1.0 and 2.0 use.
V1Mappings ==
  <<Mapping("satellite_comm", "SATELLITE", 0, TRUE),
    Mapping("satellite_comm_backup", "SATELLITE", 1, FALSE),
    Mapping("aux_control", "MCU", 0, FALSE),
    Mapping("aux_control_backup", "MCU", 1, FALSE)>>
V2Mappings ==
  <<Mapping("satellite_comm", "SATELLITE", 0, FALSE),
    Mapping("payload_comm", "BMC", 0, FALSE),
    Mapping("position_sensor", "SENSOR", 0, FALSE)>>

\* The tables of version 1.0.
LEMMA V1Valid ==
  ASSUME NullIsNothing
  PROVE  Validate(H200V1)
<1>1. Listed(H200V1.mcus) /\ \A i \in 1..H200V1.mcus.count :
        ValidMcu(H200V1.mcus.items[i].interface)
  <2> DEFINE d == Peripheral("backup_mcu", CanCfg("can1", 500000))
  <2>1. H200V1.mcus = List(<<d>>)
    BY DEF H200V1, Board, H200V1Devices, H200V1Mcus
  <2>2. d # Null /\ Named(d.name) /\ ValidMcu(d.interface)
    BY Peripherals, Links DEF TableTexts
  <2> HIDE DEF d
  <2> QED BY <2>1, <2>2, ListOfOne
<1>2. H200V1.bmcs = NoList /\ H200V1.storages = NoList
  BY DEF H200V1, Board, H200V1Devices
<1>3. Listed(H200V1.satellites) /\ \A i \in 1..H200V1.satellites.count :
        ValidSatellite(H200V1.satellites.items[i].interface)
  <2> DEFINE d == Peripheral("satellite_backup", CanCfg("can2", 500000))
  <2>1. H200V1.satellites = List(<<d>>)
    BY DEF H200V1, Board, H200V1Devices, H200V1Satellites
  <2>2. d # Null /\ Named(d.name) /\ ValidSatellite(d.interface)
    BY Peripherals, Links DEF TableTexts
  <2> HIDE DEF d
  <2> QED BY <2>1, <2>2, ListOfOne
<1>4. Listed(H200V1.sensors) /\ Listed(H200V1.power_domains)
  <2> DEFINE g == Peripheral("board_gyro", I2cCfg("/dev/i2c-1", 104, 400000))
             a == Peripheral("board_accel", I2cCfg("/dev/i2c-1", 104, 400000))
             p == Power("imu_power", 3300, 100)
  <2>1. H200V1.sensors = List(<<g, a>>) /\ H200V1.power_domains = List(<<p>>)
    BY DEF H200V1, Board, H200V1Devices, H200V1Sensors, H200V1Power
  <2>2. g # Null /\ Named(g.name) /\ a # Null /\ Named(a.name)
    BY Peripherals DEF TableTexts
  <2>3. p # Null /\ Named(p.name)
    BY Others DEF TableTexts
  <2> HIDE DEF g, a, p
  <2> QED BY <2>1, <2>2, <2>3, ListOfOne, ListOfTwo
<1>5. Listed(H200V1.apps) /\ \A i \in 1..H200V1.apps.count :
        H200V1.apps.items[i].mappings.items # Null
  <2> DEFINE l == List(V1Mappings)
             a == App("can_gateway", l)
  <2>1. H200V1.apps = List(<<a>>)
    BY DEF H200V1, Board, H200V1Apps, V1Mappings
  <2>2. l.items = V1Mappings
    BY DEF List
  <2>3. V1Mappings = [i \in DOMAIN V1Mappings |-> V1Mappings[i]]
    BY DEF V1Mappings
  <2>4. l.items # Null
    BY <2>2, <2>3 DEF NullIsNothing
  <2> HIDE DEF l
  <2>5. a # Null /\ Named(a.name) /\ a.mappings = l
    BY Others DEF TableTexts
  <2> HIDE DEF a
  <2> QED BY <2>1, <2>4, <2>5, ListOfOne
<1>6. Named(H200V1.platform) /\ Named(H200V1.product) /\ Named(H200V1.version)
  BY Texts DEF H200V1, Board, TableTexts
<1>7. 1..0 = {}
  OBVIOUS
<1> HIDE DEF H200V1
<1> QED BY <1>1, <1>2, <1>3, <1>4, <1>5, <1>6, <1>7, ListOfNone DEF Validate

\* The tables of version 2.0.
LEMMA V2Valid ==
  ASSUME NullIsNothing
  PROVE  Validate(H200V2)
<1>1. H200V2.mcus = NoList
  BY DEF H200V2, Board, H200V2Devices
<1>2. Listed(H200V2.bmcs) /\ \A i \in 1..H200V2.bmcs.count : ValidBmc(H200V2.bmcs.items[i])
  <2> DEFINE d == Bmc("payload_bmc_v2", IpmiLan("eth0", "192.168.1.100", 623),
                      IpmiSerial("/dev/ttyS2", 115200), 5)
  <2>1. H200V2.bmcs = List(<<d>>)
    BY DEF H200V2, Board, H200V2Devices, H200V2Bmcs
  <2>2. d # Null /\ Named(d.name) /\ ValidBmc(d)
    BY Bmcs, Channels DEF TableTexts
  <2> HIDE DEF d
  <2> QED BY <2>1, <2>2, ListOfOne
<1>3. Listed(H200V2.satellites) /\ \A i \in 1..H200V2.satellites.count :
        ValidSatellite(H200V2.satellites.items[i].interface)
  <2> DEFINE d == Peripheral("satellite_1553b", Mil1553bCfg("/dev/mil1553b0", 5))
  <2>1. H200V2.satellites = List(<<d>>)
    BY DEF H200V2, Board, H200V2Devices, H200V2Satellites
  <2>2. d # Null /\ Named(d.name) /\ d.interface = Mil1553bCfg("/dev/mil1553b0", 5)
    BY Peripherals DEF TableTexts
  <2>3. 5 \in 0..31 /\ 1 \in Nat \ {0} /\ "/dev/mil1553b0" \in TableTexts
    BY DEF TableTexts
  <2>4. ValidSatellite(d.interface)
    BY <2>2, <2>3, Links
  <2> HIDE DEF d
  <2> QED BY <2>1, <2>2, <2>4, ListOfOne
<1>4. Listed(H200V2.sensors) /\ Listed(H200V2.storages)
  <2> DEFINE d == Peripheral("board_gps", UartCfg("/dev/ttyS3", 9600, 8, 1, "N"))
             s == Storage("nvme_storage", "/dev/nvme0n1")
  <2>1. H200V2.sensors = List(<<d>>) /\ H200V2.storages = List(<<s>>)
    BY DEF H200V2, Board, H200V2Devices, H200V2Sensors, H200V2Storages
  <2>2. d # Null /\ Named(d.name)
    BY Peripherals DEF TableTexts
  <2>3. s # Null /\ Named(s.name)
    BY Others DEF TableTexts
  <2> HIDE DEF d, s
  <2> QED BY <2>1, <2>2, <2>3, ListOfOne
<1>5. Listed(H200V2.power_domains)
  <2> DEFINE p == Power("gps_power", 3300, 200)
             q == Power("nvme_power", 3300, 500)
  <2>1. H200V2.power_domains = List(<<p, q>>)
    BY DEF H200V2, Board, H200V2Devices, H200V2Power
  <2>2. p # Null /\ Named(p.name) /\ q # Null /\ Named(q.name)
    BY Others DEF TableTexts
  <2> HIDE DEF p, q
  <2> QED BY <2>1, <2>2, ListOfTwo
<1>6. Listed(H200V2.apps) /\ \A i \in 1..H200V2.apps.count :
        H200V2.apps.items[i].mappings.items # Null
  <2> DEFINE l == List(V2Mappings)
             a == App("protocol_converter", l)
  <2>1. H200V2.apps = List(<<a>>)
    BY DEF H200V2, Board, H200V2Apps, V2Mappings
  <2>2. l.items = V2Mappings
    BY DEF List
  <2>3. V2Mappings = [i \in DOMAIN V2Mappings |-> V2Mappings[i]]
    BY DEF V2Mappings
  <2>4. l.items # Null
    BY <2>2, <2>3 DEF NullIsNothing
  <2> HIDE DEF l
  <2>5. a # Null /\ Named(a.name) /\ a.mappings = l
    BY Others DEF TableTexts
  <2> HIDE DEF a
  <2> QED BY <2>1, <2>4, <2>5, ListOfOne
<1>7. Named(H200V2.platform) /\ Named(H200V2.product) /\ Named(H200V2.version)
  BY Texts DEF H200V2, Board, TableTexts
<1>8. 1..0 = {}
  OBVIOUS
<1> HIDE DEF H200V2
<1> QED BY <1>1, <1>2, <1>3, <1>4, <1>5, <1>6, <1>7, <1>8, ListOfNone DEF Validate

-----------------------------------------------------------------------------
(* What the applications of the tables find.                               *)

\* Functions tell the mappings of l apart, and what is required of b is there.
ClearMappings(b, l) ==
  /\ \A i, j \in 1..l.count : l.items[i].function = l.items[j].function => i = j
  /\ \A k \in 1..l.count : l.items[k].required => AppGetDeviceByMapping(b, l.items[k]) # Null

\* When names tell the applications apart, and functions the mappings of one, each
\* is found, and it is enough that what is required is there.
LEMMA ResolvesWhen ==
  ASSUME NEW b, b.apps.count \in Nat,
         \A i, j \in 1..b.apps.count : b.apps.items[i].name = b.apps.items[j].name => i = j,
         \A a \in 1..b.apps.count :
           b.apps.items[a].mappings.count \in Nat /\ ClearMappings(b, b.apps.items[a].mappings)
  PROVE  Resolves(b)
<1>1. ASSUME NEW l, NEW i \in Nat
      PROVE  FirstOf(l, {i}) = l.items[i]
  <2>1. (CHOOSE k \in {i} : \A j \in {i} : k <= j) = i
    OBVIOUS
  <2> QED BY <2>1 DEF FirstOf
<1> USE DEF ClearMappings
<1> SUFFICES ASSUME NEW a \in 1..b.apps.count
             PROVE  LET app == AppFind(b, b.apps.items[a].name) IN
                    \A k \in 1..app.mappings.count :
                      LET m == AppFindDevice(app, app.mappings.items[k].function) IN
                      m.required => AppGetDeviceByMapping(b, m) # Null
  BY DEF Resolves
<1>2. AppFind(b, b.apps.items[a].name) = b.apps.items[a]
  <2>1. {i \in 1..b.apps.count : b.apps.items[i].name = b.apps.items[a].name} = {a}
    OBVIOUS
  <2>2. a \in Nat
    OBVIOUS
  <2> QED BY <1>1, <2>1, <2>2 DEF AppFind, ByName
<1>3. PICK app : app = b.apps.items[a]
  OBVIOUS
<1>4. ASSUME NEW k \in 1..app.mappings.count
      PROVE  AppFindDevice(app, app.mappings.items[k].function) = app.mappings.items[k]
  <2>1. {i \in 1..app.mappings.count :
           app.mappings.items[i].function = app.mappings.items[k].function} = {k}
    BY <1>3
  <2>2. k \in Nat
    BY <1>3
  <2> QED BY <1>1, <2>1, <2>2 DEF AppFindDevice
<1> QED BY <1>2, <1>3, <1>4

\* The device a mapping names when that is a satellite interface.
LEMMA FirstSatellite ==
  ASSUME NEW b, b.satellites.count = 1, b.satellites.items[1] # Null,
         NEW m, m.device_type = "SATELLITE", m.device_id = 0
  PROVE  AppGetDeviceByMapping(b, m) # Null
<1>1. AppGetDeviceByMapping(b, m) = HwGetSatellite(b, 0)
  BY DEF AppGetDeviceByMapping
<1>2. HwGetSatellite(b, 0) = b.satellites.items[1]
  BY DEF HwGetSatellite, ById
<1> QED BY <1>1, <1>2

\* The applications of this repository find the devices they require.
LEMMA TablesResolve ==
  ASSUME NullIsNothing
  PROVE  Resolves(H200Base) /\ Resolves(H200V1) /\ Resolves(H200V2)
<1>1. Resolves(H200Base)
  <2> DEFINE m1 == Mapping("satellite_comm", "SATELLITE", 0, TRUE)
             m2 == Mapping("aux_control", "MCU", 0, FALSE)
             n1 == Mapping("satellite_comm", "SATELLITE", 0, FALSE)
             n2 == Mapping("payload_comm", "BMC", 0, FALSE)
             l == List(<<m1, m2>>)
             m == List(<<n1, n2>>)
             a == App("can_gateway", l)
             c == App("protocol_converter", m)
             d == Peripheral("satellite_platform", CanCfg("can0", 500000))
  <2>1. H200Base.apps = List(<<a, c>>) /\ H200Base.satellites = List(<<d>>)
    BY DEF H200Base, Board, H200BaseDevices, H200BaseSatellites, H200BaseApps
  <2>2. d # Null
    BY Peripherals DEF TableTexts
  <2> HIDE DEF d
  <2>3. a.name = "can_gateway" /\ a.mappings = l /\ c.name = "protocol_converter" /\ c.mappings = m
    BY DEF App
  <2> HIDE DEF a, c
  <2>5. /\ m1.function = "satellite_comm" /\ m1.device_type = "SATELLITE" /\ m1.device_id = 0
        /\ m2.function = "aux_control" /\ ~m2.required
        /\ n1.function = "satellite_comm" /\ ~n1.required
        /\ n2.function = "payload_comm" /\ ~n2.required
    BY DEF Mapping
  <2> HIDE DEF m1, m2, n1, n2
  <2>4. /\ l.count = 2 /\ l.items[1] = m1 /\ l.items[2] = m2
        /\ m.count = 2 /\ m.items[1] = n1 /\ m.items[2] = n2
        /\ 1..2 = {1, 2}
    BY ListOfTwo
  <2> HIDE DEF l, m
  <2> DEFINE B == H200Base
  <2>6. B.satellites.count = 1 /\ B.satellites.items[1] # Null
    BY <2>1, <2>2, ListOfOne
  <2>7. B.apps.count = 2 /\ B.apps.items[1] = a /\ B.apps.items[2] = c
    BY <2>1, ListOfTwo
  <2> HIDE DEF B
  <2>8. AppGetDeviceByMapping(B, m1) # Null
    BY <2>5, <2>6, FirstSatellite
  <2>9. \A i, j \in 1..B.apps.count : B.apps.items[i].name = B.apps.items[j].name => i = j
    BY <2>3, <2>4, <2>7
  <2>10. ClearMappings(B, l)
    BY <2>4, <2>5, <2>8 DEF ClearMappings
  <2>11. ClearMappings(B, m)
    BY <2>4, <2>5 DEF ClearMappings
  <2>12. \A e \in 1..B.apps.count :
           B.apps.items[e].mappings.count \in Nat /\ ClearMappings(B, B.apps.items[e].mappings)
    BY <2>3, <2>4, <2>7, <2>10, <2>11
  <2>13. B.apps.count \in Nat
    BY <2>7
  <2>14. Resolves(B)
    BY <2>9, <2>12, <2>13, ResolvesWhen
  <2> QED BY <2>14 DEF B
<1>2. Resolves(H200V1)
  <2> DEFINE l == List(V1Mappings)
             a == App("can_gateway", l)
             d == Peripheral("satellite_backup", CanCfg("can2", 500000))
  <2>1. H200V1.apps = List(<<a>>) /\ H200V1.satellites = List(<<d>>)
    BY DEF H200V1, Board, H200V1Devices, H200V1Satellites, H200V1Apps, V1Mappings
  <2>2. d # Null
    BY Peripherals DEF TableTexts
  <2> HIDE DEF d
  <2>3. a.mappings = l
    BY DEF App
  <2> HIDE DEF a
  <2>4. l.items = V1Mappings /\ l.count = 4
    BY DEF List, V1Mappings
  <2> HIDE DEF l
  <2>5. /\ V1Mappings[1].function = "satellite_comm" /\ V1Mappings[1].device_type = "SATELLITE"
        /\ V1Mappings[1].device_id = 0
        /\ V1Mappings[2].function = "satellite_comm_backup" /\ ~V1Mappings[2].required
        /\ V1Mappings[3].function = "aux_control" /\ ~V1Mappings[3].required
        /\ V1Mappings[4].function = "aux_control_backup" /\ ~V1Mappings[4].required
    BY DEF Mapping, V1Mappings
  <2> DEFINE B == H200V1
  <2>6. B.satellites.count = 1 /\ B.satellites.items[1] # Null
    BY <2>1, <2>2, ListOfOne
  <2>7. B.apps.count = 1 /\ B.apps.items[1] = a
    BY <2>1, ListOfOne
  <2> HIDE DEF B
  <2>8. AppGetDeviceByMapping(B, V1Mappings[1]) # Null
    BY <2>5, <2>6, FirstSatellite
  <2>9. 1..1 = {1} /\ 1..4 = {1, 2, 3, 4}
    OBVIOUS
  <2>10. ClearMappings(B, l)
    BY <2>4, <2>5, <2>8, <2>9 DEF ClearMappings
  <2>11. /\ \A i, j \in 1..B.apps.count : B.apps.items[i].name = B.apps.items[j].name => i = j
         /\ \A e \in 1..B.apps.count :
              B.apps.items[e].mappings.count \in Nat /\ ClearMappings(B, B.apps.items[e].mappings)
    BY <2>3, <2>4, <2>7, <2>9, <2>10
  <2>12. Resolves(B)
    BY <2>7, <2>11, ResolvesWhen
  <2> QED BY <2>12 DEF B
<1>3. Resolves(H200V2)
  <2> DEFINE l == List(V2Mappings)
             a == App("protocol_converter", l)
  <2>1. H200V2.apps = List(<<a>>)
    BY DEF H200V2, Board, H200V2Apps, V2Mappings
  <2>2. a.mappings = l
    BY DEF App
  <2> HIDE DEF a
  <2>3. l.items = V2Mappings /\ l.count = 3
    BY DEF List, V2Mappings
  <2> HIDE DEF l
  <2>4. /\ V2Mappings[1].function = "satellite_comm" /\ ~V2Mappings[1].required
        /\ V2Mappings[2].function = "payload_comm" /\ ~V2Mappings[2].required
        /\ V2Mappings[3].function = "position_sensor" /\ ~V2Mappings[3].required
    BY DEF Mapping, V2Mappings
  <2> DEFINE B == H200V2
  <2>5. B.apps.count = 1 /\ B.apps.items[1] = a
    BY <2>1, ListOfOne
  <2> HIDE DEF B
  <2>6. 1..1 = {1} /\ 1..3 = {1, 2, 3}
    OBVIOUS
  <2>7. ClearMappings(B, l)
    BY <2>3, <2>4, <2>6 DEF ClearMappings
  <2>8. /\ \A i, j \in 1..B.apps.count : B.apps.items[i].name = B.apps.items[j].name => i = j
        /\ \A e \in 1..B.apps.count :
             B.apps.items[e].mappings.count \in Nat /\ ClearMappings(B, B.apps.items[e].mappings)
    BY <2>2, <2>3, <2>5, <2>6, <2>7
  <2>9. Resolves(B)
    BY <2>5, <2>8, ResolvesWhen
  <2> QED BY <2>9 DEF B
<1> QED BY <1>1, <1>2, <1>3

-----------------------------------------------------------------------------
(* Those tables in the registry, and the board that is chosen.              *)

Tables == {H200Base, H200V1, H200V2}

LEMMA TablesAre ==
  ASSUME NullIsNothing
  PROVE  /\ DOMAIN AllConfigs = {1, 2, 3} /\ Len(AllConfigs) = 3
         /\ \A i \in {1, 2, 3} : AllConfigs[i] \in Tables
         /\ AllConfigs[1] = H200Base /\ AllConfigs[2] = H200V1 /\ AllConfigs[3] = H200V2
         /\ \A b \in Tables : /\ b # Null /\ b.version # Null
                              /\ Validate(b) /\ Resolves(b)
         /\ Tables \subseteq Boards
<1>1. /\ DOMAIN AllConfigs = {1, 2, 3} /\ Len(AllConfigs) = 3
      /\ AllConfigs[1] = H200Base /\ AllConfigs[2] = H200V1 /\ AllConfigs[3] = H200V2
  BY DEF AllConfigs
<1>2. \A b \in Tables : Validate(b) /\ Resolves(b)
  BY BaseValid, V1Valid, V2Valid, TablesResolve DEF Tables
<1>3. \A b \in Tables : b # Null
  <2>1. /\ H200Base = [x \in DOMAIN H200Base |-> H200Base[x]]
        /\ H200V1 = [x \in DOMAIN H200V1 |-> H200V1[x]]
        /\ H200V2 = [x \in DOMAIN H200V2 |-> H200V2[x]]
    BY DEF H200Base, H200V1, H200V2, Board
  <2> QED BY <2>1 DEF Tables, NullIsNothing
<1>4. \A b \in Tables : b.version # Null
  BY <1>2 DEF Validate, Named
<1> QED BY <1>1, <1>2, <1>3, <1>4 DEF Tables, Boards

\* A board found in the registry is one of its boards.
LEMMA FoundIsRegistered ==
  ASSUME NEW r, Sound(r), NEW q, FindIn(r, q) # Null
  PROVE  \E i \in 1..Len(r) : FindIn(r, q) = r[i]
<1> DEFINE I == {i \in 1..Len(r) : Matches(r[i], q)}
<1>1. r \in Seq(Boards) /\ Len(r) \in Nat
  BY DEF Sound
<1>2. FindIn(r, q) = FirstOf(List(r), I) /\ List(r).items = r
  BY DEF FindIn, List
<1>3. I \subseteq Nat /\ I \subseteq 1..Len(r)
  BY <1>1
<1> HIDE DEF I
<1>4. I # {}
  BY <1>2 DEF FirstOf
<1> DEFINE R == OpToRel(<, Nat)
<1>5. IsWellFoundedOn(R, Nat) /\ \A x, y \in Nat : <<x, y>> \in R <=> x < y
  <2>1. \A x, y \in Nat : <<x, y>> \in R <=> x < y
    BY DEF OpToRel
  <2> QED BY <2>1, NatLessThanWellFounded
<1> HIDE DEF R
<1>6. \E i \in I : \A j \in I : i <= j
  <2>1. PICK i \in I : \A j \in I : <<j, i>> \notin R
    <3>1. IsWellFoundedOn(R, Nat) /\ I \subseteq Nat /\ I # {}
      BY <1>3, <1>4, <1>5
    <3> QED BY <3>1, WFMin
  <2>2. \A j \in I : ~(j < i) /\ i \in Nat /\ j \in Nat
    BY <1>3, <1>5, <2>1
  <2>3. \A j \in I : i <= j
    BY <2>2
  <2> QED BY <2>3
<1>7. (CHOOSE k \in I : \A j \in I : k <= j) \in I
  BY <1>6
<1>8. FindIn(r, q) = r[CHOOSE k \in I : \A j \in I : k <= j]
  BY <1>2, <1>4 DEF FirstOf
<1> QED BY <1>3, <1>7, <1>8

\* The board under the triple of a table is found by it.
LEMMA FoundByTriple ==
  ASSUME NEW r, Sound(r), NEW b, b.version # Null,
         NEW k \in 1..Len(r), SameTriple(r[k], b)
  PROVE  FindIn(r, [platform |-> b.platform, product |-> b.product, version |-> b.version]) = r[k]
<1> DEFINE q == [platform |-> b.platform, product |-> b.product, version |-> b.version]
<1>1. q.platform = b.platform /\ q.product = b.product /\ q.version = b.version
  OBVIOUS
<1> HIDE DEF q
<1>2. \A i \in 1..Len(r) : Matches(r[i], q) <=> SameTriple(r[i], b)
  BY <1>1 DEF Matches, SameTriple
<1>3. \A i \in 1..Len(r) : SameTriple(r[i], b) => i = k
  BY DEF Sound, SameTriple
<1>4. {i \in 1..Len(r) : Matches(r[i], q)} = {k} /\ k \in Nat
  BY <1>2, <1>3 DEF Sound
<1>5. (CHOOSE i \in {k} : \A j \in {k} : i <= j) = k
  BY <1>4
<1>6. FindIn(r, q) = r[k]
  BY <1>4, <1>5 DEF FindIn, FirstOf, List
<1> QED BY <1>6 DEF q

\* PCL_Register leaves what is there, and while there is room a valid board's triple
\* is there afterwards.
LEMMA RegisterAdds ==
  ASSUME NEW r, Sound(r), NEW b \in Boards, Validate(b)
  PROVE  LET s == Registered(r, b) IN
         /\ Len(r) <= Len(s) /\ Len(s) <= Len(r) + 1
         /\ \A i \in 1..Len(r) : i \in 1..Len(s) /\ s[i] = r[i]
         /\ Len(r) < PclMax => \E k \in 1..Len(s) : SameTriple(s[k], b)
<1>1. r \in Seq(Boards) /\ Len(r) \in Nat
  BY DEF Sound
<1>2. CASE Len(r) < PclMax /\ \A i \in 1..Len(r) : ~SameTriple(r[i], b)
  <2> DEFINE s == Append(r, b)
  <2>1. Registered(r, b) = s
    BY <1>2 DEF Registered
  <2>2. Len(s) = Len(r) + 1 /\ s[Len(r) + 1] = b /\ \A i \in 1..Len(r) : s[i] = r[i]
    BY <1>1
  <2> HIDE DEF s
  <2>3. Len(r) + 1 \in 1..Len(s) /\ SameTriple(s[Len(r) + 1], b)
    BY <1>1, <2>2 DEF SameTriple
  <2>4. Len(r) <= Len(s) /\ Len(s) <= Len(r) + 1 /\ \A i \in 1..Len(r) : i \in 1..Len(s)
    BY <1>1, <2>2
  <2> QED BY <2>1, <2>2, <2>3, <2>4
<1>3. CASE ~(Len(r) < PclMax /\ \A i \in 1..Len(r) : ~SameTriple(r[i], b))
  <2>1. Registered(r, b) = r
    BY <1>3 DEF Registered
  <2>2. Len(r) < PclMax => \E k \in 1..Len(r) : SameTriple(r[k], b)
    BY <1>3
  <2>3. Len(r) <= Len(r) /\ Len(r) <= Len(r) + 1
    BY <1>1
  <2> QED BY <2>1, <2>2, <2>3
<1> QED BY <1>2, <1>3

\* Every table has a board under its triple.
AllThere(r) == \A b \in Tables : \E k \in 1..Len(r) : SameTriple(r[k], b)

LEMMA RegisterKeepsAll ==
  ASSUME NEW r, Sound(r), AllThere(r), NEW b \in Boards
  PROVE  AllThere(Registered(r, b))
<1>1. CASE Validate(b)
  <2>1. \A i \in 1..Len(r) : i \in 1..Len(Registered(r, b)) /\ Registered(r, b)[i] = r[i]
    BY <1>1, RegisterAdds
  <2> QED BY <2>1 DEF AllThere
<1>2. CASE ~Validate(b)
  BY <1>2 DEF Registered
<1> QED BY <1>1, <1>2

LEMMA RegisterAllAdds ==
  ASSUME NullIsNothing, NEW r, Sound(r),
         AllThere(r) \/ Len(r) + 3 <= PclMax
  PROVE  AllThere(RegisteredAll(r))
<1> DEFINE r1 == Registered(r, H200Base)
           r2 == Registered(r1, H200V1)
           r3 == Registered(r2, H200V2)
<1>1. H200Base \in Boards /\ H200V1 \in Boards /\ H200V2 \in Boards
  BY DEF Boards
<1>2. Validate(H200Base) /\ Validate(H200V1) /\ Validate(H200V2)
  BY BaseValid, V1Valid, V2Valid
<1>3. RegisteredAll(r) = r3
  BY TablesAre DEF RegisteredAll
<1>4. Sound(r1) /\ Sound(r2) /\ Sound(r3)
  BY <1>1, RegisterKeeps
<1>5. CASE AllThere(r)
  <2>1. AllThere(r1)
    BY <1>1, <1>5, RegisterKeepsAll
  <2> HIDE DEF r1
  <2>2. AllThere(r2)
    BY <1>1, <1>4, <2>1, RegisterKeepsAll
  <2> HIDE DEF r2
  <2>3. AllThere(r3)
    BY <1>1, <1>4, <2>2, RegisterKeepsAll
  <2> QED BY <1>3, <2>3
<1>6. CASE Len(r) + 3 <= PclMax
  <2>1. /\ Len(r1) <= Len(r) + 1
        /\ Len(r) < PclMax => \E k \in 1..Len(r1) : SameTriple(r1[k], H200Base)
    BY <1>1, <1>2, RegisterAdds
  <2> HIDE DEF r1
  <2>2. /\ Len(r2) <= Len(r1) + 1
        /\ \A i \in 1..Len(r1) : i \in 1..Len(r2) /\ r2[i] = r1[i]
        /\ Len(r1) < PclMax => \E k \in 1..Len(r2) : SameTriple(r2[k], H200V1)
    BY <1>1, <1>2, <1>4, RegisterAdds
  <2> HIDE DEF r2
  <2>3. /\ \A i \in 1..Len(r2) : i \in 1..Len(r3) /\ r3[i] = r2[i]
        /\ Len(r2) < PclMax => \E k \in 1..Len(r3) : SameTriple(r3[k], H200V2)
    BY <1>1, <1>2, <1>4, RegisterAdds
  <2> HIDE DEF r3
  <2>4. Len(r) \in Nat /\ Len(r1) \in Nat /\ Len(r2) \in Nat /\ PclMax \in Nat
    BY <1>4, PclAssumption DEF Sound
  <2>5. Len(r) < PclMax /\ Len(r1) < PclMax /\ Len(r2) < PclMax
    BY <1>6, <2>1, <2>2, <2>4
  <2>6. PICK i1 \in 1..Len(r1) : SameTriple(r1[i1], H200Base)
    BY <2>1, <2>5
  <2>7. PICK i2 \in 1..Len(r2) : SameTriple(r2[i2], H200V1)
    BY <2>2, <2>5
  <2>8. PICK i3 \in 1..Len(r3) : SameTriple(r3[i3], H200V2)
    BY <2>3, <2>5
  <2>9. i1 \in 1..Len(r3) /\ SameTriple(r3[i1], H200Base)
    BY <2>2, <2>3, <2>6
  <2>10. i2 \in 1..Len(r3) /\ SameTriple(r3[i2], H200V1)
    BY <2>3, <2>7
  <2>11. AllThere(r3)
    BY <2>8, <2>9, <2>10 DEF AllThere, Tables
  <2> QED BY <1>3, <2>11
<1> QED BY <1>5, <1>6

\* What PclShipped needs besides a sound registry.
ShippedInv ==
  /\ RegistryInv
  /\ pclInitialized \in BOOLEAN /\ pclAll \in BOOLEAN
  /\ pclChosen # Null => Validate(pclChosen)
  /\ pclAll => pclInitialized /\ AllThere(pclRegistry)

LEMMA ShippedStep ==
  ASSUME NullIsNothing
  PROVE  ShippedInv /\ [PclNext]_pclVars => ShippedInv'
<1> SUFFICES ASSUME ShippedInv, [PclNext]_pclVars PROVE ShippedInv'
  OBVIOUS
<1>0. RegistryInv'
  BY RegistryStep DEF ShippedInv
<1>1. CASE PclStart
  BY <1>0, <1>1 DEF PclStart, ShippedInv
<1>2. CASE PclCleanup
  BY <1>0, <1>2 DEF PclCleanup, ShippedInv
<1>3. CASE PclRegisterAll
  <2>1. /\ pclInitialized /\ pclInitialized' = pclInitialized /\ pclChosen' = pclChosen
        /\ pclRegistry' = RegisteredAll(pclRegistry)
        /\ pclAll' = (pclAll \/ Len(pclRegistry) + Len(AllConfigs) <= PclMax)
    BY <1>3 DEF PclRegisterAll
  <2>2. pclAll' => AllThere(pclRegistry) \/ Len(pclRegistry) + 3 <= PclMax
    BY <2>1, TablesAre DEF ShippedInv
  <2>3. pclAll' => AllThere(RegisteredAll(pclRegistry))
    BY <2>2, RegisterAllAdds DEF ShippedInv, RegistryInv
  <2>4. pclAll' \in BOOLEAN
    BY <2>1
  <2> QED BY <1>0, <2>1, <2>3, <2>4 DEF ShippedInv
<1>4. ASSUME NEW b \in PclOffered, PclRegister(b) PROVE ShippedInv'
  <2>1. /\ pclInitialized /\ pclInitialized' = pclInitialized /\ pclChosen' = pclChosen
        /\ pclRegistry' = Registered(pclRegistry, b) /\ pclAll' = pclAll
    BY <1>4 DEF PclRegister
  <2>2. pclAll => AllThere(Registered(pclRegistry, b))
    BY RegisterKeepsAll DEF ShippedInv, RegistryInv, Boards
  <2> QED BY <1>0, <2>1, <2>2 DEF ShippedInv
<1>5. ASSUME NEW q \in PclEnvs, PclSelect(q) PROVE ShippedInv'
  <2>1. pclChosen' = SelectDefault(q) /\ UNCHANGED <<pclInitialized, pclRegistry, pclAll>>
    BY <1>5 DEF PclSelect
  <2>2. \A p : Find(p) # Null => Validate(Find(p))
    <3> SUFFICES ASSUME NEW p, Find(p) # Null PROVE Validate(Find(p))
      OBVIOUS
    <3>1. Find(p) = FindIn(pclRegistry, p)
      BY DEF Find
    <3>2. PICK i \in 1..Len(pclRegistry) : Find(p) = pclRegistry[i]
      BY <3>1, FoundIsRegistered DEF ShippedInv, RegistryInv
    <3> QED BY <3>2 DEF ShippedInv, RegistryInv, Sound
  <2>3. Validate(SelectDefault(q))
    BY <2>2, TablesAre, BaseValid DEF SelectDefault
  <2> QED BY <1>0, <2>1, <2>3 DEF ShippedInv
<1>6. CASE UNCHANGED pclVars
  BY <1>0, <1>6 DEF pclVars, ShippedInv
<1> QED BY <1>1, <1>2, <1>3, <1>4, <1>5, <1>6 DEF PclNext

\* A board a program offers under the triple of a table does not hide it from the
\* applications: if it is valid, it has what they require.
StandInsResolve ==
  \A b \in PclOffered :
    Validate(b) /\ (\E t \in Tables : SameTriple(b, t)) => Resolves(b)

\* pcl_register.c:48-72: the tables of this repository pass the validation, so that
\* RegisterAll never drops one while there is room, whatever else is registered
\* before and after; each is found under its triple, and what its applications
\* require is there. The board a program starts with is valid, even when nothing is
\* registered.
THEOREM PclShippedAlways ==
  ASSUME NullIsNothing, StandInsResolve
  PROVE  PclSpec => []PclShipped
<1>1. PclInit => ShippedInv
  <2>1. Sound(<<>>)
    BY PclAssumption DEF Sound
  <2> QED BY <2>1 DEF PclInit, ShippedInv, RegistryInv
<1>2. ShippedInv => PclShipped
  <2> SUFFICES ASSUME ShippedInv PROVE PclShipped
    OBVIOUS
  <2> DEFINE r == pclRegistry
  <2>1. Sound(r) /\ r \in Seq(Boards) /\ Len(r) \in Nat /\ Len(r) <= PclMax /\ PclMax \in Nat
    BY PclAssumption DEF ShippedInv, RegistryInv, Sound
  <2>2. ListBoards(PclMax) = r
    <3>1. (IF Len(r) < PclMax THEN Len(r) ELSE PclMax) = Len(r)
      BY <2>1
    <3>2. SubSeq(r, 1, Len(r)) = r
      BY <2>1
    <3> QED BY <3>1, <3>2 DEF ListBoards
  <2>3. ASSUME pclAll, NEW i \in DOMAIN AllConfigs
        PROVE  LET b == AllConfigs[i]
                   listed == ListBoards(PclMax)
                   f == Find([platform |-> b.platform, product |-> b.product,
                              version |-> b.version])
               IN
               /\ f # Null
               /\ \E k \in DOMAIN listed : SameTriple(listed[k], b)
               /\ Resolves(f)
    <3>1. PICK b \in Tables : b = AllConfigs[i]
      BY TablesAre
    <3>2. PICK k \in 1..Len(r) : SameTriple(r[k], b)
      BY <2>3 DEF ShippedInv, AllThere
    <3>3. b.version # Null
      BY TablesAre
    <3>4. Find([platform |-> b.platform, product |-> b.product, version |-> b.version]) = r[k]
      BY <2>1, <2>3, <3>2, <3>3, FoundByTriple DEF Find, ShippedInv
    <3>5. r[k] \in Boards /\ Validate(r[k]) /\ k \in DOMAIN r
      BY <2>1, <3>2 DEF Sound
    <3>6. r[k] # Null /\ Resolves(r[k])
      <4>1. CASE r[k] \in PclOffered
        BY <3>2, <3>5, <4>1, PclAssumption DEF StandInsResolve
      <4>2. CASE r[k] \in Tables
        BY <4>2, TablesAre
      <4> QED BY <3>5, <4>1, <4>2 DEF Boards, Tables
    <3> QED BY <2>2, <3>1, <3>2, <3>4, <3>5, <3>6
  <2>4. pclChosen # Null => Validate(pclChosen)
    BY DEF ShippedInv
  <2> QED BY <2>3, <2>4 DEF PclShipped
<1> QED BY <1>1, ShippedStep, <1>2, PTL DEF PclSpec
=============================================================================
