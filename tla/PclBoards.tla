----------------------------- MODULE PclBoards -----------------------------
(***************************************************************************)
(* The board configurations of PCL, pcl/include/ and pcl/platform/: what   *)
(* the validation, the queries and the drivers look at.  Descriptions,     *)
(* GPIOs, passwords, and the parameters of an application are left out.    *)
(*                                                                         *)
(* A list is an array and a count; Null is a NULL pointer.                 *)
(***************************************************************************)
EXTENDS Naturals, Sequences, TLC

CONSTANT Null

List(s) == [items |-> s, count |-> Len(s)]
NoList == [items |-> Null, count |-> 0]

-----------------------------------------------------------------------------
(* pcl_hardware_interface.h and pcl_bmc.h: how a device is reached.        *)

CanCfg(dev, rate) == [type |-> "CAN", device |-> dev, bitrate |-> rate]

UartCfg(dev, rate, data, stop, parity) ==
  [type |-> "UART", device |-> dev, baudrate |-> rate,
   data_bits |-> data, stop_bits |-> stop, parity |-> parity]

I2cCfg(dev, addr, hz) ==
  [type |-> "I2C", device |-> dev, slave_addr |-> addr, speed_hz |-> hz]

SpiCfg(dev, hz, mode, bits) ==
  [type |-> "SPI", device |-> dev, speed_hz |-> hz, mode |-> mode, bits_per_word |-> bits]

SpacewireCfg(dev) == [type |-> "SPACEWIRE", device |-> dev]
Mil1553bCfg(dev, rt) == [type |-> "1553B", device |-> dev, rt_address |-> rt]

\* The two interfaces no device may have, and one that is not an interface.
OtherCfg == [t \in {"ETHERNET", "USB", "NONE"} |-> [type |-> t, device |-> "x"]]

IpmiLan(if, ip, port) ==
  [protocol |-> "IPMI", interface |-> if, ip_addr |-> ip, port |-> port]
Redfish(url) == [protocol |-> "REDFISH", base_url |-> url]
IpmiSerial(dev, rate) == [protocol |-> "IPMI", device |-> dev, baudrate |-> rate]

-----------------------------------------------------------------------------
(* The devices of a board, and what an application uses of them.           *)

\* A microcontroller, a satellite interface or a sensor.
Peripheral(name, cfg) == [name |-> name, enabled |-> TRUE, interface |-> cfg]

Bmc(name, primary, backup, failover) ==
  [name |-> name, enabled |-> TRUE, primary_channel |-> primary,
   backup_channel |-> backup, failover_threshold |-> failover]

Storage(name, path) == [name |-> name, enabled |-> TRUE, device_path |-> path]
Power(name, mv, ms) == [name |-> name, voltage_mv |-> mv, startup_delay_ms |-> ms]

Mapping(function, type, id, required) ==
  [function |-> function, device_type |-> type, device_id |-> id, required |-> required]
App(name, mappings) == [name |-> name, mappings |-> mappings]

\* The record of a board, and the same devices sold under another name.
Board(platform, product, version, devices, apps) ==
  [platform |-> platform, product |-> product, version |-> version,
   mcus |-> devices.mcus, bmcs |-> devices.bmcs, satellites |-> devices.satellites,
   sensors |-> devices.sensors, storages |-> devices.storages,
   power_domains |-> devices.power_domains, apps |-> apps]

-----------------------------------------------------------------------------
(* ti/am6254/H200_100P: the base.                                          *)

H200BaseMcus == List(<<
  Peripheral("stm32_mcu", UartCfg("/dev/ttyS1", 115200, 8, 1, "N"))>>)

H200BaseBmcs == List(<<
  Bmc("payload_bmc", IpmiLan("eth0", "192.168.1.100", 623),
      IpmiSerial("/dev/ttyS2", 115200), 5)>>)

H200BaseSatellites == List(<<Peripheral("satellite_platform", CanCfg("can0", 500000))>>)

H200BaseSensors == List(<<
  Peripheral("board_temp", I2cCfg("/dev/i2c-1", 72, 400000))>>)

H200BaseStorages == List(<<Storage("emmc_storage", "/dev/mmcblk0")>>)

H200BasePower == List(<<
  Power("payload_power", 12000, 100), Power("sensor_power", 3300, 50)>>)

H200BaseDevices ==
  [mcus |-> H200BaseMcus, bmcs |-> H200BaseBmcs, satellites |-> H200BaseSatellites,
   sensors |-> H200BaseSensors, storages |-> H200BaseStorages,
   power_domains |-> H200BasePower]

H200BaseApps == List(<<
  App("can_gateway", List(<<
    Mapping("satellite_comm", "SATELLITE", 0, TRUE),
    Mapping("aux_control", "MCU", 0, FALSE)>>)),
  App("protocol_converter", List(<<
    Mapping("satellite_comm", "SATELLITE", 0, FALSE),
    Mapping("payload_comm", "BMC", 0, FALSE)>>))>>)

H200Base == Board("ti/am6254", "H200_100P", "base", H200BaseDevices, H200BaseApps)

-----------------------------------------------------------------------------
(* ti/am6254/H200_100P: version 1.0, of which the comments say that the    *)
(* devices of the base are merged in at run time.  Nothing does.           *)

H200V1Mcus == List(<<Peripheral("backup_mcu", CanCfg("can1", 500000))>>)

H200V1Satellites == List(<<Peripheral("satellite_backup", CanCfg("can2", 500000))>>)

H200V1Sensors == List(<<
  Peripheral("board_gyro", I2cCfg("/dev/i2c-1", 104, 400000)),
  Peripheral("board_accel", I2cCfg("/dev/i2c-1", 104, 400000))>>)

H200V1Power == List(<<Power("imu_power", 3300, 100)>>)

H200V1Devices ==
  [mcus |-> H200V1Mcus, bmcs |-> NoList, satellites |-> H200V1Satellites,
   sensors |-> H200V1Sensors, storages |-> NoList, power_domains |-> H200V1Power]

H200V1Apps == List(<<
  App("can_gateway", List(<<
    Mapping("satellite_comm", "SATELLITE", 0, TRUE),
    Mapping("satellite_comm_backup", "SATELLITE", 1, FALSE),
    Mapping("aux_control", "MCU", 0, FALSE),
    Mapping("aux_control_backup", "MCU", 1, FALSE)>>))>>)

H200V1 == Board("ti/am6254", "H200_100P", "v1.0", H200V1Devices, H200V1Apps)

-----------------------------------------------------------------------------
(* ti/am6254/H200_100P: version 2.0.                                       *)

\* Mutant: the address of another kind of bus.
MutH200V2Satellites == List(<<Peripheral("satellite_1553b", Mil1553bCfg("/dev/mil1553b0", 50))>>)

H200V2Satellites == List(<<Peripheral("satellite_1553b", Mil1553bCfg("/dev/mil1553b0", 5))>>)

H200V2Bmcs == List(<<
  Bmc("payload_bmc_v2", IpmiLan("eth0", "192.168.1.100", 623),
      IpmiSerial("/dev/ttyS2", 115200), 5)>>)

H200V2Sensors == List(<<
  Peripheral("board_gps", UartCfg("/dev/ttyS3", 9600, 8, 1, "N"))>>)

H200V2Storages == List(<<Storage("nvme_storage", "/dev/nvme0n1")>>)

H200V2Power == List(<<Power("gps_power", 3300, 200), Power("nvme_power", 3300, 500)>>)

H200V2Devices ==
  [mcus |-> NoList, bmcs |-> H200V2Bmcs, satellites |-> H200V2Satellites,
   sensors |-> H200V2Sensors, storages |-> H200V2Storages, power_domains |-> H200V2Power]

H200V2Apps == List(<<
  App("protocol_converter", List(<<
    Mapping("satellite_comm", "SATELLITE", 0, FALSE),
    Mapping("payload_comm", "BMC", 0, FALSE),
    Mapping("position_sensor", "SENSOR", 0, FALSE)>>))>>)

H200V2 == Board("ti/am6254", "H200_100P", "v2.0", H200V2Devices, H200V2Apps)

-----------------------------------------------------------------------------
(* vendor_demo/platform_demo/project_demo: table by table the same devices *)
(* and applications under another platform and product.                    *)

DemoPlatform == "vendor_demo/platform_demo/project_demo"

DemoBaseLinks == [mcus |-> H200BaseMcus, bmcs |-> H200BaseBmcs,
                  satellites |-> H200BaseSatellites]
DemoBaseParts == [sensors |-> H200BaseSensors, storages |-> H200BaseStorages,
                  power_domains |-> H200BasePower]
DemoBaseApps == H200BaseApps
DemoBase == Board(DemoPlatform, "DEMO_PROJECT", "base",
                  DemoBaseLinks @@ DemoBaseParts, DemoBaseApps)

DemoV1Devices == H200V1Devices
DemoV1Apps == H200V1Apps
DemoV1 == Board(DemoPlatform, "DEMO_PROJECT", "v1.0", DemoV1Devices, DemoV1Apps)

DemoV2Links == [mcus |-> NoList, bmcs |-> H200V2Bmcs, satellites |-> H200V2Satellites]
DemoV2Parts == [sensors |-> H200V2Sensors, storages |-> H200V2Storages,
                power_domains |-> H200V2Power]
DemoV2Apps == H200V2Apps
DemoV2 == Board(DemoPlatform, "DEMO_PROJECT", "v2.0",
                DemoV2Links @@ DemoV2Parts, DemoV2Apps)
=============================================================================
