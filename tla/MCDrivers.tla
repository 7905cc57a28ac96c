----------------------------- MODULE MCDrivers -----------------------------
(***************************************************************************)
(* Small instances for TLC of the serial, I2C and SPI drivers, of the BMC  *)
(* and the MCU driver, and of the registry of boards they come from.  A    *)
(* behaviour is one of one of them: `part' says of which, and the others   *)
(* stay as they are.                                                       *)
(***************************************************************************)
EXTENDS HalSerial, HalBus, PdlBmc, PdlMcu, MCPcl

VARIABLE part

driversVars == <<part, serialVars, busVars, bmcVars, mcuVars, pclVars>>

DriversInit ==
  /\ part \in {"serial", "i2c", "spi", "bmc", "mcu", "pcl"}
  /\ SerialInit /\ BusInit /\ BmcInit /\ McuInit /\ PclInit

Only(p) ==
  /\ part = p
  /\ UNCHANGED part
  /\ p # "serial" => UNCHANGED serialVars
  /\ p # "i2c" => UNCHANGED i2cVars
  /\ p # "spi" => UNCHANGED spiVars
  /\ p # "bmc" => UNCHANGED bmcVars
  /\ p # "mcu" => UNCHANGED mcuVars
  /\ p # "pcl" => UNCHANGED pclVars

DriversNext ==
  \/ Only("serial") /\ SerialNext
  \/ Only("i2c") /\ BusNext
  \/ Only("spi") /\ BusNext
  \/ Only("bmc") /\ BmcNext
  \/ Only("mcu") /\ McuNext
  \/ Only("pcl") /\ PclNext

DriversSpec == DriversInit /\ [][DriversNext]_driversVars /\ SerialFairness

SomeConfigs == {[baud_rate |-> 9600, data_bits |-> 8, stop_bits |-> 1, parity |-> 0],
                [baud_rate |-> 9601, data_bits |-> 6, stop_bits |-> 2, parity |-> 1]}
SomeSettings == {[mode |-> 0, bits |-> 8, speed |-> 1], [mode |-> 3, bits |-> 8, speed |-> 2],
                 [mode |-> 3, bits |-> 16, speed |-> 1]}
=============================================================================
