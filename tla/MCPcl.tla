------------------------------- MODULE MCPcl -------------------------------
(* Boards a program might register: those of vendor_demo, one under a name  *)
(* already taken, and boards each with one defect.                          *)
EXTENDS Pcl

Bare(version, f, l) ==
  [Board("p", "q", version,
         [mcus |-> NoList, bmcs |-> NoList, satellites |-> NoList, sensors |-> NoList,
          storages |-> NoList, power_domains |-> NoList], NoList) EXCEPT ![f] = l]

One(d) == List(<<d>>)

Interfaces ==
  {CanCfg("", 500000), CanCfg("can0", 0), UartCfg("tty", 0, 8, 1, "N"),
   UartCfg("tty", 9600, 9, 1, "N"), UartCfg("tty", 9600, 8, 0, "N"),
   UartCfg("tty", 9600, 8, 1, "X"), I2cCfg("i2c", 128, 1), I2cCfg("i2c", 1, 0),
   SpiCfg("spi", 0, 0, 8), SpiCfg("spi", 1, 4, 8), SpiCfg("spi", 1, 0, 33),
   SpacewireCfg(""), Mil1553bCfg("m", 32),
   OtherCfg["ETHERNET"], OtherCfg["USB"], OtherCfg["NONE"]}

Faulty ==
  {Bare("x", "mcus", One(Peripheral("d", c))) : c \in Interfaces}
  \cup {Bare("x", "satellites", One(Peripheral("d", c))) : c \in Interfaces}
  \cup {Bare("x", f, l) : f \in BoardLists, l \in {One(Null), One([name |-> Null, enabled |-> FALSE, mappings |-> NoList]),
                                 [items |-> Null, count |-> 1]}}
  \cup {Bare("x", "bmcs", One(Bmc("d", p, s, 1))) :
          p \in {IpmiLan("eth0", "", 1), Redfish("")},
          s \in {IpmiSerial("tty", 9600)}}
  \cup {Bare("x", "bmcs", One(Bmc("d", Redfish("u"), IpmiSerial("tty", 0), 1)))}
  \cup {Bare("x", "apps", One(App("a", [items |-> Null, count |-> 1]))),
        Bare("x", "apps", List(<<App("a", NoList), Null>>)),
        Bare("", "apps", NoList)}

Offered ==
  {DemoBase, DemoV1, DemoV2, [H200V1 EXCEPT !.mcus = NoList, !.version = "base"],
   Bare("spi", "mcus", One(Peripheral("d", SpiCfg("spi", 1, 3, 32)))),
   Bare("spw", "satellites", One(Peripheral("d", SpacewireCfg("spw0")))),
   Bare("off", "satellites",
        One([Peripheral("d", Mil1553bCfg("m", 40)) EXCEPT !.enabled = FALSE]))}
  \cup Faulty

Query(p, q, v) == [platform |-> p, product |-> q, version |-> v]
Envs == {Null, Query("ti/am6254", "H200_100P", Null), Query("ti/am6254", "H200_100P", "v1.0"),
         Query(DemoPlatform, "DEMO_PROJECT", Null), Query("p", "q", "spw")}
=============================================================================
