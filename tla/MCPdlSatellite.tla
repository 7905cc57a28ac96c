--------------------------- MODULE MCPdlSatellite ---------------------------
(* Small instances of PdlSatellite. *)
EXTENDS PdlSatellite
=============================================================================
