------------------------ MODULE MCMaintenanceLease ------------------------
(* A small instance of MaintenanceLease for TLC: four calls, two in each   *)
(* of two daemons.                                                         *)
EXTENDS MaintenanceLease, TLC

CONSTANTS c1, c2, c3, c4

MCCalls == {c1, c2, c3, c4}
MCPid   == c1 :> 11 @@ c2 :> 11 @@ c3 :> 12 @@ c4 :> 12

===========================================================================
