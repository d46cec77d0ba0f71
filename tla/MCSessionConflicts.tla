------------------------ MODULE MCSessionConflicts ------------------------
(***************************************************************************)
(* Nine files in a chain of imports and one that is gone: the cones of 3    *)
(* and 7 share one file of five, which is below the threshold.              *)
(***************************************************************************)
EXTENDS SessionConflicts

Gone    == 10
MCEdits == {{3}, {7, Gone}}
MCCones == [S \in MCEdits |-> {f \in 1..9 : \E s \in S \ {Gone} : s - f \in -2..2}]
===========================================================================
