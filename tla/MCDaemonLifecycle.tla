------------------------- MODULE MCDaemonLifecycle -------------------------
(* Small instances of DaemonLifecycle for TLC.                             *)
EXTENDS DaemonLifecycle, TLC

(* What is claimed while calm needs no states beyond.  One process alone    *)
(* goes on to where it has started daemons beside each other.               *)
UntilTrouble == calm \/ Cardinality({s \in Supervisors : SAt(s, "out")}) >= 2

(* A process has exited with the start lock before it spawned anything.    *)
(* The others were constructed before it wrote its token; one has called    *)
(* stop() meanwhile, hence no calm.                                        *)
LockLeft ==
  LET left == CHOOSE s \in Supervisors : TRUE
      Left(there, others) == [s \in Supervisors |-> IF s = left THEN there ELSE others[s]]
      nothing == [s \in Supervisors |-> NoFile]
  IN /\ pidFile = NoFile /\ socket = NoFile /\ lock = left /\ tokenFile = left
     /\ pc = Left("gone", [s \in Supervisors |-> "idle"]) /\ token = Left(NoFile, [s \in Supervisors |-> s])
     /\ pid = nothing /\ child = nothing
     /\ call \in {[s \in Supervisors |-> IF s = other THEN "stop" ELSE "start"] : other \in Supervisors \ {left}}
     /\ dpc = [d \in Daemons |-> "unborn"] /\ dtoken = [d \in Daemons |-> NoFile]
     /\ calm = FALSE /\ crowded = FALSE
LeftSpec == LockLeft /\ [][Next]_vars /\ Fairness

===========================================================================
