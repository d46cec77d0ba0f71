---------------------------- MODULE BatchFifo ----------------------------
(***************************************************************************)
(* What the daemon promises about changed-file batches, without its         *)
(* counters and without the steps of a call: a bounded first-in first-out   *)
(* line in front of a single worker.  A batch is turned away only when the  *)
(* line is full, an accepted batch is neither lost nor overtaken, and one   *)
(* batch is worked on at a time.  IndexQueue implements this module.        *)
(***************************************************************************)
EXTENDS Naturals, Sequences

CONSTANTS
  Batches,   \* the batches that can be submitted
  Capacity,  \* the places in the line
  NoBatch    \* the worker's batch when it has none

VARIABLES
  line,      \* the accepted batches that wait, oldest first
  active,    \* the batch being worked on, or NoBatch
  refused    \* how many batches were turned away

fifoVars == <<line, active, refused>>

Init ==
  /\ line = << >>
  /\ active = NoBatch
  /\ refused = 0

Accept(b) ==
  /\ Len(line) < Capacity
  /\ line' = Append(line, b)
  /\ UNCHANGED <<active, refused>>

Refuse ==
  /\ Len(line) >= Capacity
  /\ refused' = refused + 1
  /\ UNCHANGED <<line, active>>

Take ==
  /\ active = NoBatch
  /\ line # << >>
  /\ active' = Head(line)
  /\ line' = Tail(line)
  /\ UNCHANGED refused

Finish ==
  /\ active # NoBatch
  /\ active' = NoBatch
  /\ UNCHANGED <<line, refused>>

Next ==
  \/ \E b \in Batches : Accept(b)
  \/ Refuse
  \/ Take
  \/ Finish

Spec == Init /\ [][Next]_fifoVars

FairSpec == Spec /\ WF_fifoVars(Take) /\ WF_fifoVars(Finish)

===========================================================================
