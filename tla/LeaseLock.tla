---------------------------- MODULE LeaseLock ----------------------------
(***************************************************************************)
(* What a maintenance lease promises: a lock that at most one call holds,   *)
(* given only while nobody holds it, and that its holder loses sooner or    *)
(* later, by releasing it or by letting it run out.                         *)
(***************************************************************************)
CONSTANTS
  Calls,   \* the maintenance calls
  Nobody   \* the holder of a free lock

VARIABLE holder

Init == holder = Nobody

Grant(c) == holder = Nobody /\ holder' = c

Lose == holder # Nobody /\ holder' = Nobody

Next == (\E c \in Calls : Grant(c)) \/ Lose

Spec == Init /\ [][Next]_holder

===========================================================================
