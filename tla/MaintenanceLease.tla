------------------------- MODULE MaintenanceLease -------------------------
(***************************************************************************)
(* The lease of table maintenance_leases (store.rs) and the calls that take *)
(* it (Indexer::rebuild and Indexer::maintain in indexer.rs).  "rebuild"    *)
(* and "maintain" are two rows that do not exclude each other; this module  *)
(* is about the calls that compete for one of them.                         *)
(*                                                                         *)
(* A row's owner is the process id of the daemon, not the call, and a       *)
(* lease runs out on the clock whether or not the work is done.  So a call  *)
(* that outlasts its lease may end by deleting the row of another call of   *)
(* its process; freed, a history variable no guard reads, has the calls it  *)
(* was done to.                                                            *)
(***************************************************************************)
EXTENDS Naturals

CONSTANTS
  Calls,    \* the calls that compete for the lease
  Pid,      \* Pid[c]: the process call c runs in
  Ttl,      \* how long a lease lasts: five minutes in the code
  MaxTime,  \* bound on the clock
  NoLease,  \* there is no row for the name
  Nobody    \* no call holds a lease that is in force

ASSUME TimeAssumption == Ttl \in Nat /\ MaxTime \in Nat
ASSUME NobodyAssumption == Nobody \notin Calls
ASSUME PidAssumption == Pid = [c \in Calls |-> Pid[c]]

Pids == {Pid[c] : c \in Calls}
Leases == [owner : Pids, expires : Nat]
ASSUME NoLeaseAssumption == NoLease \notin Leases

VARIABLES
  now,    \* Utc::now, in units of the lease
  lease,  \* the row of maintenance_leases, or NoLease
  pc,     \* pc[c]: where call c is
  asOf,   \* asOf[c]: the time call c read before it tried
  until,  \* until[c]: when the lease c was granted expires
  freed   \* calls at work whose row a late call of their process deleted

vars == <<now, lease, pc, asOf, until, freed>>

Init ==
  /\ now = 0
  /\ lease = NoLease
  /\ pc = [c \in Calls |-> "idle"]
  /\ asOf = [c \in Calls |-> 0]
  /\ until = [c \in Calls |-> 0]
  /\ freed = {}

Tick ==
  /\ now < MaxTime
  /\ now' = now + 1
  /\ UNCHANGED <<lease, pc, asOf, until, freed>>

(* Call c is at work under a lease that has not run out.                   *)
Live(c) == pc[c] = "working" /\ now < until[c]

(* And nobody has deleted it.                                              *)
InForce(c) == Live(c) /\ c \notin freed

RowOf(c) == [owner |-> Pid[c], expires |-> until[c]]

(* History.  The calls whose lease is in force and goes with the release   *)
(* of c: none, as long as that of c is in force itself.                    *)
FreedBy(c) ==
  IF InForce(c) THEN {}
  ELSE {d \in Calls \ {c} : InForce(d) /\ Pid[d] = Pid[c] /\ lease = RowOf(d)}

(* acquire_maintenance_lease reads the clock first; the statement below    *)
(* runs when the call gets the store's connection.                         *)
ReadClock(c) ==
  /\ pc[c] = "idle"
  /\ pc' = [pc EXCEPT ![c] = "trying"]
  /\ asOf' = [asOf EXCEPT ![c] = now]
  /\ UNCHANGED <<now, lease, until, freed>>

(* Mutants of Expired: the comparison the wrong way round, and off by one. *)
ExpiredSwapped(t) == lease # NoLease => lease.expires >= t
ExpiresWithin(t)  == lease # NoLease => lease.expires <= t + 1

Expired(t) == lease # NoLease => lease.expires <= t

(* Mutant of Acquire: the row names the call and not its process.          *)
AcquireAsCall(c) ==
  /\ pc[c] = "trying"
  /\ Expired(asOf[c])
  /\ lease' = [owner |-> c, expires |-> asOf[c] + Ttl]
  /\ until' = [until EXCEPT ![c] = asOf[c] + Ttl]
  /\ pc' = [pc EXCEPT ![c] = "working"]
  /\ asOf' = [asOf EXCEPT ![c] = 0]
  /\ UNCHANGED <<now, freed>>

(* INSERT ... ON CONFLICT DO UPDATE ... WHERE lease_expires_at_ms <= now.  *)
Acquire(c) ==
  /\ pc[c] = "trying"
  /\ Expired(asOf[c])
  /\ lease' = [owner |-> Pid[c], expires |-> asOf[c] + Ttl]
  /\ until' = [until EXCEPT ![c] = asOf[c] + Ttl]
  /\ pc' = [pc EXCEPT ![c] = "working"]
  /\ asOf' = [asOf EXCEPT ![c] = 0]
  /\ UNCHANGED <<now, freed>>

(* No row changed: the call fails with "already active".                   *)
Refuse(c) ==
  /\ pc[c] = "trying"
  /\ ~Expired(asOf[c])
  /\ pc' = [pc EXCEPT ![c] = "idle"]
  /\ asOf' = [asOf EXCEPT ![c] = 0]
  /\ UNCHANGED <<now, lease, until, freed>>

(* Mutant of Release: DELETE ... WHERE name, whoever owns the row.         *)
ReleaseAny(c) ==
  /\ pc[c] = "working"
  /\ lease' = NoLease
  /\ freed' = freed \ {c}
  /\ pc' = [pc EXCEPT ![c] = "idle"]
  /\ until' = [until EXCEPT ![c] = 0]
  /\ UNCHANGED <<now, asOf>>

(* DELETE ... WHERE name AND owner, when the work ended, well or not.      *)
Release(c) ==
  /\ pc[c] = "working"
  /\ lease' = IF lease # NoLease /\ lease.owner = Pid[c] THEN NoLease ELSE lease
  /\ freed' = (freed \cup FreedBy(c)) \ {c}
  /\ pc' = [pc EXCEPT ![c] = "idle"]
  /\ until' = [until EXCEPT ![c] = 0]
  /\ UNCHANGED <<now, asOf>>

(* The daemon dies: its calls are gone, the row stays until it expires.    *)
Crash(p) ==
  /\ \E c \in Calls : Pid[c] = p /\ pc[c] # "idle"
  /\ pc' = [c \in Calls |-> IF Pid[c] = p THEN "idle" ELSE pc[c]]
  /\ freed' = {c \in freed : Pid[c] # p}
  /\ asOf' = [c \in Calls |-> IF Pid[c] = p THEN 0 ELSE asOf[c]]
  /\ until' = [c \in Calls |-> IF Pid[c] = p THEN 0 ELSE until[c]]
  /\ UNCHANGED <<now, lease>>

Next ==
  \/ Tick
  \/ \E c \in Calls : ReadClock(c) \/ Acquire(c) \/ Refuse(c) \/ Release(c)
  \/ \E p \in Pids : Crash(p)

Spec == Init /\ [][Next]_vars

---------------------------------------------------------------------------
(* Every variable has its type, and no call has read a time to come.       *)
TypeOK ==
  /\ now \in 0..MaxTime
  /\ lease \in Leases \cup {NoLease}
  /\ pc \in [Calls -> {"idle", "trying", "working"}]
  /\ asOf \in [Calls -> 0..MaxTime] /\ \A c \in Calls : asOf[c] <= now
  /\ until \in [Calls -> Nat]
  /\ freed \subseteq {c \in Calls : pc[c] = "working"}

(* Leases exclude active writers, for calls of one process and of several:  *)
(* of two calls at work under leases that have not run out, one is the      *)
(* victim of a call of its own process that outlasted its lease -- after    *)
(* expiries, takeovers, late releases by an owner that lost the lease, and  *)
(* crashes.                                                                *)
InForceExcludes == \A c, d \in Calls : InForce(c) /\ InForce(d) => c = d

(* While a call's lease is in force, the row is that lease: nobody         *)
(* replaced it, and nobody but such a call deleted it.                     *)
LiveHoldsRow == \A c \in Calls : InForce(c) => lease = RowOf(c)

Holder == IF \E c \in Calls : InForce(c) THEN CHOOSE c \in Calls : InForce(c) ELSE Nobody

(* The lease is a lock: nobody is granted it before its holder let go of   *)
(* it, ran out of time or was freed of it.                                 *)
Lock == INSTANCE LeaseLock WITH holder <- Holder

IsLock == Lock!Spec

===========================================================================
