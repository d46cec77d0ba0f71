---------------------- MODULE MaintenanceLease_proofs ----------------------
(***************************************************************************)
(* Proofs about MaintenanceLease for any number of calls in any number of   *)
(* daemons, any duration of a lease and any clock: leases exclude until a   *)
(* call that outlasted its own frees another of its process.               *)
(***************************************************************************)
EXTENDS MaintenanceLease, TLAPS

LEMMA InitTypeOK == Init => TypeOK
BY TimeAssumption DEF Init, TypeOK

LEMMA NextTypeOK == TypeOK /\ [Next]_vars => TypeOK'
<1> SUFFICES ASSUME TypeOK, [Next]_vars PROVE TypeOK'
  OBVIOUS
<1> USE TimeAssumption DEF TypeOK
<1>1. CASE Tick
  BY <1>1 DEF Tick
<1>2. ASSUME NEW c \in Calls, ReadClock(c) PROVE TypeOK'
  BY <1>2 DEF ReadClock
<1>3. ASSUME NEW c \in Calls, Acquire(c) PROVE TypeOK'
  <2>1. asOf[c] + Ttl \in Nat /\ Pid[c] \in Pids
    BY DEF Pids
  <2>2. lease' \in Leases
    BY <1>3, <2>1 DEF Acquire, Leases
  <2>3. QED
    BY <1>3, <2>1, <2>2 DEF Acquire
<1>4. ASSUME NEW c \in Calls, Refuse(c) PROVE TypeOK'
  BY <1>4 DEF Refuse
<1>5. ASSUME NEW c \in Calls, Release(c) PROVE TypeOK'
  <2>1. FreedBy(c) \subseteq {d \in Calls : pc[d] = "working"}
    BY DEF FreedBy, InForce, Live
  <2>2. QED
    BY <1>5, <2>1 DEF Release
<1>6. ASSUME NEW p \in Pids, Crash(p) PROVE TypeOK'
  BY <1>6 DEF Crash
<1>7. CASE UNCHANGED vars
  BY <1>7 DEF vars
<1>8. QED
  BY <1>1, <1>2, <1>3, <1>4, <1>5, <1>6, <1>7 DEF Next

(* Every variable has its type and no call has read a time to come.        *)
THEOREM TypeCorrect == Spec => []TypeOK
BY InitTypeOK, NextTypeOK, PTL DEF Spec

---------------------------------------------------------------------------
(* A row is its owner's and its date's: it is one.                         *)
LEMMA RowIs ==
  ASSUME TypeOK, NEW d \in Calls, lease = RowOf(d)
  PROVE  lease # NoLease /\ lease.owner = Pid[d] /\ lease.expires = until[d]
BY NoLeaseAssumption DEF TypeOK, RowOf, Leases, Pids

(* A call that reads the row and finds it expired finds nobody at work     *)
(* under a lease in force.                                                 *)
LEMMA AcquireFindsNobody ==
  ASSUME TypeOK, LiveHoldsRow, NEW c \in Calls, Acquire(c)
  PROVE  \A d \in Calls : ~InForce(d)
<1> SUFFICES ASSUME NEW d \in Calls, InForce(d) PROVE FALSE
  OBVIOUS
<1>1. lease # NoLease /\ lease.expires = until[d] /\ now < until[d]
  BY RowIs DEF LiveHoldsRow, InForce, Live
<1>2. until[d] <= asOf[c] /\ asOf[c] <= now
  BY <1>1 DEF Acquire, Expired, TypeOK
<1>3. now \in Nat /\ until[d] \in Nat /\ asOf[c] \in Nat
  BY TimeAssumption DEF TypeOK
<1>4. QED
  BY <1>1, <1>2, <1>3

(* No step but a call's own Acquire puts its lease in force.               *)
LEMMA InForceBefore ==
  ASSUME TypeOK, [Next]_vars, NEW d \in Calls, InForce(d)', ~Acquire(d)
  PROVE  InForce(d) /\ until'[d] = until[d] /\ pc[d] = "working" /\ pc'[d] = "working"
<1> USE DEF TypeOK, InForce, Live
<1>1. CASE Tick
  <2>1. now' = now + 1 /\ now \in Nat /\ until[d] \in Nat
    BY <1>1, TimeAssumption DEF Tick
  <2>2. now + 1 < until[d] /\ pc[d] = "working"
    BY <1>1, <2>1 DEF Tick
  <2>3. now < until[d]
    BY <2>1, <2>2
  <2>4. QED
    BY <1>1, <2>2, <2>3 DEF Tick
<1>2. ASSUME NEW c \in Calls, ReadClock(c) \/ Refuse(c)
      PROVE  InForce(d) /\ until'[d] = until[d] /\ pc[d] = "working" /\ pc'[d] = "working"
  BY <1>2 DEF ReadClock, Refuse
<1>3. ASSUME NEW c \in Calls, Acquire(c)
      PROVE  InForce(d) /\ until'[d] = until[d] /\ pc[d] = "working" /\ pc'[d] = "working"
  <2>1. c # d
    BY <1>3
  <2>2. QED
    BY <1>3, <2>1 DEF Acquire
<1>4. ASSUME NEW c \in Calls, Release(c)
      PROVE  InForce(d) /\ until'[d] = until[d] /\ pc[d] = "working" /\ pc'[d] = "working"
  BY <1>4 DEF Release
<1>5. ASSUME NEW p \in Pids, Crash(p)
      PROVE  InForce(d) /\ until'[d] = until[d] /\ pc[d] = "working" /\ pc'[d] = "working"
  BY <1>5 DEF Crash
<1>6. CASE UNCHANGED vars
  BY <1>6 DEF vars
<1>7. QED
  BY <1>1, <1>2, <1>3, <1>4, <1>5, <1>6 DEF Next

(* Leases in force exclude each other and have their row; the second needs *)
(* the first, for a call that releases its lease in time must not take     *)
(* that of another call of its process with it.                            *)
LeaseInv == InForceExcludes /\ LiveHoldsRow

LEMMA InitLeaseInv == Init => LeaseInv
BY DEF Init, LeaseInv, InForceExcludes, LiveHoldsRow, InForce, Live

LEMMA NextExcludes ==
  ASSUME TypeOK, LeaseInv, [Next]_vars
  PROVE  InForceExcludes'
<1> SUFFICES ASSUME NEW d \in Calls, NEW e \in Calls, InForce(d)', InForce(e)' PROVE d = e
  BY DEF InForceExcludes
<1>1. CASE \E c \in Calls : Acquire(c)
  <2>1. PICK c \in Calls : Acquire(c)
    BY <1>1
  <2>2. \A f \in Calls : ~InForce(f)
    BY <2>1, AcquireFindsNobody DEF LeaseInv
  <2>3. \A f \in Calls \ {c} : ~InForce(f)'
    BY <2>1, <2>2 DEF Acquire, InForce, Live, TypeOK
  <2>4. QED
    BY <2>3
<1>2. CASE \A c \in Calls : ~Acquire(c)
  BY <1>2, InForceBefore DEF LeaseInv, InForceExcludes
<1>3. QED
  BY <1>1, <1>2

(* A lease in force can only be taken away by its holder, or be put among   *)
(* the freed: takers find it in force, and a Release that deletes the row   *)
(* is its holder's, or a late one.                                         *)
LEMMA NextHoldsRow ==
  ASSUME TypeOK, LeaseInv, [Next]_vars
  PROVE  LiveHoldsRow'
<1> SUFFICES ASSUME NEW d \in Calls, InForce(d)' PROVE lease' = RowOf(d)'
  BY DEF LiveHoldsRow
<1>1. CASE Acquire(d)
  BY <1>1 DEF Acquire, RowOf, TypeOK
<1>2. CASE ~Acquire(d)
  <2>1. InForce(d) /\ until'[d] = until[d] /\ pc[d] = "working" /\ pc'[d] = "working"
    BY <1>2, InForceBefore
  <2>2. lease = RowOf(d) /\ RowOf(d)' = RowOf(d)
    BY <2>1 DEF LeaseInv, LiveHoldsRow, RowOf
  <2>3. \A c \in Calls : ~Acquire(c)
    BY <2>1, AcquireFindsNobody DEF LeaseInv
  <2>4. ASSUME NEW c \in Calls, Release(c) PROVE lease' = lease
    <3>1. c # d /\ d \notin freed'
      BY <2>1, <2>4 DEF Release, TypeOK, InForce
    <3>2. d \notin FreedBy(c)
      BY <2>4, <3>1 DEF Release
    <3>3. ~InForce(c)
      BY <2>1, <3>1 DEF LeaseInv, InForceExcludes
    <3>4. Pid[d] # Pid[c]
      BY <2>1, <2>2, <3>1, <3>2, <3>3 DEF FreedBy
    <3>5. QED
      BY <2>2, <2>4, <3>4, RowIs DEF Release
  <2>5. lease' = lease
    BY <2>3, <2>4 DEF Next, Tick, ReadClock, Refuse, Crash, vars
  <2>6. QED
    BY <2>2, <2>5
<1>3. QED
  BY <1>1, <1>2

LEMMA NextLeaseInv == TypeOK /\ LeaseInv /\ [Next]_vars => LeaseInv'
BY NextExcludes, NextHoldsRow DEF LeaseInv

THEOREM LeaseInvCorrect == Spec => []LeaseInv
BY NextLeaseInv, InitLeaseInv, TypeCorrect, PTL DEF Spec

(* Nobody replaces or deletes the row of a lease that is in force, in any   *)
(* process, but a call of the same process that has outlasted its own.     *)
THEOREM LiveHoldsRowCorrect == Spec => []LiveHoldsRow
<1>1. LeaseInv => LiveHoldsRow
  BY DEF LeaseInv
<1>2. QED
  BY <1>1, LeaseInvCorrect, PTL

(* Two calls, of one process or of two, are never both at work under       *)
(* leases that have not run out and that no such call has deleted.         *)
THEOREM InForceExcludesCorrect == Spec => []InForceExcludes
<1>1. LeaseInv => InForceExcludes
  BY DEF LeaseInv
<1>2. QED
  BY <1>1, LeaseInvCorrect, PTL

---------------------------------------------------------------------------
(* The lease implements LeaseLock.                                         *)

LEMMA HolderIs ==
  ASSUME InForceExcludes, NEW c \in Calls, InForce(c) PROVE Holder = c
BY DEF InForceExcludes, Holder

LEMMA NextHolderIs ==
  ASSUME InForceExcludes', NEW c \in Calls, InForce(c)' PROVE Holder' = c
BY DEF InForceExcludes, Holder

(* A step that puts no lease in force keeps the holder or loses it.        *)
LEMMA NobodyAddedIsLock ==
  ASSUME InForceExcludes, InForceExcludes', \A c \in Calls : InForce(c)' => InForce(c)
  PROVE  [Lock!Next]_Holder
<1>1. CASE \E c \in Calls : InForce(c)'
  <2>1. PICK c \in Calls : InForce(c)'
    BY <1>1
  <2>2. Holder = c /\ Holder' = c
    BY <2>1, HolderIs, NextHolderIs
  <2>3. QED
    BY <2>2
<1>2. CASE \A c \in Calls : ~InForce(c)'
  <2>1. Holder' = Nobody
    BY <1>2 DEF Holder
  <2>2. Holder = Nobody \/ Lock!Lose
    BY <2>1 DEF Lock!Lose
  <2>3. QED
    BY <2>1, <2>2 DEF Lock!Next
<1>3. QED
  BY <1>1, <1>2

LEMMA NextLock ==
  ASSUME TypeOK, LeaseInv, LeaseInv', [Next]_vars
  PROVE  [Lock!Next]_Holder
<1>1. ASSUME NEW c \in Calls, Acquire(c) PROVE [Lock!Next]_Holder
  <2>1. \A d \in Calls : ~InForce(d)
    BY <1>1, AcquireFindsNobody DEF LeaseInv
  <2>2. Holder = Nobody
    BY <2>1 DEF Holder
  <2>3. \A d \in Calls : InForce(d)' => d = c
    BY <1>1, <2>1 DEF Acquire, InForce, Live, TypeOK
  <2>4. Holder' = Nobody \/ Holder' = c
    BY <2>3 DEF Holder
  <2>5. Holder' = Holder \/ Lock!Grant(c)
    BY <2>2, <2>4 DEF Lock!Grant
  <2>6. QED
    BY <2>5 DEF Lock!Next
<1>2. CASE \A c \in Calls : ~Acquire(c)
  BY <1>2, InForceBefore, NobodyAddedIsLock DEF LeaseInv
<1>3. QED
  BY <1>1, <1>2

LEMMA InitLock == Init => Lock!Init
BY DEF Init, Lock!Init, Holder, InForce, Live

(* The lease is a lock: it is granted only while nobody holds it, and      *)
(* passes from one call to another through nobody, whichever processes     *)
(* the calls are in.                                                       *)
THEOREM ImplementsLock == Spec => IsLock
<1>1. TypeOK /\ LeaseInv /\ LeaseInv' /\ [Next]_vars => [Lock!Next]_Holder
  BY NextLock
<1>2. QED
  BY <1>1, InitLock, TypeCorrect, LeaseInvCorrect, PTL DEF Spec, IsLock, Lock!Spec

===========================================================================
