---------------------- MODULE SessionConflicts_proofs ----------------------
(***************************************************************************)
(* Proofs about SessionConflicts for any number of sessions and of calls,   *)
(* any graph and any times, as long as rows are retained no shorter than    *)
(* sessions are active: the alerts are those of the last observations.      *)
(***************************************************************************)
EXTENDS SessionConflicts, FiniteSetTheorems, FunctionTheorems, WellFoundedInduction, TLAPS

LEMMA InitTypeOK == Init => TypeOK
BY TimesAssumption DEF Init, TypeOK, Idle

LEMMA NextTypeOK == TypeOK /\ [Next]_vars => TypeOK'
<1> SUFFICES ASSUME TypeOK, [Next]_vars PROVE TypeOK'
  OBVIOUS
<1> USE TimesAssumption DEF TypeOK
<1>1. ASSUME NEW c \in Calls, Snapshot(c) PROVE TypeOK'
  <2>1. PICK id \in Ids, S \in Edits :
          LET snapshot == [at |-> SeenAt, files |-> S, cone |-> Cones[S]] IN
          /\ call' = [call EXCEPT ![c] = [pc |-> "insert", id |-> id, snapshot |-> snapshot]]
          /\ latest' = [latest EXCEPT ![id] = snapshot]
          /\ excused' \in {excused \cup {id}, excused \ {id}}
    BY <1>1 DEF Snapshot
  <2>2. [at |-> SeenAt, files |-> S, cone |-> Cones[S]] \in Snapshots
    BY <2>1 DEF Snapshots, SeenAt
  <2>3. call' \in [Calls -> {Idle} \cup [pc : {"insert", "save"}, id : Ids, snapshot : Snapshots]]
    BY <2>1, <2>2
  <2>4. QED
    BY <1>1, <2>1, <2>2, <2>3 DEF Snapshot
<1>2. ASSUME NEW c \in Calls, call[c].pc \in {"insert", "save"}
      PROVE /\ call[c] \in [pc : {"insert", "save"}, id : Ids, snapshot : Snapshots]
            /\ call[c].id \in Ids /\ call[c].snapshot \in Snapshots
  BY <1>2 DEF Idle
<1>3. ASSUME NEW c \in Calls, Insert(c) PROVE TypeOK'
  <2>1. [call[c] EXCEPT !.pc = "save"] \in [pc : {"insert", "save"}, id : Ids, snapshot : Snapshots]
    BY <1>2, <1>3 DEF Insert
  <2>2. QED
    BY <1>2, <1>3, <2>1 DEF Insert
<1>4. ASSUME NEW c \in Calls, Save(c) PROVE TypeOK'
  BY <1>2, <1>4 DEF Save
<1>5. ASSUME NEW c \in Calls, SaveFails(c) PROVE TypeOK'
  BY <1>2, <1>5 DEF SaveFails
<1>6. CASE Prune
  BY <1>6 DEF Prune
<1>7. CASE Restart
  BY <1>7 DEF Restart
<1>8. CASE Tick
  BY <1>8 DEF Tick
<1>9. CASE UNCHANGED vars
  BY <1>9 DEF vars
<1>10. QED
  BY <1>1, <1>3, <1>4, <1>5, <1>6, <1>7, <1>8, <1>9 DEF Next, Observe

(* Types of the map, the table and the observations under way.             *)
THEOREM TypeCorrect == Spec => []TypeOK
<1>1. QED
  BY InitTypeOK, NextTypeOK, PTL DEF Spec

(***************************************************************************)
(* The strengthening: what map and table hold of a session that is not      *)
(* excused is its last snapshot, or nothing when that is old enough to have *)
(* been pruned.                                                            *)
(***************************************************************************)
HoldsLatest(entry, id, age) ==
  \/ entry = latest[id]
  \/ entry = None /\ latest[id] # None /\ latest[id].at < clock - age

AloneIsLatest(id) ==
  \A c \in Calls : Observing(c, id) =>
    /\ call[c].snapshot = latest[id]
    /\ \A d \in Calls : Observing(d, id) => c = d
MapIsLatest(id) ==
  (\A c \in Calls : Observing(c, id) => call[c].pc # "insert") => HoldsLatest(sessions[id], id, Decay)
RowIsLatest(id) ==
  id \notin unsaved /\ (\A c \in Calls : ~Observing(c, id)) => HoldsLatest(rows[id], id, Retain)

Recorded == \A id \in Ids : id \notin excused => AloneIsLatest(id) /\ MapIsLatest(id) /\ RowIsLatest(id)

LEMMA InitRecorded == Init => Recorded
BY DEF Init, Recorded, AloneIsLatest, MapIsLatest, RowIsLatest, HoldsLatest, Observing, Idle

(* The other sessions of an observation's steps are left alone.             *)
LEMMA Untouched ==
  ASSUME TypeOK, NEW id \in Ids, AloneIsLatest(id), MapIsLatest(id), RowIsLatest(id),
         \A c \in Calls : Observing(c, id)' = Observing(c, id) /\ (Observing(c, id) => call'[c] = call[c]),
         clock' = clock, sessions'[id] = sessions[id], rows'[id] = rows[id], latest'[id] = latest[id],
         (id \in unsaved) = (id \in unsaved')
  PROVE  AloneIsLatest(id)' /\ MapIsLatest(id)' /\ RowIsLatest(id)'
<1>1. AloneIsLatest(id)'
  BY DEF AloneIsLatest
<1>2. MapIsLatest(id)'
  BY DEF MapIsLatest, HoldsLatest
<1>3. RowIsLatest(id)'
  BY DEF RowIsLatest, HoldsLatest
<1>4. QED
  BY <1>1, <1>2, <1>3

LEMMA NextRecorded == TypeOK /\ Recorded /\ [Next]_vars => Recorded'
<1> SUFFICES ASSUME TypeOK, Recorded, [Next]_vars, NEW id \in Ids, id \notin excused'
             PROVE AloneIsLatest(id)' /\ MapIsLatest(id)' /\ RowIsLatest(id)'
  BY DEF Recorded
<1>1. ASSUME NEW c \in Calls, Snapshot(c) PROVE AloneIsLatest(id)' /\ MapIsLatest(id)' /\ RowIsLatest(id)'
  <2>1. PICK me \in Ids, S \in Edits :
          LET snapshot == [at |-> SeenAt, files |-> S, cone |-> Cones[S]] IN
          /\ call' = [call EXCEPT ![c] = [pc |-> "insert", id |-> me, snapshot |-> snapshot]]
          /\ latest' = [latest EXCEPT ![me] = snapshot]
          /\ excused' = IF \E d \in Calls : Observing(d, me) THEN excused \cup {me} ELSE excused \ {me}
    BY <1>1 DEF Snapshot
  <2>2. CASE id = me
    <3>1. \A d \in Calls : ~Observing(d, id)
      BY <2>1, <2>2
    <3>2. \A d \in Calls : Observing(d, id)' => d = c
      BY <2>1, <3>1 DEF TypeOK, Observing
    <3>3. Observing(c, id)' /\ call'[c].pc = "insert" /\ call'[c].snapshot = latest'[id]
      BY <2>1, <2>2 DEF TypeOK, Observing, Idle
    <3>4. QED
      BY <3>2, <3>3 DEF AloneIsLatest, MapIsLatest, RowIsLatest
  <2>3. CASE id # me
    <3>1. id \notin excused
      BY <2>1, <2>3
    <3>2. \A d \in Calls : Observing(d, id)' = Observing(d, id) /\ (Observing(d, id) => call'[d] = call[d])
      <4>1. ~Observing(c, id) /\ ~Observing(c, id)'
        BY <1>1, <2>1, <2>3 DEF Snapshot, TypeOK, Observing
      <4>2. \A d \in Calls \ {c} : call'[d] = call[d]
        BY <2>1 DEF TypeOK
      <4>3. QED
        BY <4>1, <4>2 DEF Observing
    <3>3. QED
      BY <1>1, <2>1, <2>3, <3>1, <3>2, Untouched DEF Snapshot, Recorded, TypeOK
  <2>4. QED
    BY <2>2, <2>3
<1>2. ASSUME NEW c \in Calls, call[c].pc \in {"insert", "save"}
      PROVE call[c].id \in Ids /\ call[c] # Idle /\ call[c].snapshot \in Snapshots
  BY <1>2 DEF TypeOK, Idle
<1>3. ASSUME NEW c \in Calls, Insert(c) PROVE AloneIsLatest(id)' /\ MapIsLatest(id)' /\ RowIsLatest(id)'
  <2>1. id \notin excused
    BY <1>3 DEF Insert
  <2>2. \A d \in Calls : d # c => call'[d] = call[d]
    BY <1>3 DEF Insert, TypeOK
  <2>3. call'[c] # Idle /\ call'[c].pc = "save" /\ call'[c].id = call[c].id /\ call'[c].snapshot = call[c].snapshot
    BY <1>2, <1>3 DEF Insert, TypeOK, Idle
  <2>4. \A d \in Calls : Observing(d, id)' <=> Observing(d, id)
    BY <1>2, <1>3, <2>2, <2>3 DEF Observing, Insert
  <2>5. CASE id = call[c].id
    <3>1. Observing(c, id)
      BY <1>2, <1>3, <2>5 DEF Observing, Insert
    <3>2. AloneIsLatest(id)
      BY <2>1 DEF Recorded
    <3>3. AloneIsLatest(id)'
      BY <1>3, <2>2, <2>3, <2>4, <3>2 DEF AloneIsLatest, Insert
    <3>4. sessions'[id] = latest'[id]
      BY <1>3, <2>5, <3>1, <3>2 DEF AloneIsLatest, Insert, TypeOK
    <3>5. QED
      BY <2>4, <3>1, <3>3, <3>4 DEF MapIsLatest, RowIsLatest, HoldsLatest
  <2>6. CASE id # call[c].id
    <3>1. ~Observing(c, id)
      BY <2>6 DEF Observing
    <3>2. \A d \in Calls : Observing(d, id)' = Observing(d, id) /\ (Observing(d, id) => call'[d] = call[d])
      BY <2>2, <2>4, <3>1 DEF Observing
    <3>3. QED
      BY <1>3, <2>1, <2>6, <3>2, Untouched DEF Insert, Recorded, TypeOK
  <2>7. QED
    BY <2>5, <2>6
<1>4. ASSUME NEW c \in Calls, Save(c) \/ SaveFails(c) PROVE AloneIsLatest(id)' /\ MapIsLatest(id)' /\ RowIsLatest(id)'
  <2>1. id \notin excused /\ call[c].pc = "save"
    BY <1>4 DEF Save, SaveFails
  <2>2. \A d \in Calls : d # c => call'[d] = call[d]
    BY <1>4 DEF Save, SaveFails, TypeOK
  <2>3. call'[c] = Idle
    BY <1>4 DEF Save, SaveFails, TypeOK
  <2>4. CASE id = call[c].id
    <3>1. Observing(c, id) /\ AloneIsLatest(id) /\ MapIsLatest(id)
      BY <1>2, <2>1, <2>4 DEF Observing, Recorded
    <3>2. \A d \in Calls : ~Observing(d, id)'
      BY <2>2, <2>3, <3>1 DEF Observing, AloneIsLatest
    <3>3. HoldsLatest(sessions[id], id, Decay)
      BY <2>1, <3>1 DEF MapIsLatest, AloneIsLatest
    <3>4. HoldsLatest(sessions[id], id, Decay)'
      BY <1>4, <3>3 DEF HoldsLatest, Save, SaveFails
    <3>5. id \in unsaved' \/ rows'[id] = latest'[id]
      BY <1>4, <2>4, <3>1 DEF Save, SaveFails, AloneIsLatest, TypeOK
    <3>6. QED
      BY <3>2, <3>4, <3>5 DEF AloneIsLatest, MapIsLatest, RowIsLatest, HoldsLatest
  <2>5. CASE id # call[c].id
    <3>1. ~Observing(c, id) /\ ~Observing(c, id)'
      BY <2>3, <2>5 DEF Observing
    <3>2. \A d \in Calls : Observing(d, id)' = Observing(d, id) /\ (Observing(d, id) => call'[d] = call[d])
      BY <2>2, <3>1 DEF Observing
    <3>3. (id \in unsaved) = (id \in unsaved') /\ rows'[id] = rows[id]
      BY <1>2, <1>4, <2>1, <2>5 DEF Save, SaveFails, TypeOK
    <3>4. QED
      BY <1>4, <2>1, <3>2, <3>3, Untouched DEF Save, SaveFails, Recorded
  <2>6. QED
    BY <2>4, <2>5
<1>5. CASE Prune
  <2>1. id \notin excused /\ AloneIsLatest(id) /\ MapIsLatest(id) /\ RowIsLatest(id)
    BY <1>5 DEF Prune, Recorded
  <2>2. \A d \in Calls : Observing(d, id)' <=> Observing(d, id)
    BY <1>5 DEF Prune, Observing
  <2>3. RowIsLatest(id)'
    BY <1>5, <2>1, <2>2 DEF Prune, RowIsLatest, HoldsLatest
  <2>4. AloneIsLatest(id)' /\ MapIsLatest(id)'
    BY <1>5, <2>1, <2>2 DEF Prune, AloneIsLatest, MapIsLatest, HoldsLatest
  <2>5. QED
    BY <2>3, <2>4
<1>6. CASE Restart
  <2>1. id \notin excused /\ id \notin unsaved /\ \A c \in Calls : ~Observing(c, id)
    BY <1>6 DEF Restart
  <2>2. sessions'[id] = rows[id] /\ rows'[id] = rows[id]
    BY <1>6 DEF Restart
  <2>3. HoldsLatest(rows[id], id, Retain)
    BY <2>1 DEF Recorded, RowIsLatest
  <2>4. \A c \in Calls : ~Observing(c, id)'
    BY <1>6 DEF Restart, Observing
  <2>5. HoldsLatest(rows[id], id, Retain)' /\ HoldsLatest(rows[id], id, Decay)'
    <3>1. latest[id] # None => latest[id].at \in Nat
      BY DEF TypeOK, Snapshots
    <3>2. QED
      BY <1>6, <2>3, <3>1, TimesAssumption, RetainAssumption DEF Restart, HoldsLatest, TypeOK
  <2>6. QED
    BY <2>2, <2>4, <2>5 DEF AloneIsLatest, MapIsLatest, RowIsLatest, HoldsLatest
<1>7. CASE Tick
  <2>1. id \notin excused /\ AloneIsLatest(id) /\ MapIsLatest(id) /\ RowIsLatest(id)
    BY <1>7 DEF Tick, Recorded
  <2>2. latest[id] # None => latest[id].at \in Nat
    BY DEF TypeOK, Snapshots
  <2>3. \A d \in Calls : Observing(d, id)' <=> Observing(d, id)
    BY <1>7 DEF Tick, Observing
  <2>4. \A entry, age : age \in Nat /\ HoldsLatest(entry, id, age) =>
          entry = latest'[id] \/ (entry = None /\ latest'[id] # None /\ latest'[id].at < clock' - age)
    BY <1>7, <2>2, TimesAssumption DEF Tick, HoldsLatest, TypeOK
  <2>5. AloneIsLatest(id)'
    BY <1>7, <2>1, <2>3 DEF Tick, AloneIsLatest
  <2>6. MapIsLatest(id)'
    BY <1>7, <2>1, <2>3, <2>4, TimesAssumption DEF Tick, MapIsLatest, HoldsLatest
  <2>7. RowIsLatest(id)'
    BY <1>7, <2>1, <2>3, <2>4, TimesAssumption DEF Tick, RowIsLatest, HoldsLatest
  <2>8. QED
    BY <2>5, <2>6, <2>7
<1>8. CASE UNCHANGED vars
  <2>1. id \notin excused /\ AloneIsLatest(id) /\ MapIsLatest(id) /\ RowIsLatest(id)
    BY <1>8 DEF vars, Recorded
  <2>2. QED
    BY <1>8, <2>1 DEF vars, AloneIsLatest, MapIsLatest, RowIsLatest, HoldsLatest, Observing
<1>9. QED
  BY <1>1, <1>3, <1>4, <1>5, <1>6, <1>7, <1>8 DEF Next, Observe

LEMMA RecordedIsExact == TypeOK /\ Recorded => AlertsAreExact
<1> SUFFICES ASSUME TypeOK, Recorded PROVE AlertsAreExact
  OBVIOUS
<1>1. ASSUME NEW id \in Ids, ~Late(id)
      PROVE sessions[id] = latest[id] \/ (~IsActive(sessions[id]) /\ ~IsActive(latest[id]))
  <2>1. HoldsLatest(sessions[id], id, Decay)
    BY <1>1 DEF Late, Recorded, MapIsLatest
  <2>2. latest[id] # None => latest[id].at \in Nat
    BY DEF TypeOK, Snapshots
  <2>3. QED
    BY <2>1, <2>2, TimesAssumption DEF HoldsLatest, IsActive, TypeOK
<1>2. QED
  BY <1>1 DEF AlertsAreExact, Alerted, Active

(* What map and table hold of a session nobody raced is what it touched     *)
(* last, whatever the number of sessions and calls.                        *)
THEOREM RecordedCorrect == Spec => []Recorded
<1>1. QED
  BY InitTypeOK, NextTypeOK, InitRecorded, NextRecorded, PTL DEF Spec

(* Two sessions are alerted exactly if what each touched last clashes and   *)
(* is recent, after restarts and prunes as well.                           *)
THEOREM AlertsAreExactCorrect == Spec => []AlertsAreExact
<1>1. QED
  BY TypeCorrect, RecordedCorrect, RecordedIsExact, PTL
(***************************************************************************)
(* What an answer leaves out.  The pairs an answer is taken from come in a  *)
(* strict total order, so the number of pairs before one is its place.      *)
(***************************************************************************)
LEMMA SmallestOf == ASSUME NEW T \in SUBSET Nat, T # {} PROVE \E m \in T : \A n \in T : m <= n
<1>1. IsWellFoundedOn({p \in Nat \X Nat : p[1] < p[2]}, Nat)
  BY NatLessThanWellFounded DEF OpToRel
<1>2. PICK m \in T : \A n \in T : <<n, m>> \notin {p \in Nat \X Nat : p[1] < p[2]}
  BY <1>1, WFMin, Zenon
<1>3. ASSUME NEW n \in T PROVE m <= n
  <2>1. m \in Nat /\ n \in Nat /\ <<n, m>> \notin {p \in Nat \X Nat : p[1] < p[2]}
    BY <1>2
  <2>2. QED
    BY <2>1
<1>4. QED
  BY <1>3

LEMMA BeforeIsOrder ==
  ASSUME TypeOK, NEW asked
  PROVE  /\ IsFiniteSet(Clashing(asked))
         /\ \A p \in Clashing(asked) :
              /\ p \in Ids \X Ids /\ p \notin FoundBefore(asked, p)
              /\ FoundBefore(asked, p) \subseteq Clashing(asked)
         /\ \A p, q \in Clashing(asked) :
              /\ q \in FoundBefore(asked, p) => FoundBefore(asked, q) \subseteq FoundBefore(asked, p)
              /\ p = q \/ p \in FoundBefore(asked, q) \/ q \in FoundBefore(asked, p)
<1>1. Clashing(asked) \subseteq Ids \X Ids
  BY DEF Clashing, Compared, Active
<1>2. IsFiniteSet(Clashing(asked))
  BY <1>1, IdsAssumption, FS_Product, FS_Subset
<1>3. \A p, q \in Ids \X Ids : p = q <=> p[1] = q[1] /\ p[2] = q[2]
  OBVIOUS
<1>4. \A a, b, c \in Ids :
        /\ ~Precedes(asked, a, a)
        /\ Precedes(asked, a, b) /\ Precedes(asked, b, c) => Precedes(asked, a, c)
        /\ a = b \/ Precedes(asked, a, b) \/ Precedes(asked, b, a)
  BY IdsAssumption DEF Precedes
<1>5. \A p \in Clashing(asked) : p \notin FoundBefore(asked, p) /\ FoundBefore(asked, p) \subseteq Clashing(asked)
  BY <1>1, <1>4 DEF FoundBefore
<1>6. ASSUME NEW p \in Clashing(asked), NEW q \in Clashing(asked)
      PROVE  /\ q \in FoundBefore(asked, p) => FoundBefore(asked, q) \subseteq FoundBefore(asked, p)
             /\ p = q \/ p \in FoundBefore(asked, q) \/ q \in FoundBefore(asked, p)
  <2>1. p \in Ids \X Ids /\ q \in Ids \X Ids /\ \A r \in Clashing(asked) : r[1] \in Ids /\ r[2] \in Ids
    BY <1>1
  <2>2. q \in FoundBefore(asked, p) => FoundBefore(asked, q) \subseteq FoundBefore(asked, p)
    BY <2>1, <1>4 DEF FoundBefore
  <2>3. p = q \/ p \in FoundBefore(asked, q) \/ q \in FoundBefore(asked, p)
    BY <2>1, <1>3, <1>4 DEF FoundBefore
  <2>4. QED
    BY <2>2, <2>3
<1>7. QED
  BY <1>1, <1>2, <1>5, <1>6

(* A pair found before another has fewer pairs before it.                   *)
LEMMA FewerBefore ==
  ASSUME TypeOK, NEW asked, NEW p \in Clashing(asked), NEW q \in FoundBefore(asked, p)
  PROVE  /\ IsFiniteSet(FoundBefore(asked, p)) /\ q \in Clashing(asked)
         /\ Cardinality(FoundBefore(asked, q)) \in Nat /\ Cardinality(FoundBefore(asked, p)) \in Nat
         /\ Cardinality(FoundBefore(asked, q)) < Cardinality(FoundBefore(asked, p))
<1>1. q \in Clashing(asked) /\ q \notin FoundBefore(asked, q)
  BY BeforeIsOrder
<1>2. FoundBefore(asked, q) \subseteq FoundBefore(asked, p) /\ IsFiniteSet(FoundBefore(asked, p))
  BY <1>1, BeforeIsOrder, FS_Subset
<1>3. FoundBefore(asked, q) # FoundBefore(asked, p)
  BY <1>1
<1>4. QED
  BY <1>1, <1>2, <1>3, FS_Subset, FS_CardinalityType

Shown(asked, max) == {q \in Clashing(asked) : Cardinality(FoundBefore(asked, q)) < max}

LEMMA CapIsKept ==
  ASSUME TypeOK, NEW asked, NEW max \in Nat \ {0}
  PROVE  /\ IsFiniteSet(Shown(asked, max)) /\ Cardinality(Shown(asked, max)) <= max
         /\ Cardinality(Shown(asked, max)) < max => Shown(asked, max) = Clashing(asked)
<1> DEFINE S == Shown(asked, max)
           place == [p \in S |-> Cardinality(FoundBefore(asked, p))]
<1>1. S \subseteq Clashing(asked) /\ IsFiniteSet(S)
  BY BeforeIsOrder, FS_Subset DEF Shown
<1>2. \A p \in Clashing(asked) : Cardinality(FoundBefore(asked, p)) \in Nat
  BY BeforeIsOrder, FS_Subset, FS_CardinalityType
<1>3. place \in [S -> 0..(max - 1)]
  BY <1>1, <1>2 DEF Shown
<1>4. \A p, q \in S : place[p] = place[q] => p = q
  <2>1. SUFFICES ASSUME NEW p \in S, NEW q \in S, p # q PROVE place[p] # place[q]
    OBVIOUS
  <2>2. p \in FoundBefore(asked, q) \/ q \in FoundBefore(asked, p)
    BY <1>1, <2>1, BeforeIsOrder
  <2>3. QED
    BY <1>1, <2>2, FewerBefore
<1>5. Cardinality(S) <= max
  <2>1. place \in Injection(S, 0..(max - 1))
    BY <1>3, <1>4, Fun_IsInj
  <2>2. IsFiniteSet(0..(max - 1)) /\ Cardinality(0..(max - 1)) = max
    BY FS_Interval
  <2>3. QED
    BY <2>1, <2>2, FS_Injection
<1>6. ASSUME S # Clashing(asked) PROVE ~(Cardinality(S) < max)
  <2> DEFINE places == {Cardinality(FoundBefore(asked, p)) : p \in Clashing(asked) \ S}
  <2>1. places \in SUBSET Nat /\ places # {}
    BY <1>1, <1>2, <1>6
  <2>2. PICK m \in places : \A n \in places : m <= n
    BY <2>1, SmallestOf
  <2>3. PICK p \in Clashing(asked) \ S : m = Cardinality(FoundBefore(asked, p))
    BY <2>2
  <2>4. FoundBefore(asked, p) \subseteq S
    <3>1. SUFFICES ASSUME NEW q \in FoundBefore(asked, p), q \notin S PROVE FALSE
      OBVIOUS
    <3>2. q \in Clashing(asked) /\ Cardinality(FoundBefore(asked, q)) < m /\ Cardinality(FoundBefore(asked, q)) \in Nat
      BY <2>3, FewerBefore
    <3>3. Cardinality(FoundBefore(asked, q)) \in places
      BY <3>1, <3>2
    <3>4. QED
      BY <2>1, <2>2, <3>2, <3>3
  <2>5. ~(m < max) /\ m \in Nat
    BY <1>2, <2>3 DEF Shown
  <2>6. m <= Cardinality(S) /\ Cardinality(S) \in Nat
    BY <1>1, <2>3, <2>4, FS_Subset, FS_CardinalityType
  <2>7. QED
    BY <2>5, <2>6
<1>7. QED
  BY <1>1, <1>5, <1>6

(* The order the two sessions are given in does not matter.                 *)
LEMMA ClashIsSymmetric == \A s, t : Clash(s, t) => Clash(t, s)
<1>1. SUFFICES ASSUME NEW s, NEW t, Clash(s, t) PROVE Clash(t, s)
  OBVIOUS
<1>2. s.cone \cap t.cone = t.cone \cap s.cone /\ {Cardinality(s.cone), Cardinality(t.cone)} = {Cardinality(t.cone), Cardinality(s.cone)}
  OBVIOUS
<1>3. QED
  BY <1>1, <1>2, Zenon DEF Clash

AllPairs == {{e[1], e[2]} : e \in {e \in Ids \X Ids : e[1] # e[2] /\ Alerted(e[1], e[2])}}

LEMMA ClashingAreAlerted ==
  ASSUME TypeOK, NEW asked, asked \in Active \/ asked = None
  PROVE  {{p[1], p[2]} : p \in Clashing(asked)} = AllPairs
<1>1. Compared(asked) = Active /\ Active \subseteq Ids
  BY DEF Compared, Active
<1>2. ASSUME NEW p \in Clashing(asked) PROVE {p[1], p[2]} \in AllPairs
  BY <1>1 DEF Clashing, AllPairs, Alerted, Precedes
<1>3. ASSUME NEW e \in Ids \X Ids, e[1] # e[2], Alerted(e[1], e[2])
      PROVE  \E p \in Clashing(asked) : {p[1], p[2]} = {e[1], e[2]}
  <2>1. CASE Precedes(asked, e[1], e[2])
    BY <1>1, <1>3, <2>1 DEF Clashing, Alerted
  <2>2. CASE Precedes(asked, e[2], e[1])
    <3>1. Clash(sessions[e[2]], sessions[e[1]])
      BY <1>3, ClashIsSymmetric DEF Alerted
    <3>2. <<e[2], e[1]>> \in Clashing(asked)
      BY <1>1, <1>3, <2>2, <3>1 DEF Clashing, Alerted
    <3>3. QED
      BY <3>2
  <2>3. QED
    <3>1. e[1] \in Nat /\ e[2] \in Nat /\ e[1] # e[2]
      BY <1>3, IdsAssumption
    <3>2. Precedes(asked, e[1], e[2]) \/ Precedes(asked, e[2], e[1])
      BY <3>1 DEF Precedes
    <3>3. QED
      BY <2>1, <2>2, <3>2
<1>4. ASSUME NEW o \in AllPairs PROVE \E p \in Clashing(asked) : {p[1], p[2]} = o
  <2>1. PICK e \in Ids \X Ids : e[1] # e[2] /\ Alerted(e[1], e[2]) /\ o = {e[1], e[2]}
    BY DEF AllPairs
  <2>2. QED
    BY <1>3, <2>1
<1>5. QED
  BY <1>2, <1>4

(* A clashing pair is found in one order of its sessions, the order of their *)
(* places.                                                                 *)
LEMMA PlacesOfPair ==
  ASSUME TypeOK, NEW asked, NEW p \in Clashing(asked)
  PROVE  /\ p = <<p[1], p[2]>> /\ p[1] \in Ids /\ p[2] \in Ids
         /\ Place(asked, p[1]) \in Int /\ Place(asked, p[2]) \in Int /\ Place(asked, p[1]) < Place(asked, p[2])
         /\ Min({Place(asked, id) : id \in {p[1], p[2]}}) = Place(asked, p[1])
         /\ Max({Place(asked, id) : id \in {p[1], p[2]}}) = Place(asked, p[2])
<1>1. p \in Active \X Active /\ Precedes(asked, p[1], p[2]) /\ Active \subseteq Ids
  BY DEF Clashing, Compared, Active
<1>2. p = <<p[1], p[2]>> /\ p[1] \in Ids /\ p[2] \in Ids /\ p[1] \in Nat /\ p[2] \in Nat
  <2>1. p \in Active \X Active /\ Active \subseteq Ids
    BY <1>1
  <2>2. p = <<p[1], p[2]>> /\ p[1] \in Ids /\ p[2] \in Ids
    BY ONLY <2>1
  <2>3. p[1] \in Nat /\ p[2] \in Nat
    BY ONLY <2>2, IdsAssumption
  <2>4. QED
    BY ONLY <2>2, <2>3
<1>3. PICK a, b : a = Place(asked, p[1]) /\ b = Place(asked, p[2])
  OBVIOUS
<1>4. a \in Int /\ b \in Int /\ a < b
  BY <1>1, <1>2, <1>3 DEF Precedes, Place
<1>5. {Place(asked, id) : id \in {p[1], p[2]}} = {a, b}
  BY <1>3
<1>6. Min({a, b}) = a /\ Max({a, b}) = b
  <2>1. \A x \in {a, b} : (\A y \in {a, b} : x <= y) <=> x = a
    BY <1>4
  <2>2. \A x \in {a, b} : (\A y \in {a, b} : x >= y) <=> x = b
    BY <1>4
  <2>3. QED
    BY <2>1, <2>2 DEF Min, Max
<1>7. QED
  BY <1>2, <1>3, <1>4, <1>5, <1>6

LEMMA SamePlace ==
  ASSUME NEW asked, NEW a \in Ids, NEW b \in Ids, Place(asked, a) = Place(asked, b) PROVE a = b
<1>1. a \in Nat /\ b \in Nat
  BY IdsAssumption
<1>2. QED
  BY <1>1 DEF Place

LEMMA EarlierPlace ==
  ASSUME NEW asked, NEW a \in Ids, NEW b \in Ids, Place(asked, a) < Place(asked, b) PROVE Precedes(asked, a, b)
<1>1. a \in Nat /\ b \in Nat
  BY IdsAssumption
<1>2. QED
  BY <1>1 DEF Place, Precedes

LEMMA PairOnce ==
  ASSUME TypeOK, NEW asked, NEW p \in Clashing(asked), NEW q \in Clashing(asked), {p[1], p[2]} = {q[1], q[2]}
  PROVE  p = q
<1>1. Place(asked, p[1]) = Place(asked, q[1]) /\ Place(asked, p[2]) = Place(asked, q[2])
  <2>1. PICK X, Y : X = {Place(asked, id) : id \in {p[1], p[2]}} /\ Y = {Place(asked, id) : id \in {q[1], q[2]}}
    OBVIOUS
  <2>2. X = Y
    BY <2>1
  <2>3. Min(X) = Place(asked, p[1]) /\ Max(X) = Place(asked, p[2])
    BY ONLY <2>1, TypeOK, p \in Clashing(asked), PlacesOfPair
  <2>4. Min(Y) = Place(asked, q[1]) /\ Max(Y) = Place(asked, q[2])
    BY ONLY <2>1, TypeOK, q \in Clashing(asked), PlacesOfPair
  <2>5. QED
    BY ONLY <2>2, <2>3, <2>4
<1>2. p = <<p[1], p[2]>> /\ p[1] \in Ids /\ p[2] \in Ids
  BY ONLY TypeOK, p \in Clashing(asked), PlacesOfPair
<1>3. q = <<q[1], q[2]>> /\ q[1] \in Ids /\ q[2] \in Ids
  BY ONLY TypeOK, q \in Clashing(asked), PlacesOfPair
<1>4. p[1] = q[1] /\ p[2] = q[2]
  BY ONLY <1>1, <1>2, <1>3, SamePlace
<1>5. QED
  BY ONLY <1>2, <1>3, <1>4

LEMMA EarlierIsFoundBefore ==
  ASSUME TypeOK, NEW asked, NEW p \in Clashing(asked), NEW q \in Clashing(asked),
         RanksBefore(asked, {p[1], p[2]}, {q[1], q[2]})
  PROVE  p \in FoundBefore(asked, q)
<1>1. PICK a, b, c, d : a = Place(asked, p[1]) /\ b = Place(asked, p[2]) /\ c = Place(asked, q[1]) /\ d = Place(asked, q[2])
  OBVIOUS
<1>2. a < c \/ (a = c /\ b < d)
  BY <1>1, PlacesOfPair DEF RanksBefore
<1>3. p[1] \in Ids /\ p[2] \in Ids /\ q[1] \in Ids /\ q[2] \in Ids
  BY ONLY TypeOK, p \in Clashing(asked), q \in Clashing(asked), PlacesOfPair
<1>4. Precedes(asked, p[1], q[1]) \/ (p[1] = q[1] /\ Precedes(asked, p[2], q[2]))
  BY <1>1, <1>2, <1>3, EarlierPlace, SamePlace
<1>5. QED
  BY <1>4 DEF FoundBefore

LEMMA AnswersAreFair ==
  ASSUME TypeOK, NEW asked, asked \in Active \/ asked = None, NEW max \in Nat \ {0}
  PROVE  AnswersFairly(asked, max)
<1> DEFINE S == Shown(asked, max)
           ans == Conflicts(asked, max)
           report == [p \in S |-> [sessions |-> p, error |-> DirectTouch(sessions[p[1]], sessions[p[2]])]]
           pairs == {{r.sessions[1], r.sessions[2]} : r \in ans}
<1>1. ans = {report[p] : p \in S}
  <2>1. Max({max, 1}) = max
    <3>1. \A x \in {max, 1} : max >= x
      OBVIOUS
    <3>2. QED
      BY <3>1 DEF Max
  <2>2. QED
    BY <2>1 DEF Conflicts, Shown
<1>2. IsFiniteSet(ans) /\ Cardinality(ans) = Cardinality(S)
  <2>1. report \in Bijection(S, ans)
    <3>1. report \in [S -> ans] /\ \A r \in ans : \E p \in S : report[p] = r
      BY <1>1
    <3>2. \A p, q \in S : report[p] = report[q] => p = q
      OBVIOUS
    <3>3. QED
      BY <3>1, <3>2, Fun_IsBij
  <2>2. ExistsBijection(S, ans)
    BY <2>1 DEF ExistsBijection
  <2>3. QED
    BY <2>2, CapIsKept, FS_Bijection
<1>3. pairs = {{p[1], p[2]} : p \in S}
  <2>1. \A p \in S : report[p].sessions = p
    OBVIOUS
  <2>2. ASSUME NEW r \in ans PROVE {r.sessions[1], r.sessions[2]} \in {{p[1], p[2]} : p \in S}
    BY <1>1, <2>1
  <2>3. ASSUME NEW p \in S PROVE {p[1], p[2]} \in pairs
    <3>1. report[p] \in ans /\ report[p].sessions = p
      BY <1>1, <2>1
    <3>2. QED
      BY <3>1
  <2>4. QED
    BY <2>2, <2>3
<1>4. S \subseteq Clashing(asked) /\ pairs \subseteq AllPairs
  <2>1. S \subseteq Clashing(asked)
    BY DEF Shown
  <2>2. {{p[1], p[2]} : p \in S} \subseteq {{p[1], p[2]} : p \in Clashing(asked)}
    BY <2>1
  <2>3. QED
    BY <1>3, <2>1, <2>2, ClashingAreAlerted
<1>5. Cardinality(ans) < max => pairs = AllPairs
  BY <1>2, <1>3, CapIsKept, ClashingAreAlerted
<1>6. ASSUME NEW o \in AllPairs \ pairs, NEW s \in pairs, RanksBefore(asked, o, s) PROVE FALSE
  <2>1. PICK p \in Clashing(asked) : o = {p[1], p[2]}
    BY ClashingAreAlerted
  <2>2. PICK q \in S : s = {q[1], q[2]}
    BY <1>3
  <2>3. q \in Clashing(asked)
    BY <1>4, <2>2
  <2>4. p \in FoundBefore(asked, q)
    BY <1>6, <2>1, <2>2, <2>3, EarlierIsFoundBefore
  <2>5. p \in S
    BY <2>2, <2>3, <2>4, FewerBefore DEF Shown
  <2>6. QED
    BY <1>3, <1>6, <2>1, <2>5
<1>7. Cardinality(ans) <= max
  BY <1>2, CapIsKept
<1>8. Cardinality(ans) = Cardinality(pairs)
  <2> DEFINE two == [p \in S |-> {p[1], p[2]}]
  <2>1. two \in Bijection(S, pairs)
    <3>1. two \in [S -> pairs] /\ \A s \in pairs : \E p \in S : two[p] = s
      BY <1>3
    <3>2. ASSUME NEW p \in S, NEW q \in S, two[p] = two[q] PROVE p = q
      <4>1. p \in Clashing(asked) /\ q \in Clashing(asked) /\ {p[1], p[2]} = {q[1], q[2]}
        BY <1>4, <3>2
      <4>2. QED
        BY <4>1, PairOnce
    <3>3. QED
      BY <3>1, <3>2, Fun_IsBij
  <2>2. ExistsBijection(S, pairs)
    BY <2>1 DEF ExistsBijection
  <2>3. QED
    BY <1>2, <2>2, CapIsKept, FS_Bijection
<1>9. QED
  BY <1>4, <1>5, <1>6, <1>7, <1>8 DEF AnswersFairly, AllPairs

(* Whoever asks and whatever the cap of the answer: no alert is given twice, *)
(* none is left out below the cap, and none that ranks before a given one.  *)
THEOREM OwnAlertsFirstCorrect == Spec => []OwnAlertsFirst
<1>1. ASSUME TypeOK PROVE OwnAlertsFirst
  <2>1. SUFFICES ASSUME NEW asked \in Active \cup {None}, NEW max \in 1..(Cardinality(Clashing(asked)) + 1)
                 PROVE  AnswersFairly(asked, max)
    BY DEF OwnAlertsFirst
  <2>2. Cardinality(Clashing(asked)) \in Nat
    BY <1>1, BeforeIsOrder, FS_CardinalityType
  <2>3. max \in Nat \ {0} /\ (asked \in Active \/ asked = None)
    BY <2>1, <2>2
  <2>4. QED
    BY <1>1, <2>3, AnswersAreFair
<1>2. QED
  BY <1>1, TypeCorrect, PTL
============================================================================
