------------------------- MODULE SessionConflicts -------------------------
(***************************************************************************)
(* session_conflicts.rs: which sessions touched what lately, in a map and,  *)
(* for the next daemon, in a table.  An observation takes its time and cone *)
(* first, then replaces the session's entry in the map and, in a separate   *)
(* store call, its row; the worker and checks observe concurrently.  A      *)
(* session is a number, in the order of the map.  A blank session id is     *)
(* ignored by the code and is none of Ids.                                  *)
(***************************************************************************)
EXTENDS Integers, Ordering

CONSTANTS
  Ids,      \* session ids, those the plugin and the daemon make up included
  Calls,    \* calls that may observe at the same time
  None,
  Edits,    \* sets of files an observation may be about
  Cones,    \* Cones[S]: the files within two imports of the indexed ones of S
  Decay,    \* thresholds.session_conflict_decay_ms
  Retain,   \* telemetry.retain_days
  Percent,  \* thresholds.session_conflict_overlap, in hundredths
  LastEdit, \* bound: no observation begins later
  MaxObservations, \* bound on their number
  MaxTime   \* bound of the clock

ASSUME IdsAssumption   ==
  Ids \subseteq Nat /\ IsFiniteSet(Ids) /\ None \notin [at : Nat, files : Edits, cone : {Cones[S] : S \in Edits}]
ASSUME TimesAssumption == Decay \in Nat /\ Retain \in Nat /\ LastEdit \in Nat /\ MaxObservations \in Nat /\ MaxTime \in Nat
(* True of the defaults (15 minutes, 14 days), not enforced by the code.    *)
ASSUME RetainAssumption == Decay <= Retain

VARIABLES
  clock,
  sessions,  \* the tracker's map: the last snapshot of each session, or None
  rows,      \* table sessions
  call,      \* call[c]: the observation under way
  latest,    \* history: the snapshot each session took last, or None
  excused,   \* history: sessions of which two observations overlapped, or one was lost
  unsaved,   \* history: sessions whose last row could not be written
  observations
vars == <<clock, sessions, rows, call, latest, excused, unsaved, observations>>

Snapshots == [at : 0..MaxTime, files : Edits, cone : {Cones[S] : S \in Edits}]
Idle == [pc |-> "idle"]
Observing(c, id) == call[c] # Idle /\ call[c].id = id

TypeOK ==
  /\ clock \in 0..MaxTime
  /\ sessions \in [Ids -> Snapshots \cup {None}]
  /\ rows \in [Ids -> Snapshots \cup {None}]
  /\ latest \in [Ids -> Snapshots \cup {None}]
  /\ call \in [Calls -> {Idle} \cup [pc : {"insert", "save"}, id : Ids, snapshot : Snapshots]]
  /\ excused \subseteq Ids /\ unsaved \subseteq Ids
  /\ observations \in 0..MaxObservations

Init ==
  /\ clock = 0
  /\ sessions = [id \in Ids |-> None] /\ rows = sessions /\ latest = sessions
  /\ call = [c \in Calls |-> Idle]
  /\ excused = {} /\ unsaved = {} /\ observations = 0

(***************************************************************************)
(* observe.                                                                *)
(***************************************************************************)
(* Mutant of SeenAt: the end of the session's time instead of its start.    *)
SeenAtEnd == clock + Decay

(* The clock is read before the cone is computed; nothing is written then.  *)
SeenAt == clock

Snapshot(c) ==
  /\ call[c] = Idle /\ clock <= LastEdit /\ observations < MaxObservations
  /\ observations' = observations + 1
  /\ \E id \in Ids, S \in Edits :
       LET snapshot == [at |-> SeenAt, files |-> S, cone |-> Cones[S]] IN
       /\ call' = [call EXCEPT ![c] = [pc |-> "insert", id |-> id, snapshot |-> snapshot]]
       /\ latest' = [latest EXCEPT ![id] = snapshot]
       /\ excused' = IF \E d \in Calls : Observing(d, id) THEN excused \cup {id} ELSE excused \ {id}
  /\ UNCHANGED <<clock, sessions, rows, unsaved>>

(* The snapshot replaces the former one: files touched before are forgotten.*)
Insert(c) ==
  /\ call[c].pc = "insert"
  /\ sessions' = [sessions EXCEPT ![call[c].id] = call[c].snapshot]
  /\ call' = [call EXCEPT ![c].pc = "save"]
  /\ UNCHANGED <<clock, rows, latest, excused, unsaved, observations>>

Save(c) ==
  /\ call[c].pc = "save"
  /\ rows' = [rows EXCEPT ![call[c].id] = call[c].snapshot]
  /\ unsaved' = unsaved \ {call[c].id}
  /\ call' = [call EXCEPT ![c] = Idle]
  /\ UNCHANGED <<clock, sessions, latest, excused, observations>>

(* index_paths_now drops the error of an observation.                      *)
SaveFails(c) ==
  /\ call[c].pc = "save"
  /\ unsaved' = unsaved \cup {call[c].id}
  /\ call' = [call EXCEPT ![c] = Idle]
  /\ UNCHANGED <<clock, sessions, rows, latest, excused, observations>>

(***************************************************************************)
(* maintain prunes old rows, not the map; a new daemon starts from the      *)
(* rows, or from nothing when they cannot be read.                          *)
(***************************************************************************)
(* Mutant of Prune: the cutoff itself is pruned.                        *)
PruneUpTo ==
  /\ rows' = [id \in Ids |-> IF rows[id] # None /\ rows[id].at <= clock - Retain THEN None ELSE rows[id]]
  /\ UNCHANGED <<clock, sessions, call, latest, excused, unsaved, observations>>

Prune ==
  /\ rows' = [id \in Ids |-> IF rows[id] # None /\ rows[id].at < clock - Retain THEN None ELSE rows[id]]
  /\ UNCHANGED <<clock, sessions, call, latest, excused, unsaved, observations>>

Restart ==
  LET lost == {id \in Ids : \E c \in Calls : Observing(c, id)} IN
  /\ \/ sessions' = rows /\ excused' = excused \cup unsaved \cup lost
     \/ sessions' = [id \in Ids |-> None] /\ excused' = Ids
  /\ call' = [c \in Calls |-> Idle]
  /\ UNCHANGED <<clock, rows, latest, unsaved, observations>>

Tick == clock < MaxTime /\ clock' = clock + 1 /\ UNCHANGED <<sessions, rows, call, latest, excused, unsaved, observations>>

Observe(c) == Snapshot(c) \/ Insert(c) \/ Save(c) \/ SaveFails(c)
Next == (\E c \in Calls : Observe(c)) \/ Prune \/ Restart \/ Tick
Spec == Init /\ [][Next]_vars
(* Time passes.                                                            *)
FairSpec == Spec /\ WF_vars(Tick)

(***************************************************************************)
(* conflicts.                                                              *)
(***************************************************************************)
IsActive(s) == s # None /\ clock - s.at <= Decay
Active == {id \in Ids : IsActive(sessions[id])}

Clash(s, t) ==
  LET overlap == s.cone \cap t.cone
      least   == Min({Cardinality(s.cone), Cardinality(t.cone)})
  IN overlap # {} /\ 100 * Cardinality(overlap) >= Percent * Max({least, 1})
DirectTouch(s, t) == s.files \cap t.files # {}

(* Mutant of Precedes: the asked session keeps its place.                   *)
PrecedesInPlace(asked, a, b) == a < b

(* Sessions are looked at in the order of the map, the asked one first; if  *)
(* it is not active, nothing is compared.                                  *)
Precedes(asked, a, b) == a # b /\ (a = asked \/ (b # asked /\ a < b))
Compared(asked) == IF asked = None \/ asked \in Active THEN Active ELSE {}

(* The clashing pairs, and the order of the two loops that find them.       *)
Clashing(asked) ==
  {p \in Compared(asked) \X Compared(asked) :
     Precedes(asked, p[1], p[2]) /\ Clash(sessions[p[1]], sessions[p[2]])}
FoundBefore(asked, p) ==
  {q \in Clashing(asked) : Precedes(asked, q[1], p[1]) \/ (q[1] = p[1] /\ Precedes(asked, q[2], p[2]))}

Conflicts(asked, max) ==
  {[sessions |-> p, error |-> DirectTouch(sessions[p[1]], sessions[p[2]])] :
     p \in {q \in Clashing(asked) : Cardinality(FoundBefore(asked, q)) < Max({max, 1})}}

(***************************************************************************)
(* Properties.                                                             *)
(***************************************************************************)
Alerted(a, b) == a \in Active /\ b \in Active /\ Clash(sessions[a], sessions[b])
Late(id) == id \in excused \/ \E c \in Calls : Observing(c, id) /\ call[c].pc = "insert"

(* Two sessions are alerted exactly if what each touched last clashes and   *)
(* is recent, restarts and pruned rows notwithstanding.  Sessions whose     *)
(* observations raced each other or were lost are excused: then an older    *)
(* snapshot may have the last word.                                        *)
AlertsAreExact ==
  \A a, b \in Ids : a # b /\ ~Late(a) /\ ~Late(b) =>
    (Alerted(a, b) <=> IsActive(latest[a]) /\ IsActive(latest[b]) /\ Clash(latest[a], latest[b]))

(* The rank of an alert: the asked session comes first, the others in the   *)
(* order of their names; of two alerts the one with the earlier session     *)
(* ranks first, then the one whose other session is earlier.               *)
Place(asked, id) == IF id = asked THEN -1 ELSE id
RanksBefore(asked, p, q) ==
  LET low(s)  == Min({Place(asked, id) : id \in s})
      high(s) == Max({Place(asked, id) : id \in s})
  IN low(p) < low(q) \/ (low(p) = low(q) /\ high(p) < high(q))

(* Whoever asks and whatever the cap: the answer keeps the cap, gives no     *)
(* alert twice and only those there are, leaves none out while it is below   *)
(* the cap, and none that ranks before one it gives; so an alert about the   *)
(* asked session is never left out for one about others.                   *)
AnswersFairly(asked, max) ==
  LET pairs == {{r.sessions[1], r.sessions[2]} : r \in Conflicts(asked, max)}
      all   == {{e[1], e[2]} : e \in {e \in Ids \X Ids : e[1] # e[2] /\ Alerted(e[1], e[2])}}
      count == Cardinality(Conflicts(asked, max))
  IN /\ count <= max /\ count = Cardinality(pairs)
     /\ pairs \subseteq all
     /\ count < max => pairs = all
     /\ \A p \in all \ pairs, q \in pairs : ~RanksBefore(asked, p, q)
OwnAlertsFirst ==
  \A asked \in Active \cup {None} : \A max \in 1..(Cardinality(Clashing(asked)) + 1) : AnswersFairly(asked, max)

(* Idle sessions expire: once edits stop, alerts do, and a restart does not *)
(* bring them back.                                                        *)
IdleSessionsExpire == <>[](Conflicts(None, 1) = {})
===========================================================================
