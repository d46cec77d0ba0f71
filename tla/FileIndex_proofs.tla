------------------------- MODULE FileIndex_proofs -------------------------
(***************************************************************************)
(* Proofs about FileIndex for any files, texts, sessions, checks and        *)
(* rebuilds, crashes included: the types, that a row behind its file has a  *)
(* cause, and that a check reads fresh rows unless it was raced.            *)
(***************************************************************************)
EXTENDS FileIndex, WellFoundedInduction, TLAPS

Batches == [session : Sessions, files : (SUBSET Files) \ {{}}]

(* A batch that is not empty has a first file.                             *)
LEMMA CurrentIsTodo == ASSUME NEW fs \in SUBSET Files, fs # {} PROVE First(fs) \in fs
<1>1. fs \subseteq Nat
  BY FilesAssumption
<1>2. IsWellFoundedOn({p \in Nat \X Nat : p[1] < p[2]}, Nat)
  BY NatLessThanWellFounded DEF OpToRel
<1>3. PICK f \in fs : \A g \in fs : <<g, f>> \notin {p \in Nat \X Nat : p[1] < p[2]}
  BY <1>1, <1>2, WFMin, Zenon
<1>4. ASSUME NEW g \in fs PROVE f <= g
  <2>1. f \in Nat /\ g \in Nat /\ <<g, f>> \notin {p \in Nat \X Nat : p[1] < p[2]}
    BY <1>1, <1>3
  <2>2. QED
    BY <2>1
<1>5. QED
  BY <1>4 DEF First

(* TypeOK without its last conjunct, and that conjunct for one task.        *)
VarTypes ==
  /\ disk \in [Files -> Text] /\ edits \in 0..MaxEdits
  /\ pending \in [Sessions -> SUBSET Files]
  /\ queue \in Seq(Batches) /\ Len(queue) <= Capacity
  /\ row \in [Files -> Text] /\ detail \in [Files -> Text]
  /\ tracked \in [SessionIds -> SUBSET Files]
  /\ baseline \in [Files -> Text]
  /\ task \in [Tasks -> TaskState]
  /\ suspect \subseteq Files

LocalOK(l) ==
  /\ l.pc \in {"remove", "read", "compare", "upsert"} => l.todo # {}
  /\ l.pc \in {"compare", "upsert"} <=> l.source # Absent
  /\ l.todo \cup l.quiet \subseteq l.batch

LEMMA TypeParts == TypeOK <=> VarTypes /\ \A t \in Tasks : LocalOK(task[t])
BY DEF TypeOK, VarTypes, LocalOK, Batches

LEMMA IdleOK == IdleTask \in TaskState /\ LocalOK(IdleTask) /\ NoText \in [Files -> Text]
BY DEF IdleTask, TaskState, LocalOK, NoText, Pcs, SessionIds, Text

LEMMA BegunOK ==
  ASSUME NEW s \in SessionIds, NEW fs \in SUBSET Files
  PROVE  LET l == [IdleTask EXCEPT !.pc = "probe", !.session = s, !.batch = fs, !.todo = fs, !.quiet = fs]
         IN  l \in TaskState /\ LocalOK(l)
BY IdleOK DEF IdleTask, TaskState, LocalOK, Pcs

LEMMA QuietFields ==
  ASSUME NEW l \in TaskState, NEW f
  PROVE  LET m == [l EXCEPT !.quiet = @ \ {f}]
         IN  m.pc = l.pc /\ m.todo = l.todo /\ m.source = l.source /\ m.quiet = l.quiet \ {f}
BY DEF TaskState

LEMMA QuietLess ==
  ASSUME NEW l \in TaskState, LocalOK(l), NEW f
  PROVE  [l EXCEPT !.quiet = @ \ {f}] \in TaskState /\ LocalOK([l EXCEPT !.quiet = @ \ {f}])
BY DEF TaskState, LocalOK

---------------------------------------------------------------------------
LEMMA InitTypeOK == Init => TypeOK
<1> SUFFICES ASSUME Init PROVE TypeOK
  OBVIOUS
<1>1. VarTypes
  BY IdleOK, BoundsAssumption DEF Init, VarTypes
<1>2. \A t \in Tasks : LocalOK(task[t])
  BY IdleOK DEF Init
<1>3. QED
  BY <1>1, <1>2, TypeParts

(* A step of one task that leaves a good local state and the other types.   *)
LEMMA TaskStep ==
  ASSUME TypeOK, NEW t \in Tasks, NEW l \in TaskState, LocalOK(l), task' = [task EXCEPT ![t] = l],
         disk' \in [Files -> Text], edits' \in 0..MaxEdits, pending' \in [Sessions -> SUBSET Files],
         queue' \in Seq(Batches), Len(queue') <= Capacity,
         row' \in [Files -> Text], detail' \in [Files -> Text],
         tracked' \in [SessionIds -> SUBSET Files], baseline' \in [Files -> Text], suspect' \subseteq Files
  PROVE  TypeOK'
<1>1. task' \in [Tasks -> TaskState] /\ \A u \in Tasks : LocalOK(task'[u])
  BY TypeParts DEF VarTypes
<1>2. VarTypes'
  BY <1>1 DEF VarTypes
<1>3. (\A u \in Tasks : LocalOK(task[u]))'
  BY <1>1
<1>4. QED
  BY <1>2, <1>3, TypeParts DEF TypeOK, VarTypes, LocalOK, Batches

(* The steps that leave the tasks alone, or begin them all anew.            *)
LEMMA AllTasksStep ==
  ASSUME TypeOK, task' \in [Tasks -> TaskState], \A t \in Tasks : LocalOK(task'[t]),
         disk' \in [Files -> Text], edits' \in 0..MaxEdits, pending' \in [Sessions -> SUBSET Files],
         queue' \in Seq(Batches), Len(queue') <= Capacity,
         row' \in [Files -> Text], detail' \in [Files -> Text],
         tracked' = tracked, baseline' = baseline, suspect' \subseteq Files
  PROVE  TypeOK'
BY DEF TypeOK, VarTypes, LocalOK, Batches

(* Every type is kept by every step.                                       *)
LEMMA NextTypeOK == TypeOK /\ [Next]_vars => TypeOK'
<1> SUFFICES ASSUME TypeOK, [Next]_vars PROVE TypeOK'
  OBVIOUS
<1>1. VarTypes /\ \A t \in Tasks : LocalOK(task[t])
  BY TypeParts
<1> USE DEF VarTypes
<1>2. ASSUME NEW f \in Files, NEW c \in Text, NEW s \in Sessions, Edit(s, f, c) PROVE TypeOK'
  <2>1. task' \in [Tasks -> TaskState] /\ \A t \in Tasks : LocalOK(task'[t])
    BY <1>1, <1>2, QuietLess DEF Edit
  <2>2. disk' \in [Files -> Text] /\ edits' \in 0..MaxEdits /\ pending' \in [Sessions -> SUBSET Files]
    BY <1>1, <1>2, BoundsAssumption DEF Edit
  <2>3. UNCHANGED <<queue, row, detail, tracked, baseline, suspect>>
    BY <1>2 DEF Edit, storeVars
  <2>4. QED
    BY <1>1, <2>1, <2>2, <2>3, AllTasksStep
<1>3. ASSUME NEW f \in Files, NEW c \in Text, EditUnreported(f, c) PROVE TypeOK'
  <2>1. task' \in [Tasks -> TaskState] /\ \A t \in Tasks : LocalOK(task'[t])
    BY <1>1, <1>3, QuietLess DEF EditUnreported
  <2>2. disk' \in [Files -> Text] /\ edits' \in 0..MaxEdits /\ suspect' \subseteq Files
    BY <1>1, <1>3, BoundsAssumption DEF EditUnreported
  <2>3. UNCHANGED <<pending, queue, row, detail, tracked, baseline>>
    BY <1>3 DEF EditUnreported, storeVars
  <2>4. QED
    BY <1>1, <2>1, <2>2, <2>3, AllTasksStep
<1>4. ASSUME NEW s \in Sessions, Enqueue(s) PROVE TypeOK'
  <2>1. [session |-> s, files |-> pending[s]] \in Batches
    BY <1>1, <1>4 DEF Enqueue, Batches
  <2>2. queue' \in Seq(Batches) /\ Len(queue') <= Capacity
    BY <1>1, <1>4, <2>1, BoundsAssumption DEF Enqueue
  <2>3. pending' \in [Sessions -> SUBSET Files] /\ UNCHANGED <<disk, edits, row, detail, tracked, baseline, task, suspect>>
    BY <1>1, <1>4 DEF Enqueue, storeVars
  <2>4. QED
    BY <1>1, <2>2, <2>3, AllTasksStep
<1>5. ASSUME NEW s \in Sessions, DropBatch(s) PROVE TypeOK'
  <2>1. pending' \in [Sessions -> SUBSET Files] /\ suspect' \subseteq Files
        /\ UNCHANGED <<disk, edits, queue, row, detail, tracked, baseline, task>>
    BY <1>1, <1>5 DEF DropBatch, storeVars
  <2>2. QED
    BY <1>1, <2>1, AllTasksStep
<1>6. CASE WorkerReceive
  <2>1. Head(queue) \in Batches /\ Tail(queue) \in Seq(Batches) /\ Len(Tail(queue)) <= Capacity
    BY <1>1, <1>6, BoundsAssumption DEF WorkerReceive
  <2>2. Head(queue).session \in SessionIds /\ Head(queue).files \in SUBSET Files
    BY <2>1 DEF Batches, SessionIds
  <2> DEFINE l == [IdleTask EXCEPT !.pc = "probe", !.session = Head(queue).session, !.batch = Head(queue).files,
                                   !.todo = Head(queue).files, !.quiet = Head(queue).files]
  <2>3. l \in TaskState /\ LocalOK(l)
    BY <2>2, BegunOK
  <2>4. task' = [task EXCEPT ![Worker] = l] /\ queue' = Tail(queue) /\ Worker \in Tasks
        /\ UNCHANGED <<disk, edits, pending, row, detail, tracked, baseline, suspect>>
    BY <1>6 DEF WorkerReceive, Begin, storeVars, Tasks
  <2> HIDE DEF l
  <2>5. QED
    BY <1>1, <2>1, <2>3, <2>4, TaskStep
<1>7. ASSUME NEW t \in Tasks, NEW s \in SessionIds, NEW fs \in SUBSET Files, Begin(t, s, fs),
             UNCHANGED <<disk, edits, pending, queue, storeVars, suspect>>
      PROVE  TypeOK'
  <2> DEFINE l == [IdleTask EXCEPT !.pc = "probe", !.session = s, !.batch = fs, !.todo = fs, !.quiet = fs]
  <2>1. l \in TaskState /\ LocalOK(l)
    BY BegunOK
  <2>2. task' = [task EXCEPT ![t] = l]
    BY <1>7 DEF Begin
  <2> HIDE DEF l
  <2>3. QED
    BY <1>1, <1>7, <2>1, <2>2, TaskStep DEF storeVars
<1>8. ASSUME NEW t \in Checks, NEW s \in Sessions \cup {Manual}, NEW fs \in (SUBSET Files) \ {{}}, CheckBegin(t, s, fs)
      PROVE  TypeOK'
  BY <1>7, <1>8 DEF CheckBegin, SessionIds, Tasks
<1>9. ASSUME NEW t \in Rebuilds, RebuildClear(t) PROVE TypeOK'
  <2> DEFINE l == [task[t] EXCEPT !.pc = "discover"]
  <2>1. t \in Tasks
    BY DEF Tasks
  <2>2. l \in TaskState /\ LocalOK(l)
    BY <1>1, <1>9, <2>1 DEF RebuildClear, At, TaskState, LocalOK, Pcs
  <2>3. task' = [task EXCEPT ![t] = l] /\ row' = NoText /\ detail' = NoText
        /\ UNCHANGED <<disk, edits, pending, queue, tracked, baseline, suspect>>
    BY <1>9 DEF RebuildClear
  <2> HIDE DEF l
  <2>4. QED
    BY <1>1, <2>1, <2>2, <2>3, TaskStep, IdleOK
<1>10. ASSUME NEW t \in Tasks, task' = [task EXCEPT ![t] = IdleTask], suspect' \subseteq Files,
              UNCHANGED <<disk, edits, pending, queue, storeVars>>
       PROVE  TypeOK'
  BY <1>1, <1>10, TaskStep, IdleOK DEF storeVars
<1>11. ASSUME NEW t \in Rebuilds, RebuildDiscover(t) PROVE TypeOK'
  <2>1. t \in Tasks /\ Bootstrap \in SessionIds
    BY DEF Tasks, SessionIds
  <2>2. QED
    BY <1>1, <1>7, <1>10, <1>11, <2>1 DEF RebuildDiscover
<1>12. ASSUME NEW t \in Tasks, IndexPathsNow(t) PROVE TypeOK'
  <2>1. task[t] \in TaskState /\ LocalOK(task[t]) /\ Rest(t) \subseteq task[t].todo
    BY <1>1 DEF Rest
  <2>2. ASSUME NEW l \in TaskState, LocalOK(l), task' = [task EXCEPT ![t] = l], suspect' \subseteq Files,
               UNCHANGED <<disk, edits, pending, queue>>,
               row' \in [Files -> Text], detail' \in [Files -> Text],
               tracked' \in [SessionIds -> SUBSET Files], baseline' \in [Files -> Text]
        PROVE  TypeOK'
    BY <1>1, <2>2, TaskStep
  <2>3. ASSUME NEW f PROVE Look(t, f) /\ f \in Files => suspect' \subseteq Files
    BY <1>1 DEF Look
  <2>4. Absent \notin Contents /\ Absent \in Text
    BY ContentsAssumption DEF Text
  <2>5. Current(t) \in Files \/ task[t].todo = {}
    BY <2>1, CurrentIsTodo DEF Current, TaskState
  <2>6. CASE Probe(t)
    <3>1. suspect' \subseteq Files /\ UNCHANGED <<disk, edits, pending, queue, row, detail, tracked, baseline>>
      BY <1>1, <2>3, <2>5, <2>6 DEF Probe, storeVars
    <3>2. PICK where \in {"remove", "read"} : task' = [task EXCEPT ![t] = [task[t] EXCEPT !.pc = where]]
      BY <1>1, <2>6 DEF Probe
    <3>3. [task[t] EXCEPT !.pc = where] \in TaskState /\ LocalOK([task[t] EXCEPT !.pc = where])
      BY <2>1, <2>6, <3>2 DEF Probe, At, TaskState, LocalOK, Pcs
    <3>4. QED
      BY <1>1, <2>2, <3>1, <3>2, <3>3
  <2>7. ASSUME NEW l \in TaskState, LocalOK(l), task' = [task EXCEPT ![t] = l],
               UNCHANGED <<disk, edits, pending, queue, storeVars, suspect>>
        PROVE  TypeOK'
    BY <1>1, <2>2, <2>7 DEF storeVars
  <2>8. CASE RemoveFile(t)
    <3> DEFINE l == [task[t] EXCEPT !.pc = "probe", !.todo = Rest(t)]
    <3>1. l \in TaskState /\ LocalOK(l) /\ task' = [task EXCEPT ![t] = l]
      BY <1>1, <2>1, <2>8 DEF RemoveFile, At, TaskState, LocalOK, Pcs
    <3>2. row' \in [Files -> Text] /\ detail' \in [Files -> Text]
          /\ UNCHANGED <<disk, edits, pending, queue, tracked, baseline, suspect>>
      BY <1>1, <2>4, <2>8 DEF RemoveFile
    <3> HIDE DEF l
    <3>3. QED
      BY <1>1, <2>2, <3>1, <3>2
  <2>9. CASE SkipVanished(t)
    <3> DEFINE l == [task[t] EXCEPT !.pc = "probe", !.todo = Rest(t)]
    <3>1. l \in TaskState /\ LocalOK(l) /\ task' = [task EXCEPT ![t] = l]
      BY <1>1, <2>1, <2>9 DEF SkipVanished, At, TaskState, LocalOK, Pcs
    <3>2. UNCHANGED <<disk, edits, pending, queue, storeVars, suspect>>
      BY <2>9 DEF SkipVanished
    <3> HIDE DEF l
    <3>3. QED
      BY <2>7, <3>1, <3>2
  <2>10. CASE Abort(t)
    <3>1. suspect' \subseteq Files
      BY <1>1, <2>1, <2>10 DEF Abort, TaskState
    <3>2. QED
      BY <1>10, <2>10, <3>1 DEF Abort
  <2>11. CASE ReadSource(t)
    <3> DEFINE l == [task[t] EXCEPT !.pc = "compare", !.source = disk[Current(t)]]
    <3>1. disk[Current(t)] \in Text /\ disk[Current(t)] # Absent
      BY <2>4, <2>11 DEF ReadSource, Text
    <3>2. l \in TaskState /\ LocalOK(l) /\ task' = [task EXCEPT ![t] = l]
      BY <1>1, <2>1, <2>11, <3>1 DEF ReadSource, At, TaskState, LocalOK, Pcs
    <3>3. suspect' \subseteq Files /\ UNCHANGED <<disk, edits, pending, queue, row, detail, tracked, baseline>>
      BY <1>1, <2>1, <2>3, <2>5, <2>11 DEF ReadSource, storeVars, At, LocalOK
    <3> HIDE DEF l
    <3>4. QED
      BY <1>1, <2>2, <3>2, <3>3
  <2>12. CASE CompareDigest(t)
    <3>1. PICK l \in {[task[t] EXCEPT !.pc = "probe", !.todo = Rest(t), !.source = Absent],
                      [task[t] EXCEPT !.pc = "upsert"]} : task' = [task EXCEPT ![t] = l]
      BY <1>1, <2>12 DEF CompareDigest
    <3>2. l \in TaskState /\ LocalOK(l)
      BY <2>1, <2>4, <2>12, <3>1 DEF CompareDigest, At, TaskState, LocalOK, Pcs
    <3>3. QED
      BY <2>7, <2>12, <3>1, <3>2 DEF CompareDigest
  <2>13. CASE Upsert(t)
    <3> DEFINE l == [task[t] EXCEPT !.pc = "probe", !.todo = Rest(t), !.source = Absent, !.indexed = TRUE]
    <3>1. l \in TaskState /\ LocalOK(l) /\ task' = [task EXCEPT ![t] = l]
      BY <1>1, <2>1, <2>4, <2>13 DEF Upsert, At, TaskState, LocalOK, Pcs
    <3>2. row' \in [Files -> Text] /\ detail' \in [Files -> Text]
          /\ UNCHANGED <<disk, edits, pending, queue, tracked, baseline, suspect>>
      BY <1>1, <2>1, <2>13 DEF Upsert, TaskState
    <3> HIDE DEF l
    <3>3. QED
      BY <1>1, <2>2, <3>1, <3>2
  <2>14. ASSUME NEW where \in Pcs \ {"remove", "read", "compare", "upsert"}, NEW texts \in [Files -> Text],
                task[t].pc \notin {"compare", "upsert"},
                task' = [task EXCEPT ![t].pc = where, ![t].exports = texts],
                UNCHANGED <<disk, edits, pending, queue, row, detail, suspect>>,
                tracked' \in [SessionIds -> SUBSET Files], baseline' \in [Files -> Text]
         PROVE  TypeOK'
    <3> DEFINE l == [task[t] EXCEPT !.pc = where, !.exports = texts]
    <3>1. l \in TaskState /\ LocalOK(l) /\ task' = [task EXCEPT ![t] = l]
      BY <1>1, <2>1, <2>14 DEF TaskState, LocalOK
    <3> HIDE DEF l
    <3>2. QED
      BY <1>1, <2>2, <2>14, <3>1
  <2>15. CASE Observe(t)
    <3>1. task' = [task EXCEPT ![t].pc = "baseline", ![t].exports = task[t].exports]
          /\ tracked' \in [SessionIds -> SUBSET Files]
      BY <1>1, <2>1, <2>15 DEF Observe, TaskState
    <3>2. QED
      BY <1>1, <2>1, <2>14, <2>15, <3>1 DEF Observe, At, TaskState, Pcs
  <2>16. CASE NothingIndexed(t) \/ ReadBaseline(t) \/ ReadExports(t)
    <3>1. PICK where \in {"done", "exports", "writeBaseline"}, texts \in {task[t].exports, detail} :
            task' = [task EXCEPT ![t].pc = where, ![t].exports = texts]
      BY <1>1, <2>1, <2>16 DEF NothingIndexed, ReadBaseline, ReadExports, TaskState
    <3>2. task[t].pc \notin {"compare", "upsert"} /\ UNCHANGED <<disk, edits, pending, queue, storeVars, suspect>>
      BY <2>16 DEF NothingIndexed, ReadBaseline, ReadExports, At
    <3>3. QED
      BY <1>1, <2>1, <2>14, <3>1, <3>2 DEF storeVars, TaskState, Pcs
  <2>17. CASE WriteBaseline(t)
    BY <1>1, <2>1, <2>14, <2>17, IdleOK DEF WriteBaseline, At, TaskState, Pcs
  <2>18. CASE Return(t)
    BY <1>1, <1>10, <2>18 DEF Return
  <2>19. QED
    BY <1>12, <2>6, <2>8, <2>9, <2>10, <2>11, <2>12, <2>13, <2>15, <2>16, <2>17, <2>18 DEF IndexPathsNow
<1>13. CASE Crash \/ CrashInClear
  <2>1. task' \in [Tasks -> TaskState] /\ \A t \in Tasks : LocalOK(task'[t])
    BY <1>13, IdleOK DEF Crash, CrashInClear, Restart
  <2>2. suspect' \subseteq Files
    BY <1>1, <1>13 DEF Crash, CrashInClear, Restart, Unfinished
  <2>3. queue' = << >> /\ row' = row /\ detail' \in {detail, NoText}
        /\ UNCHANGED <<disk, edits, pending, tracked, baseline>>
    BY <1>13 DEF Crash, CrashInClear, Restart
  <2>4. QED
    BY <1>1, <2>1, <2>2, <2>3, AllTasksStep, IdleOK, BoundsAssumption
<1>14. CASE UNCHANGED vars
  BY <1>14 DEF vars, storeVars, TypeOK
<1>15. QED
  BY <1>2, <1>3, <1>4, <1>5, <1>6, <1>8, <1>9, <1>11, <1>12, <1>13, <1>14 DEF Next

(* Every variable keeps its type.                                          *)
THEOREM TypeCorrect == Spec => []TypeOK
BY InitTypeOK, NextTypeOK, PTL DEF Spec

---------------------------------------------------------------------------
(* What a task in local state l does about f when f's text is c: Sure is   *)
(* WillRefresh without the promises that come to nothing, a discovery that  *)
(* finds no file and a read of one that is gone; Holding and SeenBy tell    *)
(* what it saw and has not acted on; QuietOK that nothing changed since.    *)
Sure(l, f, c) ==
  \/ l.pc = "discover" /\ c # Absent
  \/ /\ f \in l.todo
     /\ \/ f # First(l.todo)
        \/ l.pc = "probe"
        \/ l.pc = "read" /\ c # Absent
        \/ l.pc = "remove" /\ c = Absent
        \/ l.pc \in {"compare", "upsert"} /\ l.source = c
Holding(l, f) == l.pc \in {"remove", "compare", "upsert"} /\ f = First(l.todo)
SeenBy(l)     == IF l.pc = "remove" THEN Absent ELSE l.source
QuietOK(l, f, c) ==
  f \in l.quiet \cap l.todo /\ f = First(l.todo) =>
    (l.pc = "read" => c # Absent) /\ (Holding(l, f) => SeenBy(l) = c)

Promised(f) == f \in suspect \/ \E t \in Tasks : Sure(task[t], f, disk[f])
AtRisk(f)   == row[f] # disk[f] \/ \E t \in Tasks : Holding(task[t], f) /\ SeenBy(task[t]) # disk[f]
Asked(f)    == \E t \in Tasks : f \in task[t].quiet \ task[t].todo

(* Only the loop has files to do.                                          *)
LoopState ==
  \A t \in Tasks : task[t].todo # {} => task[t].pc \in {"probe", "remove", "read", "compare", "upsert"}
(* A task still acts on what is on disk, if the file did not change.        *)
QuietIsSeen   == \A t \in Tasks, f \in Files : QuietOK(task[t], f, disk[f])
(* Of two tasks that hold one file the second to look knew.                 *)
RaceIsSuspect ==
  \A f \in Files, t, u \in Tasks :
    t # u /\ Holding(task[t], f) /\ Holding(task[u], f) => f \in suspect
(* Not only a row that is behind has a cause, but one that will be when a   *)
(* task has acted; and a file a running call has done does not depend on    *)
(* the plugin for it.                                                      *)
RiskHasCause  == \A f \in Files : AtRisk(f) => Notified(f) \/ Promised(f)
AskedIsPromised == \A f \in Files : AtRisk(f) /\ Asked(f) => Promised(f)

IInv == TypeOK /\ LoopState /\ QuietIsSeen /\ RaceIsSuspect /\ RiskHasCause /\ AskedIsPromised

LEMMA InitIInv == Init => IInv
<1> SUFFICES ASSUME Init PROVE IInv
  OBVIOUS
<1>1. TypeOK
  BY InitTypeOK
<1>2. \A t \in Tasks : task[t] = IdleTask
  BY DEF Init
<1>3. LoopState /\ QuietIsSeen /\ RaceIsSuspect
  BY <1>2 DEF LoopState, QuietIsSeen, QuietOK, RaceIsSuspect, Holding, IdleTask
<1>4. \A f \in Files : ~AtRisk(f)
  BY <1>2 DEF AtRisk, Holding, IdleTask, Init
<1>5. QED
  BY <1>1, <1>3, <1>4 DEF IInv, RiskHasCause, AskedIsPromised

(* The properties follow.                                                  *)
LEMMA IInvIsEnough == IInv => StaleHasCause /\ CheckIsFreshUnlessRaced
<1> SUFFICES ASSUME IInv PROVE StaleHasCause /\ CheckIsFreshUnlessRaced
  OBVIOUS
<1>1. \A t \in Tasks, f \in Files : Sure(task[t], f, disk[f]) => WillRefresh(t, f)
  BY DEF Sure, WillRefresh, Current
<1>2. \A f \in Files : Promised(f) => f \in suspect \/ \E t \in Tasks : WillRefresh(t, f)
  BY <1>1 DEF Promised
<1>3. \A f \in Files : row[f] # disk[f] => AtRisk(f)
  BY DEF AtRisk
<1>4. StaleHasCause
  BY <1>2, <1>3 DEF IInv, RiskHasCause, StaleHasCause
<1>5. ASSUME NEW t \in Checks, NEW f \in task[t].quiet, At(t, "done") PROVE Asked(f)
  <2>1. t \in Tasks /\ f \notin task[t].todo
    BY <1>5 DEF IInv, LoopState, At, Tasks
  <2>2. QED
    BY <1>5, <2>1 DEF Asked
<1>6. CheckIsFreshUnlessRaced
  BY <1>2, <1>3, <1>5 DEF IInv, AskedIsPromised, CheckIsFreshUnlessRaced
<1>7. QED
  BY <1>4, <1>6

---------------------------------------------------------------------------
(* What the step of task t has to show of a file whose text stays.          *)
Finished(t, f) == row'[f] = disk[f] /\ Holding(task[t], f) /\ ~Holding(task'[t], f)

Move(t, f) ==
  /\ Sure(task[t], f, disk[f]) => Sure(task'[t], f, disk[f]) \/ f \in suspect' \/ Finished(t, f)
  /\ \/ row'[f] \in {row[f], disk[f]}
     \/ row'[f] = SeenBy(task[t]) /\ Holding(task[t], f)
     \/ Sure(task'[t], f, disk[f])
  /\ Holding(task'[t], f) =>
       \/ Holding(task[t], f) /\ SeenBy(task'[t]) = SeenBy(task[t])
       \/ /\ SeenBy(task'[t]) = disk[f]
          /\ f \in suspect' \/ \A u \in Tasks \ {t} : ~Holding(task[u], f)
  /\ f \in suspect /\ f \notin suspect' =>
       Sure(task'[t], f, disk[f]) /\ \A u \in Tasks \ {t} : ~Holding(task[u], f)
  /\ f \in task'[t].quiet \ task'[t].todo =>
       f \in task[t].quiet \ task[t].todo \/ Finished(t, f) \/ f \in suspect'

Keeps(f) ==
  /\ Promised(f) => Promised(f)' \/ ~AtRisk(f)'
  /\ AtRisk(f)' => AtRisk(f) \/ Promised(f)'
  /\ Asked(f)' => Asked(f) \/ ~AtRisk(f)' \/ Promised(f)'
  /\ \A t, u \in Tasks : t # u /\ Holding(task'[t], f) /\ Holding(task'[u], f) => f \in suspect'

LEMMA MoveKeeps ==
  ASSUME RaceIsSuspect, NEW t \in Tasks, \A u \in Tasks \ {t} : task'[u] = task[u],
         NEW f \in Files, disk'[f] = disk[f], Move(t, f)
  PROVE  Keeps(f)
<1>1. ASSUME Sure(task'[t], f, disk[f]) \/ f \in suspect' PROVE Promised(f)'
  BY <1>1 DEF Promised
<1>2. Finished(t, f) => ~AtRisk(f)' \/ f \in suspect'
  <2> SUFFICES ASSUME Finished(t, f), f \notin suspect' PROVE ~AtRisk(f)'
    OBVIOUS
  <2>1. \A u \in Tasks \ {t} : ~Holding(task'[u], f)
    BY DEF Finished, Move, RaceIsSuspect
  <2>2. QED
    BY <2>1 DEF Finished, AtRisk
<1>3. Promised(f) => Promised(f)' \/ ~AtRisk(f)'
  <2>1. CASE f \in suspect
    BY <1>1, <2>1 DEF Move
  <2>2. CASE Sure(task[t], f, disk[f])
    BY <1>1, <1>2, <2>2 DEF Move
  <2>3. ASSUME NEW u \in Tasks \ {t}, Sure(task[u], f, disk[f]) PROVE Promised(f)'
    BY <2>3 DEF Promised
  <2>4. QED
    BY <2>1, <2>2, <2>3 DEF Promised
<1>4. AtRisk(f)' => AtRisk(f) \/ Promised(f)'
  <2>1. row'[f] # disk[f] => AtRisk(f) \/ Promised(f)'
    BY <1>1 DEF Move, AtRisk
  <2>2. ASSUME Holding(task'[t], f), SeenBy(task'[t]) # disk[f] PROVE AtRisk(f)
    BY <2>2 DEF Move, AtRisk
  <2>3. ASSUME NEW u \in Tasks \ {t}, Holding(task'[u], f), SeenBy(task'[u]) # disk[f] PROVE AtRisk(f)
    BY <2>3 DEF AtRisk
  <2>4. QED
    BY <2>1, <2>2, <2>3 DEF AtRisk
<1>5. Asked(f)' => Asked(f) \/ ~AtRisk(f)' \/ Promised(f)'
  <2>1. CASE f \in task'[t].quiet \ task'[t].todo
    BY <1>1, <1>2, <2>1 DEF Move, Asked
  <2>2. ASSUME NEW u \in Tasks \ {t}, f \in task'[u].quiet \ task'[u].todo PROVE Asked(f)
    BY <2>2 DEF Asked
  <2>3. QED
    BY <2>1, <2>2 DEF Asked
<1>6. ASSUME NEW v \in Tasks, NEW u \in Tasks, v # u, Holding(task'[v], f), Holding(task'[u], f), f \notin suspect'
      PROVE  FALSE
  <2>1. CASE v # t /\ u # t
    BY <1>6, <2>1 DEF Move, RaceIsSuspect
  <2>2. ASSUME NEW w \in Tasks \ {t}, Holding(task[w], f), Holding(task'[t], f) PROVE FALSE
    BY <1>6, <2>2 DEF Move, RaceIsSuspect
  <2>3. QED
    BY <1>6, <2>1, <2>2
<1>7. QED
  BY <1>3, <1>4, <1>5, <1>6 DEF Keeps

---------------------------------------------------------------------------
(* Each step of the loop is such a move.                                   *)
LEMMA LookMarks ==
  ASSUME NEW t \in Tasks, Look(t, Current(t)), NEW f
  PROVE  /\ f # First(task[t].todo) => (f \in suspect' <=> f \in suspect)
         /\ f = First(task[t].todo) =>
              f \in suspect' \/ \A u \in Tasks \ {t} : ~Holding(task[u], f)
BY DEF Look, Holds, Holding, Current

LEMMA UpsertedLocal ==
  ASSUME NEW l \in TaskState, NEW rest
  PROVE  LET m == [l EXCEPT !.pc = "probe", !.todo = rest, !.source = Absent, !.indexed = TRUE]
         IN  m.pc = "probe" /\ m.todo = rest /\ m.quiet = l.quiet
BY DEF TaskState

LEMMA LoopMoves ==
  ASSUME TypeOK, LoopState, QuietIsSeen, NEW t \in Tasks, IndexPathsNow(t), NEW f \in Files
  PROVE  /\ Move(t, f) /\ QuietOK(task'[t], f, disk[f])
         /\ task'[t].todo # {} => task'[t].pc \in {"probe", "remove", "read", "compare", "upsert"}
         /\ \A u \in Tasks \ {t} : task'[u] = task[u]
         /\ UNCHANGED <<disk, pending, queue>>
<1>1. task \in [Tasks -> TaskState] /\ task[t] \in TaskState /\ QuietOK(task[t], f, disk[f])
      /\ (task[t].todo # {} => task[t].pc \in {"probe", "remove", "read", "compare", "upsert"})
      /\ row \in [Files -> Text]
      /\ (task[t].pc \in {"remove", "read", "compare", "upsert"} => task[t].todo # {})
  BY DEF TypeOK, QuietIsSeen, LoopState
<1>2. Current(t) = First(task[t].todo) /\ Rest(t) = task[t].todo \ {First(task[t].todo)}
  BY DEF Current, Rest
<1>3. task[t].todo # {} => Current(t) \in task[t].todo
  BY <1>1, CurrentIsTodo DEF Current, TaskState
<1>4. CASE Probe(t)
  <2>1. CASE disk[Current(t)] = Absent
    <3>1. task' = [task EXCEPT ![t].pc = "remove"] /\ Look(t, Current(t)) /\ At(t, "probe") /\ task[t].todo # {}
          /\ UNCHANGED <<disk, edits, pending, queue, storeVars>>
      BY <1>4, <2>1 DEF Probe
    <3>2. task'[t] = [task[t] EXCEPT !.pc = "remove"] /\ \A u \in Tasks \ {t} : task'[u] = task[u]
      BY <1>1, <3>1
    <3>3. Move(t, f)
      BY <1>1, <1>2, <1>3, <2>1, <3>1, <3>2, LookMarks DEF Move, Sure, Holding, SeenBy, At, storeVars, TaskState
    <3>4. QED
      BY <1>1, <1>2, <2>1, <3>1, <3>2, <3>3 DEF QuietOK, Holding, SeenBy, At, TaskState
  <2>2. CASE disk[Current(t)] # Absent
    <3>1. task' = [task EXCEPT ![t].pc = "read"] /\ At(t, "probe") /\ task[t].todo # {}
          /\ UNCHANGED <<disk, edits, pending, queue, storeVars, suspect>>
      BY <1>4, <2>2 DEF Probe
    <3>2. task'[t] = [task[t] EXCEPT !.pc = "read"] /\ \A u \in Tasks \ {t} : task'[u] = task[u]
      BY <1>1, <3>1
    <3>3. Move(t, f)
      BY <1>1, <1>2, <1>3, <2>2, <3>1, <3>2 DEF Move, Sure, Holding, SeenBy, At, storeVars, TaskState
    <3>4. QED
      BY <1>1, <1>2, <2>2, <3>1, <3>2, <3>3 DEF QuietOK, Holding, SeenBy, At, TaskState
  <2>3. QED
    BY <2>1, <2>2
<1>5. ASSUME task[t].todo # {}, task'[t].pc = "probe", task'[t].todo = Rest(t), task'[t].quiet = task[t].quiet,
             \A u \in Tasks \ {t} : task'[u] = task[u], UNCHANGED <<disk, pending, queue, suspect>>,
             f # Current(t) => row'[f] = row[f],
             f = Current(t) => \/ row'[f] = SeenBy(task[t]) /\ Holding(task[t], f)
                               \/ row'[f] = row[f] /\ ~Sure(task[t], f, disk[f]) /\ f \notin task[t].quiet
      PROVE  Move(t, f) /\ QuietOK(task'[t], f, disk[f])
  BY <1>1, <1>2, <1>3, <1>5 DEF Move, Finished, Sure, Holding, SeenBy, QuietOK
<1>6. CASE RemoveFile(t)
  <2>1. task[t].pc = "remove" /\ task'[t] = [task[t] EXCEPT !.pc = "probe", !.todo = Rest(t)]
        /\ \A u \in Tasks \ {t} : task'[u] = task[u]
    BY <1>1, <1>6 DEF RemoveFile, At
  <2>2. row' = [row EXCEPT ![Current(t)] = Absent] /\ UNCHANGED <<disk, pending, queue, suspect>>
    BY <1>6 DEF RemoveFile
  <2>3. QED
    BY <1>1, <1>2, <1>5, <2>1, <2>2 DEF SeenBy, Holding, TaskState
<1>7. CASE SkipVanished(t)
  <2>1. task[t].pc = "read" /\ task'[t] = [task[t] EXCEPT !.pc = "probe", !.todo = Rest(t)]
        /\ \A u \in Tasks \ {t} : task'[u] = task[u]
    BY <1>1, <1>7 DEF SkipVanished, At
  <2>2. disk[Current(t)] = Absent /\ UNCHANGED <<disk, pending, queue, row, suspect>>
    BY <1>7 DEF SkipVanished, storeVars
  <2>3. f = Current(t) => ~Sure(task[t], f, disk[f]) /\ f \notin task[t].quiet
    BY <1>1, <1>2, <1>3, <2>1, <2>2 DEF Sure, QuietOK
  <2>4. task[t].todo # {} /\ task'[t].pc = "probe" /\ task'[t].todo = Rest(t) /\ task'[t].quiet = task[t].quiet
    BY <1>1, <2>1 DEF TaskState
  <2>5. QED
    BY <1>5, <2>1, <2>2, <2>3, <2>4
<1>8. CASE Abort(t)
  <2>1. task[t].pc = "read" /\ task'[t] = IdleTask /\ \A u \in Tasks \ {t} : task'[u] = task[u]
    BY <1>1, <1>8 DEF Abort, At
  <2>2. suspect' = suspect \cup task[t].todo /\ UNCHANGED <<disk, pending, queue, row>>
    BY <1>8 DEF Abort, storeVars
  <2>3. QED
    BY <2>1, <2>2 DEF Move, Sure, Holding, QuietOK, IdleTask
<1>9. CASE ReadSource(t)
  <2>1. task[t].pc = "read" /\ task'[t] = [task[t] EXCEPT !.pc = "compare", !.source = disk[Current(t)]]
        /\ \A u \in Tasks \ {t} : task'[u] = task[u]
    BY <1>1, <1>9 DEF ReadSource, At
  <2>2. Look(t, Current(t)) /\ UNCHANGED <<disk, pending, queue, row>>
    BY <1>9 DEF ReadSource, storeVars
  <2>3. Move(t, f)
    BY <1>1, <1>2, <1>3, <2>1, <2>2, LookMarks DEF Move, Sure, Holding, SeenBy, TaskState
  <2>4. QED
    BY <1>1, <1>2, <2>1, <2>2, <2>3 DEF QuietOK, Holding, SeenBy, TaskState
<1>10. CASE CompareDigest(t)
  <2>1. task[t].pc = "compare" /\ UNCHANGED <<disk, pending, queue, row, suspect>>
    BY <1>10 DEF CompareDigest, At, storeVars
  <2>2. CASE row[Current(t)] = task[t].source
    <3>1. task'[t] = [task[t] EXCEPT !.pc = "probe", !.todo = Rest(t), !.source = Absent]
          /\ \A u \in Tasks \ {t} : task'[u] = task[u]
      BY <1>1, <1>10, <2>2 DEF CompareDigest
    <3>2. QED
      BY <1>1, <1>2, <1>5, <2>1, <2>2, <3>1 DEF SeenBy, Holding, TaskState
  <2>3. CASE row[Current(t)] # task[t].source
    <3>1. task'[t] = [task[t] EXCEPT !.pc = "upsert"] /\ \A u \in Tasks \ {t} : task'[u] = task[u]
      BY <1>1, <1>10, <2>3 DEF CompareDigest
    <3>2. QED
      BY <1>1, <2>1, <3>1 DEF Move, Sure, Holding, SeenBy, QuietOK, TaskState
  <2>4. QED
    BY <2>2, <2>3
<1>11. CASE Upsert(t)
  <2> DEFINE l == [task[t] EXCEPT !.pc = "probe", !.todo = Rest(t), !.source = Absent, !.indexed = TRUE]
  <2>1. task[t].pc = "upsert" /\ task'[t] = l /\ \A u \in Tasks \ {t} : task'[u] = task[u]
    BY <1>1, <1>11 DEF Upsert, At
  <2>2. row' = [row EXCEPT ![Current(t)] = task[t].source] /\ UNCHANGED <<disk, pending, queue, suspect>>
    BY <1>11 DEF Upsert
  <2>3. l.pc = "probe" /\ l.todo = Rest(t) /\ l.quiet = task[t].quiet
    BY <1>1, UpsertedLocal
  <2> HIDE DEF l
  <2>4. f # Current(t) => row'[f] = row[f]
    BY <1>1, <2>2
  <2>5. f = Current(t) => row'[f] = SeenBy(task[t]) /\ Holding(task[t], f)
    BY <1>1, <1>2, <2>1, <2>2 DEF SeenBy, Holding
  <2>6. QED
    BY <1>1, <1>5, <2>1, <2>2, <2>3, <2>4, <2>5
<1>12. ASSUME task[t].todo = {}, task'[t].todo = {}, task'[t].quiet \in {task[t].quiet, {}},
              task[t].pc # "discover", task'[t].pc \notin {"discover", "remove", "compare", "upsert"},
              \A u \in Tasks \ {t} : task'[u] = task[u], UNCHANGED <<row, suspect>>
       PROVE  Move(t, f) /\ QuietOK(task'[t], f, disk[f])
  BY <1>12 DEF Move, Sure, Holding, QuietOK
<1>13. CASE Observe(t) \/ NothingIndexed(t) \/ ReadBaseline(t) \/ ReadExports(t) \/ WriteBaseline(t) \/ Return(t)
  <2>1. UNCHANGED <<disk, pending, queue, row, suspect>>
    BY <1>13 DEF Observe, NothingIndexed, ReadBaseline, ReadExports, WriteBaseline, Return, storeVars
  <2>2. task[t].todo = {} /\ task[t].pc # "discover"
    BY <1>1, <1>13 DEF Observe, NothingIndexed, ReadBaseline, ReadExports, WriteBaseline, Return, At
  <2>3. \A u \in Tasks \ {t} : task'[u] = task[u]
    BY <1>1, <1>13 DEF Observe, NothingIndexed, ReadBaseline, ReadExports, WriteBaseline, Return
  <2>4. task'[t].todo = {} /\ task'[t].quiet \in {task[t].quiet, {}}
        /\ task'[t].pc \in {"baseline", "exports", "writeBaseline", "done", "idle"}
    BY <1>1, <1>13, <2>2
       DEF Observe, NothingIndexed, ReadBaseline, ReadExports, WriteBaseline, Return, IdleTask, TaskState
  <2>5. QED
    BY <1>12, <2>1, <2>2, <2>3, <2>4
<1>14. QED
  BY <1>4, <1>6, <1>7, <1>8, <1>9, <1>10, <1>11, <1>13 DEF IndexPathsNow

---------------------------------------------------------------------------
(* The other steps of a task: a batch begins, the tables are cleared, the   *)
(* files on disk are found.                                                *)
LEMMA BeginMoves ==
  ASSUME TypeOK, LoopState, NEW t \in Tasks, NEW s, NEW fs, Begin(t, s, fs), NEW f \in Files,
         task[t].pc \in {"idle", "discover"}, task[t].pc = "discover" /\ disk[f] # Absent => f \in fs,
         UNCHANGED <<row, suspect>>
  PROVE  /\ Move(t, f) /\ QuietOK(task'[t], f, disk[f])
         /\ task'[t].todo = fs /\ task'[t].pc = "probe"
         /\ \A u \in Tasks \ {t} : task'[u] = task[u]
<1>1. task \in [Tasks -> TaskState] /\ task[t].todo = {}
  BY DEF TypeOK, LoopState
<1>2. task'[t].todo = fs /\ task'[t].quiet = fs /\ task'[t].pc = "probe" /\ \A u \in Tasks \ {t} : task'[u] = task[u]
  BY <1>1 DEF Begin, IdleTask
<1>3. QED
  BY <1>1, <1>2 DEF Move, Sure, Holding, QuietOK

LEMMA ClearMoves ==
  ASSUME TypeOK, LoopState, NEW t \in Rebuilds, RebuildClear(t), NEW f \in Files
  PROVE  /\ Move(t, f) /\ QuietOK(task'[t], f, disk[f])
         /\ task'[t].todo = {}
         /\ \A u \in Tasks \ {t} : task'[u] = task[u]
<1>1. task \in [Tasks -> TaskState] /\ task[t] \in TaskState /\ t \in Tasks /\ task[t].pc = "idle" /\ task[t].todo = {}
  BY DEF TypeOK, LoopState, RebuildClear, At, Tasks
<1>2. task'[t] = [task[t] EXCEPT !.pc = "discover"] /\ \A u \in Tasks \ {t} : task'[u] = task[u]
  BY <1>1 DEF RebuildClear
<1>3. task'[t].pc = "discover" /\ task'[t].todo = {} /\ task'[t].quiet = task[t].quiet
  BY <1>1, <1>2 DEF TaskState
<1>4. row'[f] = Absent /\ UNCHANGED <<disk, suspect>>
  BY DEF RebuildClear, NoText
<1>5. QED
  BY <1>1, <1>2, <1>3, <1>4 DEF Move, Sure, Holding, QuietOK

LEMMA DiscoverMoves ==
  ASSUME TypeOK, LoopState, NEW t \in Rebuilds, RebuildDiscover(t), NEW f \in Files
  PROVE  /\ Move(t, f) /\ QuietOK(task'[t], f, disk[f])
         /\ task'[t].todo # {} => task'[t].pc = "probe"
         /\ \A u \in Tasks \ {t} : task'[u] = task[u]
<1>1. task \in [Tasks -> TaskState] /\ t \in Tasks /\ task[t].pc = "discover" /\ UNCHANGED <<row, suspect>>
  BY DEF TypeOK, RebuildDiscover, At, Tasks, storeVars
<1> DEFINE found == {g \in Files : disk[g] # Absent}
<1>2. CASE found = {}
  <2>1. task'[t] = IdleTask /\ \A u \in Tasks \ {t} : task'[u] = task[u]
    BY <1>1, <1>2 DEF RebuildDiscover
  <2>2. QED
    BY <1>1, <1>2, <2>1 DEF Move, Sure, Holding, QuietOK, IdleTask, LoopState
<1>3. CASE found # {}
  <2>1. Begin(t, Bootstrap, found)
    BY <1>3 DEF RebuildDiscover
  <2>2. disk[f] # Absent => f \in found
    OBVIOUS
  <2> HIDE DEF found
  <2>3. QED
    BY <1>1, <2>1, <2>2, BeginMoves
<1>4. QED
  BY <1>2, <1>3

(* A step that at most forgets what was quiet keeps everything.             *)
LEMMA QuietStepKeeps ==
  ASSUME RaceIsSuspect, NEW f \in Files, disk'[f] = disk[f], row'[f] = row[f], f \in suspect => f \in suspect',
         \A u \in Tasks : /\ task'[u].pc = task[u].pc /\ task'[u].todo = task[u].todo
                          /\ task'[u].source = task[u].source /\ task'[u].quiet \subseteq task[u].quiet
  PROVE  Keeps(f)
<1>1. \A u \in Tasks : /\ Sure(task'[u], f, disk[f]) <=> Sure(task[u], f, disk[f])
                       /\ Holding(task'[u], f) <=> Holding(task[u], f)
                       /\ SeenBy(task'[u]) = SeenBy(task[u])
  BY DEF Sure, Holding, SeenBy
<1>2. QED
  BY <1>1 DEF Keeps, Promised, AtRisk, Asked, RaceIsSuspect

(* What is left of the invariant when every file is taken care of.         *)
LEMMA Together ==
  ASSUME IInv, TypeOK', LoopState', QuietIsSeen',
         \A f \in Files : \/ Keeps(f) /\ (Notified(f) => Notified(f)' \/ Promised(f)')
                          \/ /\ Notified(f)' \/ Promised(f)'
                             /\ ~Asked(f)'
                             /\ \A t, u \in Tasks : t # u /\ Holding(task'[t], f) /\ Holding(task'[u], f) => f \in suspect'
  PROVE  IInv'
<1>1. RaceIsSuspect'
  BY DEF Keeps, RaceIsSuspect
<1>2. ASSUME NEW f \in Files, AtRisk(f)' PROVE (Notified(f)' \/ Promised(f)') /\ (Asked(f)' => Promised(f)')
  BY <1>2 DEF Keeps, IInv, RiskHasCause, AskedIsPromised
<1>3. RiskHasCause' /\ AskedIsPromised'
  BY <1>2 DEF RiskHasCause, AskedIsPromised
<1>4. QED
  BY <1>1, <1>3 DEF IInv

(* The step of one task.                                                   *)
LEMMA MovesPreserve ==
  ASSUME IInv, TypeOK', NEW t \in Tasks, \A u \in Tasks \ {t} : task'[u] = task[u], disk' = disk,
         task'[t].todo # {} => task'[t].pc \in {"probe", "remove", "read", "compare", "upsert"},
         \A f \in Files : /\ Move(t, f) /\ QuietOK(task'[t], f, disk[f])
                          /\ Notified(f) => Notified(f)' \/ Promised(f)'
  PROVE  IInv'
<1>1. \A f \in Files : Keeps(f)
  BY MoveKeeps DEF IInv
<1>2. LoopState'
  BY DEF IInv, LoopState
<1>3. QuietIsSeen'
  BY DEF IInv, QuietIsSeen
<1>4. QED
  BY <1>1, <1>2, <1>3, Together

LEMMA NextIInv == IInv /\ [Next]_vars => IInv'
<1> SUFFICES ASSUME IInv, [Next]_vars PROVE IInv'
  OBVIOUS
<1>1. TypeOK /\ TypeOK' /\ LoopState /\ QuietIsSeen /\ RaceIsSuspect
  BY NextTypeOK DEF IInv
<1>2. Checks \subseteq Tasks /\ Rebuilds \subseteq Tasks /\ Worker \in Tasks
  BY DEF Tasks
<1>3. UNCHANGED <<pending, queue>> => \A f \in Files : Notified(f) => Notified(f)'
  BY DEF Notified
<1>4. ASSUME NEW t \in Tasks, IndexPathsNow(t) PROVE IInv'
  <2>1. UNCHANGED <<disk, pending, queue>> /\ \A u \in Tasks \ {t} : task'[u] = task[u]
    BY <1>1, <1>4 DEF TypeOK, IndexPathsNow, Probe, RemoveFile, SkipVanished, Abort, ReadSource, CompareDigest, Upsert,
                      Observe, NothingIndexed, ReadBaseline, ReadExports, WriteBaseline, Return
  <2>2. task'[t].todo # {} => task'[t].pc \in {"probe", "remove", "read", "compare", "upsert"}
    <3>1. task'[t].todo # {} => \E f \in Files : TRUE
      BY <1>1 DEF TypeOK, TaskState
    <3>2. QED
      BY <1>1, <1>4, <3>1, LoopMoves
  <2>3. \A f \in Files : Move(t, f) /\ QuietOK(task'[t], f, disk[f])
    BY <1>1, <1>4, LoopMoves
  <2>4. QED
    BY <1>1, <1>3, <2>1, <2>2, <2>3, MovesPreserve
<1>5. CASE WorkerReceive
  <2> DEFINE b == Head(queue)
  <2>1. Begin(Worker, b.session, b.files) /\ queue' = Tail(queue) /\ queue # << >> /\ task[Worker].pc = "idle"
        /\ UNCHANGED <<disk, pending, row, suspect>>
    BY <1>5 DEF WorkerReceive, At, storeVars
  <2>2. \A f \in Files : /\ Move(Worker, f) /\ QuietOK(task'[Worker], f, disk[f])
                         /\ task'[Worker].todo = b.files /\ task'[Worker].pc = "probe"
                         /\ \A u \in Tasks \ {Worker} : task'[u] = task[u]
    BY <1>1, <1>2, <2>1, BeginMoves
  <2>3. \A u \in Tasks \ {Worker} : task'[u] = task[u]
    BY <1>1, <2>1 DEF TypeOK, Begin
  <2>4. task'[Worker].todo # {} => task'[Worker].pc = "probe"
    BY <1>1, <1>2, <2>1 DEF TypeOK, Begin, IdleTask
  <2>5. ASSUME NEW f \in Files, Notified(f) PROVE Notified(f)' \/ Promised(f)'
    <3>1. queue \in Seq(Batches)
      BY <1>1, TypeParts DEF VarTypes
    <3>2. CASE f \in b.files
      BY <1>2, <2>2, <3>2 DEF Promised, Sure
    <3>3. ASSUME NEW i \in DOMAIN queue, f \in queue[i].files, f \notin b.files PROVE Notified(f)'
      <4>1. i # 1 /\ i - 1 \in DOMAIN Tail(queue) /\ Tail(queue)[i - 1] = queue[i]
        BY <2>1, <3>1, <3>3
      <4>2. QED
        BY <2>1, <3>3, <4>1 DEF Notified
    <3>4. QED
      BY <2>1, <2>5, <3>2, <3>3 DEF Notified
  <2>6. QED
    BY <1>1, <1>2, <2>1, <2>2, <2>3, <2>4, <2>5, MovesPreserve
<1>6. ASSUME NEW t \in Checks, NEW s \in Sessions \cup {Manual}, NEW fs \in (SUBSET Files) \ {{}}, CheckBegin(t, s, fs)
      PROVE  IInv'
  <2>1. Begin(t, s, fs) /\ task[t].pc = "idle" /\ UNCHANGED <<disk, pending, queue, row, suspect>>
    BY <1>6 DEF CheckBegin, At, storeVars
  <2>2. \A f \in Files : /\ Move(t, f) /\ QuietOK(task'[t], f, disk[f])
                         /\ task'[t].todo = fs /\ task'[t].pc = "probe"
                         /\ \A u \in Tasks \ {t} : task'[u] = task[u]
    BY <1>1, <1>2, <2>1, BeginMoves
  <2>3. \E f \in Files : TRUE
    BY <1>6
  <2>4. QED
    BY <1>1, <1>2, <1>3, <2>1, <2>2, <2>3, MovesPreserve
<1>7. ASSUME NEW t \in Rebuilds, RebuildClear(t) \/ RebuildDiscover(t) PROVE IInv'
  <2>1. UNCHANGED <<disk, pending, queue>> /\ \A u \in Tasks \ {t} : task'[u] = task[u]
    BY <1>1, <1>7 DEF TypeOK, RebuildClear, RebuildDiscover, Begin
  <2>2. \A f \in Files : /\ Move(t, f) /\ QuietOK(task'[t], f, disk[f])
                         /\ task'[t].todo # {} => task'[t].pc = "probe"
    BY <1>1, <1>7, ClearMoves, DiscoverMoves
  <2>3. task'[t].todo # {} => \E f \in Files : TRUE
    BY <1>1, <1>2 DEF TypeOK, TaskState
  <2>4. QED
    BY <1>1, <1>2, <1>3, <2>1, <2>2, <2>3, MovesPreserve
<1>8. ASSUME UNCHANGED <<disk, row, task>>, suspect \subseteq suspect',
             \A f \in Files : Notified(f) => Notified(f)' \/ f \in suspect'
      PROVE  IInv'
  <2>1. LoopState' /\ QuietIsSeen'
    BY <1>1, <1>8 DEF LoopState, QuietIsSeen
  <2>2. \A f \in Files : Keeps(f)
    BY <1>1, <1>8, QuietStepKeeps
  <2>3. \A f \in Files : Notified(f) => Notified(f)' \/ Promised(f)'
    BY <1>8 DEF Promised
  <2>4. QED
    BY <1>1, <2>1, <2>2, <2>3, Together
<1>9. ASSUME NEW s \in Sessions, Enqueue(s) PROVE IInv'
  <2>1. UNCHANGED <<disk, row, task, suspect>> /\ queue \in Seq(Batches) /\ pending \in [Sessions -> SUBSET Files]
    BY <1>1, <1>9, TypeParts DEF Enqueue, storeVars, VarTypes
  <2>2. /\ queue' = Append(queue, [session |-> s, files |-> pending[s]])
        /\ \A r \in Sessions \ {s} : pending'[r] = pending[r]
    BY <1>9, <2>1 DEF Enqueue
  <2>3. ASSUME NEW f \in Files, Notified(f) PROVE Notified(f)'
    <3>1. ASSUME NEW i \in DOMAIN queue PROVE i \in DOMAIN queue' /\ queue'[i] = queue[i]
      BY <2>1, <2>2
    <3>2. Len(queue) + 1 \in DOMAIN queue' /\ queue'[Len(queue) + 1].files = pending[s]
      BY <2>1, <2>2
    <3>3. QED
      BY <2>2, <2>3, <3>1, <3>2 DEF Notified
  <2>4. QED
    BY <1>8, <2>1, <2>3
<1>10. ASSUME NEW s \in Sessions, DropBatch(s) PROVE IInv'
  <2>1. UNCHANGED <<disk, row, task, queue>> /\ suspect' = suspect \cup pending[s]
        /\ \A r \in Sessions \ {s} : pending'[r] = pending[r]
    BY <1>1, <1>10 DEF DropBatch, storeVars, TypeOK
  <2>2. QED
    BY <1>8, <2>1 DEF Notified
<1>11. ASSUME NEW f \in Files, \A g \in Files \ {f} : disk'[g] = disk[g],
              task' = [t \in Tasks |-> [task[t] EXCEPT !.quiet = @ \ {f}]], UNCHANGED <<row, queue>>,
              suspect \subseteq suspect', \A g \in Files : Notified(g) => Notified(g)',
              Notified(f)' \/ f \in suspect'
       PROVE  IInv'
  <2>1. ASSUME NEW t \in Tasks
        PROVE  /\ task'[t].pc = task[t].pc /\ task'[t].todo = task[t].todo /\ task'[t].source = task[t].source
               /\ task'[t].quiet = task[t].quiet \ {f}
    <3> DEFINE l == [task[t] EXCEPT !.quiet = @ \ {f}]
    <3>1. task[t] \in TaskState /\ task'[t] = l
      BY <1>1, <1>11 DEF TypeOK
    <3>2. l.pc = task[t].pc /\ l.todo = task[t].todo /\ l.source = task[t].source /\ l.quiet = task[t].quiet \ {f}
      BY <3>1, QuietFields
    <3> HIDE DEF l
    <3>3. QED
      BY <3>1, <3>2
  <2>2. LoopState'
    BY <1>1, <2>1 DEF LoopState
  <2>3. QuietIsSeen'
    BY <1>1, <1>11, <2>1 DEF QuietIsSeen, QuietOK, Holding, SeenBy
  <2>4. \A g \in Files \ {f} : Keeps(g)
    BY <1>1, <1>11, <2>1, QuietStepKeeps
  <2>5. ~Asked(f)' /\ \A t, u \in Tasks : t # u /\ Holding(task'[t], f) /\ Holding(task'[u], f) => f \in suspect'
    <3>1. ~Asked(f)'
      BY <2>1 DEF Asked
    <3>2. \A t \in Tasks : Holding(task'[t], f) <=> Holding(task[t], f)
      BY <2>1 DEF Holding
    <3>3. QED
      BY <1>1, <1>11, <3>1, <3>2 DEF RaceIsSuspect
  <2>6. Notified(f)' \/ Promised(f)'
    BY <1>11 DEF Promised
  <2>7. QED
    BY <1>1, <1>11, <2>2, <2>3, <2>4, <2>5, <2>6, Together
<1>12. ASSUME NEW f \in Files, NEW c \in Text, EditUnreported(f, c) PROVE IInv'
  BY <1>1, <1>3, <1>11, <1>12 DEF EditUnreported, storeVars, TypeOK
<1>13. ASSUME NEW f \in Files, NEW c \in Text, NEW s \in Sessions, Edit(s, f, c) PROVE IInv'
  <2>1. pending' = [pending EXCEPT ![s] = @ \cup {f}] /\ pending \in [Sessions -> SUBSET Files]
        /\ UNCHANGED <<queue, row, suspect>>
    BY <1>1, <1>13 DEF Edit, storeVars, TypeOK
  <2>2. Notified(f)' /\ \A g \in Files : Notified(g) => Notified(g)'
    BY <2>1 DEF Notified
  <2>3. QED
    BY <1>1, <1>11, <1>13, <2>1, <2>2 DEF Edit, TypeOK
<1>14. CASE Crash \/ CrashInClear
  <2>1. UNCHANGED <<disk, row, pending>> /\ suspect' = suspect \cup Unfinished /\ \A t \in Tasks : task'[t] = IdleTask
    BY <1>14 DEF Crash, CrashInClear, Restart
  <2>2. LoopState' /\ QuietIsSeen'
    BY <2>1 DEF LoopState, QuietIsSeen, QuietOK, IdleTask
  <2>3. ASSUME NEW f \in Files PROVE (Promised(f) => f \in suspect') /\ (Notified(f) => Notified(f)' \/ f \in suspect')
    BY <2>1 DEF Promised, Sure, Notified, Unfinished, At
  <2>4. \A f \in Files, t \in Tasks : ~Holding(task'[t], f) /\ f \notin task'[t].quiet
    BY <2>1 DEF Holding, IdleTask
  <2>5. \A f \in Files : Keeps(f)
    BY <2>1, <2>3, <2>4 DEF Keeps, AtRisk, Asked, Promised
  <2>6. QED
    BY <1>1, <2>2, <2>3, <2>5, Together DEF Promised
<1>15. CASE UNCHANGED vars
  BY <1>3, <1>8, <1>15 DEF vars, storeVars
<1>16. QED
  BY <1>4, <1>5, <1>6, <1>7, <1>9, <1>10, <1>12, <1>13, <1>14, <1>15 DEF Next

(* The store is never silently behind the disk, whatever the files, calls,  *)
(* races and crashes.                                                      *)
THEOREM StaleHasCauseCorrect == Spec => []StaleHasCause
<1>1. Spec => []IInv
  BY InitIInv, NextIInv, PTL DEF Spec
<1>2. QED
  BY <1>1, IInvIsEnough, PTL

(* A check that was not raced reads rows that agree with the disk.          *)
THEOREM CheckIsFreshUnlessRacedCorrect == Spec => []CheckIsFreshUnlessRaced
<1>1. Spec => []IInv
  BY InitIInv, NextIInv, PTL DEF Spec
<1>2. QED
  BY <1>1, IInvIsEnough, PTL
===========================================================================
