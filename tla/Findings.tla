---------------------------- MODULE Findings ----------------------------
(***************************************************************************)
(* What the daemon answers from its tables (indexer.rs, graph.rs, model.rs): *)
(* check, driftMap, impactCone, changeRisk.  All detector layers are on, as  *)
(* in the default configuration.  A finding keeps what the answers tell      *)
(* apart: its kind, severity, confidence (in hundredths), the files or       *)
(* package ids it names, its symbols, the callers of a drifted export, and   *)
(* the key it is ordered and deduplicated by.                                *)
(***************************************************************************)
EXTENDS Integers, ModuleGraph, CloneDetector

CONSTANTS
  Conflicts,    \* answers the session tracker may give (SessionConflicts computes them)
  MaxFindings,  \* the cap of a check, at least 1 (normalize_max_findings)
  MaxFiles,     \* the cap on the files of a cone
  Asked,        \* the path sets checks and changeRisk are asked about
  Depth         \* the depth of a cone

(* What the answers tell apart of a finding.                               *)
AllFindings ==
  [kind : {"semantic_clone", "type_shape_duplicate", "cycle", "dead_code", "api_drift", "session_conflict"},
   severity : {Info, Warn, Error}, confidence : Int, files : Seq(Nat), symbols : Seq(Nat),
   callers : SUBSET Files, key : Seq(Nat)]

ASSUME CapsAssumption == MaxFindings \in Nat \ {0} /\ MaxFiles \in Nat /\ Depth \in Nat
ASSUME AskedAssumption == \A paths \in Asked : paths \subseteq Files
ASSUME ConflictsAssumption ==
  \A c \in Conflicts : c \in Seq(AllFindings) /\ \A i \in DOMAIN c : c[i].kind = "session_conflict"
(* Rows of functions and types are those analyze_file leaves of a file.     *)
ASSUME RowsAssumption ==
  \A p \in DOMAIN Projects : \A f \in Files : \A d \in Projects[p][f] :
    /\ d.clones \in Seq(Prints(f)) /\ \A i \in DOMAIN d.clones : BigEnough(d.clones[i])
    /\ d.types \in Seq(Shapes(f))

VARIABLE conflicts   \* the tracker's answer at the moment: a sequence of findings
vars == <<graphVars, conflicts>>

Init == GraphInit /\ conflicts = <<>>
Next ==
  \/ GraphNext /\ UNCHANGED conflicts
  \/ conflicts' \in Conflicts \ {conflicts} /\ UNCHANGED graphVars
Spec == Init /\ [][Next]_vars

Finding(kind, severity, confidence, files, callers, key) ==
  [kind |-> kind, severity |-> severity, confidence |-> confidence,
   files |-> files, symbols |-> <<>>, callers |-> callers, key |-> key]

(***************************************************************************)
(* The detectors on the graph, each with its own cap.                      *)
(***************************************************************************)
CycleFinding(nodes) == Finding("cycle", IF Len(nodes) > 3 THEN Error ELSE Warn, 95, nodes, {}, <<2, 0>> \o nodes)
PackageCycleFindings(max) ==
  Take(Each(PackageCycles, LAMBDA c : Finding("cycle", Error, 98, c, {}, <<2, 1>> \o c)), max)
CycleFindings(max) ==
  LET AndPackages(cycles) == IF Len(cycles) >= max THEN cycles
                             ELSE cycles \o PackageCycleFindings(max - Len(cycles))
  IN AndPackages(Take(Each(FileCycles, CycleFinding), max))

(* The exports are read when the graph is loaded already, and looked up in   *)
(* it: DeadCodeReads lets the tables change in between.                     *)
DeadCode(g, exports, max) ==
  LET live == ReachableFiles(g)
      Report(e) == LET risk == DynamicRiskIn(g.imports, e.file)
                   IN Finding("dead_code", IF risk THEN Info ELSE Warn, IF risk THEN 55 ELSE 86,
                              <<e.file>>, {}, <<3, e.file, e.name>>)
  IN Take(Each(ByFileThenName({e \in exports : e.file \notin live}), Report), max)
DeadCodeFindings(max) == DeadCode(LoadedGraph, Exports(Indexed), max)

(* A baseline row whose export is gone or has another signature.  The       *)
(* baseline is read into a map ordered by export name.                      *)
Drifted(b) == b \notin Exports(Indexed)
Removed(b) == \A e \in Exports(Indexed) : e.file # b.file \/ e.name # b.name
ApiDriftFindings(max) ==
  LET drifted == SortedBy({b \in baseline : Drifted(b)}, LAMBDA a, b : KeyLess(<<a.name, a.file>>, <<b.name, b.file>>))
      Report(b) == Finding("api_drift", Error, IF Removed(b) THEN 98 ELSE 97, <<b.file>>,
                           ReverseDependentsOf(b.file, 12), <<1, b.file, b.name, b.signature>>)
  IN Take(Each(drifted, Report), max)

(***************************************************************************)
(* Collecting: caps first, then the path filter, then the order.            *)
(***************************************************************************)
RowsOf(fs, column) == FlattenSeq(Each(Sorted(fs), LAMBDA f : docs[f][column]))
ClonesOf(fs) == RowsOf(fs, "clones")
TypesOf(fs)  == RowsOf(fs, "types")

(* finding_touches_paths.  Package ids are no paths.                        *)
TouchesPaths(f, paths) ==
  IF f.kind = "type_shape_duplicate"
  THEN \E i \in DOMAIN f.symbols : SymbolFile(f.symbols[i]) \in paths
  ELSE (ToSet(f.files) \cup f.callers) \cap paths # {}

(* dedup_by looks at neighbours only.                                      *)
DedupAdjacent(fs) == Picked(fs, {j \in DOMAIN fs : j = 1 \/ fs[j].key # fs[j - 1].key})

Detected(rowsOf, max) ==
  <<DetectClones(ClonesOf(rowsOf), max), DetectTypes(TypesOf(rowsOf), max), CycleFindings(max),
    DeadCodeFindings(max), ApiDriftFindings(max), Take(conflicts, max)>>
(* Mutant of Ordered: no finding is kept to show that there are more.       *)
OrderedToMax(fs, max) == Take(DedupAdjacent(Arranged(fs, Before)), max)

Ordered(fs, max) == Take(DedupAdjacent(Arranged(fs, Before)), 2 * max)

(* Clone and type rows are loaded for the asked paths only.                 *)
CollectAll(max) == Ordered(FlattenSeq(Detected(Indexed, max)), max)
CollectFor(paths, max) ==
  Ordered(Kept(FlattenSeq(Detected(paths, max)), LAMBDA f : TouchesPaths(f, paths)), max)

Summary(findings, max) == [findings |-> Take(findings, max), truncated |-> Len(findings) > max]
CheckAll        == Summary(CollectAll(MaxFindings), MaxFindings)
CheckFor(paths) == Summary(CollectFor(paths, MaxFindings), MaxFindings)

(***************************************************************************)
(* driftMap: nodes are inserted in the order of the findings, a later one   *)
(* replaces an earlier one with the same id; callers and the files of a      *)
(* conflict carry no severity.                                             *)
(***************************************************************************)
NoSeverity == -1

(* The sessions of a conflict follow its kind in its key.                  *)
SessionsOf(f) == IF f.kind = "session_conflict" THEN SubSeq(f.key, 2, Len(f.key)) ELSE <<>>

NodesOf(f) ==
  LET As(kind, seq, severity) == Each(seq, LAMBDA x : [id |-> <<kind, x>>, severity |-> severity])
      own == IF f.kind = "cycle" /\ ToSet(f.files) \cap Files = {} THEN "package" ELSE "file"
      sev == IF f.kind = "session_conflict" THEN NoSeverity ELSE f.severity
      export == IF f.kind = "api_drift" THEN <<[id |-> <<"export", f.key>>, severity |-> f.severity]>> ELSE <<>>
  IN As("session", SessionsOf(f), f.severity) \o As(own, f.files, sev) \o As("type", f.symbols, f.severity)
     \o export \o As("file", Sorted(f.callers), NoSeverity)

EdgesOf(f) ==
  LET file(x) == <<"file", x>>
      own == IF f.kind = "cycle" /\ ToSet(f.files) \cap Files = {} THEN "package" ELSE "file"
  IN CASE f.kind = "semantic_clone" /\ Len(f.files) >= 2 -> {<<file(f.files[1]), file(f.files[2])>>}
       [] f.kind = "type_shape_duplicate" /\ Len(f.symbols) >= 2 -> {<<<<"type", f.symbols[1]>>, <<"type", f.symbols[2]>>>>}
       [] f.kind = "api_drift" -> {<<file(x), <<"export", f.key>>>> : x \in ToSet(f.files) \cup f.callers}
       [] f.kind = "cycle" -> {<<<<own, f.files[i]>>, <<own, f.files[i + 1]>>>> : i \in 1..(Len(f.files) - 1)}
       [] OTHER -> {}

(* Mutant of ImportEdges: the importer alone is asked for.                 *)
ImportEdgesFrom(nodes) ==
  {<<<<"file", e[1]>>, <<"file", e[2]>>>> : e \in {e \in ImportPairs : <<"file", e[1]>> \in DOMAIN nodes}}

(* The imports between files that already are on the map.                  *)
ImportEdges(nodes) ==
  {<<<<"file", e[1]>>, <<"file", e[2]>>>> :
     e \in {e \in ImportPairs : {<<"file", e[1]>>, <<"file", e[2]>>} \subseteq DOMAIN nodes}}

DriftMap(findings) ==
  LET inserted == FlattenSeq(Each(findings, NodesOf))
      LastOf(id) == Max({i \in DOMAIN inserted : inserted[i].id = id})
      AndEdges(nodes) == [nodes |-> nodes, edges |-> (UNION {EdgesOf(f) : f \in ToSet(findings)}) \cup ImportEdges(nodes)]
  IN AndEdges([id \in {n.id : n \in ToSet(inserted)} |-> inserted[LastOf(id)].severity])

(***************************************************************************)
(* impactCone, for a path that is indexed.                                 *)
(***************************************************************************)
ImpactCone(path) ==
  LET cone == Sorted(DependencyCone({path}, Depth))
  IN [files |-> Take(cone, MaxFiles), omitted |-> Max({Len(cone) - MaxFiles, 0})]

(***************************************************************************)
(* changeRisk: reasons with a capped score each, and the files they name.   *)
(***************************************************************************)
FindingFiles(fs, fallback) ==
  LET named(f) == IF f.kind = "type_shape_duplicate" THEN {SymbolFile(f.symbols[i]) : i \in DOMAIN f.symbols}
                  ELSE ToSet(f.files) \cup f.callers
      all == UNION {named(fs[i]) : i \in DOMAIN fs}
  IN Take(Sorted(IF all = {} THEN fallback ELSE all), 12)
HighestSeverity(fs) == Max({Info} \cup {fs[i].severity : i \in DOMAIN fs})

Reason(kind, severity, count, each, cap, files) ==
  [kind |-> kind, severity |-> severity, count |-> count, score |-> Min({count * each, cap}), files |-> files]

(* The kinds are numbered in the order of their names, by which ties are    *)
(* broken.                                                                 *)
ReasonsFrom(paths, cone, deps, findings) ==
  LET size     == Cardinality(cone)
      exports  == Exports(paths)
      dynamic  == {f \in cone : DynamicImportRisk(f)}
      OfKind(k) == Kept(findings, LAMBDA f : f.kind = k)
      nearby   == Kept(findings, LAMBDA f : f.kind \notin {"api_drift", "cycle", "session_conflict"})
      About(k, fs, severity, each, cap) == Reason(k, severity, Len(fs), each, cap, FindingFiles(fs, cone))
      WarnIf(c) == IF c THEN Warn ELSE Info
      all == <<
        Reason(3, WarnIf(size >= 8), IF size > Cardinality(paths) THEN size ELSE 0, 4, 30, Take(Sorted(cone), 12)),
        Reason(7, WarnIf(Cardinality(deps) >= 4), Cardinality(deps), 8, 30, Take(Sorted(deps), 12)),
        Reason(6, Warn, Cardinality(exports), 10, 30, Sorted({e.file : e \in exports})),
        Reason(4, Warn, Cardinality(dynamic), 10, 20, Sorted(dynamic)),
        About(1, OfKind("api_drift"), Error, 20, 40),
        About(2, OfKind("cycle"), HighestSeverity(OfKind("cycle")), 15, 30),
        About(8, OfKind("session_conflict"), HighestSeverity(OfKind("session_conflict")), 20, 40),
        About(5, nearby, HighestSeverity(nearby), 6, 18)>>
  IN Arranged(Kept(all, LAMBDA r : r.count > 0),
             LAMBDA a, b : KeyLess(<<2 - a.severity, 100 - a.score, a.kind>>, <<2 - b.severity, 100 - b.score, b.kind>>))
Reasons(paths, max) ==
  LET Near(cone) == ReasonsFrom(paths, cone, (UNION {ReverseDependentsOf(p, 100) : p \in paths}) \ paths, CollectFor(cone, max))
  IN Near(DependencyCone(paths, Depth))

Total(rs) ==
  LET sum[n \in 0..Len(rs)] == IF n = 0 THEN 0 ELSE sum[n - 1] + rs[n].score
  IN sum[Len(rs)]
RiskScore(rs) == Min({Total(rs), 100})
RiskLevel(score) == IF score >= 60 THEN "high" ELSE IF score >= 25 THEN "medium" ELSE "low"

FocusOf(rs, file) ==
  LET mine == Kept(rs, LAMBDA r : Contains(r.files, file))
  IN [target |-> file, severity |-> HighestSeverity(mine), score |-> RiskScore(mine)]
Ranks(a, b) == KeyLess(<<2 - a.severity, 100 - a.score, a.target>>, <<2 - b.severity, 100 - b.score, b.target>>)
NamedFiles(rs) == UNION {ToSet(rs[i].files) : i \in DOMAIN rs}
(* Mutant of FocusFromReasons: cut before it is ranked.                    *)
FocusCutFirst(rs, limit) ==
  SortedBy({FocusOf(rs, f) : f \in ToSet(Take(Sorted(NamedFiles(rs)), limit))}, Ranks)

FocusFromReasons(rs, limit) == Take(SortedBy({FocusOf(rs, f) : f \in NamedFiles(rs)}, Ranks), limit)

ChangeRisk(paths) ==
  LET Risk(reasons) == [reasons |-> reasons, score |-> RiskScore(reasons), level |-> RiskLevel(RiskScore(reasons)),
                        focus |-> FocusFromReasons(reasons, Min({MaxFindings, 12}))]
  IN Risk(Reasons(paths, MaxFindings))

(***************************************************************************)
(* Reference definitions.                                                  *)
(***************************************************************************)
(* The files at most n edges away from S, without a queue.                 *)
Ball(edges, S, n) ==
  LET ball[k \in Nat] == IF k = 0 THEN S ELSE ball[k - 1] \cup UNION {edges[f] : f \in ball[k - 1]}
  IN ball[n]
Imported(f)   == Ball(ForwardNeighbors, {f}, NFiles)
Neighbors     == [f \in Files |-> ForwardNeighbors[f] \cup ReverseNeighbors[f]]
ImportersOf(f) == Ball(ReverseNeighbors, ReverseNeighbors[f], NFiles)
Many == 100   \* a cap no detector reaches

(***************************************************************************)
(* Properties.                                                             *)
(***************************************************************************)
(* The cone of dependency_cone is the ball of its depth in the graph        *)
(* without directions: no file at the boundary is lost because another,     *)
(* longer way to it was found first, and none beyond it is added; what a    *)
(* capped answer leaves out is counted.                                    *)
ConeIsBall ==
  \A f \in Files :
    /\ \A d \in 0..2 : DependencyCone({f}, d) = IF f \in Indexed THEN Ball(Neighbors, {f}, d) ELSE {}
    /\ f \in Indexed =>
         LET cone == ImpactCone(f)  ball == Ball(Neighbors, {f}, Depth)
         IN ToSet(cone.files) \subseteq ball /\ Len(cone.files) + cone.omitted = Cardinality(ball)

(* A search for dependents that stays below its limit has found all of      *)
(* them, one that does not has found at least the limit, and every direct   *)
(* importer is in it when the limit is not reached by the first step.       *)
DependentsAreComplete ==
  LET Complete(f, found, limit, all) ==
        /\ found \subseteq all /\ ReverseNeighbors[f] \subseteq found
        /\ Cardinality(found) < limit => found = all
      Found(f, all) == \A limit \in 1..NFiles : Complete(f, ReverseDependentsOf(f, limit), limit, all)
  IN \A f \in Files : Found(f, ImportersOf(f))

(* Tarjan's loop reports exactly the classes of files that import each      *)
(* other, each once.                                                       *)
ComponentsAreClasses ==
  LET class(f) == {g \in Files : f \in Imported(g) /\ g \in Imported(f)}
      cycles == {class(f) : f \in {g \in Files : Cardinality(class(g)) > 1}}
  IN /\ {ToSet(FileCycles[i]) : i \in DOMAIN FileCycles} = cycles
     /\ Len(FileCycles) = Cardinality(cycles)

(* What a check of some paths leaves out of what the whole, uncapped        *)
(* analysis says about them has one of three causes: the answer says it is  *)
(* truncated, the detector was at its cap, or the finding ties the paths to *)
(* the text of a file that was not asked about.                             *)
OmissionHasCause ==
  LET Elsewhere(f, paths) == f.kind \in {"semantic_clone", "type_shape_duplicate"}
                             /\ ~(ToSet(Each(f.symbols, SymbolFile)) \subseteq paths)
      Explained(paths, answer, whole, capped) ==
        \A d \in DOMAIN whole : \A f \in ToSet(whole[d]) :
          TouchesPaths(f, paths) /\ (\A g \in ToSet(answer.findings) : g.key # f.key)
          => answer.truncated \/ Len(capped[d]) >= MaxFindings \/ Elsewhere(f, paths)
  IN \A paths \in Asked :
       Explained(paths, CheckFor(paths), Detected(Indexed, Many), Detected(paths, MaxFindings))

(* What docs/init.md says of incremental checks: the duplicates of a changed *)
(* file are looked for among all files, not only among the changed ones.     *)
DuplicatesAcrossFilesAreFound ==
  \A f \in Indexed :
    LET Has(fs) == \E i \in DOMAIN fs : fs[i].kind = "semantic_clone" /\ TouchesPaths(fs[i], {f})
    IN Has(CollectAll(Many)) => Has(CollectFor({f}, Many))

(* Every edge of the drift map joins two of its nodes, every file a finding *)
(* is about is on the map, and no node looks worse than its worst finding.  *)
MapIsClosed ==
  LET About(f) == {n.id : n \in ToSet(NodesOf(f))}
      Closed(fs, map) ==
        /\ \A e \in map.edges : {e[1], e[2]} \subseteq DOMAIN map.nodes
        /\ \A f \in ToSet(fs) : About(f) \subseteq DOMAIN map.nodes
        /\ \A n \in DOMAIN map.nodes :
             map.nodes[n] <= HighestSeverity(Kept(fs, LAMBDA f : n \in About(f)))
      OfCheck(fs) == Closed(fs, DriftMap(fs))
  IN OfCheck(CheckAll.findings)

(* The review focus is the head of the ranking of all files the reasons     *)
(* name: no file left out ranks before one that is shown, none looks riskier *)
(* than the change as a whole.                                              *)
FocusRanksReasons ==
  LET Ranked(risk, shown, named) ==
        /\ Cardinality(shown) = Len(risk.focus) /\ shown \subseteq named
        /\ Len(risk.focus) < Min({MaxFindings, 12}) => shown = named
        /\ \A item \in ToSet(risk.focus) :
             /\ item.score <= risk.score
             /\ \A f \in named \ shown : Ranks(item, FocusOf(risk.reasons, f))
      Right(risk) == Ranked(risk, {item.target : item \in ToSet(risk.focus)}, NamedFiles(risk.reasons))
  IN \A paths \in Asked : Right(ChangeRisk(paths))

(* Copies of a function are found: identical ones, and similar ones whose   *)
(* simhashes differ in fewer bits than there are bands (one band is then     *)
(* equal).  Nothing is said of those at a larger distance within the radius. *)
CloseClonesAreFound ==
  LET rows == ClonesOf(Indexed)
      reports == DetectClones(rows, Many)
      Close(p, q) == p.tokens = q.tokens \/ (Similar(p, q) /\ Hamming(p, q) < Bands)
  IN Len(reports) < Many => \A i, j \in DOMAIN rows :
       SymbolId(rows[i]) < SymbolId(rows[j]) /\ Close(rows[i], rows[j])
       => \E k \in DOMAIN reports : {SymbolId(rows[i]), SymbolId(rows[j])} \subseteq ToSet(reports[k].symbols)
==========================================================================
