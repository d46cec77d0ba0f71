--------------------------- MODULE ModuleGraph ---------------------------
(***************************************************************************)
(* The daemon's tables of imports and exports, and what graph.rs computes   *)
(* from them: cones, dependents, cycles, dead exports, API drift.  A state  *)
(* is a content of the tables; every query is an operator on it, written    *)
(* as the loop the code runs, so that it can be compared with a definition  *)
(* that has no loop.                                                        *)
(*                                                                         *)
(* Paths are numbers in the byte order of their names, the order of every   *)
(* BTreeSet in the code.  SQL leaves the order of import rows open; here    *)
(* they come in path order, and no property depends on it.                  *)
(***************************************************************************)
EXTENDS Ordering

CONSTANTS
  NFiles,       \* number of paths
  Projects,     \* sample projects, a sequence: for each path the documents it may be indexed with
  Entrypoints,  \* the paths the configured entrypoint patterns match; {}: no pattern
  Package,      \* Package[f]: the package boundary a path falls in, or NoPackage
  NoPackage

Files == 1..NFiles
NoDoc == [indexed |-> FALSE, imports |-> {}, exports |-> {}, clones |-> <<>>, types |-> <<>>]

ASSUME PathsAssumption == NFiles \in Nat /\ Entrypoints \subseteq Files
ASSUME PackagesAssumption == DOMAIN Package = Files /\ \A f \in Files : Package[f] \in Nat \ Files
ASSUME ProjectsAssumption ==
  \A p \in DOMAIN Projects : DOMAIN Projects[p] = Files /\ \A f \in Files : \A d \in Projects[p][f] :
    /\ d.indexed /\ \A i \in d.imports : i.to \in Files /\ i.dynamic \in BOOLEAN
    /\ IsFiniteSet(d.exports) /\ \A e \in d.exports : e.name \in Nat /\ e.signature \in Nat
    /\ \A e1, e2 \in d.exports : e1.name = e2.name => e1 = e2

VARIABLES
  project,   \* the sample at hand, chosen at the start
  docs,      \* docs[f]: the rows stored for f, or NoDoc
  baseline   \* table api_baseline: [file, name, signature]

graphVars == <<project, docs, baseline>>

TypeOK ==
  /\ project \in DOMAIN Projects
  /\ \A f \in Files : docs[f] \in Projects[project][f] \cup {NoDoc}
  /\ \A b \in baseline : b.file \in Files

Indexed == {f \in Files : docs[f].indexed}

(* load_public_exports: ORDER BY source_file, export_name.                 *)
Exports(fs) ==
  UNION {{[file |-> f, name |-> e.name, signature |-> e.signature] : e \in docs[f].exports} : f \in fs}
ByFileThenName(S) == SortedBy(S, LAMBDA a, b : KeyLess(<<a.file, a.name>>, <<b.file, b.name>>))

(***************************************************************************)
(* Writing the tables.                                                     *)
(***************************************************************************)
GraphInit ==
  /\ project \in DOMAIN Projects
  /\ docs = [f \in Files |-> NoDoc]
  /\ baseline = {}

(* Mutant of UpsertFile: the rows of another file are stored.              *)
UpsertFileOf(f) ==
  /\ \E g \in Files : \E d \in Projects[project][g] : docs' = [docs EXCEPT ![f] = d]
  /\ UNCHANGED <<project, baseline>>

UpsertFile(f) ==
  /\ \E d \in Projects[project][f] : docs' = [docs EXCEPT ![f] = d]
  /\ UNCHANGED <<project, baseline>>

RemoveFile(f) ==
  /\ docs' = [docs EXCEPT ![f] = NoDoc]
  /\ UNCHANGED <<project, baseline>>

(* Only the first non-empty set of exports becomes the baseline.           *)
EnsureApiBaseline ==
  /\ baseline = {} /\ Exports(Indexed) # {}
  /\ baseline' = Exports(Indexed)
  /\ UNCHANGED <<project, docs>>

GraphNext ==
  \/ \E f \in Files : UpsertFile(f) \/ RemoveFile(f)
  \/ EnsureApiBaseline

(***************************************************************************)
(* Searches.  A removed file's importers still point at it: neighbours may  *)
(* be paths that are not indexed, seeds may not.                            *)
(***************************************************************************)
Imports == [f \in Files |-> docs[f].imports]
Targets(imports) == [f \in Files |-> {i.to : i \in imports[f]}]
ForwardNeighbors == Targets(Imports)
ReverseNeighbors == [f \in Files |-> {g \in Files : f \in ForwardNeighbors[g]}]
ImportPairs == {e \in Files \X Files : e[2] \in ForwardNeighbors[e[1]]}
DynamicRiskIn(imports, f) == \E g \in Files : [to |-> f, dynamic |-> TRUE] \in imports[g]
DynamicImportRisk(f) == DynamicRiskIn(Imports, f)

(* ModuleGraph::load: the paths and the imports it read, here at one moment; *)
(* DeadCodeReads has them read one after the other.                        *)
LoadedGraph == [files |-> Indexed, imports |-> Imports]

(* A turn of the loop: the first of the queue is taken, what it leads to    *)
(* and nobody came to before is queued.                                    *)
SearchTurn(neighbors, maxDepth, s) ==
  LET at  == Head(s.queue)
      new == IF at.depth >= maxDepth THEN {} ELSE neighbors[at.file] \ s.visited
      pushed == Sorted(new)
  IN IF s.queue = <<>> THEN s
     ELSE [queue   |-> Tail(s.queue) \o [i \in DOMAIN pushed |-> [file |-> pushed[i], depth |-> at.depth + 1]],
           visited |-> s.visited \cup new]

(* The state of a search after n turns.  A file is queued once: after       *)
(* NFiles turns the queue is empty.                                        *)
Searching(neighbors, found, maxDepth) ==
  LET first == Sorted(found)
      start == [queue |-> [i \in DOMAIN first |-> [file |-> first[i], depth |-> 0]], visited |-> found]
      search[n \in Nat] == IF n = 0 THEN start ELSE SearchTurn(neighbors, maxDepth, search[n - 1])
  IN search
SearchFrom(neighbors, found, maxDepth) == Searching(neighbors, found, maxDepth)[NFiles].visited

(* Mutant of DependencyCone: importers are not followed.                   *)
DependencyConeForward(seeds, depth) == SearchFrom(ForwardNeighbors, seeds \cap Indexed, depth)

DependencyCone(seeds, depth) ==
  SearchFrom([f \in Files |-> ForwardNeighbors[f] \cup ReverseNeighbors[f]], seeds \cap Indexed, depth)

(* Mutant of ForwardClosure: only what the seeds import themselves.        *)
ForwardClosureDirect(g, seeds) == SearchFrom(Targets(g.imports), seeds \cap g.files, 1)

ForwardClosure(g, seeds) == SearchFrom(Targets(g.imports), seeds \cap g.files, NFiles)

ExpandEntrypoints(files) ==
  IF Entrypoints = {} THEN (IF files = {} THEN {} ELSE {Min(files)}) ELSE Entrypoints \cap files
ReachableFiles(g) == ForwardClosure(g, ExpandEntrypoints(g.files))

(* The limit is looked at after all importers of a node: the answer may be  *)
(* larger, and it holds the seed itself when that is on a cycle.            *)
DependentsTurn(limit, s) ==
  LET new == ReverseNeighbors[Head(s.queue)] \ s.visited
      all == s.visited \cup new
  IN IF s.queue = <<>> THEN s
     ELSE [queue |-> IF Cardinality(all) >= limit THEN <<>> ELSE Tail(s.queue) \o Sorted(new), visited |-> all]
Depending(seed, limit) ==
  LET search[n \in Nat] == IF n = 0 THEN [queue |-> <<seed>>, visited |-> {}] ELSE DependentsTurn(limit, search[n - 1])
  IN search

(* Mutant of ReverseDependentsOf: it stops one file too early.             *)
ReverseDependentsUpTo(seed, limit) == Depending(seed, limit - 1)[NFiles + 1].visited

ReverseDependentsOf(seed, limit) == Depending(seed, limit)[NFiles + 1].visited

(***************************************************************************)
(* Strongly connected components, as Tarjan's algorithm numbers them.      *)
(* index[n] = 0: not visited.  calls: the nodes whose strong_connect is     *)
(* under way, the innermost last; left[n]: the neighbours its loop has      *)
(* still to look at.                                                       *)
(***************************************************************************)
LowerTo(t, node, value) == [t EXCEPT !.low[node] = Min({@, value})]

(* Mutant of BackEdge: it is not asked whether the node is on the stack.   *)
AnyEdge(t, node, next) == LowerTo(t, node, t.index[next])

(* An edge to a node of an earlier component must not lower the link.      *)
BackEdge(t, node, next) ==
  IF Contains(t.stack, next) THEN LowerTo(t, node, t.index[next]) ELSE t

Enter(t, node) ==
  [t EXCEPT !.count = @ + 1, !.index[node] = t.count + 1, !.low[node] = t.count + 1,
            !.stack = Append(@, node), !.calls = Append(@, node)]

Look(t, node, next) ==
  LET u == [t EXCEPT !.left[node] = @ \ {next}]
  IN IF t.index[next] = 0 THEN Enter(u, next) ELSE BackEdge(u, node, next)

(* The first node of a component takes it off the stack.                   *)
CloseComponent(t, node) ==
  LET from == CHOOSE i \in DOMAIN t.stack : t.stack[i] = node
  IN IF t.low[node] # t.index[node] THEN t
     ELSE [t EXCEPT !.stack = SubSeq(@, 1, from - 1),
                    !.components = Append(@, Sorted(ToSet(SubSeq(t.stack, from, Len(t.stack)))))]

(* The call returns, and its caller takes over the link.                   *)
Leave(t, node) ==
  LET u == [CloseComponent(t, node) EXCEPT !.calls = Front(@)]
  IN IF u.calls = <<>> THEN u ELSE LowerTo(u, Last(u.calls), u.low[node])

ConnectTurn(t) ==
  LET unvisited == {n \in DOMAIN t.index : t.index[n] = 0}
      Inside(node) == IF t.left[node] # {} THEN Look(t, node, Min(t.left[node])) ELSE Leave(t, node)
  IN IF t.calls # <<>> THEN Inside(Last(t.calls))
     ELSE IF unvisited # {} THEN Enter(t, Min(unvisited)) ELSE t

(* The state after n turns.  A turn visits a node, looks at an edge or      *)
(* returns: there are no more than Turns of them.                          *)
Connecting(graph) ==
  LET none  == [n \in DOMAIN graph |-> 0]
      start == [count |-> 0, index |-> none, low |-> none, left |-> graph,
                stack |-> <<>>, calls |-> <<>>, components |-> <<>>]
      connect[n \in Nat] == IF n = 0 THEN start ELSE ConnectTurn(connect[n - 1])
  IN connect
Turns(graph) == LET n == Cardinality(DOMAIN graph) IN n * n + 2 * n
TarjanScc(graph) == Connecting(graph)[Turns(graph)].components

FileCycles == Kept(TarjanScc(ForwardNeighbors), LAMBDA c : Len(c) >= 2)

Packages == {Package[f] : f \in Files} \ {NoPackage}
PackageCycles ==
  LET edges == {<<Package[e[1]], Package[e[2]]>> : e \in ImportPairs}
      graph == [p \in Packages |-> {q \in Packages : <<p, q>> \in edges /\ p # q}]
  IN Kept(TarjanScc(graph), LAMBDA c : Len(c) >= 2)
==========================================================================
