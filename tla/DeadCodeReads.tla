-------------------------- MODULE DeadCodeReads --------------------------
(***************************************************************************)
(* The reads behind a report of dead exports.  ModuleGraph::load reads the  *)
(* paths and then the import rows, dead_code_findings reads the exports;    *)
(* each read is a call of the store by itself, and the worker stores and    *)
(* removes files between them.  The report is computed from a graph and     *)
(* exports that need not have been in the tables together.                 *)
(***************************************************************************)
EXTENDS Findings

VARIABLES
  readPhase,      \* the last read that is done: "none", "files", "imports", "exports"
  loadedGraph,    \* the graph as far as it is loaded
  listedExports,  \* the rows of public_exports that were read
  stayed,         \* history: what was stored at every moment since the first read
  occurred        \* and what was stored at some moment, until the last read

readVars == <<readPhase, loadedGraph, listedExports>>
historyVars == <<stayed, occurred>>
deadVars == <<vars, readVars, historyVars>>

Keys(exports) == {<<3, e.file, e.name>> : e \in exports}
PairsOf(imports) == {e \in Files \X Files : e[2] \in Targets(imports)[e[1]]}

(* A chain of the imports in `pairs` leads from `from` to f: f is in every   *)
(* set that holds `from` and that no import leaves.                         *)
Leads(pairs, from, f) ==
  \A S \in SUBSET Files : from \subseteq S /\ (\A p \in pairs : p[1] \in S => p[2] \in S) => f \in S

(* What the tables hold.                                                   *)
Stored == [pairs |-> PairsOf(Imports), keys |-> Keys(Exports(Indexed))]

ReadsInit ==
  /\ Init
  /\ readPhase = "none" /\ listedExports = {}
  /\ loadedGraph = [files |-> {}, imports |-> [f \in Files |-> {}]]
  /\ stayed = Stored /\ occurred = Stored

(* all_files: the next check begins.                                       *)
ReadFiles ==
  /\ readPhase \in {"none", "exports"}
  /\ readPhase' = "files"
  /\ loadedGraph' = [files |-> Indexed, imports |-> [f \in Files |-> {}]]
  /\ listedExports' = {}
  /\ stayed' = Stored /\ occurred' = Stored
  /\ UNCHANGED vars

(* load_import_edges.                                                      *)
ReadImports ==
  /\ readPhase = "files"
  /\ readPhase' = "imports"
  /\ loadedGraph' = [loadedGraph EXCEPT !.imports = Imports]
  /\ UNCHANGED <<vars, listedExports, historyVars>>

(* load_public_exports; what is reported follows from the three reads.      *)
ReadExports ==
  /\ readPhase = "imports"
  /\ readPhase' = "exports"
  /\ listedExports' = Exports(Indexed)
  /\ UNCHANGED <<vars, loadedGraph, historyVars>>

(* The worker stores or removes a file.  The history ends at the last read. *)
Write ==
  /\ \E f \in Files : UpsertFile(f) \/ RemoveFile(f)
  /\ IF readPhase \in {"files", "imports"}
     THEN /\ stayed' = [pairs |-> stayed.pairs \cap Stored.pairs', keys |-> stayed.keys \cap Stored.keys']
          /\ occurred' = [pairs |-> occurred.pairs \cup Stored.pairs', keys |-> occurred.keys \cup Stored.keys']
     ELSE UNCHANGED historyVars
  /\ UNCHANGED <<conflicts, readVars>>

ReadsNext == ReadFiles \/ ReadImports \/ ReadExports \/ Write
ReadsSpec == ReadsInit /\ [][ReadsNext]_deadVars

(* The report under a cap, when the reads are done.                        *)
DeadReport(max) == DeadCode(loadedGraph, listedExports, max)
ReportedKeys(max) == {DeadReport(max)[i].key : i \in DOMAIN DeadReport(max)}

---------------------------------------------------------------------------
(* Whatever the worker writes between the three reads and whatever the cap   *)
(* (dead_code_findings): no export is reported dead to whose file imports    *)
(* that stayed in the tables all the time lead from an entrypoint, and a     *)
(* report below its cap names every export that stayed and that no import    *)
(* of any moment led to.  If nothing is written in between these are the     *)
(* exports no entrypoint reaches, neither more nor less.                    *)
DeadIsUnreachable ==
  LET from == ExpandEntrypoints(loadedGraph.files)
      Hidden(keys, pairs) == {k \in keys : ~Leads(pairs, from, k[2])}
  IN readPhase = "exports" =>
       \A max \in 1..(Cardinality(listedExports) + 1) :
         /\ ReportedKeys(max) \subseteq Hidden(occurred.keys, stayed.pairs)
         /\ Len(DeadReport(max)) < max => Hidden(stayed.keys, occurred.pairs) \subseteq ReportedKeys(max)
==========================================================================
