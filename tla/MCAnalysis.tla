---------------------------- MODULE MCAnalysis ----------------------------
(***************************************************************************)
(* Inputs of the analysis, each explored by itself while the others are at  *)
(* their start: the tables of a project with import graphs and exports, the *)
(* tables of one with duplicated functions and types, those of one that is   *)
(* read while they change, and source texts.                               *)
(***************************************************************************)
EXTENDS DeadCodeReads, SourceText

Static(S) == {[to |-> f, dynamic |-> FALSE] : f \in S}
Lazy(S)   == {[to |-> f, dynamic |-> TRUE] : f \in S}
Export(name, signature) == {[name |-> name, signature |-> signature]}
Graph(imports, exports) ==
  [indexed |-> TRUE, imports |-> imports, exports |-> exports, clones |-> <<>>, types |-> <<>>]

(* Four files: cycles of every length, a file only a removed one imports,   *)
(* a lazily imported one, exports whose signature changes.                  *)
GraphProject ==
  << {Graph(Static(S), {}) : S \in {{}, {2}, {2, 3}}},
     {Graph(Static(S), Export(1, 1)) : S \in {{}, {1}, {3, 4}}} \cup {Graph(Lazy({3}), {})},
     {Graph(Static({1}), {}), Graph(Static({2, 4}), Export(1, 1)), Graph({}, Export(1, 2) \cup Export(2, 1))},
     {Graph(Static(S), {}) : S \in {{}, {1}, {3}}} >>

(* Token streams with few tokens; simhashes at distances 0 to 4; a function *)
(* that is too small, a generated file, types that are too small or common. *)
Block(symbol, tokens, simhash) == [symbol |-> symbol, tokens |-> tokens, statements |-> 3, simhash |-> simhash]
Small == [symbol |-> 5, tokens |-> <<1, 2>>, statements |-> 3, simhash |-> {}]
Shape(symbol, members) == [symbol |-> symbol, members |-> members]
Source(file, generated, blocks, shapes) ==
  [indexed |-> TRUE, imports |-> {}, exports |-> {},
   clones |-> AnalyzeClones(file, generated, blocks), types |-> AnalyzeTypes(file, generated, shapes, {{7, 8}})]
CopyProject == [f \in Files |->
  IF f = 4 THEN {}
  ELSE { Source(f, FALSE, <<Block(1, <<1, 2, 3, 4>>, {0, 1, 2}), Small>>, <<Shape(1, {1, 2})>>),
         Source(f, FALSE, <<Block(1, <<1, 2, 4, 3>>, {0, 1, 2} \cup {3 + 2 * f})>>, <<Shape(1, {1, 2, 3})>>),
         Source(f, FALSE, <<Block(2, <<1, 2, 3, 4>>, {0, 1, 2}), Block(3, <<4, 3, 2, 1, 1>>, {1, 2, 5, 6})>>,
                          <<Shape(2, {1, 2, 3}), Shape(3, {7, 8, 9})>>),
         Source(f, f = 3, <<Block(4, <<1, 2, 3, 4, 3>>, {0, 3, 4, 7})>>, <<>>) }]

(* A chain of three files, the first an entrypoint.  Each link, each export  *)
(* and each file comes and goes.                                           *)
ChainProject ==
  << {Graph(Static(S), {}) : S \in {{}, {2}}},
     {Graph({}, Export(1, 1)), Graph(Static({3}), {})},
     {Graph({}, Export(1, 1))},
     {} >>

MCProjects  == <<GraphProject, CopyProject, ChainProject>>
ReadWhileWritten == project = 3
MCAsked     == {{1}, {3}, {2, 3}}
MCPackage   == <<101, 101, 102, 0>>
MCConflicts == {<<>>, <<Finding("session_conflict", Error, 70, <<1, 2>>, {}, <<5, 1, 2>>)>>}

NoText   == text = <<"{">>
NoType   == Len(type) = 1
NoTables == project = 1 /\ Indexed = {} /\ baseline = {} /\ conflicts = <<>>

AnalysisInit == ReadsInit /\ TextInit
AnalysisNext ==
  \/ /\ NoText /\ type = <<Min(TypeNames)>> /\ UNCHANGED textVars
     /\ \/ ~ReadWhileWritten /\ Next /\ UNCHANGED <<readVars, historyVars>>
        \/ ReadWhileWritten /\ ReadsNext
  \/ NoTables /\ (NoText \/ NoType) /\ TextNext /\ (text' = <<"{">> \/ type' = <<Min(TypeNames)>>) /\ UNCHANGED deadVars
AnalysisSpec == AnalysisInit /\ [][AnalysisNext]_<<deadVars, textVars>>
===========================================================================
