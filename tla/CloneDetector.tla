-------------------------- MODULE CloneDetector --------------------------
(***************************************************************************)
(* detectors/clones.rs and the bucketing of detectors/types.rs: from the    *)
(* fingerprints of a set of files to findings.  A fingerprint's normalized  *)
(* tokens are a sequence; its hash is the token sequence itself.  simhash   *)
(* is the set of its one-bits, so that the distance of two is the size of   *)
(* their symmetric difference and a band is an intersection.                *)
(***************************************************************************)
EXTENDS Ordering

CONSTANTS
  SimhashBits,          \* 64 in the code
  Bands,                \* 4 in the code
  SimhashHammingRadius, \* thresholds.simhash_hamming_radius
  MinCloneTokens,       \* thresholds.min_clone_tokens
  MinCloneStatements,   \* thresholds.min_clone_statements
  TypeShapeMinMembers,  \* thresholds.type_shape_min_members
  SymbolsPerFile        \* the names of functions and types in a file are numbered below this

ASSUME SymbolsAssumption == SymbolsPerFile \in Nat \ {0}
ASSUME SimhashAssumption == Bands \in Nat \ {0} /\ SimhashBits \in Nat /\ SimhashBits % Bands = 0

(* Severity as Severity::score.                                            *)
Info == 0
Warn == 1
Error == 2

(* A symbol "file::name" as one number; pair_key sorts it behind its file.  *)
SymbolId(r) == SymbolsPerFile * r.file + r.symbol
SymbolFile(id) == id \div SymbolsPerFile

SortUniq(seq) == Sorted(ToSet(seq))
PairKey(files, symbols) == Arranged([i \in DOMAIN files |-> SymbolsPerFile * files[i]] \o symbols, <)

(* The order in which findings are reported.                               *)
Before(f, g) ==
  \/ f.severity > g.severity
  \/ f.severity = g.severity /\ f.confidence > g.confidence
  \/ f.severity = g.severity /\ f.confidence = g.confidence /\ KeyLess(f.key, g.key)

(***************************************************************************)
(* What is stored of a file's functions and types.                         *)
(***************************************************************************)
Prints(file) == [file : {file}, symbol : 0..(SymbolsPerFile - 1), tokens : Seq(Nat), statements : Nat,
                 simhash : SUBSET (0..(SimhashBits - 1))]
Shapes(file) == [file : {file}, symbol : 0..(SymbolsPerFile - 1), members : SUBSET Nat, suppressed : BOOLEAN]

BigEnough(print) == Len(print.tokens) >= MinCloneTokens /\ print.statements >= MinCloneStatements
AnalyzeClones(file, generated, blocks) ==
  IF generated THEN <<>>
  ELSE Kept([i \in DOMAIN blocks |-> [file |-> file] @@ blocks[i]], BigEnough)

SuppressShape(members, common) == Cardinality(members) < 3 \/ \E pattern \in common : pattern \subseteq members
AnalyzeTypes(file, generated, shapes, common) ==
  IF generated THEN <<>>
  ELSE LET kept == Kept(shapes, LAMBDA s : Cardinality(s.members) >= TypeShapeMinMembers)
       IN [i \in DOMAIN kept |-> [file |-> file, symbol |-> kept[i].symbol, members |-> kept[i].members,
                                  suppressed |-> SuppressShape(kept[i].members, common)]]

(***************************************************************************)
(* L1: functions with the same token stream.                               *)
(***************************************************************************)
SemanticClone(severity, confidence, files, symbols, detector) ==
  [kind |-> "semantic_clone", severity |-> severity, confidence |-> confidence,
   files |-> files, symbols |-> symbols, callers |-> {}, key |-> <<4, detector>> \o PairKey(files, symbols)]

(* Buckets come in the order of their hash, which is as good as any: here,  *)
(* of their first rows.                                                    *)
Buckets(prints, field) ==
  LET first == {i \in DOMAIN prints : \A j \in 1..(i - 1) : prints[j][field] # prints[i][field]}
  IN Each(Sorted(first), LAMBDA i : Kept(prints, LAMBDA p : p[field] = prints[i][field]))
Distinct(bucket) == SortUniq(Each(bucket, SymbolId))

DetectExact(prints, max) ==
  LET buckets == Kept(Buckets(Kept(prints, BigEnough), "tokens"), LAMBDA b : Len(Distinct(b)) >= 2)
      Clone(files, b) == SemanticClone(IF Len(files) > 2 THEN Error ELSE Warn, 99, files, Each(b, SymbolId), 1)
      Report(b) == Clone(SortUniq(Each(b, LAMBDA p : p.file)), b)
  IN Take(Each(buckets, Report), Max({max, 1}))

(***************************************************************************)
(* L2: functions whose simhashes agree in at least one band.               *)
(***************************************************************************)
Band(k) == ((k - 1) * (SimhashBits \div Bands))..(k * (SimhashBits \div Bands) - 1)
(* Mutant of SameBand: the last band is forgotten.                         *)
SameLowBand(p, q) == \E k \in 1..(Bands - 1) : p.simhash \cap Band(k) = q.simhash \cap Band(k)

SameBand(p, q) == \E k \in 1..Bands : p.simhash \cap Band(k) = q.simhash \cap Band(k)
Hamming(p, q) == Cardinality(SymDiff(p.simhash, q.simhash))

(* In hundredths, rounded down.                                            *)
Jaccard(p, q) ==
  LET a == ToSet(p.tokens)  b == ToSet(q.tokens)
  IN IF a \cup b = {} THEN 0 ELSE (100 * Cardinality(a \cap b)) \div Cardinality(a \cup b)
Ratio(p, q) ==
  LET m == Len(p.tokens)  n == Len(q.tokens)
  IN IF m = 0 \/ n = 0 THEN 0 ELSE (100 * Min({m, n})) \div Max({m, n})
Confidence(p, q) == (55 * (64 - Hamming(p, q))) \div 64 + (45 * Jaccard(p, q)) \div 100

Similar(p, q) ==
  /\ p.tokens # q.tokens
  /\ SymbolId(p) # SymbolId(q)
  /\ Hamming(p, q) <= SimhashHammingRadius
  /\ Jaccard(p, q) >= 72 /\ Ratio(p, q) >= 60
  /\ Confidence(p, q) >= 78

(* Each pair of rows is looked at once, in the first bucket, by band and     *)
(* the band's value (here its binary digits), that holds both.              *)
FirstBucket(p, q) ==
  LET width == SimhashBits \div Bands
      band  == Min({k \in 1..Bands : p.simhash \cap Band(k) = q.simhash \cap Band(k)})
  IN <<band>> \o [i \in 1..width |-> IF band * width - i \in p.simhash THEN 1 ELSE 0]
Candidates(prints) ==
  {c \in (DOMAIN prints) \X (DOMAIN prints) :
     c[1] < c[2] /\ BigEnough(prints[c[1]]) /\ BigEnough(prints[c[2]]) /\ SameBand(prints[c[1]], prints[c[2]])}
DetectNearMiss(prints, max) ==
  LET Place(c) == FirstBucket(prints[c[1]], prints[c[2]]) \o c
      pairs == SortedBy({c \in Candidates(prints) : Similar(prints[c[1]], prints[c[2]])},
                        LAMBDA c, d : KeyLess(Place(c), Place(d)))
      Report(p, q) == SemanticClone(Warn, Confidence(p, q), <<p.file, q.file>>, <<SymbolId(p), SymbolId(q)>>, 2)
  IN Take(Each(pairs, LAMBDA c : Report(prints[c[1]], prints[c[2]])), max)

DetectClones(prints, max) ==
  LET AndNear(exact) == IF Len(exact) >= max THEN exact
                        ELSE Arranged(exact \o DetectNearMiss(prints, max - Len(exact)), Before)
  IN Take(AndNear(DetectExact(prints, max)), max)

(***************************************************************************)
(* L4: types with the same members.                                        *)
(***************************************************************************)
DetectTypes(shapes, max) ==
  LET loud    == Kept(shapes, LAMBDA s : ~s.suppressed)
      buckets == Kept(Buckets(loud, "members"), LAMBDA b : Len(Distinct(b)) >= 2)
      Report(symbols) == [kind |-> "type_shape_duplicate", severity |-> Warn, confidence |-> 93, files |-> <<>>,
                          symbols |-> symbols, callers |-> {}, key |-> <<6>> \o symbols]
  IN Take(Each(buckets, LAMBDA b : Report(Distinct(b))), Max({max, 1}))
==========================================================================
