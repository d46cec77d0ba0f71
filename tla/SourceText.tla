--------------------------- MODULE SourceText ---------------------------
(***************************************************************************)
(* The two small languages the detectors read without a parser: a block of  *)
(* code whose closing brace match_brace looks for (the same function in     *)
(* clones.rs and types.rs) and whose tokens are normalized, and the text of *)
(* a type that normalize_type brings into a canonical form.  A state is a   *)
(* text; the program reads it in one call.                                  *)
(***************************************************************************)
EXTENDS Ordering

CONSTANTS
  Quotes,     \* the quotes among ' " and ` that texts use
  Letter,     \* a letter of an identifier; all other characters are their own names
  MaxText,    \* bound on the length of a block
  Builtins,   \* numbers of built-in type names, in byte order, all greater than TName
  UserTypes,  \* numbers of other type names
  MaxNames    \* bound on the number of names in a type

Newline   == "newline"
Backslash == "backslash"
Marks      == {"{", "}", "/", "*", Newline, Backslash}
Characters == Marks \cup {Letter} \cup Quotes
Modes      == {"code", "line", "block"} \cup Quotes
ASSUME CharactersAssumption ==
  Letter \notin Marks \cup Quotes /\ Quotes \cap (Marks \cup {"code", "line", "block"}) = {}

VARIABLES
  text,   \* a function's source from its opening brace on
  type    \* a type's source: names joined by And and Or
textVars == <<text, type>>

And   == 0
TName == 1     \* T, which stands for every name that is not built in
Or    == 99
TypeNames == Builtins \cup UserTypes
ASSUME TypeNamesAssumption == TypeNames \subseteq (TName + 1)..(Or - 1) /\ Builtins \cap UserTypes = {}

(***************************************************************************)
(* match_brace: one pass, mode is "code" or what the character is inside of. *)
(* The result is the position of the closing brace, 0 if there is none.     *)
(***************************************************************************)
CharAt(t, i) == IF i \in DOMAIN t THEN t[i] ELSE "none"

InCode(s, t, i) ==
  CASE t[i] = "/" /\ CharAt(t, i + 1) = "/" -> [s EXCEPT !.mode = "line"]
    [] t[i] = "/" /\ CharAt(t, i + 1) = "*" -> [s EXCEPT !.mode = "block"]
    [] t[i] \in Quotes -> [s EXCEPT !.mode = t[i]]
    [] t[i] = "{" -> [s EXCEPT !.depth = @ + 1]
    [] t[i] = "}" -> [s EXCEPT !.depth = IF @ = 0 THEN 0 ELSE @ - 1, !.end = IF s.depth <= 1 THEN i ELSE 0]
    [] OTHER -> s

(* Mutant of InString: a backslash escapes nothing.                        *)
InPlainString(s, t, i) == IF t[i] = s.mode THEN [s EXCEPT !.mode = "code"] ELSE s

InString(s, t, i) ==
  CASE s.escaping -> [s EXCEPT !.escaping = FALSE]
    [] ~s.escaping /\ t[i] = Backslash -> [s EXCEPT !.escaping = TRUE]
    [] ~s.escaping /\ t[i] = s.mode -> [s EXCEPT !.mode = "code"]
    [] OTHER -> s

InLineComment(s, t, i)  == IF t[i] = Newline THEN [s EXCEPT !.mode = "code"] ELSE s
InBlockComment(s, t, i) == IF t[i] = "/" /\ t[i - 1] = "*" THEN [s EXCEPT !.mode = "code"] ELSE s

ReadChar(s, t, i) ==
  CASE s.end # 0 -> s
    [] s.end = 0 /\ s.mode = "line"  -> InLineComment(s, t, i)
    [] s.end = 0 /\ s.mode = "block" -> InBlockComment(s, t, i)
    [] s.end = 0 /\ s.mode \in Quotes -> InString(s, t, i)
    [] OTHER -> InCode(s, t, i)
ScanStart == [mode |-> "code", escaping |-> FALSE, depth |-> 0, end |-> 0]
MatchBrace(t) == FoldLeft(LAMBDA s, i : ReadChar(s, t, i), ScanStart, [i \in DOMAIN t |-> i]).end

(* Every text up to the end of its block, and every type.                  *)
TextInit == text = <<"{">> /\ type \in {<<n>> : n \in TypeNames}
TextNext ==
  \/ \E c \in Characters : Len(text) < MaxText /\ MatchBrace(text) = 0 /\ text' = Append(text, c) /\ UNCHANGED type
  \/ \E op \in {And, Or}, n \in TypeNames : Len(type) < 2 * MaxNames - 1 /\ type' = type \o <<op, n>> /\ UNCHANGED text

TextSpec == TextInit /\ [][TextNext]_textVars

(***************************************************************************)
(* normalize_tokens: identifiers and literals become ID and LIT.  It is     *)
(* given the block as it stands, comments included.                         *)
(***************************************************************************)
(* The end of a string literal that begins at i: the next quote that is not *)
(* escaped; if there is none the expression backtracks and takes the last   *)
(* quote there is.  0: no literal.                                          *)
Escaped(t, from, j) ==
  LET run == {k \in (from + 1)..(j - 1) : \A m \in k..(j - 1) : t[m] = Backslash}
  IN Cardinality(run) % 2 = 1
LiteralEnd(t, i) ==
  LET quotes == {j \in (i + 1)..Len(t) : t[j] = t[i]}
      plain  == {j \in quotes : ~Escaped(t, i, j)}
  IN IF plain # {} THEN Min(plain) ELSE IF quotes # {} THEN Max(quotes) ELSE 0

NormalizeTokens(t) ==
  LET tokens[i \in 1..(Len(t) + 1)] ==
        IF i > Len(t) THEN <<>>
        ELSE CASE t[i] = Letter /\ CharAt(t, i - 1) = Letter /\ i > 1 -> tokens[i + 1]
               [] t[i] = Letter /\ ~(CharAt(t, i - 1) = Letter /\ i > 1) -> <<"ID">> \o tokens[i + 1]
               [] t[i] \in Quotes -> IF LiteralEnd(t, i) = 0 THEN tokens[i + 1]
                                     ELSE <<"LIT">> \o tokens[LiteralEnd(t, i) + 1]
               [] t[i] \in {Newline, Backslash} -> tokens[i + 1]
               [] OTHER -> <<t[i]>> \o tokens[i + 1]
  IN tokens[1]

(***************************************************************************)
(* normalize_type: names that are not built in become T; then the text is   *)
(* cut at every |, its parts sorted, deduplicated and joined again, and the  *)
(* result once more at every &.                                            *)
(***************************************************************************)
SplitAt(t, op) ==
  LET cuts == Sorted({0, Len(t) + 1} \cup {i \in DOMAIN t : t[i] = op})
  IN {SubSeq(t, cuts[k] + 1, cuts[k + 1] - 1) : k \in 1..(Len(cuts) - 1)}
JoinBy(parts, op) == Tail(FlattenSeq([k \in DOMAIN parts |-> <<op>> \o parts[k]]))
SortParts(t, op)  == IF Contains(t, op) THEN JoinBy(SortedBy(SplitAt(t, op), KeyLess), op) ELSE t
(* Mutant of NormalizeType: names are replaced at the end.                 *)
NormalizeTypeLate(t) ==
  LET sorted == SortParts(SortParts(t, Or), And)
  IN [i \in DOMAIN sorted |-> IF sorted[i] \in UserTypes THEN TName ELSE sorted[i]]

NormalizeType(t)  == SortParts(SortParts([i \in DOMAIN t |-> IF t[i] \in UserTypes THEN TName ELSE t[i]], Or), And)

(***************************************************************************)
(* Properties.                                                             *)
(***************************************************************************)
(* The lexemes of a text: comments, string literals, single characters.     *)
LexemeEnd(t, i) ==
  CASE t[i] = "/" /\ CharAt(t, i + 1) = "/" -> Min({Len(t)} \cup {j \in i..Len(t) : t[j] = Newline})
    [] t[i] = "/" /\ CharAt(t, i + 1) = "*" -> Min({Len(t)} \cup {j \in (i + 3)..Len(t) : t[j - 1] = "*" /\ t[j] = "/"})
    [] t[i] \in Quotes -> Min({Len(t)} \cup {j \in (i + 1)..Len(t) : t[j] = t[i] /\ ~Escaped(t, i, j)})
    [] OTHER -> i
Starts(t) ==
  LET starts[i \in 1..(Len(t) + 1)] == IF i > Len(t) THEN {} ELSE {i} \cup starts[LexemeEnd(t, i) + 1]
  IN starts[1]

CountTo(t, c, j) == Cardinality({i \in Starts(t) : i <= j /\ t[i] = c})
Closing(t)  == {j \in Starts(t) : t[j] = "}" /\ CountTo(t, "{", j) = CountTo(t, "}", j)}
Comments(t, c) == {i \in Starts(t) : t[i] = "/" /\ CharAt(t, i + 1) = c}
Tokens(t, c) == Cardinality({k \in DOMAIN NormalizeTokens(t) : NormalizeTokens(t)[k] = c})

BlockEnds(t) ==
  LET end == MatchBrace(t)
  IN /\ (\A i \in Comments(t, "*") : CharAt(t, i + 2) # "/")
        => end = IF Closing(t) = {} THEN 0 ELSE Min(Closing(t))
     /\ end # 0 /\ Comments(t, "*") \cup Comments(t, "/") = {}
        => Tokens(SubSeq(t, 1, end), "{") = Tokens(SubSeq(t, 1, end), "}")

(* match_brace stops at the first brace that closes the block, braces in    *)
(* comments and literals not counted, and the block it cuts out has as many *)
(* opening as closing brace tokens if there is no comment in it: the two    *)
(* readers agree on where literals end.  The exception is a comment that    *)
(* begins like "/*/", which match_brace takes for a whole one.              *)
BlockEndsAtItsBrace == BlockEnds(text)

Pure(t, op) == \A i \in DOMAIN t : t[i] \in {op} \cup TypeNames
Members(t)  == {IF t[i] \in UserTypes THEN TName ELSE t[i] : i \in DOMAIN t} \ {And, Or}
NormalForm(t, op) == JoinBy(Each(Sorted(Members(t)), LAMBDA n : <<n>>), op)

(* The normal form of a union, or of an intersection, is its members in      *)
(* order, each once, user types taken for one: however they were written,    *)
(* and no matter that sorting follows the renaming, two of them have the     *)
(* same form exactly when they have the same members.  (Of types that mix    *)
(* both, some are merged that differ.)                                      *)
TypesNormalize == \A op \in {And, Or} : Pure(type, op) => NormalizeType(type) = NormalForm(type, op)
=========================================================================
