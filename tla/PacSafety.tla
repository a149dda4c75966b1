------------------------------ MODULE PacSafety ------------------------------
(***************************************************************************)
(* pac-safety.ts: the scan that keeps a request-body rule with a slow      *)
(* regular expression off the PAC.  A pattern is a sequence of tokens: a   *)
(* letter, "\\" with the token it escapes, the brackets of a class, the    *)
(* brackets of a group, "|", "?", "*", and the brace quantifiers "{2}" and *)
(* "{2,}" ("+" reads as "*").                                              *)
(***************************************************************************)
EXTENDS Integers, Sequences, SequencesExt

CONSTANTS
    Pieces,       \* the token sequences a pattern is put together from
    MaxPieces     \* bound: pieces of a pattern

VARIABLES pattern, pieces

vars == <<pattern, pieces>>

Bounded == {"?", "{2}"}
Unbounded == {"*", "{2,}"}

QuantifierAt(p, i) == IF i <= Len(p) /\ p[i] \in Bounded \cup Unbounded THEN p[i] ELSE "none"

\* The index after the class that opens before i; Len(p) + 1 when none closes it.
RECURSIVE SkipClass(_, _)
SkipClass(p, i) ==
    IF i > Len(p) THEN Len(p) + 1
    ELSE IF p[i] = "]" THEN i + 1
    ELSE SkipClass(p, IF p[i] = "\\" THEN i + 2 ELSE i + 1)

\* The index of the bracket that closes the group open at depth.
RECURSIVE SkipGroup(_, _, _)
SkipGroup(p, i, depth) ==
    IF i > Len(p) THEN Len(p) + 1
    ELSE CASE p[i] = "\\" -> SkipGroup(p, i + 2, depth)
           [] p[i] = "[" -> SkipGroup(p, SkipClass(p, i + 1), depth)
           [] p[i] = "(" -> SkipGroup(p, i + 1, depth + 1)
           [] p[i] = ")" /\ depth = 1 -> i
           [] p[i] = ")" /\ depth # 1 -> SkipGroup(p, i + 1, depth - 1)
           [] OTHER -> SkipGroup(p, i + 1, depth)

\* A plausible slip: the search for "|" forgets that a class may hold one.
RECURSIVE AlternationInClasses(_, _)
AlternationInClasses(p, i) ==
    IF i > Len(p) THEN FALSE
    ELSE p[i] = "|" \/ AlternationInClasses(p, IF p[i] = "\\" THEN i + 2 ELSE i + 1)

RECURSIVE ContainsAlternation(_, _)
ContainsAlternation(p, i) ==
    IF i > Len(p) THEN FALSE
    ELSE CASE p[i] = "\\" -> ContainsAlternation(p, i + 2)
           [] p[i] = "[" -> ContainsAlternation(p, SkipClass(p, i + 1))
           [] OTHER -> p[i] = "|" \/ ContainsAlternation(p, i + 1)

\* Groups within the group are passed over.
RECURSIVE ContainsUnbounded(_, _)
ContainsUnbounded(p, i) ==
    IF i > Len(p) THEN FALSE
    ELSE CASE p[i] = "\\" -> ContainsUnbounded(p, i + 2)
           [] p[i] = "[" -> ContainsUnbounded(p, SkipClass(p, i + 1))
           [] p[i] = "(" -> ContainsUnbounded(p, SkipGroup(p, i, 0) + 1)
           [] OTHER -> p[i] \in Unbounded \/ ContainsUnbounded(p, i + 1)

RECURSIVE Scan(_, _)
Scan(p, i) ==
    IF i > Len(p) THEN TRUE
    ELSE CASE p[i] = "\\" -> Scan(p, i + 2)
           [] p[i] = "[" -> Scan(p, SkipClass(p, i + 1))
           [] p[i] = "(" ->
                LET end == SkipGroup(p, i, 0)
                    body == SubSeq(p, i + 1, end - 1)
                    quantifier == QuantifierAt(p, end + 1)
                IN /\ ~(i < Len(p) /\ p[i + 1] = "?")
                   /\ end <= Len(p)
                   /\ Scan(body, 1)
                   /\ ~(quantifier # "none" /\ ContainsAlternation(body, 1))
                   /\ ~(quantifier \in Unbounded /\ ContainsUnbounded(body, 1))
                   /\ Scan(p, IF quantifier = "none" THEN end + 1 ELSE end + 2)
           [] OTHER -> Scan(p, i + 1)

-----------------------------------------------------------------------------
Init == pattern = <<>> /\ pieces = 0

Extended(piece) ==
    /\ pieces < MaxPieces
    /\ pattern' = pattern \o piece
    /\ pieces' = pieces + 1

Next == \E piece \in Pieces : Extended(piece)

Spec == Init /\ [][Next]_vars

-----------------------------------------------------------------------------
(* Reference: the groups of a pattern by the count of its live brackets,   *)
(* those that neither a backslash nor a class takes.                       *)

\* How a token is read after another that is read as before.
ReadAfter(before, token) ==
    CASE before = "escape" -> "escaped"
      [] before = "escape in class" -> "in class"
      [] before = "in class" -> CASE token = "\\" -> "escape in class"
                                  [] token = "]" -> "end of class"
                                  [] OTHER -> "in class"
      [] OTHER -> CASE token = "\\" -> "escape" [] token = "[" -> "in class" [] OTHER -> "live"

Live == LET read[i \in 0..Len(pattern)] ==
                LET before == read[i - 1]
                IN IF i = 0 THEN "live" ELSE ReadAfter(before, pattern[i])
        IN {i \in 1..Len(pattern) : read[i] = "live"}

At(live, tokens) == {i \in live : pattern[i] \in tokens}
Among(places, i, j) == Cardinality({k \in places : i <= k /\ k <= j})

GroupPairs(open, close) ==
    {<<i, j>> \in open \X close :
        /\ i < j /\ Among(open, i, j) = Among(close, i, j)
        /\ \A k \in i..(j - 1) : Among(open, i, k) > Among(close, i, k)}

\* What a regular expression compiles from: brackets in pairs, and a
\* quantifier only after something it can repeat.
WellFormed(live, pairs) ==
    /\ {pair[1] : pair \in pairs} = At(live, {"("})
    /\ {pair[2] : pair \in pairs} = At(live, {")"})
    /\ \A i \in At(live, Bounded \cup Unbounded) :
          i > 1 /\ i - 1 \notin At(live, {"(", "|"} \cup Bounded \cup Unbounded)

Inside(pair, places) == \E k \in places : pair[1] < k /\ k < pair[2]

Branching(live, pairs) ==
    \E pair \in pairs : /\ pair[2] + 1 \in At(live, Bounded \cup Unbounded)
                        /\ Inside(pair, At(live, {"|"}))
Nested(live, pairs) ==
    \E pair \in pairs : /\ pair[2] + 1 \in At(live, Unbounded)
                        /\ Inside(pair, At(live, Unbounded))

\* A repeated group with a branch is refused, however deep the branch is, and
\* nothing is refused but for a branch or a repetition in a repeated group: an
\* escaped or classed "(", "|" or "*" counts for neither (pac-safety.ts).
ScanExact ==
    \A live \in {Live} : \A pairs \in {GroupPairs(At(live, {"("}), At(live, {")"}))} :
        WellFormed(live, pairs) =>
            /\ Branching(live, pairs) => ~Scan(pattern, 1)
            /\ ~Scan(pattern, 1) => Branching(live, pairs) \/ Nested(live, pairs)

\* REQ-025 of the rule model: a repeated group that holds an unbounded
\* quantifier is refused.
NestedRepeatsRefused ==
    \A live \in {Live} : \A pairs \in {GroupPairs(At(live, {"("}), At(live, {")"}))} :
        WellFormed(live, pairs) /\ Nested(live, pairs) => ~Scan(pattern, 1)
=============================================================================
