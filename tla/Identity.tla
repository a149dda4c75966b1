------------------------------- MODULE Identity -------------------------------
(***************************************************************************)
(* The names and ids of groups and rules (packages/schema, identity.ts).    *)
(*                                                                          *)
(* Names and ids are sequences of tokens, as both are made by appending to  *)
(* them: "Copy 2" is <<"copy", "2">> and its id "Copy2" the same sequence.  *)
(* The token "!" stands for characters that an id drops.                    *)
(***************************************************************************)
EXTENDS Naturals, FiniteSets, SequencesExt

\* The first of stem, stem 2, stem 3, ... that is not taken.
Free(stem, taken) ==
  IF stem \notin taken THEN stem
  ELSE LET k == CHOOSE n \in 2 .. Cardinality(taken) + 2 :
                  /\ Append(stem, ToString(n)) \notin taken
                  /\ \A m \in 2 .. n - 1 : Append(stem, ToString(m)) \in taken
       IN  Append(stem, ToString(k))

\* The name without what an id drops, or the kind of the entity.
DeriveId(name, kind, taken) ==
  LET tokens == SelectSeq(name, LAMBDA t : t # "!")
  IN  Free(IF tokens = <<>> THEN <<kind>> ELSE tokens, taken)
===============================================================================
