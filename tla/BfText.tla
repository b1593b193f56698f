------------------------------ MODULE BfText --------------------------------
(***************************************************************************)
(* Source texts, sequences of characters, and what their brackets mean,    *)
(* stated without a parser: a bracket closes another when the text between *)
(* them is balanced.  A closing bracket that closes nothing is ignored;    *)
(* opening brackets that are never closed are closed by the end of the     *)
(* file.                                                                   *)
(***************************************************************************)
EXTENDS Integers, Sequences, FiniteSets

Commands == {"+", "-", ">", "<", ".", ","}

Count(text, c, from, to) == Cardinality({i \in from .. to : text[i] = c})

Balanced(text, from, to) ==
  /\ Count(text, "[", from, to) = Count(text, "]", from, to)
  /\ \A i \in from .. to : Count(text, "[", from, i) >= Count(text, "]", from, i)

Closes(text, i, j) ==
  /\ i < j /\ text[i] = "[" /\ text[j] = "]"
  /\ Balanced(text, i + 1, j - 1)

Kept(text) ==
  LET Keeps(i) == \/ text[i] \in Commands \cup {"["}
                  \/ \E j \in 1 .. i : Closes(text, j, i)
      positions == SelectSeq([i \in DOMAIN text |-> i], Keeps)
  IN [i \in DOMAIN positions |-> text[positions[i]]]

Terminated(text) ==
  LET k == Kept(text)
      open == Count(k, "[", 1, Len(k)) - Count(k, "]", 1, Len(k))
  IN k \o [i \in 1 .. open |-> "]"]
=============================================================================
