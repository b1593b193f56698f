------------------------------ MODULE FlatCode ------------------------------
(***************************************************************************)
(* The flat code of a tree, which drives the code generators of both       *)
(* versions: its operations in order, and for each block that is a loop a  *)
(* LOOP and an END, which lead to each other.                              *)
(***************************************************************************)
EXTENDS Integers, Sequences

Operations == {"BF_ADD", "BF_MUL", "BF_SFT", "BF_PUT", "BF_GET", "BF_SET"}
FlatOp == [op : Operations \cup {"LOOP", "END"}, src : Int, dst : Int, arg : Int]

Opens(ops) == {i \in DOMAIN ops : ops[i].op = "LOOP"}
Closes(ops) == {i \in DOMAIN ops : ops[i].op = "END"}
EndOf(ops, i) == i + ops[i].arg - 1

\* Loops do not cross, and the END of a loop jumps back to its LOOP.
IsTreeCode(ops) ==
  /\ ops \in Seq(FlatOp)
  /\ \A i \in Opens(ops) : i < EndOf(ops, i)
  /\ {EndOf(ops, i) : i \in Opens(ops)} = Closes(ops)
  /\ \A i, j \in Opens(ops) :
       i < j => EndOf(ops, j) < EndOf(ops, i) \/ EndOf(ops, i) < j
  /\ \A i \in Opens(ops) : EndOf(ops, i) + ops[EndOf(ops, i)].arg = i
=============================================================================
