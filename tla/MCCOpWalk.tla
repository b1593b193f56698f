----------------------------- MODULE MCCOpWalk -----------------------------
(***************************************************************************)
(* COpWalk on all short blocks of each kind that a pass may be given: what *)
(* the parser makes, for level 3, where most loops stay as they are;       *)
(* bodies that count down, copied from a block that has been reordered;    *)
(* and what merging leaves for the last pass of level 2.                   *)
(***************************************************************************)
EXTENDS COpWalk, TLC

CONSTANT MaxOps     \* bound: operations in a block

Addition(count, at) == CreateOp("BF_ADD", count, at)
Moves == {CreateOp("BF_SFT", 1, 0), CreateOp("BF_SFT", -1, 0)}
Output(at) == CreateOp("BF_PUT", 0, at)
ClearOf(at) == CreateOp("BF_CLEAR", 0, at)

Parsed == BoundedSeq({Addition(1, 0), Output(0)} \cup Moves, MaxOps)

Bodies ==
  {ops \in BoundedSeq({Addition(-1, 0), Addition(1, 0), Addition(1, 1), ClearOf(1)}, MaxOps) :
     CountsDown(ops)}

MergedBlocks ==
  {ops \o << CreateOp("BF_SFT", n, 0) >> :
     n \in {0, 1},
     ops \in BoundedSeq({Addition(1, 0), Addition(1, 1), ClearOf(0), ClearOf(1), Output(0)},
                        MaxOps - 1)}

FilledFor(blocks, passes) == [ops : blocks, route : {passes}]

MCBlocks ==
  FilledFor(Parsed, <<"reorder", "reorder", "ops">>)
    \cup FilledFor(Bodies, <<"linear", "reorder", "ops">>)
    \cup FilledFor(MergedBlocks, <<"ops">>)

MCLo == -1
MCSymmetry == Permutations(Node)
=============================================================================
