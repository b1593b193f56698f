---------------------------- MODULE CMergeBlocks ----------------------------
(***************************************************************************)
(* The loop of bf_optimize_merge_blocks (src/c/optimizer.c) over the list  *)
(* of blocks of one container, pointer by pointer.  Blocks that hold       *)
(* operations are merged with their successor as long as that holds        *)
(* operations too.                                                         *)
(*                                                                         *)
(* The successor is unlinked as bf_list_remove(..., block->next), while    *)
(* block is still in the list: the macro's first assignment changes what   *)
(* its argument means.  The blocks merged are freed, and the allocator may *)
(* return their addresses for blocks made later.                           *)
(***************************************************************************)
EXTENDS BfList, CBlockRuns, SequencesExt

CONSTANT MaxBlocks      \* bound: blocks in the container

ASSUME CMergeBlocksAssumption == MaxBlocks \in Nat /\ 1 .. MaxBlocks \subseteq Node

VARIABLES
  isOps,      \* the container's blocks at first: TRUE for operations
  blocks,     \* the list
  alive,      \* addresses of blocks that are allocated
  holds,      \* for each of them, the blocks it is made of (numbers)
  block,      \* the loop's variable
  status      \* "merging"; "done"; "crashed": a null pointer dereferenced;
              \* "wild": freed memory used

vars == <<isOps, blocks, alive, holds, block, status>>

\* The list of blocks 1 to n, which are at the addresses 1 to n.
Built(n) ==
  LET NodeAt(i) == IF i \in 1 .. n THEN i ELSE NULL
  IN [first |-> NodeAt(1), last |-> NodeAt(n),
      next |-> [x \in Node |-> IF x \in 1 .. n THEN NodeAt(x + 1) ELSE NULL],
      prev |-> [x \in Node |-> IF x \in 1 .. n THEN NodeAt(x - 1) ELSE NULL],
      fault |-> FALSE]

Init ==
  /\ isOps \in BoundedSeq(BOOLEAN, MaxBlocks)
  /\ blocks = Built(Len(isOps))
  /\ alive = DOMAIN isOps
  /\ holds = [x \in Node |-> IF x \in alive THEN << x >> ELSE << >>]
  /\ block = blocks.first
  /\ status = "merging"

\* A merged block holds operations, so does one of the blocks at first.
HoldsOps(x) == isOps[holds[x][1]]

Follower == blocks.next[block]

Looking ==
  /\ status = "merging"
  /\ block \in alive
  /\ Follower \in alive \cup {NULL}

Mergeable == HoldsOps(block) /\ Follower # NULL /\ HoldsOps(Follower)

\* The list without block's successor.
WithoutNext(l) == ListRemove(l, NextOf(block))

\* The blocks whose fields are read or written on the way.
Touched ==
  LET beyond == blocks.next[Follower] IN
  {blocks.prev[block], blocks.prev[Follower], beyond}
    \cup IF beyond = NULL THEN {} ELSE {blocks.next[beyond]}

Freed_NotNext == {block}
Freed == {block, Follower}

Merge(result) ==
  /\ Looking
  /\ Mergeable
  /\ result \notin alive
  /\ LET rest == WithoutNext(Created(blocks, result))
         merged == ListReplace(rest, block, result)
     IN IF rest.fault THEN status' = "crashed" /\ UNCHANGED <<blocks, alive, holds, block>>
        ELSE IF ~(Touched \subseteq alive \cup {NULL, result}) \/ Follower = block
        THEN status' = "wild" /\ UNCHANGED <<blocks, alive, holds, block>>
        ELSE /\ blocks' = merged
             /\ alive' = (alive \cup {result}) \ Freed
             /\ holds' = [holds EXCEPT ![result] = holds[block] \o holds[Follower]]
             /\ block' = result
             /\ UNCHANGED status
  /\ UNCHANGED isOps

Advance_Stays ==
  /\ Looking
  /\ ~Mergeable
  /\ UNCHANGED vars
Advance ==
  /\ Looking
  /\ ~Mergeable
  /\ block' = Follower
  /\ UNCHANGED <<isOps, blocks, alive, holds, status>>

Finish ==
  /\ status = "merging"
  /\ block = NULL
  /\ status' = "done"
  /\ UNCHANGED <<isOps, blocks, alive, holds, block>>

\* The loop looks at a block, or at the successor of one, that is not there.
LookAtFreed ==
  /\ status = "merging"
  /\ block # NULL
  /\ ~Looking
  /\ status' = "wild"
  /\ UNCHANGED <<isOps, blocks, alive, holds, block>>

Next == (\E result \in Node : Merge(result)) \/ Advance \/ Finish \/ LookAtFreed

Spec == Init /\ [][Next]_vars /\ WF_vars(Next)
-----------------------------------------------------------------------------
\* The numbers of the first and the last of the blocks that x is made of.
Lo(x) == holds[x][1]
Hi(x) == holds[x][1] + Len(holds[x]) - 1

\* Types; every block that is allocated holds a part of the blocks at first,
\* none left out in between, and no two hold the same.
TypeOK ==
  /\ isOps \in Seq(BOOLEAN) /\ Len(isOps) <= MaxBlocks
  /\ blocks \in List
  /\ alive \subseteq Node
  /\ holds \in [Node -> Seq(DOMAIN isOps)]
  /\ \A x \in alive : /\ holds[x] # << >>
                      /\ \A k \in DOMAIN holds[x] : holds[x][k] = Lo(x) + k - 1
  /\ \A x, y \in alive : x # y => Hi(x) < Lo(y) \/ Hi(y) < Lo(x)
  /\ block \in Pointer
  /\ status \in {"merging", "done", "crashed", "wild"}

\* Only the lists that CBlockRuns says do not survive kill the process.
EndsWell == status \in {"crashed", "wild"} => ~Survives(isOps)

(***************************************************************************)
(* Read forwards, the list holds every block's operations in their order,  *)
(* has no two blocks of operations in a row, and nothing in it has been    *)
(* freed or leaked: each block takes up where the one before it ends.      *)
(***************************************************************************)
InPlace(x) ==
  LET y == blocks.next[x] IN
  IF y = NULL THEN Hi(x) = Len(isOps)
  ELSE y \in alive /\ Lo(y) = Hi(x) + 1 /\ ~(HoldsOps(x) /\ HoldsOps(y))

InOrder ==
  /\ IF isOps = << >> THEN blocks.first = NULL /\ alive = {}
     ELSE blocks.first \in alive /\ Lo(blocks.first) = 1
  /\ \A x \in alive : InPlace(x)

\* When the loop has come to its end, the lists that survive, and only those,
\* are merged completely and in order: of the others a container is lost.
MergedInOrder == status = "done" => (InOrder <=> Survives(isOps))

\* The loop stops, one way or another: no list sends it in circles.
Stops == <>(status # "merging")

\* Merging succeeds whatever the blocks are.
MergingSucceeds == status \notin {"crashed", "wild"}
=============================================================================
