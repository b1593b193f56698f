----------------------------- MODULE CBlockRuns -----------------------------
(***************************************************************************)
(* Which lists of blocks get through bf_optimize_merge_blocks.  A list is  *)
(* told by a sequence of Booleans: TRUE for a block of operations, FALSE   *)
(* for a container.  CMergeBlocks checks Survives against the loop itself, *)
(* pointer by pointer; COptimizer uses it to know when the tree goes on.   *)
(***************************************************************************)
EXTENDS Integers, Sequences

\* Block i is merged with its successor.
Merges(isOps, i) == i \in 1 .. Len(isOps) - 1 /\ isOps[i] /\ isOps[i + 1]

\* No merge takes the last block, which crashes; and none starts right behind
\* the container that ended an earlier run, whose prev is a freed block: using
\* it crashes, or, if a merged block has got its address, loses the container.
Survives(isOps) ==
  \A i \in DOMAIN isOps : Merges(isOps, i) =>
    /\ i + 1 < Len(isOps)
    /\ isOps[i + 2] \/ ~Merges(isOps, i + 3)
=============================================================================
