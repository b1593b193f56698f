--------------------------- MODULE MCCMergeBlocks ---------------------------
(***************************************************************************)
(* CMergeBlocks on every list of at most 7 blocks, and allocators that     *)
(* return any of 8 addresses that are not in use.                          *)
(***************************************************************************)
EXTENDS CMergeBlocks

MCNode == 1 .. 8
=============================================================================
