---------------------------- MODULE MCReorderRuns ----------------------------
(***************************************************************************)
(* ReorderRuns with the opcodes the compiler makes, each command character *)
(* and some of the runs of shifts and additions the first pass fuses.      *)
(***************************************************************************)
EXTENDS ReorderRuns

MCLo == -1
MCCode ==
  { MkOp("BF_ADD", 0, 0, 1), MkOp("BF_ADD", 0, 0, -2),
    MkOp("BF_SFT", 0, 0, 1), MkOp("BF_SFT", 0, 0, -2),
    MkOp("BF_PUT", 0, 0, 0), MkOp("BF_GET", 0, 0, 0) }
MCInputs == { << >>, <<1, 2>> }
=============================================================================
