----------------------------- MODULE CppPasses -----------------------------
(***************************************************************************)
(* What the optimizer passes do to single opcodes: which neighbours        *)
(* BfOptimizeOps fuses and into what, how BfOptimizeReorder moves an       *)
(* opcode by the shift it has absorbed, and what BfOptimizeSimpleLoop      *)
(* makes of an addition inside a counting loop.                            *)
(***************************************************************************)
EXTENDS BfMachine

\* BfOptimizeOps: a and its successor b become one opcode.
Fusible(a, b) ==
  /\ a.op = b.op
  /\ a.op \in {"BF_ADD", "BF_MUL", "BF_SFT", "BF_SET"}
  /\ a.op \in {"BF_ADD", "BF_MUL"} => a.src = b.src /\ a.dst = b.dst

Fused_KeepsFirst(a, b) == a
Fused(a, b) ==
  CASE a.op \in {"BF_ADD", "BF_SFT"} -> [a EXCEPT !.arg = @ + b.arg]
    [] a.op = "BF_MUL" -> [a EXCEPT !.arg = @ * b.arg]
    [] a.op = "BF_SET" -> a

\* BfOptimizeReorder: a shift is absorbed, everything after it is moved.
Moved_DestinationOnly(o, offset) == [o EXCEPT !.dst = @ + offset]
Moved(o, offset) == [o EXCEPT !.src = @ + offset, !.dst = @ + offset]

\* The shift that takes effect where a block begins or ends.
Flushed_Always(offset) == << MkOp("BF_SFT", 0, 0, offset) >>
Flushed(offset) ==
  IF offset = 0 THEN << >> ELSE << MkOp("BF_SFT", 0, 0, offset) >>

\* BfOptimizeSimpleLoop: adding arg to a cell once per count of cell 0; the
\* additions to cell 0 itself are the counting and disappear.
Unrolled(o) ==
  IF o.op # "BF_ADD" THEN << o >>
  ELSE IF o.dst = 0 THEN << >>
  ELSE << MkOp("BF_MUL", 0, o.dst, o.arg) >>
=============================================================================
