----------------------------- MODULE ReorderRuns -----------------------------
(***************************************************************************)
(* BfOptimizeReorder::Visit seen from the two programs it relates: the     *)
(* original and the rewritten one run side by side, along any path through *)
(* any program.  `offset' is the visitor's: the shifts it has absorbed and *)
(* not yet put back, by which the original's pointer is ahead.             *)
(*                                                                         *)
(* A step is one opcode of a block, which the visitor absorbs if it is a   *)
(* shift and moves otherwise, or the beginning or end of a block, where    *)
(* the visitor puts back what it absorbed and starts again from 0.  Which  *)
(* opcode comes next is left open, so that every program, every number of  *)
(* iterations of its loops and every nesting is among the behaviours.      *)
(***************************************************************************)
EXTENDS CppPasses

CONSTANTS
  Code,        \* opcodes the program is made of
  Inputs,      \* what the standard input may hold
  MaxShift,    \* bound: how far the pointer may stray from the start
  MaxOut       \* bound: number of characters printed

ASSUME ReorderAssumption ==
  /\ Code \subseteq Opcode
  /\ Inputs \subseteq Seq(Cell)
  /\ MaxShift \in Nat /\ MaxOut \in Nat

VARIABLES
  original,    \* machine that runs the tree as it was
  rewritten,   \* machine that runs the tree as it becomes
  offset       \* the visitor's offset

vars == <<original, rewritten, offset>>

Init ==
  /\ \E input \in Inputs : original = Loaded(input) /\ rewritten = Loaded(input)
  /\ offset = 0

\* After a fault nothing is required of either.
Running == ~original.fault

AbsorbShift(o) ==
  /\ Running
  /\ o.op = "BF_SFT"
  /\ original.ptr + o.arg \in -MaxShift .. MaxShift
  /\ original' = Apply(original, o)
  /\ offset' = offset + o.arg
  /\ UNCHANGED rewritten

MoveOpcode(o) ==
  /\ Running
  /\ o.op # "BF_SFT"
  /\ Len(original.out) < MaxOut
  /\ original' = Apply(original, o)
  /\ rewritten' = Apply(rewritten, Moved(o, offset))
  /\ UNCHANGED offset

BlockBoundary_KeepsOffset ==
  /\ Running
  /\ rewritten' = IF Flushed(offset) = << >> THEN rewritten
                  ELSE Apply(rewritten, Flushed(offset)[1])
  /\ UNCHANGED <<original, offset>>
BlockBoundary ==
  /\ Running
  /\ rewritten' = IF Flushed(offset) = << >> THEN rewritten
                  ELSE Apply(rewritten, Flushed(offset)[1])
  /\ offset' = 0
  /\ UNCHANGED original

Next == (\E o \in Code : AbsorbShift(o) \/ MoveOpcode(o)) \/ BlockBoundary

Spec == Init /\ [][Next]_vars
-----------------------------------------------------------------------------
\* Types.
TypeOK ==
  /\ original \in Machine
  /\ rewritten \in Machine
  /\ offset \in Int

(***************************************************************************)
(* The two machines have the same tape, have read and printed the same,    *)
(* and fault at the same opcode; their pointers differ by what the visitor *)
(* has absorbed.                                                           *)
(***************************************************************************)
InStep == original = [rewritten EXCEPT !.ptr = @ + offset]

\* Control only ever leaves or enters a block with both machines in the same
\* state, so both take the same branch at every loop.
BoundaryMeets == [][BlockBoundary => original' = rewritten']_vars
=============================================================================
