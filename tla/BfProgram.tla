----------------------------- MODULE BfProgram -----------------------------
(***************************************************************************)
(* Programs in the three forms they take, and what it means to run them:   *)
(*                                                                         *)
(*   - source text, a sequence of characters (Source gives its meaning);   *)
(*   - the tree of BfBlock and BfOp nodes the compiler builds;             *)
(*   - flat code, opcodes with the two jumps a cycle block compiles to.    *)
(*                                                                         *)
(* Run executes flat code one opcode at a time on a BfMachine, and Agree   *)
(* compares two runs the way a user of the interpreter would.              *)
(***************************************************************************)
EXTENDS BfMachine, BfText, SequencesExt

-----------------------------------------------------------------------------
(* Trees: BfOp and BfBlock nodes.  line and pos of a BfOp are never read.  *)

Op(opcode) == [type |-> "OP", opcode |-> opcode]

Block(cycle, children) ==
  [type |-> "BLOCK", cycle |-> cycle, children |-> children]

IsBlock(node) == node.type = "BLOCK"

\* Every block of a tree, the tree itself included.
RECURSIVE BlocksOf(_)
BlocksOf(block) ==
  {block} \cup
    UNION {BlocksOf(block.children[i]) :
             i \in {j \in DOMAIN block.children : IsBlock(block.children[j])}}

-----------------------------------------------------------------------------
(***************************************************************************)
(* Flat code.  The jumps of a cycle are relative, so that code can be put  *)
(* together from parts.                                                    *)
(***************************************************************************)
Jump(kind, distance) == MkOp(kind, 0, 0, distance)

Cycle(body) ==
  << Jump("LOOP", Len(body) + 2) >> \o body \o << Jump("END", -(Len(body) + 1)) >>

RECURSIVE Flat(_)
Flat(block) ==
  LET Of(node) == IF IsBlock(node) THEN Flat(node) ELSE << node.opcode >>
      body == FlattenSeq([i \in DOMAIN block.children |-> Of(block.children[i])])
  IN IF block.cycle THEN Cycle(body) ELSE body

-----------------------------------------------------------------------------
(* The meaning of a source text, of what BfText keeps of it.               *)

\* The opcode BfOp's constructor gives a command character.
OpOf(c) ==
  CASE c = "+" -> MkOp("BF_ADD", 0, 0, 1)
    [] c = "-" -> MkOp("BF_ADD", 0, 0, -1)
    [] c = ">" -> MkOp("BF_SFT", 0, 0, 1)
    [] c = "<" -> MkOp("BF_SFT", 0, 0, -1)
    [] c = "." -> MkOp("BF_PUT", 0, 0, 0)
    [] c = "," -> MkOp("BF_GET", 0, 0, 0)

Source(text) ==
  LET t == Terminated(text)
  IN [i \in DOMAIN t |->
        CASE t[i] = "[" ->
               Jump("LOOP", (CHOOSE j \in DOMAIN t : Closes(t, i, j)) + 1 - i)
          [] t[i] = "]" ->
               Jump("END", (CHOOSE j \in DOMAIN t : Closes(t, j, i)) - i)
          [] OTHER -> OpOf(t[i])]

-----------------------------------------------------------------------------
(* Running flat code from the state p of Interpreted, fuel steps at most. *)

RECURSIVE RunFrom(_, _, _)
RunFrom(code, p, fuel) ==
  IF Stopped(code, p) THEN [halted |-> TRUE, machine |-> p.m]
  ELSE IF fuel = 0 THEN [halted |-> FALSE, machine |-> p.m]
  ELSE RunFrom(code, Interpreted(code, p), fuel - 1)

Run(code, m, fuel) == RunFrom(code, [pc |-> 1, m |-> m], fuel)

(***************************************************************************)
(* What a translated program owes the program it was made from.  Touching  *)
(* a cell off the tape has no meaning in the original, so nothing is owed  *)
(* then.  An original that stops must be matched to the last cell; one     *)
(* that is still running when the fuel is gone is taken to run forever:    *)
(* its translation must do so too, and print the same, as far as the       *)
(* shorter of the two outputs goes.  Too little fuel for an original that  *)
(* would have stopped shows as a disagreement, never as an agreement.      *)
(***************************************************************************)
Agree(original, translated) ==
  \/ original.machine.fault
  \/ original.halted /\ translated = original
  \/ /\ ~original.halted /\ ~translated.halted
     /\ \/ IsPrefix(original.machine.out, translated.machine.out)
        \/ IsPrefix(translated.machine.out, original.machine.out)
=============================================================================
