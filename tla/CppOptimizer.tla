---------------------------- MODULE CppOptimizer ----------------------------
(***************************************************************************)
(* BfOptimizer::Optimize: four passes over the tree, each a visitor that   *)
(* rewrites one list of children and recurses into the blocks in it.       *)
(*                                                                         *)
(* A visitor edits the list it iterates over.  Erasing the first element   *)
(* and stepping back leaves the iterator on the list's end, from where the *)
(* next increment reaches the new first element: libstdc++'s lists are     *)
(* circular, and what the visitors compute is a left fold over the         *)
(* children.                                                               *)
(***************************************************************************)
EXTENDS BfProgram, CppPasses

CONSTANTS
  Inputs,     \* bound: what the standard input may hold, sequences of cells
  Fuel        \* bound: steps after which a run is compared as it stands

VARIABLES
  program,    \* the tree
  pass        \* number of passes made

cppOptimizerVars == <<program, pass>>

-----------------------------------------------------------------------------
(* BfOptimizeOps: a node is absorbed by its predecessor when the two fuse. *)

Absorb_SkipsFirst(done, node) ==
  IF Len(done) > 1 /\ ~IsBlock(Last(done)) /\ ~IsBlock(node)
     /\ Fusible(Last(done).opcode, node.opcode)
  THEN Append(Front(done), Op(Fused(Last(done).opcode, node.opcode)))
  ELSE Append(done, node)
Absorb(done, node) ==
  IF done # << >> /\ ~IsBlock(Last(done)) /\ ~IsBlock(node)
     /\ Fusible(Last(done).opcode, node.opcode)
  THEN Append(Front(done), Op(Fused(Last(done).opcode, node.opcode)))
  ELSE Append(done, node)

RECURSIVE OptimizeOps(_)
OptimizeOps(block) ==
  LET Visit(node) == IF IsBlock(node) THEN OptimizeOps(node) ELSE node
  IN [block EXCEPT !.children =
        FoldLeft(Absorb, << >>, [i \in DOMAIN @ |-> Visit(@[i])])]

-----------------------------------------------------------------------------
(* BfOptimizeReorder: opcodes move, shifts wait for the next block or end. *)

Ops(opcodes) == [i \in DOMAIN opcodes |-> Op(opcodes[i])]

Displace(done, node) ==
  IF IsBlock(node)
  THEN [children |-> done.children \o Ops(Flushed(done.offset)) \o << node >>,
        offset   |-> 0]
  ELSE IF node.opcode.op = "BF_SFT"
  THEN [done EXCEPT !.offset = @ + node.opcode.arg]
  ELSE [done EXCEPT !.children = Append(@, Op(Moved(node.opcode, done.offset)))]

RECURSIVE OptimizeReorder(_)
OptimizeReorder(block) ==
  LET Visit(node) == IF IsBlock(node) THEN OptimizeReorder(node) ELSE node
      visited == [i \in DOMAIN block.children |-> Visit(block.children[i])]
      done == FoldLeft(Displace, [children |-> << >>, offset |-> 0], visited)
  IN [block EXCEPT !.children = done.children \o Ops(Flushed(done.offset))]

-----------------------------------------------------------------------------
(* BfOptimizeSimpleLoop: inner loops first, then the block itself.         *)

HasBlocks(block) == \E i \in DOMAIN block.children : IsBlock(block.children[i])

\* The sum of the arguments of the opcodes at the positions counted.
SumOfArgs(block, counted) ==
  MapThenSumSet(LAMBDA i : block.children[i].opcode.arg, counted)

Shifts(block) ==
  {i \in DOMAIN block.children : block.children[i].opcode.op = "BF_SFT"}

\* Additions to the cell that the loop tests.
Counts(block) ==
  {i \in DOMAIN block.children :
     block.children[i].opcode.op = "BF_ADD" /\ block.children[i].opcode.dst = 0}

\* A loop that counts cell 0 down by one and only adds on the way.
IsSimple(block) ==
  /\ block.cycle
  /\ ~HasBlocks(block)
  /\ \A i \in DOMAIN block.children :
       block.children[i].opcode.op \in {"BF_ADD", "BF_SFT"}
  /\ SumOfArgs(block, Shifts(block)) = 0
  /\ SumOfArgs(block, Counts(block)) = -1

\* The straight-line block an optimizable loop becomes.
Unroll(block) ==
  Block(FALSE,
        FlattenSeq([i \in DOMAIN block.children |->
                      Ops(Unrolled(block.children[i].opcode))])
          \o << Op(MkOp("BF_SET", 0, 0, 0)) >>)

\* A block that was unrolled is merged into the main program, not into loops.
Spliced(parent, node) ==
  IF IsBlock(node) /\ ~node.cycle /\ ~parent.cycle /\ ~HasBlocks(node)
  THEN node.children
  ELSE << node >>

RECURSIVE OptimizeSimpleLoop(_)
OptimizeSimpleLoop(block) ==
  LET Visit(node) == IF IsBlock(node) THEN OptimizeSimpleLoop(node) ELSE node
  IN IF IsSimple(block) THEN Unroll(block)
     ELSE [block EXCEPT !.children =
             FlattenSeq([i \in DOMAIN @ |-> Spliced(block, Visit(@[i]))])]

-----------------------------------------------------------------------------
Passes == 4

Init == program = Block(FALSE, << >>) /\ pass = 0

OpsPass ==
  /\ pass \in {0, 3}
  /\ program' = OptimizeOps(program)
  /\ pass' = pass + 1

ReorderPass ==
  /\ pass = 1
  /\ program' = OptimizeReorder(program)
  /\ pass' = pass + 1

SimpleLoopPass ==
  /\ pass = 2
  /\ program' = OptimizeSimpleLoop(program)
  /\ pass' = pass + 1

Optimize == OpsPass \/ ReorderPass \/ SimpleLoopPass

-----------------------------------------------------------------------------
Neighbours(block) ==
  {<<block.children[i], block.children[i + 1]>> :
     i \in {j \in 1 .. Len(block.children) - 1 :
              ~IsBlock(block.children[j]) /\ ~IsBlock(block.children[j + 1])}}

Runs(code, fuel) == [input \in Inputs |-> Run(code, Loaded(input), fuel)]

\* Code q does what code p does, on every input.  A run of q may be longer:
\* an unrolled loop that would not have been entered costs its opcodes.
SameRuns(p, q) ==
  LET original == Runs(p, Fuel)
      translated == Runs(q, 2 * Fuel)
  IN \A input \in Inputs : Agree(original[input], translated[input])

\* Two multiplications of the same cells follow each other in some block.
RepeatsMul(tree) ==
  \E b \in BlocksOf(tree) : \E n \in Neighbours(b) :
    /\ n[1].opcode.op = "BF_MUL" /\ n[2].opcode.op = "BF_MUL"
    /\ n[1].opcode.src = n[2].opcode.src /\ n[1].opcode.dst = n[2].opcode.dst

\* The fusing passes leave nothing to fuse: an opcode that has just absorbed
\* its neighbour is tried against the next one.
FusedOut ==
  pass \in {1, 4} =>
    \A b \in BlocksOf(program) : \A n \in Neighbours(b) :
      ~Fusible(n[1].opcode, n[2].opcode)

\* After reordering, a block moves the pointer only where it hands control to
\* another block or ends, and never by nothing.  Simple loops, which must not
\* move it at all, can only be recognised because of this.  Splicing unrolled
\* loops into the main block undoes it there, and nowhere else.
ShiftsAtTheEdges ==
  pass >= 2 =>
    \A b \in BlocksOf(program) \ IF pass = 2 THEN {} ELSE {program} :
      \A i \in DOMAIN b.children :
        ~IsBlock(b.children[i]) /\ b.children[i].opcode.op = "BF_SFT" =>
          /\ b.children[i].opcode.arg # 0
          /\ i < Len(b.children) => IsBlock(b.children[i + 1])
=============================================================================
