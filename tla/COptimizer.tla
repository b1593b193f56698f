----------------------------- MODULE COptimizer -----------------------------
(***************************************************************************)
(* bf_optimize_program (src/c/optimizer.c): the passes that the options'   *)
(* optimization level selects, one step per pass.                          *)
(*                                                                         *)
(* The lists of operations and of blocks are sequences here.  The passes   *)
(* keep the list of blocks intact but for the merging of blocks, whose     *)
(* damage CMergeBlocks describes: where the list survives a merge (see     *)
(* CBlockRuns) the passes go on, otherwise the program is broken and        *)
(* nothing is said of what follows.                                        *)
(***************************************************************************)
EXTENDS CPasses, CProgram, CBlockRuns

CONSTANTS
  Levels,     \* optimization levels considered
  Inputs,     \* bound: what the standard input may hold
  Fuel        \* bound: steps after which a run is compared as it stands

VARIABLES
  program,    \* the tree
  level,      \* bf_options.optimize_level
  pass,       \* number of passes made
  broken      \* a list of blocks has been corrupted, or the process killed

cOptimizerVars == <<program, level, pass, broken>>

-----------------------------------------------------------------------------
RECURSIVE OptimizeReorder(_)
OptimizeReorder(container) ==
  LET Visit(b) == IF b.is_container THEN OptimizeReorder(b) ELSE OpBlock(Reordered(b.ops))
  IN [container EXCEPT !.blocks = [i \in DOMAIN @ |-> Visit(@[i])]]

RECURSIVE OptimizeOps(_)
OptimizeOps(container) ==
  LET Visit(b) == IF b.is_container THEN OptimizeOps(b) ELSE OpBlock(Optimized(b.ops))
  IN [container EXCEPT !.blocks = [i \in DOMAIN @ |-> Visit(@[i])]]

RECURSIVE EliminateEmptyBlocks(_)
EliminateEmptyBlocks(container) ==
  LET Visit(b) == IF b.is_container THEN << EliminateEmptyBlocks(b) >>
                  ELSE IF b.ops = << >> THEN << >> ELSE << b >>
  IN [container EXCEPT !.blocks = FlattenSeq([i \in DOMAIN @ |-> Visit(@[i])])]

(***************************************************************************)
(* bf_optimize_clear and bf_optimize_loops return as soon as a block meets *)
(* the test, leaving the rest of the container as it is; the caller then   *)
(* replaces the container it asked about.                                  *)
(***************************************************************************)
Unvisited == [blocks |-> << >>, found |-> FALSE]
Visited(done, b) == [done EXCEPT !.blocks = Append(@, b)]

RECURSIVE OptimizeClear(_, _)
OptimizeClear(container, is_parent_loop) ==
  LET Visit(done, b) ==
        IF done.found THEN Visited(done, b)
        ELSE IF b.is_container
        THEN IF Len(b.blocks) > 1 THEN Visited(done, b)
             ELSE LET r == OptimizeClear(b, b.is_loop)
                  IN Visited(done, IF r.found THEN OpBlock(<< Clear >>)
                                   ELSE [b EXCEPT !.blocks = r.blocks])
        ELSE [Visited(done, b) EXCEPT !.found = is_parent_loop /\ Decrements(b.ops)]
  IN FoldLeft(Visit, Unvisited, container.blocks)

RECURSIVE OptimizeLoops(_)
OptimizeLoops(container) ==
  LET Visit(done, b) ==
        IF done.found THEN Visited(done, b)
        ELSE IF b.is_container
        THEN LET r == OptimizeLoops(b)
             IN Visited(done,
                  IF r.found /\ Len(r.blocks) = 1
                  THEN OpBlock(MadeLinear(BlockCopy(r.blocks[1].ops)))
                  ELSE [b EXCEPT !.blocks = r.blocks])
        ELSE [Visited(done, b) EXCEPT !.found = CountsDown(b.ops)]
  IN FoldLeft(Visit, Unvisited, container.blocks)

-----------------------------------------------------------------------------
\* bf_optimize_merge_blocks, when the list of blocks survives it.
Absorb(blocks, b) ==
  IF blocks # << >> /\ ~Last(blocks).is_container /\ ~b.is_container
  THEN Append(Front(blocks), OpBlock(Merged(Last(blocks).ops, b.ops)))
  ELSE Append(blocks, b)

RECURSIVE MergeBlocks(_)
MergeBlocks(container) ==
  LET Visit(b) == IF b.is_container THEN MergeBlocks(b) ELSE b
  IN [container EXCEPT !.blocks =
        FoldLeft(Absorb, << >>, [i \in DOMAIN @ |-> Visit(@[i])])]

ListSurvives(container) ==
  Survives([i \in DOMAIN container.blocks |-> ~container.blocks[i].is_container])

-----------------------------------------------------------------------------
Pipeline ==
  [l \in 0 .. 3 |->
     << "eliminate" >> \o
       CASE l = 0 -> << >>
         [] l = 1 -> << "clear" >>
         [] l = 2 -> << "reorder", "clear", "reorder", "merge", "ops" >>
         [] l = 3 -> << "reorder", "loops", "reorder", "ops" >>]

Init ==
  /\ program = Container(FALSE, << >>)
  /\ level \in Levels
  /\ pass = 0
  /\ broken = FALSE

optimized == pass = Len(Pipeline[level])

Makes(name) ==
  /\ ~broken
  /\ ~optimized
  /\ Pipeline[level][pass + 1] = name
  /\ pass' = pass + 1
  /\ UNCHANGED level

EliminatePass ==
  /\ Makes("eliminate")
  /\ program' = EliminateEmptyBlocks(program)
  /\ UNCHANGED broken

ReorderPass ==
  /\ Makes("reorder")
  /\ program' = OptimizeReorder(program)
  /\ UNCHANGED broken

ClearPass ==
  /\ Makes("clear")
  /\ program' = [program EXCEPT !.blocks = OptimizeClear(program, program.is_loop).blocks]
  /\ UNCHANGED broken

LoopsPass ==
  /\ Makes("loops")
  /\ program' = [program EXCEPT !.blocks = OptimizeLoops(program).blocks]
  /\ UNCHANGED broken

MergePass ==
  /\ Makes("merge")
  /\ IF \A c \in ContainersOf(program) : ListSurvives(c)
     THEN program' = MergeBlocks(program) /\ UNCHANGED broken
     ELSE broken' = TRUE /\ UNCHANGED program

OpsPass ==
  /\ Makes("ops")
  /\ program' = OptimizeOps(program)
  /\ UNCHANGED broken

OptimizeProgram ==
  EliminatePass \/ ReorderPass \/ ClearPass \/ LoopsPass \/ MergePass \/ OpsPass
-----------------------------------------------------------------------------
Runs(code, fuel) == [input \in Inputs |-> Run(code, Loaded(input), fuel)]

SameRuns(p, q) ==
  LET original == Runs(p, Fuel)
      translated == Runs(q, 2 * Fuel)
  IN \A input \in Inputs : Agree(original[input], translated[input])

\* A loop that only decrements, but not the cell it tests.
DecrementsElsewhere ==
  \E c \in ContainersOf(program) : \E i \in DOMAIN c.blocks :
    /\ c.is_loop /\ Len(c.blocks) = 1
    /\ ~c.blocks[i].is_container
    /\ Decrements(c.blocks[i].ops) /\ c.blocks[i].ops[1].offset # 0

\* Two cells are cleared one after the other.
ClearsNeighbours ==
  \E b \in OpBlocksOf(program) : \E i \in 1 .. Len(b.ops) - 1 :
    /\ b.ops[i].op = "BF_CLEAR" /\ b.ops[i + 1].op = "BF_CLEAR"
    /\ ~SameOffset(b.ops[i], b.ops[i + 1])

\* What the clear pass and the ops pass get wrong.
Misread ==
  /\ ~optimized
  /\ \/ Pipeline[level][pass + 1] = "clear" /\ DecrementsElsewhere
     \/ Pipeline[level][pass + 1] = "ops" /\ ClearsNeighbours
=============================================================================
