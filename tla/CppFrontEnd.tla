---------------------------- MODULE CppFrontEnd ----------------------------
(***************************************************************************)
(* What main() does before it generates code: CompileFile builds the tree, *)
(* then Optimize makes its passes over it.                                 *)
(***************************************************************************)
EXTENDS BfProgram

CONSTANTS Files, Inputs, Fuel

VARIABLES file, pos, frames, program, pass

Compiler == INSTANCE CppCompiler
Optimizer == INSTANCE CppOptimizer

Init == Compiler!Init /\ Optimizer!Init

Compile == Compiler!Next /\ UNCHANGED pass

Optimize ==
  /\ Compiler!compiled
  /\ Optimizer!Optimize
  /\ UNCHANGED <<file, pos, frames>>

Next == Compile \/ Optimize

-----------------------------------------------------------------------------
\* Types: the tree is a tree of opcodes after every pass.
TypeOK ==
  /\ Compiler!TypeOK
  /\ pass \in 0 .. Optimizer!Passes
  /\ pass > 0 => Compiler!compiled

\* The active calls of CompileBlock hold what the text read so far means.
PrefixUnderstood == Compiler!PrefixUnderstood

\* CompileFile returns the meaning of the whole file, unbalanced or not.
TreeMatchesBrackets == pass = 0 => Compiler!TreeMatchesBrackets

\* CompileFile returns, whatever the file holds.
Terminates == Compiler!Terminates

(***************************************************************************)
(* No pass changes what the program prints, reads or leaves on the tape,   *)
(* on any input, whatever loops are nested and whether or not they are     *)
(* entered.  The last pass is excused where it meets two multiplications   *)
(* of the same cells, which it fuses wrongly.                              *)
(***************************************************************************)
PassesPreserveRuns ==
  [][pass' # pass =>
       \/ Optimizer!RepeatsMul(program)
       \/ Optimizer!SameRuns(Flat(program), Flat(program'))]_<<program, pass>>

\* Neither run of BfOptimizeOps leaves two neighbours that it could fuse.
FusedOut == Optimizer!FusedOut

\* From BfOptimizeReorder on, blocks shift only before a block and at their end.
ShiftsAtTheEdges == Optimizer!ShiftsAtTheEdges

\* The optimized tree does what the source text says (README.md calls the
\* program an interpreter of it).
OptimizedRunsAsSource ==
  pass = Optimizer!Passes => Optimizer!SameRuns(Source(file), Flat(program))
=============================================================================
