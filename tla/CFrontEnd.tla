----------------------------- MODULE CFrontEnd -----------------------------
(***************************************************************************)
(* bf_compile_file up to the generation of code: bf_compile_state builds   *)
(* the tree, bf_optimize_program makes its passes.                         *)
(***************************************************************************)
EXTENDS CCompiler, CProgram

CONSTANTS Levels, Inputs, Fuel

VARIABLES level, pass, broken

vars == <<cCompilerVars, level, pass, broken>>

Optimizer == INSTANCE COptimizer

Init == CompilerInit /\ Optimizer!Init

\* The next text; the options stay.
Begin(text) ==
  /\ BeginText(text)
  /\ pass' = 0
  /\ broken' = FALSE
  /\ UNCHANGED level

CompileState ==
  /\ CompilerNext
  /\ UNCHANGED <<level, pass, broken>>

OptimizeProgram ==
  /\ parsing = "done"
  /\ Optimizer!OptimizeProgram
  /\ UNCHANGED <<code, code_pos, open, block, parsing>>

Next == CompileState \/ OptimizeProgram

\* The parser is one loop of one thread: it takes a step whenever it can.
Spec == Init /\ [][Next]_vars /\ WF_vars(CompileState)
-----------------------------------------------------------------------------
\* Types: the tree is a program after every pass.
TypeOK ==
  /\ CompilerTypeOK
  /\ IsProgram(program)
  /\ level \in Levels
  /\ pass \in 0 .. Len(Optimizer!Pipeline[level])
  /\ broken \in BOOLEAN

\* A program with every counted operation spelt out one by one.
Unit(o) ==
  IF o.op \in {"BF_ADD", "BF_SFT"}
  THEN [i \in 1 .. (IF o.arg < 0 THEN -o.arg ELSE o.arg) |->
          [o EXCEPT !.arg = IF o.arg < 0 THEN -1 ELSE 1]]
  ELSE << o >>

RECURSIVE Units(_)
Units(b) ==
  IF b.is_container
  THEN [b EXCEPT !.blocks = [i \in DOMAIN @ |-> Units(@[i])]]
  ELSE [b EXCEPT !.ops = FlattenSeq([i \in DOMAIN @ |-> Unit(@[i])])]

Means(p, text) == Compiled(Units(p)) = Source(text)

(***************************************************************************)
(* As long as there is a container, the open containers and the block hold *)
(* exactly what the text read so far means, as if it ended here.           *)
(***************************************************************************)
PrefixUnderstood ==
  parsing = "yes" /\ open # << >> =>
    Means(Closed(Filled(open, OpBlock(block))), SubSeq(code, 1, code_pos - 1))

\* The program that optimizing starts from is the meaning of the text, unclosed
\* loops included.
ProgramMeansText == pass = 0 /\ parsing = "done" => Means(program, code)

(***************************************************************************)
(* No pass of any level changes what the program prints, reads or leaves   *)
(* on the tape, on any input: but for the clear pass where a loop counts   *)
(* down a cell it does not test, and the ops pass where two cells are      *)
(* cleared one after the other, both of which only level 2 meets.          *)
(***************************************************************************)
PassesPreserveRuns ==
  [][parsing = "done" =>
       \/ level = 2 /\ Optimizer!Misread
       \/ Optimizer!SameRuns(Compiled(program), Compiled(program'))]_<<program, pass>>

(***************************************************************************)
(* At every level but 2 the optimized tree does what the text says, and    *)
(* the lists of blocks stay intact.                                        *)
(***************************************************************************)
RunsAsSource ==
  parsing = "done" /\ Optimizer!optimized =>
    Optimizer!SameRuns(Source(code), Compiled(program))

OtherLevelsRunAsSource == level # 2 => ~broken /\ RunsAsSource

\* The same of every level (README.md calls the program an interpreter).
OptimizedRunsAsSource == RunsAsSource

\* Optimizing never breaks a program.
NeverBroken == ~broken

(***************************************************************************)
(* "we found [-], so we can replace it with clear" (optimizer.c:47): what  *)
(* the clear pass replaces is a loop that counts down the cell it tests.   *)
(***************************************************************************)
ClearedOnlyCountdowns == ~(Optimizer!Misread /\ level = 2 /\ pass = 2)
=============================================================================
