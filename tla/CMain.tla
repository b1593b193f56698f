------------------------------- MODULE CMain -------------------------------
(***************************************************************************)
(* The C version as a whole: main() of CProcess with the work of its calls *)
(* filled in.  CFrontEnd parses and optimizes each text, CJit compiles it  *)
(* into a function of the one virtual machine, and CVM runs the function   *)
(* on the one tape.                                                        *)
(***************************************************************************)
EXTENDS CJit

CONSTANTS
  Lo, Hi, Modulus,          \* see BfMachine
  Texts,                    \* bound: what lines and the file may hold
  Levels, Inputs, Fuel      \* see CFrontEnd

VARIABLES
  code, code_pos, open, block, program, parsing, level, pass, broken,
  machine,    \* tape, pointer, rest of the input, output so far
  misread     \* history: a pass has got the last text wrong (Misread of COptimizer)

FrontEnd == INSTANCE CFrontEnd WITH Files <- Texts
VM == INSTANCE CVM

frontVars ==
  <<code, code_pos, open, block, program, parsing, level, pass, broken>>
vars == <<processVars, frontVars, jitVars, machine, misread>>

-----------------------------------------------------------------------------
MainInit ==
  /\ JitInit
  /\ code = << >> /\ FrontEnd!Init
  /\ machine \in {VM!Loaded(input) : input \in Inputs}
  /\ misread = FALSE

TextRead ==
  /\ \E text \in Texts : FrontEnd!Begin(text)
  /\ misread' = FALSE
  /\ UNCHANGED <<jitVars, machine>>

\* A file that cannot be opened is read as whatever the memory holds.
ReadFile == StateRead /\ TextRead

TypeLine == ReadLine /\ TextRead

CompileState ==
  /\ At("parse")
  /\ FrontEnd!CompileState
  /\ UNCHANGED <<processVars, jitVars, machine, misread>>

ParserReturns ==
  /\ parsing = "done"
  /\ Parsed
  /\ UNCHANGED <<frontVars, jitVars, machine, misread>>

OptimizeProgram ==
  /\ At("optimize")
  /\ FrontEnd!OptimizeProgram
  /\ misread' = (misread \/ FrontEnd!Optimizer!Misread)
  /\ UNCHANGED <<processVars, jitVars, machine>>

OptimizerReturns ==
  /\ FrontEnd!Optimizer!optimized /\ ~broken
  /\ Optimized
  /\ UNCHANGED <<frontVars, jitVars, machine, misread>>

CompileProgram ==
  /\ BeginFunction(VM!Compiled(program)) \/ CompileBlock \/ EndFunction
  /\ UNCHANGED <<frontVars, machine, misread>>

TheRun == VM!RunFunction(machine, 4 * Fuel)

RunFunction ==
  /\ VmRun
  /\ TheRun.halted /\ ~TheRun.machine.fault
  /\ machine' = TheRun.machine
  /\ UNCHANGED <<frontVars, jitVars, misread>>

Die ==
  /\ \/ At("parse") /\ parsing = "crashed"
     \/ At("optimize") /\ broken
  /\ Dies
  /\ UNCHANGED <<frontVars, jitVars, machine, misread>>

DieRunning ==
  /\ At("run")
  /\ ~TheRun.halted \/ TheRun.machine.fault
  /\ Dies
  /\ UNCHANGED <<frontVars, jitVars, machine, misread>>

Housekeeping ==
  /\ VmCreate \/ ProgramFree \/ AddHistory \/ VmFree
  /\ UNCHANGED <<frontVars, jitVars, machine, misread>>

EndInput ==
  /\ EndOfInput
  /\ UNCHANGED <<frontVars, jitVars, machine, misread>>

\* What main() does between one line and the next, but for the passes and the run.
Work ==
  \/ ReadFile \/ CompileState \/ ParserReturns
  \/ OptimizerReturns
  \/ CompileProgram
  \/ Die \/ Housekeeping

MainNext == TypeLine \/ EndInput \/ Work \/ OptimizeProgram \/ RunFunction \/ DieRunning

(***************************************************************************)
(* One thread, which only readline() keeps waiting.  A pass ends, and a    *)
(* run ends one way or the other: that is all that OptimizeProgram and     *)
(* RunFunction \/ DieRunning are enabled by.                               *)
(***************************************************************************)
PassEnds ==
  /\ At("optimize") /\ ~broken /\ ~FrontEnd!Optimizer!optimized
  /\ pass' = pass + 1

RunEnds == At("run") /\ stage' \in Stages \ {"run"}

MainSpec ==
  /\ MainInit /\ [][MainNext]_vars
  /\ WF_vars(Work) /\ WF_pass(PassEnds) /\ WF_stage(RunEnds)
-----------------------------------------------------------------------------
\* The machine the next text starts on, whatever pointer the last one left.
Rewound == [machine EXCEPT !.ptr = 0]

(***************************************************************************)
(* Every text typed is answered as BfSession promises: it is run once, on  *)
(* the tape that the texts before have left, from the cell they started    *)
(* from, and does what its characters say.  Only at level 2, and only by   *)
(* the two misreadings that COptimizer names, may a text do otherwise: the *)
(* next one starts on the tape it has left.  The functions that do it are  *)
(* generated as CJit says, from the code of a tree.                        *)
(***************************************************************************)
Session == INSTANCE BfSession WITH
  text <- code,
  pending <- \/ stage \in {"parse", "optimize", "begin", "generate", "run"}
             \/ At("create") /\ lines > 0,
  machine <- Rewound,
  over <- stage \in {"exited", "dead"}

AnswersAsTyped == Session!Spec /\ [](misread => level = 2) /\ JitSpec

(***************************************************************************)
(* The process only dies of what its last text holds: something after a    *)
(* stray bracket; at level 2, blocks to merge or cells that a pass misread *)
(* takes for others; or a text that runs forever or leaves the tape by     *)
(* what its characters say.                                                *)
(***************************************************************************)
DiesOfItsText ==
  At("dead") =>
    \/ \E i, j \in DOMAIN code : i < j /\ FrontEnd!StrayAt(i)
    \/ level = 2 /\ (broken \/ misread)
    \/ \E m \in {Rewound} :
         LET run == VM!Run(VM!Source(code), m, Fuel) IN ~run.halted \/ run.machine.fault

\* main() gets back to the prompt, or ends, after every line.
ComesBack == []<>(stage \in {"prompt", "exited", "dead"})
=============================================================================
