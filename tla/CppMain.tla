------------------------------ MODULE CppMain ------------------------------
(***************************************************************************)
(* main(): the front end builds and optimizes the tree, then the virtual   *)
(* machine compiles it and runs it.                                        *)
(***************************************************************************)
EXTENDS CppVM

CONSTANTS Files, Fuel      \* see CppFrontEnd

VARIABLES file, pos, frames, program, pass

FrontEnd == INSTANCE CppFrontEnd WITH Inputs <- Stdin

treeVars == <<file, pos, frames, program, pass>>
vars == <<treeVars, vmVars>>

Init == FrontEnd!Init /\ VMInit

CompileFile == FrontEnd!Compile /\ UNCHANGED vmVars

Optimize == FrontEnd!Optimize /\ UNCHANGED vmVars

CompileProgram ==
  /\ pass = FrontEnd!Optimizer!Passes
  /\ BeginCompilation(FrontEnd!Flat(program)) \/ CompileStep
  /\ UNCHANGED treeVars

RunProgram == RunStep /\ UNCHANGED treeVars

Next == CompileFile \/ Optimize \/ CompileProgram \/ RunProgram

\* The parser is one loop of one thread: it takes a step whenever it can.
Spec == Init /\ [][Next]_vars /\ WF_vars(CompileFile)
-----------------------------------------------------------------------------
\* The tree is as the passes have left it from here on.
generating == at > 0

\* Types of every part.
TypeOK == (~generating => FrontEnd!TypeOK) /\ VMTypeOK

\* See CppFrontEnd.
PrefixUnderstood == FrontEnd!PrefixUnderstood
TreeMatchesBrackets == FrontEnd!TreeMatchesBrackets
FusedOut == ~generating => FrontEnd!FusedOut
ShiftsAtTheEdges == ~generating => FrontEnd!ShiftsAtTheEdges
PassesPreserveRuns == FrontEnd!PassesPreserveRuns
Terminates == FrontEnd!Terminates
OptimizedRunsAsSource == FrontEnd!OptimizedRunsAsSource
=============================================================================
