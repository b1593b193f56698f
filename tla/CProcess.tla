------------------------------ MODULE CProcess ------------------------------
(***************************************************************************)
(* main() of the C version: the order of its calls, for a file and for     *)
(* lines typed at the prompt, and who owns what they allocate.             *)
(*                                                                         *)
(* What the calls compute is not described here (see CMain), only that     *)
(* compiling, optimizing and running may kill the process.  The objects    *)
(* are those main() and the functions it calls pass around: the text of a  *)
(* line or file, the bf_state, the bf_program with its tree, the bf_vm     *)
(* with its data and jit context, the file, and per function the function  *)
(* itself and the two signatures that the virtual machine keeps.           *)
(***************************************************************************)
EXTENDS Integers

CONSTANT MaxLines       \* bound: lines typed before the end of input

ASSUME ProcessAssumption == MaxLines \in Nat

VARIABLES
  interactive,    \* no file is named on the command line
  stage,          \* what main() does next
  lines,          \* texts read so far; the last one is being compiled or run
  live,           \* objects that have been allocated and not been freed
  signatures,     \* the text whose signatures vm holds; 0 before the first
  dangling        \* history: objects freed or read without being live

processVars == <<interactive, stage, lines, live, signatures, dangling>>

Stages ==
  {"open", "create", "prompt", "parse", "optimize", "begin", "generate", "run",
   "free", "history", "leave", "exited", "dead"}

\* What belongs to the n-th text, and what there is once.
Text(n) == <<"text", n>>
State(n) == <<"state", n>>
Program(n) == <<"program", n>>
Function(n) == <<"function", n>>
Signatures(n) == <<"signatures", n>>
Vm == <<"vm", 0>>
Data == <<"data", 0>>
Context == <<"context", 0>>
Descriptor == <<"descriptor", 0>>

Kept(objects) == {o \in live : o \notin objects}

Allocates(objects) == live' = live \cup objects /\ UNCHANGED dangling

Frees(objects) ==
  /\ live' = Kept(objects)
  /\ dangling' = dangling \cup {o \in objects : o \notin live}

Reads(object) ==
  /\ dangling' = dangling \cup {o \in {object} : o \notin live}
  /\ UNCHANGED live

At(s) == stage = s
Goes(s) == stage' = s
-----------------------------------------------------------------------------
Init ==
  /\ interactive \in BOOLEAN
  /\ stage = IF interactive THEN "create" ELSE "open"
  /\ lines = 0
  /\ live = {}
  /\ signatures = 0
  /\ dangling = {}

\* bf_state_init and bf_state_read, which goes on when the file cannot be
\* opened, and does not close it when it can.
StateRead ==
  /\ At("open") /\ Goes("parse")
  /\ lines' = lines + 1
  /\ \E opened \in {{}, {Descriptor}} : Allocates({Text(lines'), State(lines')} \cup opened)
  /\ UNCHANGED <<interactive, signatures>>

\* bf_vm_create: before the first prompt, or when the file has been parsed.
\* It sets neither the signatures nor current_loop.
VmCreate ==
  /\ At("create") /\ Goes(IF interactive THEN "prompt" ELSE "optimize")
  /\ Allocates({Vm, Data, Context})
  /\ UNCHANGED <<interactive, lines, signatures>>

\* readline() allocates the line; bf_program_from_str makes a state for it.
ReadLine ==
  /\ At("prompt") /\ Goes("parse")
  /\ lines < MaxLines
  /\ lines' = lines + 1
  /\ Allocates({Text(lines'), State(lines')})
  /\ UNCHANGED <<interactive, signatures>>

EndOfInput ==
  /\ At("prompt") /\ Goes("leave")
  /\ UNCHANGED <<interactive, lines, live, signatures, dangling>>

\* bf_compile_state has returned.  bf_program_from_str frees the state at
\* once, and with it the text; bf_compile_file keeps it for now.
Parsed ==
  /\ At("parse") /\ Goes(IF interactive THEN "optimize" ELSE "create")
  /\ LET gone == IF interactive THEN {Text(lines), State(lines)} ELSE {} IN
       /\ live' = Kept(gone) \cup {Program(lines)}
       /\ dangling' = dangling \cup {o \in gone : o \notin live}
  /\ UNCHANGED <<interactive, lines, signatures>>

Optimized ==
  /\ At("optimize") /\ Goes("begin")
  /\ UNCHANGED <<interactive, lines, live, signatures, dangling>>

\* bf_vm_begin_jit overwrites the signatures of the text before.
MadeByBegin_SameFunction == {Signatures(lines)}
MadeByBegin == {Function(lines), Signatures(lines)}

BeginJit_OffByOne ==
  /\ At("begin") /\ Goes("generate")
  /\ signatures' = lines + 1
  /\ Allocates(MadeByBegin)
  /\ UNCHANGED <<interactive, lines>>
BeginJit ==
  /\ At("begin") /\ Goes("generate")
  /\ signatures' = lines
  /\ Allocates(MadeByBegin)
  /\ UNCHANGED <<interactive, lines>>

\* bf_vm_end_jit; bf_compile_file then frees what it has made.
EndJit ==
  /\ At("generate") /\ Goes("run")
  /\ Frees(IF interactive THEN {} ELSE {Text(lines), State(lines), Program(lines)})
  /\ UNCHANGED <<interactive, lines, signatures>>

VmRun ==
  /\ At("run") /\ Goes(IF interactive THEN "free" ELSE "leave")
  /\ UNCHANGED <<interactive, lines, live, signatures, dangling>>

\* bf_program_free at the end of a turn.
FreedProgram_Kept == {}
FreedProgram == {Program(lines)}

ProgramFree ==
  /\ At("free") /\ Goes("history")
  /\ Frees(FreedProgram)
  /\ UNCHANGED <<interactive, lines, signatures>>

AddHistory ==
  /\ At("history") /\ Goes("prompt")
  /\ Reads(Text(lines))
  /\ UNCHANGED <<interactive, lines, signatures>>

\* bf_vm_free.  Functions go with the context they were made in.
FreedWithVm_AllSignatures ==
  {Vm, Data, Context} \cup {Signatures(n) : n \in 0 .. lines} \cup {Function(n) : n \in 1 .. lines}
FreedWithVm ==
  {Vm, Data, Context, Signatures(signatures)} \cup {Function(n) : n \in 1 .. lines}

VmFree ==
  /\ At("leave") /\ Goes("exited")
  /\ Frees(FreedWithVm)
  /\ UNCHANGED <<interactive, lines, signatures>>

\* The process is killed or never returns: a null container is dereferenced,
\* a list of blocks is corrupted, the program leaves the tape or loops.
Dies ==
  /\ stage \in {"parse", "optimize", "run"} /\ Goes("dead")
  /\ UNCHANGED <<interactive, lines, live, signatures, dangling>>

Next ==
  \/ StateRead \/ VmCreate \/ ReadLine \/ EndOfInput \/ Parsed \/ Optimized
  \/ BeginJit \/ EndJit \/ VmRun \/ ProgramFree \/ AddHistory \/ VmFree \/ Dies

Spec == Init /\ [][Next]_processVars
-----------------------------------------------------------------------------
\* Types; the objects are those of the texts read so far.
Objects ==
  {Vm, Data, Context, Descriptor} \cup
    UNION {{Text(n), State(n), Program(n), Function(n), Signatures(n)} : n \in 0 .. lines}

TypeOK ==
  /\ interactive \in BOOLEAN
  /\ stage \in Stages
  /\ lines \in Nat
  /\ live \subseteq Objects
  /\ signatures \in 0 .. lines
  /\ dangling \subseteq Objects

(***************************************************************************)
(* A turn of the prompt frees what it has made: only the functions, which  *)
(* the context keeps, and the signatures of every line pile up.  When the  *)
(* process ends all is freed but the signatures of every line but the last *)
(* and the descriptor of a file.                                           *)
(***************************************************************************)
OnlySignaturesPileUp ==
  /\ At("prompt") => live = {Vm, Data, Context} \cup {Function(n) : n \in 1 .. lines}
                                               \cup {Signatures(n) : n \in 1 .. lines}
  /\ At("exited") => live \ {Descriptor} = {Signatures(n) : n \in 1 .. lines - 1}
  /\ interactive => Descriptor \notin live

\* What the calls made in a stage read, write or free of what was made before.
Uses ==
  CASE stage = "parse" -> {Text(lines), State(lines)}
    [] stage \in {"optimize", "free"} -> {Program(lines)}
    [] stage = "begin" -> {Vm, Context}
    [] stage = "generate" ->
         {Program(lines), Vm, Context, Function(lines), Signatures(lines)}
           \cup (IF interactive THEN {} ELSE {Text(lines), State(lines)})
    [] stage = "run" -> {Vm, Data, Context, Function(lines)}
    [] stage = "history" -> {Text(lines)}
    [] stage = "leave" ->
         {Vm, Data, Context, Signatures(signatures)} \cup {Function(n) : n \in 1 .. lines}
    [] OTHER -> {}

(***************************************************************************)
(* Two stages work on what is gone, or was never made: add_history copies  *)
(* the text of the line, which went with its state (bf.c:60), and          *)
(* bf_vm_free frees signatures that no line has set (vm.c:25).  Whatever   *)
(* else a stage works on is allocated then: the text may be freed before   *)
(* its program is optimized, and in file mode the program before it runs.  *)
(***************************************************************************)
UsedWhenGone ==
  Uses \ live = IF At("history") THEN {Text(lines)}
                ELSE IF At("leave") /\ lines = 0 THEN {Signatures(0)}
                ELSE {}

(***************************************************************************)
(* Two mistakes with memory, and no others: each line is freed with its    *)
(* state before it goes into the history (bf.c:60), and the signatures are *)
(* freed unset when the input ends at the first prompt.  A file is handled *)
(* without any, and nothing is freed twice.                                *)
(***************************************************************************)
Remembered == IF ~interactive THEN 0
              ELSE IF stage \in {"create", "prompt", "leave", "exited"} THEN lines
              ELSE lines - 1

OnlyTheHistoryDangles ==
  dangling = {Text(n) : n \in 1 .. Remembered} \cup
             (IF At("exited") /\ lines = 0 THEN {Signatures(0)} ELSE {})
=============================================================================
