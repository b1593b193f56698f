-------------------------------- MODULE CJit --------------------------------
(***************************************************************************)
(* src/c/vm.c and bf_compile_block: one function per program, cells loaded *)
(* and stored at every operation.                                          *)
(*                                                                         *)
(* bf_compile_block walks the tree in order, so its calls are driven here  *)
(* by the flat code of the tree.  The records of open loops are those of   *)
(* LoopStack, the same code in C and in C++; but here one virtual machine  *)
(* compiles program after program, so the records and current_loop are     *)
(* left by the program before, while the labels start again.               *)
(*                                                                         *)
(* emitted holds the instructions and, among them, the marks of LoopStack: *)
(* a label placed, the load and branch that leave a loop, the jump back.   *)
(***************************************************************************)
EXTENDS CProcess, FlatCode, SequencesExt

CONSTANTS Addr, Null, MaxLoops      \* see LoopStack

ASSUME JitAssumption == Null \notin Addr /\ MaxLoops \in Nat

VARIABLES
  flat,       \* the flat code of the program being compiled
  at,         \* position in it
  current_loop, heap, allocated, calls, labels, emitted, crashed

Loops == INSTANCE LoopStack

jitVars ==
  <<flat, at, current_loop, heap, allocated, calls, labels, emitted, crashed>>

-----------------------------------------------------------------------------
(***************************************************************************)
(* Instructions.  No value but data_ptr lives from one operation to the    *)
(* next, so the values are named within their operation.                   *)
(***************************************************************************)
Insn(kind, to, from, n) == [kind |-> kind, to |-> to, from |-> from, n |-> n]
Load(to, offset) == Insn("load", to, "", offset)
Store(from, offset) == Insn("store", "", from, offset)

CompileAdd(to_add, offset) ==
  << Load("value", offset), Insn("add constant", "value", "value", to_add),
     Store("value", offset) >>

CompileMul_Overwrites(mul_by, source_offset, result_offset) ==
  << Load("value", source_offset),
     Insn("mul constant", "value", "value", mul_by), Store("value", result_offset) >>
CompileMul(mul_by, source_offset, result_offset) ==
  << Load("value", source_offset), Load("old", result_offset),
     Insn("mul constant", "value", "value", mul_by),
     Insn("add", "value", "old", 0), Store("value", result_offset) >>

CompileShift(count) == << Insn("shift", "", "", count) >>

CompileClear(offset) == << Insn("constant", "value", "", 0), Store("value", offset) >>

CompilePut(offset) == << Load("value", offset), Insn("putchar", "", "value", 0) >>

CompileGet(offset) == << Insn("getchar", "value", "", 0), Store("value", offset) >>

\* The switch of bf_compile_block, on operations in the form CompileOp gives.
Translated(o) ==
  CASE o.op = "BF_ADD" -> CompileAdd(o.arg, o.dst)
    [] o.op = "BF_MUL" -> CompileMul(o.arg, o.src, o.dst)
    [] o.op = "BF_SFT" -> CompileShift(o.arg)
    [] o.op = "BF_SET" -> CompileClear(o.dst)
    [] o.op = "BF_PUT" -> CompilePut(o.src)
    [] o.op = "BF_GET" -> CompileGet(o.dst)
-----------------------------------------------------------------------------
\* bf_vm_init: current_loop and the memory that loops are made in are unset.
JitInit ==
  /\ Init
  /\ flat = << >> /\ at = 1
  /\ Loops!Init

\* bf_vm_begin_jit: a new function, with labels of its own.
Labels_Continued == labels
Labels == 0

BeginFunction(ops) ==
  /\ BeginJit
  /\ flat' = ops /\ at' = 1
  /\ labels' = Labels
  /\ emitted' = << >>
  /\ UNCHANGED <<current_loop, heap, allocated, calls, crashed>>

generated == at > Len(flat)

Compiles(ops) ==
  /\ At("generate")
  /\ ~crashed
  /\ ~generated
  /\ flat[at].op \in ops
  /\ at' = at + 1
  /\ UNCHANGED <<processVars, flat>>

CompileOperation ==
  /\ Compiles(Operations)
  /\ emitted' = emitted \o Translated(flat[at])
  /\ UNCHANGED <<current_loop, heap, allocated, calls, labels, crashed>>

LoopStart ==
  /\ Compiles({"LOOP"})
  /\ \E a \in Addr : Loops!BeginLoop(a)

LoopEnd ==
  /\ Compiles({"END"})
  /\ Loops!EndLoop

CompileBlock == CompileOperation \/ LoopStart \/ LoopEnd

\* bf_compile_block has come back to the program it was called on.
EndFunction == generated /\ EndJit /\ UNCHANGED jitVars

\* The rest of the process makes no function.
OtherCall ==
  /\ \/ StateRead \/ VmCreate \/ ReadLine \/ EndOfInput \/ Parsed \/ Optimized
     \/ VmRun \/ ProgramFree \/ AddHistory \/ VmFree \/ Dies
  /\ UNCHANGED jitVars

\* A function is begun for the code of some tree; which one, the optimizer says.
JitNext ==
  \/ \E ops \in {flat'} : IsTreeCode(ops) /\ BeginFunction(ops)
  \/ CompileBlock \/ EndFunction \/ OtherCall

JitSpec == JitInit /\ [][JitNext]_<<processVars, jitVars>>
-----------------------------------------------------------------------------
\* No record of a loop outlives its function, and none that is gone is used.
LoopsEndWithFunction == ~crashed /\ (~At("generate") => allocated = {})

(***************************************************************************)
(* While a function is generated its jumps nest as LoopNest promises: what *)
(* current_loop, the records and the labels were left as by the functions  *)
(* before makes no difference.                                             *)
(***************************************************************************)
IsJump(i) == i.kind \in {"label", "exit", "back"}
KeepJump(jumps, i) == IF IsJump(i) THEN Append(jumps, i) ELSE jumps
Jumps == FoldLeft(KeepJump, << >>, emitted)

Nesting == INSTANCE LoopNest WITH
  emitted <- Jumps,
  nest <- [i \in 1 .. Len(calls) |-> [start |-> heap[calls[i]].start_label,
                                      end |-> heap[calls[i]].end_label]]

JumpsNest ==
  [][IF at' = 1 THEN Nesting!Init' ELSE Nesting!Next]_<<calls, labels, Jumps>>
=============================================================================
