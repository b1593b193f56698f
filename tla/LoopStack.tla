----------------------------- MODULE LoopStack -----------------------------
(***************************************************************************)
(* BfVM::BeginLoop and BfVM::EndLoop: the list of Loop records through     *)
(* which the code generator finds the labels of the loop it must close.    *)
(*                                                                         *)
(* Three things are read without having been written: BfVM::current_loop   *)
(* has no initialiser, Loop() leaves parent as the allocator found it, and *)
(* the parent of an outermost loop stays unset when current_loop happens   *)
(* to be null.  All three start with an arbitrary pointer here, possibly   *)
(* one that a later allocation returns.                                    *)
(*                                                                         *)
(* The calls come from BfVM::CompileBlock, which brackets the body of      *)
(* every cycle block with them; `calls' is its recursion: for each active  *)
(* call on a cycle block, the Loop its BeginLoop made.                     *)
(***************************************************************************)
EXTENDS Integers, Sequences

CONSTANTS
  Addr,       \* addresses the allocator can return for a Loop
  Null,
  MaxLoops    \* bound: cycle blocks in the program

ASSUME LoopStackAssumption == Null \notin Addr /\ MaxLoops \in Nat

VARIABLES
  current_loop,   \* BfVM::current_loop
  heap,           \* contents of the Loop at each address
  allocated,      \* addresses of the live Loops
  calls,          \* Loops of the active CompileBlock calls, innermost last
  labels,         \* labels libjit has given out
  emitted,        \* labels placed and branches emitted, in program order
  crashed         \* a Loop that does not exist was dereferenced

vars == <<current_loop, heap, allocated, calls, labels, emitted, crashed>>

Pointer == Addr \cup {Null}
jit_label_undefined == -1
Loop == [start_label : Int, end_label : Int, parent : Pointer]
Mark(kind, label) == [kind |-> kind, label |-> label]
Marks == [kind : {"label", "exit", "back"}, label : 0 .. labels - 1]

Garbage(p) == [start_label |-> jit_label_undefined,
               end_label |-> jit_label_undefined, parent |-> p]

Init ==
  /\ current_loop \in Pointer
  /\ heap \in [Addr -> {Garbage(p) : p \in Pointer}]
  /\ allocated = {}
  /\ calls = << >>
  /\ labels = 0
  /\ emitted = << >>
  /\ crashed = FALSE

(***************************************************************************)
(* What BeginLoop stores as the new Loop's parent: nothing when            *)
(* current_loop is null, which leaves what the allocator found there.      *)
(***************************************************************************)
LinkedParent_Unlinked(a) == heap[a].parent
LinkedParent_TestInverted(a) ==
  IF current_loop # Null THEN heap[a].parent ELSE current_loop
LinkedParent(a) ==
  IF current_loop = Null THEN heap[a].parent ELSE current_loop

\* The code around the loop body.  libjit numbers a label when it is first
\* used: the start label when placed, the end label at the branch to it.
LoopHead_LabelByValue(l) == << Mark("label", l), Mark("exit", jit_label_undefined) >>
LoopHead(l) == << Mark("label", l), Mark("exit", l + 1) >>

LoopTail_ExitFirst(loop) ==
  << Mark("label", loop.end_label), Mark("back", loop.start_label) >>
LoopTail_BackToExit(loop) ==
  << Mark("back", loop.end_label), Mark("label", loop.end_label) >>
LoopTail(loop) ==
  << Mark("back", loop.start_label), Mark("label", loop.end_label) >>

\* The Loops EndLoop gives back to the allocator.
Deleted_None(a) == {}
Deleted(a) == {a}

\* The code generator enters a cycle block; its Loop is made at address a.
BeginLoop(a) ==
  /\ ~crashed
  /\ labels < 2 * MaxLoops
  /\ a \in Addr \ allocated
  /\ allocated' = allocated \cup {a}
  /\ heap' = [heap EXCEPT ![a] = [start_label |-> labels,
                                  end_label |-> labels + 1,
                                  parent |-> LinkedParent(a)]]
  /\ current_loop' = a
  /\ calls' = Append(calls, a)
  /\ labels' = labels + 2
  /\ emitted' = emitted \o LoopHead(labels)
  /\ UNCHANGED crashed

\* It leaves one: the Loop found through current_loop is closed and deleted.
EndLoop ==
  /\ ~crashed
  /\ calls # << >>
  /\ calls' = SubSeq(calls, 1, Len(calls) - 1)
  /\ IF current_loop \in allocated
     THEN /\ emitted' = emitted \o LoopTail(heap[current_loop])
          /\ current_loop' = heap[current_loop].parent
          /\ allocated' = allocated \ Deleted(current_loop)
          /\ UNCHANGED crashed
     ELSE crashed' = TRUE /\ UNCHANGED <<emitted, current_loop, allocated>>
  /\ UNCHANGED <<heap, labels>>

Next == (\E a \in Addr : BeginLoop(a)) \/ EndLoop

Spec == Init /\ [][Next]_vars
-----------------------------------------------------------------------------
\* Types; every branch emitted and every label placed is one libjit numbered,
\* never jit_label_undefined.
TypeOK ==
  /\ current_loop \in Pointer
  /\ heap \in [Addr -> Loop]
  /\ allocated \subseteq Addr
  /\ calls \in Seq(Addr)
  /\ labels \in Nat
  /\ emitted \in Seq(Marks)
  /\ crashed \in BOOLEAN

\* The unset pointers are never followed: EndLoop always finds in current_loop
\* a Loop that is still allocated (vm.cpp:262 leaves the other case a TODO).
NoWildDereference == ~crashed

(***************************************************************************)
(* The chain of Loops mirrors the recursion: current_loop is the Loop of   *)
(* the innermost active call and each parent the Loop of the call around   *)
(* it, whatever the unset pointers held.                                   *)
(***************************************************************************)
ChainMirrorsCalls ==
  /\ calls # << >> => current_loop = calls[Len(calls)]
  /\ \A i \in 1 .. Len(calls) - 1 : heap[calls[i + 1]].parent = calls[i]
  /\ \A i, j \in 1 .. Len(calls) : calls[i] = calls[j] => i = j

\* No Loop is leaked and none is freed while its block is being compiled.
LiveLoopsAreOpen == allocated = {calls[i] : i \in 1 .. Len(calls)}

\* Refinement: with the labels of the chained Loops for the open loops, the
\* generator closes the innermost open loop, as LoopNest promises.
Nesting == INSTANCE LoopNest WITH
  nest <- [i \in 1 .. Len(calls) |-> [start |-> heap[calls[i]].start_label,
                                      end |-> heap[calls[i]].end_label]]

ClosesInnermostLoop == Nesting!Spec

\* The branches emitted pair up as LoopNest says: each exit lands just after the
\* jump back of its own loop.
BranchesPair == Nesting!BranchesPair
=============================================================================
