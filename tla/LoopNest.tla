------------------------------ MODULE LoopNest ------------------------------
(***************************************************************************)
(* What a code generator for nested loops promises about its jumps.        *)
(*                                                                         *)
(* Opening a loop places a fresh label and emits a conditional exit to     *)
(* another fresh label; closing emits the jump back and places the exit    *)
(* label of the loop opened last.  Nothing is said of how the generator    *)
(* remembers which loops are open: LoopStack does it with linked records.  *)
(***************************************************************************)
EXTENDS Integers, Sequences

VARIABLES
  nest,       \* the open loops, innermost last: [start, end] labels
  labels,     \* number of labels given out so far
  emitted     \* label placements and jumps, in program order

Mark(kind, label) == [kind |-> kind, label |-> label]

Init == nest = << >> /\ labels = 0 /\ emitted = << >>

Open ==
  /\ nest' = Append(nest, [start |-> labels, end |-> labels + 1])
  /\ labels' = labels + 2
  /\ emitted' = emitted \o << Mark("label", labels), Mark("exit", labels + 1) >>

Close ==
  /\ nest # << >>
  /\ LET innermost == nest[Len(nest)] IN
       emitted' = emitted \o << Mark("back", innermost.start),
                                Mark("label", innermost.end) >>
  /\ nest' = SubSeq(nest, 1, Len(nest) - 1)
  /\ UNCHANGED labels

Next == Open \/ Close

Spec == Init /\ [][Next]_<<nest, labels, emitted>>
-----------------------------------------------------------------------------
(***************************************************************************)
(* A closed loop's exit lands just after its own jump back, which returns  *)
(* to the label placed just before that exit; no label is placed twice;    *)
(* and when no loop is open no branch is left without a target.            *)
(***************************************************************************)
Placed(l) == {i \in 1 .. Len(emitted) : emitted[i] = Mark("label", l)}

BranchesPair ==
  /\ \A i \in 1 .. Len(emitted) : emitted[i].kind = "exit" =>
       \A j \in Placed(emitted[i].label) :
         /\ i < j
         /\ emitted[j - 1] = Mark("back", emitted[i - 1].label)
  /\ \A i, j \in 1 .. Len(emitted) :
       emitted[i] = emitted[j] /\ emitted[i].kind = "label" => i = j
  /\ nest = << >> =>
       \A i \in 1 .. Len(emitted) : Placed(emitted[i].label) # {}
=============================================================================
