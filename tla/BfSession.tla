----------------------------- MODULE BfSession -----------------------------
(***************************************************************************)
(* What a session with the interpreter promises: texts are answered one    *)
(* after the other, each by itself and as its characters say.  Tape, input *)
(* and output go on from text to text; the pointer returns to the cell it  *)
(* started from.                                                           *)
(*                                                                         *)
(* Nothing is promised of a text that runs forever or leaves the tape, and *)
(* nothing after it; and the session may end at any time.  A text may be   *)
(* misread: it may then be answered in any way that does not take back     *)
(* what has been printed or read, or not be answered at all.               *)
(***************************************************************************)
EXTENDS BfProgram

CONSTANTS
  Texts,      \* what can be typed
  Inputs,     \* bound: what the standard input may hold
  Fuel        \* bound: steps after which a text is taken to run forever

VARIABLES
  text,       \* the text being answered, or answered last
  pending,    \* it has not been answered yet
  misread,    \* it is not understood as its characters say
  machine,    \* tape, rest of the input, output so far
  over        \* the session has ended

Init ==
  /\ text = << >>
  /\ pending = FALSE
  /\ misread = FALSE
  /\ machine \in {Loaded(input) : input \in Inputs}
  /\ over = FALSE

Enter ==
  /\ ~over /\ ~pending
  /\ text' \in Texts
  /\ pending' = TRUE
  /\ misread' = FALSE
  /\ UNCHANGED <<machine, over>>

Misread ==
  /\ ~over /\ pending
  /\ misread' = TRUE
  /\ UNCHANGED <<text, pending, machine, over>>

\* The machine that the next text starts on.
Rewound(m) == [m EXCEPT !.ptr = 0]

Answer ==
  /\ ~over /\ pending
  /\ LET run == Run(Source(text), machine, Fuel) IN
       /\ run.halted /\ ~run.machine.fault
       /\ machine' = Rewound(run.machine)
  /\ pending' = FALSE
  /\ UNCHANGED <<text, misread, over>>

Misanswer ==
  /\ ~over /\ pending /\ misread
  /\ machine'.ptr = 0 /\ ~machine'.fault
  /\ IsPrefix(machine.out, machine'.out)
  /\ IsSuffix(machine'.inp, machine.inp)
  /\ pending' = FALSE
  /\ UNCHANGED <<text, misread, over>>

End ==
  /\ over' = TRUE
  /\ pending' \in BOOLEAN
  /\ UNCHANGED <<text, misread, machine>>

Next == Enter \/ Misread \/ Answer \/ Misanswer \/ End

Spec == Init /\ [][Next]_<<text, pending, misread, machine, over>>
=============================================================================
