-------------------------------- MODULE CVM --------------------------------
(***************************************************************************)
(* The functions that src/c/vm.c makes, run on the tape: what libjit makes *)
(* of the instructions and marks of CJit.                                  *)
(***************************************************************************)
EXTENDS CProgram

VARIABLE emitted    \* the instructions of the function

-----------------------------------------------------------------------------
(* Running the function on machine m, with values v. *)

LabelAt(l) == CHOOSE i \in DOMAIN emitted : emitted[i] = [kind |-> "label", label |-> l]

\* The tape under the pointer decides whether a loop is left.
Goes(pc, m) ==
  LET i == emitted[pc] IN
  IF i.kind = "back" \/ (i.kind = "exit" /\ At(m, 0) = 0) THEN LabelAt(i.label) ELSE pc + 1

Does(i, m, v) ==
  LET Assign(value) == [m |-> m, v |-> [v EXCEPT ![i.to] = Wrap(value)]]
      Change(machine) == [m |-> machine, v |-> v]
  IN CASE i.kind = "load" -> Assign(At(m, i.n))
       [] i.kind = "store" -> Change(Put(m, i.n, v[i.from]))
       [] i.kind = "constant" -> Assign(i.n)
       [] i.kind = "add constant" -> Assign(v[i.from] + i.n)
       [] i.kind = "mul constant" -> Assign(v[i.from] * i.n)
       [] i.kind = "add" -> Assign(v[i.to] + v[i.from])
       [] i.kind = "shift" -> Change([m EXCEPT !.ptr = @ + i.n])
       [] i.kind = "putchar" -> Change([m EXCEPT !.out = Append(@, v[i.from])])
       [] i.kind = "getchar" ->
            IF m.inp = << >> THEN Assign(EOF)
            ELSE [Assign(Head(m.inp)) EXCEPT !.m.inp = Tail(@)]
       [] i.kind \in {"label", "exit", "back"} -> Change(m)

\* Cells that the instruction touches but the tape does not have.
OffTape(i, m) ==
  \/ i.kind \in {"load", "store"} /\ ~InTape(m, i.n)
  \/ i.kind = "exit" /\ ~InTape(m, 0)

RECURSIVE Execute(_, _)
Execute(s, fuel) ==
  IF s.pc > Len(emitted) THEN [halted |-> TRUE, machine |-> s.m]
  ELSE IF OffTape(emitted[s.pc], s.m) THEN [halted |-> TRUE, machine |-> Faulted(s.m)]
  ELSE IF fuel = 0 THEN [halted |-> FALSE, machine |-> s.m]
  ELSE LET done == Does(emitted[s.pc], s.m, s.v)
       IN Execute([pc |-> Goes(s.pc, s.m), m |-> done.m, v |-> done.v], fuel - 1)

\* bf_vm_run: the function is applied to the middle of the array, wherever
\* the function before has left its pointer.
StartsAt_WhereItWas(m) == m
StartsAt(m) == [m EXCEPT !.ptr = 0]

RunFunction(m, fuel) ==
  Execute([pc |-> 1, m |-> StartsAt(m), v |-> [r \in {"value", "old"} |-> 0]], fuel)
=============================================================================
