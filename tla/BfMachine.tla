----------------------------- MODULE BfMachine -----------------------------
(***************************************************************************)
(* The tape machine that compiled programs run on, and the effect of each  *)
(* opcode on it.  The effects are those of BfVM::CompileOpcode, the        *)
(* translation that loads from and stores to the tape at every opcode.     *)
(*                                                                         *)
(* Addresses are cell indices relative to the cell the program starts on   *)
(* (data + MAX_CELLS / 2 in BfVM::Run), so a window Lo..Hi stands for the  *)
(* array.  Moving the pointer out of the window is harmless; touching a    *)
(* cell outside it is not, and stops the machine with "fault".             *)
(***************************************************************************)
EXTENDS Integers, Sequences

CONSTANTS
  Lo, Hi,     \* first and last cell of the tape, relative to the start cell
  Modulus     \* number of values of a cell (2^32 in the code)

ASSUME MachineAssumption ==
  /\ Lo \in Int /\ Hi \in Int /\ Lo <= 0 /\ 0 <= Hi
  /\ Modulus \in Nat \ {0}

Window == Lo .. Hi
Cell == 0 .. Modulus - 1
Wrap_None(n) == n
Wrap(n) == n % Modulus

\* What getchar() leaves in a cell at end of input: EOF is -1.
EOF == Wrap(-1)

(***************************************************************************)
(* Opcodes.  Every opcode carries a source and a destination offset from   *)
(* the data pointer and an argument; each kind uses the ones it needs.     *)
(***************************************************************************)
OpcodeType == {"BF_ADD", "BF_MUL", "BF_SFT", "BF_PUT", "BF_GET", "BF_SET"}

Opcode == [op : OpcodeType, src : Int, dst : Int, arg : Int]

MkOp(op, src, dst, arg) == [op |-> op, src |-> src, dst |-> dst, arg |-> arg]

Machine ==
  [tape  : [Window -> Cell],
   ptr   : Int,
   inp   : Seq(Cell),     \* what getchar() has not returned yet
   out   : Seq(Cell),     \* arguments of the calls of putchar()
   fault : BOOLEAN]

Loaded(input) ==
  [tape |-> [a \in Window |-> 0], ptr |-> 0, inp |-> input, out |-> << >>,
   fault |-> FALSE]

At(m, offset) == m.tape[m.ptr + offset]
InTape(m, offset) == m.ptr + offset \in Window
Put(m, offset, value) ==
  [m EXCEPT !.tape = [@ EXCEPT ![m.ptr + offset] = Wrap(value)]]

(***************************************************************************)
(* The offsets whose cells must exist for the opcode to mean anything.  A  *)
(* multiplication by a zero source writes back what it read, whatever cell *)
(* that is, so only its source has to exist.                               *)
(***************************************************************************)
Needs(m, o) ==
  CASE o.op \in {"BF_GET", "BF_SET"} -> {o.dst}
    [] o.op = "BF_PUT" -> {o.src}
    [] o.op = "BF_ADD" -> {o.src, o.dst}
    [] o.op = "BF_MUL" ->
         IF InTape(m, o.src) /\ At(m, o.src) = 0 THEN {o.src}
                                                 ELSE {o.src, o.dst}
    [] OTHER -> {}

Effect(m, o) ==
  CASE o.op = "BF_ADD" -> Put(m, o.dst, At(m, o.src) + o.arg)
    [] o.op = "BF_MUL" ->
         IF At(m, o.src) = 0 THEN m
         ELSE Put(m, o.dst, At(m, o.dst) + At(m, o.src) * o.arg)
    [] o.op = "BF_SET" -> Put(m, o.dst, o.arg)
    [] o.op = "BF_SFT" -> [m EXCEPT !.ptr = @ + o.arg]
    [] o.op = "BF_PUT" -> [m EXCEPT !.out = Append(@, At(m, o.src))]
    [] o.op = "BF_GET" ->
         IF m.inp = << >> THEN Put(m, o.dst, EOF)
         ELSE [Put(m, o.dst, Head(m.inp)) EXCEPT !.inp = Tail(m.inp)]

Faulted(m) == [m EXCEPT !.fault = TRUE]

\* One opcode executed on machine m.
Apply(m, o) ==
  IF m.fault THEN m
  ELSE IF \A k \in Needs(m, o) : InTape(m, k) THEN Effect(m, o)
  ELSE Faulted(m)

(***************************************************************************)
(* Flat code, run one opcode at a time: LOOP leaves the loop when the      *)
(* current cell is 0, END goes back to the LOOP.  p is the machine and the *)
(* position reached in the code.                                           *)
(***************************************************************************)
Stopped(ops, p) == p.pc > Len(ops) \/ p.m.fault

Interpreted(ops, p) ==
  LET o == ops[p.pc] IN
  CASE o.op = "END" -> [p EXCEPT !.pc = @ + o.arg]
    [] o.op = "LOOP" ->
         IF ~InTape(p.m, 0) THEN [p EXCEPT !.m = Faulted(@)]
         ELSE [p EXCEPT !.pc = IF At(p.m, 0) = 0 THEN @ + o.arg ELSE @ + 1]
    [] OTHER -> [pc |-> p.pc + 1, m |-> Apply(p.m, o)]
=============================================================================
