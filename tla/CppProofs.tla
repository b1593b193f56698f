------------------------------ MODULE CppProofs ------------------------------
(***************************************************************************)
(* Proofs about the optimizer and the code generator of the C++ version,   *)
(* for every tape, every size of a cell, every program and every input.    *)
(*                                                                         *)
(* 1. BfOptimizeReorder, of ReorderRuns, is sound.  Of BfOptimizeOps:      *)
(*    which of its fusions of two opcodes into one are right.              *)
(* 2. BfVM, of CppVM: its types, by the invariant TypeInv, which also says *)
(*    where labels and open loops are.                                     *)
(* 3. BfVM's cache is invisible while it is coherent.  Every position of   *)
(*    the code has a note: the opcode the interpreter is at when the       *)
(*    function gets there, and the map the generator had there.  Good says *)
(*    that the notes fit the instructions and the jumps between them,      *)
(*    Mirrors that the function's machine, read through the map of a note, *)
(*    is the interpreter's.  The generator's steps extend the notes, the   *)
(*    steps of the run keep the two machines coupled; Annotated is the     *)
(*    inductive invariant that says both.                                  *)
(***************************************************************************)
EXTENDS ReorderRuns, CppVM, SequenceTheorems, FiniteSetTheorems, TLAPS


\* A cell holds whatever number is put into it modulo its size.
LEMMA WrapType ==
  ASSUME NEW n \in Int
  PROVE  Wrap(n) \in Cell /\ Wrap(n) \in Int
BY MachineAssumption DEF Wrap, Cell

\* Writing any number to any offset leaves a machine.
LEMMA PutType ==
  ASSUME NEW m \in Machine, NEW k \in Int, NEW n \in Int
  PROVE  Put(m, k, n) \in Machine
BY WrapType DEF Put, Machine

\* Reading a cell that exists yields a cell value.
LEMMA AtType ==
  ASSUME NEW m \in Machine, NEW k \in Int, InTape(m, k)
  PROVE  At(m, k) \in Cell /\ At(m, k) \in Int
BY MachineAssumption DEF At, InTape, Machine, Cell

\* An opcode takes a machine to a machine.
LEMMA ApplyType ==
  ASSUME NEW m \in Machine, NEW o \in Opcode
  PROVE  Apply(m, o) \in Machine
<1>1. o.src \in Int /\ o.dst \in Int /\ o.arg \in Int /\ o.op \in OpcodeType
  BY DEF Opcode
<1>2. ASSUME \A k \in Needs(m, o) : InTape(m, k)
      PROVE  Effect(m, o) \in Machine
  <2>1. CASE o.op = "BF_ADD"
    <3>1. At(m, o.src) \in Int
      BY <1>1, <1>2, <2>1, AtType DEF Needs
    <3>2. At(m, o.src) + o.arg \in Int
      BY <1>1, <3>1
    <3>3. Put(m, o.dst, At(m, o.src) + o.arg) \in Machine
      BY <1>1, <3>2, PutType
    <3>. QED BY <2>1, <3>3 DEF Effect
  <2>2. CASE o.op = "BF_MUL"
    <3>1. CASE At(m, o.src) = 0
      BY <2>2, <3>1 DEF Effect
    <3>2. CASE At(m, o.src) # 0
      <4>1. InTape(m, o.src) /\ InTape(m, o.dst)
        BY <1>2, <2>2, <3>2 DEF Needs
      <4>2. At(m, o.src) \in Int /\ At(m, o.dst) \in Int
        BY <4>1, <1>1, AtType
      <4>3. At(m, o.dst) + At(m, o.src) * o.arg \in Int
        BY <4>2, <1>1
      <4>4. Put(m, o.dst, At(m, o.dst) + At(m, o.src) * o.arg) \in Machine
        BY <1>1, <4>3, PutType
      <4>. QED BY <2>2, <3>2, <4>4 DEF Effect
    <3>. QED BY <3>1, <3>2
  <2>3. CASE o.op = "BF_SET"
    <3>1. Put(m, o.dst, o.arg) \in Machine
      BY <1>1, PutType
    <3>. QED BY <2>3, <3>1 DEF Effect
  <2>4. CASE o.op = "BF_SFT"
    <3>1. m.ptr + o.arg \in Int
      BY <1>1 DEF Machine
    <3>2. [m EXCEPT !.ptr = m.ptr + o.arg] \in Machine
      BY <3>1 DEF Machine
    <3>. QED BY <2>4, <3>2 DEF Effect
  <2>5. CASE o.op = "BF_PUT"
    <3>1. At(m, o.src) \in Cell
      BY <1>1, <1>2, <2>5, AtType DEF Needs
    <3>2. Append(m.out, At(m, o.src)) \in Seq(Cell)
      BY <3>1, AppendProperties DEF Machine
    <3>3. [m EXCEPT !.out = Append(m.out, At(m, o.src))] \in Machine
      BY <3>2 DEF Machine
    <3>. QED BY <2>5, <3>3 DEF Effect
  <2>6. CASE o.op = "BF_GET"
    <3>1. CASE m.inp = << >>
      <4>1. EOF \in Cell /\ EOF \in Int
        BY WrapType, MachineAssumption DEF EOF, Cell
      <4>2. Put(m, o.dst, EOF) \in Machine
        BY <1>1, <4>1, PutType
      <4>. QED BY <2>6, <3>1, <4>2 DEF Effect
    <3>2. CASE m.inp # << >>
      <4>1. Head(m.inp) \in Cell /\ Tail(m.inp) \in Seq(Cell)
        BY <3>2, HeadTailProperties DEF Machine
      <4>2. Put(m, o.dst, Head(m.inp)) \in Machine
        BY <1>1, <4>1, PutType, MachineAssumption DEF Cell
      <4>3. [Put(m, o.dst, Head(m.inp)) EXCEPT !.inp = Tail(m.inp)] \in Machine
        BY <4>1, <4>2 DEF Machine
      <4>. QED BY <2>6, <3>2, <4>3 DEF Effect
    <3>. QED BY <3>1, <3>2
  <2>. QED BY <1>1, <2>1, <2>2, <2>3, <2>4, <2>5, <2>6 DEF OpcodeType
<1>3. Faulted(m) \in Machine
  BY DEF Faulted, Machine
<1>. QED BY <1>2, <1>3 DEF Apply

(***************************************************************************)
(* The heart of the pass: an opcode does to a machine whose pointer is     *)
(* ahead by d what the opcode moved by d does to the machine that is not.  *)
(***************************************************************************)
Ahead(m, d) == [m EXCEPT !.ptr = @ + d]

\* Being ahead changes the pointer and nothing else.
LEMMA AheadFields ==
  ASSUME NEW m \in Machine, NEW d \in Int
  PROVE  /\ Ahead(m, d) \in Machine
         /\ Ahead(m, d).tape = m.tape
         /\ Ahead(m, d).ptr = m.ptr + d
         /\ Ahead(m, d).inp = m.inp
         /\ Ahead(m, d).out = m.out
         /\ Ahead(m, d).fault = m.fault
<1>1. m.ptr + d \in Int
  BY DEF Machine
<1>2. [m EXCEPT !.ptr = m.ptr + d] \in Machine
  BY <1>1 DEF Machine
<1>. QED BY <1>2 DEF Ahead, Machine

\* A machine that is ahead by d finds at offset k the cell at k + d.
LEMMA AheadCells ==
  ASSUME NEW m \in Machine, NEW d \in Int, NEW k \in Int
  PROVE  /\ At(Ahead(m, d), k) = At(m, k + d)
         /\ InTape(Ahead(m, d), k) <=> InTape(m, k + d)
<1>1. m.ptr \in Int /\ (m.ptr + d) + k = m.ptr + (k + d)
  BY DEF Machine
<1>. QED BY <1>1, AheadFields DEF At, InTape

\* And writes there too: BfOptimizeReorder may move a store by the offset.
LEMMA AheadPut ==
  ASSUME NEW m \in Machine, NEW d \in Int, NEW k \in Int, NEW n
  PROVE  Put(Ahead(m, d), k, n) = Ahead(Put(m, k + d, n), d)
<1>1. m.ptr \in Int /\ (m.ptr + d) + k = m.ptr + (k + d)
  BY DEF Machine
<1>. QED BY <1>1 DEF Put, Ahead, Machine

\* BfOptimizeReorder::Visit moves both offsets of an opcode that is no shift.
\* The moved opcode does, on the machine that is behind, what the original does
\* on the one that is ahead, whether or not they fault.
LEMMA MovedInStep ==
  ASSUME NEW m \in Machine, NEW d \in Int, NEW o \in Opcode, o.op # "BF_SFT"
  PROVE  Apply(Ahead(m, d), o) = Ahead(Apply(m, Moved(o, d)), d)
<1>. DEFINE w == Moved(o, d)
            a == Ahead(m, d)
<1>1. /\ o.src \in Int /\ o.dst \in Int /\ o.arg \in Int /\ o.op \in OpcodeType
      /\ w.src = o.src + d /\ w.dst = o.dst + d /\ w.op = o.op /\ w.arg = o.arg
  BY DEF Opcode, Moved
<1>2. /\ At(a, o.src) = At(m, w.src) /\ At(a, o.dst) = At(m, w.dst)
      /\ InTape(a, o.src) <=> InTape(m, w.src)
      /\ InTape(a, o.dst) <=> InTape(m, w.dst)
  BY <1>1, AheadCells
<1>3. (\A k \in Needs(a, o) : InTape(a, k)) <=> (\A k \in Needs(m, w) : InTape(m, k))
  BY <1>1, <1>2 DEF Needs
<1>4. Effect(a, o) = Ahead(Effect(m, w), d)
  <2>1. CASE o.op = "BF_ADD"
    <3>1. Put(a, o.dst, At(a, o.src) + o.arg) = Ahead(Put(m, w.dst, At(m, w.src) + w.arg), d)
      BY <1>1, <1>2, AheadPut
    <3>. QED BY <2>1, <3>1, <1>1 DEF Effect
  <2>2. CASE o.op = "BF_MUL"
    <3>1. Put(a, o.dst, At(a, o.dst) + At(a, o.src) * o.arg)
            = Ahead(Put(m, w.dst, At(m, w.dst) + At(m, w.src) * w.arg), d)
      BY <1>1, <1>2, AheadPut
    <3>. QED BY <2>2, <3>1, <1>1, <1>2 DEF Effect
  <2>3. CASE o.op = "BF_SET"
    <3>1. Put(a, o.dst, o.arg) = Ahead(Put(m, w.dst, w.arg), d)
      BY <1>1, AheadPut
    <3>. QED BY <2>3, <3>1, <1>1 DEF Effect
  <2>4. CASE o.op = "BF_PUT"
    <3>1. [a EXCEPT !.out = Append(@, At(a, o.src))]
            = Ahead([m EXCEPT !.out = Append(@, At(m, w.src))], d)
      BY <1>2 DEF Ahead, Machine
    <3>. QED BY <2>4, <3>1, <1>1 DEF Effect
  <2>5. CASE o.op = "BF_GET"
    <3>1. a.inp = m.inp
      BY AheadFields
    <3>2. CASE m.inp = << >>
      <4>1. Put(a, o.dst, EOF) = Ahead(Put(m, w.dst, EOF), d)
        BY <1>1, AheadPut
      <4>. QED BY <2>5, <3>1, <3>2, <4>1, <1>1 DEF Effect
    <3>3. CASE m.inp # << >>
      <4>1. Put(a, o.dst, Head(m.inp)) = Ahead(Put(m, w.dst, Head(m.inp)), d)
        BY <1>1, AheadPut
      <4>2. [Ahead(Put(m, w.dst, Head(m.inp)), d) EXCEPT !.inp = Tail(m.inp)]
              = Ahead([Put(m, w.dst, Head(m.inp)) EXCEPT !.inp = Tail(m.inp)], d)
        BY DEF Ahead, Put, Machine
      <4>. QED BY <2>5, <3>1, <3>3, <4>1, <4>2, <1>1 DEF Effect
    <3>. QED BY <3>2, <3>3
  <2>. QED BY <1>1, <2>1, <2>2, <2>3, <2>4, <2>5 DEF OpcodeType
<1>5. Faulted(a) = Ahead(Faulted(m), d)
  BY DEF Faulted, Ahead, Machine
<1>6. a.fault = m.fault
  BY AheadFields
<1>. QED BY <1>3, <1>4, <1>5, <1>6 DEF Apply
-----------------------------------------------------------------------------
\* The inductive invariant of ReorderRuns.
IInv == TypeOK /\ InStep

\* Both programs start on the same machine, with nothing absorbed.
LEMMA InitIInv == Init => IInv
<1>. SUFFICES ASSUME Init PROVE IInv
  OBVIOUS
<1>1. PICK input \in Inputs : original = Loaded(input) /\ rewritten = Loaded(input)
  BY DEF Init
<1>2. Loaded(input) \in Machine
  <2>1. input \in Seq(Cell) /\ << >> \in Seq(Cell) /\ 0 \in Cell
    BY ReorderAssumption, EmptySeq, MachineAssumption DEF Cell
  <2>. QED BY <2>1 DEF Loaded, Machine
<1>3. [Loaded(input) EXCEPT !.ptr = @ + 0] = Loaded(input)
  <2>1. Loaded(input).ptr + 0 = Loaded(input).ptr
    BY DEF Loaded
  <2>. QED BY <2>1, <1>2 DEF Machine
<1>. QED BY <1>1, <1>2, <1>3 DEF IInv, TypeOK, InStep, Init

\* Putting back an absorbed shift brings the machines together.
LEMMA FlushMeets ==
  ASSUME IInv, BlockBoundary
  PROVE  original' = rewritten' /\ IInv'
<1>. USE DEF IInv
<1>1. /\ original \in Machine /\ rewritten \in Machine /\ offset \in Int
      /\ original = Ahead(rewritten, offset) /\ ~original.fault
      /\ original' = original /\ offset' = 0
  BY DEF TypeOK, InStep, Ahead, BlockBoundary, Running
<1>2. ~rewritten.fault
  BY <1>1, AheadFields
<1>3. original' = rewritten'
  <2>1. CASE offset = 0
    BY <2>1, <1>1 DEF BlockBoundary, Flushed, Ahead, Machine
  <2>2. CASE offset # 0
    <3>. DEFINE sft == MkOp("BF_SFT", 0, 0, offset)
    <3>1. Flushed(offset) # << >> /\ Flushed(offset)[1] = sft
      BY <2>2 DEF Flushed
    <3>2. rewritten' = Apply(rewritten, sft)
      BY <3>1 DEF BlockBoundary
    <3>3. sft.op = "BF_SFT" /\ sft.arg = offset
      BY DEF MkOp
    <3>4. Needs(rewritten, sft) = {}
      BY <3>3 DEF Needs
    <3>5. Effect(rewritten, sft) = Ahead(rewritten, offset)
      BY <3>3 DEF Effect, Ahead
    <3>. QED BY <1>1, <1>2, <3>2, <3>4, <3>5 DEF Apply
  <2>. QED BY <2>1, <2>2
<1>4. TypeOK'
  BY <1>1, <1>3 DEF TypeOK
<1>5. InStep'
  BY <1>1, <1>3 DEF InStep, Machine
<1>. QED BY <1>3, <1>4, <1>5

\* A shift that the visitor absorbs puts the original ahead by its argument.
LEMMA AbsorbIInv ==
  ASSUME IInv, NEW o \in Code, AbsorbShift(o)
  PROVE  IInv'
<1>. USE DEF IInv
<1>1. /\ original \in Machine /\ rewritten \in Machine /\ offset \in Int
      /\ original = Ahead(rewritten, offset) /\ ~original.fault
      /\ o \in Opcode /\ o.op = "BF_SFT" /\ o.arg \in Int
      /\ original' = Apply(original, o) /\ offset' = offset + o.arg
      /\ rewritten' = rewritten
  BY ReorderAssumption DEF TypeOK, InStep, Ahead, AbsorbShift, Running, Opcode
<1>2. Needs(original, o) = {}
  BY <1>1 DEF Needs
<1>3. Effect(original, o) = Ahead(original, o.arg)
  BY <1>1 DEF Effect, Ahead
<1>4. original' = Ahead(original, o.arg)
  BY <1>1, <1>2, <1>3 DEF Apply
<1>5. original' = Ahead(rewritten, offset + o.arg)
  <2>1. (rewritten.ptr + offset) + o.arg = rewritten.ptr + (offset + o.arg)
    BY <1>1 DEF Machine
  <2>2. Ahead(original, o.arg)
          = [rewritten EXCEPT !.ptr = (rewritten.ptr + offset) + o.arg]
    BY <1>1 DEF Ahead, Machine
  <2>. QED BY <1>4, <2>1, <2>2 DEF Ahead
<1>6. original' \in Machine
  BY <1>1, ApplyType
<1>7. offset' \in Int /\ rewritten' \in Machine
  BY <1>1
<1>8. InStep'
  BY <1>1, <1>5 DEF InStep, Ahead
<1>. QED BY <1>6, <1>7, <1>8 DEF TypeOK

\* Any other opcode is moved by what has been absorbed and keeps them in step.
LEMMA MoveIInv ==
  ASSUME IInv, NEW o \in Code, MoveOpcode(o)
  PROVE  IInv'
<1>. USE DEF IInv
<1>1. /\ original \in Machine /\ rewritten \in Machine /\ offset \in Int
      /\ original = Ahead(rewritten, offset)
      /\ o \in Opcode /\ o.op # "BF_SFT"
      /\ original' = Apply(original, o)
      /\ rewritten' = Apply(rewritten, Moved(o, offset))
      /\ offset' = offset
  BY ReorderAssumption DEF TypeOK, InStep, Ahead, MoveOpcode
<1>2. Moved(o, offset) \in Opcode
  <2>1. o.src + offset \in Int /\ o.dst + offset \in Int
    BY <1>1 DEF Opcode
  <2>. QED BY <1>1, <2>1 DEF Moved, Opcode
<1>3. original' \in Machine /\ rewritten' \in Machine /\ offset' \in Int
  BY <1>1, <1>2, ApplyType
<1>4. original' = Ahead(rewritten', offset')
  BY <1>1, MovedInStep
<1>5. InStep'
  BY <1>4 DEF InStep, Ahead
<1>. QED BY <1>3, <1>5 DEF TypeOK

(***************************************************************************)
(* Reordering is sound: whatever the program and its input, the rewritten  *)
(* program is in step with the original at every opcode either executes.   *)
(***************************************************************************)
THEOREM ReorderSound == Spec => [](TypeOK /\ InStep)
<1>1. IInv /\ [Next]_vars => IInv'
  <2>. SUFFICES ASSUME IInv, [Next]_vars PROVE IInv'
    OBVIOUS
  <2>1. ASSUME NEW o \in Code, AbsorbShift(o) PROVE IInv'
    BY <2>1, AbsorbIInv
  <2>2. ASSUME NEW o \in Code, MoveOpcode(o) PROVE IInv'
    BY <2>2, MoveIInv
  <2>3. CASE BlockBoundary
    BY <2>3, FlushMeets
  <2>4. CASE UNCHANGED vars
    BY <2>4 DEF vars, IInv, TypeOK, InStep
  <2>. QED BY <2>1, <2>2, <2>3, <2>4 DEF Next
<1>. QED BY InitIInv, <1>1, PTL DEF Spec, IInv

\* The machines of both programs stay machines, whatever the offset.
THEOREM TypeCorrect == Spec => []TypeOK
BY ReorderSound, PTL

\* Wherever a loop decides whether to go on, both programs decide alike: they
\* are in the same state.
THEOREM SameBranches == Spec => BoundaryMeets
<1>1. IInv /\ [Next]_vars => [BlockBoundary => original' = rewritten']_vars
  BY FlushMeets
<1>2. Spec => []IInv
  BY ReorderSound, PTL DEF IInv
<1>. QED BY <1>1, <1>2, PTL DEF Spec, BoundaryMeets

-----------------------------------------------------------------------------
\* Quotient and remainder, and that there is only one of each.
LEMMA Division ==
  ASSUME NEW n \in Int
  PROVE  \E q \in Int : n = Modulus * q + Wrap(n)
<1>1. n \div Modulus \in Int /\ n = Modulus * (n \div Modulus) + Wrap(n)
  BY MachineAssumption DEF Wrap
<1>. QED BY <1>1

\* A sum of a multiple of the size of a cell and of a cell value is that value.
LEMMA Remainder ==
  ASSUME NEW q \in Int, NEW r \in Cell
  PROVE  Wrap(Modulus * q + r) = r
BY MachineAssumption DEF Wrap, Cell

\* Multiplication distributes over addition.
LEMMA Distributes ==
  ASSUME NEW x \in Int, NEW y \in Int, NEW z \in Int
  PROVE  x * (y + z) = x * y + x * z /\ x * y \in Int
OBVIOUS

\* A cell that wraps around twice might as well have wrapped around once.
LEMMA WrapSum ==
  ASSUME NEW n \in Int, NEW k \in Int
  PROVE  Wrap(Wrap(n) + k) = Wrap(n + k)
<1>. DEFINE s == Wrap(n) + k
<1>0. Wrap(n) \in Int
  BY WrapType
<1>1. s \in Int
  BY <1>0
<1>2. PICK q \in Int : n = Modulus * q + Wrap(n)
  BY Division
<1>3. PICK u \in Int : s = Modulus * u + Wrap(s)
  BY <1>1, Division
<1>4. Wrap(s) \in Cell /\ Wrap(s) \in Int
  BY <1>1, WrapType
<1>5. /\ Modulus * (q + u) = Modulus * q + Modulus * u
      /\ Modulus * q \in Int /\ Modulus * u \in Int /\ Modulus * (q + u) \in Int
  BY Distributes, MachineAssumption
<1>6. n + k = Modulus * (q + u) + Wrap(s)
  <2>1. ASSUME NEW x \in Int, NEW y \in Int, NEW z \in Int, NEW w \in Int, NEW t \in Int,
               n = x + w, w + k = y + t, z = x + y
        PROVE  n + k = z + t
    BY <2>1
  <2>. QED BY <1>0, <1>2, <1>3, <1>4, <1>5, <2>1 DEF s
<1>. HIDE DEF s
<1>7. Wrap(n + k) = Wrap(s)
  BY <1>4, <1>6, Remainder
<1>. QED BY <1>7 DEF s

\* What putting something into a cell leaves as it is.
LEMMA PutKeeps ==
  ASSUME NEW m \in Machine, NEW k \in Int, NEW v
  PROVE  /\ \A i : InTape(Put(m, k, v), i) <=> InTape(m, i)
         /\ Put(m, k, v).fault = m.fault
         /\ Put(m, k, v).ptr = m.ptr
BY DEF Put, InTape, Machine

\* Reading back what has been put into a cell, and putting something else there.
LEMMA PutFacts ==
  ASSUME NEW m \in Machine, NEW k \in Int, InTape(m, k), NEW v \in Int, NEW w \in Int
  PROVE  /\ At(Put(m, k, v), k) = Wrap(v)
         /\ Put(Put(m, k, v), k, w) = Put(m, k, w)
<1>. DEFINE tape == [m.tape EXCEPT ![m.ptr + k] = Wrap(v)]
<1>1. m.ptr + k \in DOMAIN m.tape /\ m.ptr \in Int
  BY DEF InTape, Machine
<1>2. Put(m, k, v).tape = tape /\ Put(m, k, v).ptr = m.ptr
  BY DEF Put, Machine
<1>3. [tape EXCEPT ![m.ptr + k] = Wrap(w)] = [m.tape EXCEPT ![m.ptr + k] = Wrap(w)]
  OBVIOUS
<1>4. Put(Put(m, k, v), k, w) = Put(m, k, w)
  BY <1>2, <1>3 DEF Put, Machine
<1>5. At(Put(m, k, v), k) = Wrap(v)
  BY <1>1, <1>2 DEF At
<1>. QED BY <1>4, <1>5

\* Adding to a cell twice, as BF_ADD and BF_MUL do.
LEMMA AddTwice ==
  ASSUME NEW m \in Machine, NEW k \in Int, InTape(m, k), NEW p \in Int, NEW q \in Int
  PROVE  LET n == Put(m, k, At(m, k) + p)
         IN Put(n, k, At(n, k) + q) = Put(m, k, At(m, k) + (p + q))
<1>. DEFINE n == Put(m, k, At(m, k) + p)
            v == At(m, k) + p
            w == Wrap(v) + q
<1>1. At(m, k) \in Int
  BY AtType
<1>2. v \in Int
  BY <1>1
<1>3. Wrap(v) \in Int
  BY <1>2, WrapType
<1>4. w \in Int
  BY <1>3
<1>5. At(m, k) + (p + q) = v + q /\ v + q \in Int
  BY <1>1
<1>6. Wrap(w) = Wrap(v + q)
  BY <1>2, WrapSum
<1>. HIDE DEF v
<1>7. At(n, k) = Wrap(v)
  BY <1>2, PutFacts DEF v
<1>. HIDE DEF w
<1>8. Put(n, k, w) = Put(m, k, w)
  BY <1>2, <1>4, PutFacts DEF v
<1>9. Put(m, k, w) = Put(m, k, v + q)
  BY <1>6 DEF Put
<1>. QED BY <1>5, <1>7, <1>8, <1>9 DEF w

\* Moving the pointer twice is moving it by the sum.
LEMMA ShiftTwice ==
  ASSUME NEW m \in Machine, NEW p \in Int, NEW q \in Int
  PROVE  [[m EXCEPT !.ptr = @ + p] EXCEPT !.ptr = @ + q] = [m EXCEPT !.ptr = @ + (p + q)]
<1>1. m.ptr \in Int /\ m.ptr + p + q = m.ptr + (p + q)
  BY DEF Machine
<1>2. [m EXCEPT !.ptr = m.ptr + p].ptr = m.ptr + p
  BY DEF Machine
<1>3. [[m EXCEPT !.ptr = m.ptr + p] EXCEPT !.ptr = m.ptr + p + q]
        = [m EXCEPT !.ptr = m.ptr + p + q]
  BY DEF Machine
<1>. QED BY <1>1, <1>2, <1>3

(***************************************************************************)
(* Two additions to a cell, two shifts: one of the sum does the same,      *)
(* faults included.  (BF_ADD has one offset: its source is its             *)
(* destination.)                                                           *)
(***************************************************************************)
THEOREM SumsFuse ==
  ASSUME NEW m \in Machine, NEW a \in Opcode, NEW b \in Opcode,
         Fusible(a, b), a.op \in {"BF_ADD", "BF_SFT"}, a.op = "BF_ADD" => a.src = a.dst
  PROVE  Apply(Apply(m, a), b) = Apply(m, Fused(a, b))
<1>. DEFINE f == Fused(a, b)
<1>1. /\ a.src \in Int /\ a.dst \in Int /\ a.arg \in Int /\ b.arg \in Int
      /\ b.op = a.op
      /\ f.op = a.op /\ f.src = a.src /\ f.dst = a.dst /\ f.arg = a.arg + b.arg
  BY DEF Opcode, Fusible, Fused
<1>. HIDE DEF f
<1>2. CASE m.fault
  BY <1>2 DEF Apply, f
<1>3. CASE ~m.fault /\ a.op = "BF_SFT"
  <2>1. Apply(m, a) = [m EXCEPT !.ptr = @ + a.arg]
    BY <1>3 DEF Apply, Needs, Effect
  <2>2. ~[m EXCEPT !.ptr = @ + a.arg].fault
    BY <1>3 DEF Machine
  <2>3. Apply([m EXCEPT !.ptr = @ + a.arg], b)
          = [[m EXCEPT !.ptr = @ + a.arg] EXCEPT !.ptr = @ + b.arg]
    BY <1>1, <1>3, <2>2 DEF Apply, Needs, Effect
  <2>4. Apply(m, f) = [m EXCEPT !.ptr = @ + (a.arg + b.arg)]
    BY <1>1, <1>3 DEF Apply, Needs, Effect
  <2>5. [[m EXCEPT !.ptr = @ + a.arg] EXCEPT !.ptr = @ + b.arg]
          = [m EXCEPT !.ptr = @ + (a.arg + b.arg)]
    BY <1>1, ShiftTwice, ZenonT(30)
  <2>6. Apply(Apply(m, a), b) = Apply(m, f)
    BY <2>1, <2>3, <2>4, <2>5
  <2>. QED BY <2>6 DEF f
<1>4. CASE ~m.fault /\ a.op = "BF_ADD" /\ ~InTape(m, a.dst)
  <2>1. Apply(m, a) = Faulted(m) /\ Apply(m, f) = Faulted(m)
    BY <1>1, <1>4 DEF Apply, Needs
  <2>2. Apply(Faulted(m), b) = Faulted(m)
    BY DEF Apply, Faulted, Machine
  <2>. QED BY <2>1, <2>2 DEF f
<1>5. CASE ~m.fault /\ a.op = "BF_ADD" /\ InTape(m, a.dst)
  <2>1. b.src = a.dst /\ b.dst = a.dst /\ a.src = a.dst
    BY <1>5 DEF Fusible
  <2>2. At(m, a.dst) + a.arg \in Int
    BY <1>1, <1>5, AtType
  <2>3. PICK n : n = Put(m, a.dst, At(m, a.dst) + a.arg)
    OBVIOUS
  <2>4. Apply(m, a) = n
    BY <1>5, <2>1, <2>3 DEF Apply, Needs, Effect
  <2>5. InTape(n, a.dst) /\ ~n.fault
    BY <1>1, <1>5, <2>3, PutKeeps
  <2>6. Apply(n, b) = Put(n, a.dst, At(n, a.dst) + b.arg)
    BY <1>1, <1>5, <2>1, <2>5 DEF Apply, Needs, Effect
  <2>7. Apply(m, f) = Put(m, a.dst, At(m, a.dst) + (a.arg + b.arg))
    BY <1>1, <1>5, <2>1 DEF Apply, Needs, Effect
  <2>8. Put(n, a.dst, At(n, a.dst) + b.arg) = Put(m, a.dst, At(m, a.dst) + (a.arg + b.arg))
    <3>1. a.dst \in Int /\ a.arg \in Int /\ b.arg \in Int /\ InTape(m, a.dst)
      BY <1>1, <1>5
    <3>. QED BY <3>1, <2>3, AddTwice
  <2>9. Apply(Apply(m, a), b) = Apply(m, f)
    BY <2>4, <2>6, <2>7, <2>8
  <2>. QED BY <2>9 DEF f
<1>. QED BY <1>2, <1>3, <1>4, <1>5

(***************************************************************************)
(* Two settings of one cell to one value are one.  BfOptimizeOps fuses any *)
(* two settings: it relies on the passes before to leave only such         *)
(* neighbours.                                                             *)
(***************************************************************************)
THEOREM SettingsFuse ==
  ASSUME NEW m \in Machine, NEW a \in Opcode, NEW b \in Opcode,
         Fusible(a, b), a.op = "BF_SET", a.dst = b.dst, a.arg = b.arg
  PROVE  Apply(Apply(m, a), b) = Apply(m, Fused(a, b))
<1>1. /\ a.dst \in Int /\ a.arg \in Int
      /\ b.op = "BF_SET" /\ Fused(a, b) = a
  BY DEF Opcode, Fusible, Fused
<1>2. CASE m.fault
  BY <1>2 DEF Apply
<1>3. CASE ~m.fault /\ ~InTape(m, a.dst)
  <2>1. Apply(m, a) = Faulted(m)
    BY <1>3 DEF Apply, Needs
  <2>2. Apply(Faulted(m), b) = Faulted(m)
    BY DEF Apply, Faulted, Machine
  <2>. QED BY <1>1, <2>1, <2>2
<1>4. CASE ~m.fault /\ InTape(m, a.dst)
  <2>. DEFINE n == Put(m, a.dst, a.arg)
  <2>1. Apply(m, a) = n
    BY <1>4 DEF Apply, Needs, Effect
  <2>2. InTape(n, a.dst) /\ ~n.fault
    BY <1>1, <1>4, PutKeeps
  <2>. HIDE DEF n
  <2>3. Apply(n, b) = Put(n, a.dst, a.arg)
    BY <1>1, <2>2 DEF Apply, Needs, Effect
  <2>4. Put(n, a.dst, a.arg) = n
    BY <1>1, <1>4, PutFacts DEF n
  <2>. QED BY <1>1, <2>1, <2>3, <2>4
<1>. QED BY <1>2, <1>3, <1>4

\* What BF_MUL does to a machine that has its cells.
LEMMA ApplyMul ==
  ASSUME NEW m \in Machine, NEW o, o.op = "BF_MUL", ~m.fault, InTape(m, o.src)
  PROVE  Apply(m, o) = IF At(m, o.src) = 0 THEN m
                       ELSE IF InTape(m, o.dst)
                       THEN Put(m, o.dst, At(m, o.dst) + At(m, o.src) * o.arg)
                       ELSE Faulted(m)
<1>1. CASE At(m, o.src) = 0
  BY <1>1 DEF Apply, Needs, Effect
<1>2. CASE At(m, o.src) # 0
  BY <1>2 DEF Apply, Needs, Effect
<1>. QED BY <1>1, <1>2

(***************************************************************************)
(* Two multiplications of the same cells are one by the sum of their       *)
(* factors, not by the product, which is what Fused makes of them: see the *)
(* run cpp_repeated_add.                                                   *)
(***************************************************************************)
THEOREM FactorsAdd ==
  ASSUME NEW m \in Machine, NEW a \in Opcode, NEW b \in Opcode,
         Fusible(a, b), a.op = "BF_MUL", a.src # a.dst,
         NEW f, f = [a EXCEPT !.arg = @ + b.arg]
  PROVE  Apply(Apply(m, a), b) = Apply(m, f)
<1>1. /\ a.src \in Int /\ a.dst \in Int /\ a.arg \in Int /\ b.arg \in Int
      /\ b.op = "BF_MUL" /\ b.src = a.src /\ b.dst = a.dst
      /\ f.op = "BF_MUL" /\ f.src = a.src /\ f.dst = a.dst /\ f.arg = a.arg + b.arg
  BY DEF Opcode, Fusible
<1>2. Apply(Faulted(m), b) = Faulted(m)
  BY DEF Apply, Faulted, Machine
<1>3. CASE m.fault
  BY <1>3 DEF Apply
<1>4. CASE ~m.fault /\ ~InTape(m, a.src)
  <2>1. Apply(m, a) = Faulted(m) /\ Apply(m, f) = Faulted(m)
    BY <1>1, <1>4 DEF Apply, Needs
  <2>. QED BY <1>2, <2>1
<1>5. CASE ~m.fault /\ InTape(m, a.src) /\ At(m, a.src) = 0
  BY <1>1, <1>5, ApplyMul
<1>6. CASE ~m.fault /\ InTape(m, a.src) /\ At(m, a.src) # 0 /\ ~InTape(m, a.dst)
  BY <1>1, <1>2, <1>6, ApplyMul
<1>7. CASE ~m.fault /\ InTape(m, a.src) /\ At(m, a.src) # 0 /\ InTape(m, a.dst)
  <2>1. PICK x \in Int : x = At(m, a.src)
    BY <1>1, <1>7, AtType
  <2>2. /\ x * a.arg \in Int /\ x * b.arg \in Int
        /\ x * a.arg + x * b.arg = x * (a.arg + b.arg)
    BY <1>1, Distributes
  <2>. DEFINE n == Put(m, a.dst, At(m, a.dst) + x * a.arg)
  <2>3. Apply(m, a) = n
    BY <1>7, <2>1, ApplyMul
  <2>4. InTape(n, a.src) /\ InTape(n, a.dst) /\ ~n.fault
    BY <1>1, <1>7, PutKeeps
  <2>5. At(n, a.src) = x
    <3>1. m.ptr + a.src # m.ptr + a.dst /\ m.ptr \in Int
      BY <1>1 DEF Machine
    <3>2. m.ptr + a.src \in DOMAIN m.tape
      BY <1>7 DEF InTape, Machine
    <3>3. /\ n.tape = [m.tape EXCEPT ![m.ptr + a.dst] = Wrap(At(m, a.dst) + x * a.arg)]
          /\ n.ptr = m.ptr
      BY DEF Put, Machine
    <3>. QED BY <2>1, <3>1, <3>2, <3>3 DEF At
  <2>6. n \in Machine
    <3>1. At(m, a.dst) + x * a.arg \in Int
      BY <1>1, <1>7, <2>2, AtType
    <3>. QED BY <3>1, WrapType DEF Put, Machine
  <2>7. Put(n, a.dst, At(n, a.dst) + x * b.arg)
          = Put(m, a.dst, At(m, a.dst) + (x * a.arg + x * b.arg))
    <3>1. a.dst \in Int /\ InTape(m, a.dst)
      BY <1>1, <1>7
    <3>. QED BY <2>2, <3>1, AddTwice
  <2>8. Apply(m, f) = Put(m, a.dst, At(m, a.dst) + (x * a.arg + x * b.arg))
    BY <1>1, <1>7, <2>1, <2>2, ApplyMul
  <2>. HIDE DEF n
  <2>9. Apply(n, b) = Put(n, a.dst, At(n, a.dst) + x * b.arg)
    BY <1>1, <1>7, <2>1, <2>4, <2>5, <2>6, ApplyMul
  <2>. QED BY <2>3, <2>7, <2>8, <2>9 DEF n
<1>. QED BY <1>3, <1>4, <1>5, <1>6, <1>7
-----------------------------------------------------------------------------
\* Instructions on n values, and what n values and v[0] may hold.
InsnSet(n) == [insn : InsnKinds, dst : 0 .. n, src : 0 .. n, arg : Int]
Values(n) == [0 .. n -> Cell]

\* What each kind of instruction leaves of the machine and of the values.
Assigned(v, r, value) == [v EXCEPT ![r] = Wrap(value)]

\* What each kind of instruction leaves of the machine and of the values.
DoesAs(i, m, v) ==
  /\ i.insn = "LOAD" =>
       /\ Does(i, m, v).m = m
       /\ Does(i, m, v).v = Assigned(v, i.dst, IF InTape(m, i.arg) THEN At(m, i.arg) ELSE v[0])
  /\ i.insn = "STORE" =>
       /\ Does(i, m, v).m = IF InTape(m, i.arg) THEN Put(m, i.arg, v[i.src]) ELSE m
       /\ Does(i, m, v).v = v
  /\ i.insn = "ADD" =>
       Does(i, m, v).m = m /\ Does(i, m, v).v = Assigned(v, i.dst, v[i.src] + i.arg)
  /\ i.insn = "MUL" =>
       /\ Does(i, m, v).m = m
       /\ Does(i, m, v).v = Assigned(v, i.dst, v[i.dst] + v[i.src] * i.arg)
  /\ i.insn = "SET" =>
       Does(i, m, v).m = m /\ Does(i, m, v).v = Assigned(v, i.dst, i.arg)
  /\ i.insn = "MOVE" =>
       Does(i, m, v).m = m /\ Does(i, m, v).v = Assigned(v, i.dst, v[i.src])
  /\ i.insn = "PUT" =>
       Does(i, m, v).m = [m EXCEPT !.out = Append(m.out, v[i.src])] /\ Does(i, m, v).v = v
  /\ i.insn = "GET" =>
       /\ Does(i, m, v).m = IF m.inp = << >> THEN m ELSE [m EXCEPT !.inp = Tail(m.inp)]
       /\ Does(i, m, v).v = IF m.inp = << >> THEN Assigned(v, i.dst, EOF)
                            ELSE Assigned(v, i.dst, Head(m.inp))
  /\ i.insn = "SHIFT" =>
       Does(i, m, v).m = [m EXCEPT !.ptr = m.ptr + i.arg] /\ Does(i, m, v).v = v
  /\ i.insn \in {"LABEL", "BR", "BRZ"} => Does(i, m, v).m = m /\ Does(i, m, v).v = v

\* Does(i, m, v) is what its case for the kind of i says.
LEMMA DoesEach == ASSUME NEW i, NEW m, NEW v PROVE DoesAs(i, m, v)
BY DEF DoesAs, Does, Assigned

\* An assignment changes one value, and to a cell value.
LEMMA AssignedType ==
  ASSUME NEW n \in Nat, NEW v \in Values(n), NEW r \in 0 .. n, NEW value \in Int
  PROVE  /\ Assigned(v, r, value) \in Values(n)
         /\ Assigned(v, r, value)[r] = Wrap(value)
         /\ \A s \in 0 .. n : s # r => Assigned(v, r, value)[s] = v[s]
BY WrapType DEF Assigned, Values

\* Cell values fit a cell.
LEMMA WrapCell == ASSUME NEW c \in Cell PROVE Wrap(c) = c /\ c \in Int
BY MachineAssumption DEF Wrap, Cell

\* An instruction takes a machine and values to a machine and values.
LEMMA DoesType ==
  ASSUME NEW n \in Nat, NEW i \in InsnSet(n), NEW m \in Machine, NEW v \in Values(n)
  PROVE  Does(i, m, v).m \in Machine /\ Does(i, m, v).v \in Values(n)
<1>1. /\ i.insn \in InsnKinds /\ i.dst \in 0 .. n /\ i.src \in 0 .. n /\ i.arg \in Int
      /\ v[i.src] \in Cell /\ v[i.dst] \in Cell /\ v[0] \in Cell
  BY DEF InsnSet, Values
<1>0. DoesAs(i, m, v)
  BY DoesEach
<1>2. v[i.src] \in Int /\ v[i.dst] \in Int /\ v[0] \in Int
  BY <1>1, WrapCell
<1>3. CASE i.insn = "LOAD"
  <2>1. (IF InTape(m, i.arg) THEN At(m, i.arg) ELSE v[0]) \in Int
    BY <1>1, <1>2, AtType
  <2>. QED BY <1>1, <1>3, <2>1, AssignedType, <1>0 DEF DoesAs
<1>4. CASE i.insn = "STORE"
  BY <1>1, <1>2, <1>4, PutType, <1>0 DEF DoesAs
<1>5. CASE i.insn \in {"ADD", "SET", "MOVE"}
  <2>1. v[i.src] + i.arg \in Int
    BY <1>1, <1>2
  <2>2. /\ Assigned(v, i.dst, v[i.src] + i.arg) \in Values(n)
        /\ Assigned(v, i.dst, i.arg) \in Values(n)
        /\ Assigned(v, i.dst, v[i.src]) \in Values(n)
    BY <1>1, <1>2, <2>1, AssignedType
  <2>. QED BY <1>5, <2>2, <1>0 DEF DoesAs
<1>6. CASE i.insn = "MUL"
  <2>1. v[i.dst] + v[i.src] * i.arg \in Int
    BY <1>1, <1>2
  <2>. QED BY <1>1, <1>6, <2>1, AssignedType, <1>0 DEF DoesAs
<1>7. CASE i.insn = "PUT"
  <2>1. Append(m.out, v[i.src]) \in Seq(Cell)
    BY <1>1, AppendProperties DEF Machine
  <2>2. [m EXCEPT !.out = Append(m.out, v[i.src])] \in Machine
    BY <2>1 DEF Machine
  <2>. QED BY <1>7, <2>2, <1>0 DEF DoesAs
<1>8. CASE i.insn = "GET"
  <2>1. EOF \in Int
    BY WrapType DEF EOF
  <2>2. CASE m.inp = << >>
    BY <1>1, <1>8, <2>1, <2>2, AssignedType, <1>0 DEF DoesAs
  <2>3. CASE m.inp # << >>
    <3>1. Head(m.inp) \in Cell /\ Tail(m.inp) \in Seq(Cell)
      BY <2>3, HeadTailProperties DEF Machine
    <3>2. [m EXCEPT !.inp = Tail(m.inp)] \in Machine
      BY <3>1 DEF Machine
    <3>3. Head(m.inp) \in Int
      BY <3>1, WrapCell
    <3>. QED BY <1>1, <1>8, <2>3, <3>2, <3>3, AssignedType, <1>0 DEF DoesAs
  <2>. QED BY <2>2, <2>3
<1>9. CASE i.insn = "SHIFT"
  <2>1. [m EXCEPT !.ptr = m.ptr + i.arg] \in Machine
    BY <1>1 DEF Machine
  <2>. QED BY <1>9, <2>1, <1>0 DEF DoesAs
<1>10. CASE i.insn \in {"LABEL", "BR", "BRZ"}
  BY <1>10, <1>0 DEF DoesAs
<1>. QED BY <1>1, <1>3, <1>4, <1>5, <1>6, <1>7, <1>8, <1>9, <1>10 DEF InsnKinds, Effective

-----------------------------------------------------------------------------
\* No two cells share a value, and none has v[0].
MapOK(map, n) ==
  /\ DOMAIN map \subseteq Int
  /\ \A k \in DOMAIN map : map[k] \in 1 .. n
  /\ \A k, l \in DOMAIN map : map[k] = map[l] => k = l

(***************************************************************************)
(* What the jit function would find in a cell if all that the map caches   *)
(* were stored, and that this is what the interpreted machine has there.   *)
(***************************************************************************)
Seen(map, m, v, a) ==
  IF a - m.ptr \in DOMAIN map THEN v[map[a - m.ptr]] ELSE m.tape[a]

\* The relation between the function and the interpreter at an instruction where
\* the generator's map was map: same pointer, input and output, and the tapes the
\* same once the cached cells are read from their values.
Mirrors(map, m, v, pm) ==
  /\ m.ptr = pm.ptr /\ m.inp = pm.inp /\ m.out = pm.out
  /\ m.fault = FALSE /\ pm.fault = FALSE
  /\ \A a \in Window : Seen(map, m, v, a) = pm.tape[a]

\* The map when a cell has been stored, and when the pointer has moved by arg.
Without(map, k) == [l \in DOMAIN map \ {k} |-> map[l]]
Shifted(map, arg) == [k \in {j - arg : j \in DOMAIN map} |-> map[k + arg]]

\* Caching a cell in a fresh value keeps values unshared.
LEMMA CachingOK ==
  ASSUME NEW n \in Nat, NEW map, MapOK(map, n), NEW k \in Int, NEW r \in 1 .. n,
         \A l \in DOMAIN map : map[l] # r
  PROVE  /\ MapOK(Caching(map, k, r), n)
         /\ DOMAIN Caching(map, k, r) = DOMAIN map \cup {k}
         /\ Caching(map, k, r)[k] = r
         /\ \A l \in DOMAIN map : l # k => Caching(map, k, r)[l] = map[l]
BY DEF MapOK, Caching

\* So does dropping an entry.
LEMMA WithoutOK ==
  ASSUME NEW n \in Nat, NEW map, MapOK(map, n), NEW k
  PROVE  MapOK(Without(map, k), n)
BY DEF MapOK, Without

\* And so does moving the offsets, which follow the pointer.
LEMMA ShiftedOK ==
  ASSUME NEW n \in Nat, NEW map, MapOK(map, n), NEW arg \in Int
  PROVE  /\ MapOK(Shifted(map, arg), n)
         /\ \A k \in Int : k - arg \in DOMAIN Shifted(map, arg) <=> k \in DOMAIN map
         /\ \A k \in DOMAIN map : Shifted(map, arg)[k - arg] = map[k]
<1>1. \A j \in DOMAIN map : j \in Int /\ j - arg \in Int /\ (j - arg) + arg = j
  BY DEF MapOK
<1>2. \A k \in DOMAIN Shifted(map, arg) : k \in Int /\ k + arg \in DOMAIN map
                                          /\ Shifted(map, arg)[k] = map[k + arg]
  BY <1>1 DEF Shifted
<1>3. \A k \in Int : k - arg \in DOMAIN Shifted(map, arg) <=> k \in DOMAIN map
  BY <1>1 DEF Shifted
<1>4. \A k \in DOMAIN map : Shifted(map, arg)[k - arg] = map[k]
  BY <1>1, <1>2, <1>3
<1>5. \A k, l \in DOMAIN Shifted(map, arg) :
        Shifted(map, arg)[k] = Shifted(map, arg)[l] => k = l
  BY <1>2 DEF MapOK
<1>. QED BY <1>2, <1>3, <1>4, <1>5 DEF MapOK

\* Fields of machines.
LEMMA MachineFields ==
  ASSUME NEW m \in Machine
  PROVE  /\ m.ptr \in Int /\ m.inp \in Seq(Cell) /\ m.out \in Seq(Cell) /\ m.fault \in BOOLEAN
         /\ m.tape \in [Window -> Cell]
         /\ \A a \in Window : a \in Int /\ m.tape[a] \in Cell
BY MachineAssumption DEF Machine, Window

\* A store touches one cell of the tape and nothing else.
LEMMA PutFields ==
  ASSUME NEW m \in Machine, NEW k \in Int, NEW value
  PROVE  /\ Put(m, k, value).ptr = m.ptr /\ Put(m, k, value).inp = m.inp
         /\ Put(m, k, value).out = m.out /\ Put(m, k, value).fault = m.fault
         /\ InTape(m, k) => Put(m, k, value).tape[m.ptr + k] = Wrap(value)
         /\ \A a \in Window : a # m.ptr + k => Put(m, k, value).tape[a] = m.tape[a]
BY DEF Put, Machine, InTape

\* A cached cell of the tape is in its value.
LEMMA CachedCell ==
  ASSUME NEW map, NEW n \in Nat, MapOK(map, n), NEW m \in Machine, NEW pm \in Machine, NEW v,
         Mirrors(map, m, v, pm), NEW k \in DOMAIN map, InTape(pm, k)
  PROVE  v[map[k]] = At(pm, k)
<1>1. k \in Int /\ pm.ptr \in Int /\ pm.ptr + k \in Window /\ (pm.ptr + k) - m.ptr = k
  BY MachineFields DEF MapOK, InTape, Mirrors
<1>2. Seen(map, m, v, pm.ptr + k) = v[map[k]]
  BY <1>1 DEF Seen
<1>. QED BY <1>1, <1>2 DEF Mirrors, At

\* Assigning a value that no cell has, changes nothing that is seen.
LEMMA AssignOther ==
  ASSUME NEW n \in Nat, NEW v \in Values(n), NEW map, MapOK(map, n), NEW m, NEW pm,
         Mirrors(map, m, v, pm), NEW r \in 1 .. n, \A k \in DOMAIN map : map[k] # r,
         NEW value \in Int
  PROVE  Mirrors(map, m, Assigned(v, r, value), pm)
<1>0. \A s \in 0 .. n : s # r => Assigned(v, r, value)[s] = v[s]
  BY AssignedType
<1>1. \A k \in DOMAIN map : Assigned(v, r, value)[map[k]] = v[map[k]]
  BY <1>0 DEF MapOK
<1>2. \A a \in Window : Seen(map, m, Assigned(v, r, value), a) = Seen(map, m, v, a)
  BY <1>1 DEF Seen
<1>. QED BY <1>2 DEF Mirrors

\* Assigning the value of a cell is putting the same into the cell.
LEMMA AssignCell ==
  ASSUME NEW n \in Nat, NEW v \in Values(n), NEW map, MapOK(map, n),
         NEW m \in Machine, NEW pm \in Machine,
         Mirrors(map, m, v, pm), NEW k \in DOMAIN map, InTape(pm, k), NEW value \in Int
  PROVE  Mirrors(map, m, Assigned(v, map[k], value), Put(pm, k, value))
<1>. DEFINE w == Assigned(v, map[k], value)
            q == Put(pm, k, value)
<1>1. k \in Int /\ map[k] \in 0 .. n /\ \A l \in DOMAIN map : map[l] \in 0 .. n /\ l \in Int
  BY DEF MapOK
<1>2. w[map[k]] = Wrap(value) /\ \A l \in DOMAIN map : l # k => w[map[l]] = v[map[l]]
  <2>1. w[map[k]] = Wrap(value) /\ \A s \in 0 .. n : s # map[k] => w[s] = v[s]
    BY <1>1, AssignedType
  <2>. QED BY <1>1, <2>1 DEF MapOK
<1>3. /\ q.ptr = pm.ptr /\ q.inp = pm.inp /\ q.out = pm.out /\ q.fault = pm.fault
      /\ q.tape[pm.ptr + k] = Wrap(value)
      /\ \A a \in Window : a # pm.ptr + k => q.tape[a] = pm.tape[a]
  BY <1>1, PutFields
<1>4. m.ptr = pm.ptr /\ pm.ptr \in Int
  BY MachineFields DEF Mirrors
<1>. HIDE DEF w, q
<1>5. ASSUME NEW a \in Window PROVE Seen(map, m, w, a) = q.tape[a]
  <2>1. a \in Int /\ Seen(map, m, v, a) = pm.tape[a]
    BY MachineFields DEF Mirrors
  <2>2. CASE a = pm.ptr + k
    <3>1. a - m.ptr = k
      BY <1>1, <1>4, <2>2
    <3>. QED BY <1>2, <1>3, <2>2, <3>1 DEF Seen
  <2>3. CASE a # pm.ptr + k
    <3>1. a - m.ptr # k
      BY <1>1, <1>4, <2>1, <2>3
    <3>. QED BY <1>2, <1>3, <2>1, <2>3, <3>1 DEF Seen
  <2>. QED BY <2>2, <2>3
<1>6. Mirrors(map, m, w, q)
  BY <1>3, <1>5 DEF Mirrors
<1>. QED BY <1>6 DEF w, q
-----------------------------------------------------------------------------
\* What a load yields: a cell, or memory that is not the tape.
FromTape(m, v, k) == IF InTape(m, k) THEN At(m, k) ELSE v[0]

\* A load into a value that caches nothing is invisible, whether or not the map
\* then says that the value caches the cell (LoadCached, and the load into a
\* dropped value in CompileShift).
LEMMA LoadMirrors ==
  ASSUME NEW n \in Nat, NEW v \in Values(n), NEW map, MapOK(map, n),
         NEW m \in Machine, NEW pm \in Machine, Mirrors(map, m, v, pm),
         NEW r \in 1 .. n, \A l \in DOMAIN map : map[l] # r,
         NEW k \in Int
  PROVE  /\ Mirrors(map, m, Assigned(v, r, FromTape(m, v, k)), pm)
         /\ k \notin DOMAIN map =>
              Mirrors(Caching(map, k, r), m, Assigned(v, r, FromTape(m, v, k)), pm)
<1>. DEFINE w == Assigned(v, r, FromTape(m, v, k))
<1>1. FromTape(m, v, k) \in Cell /\ FromTape(m, v, k) \in Int
  <2>1. v[0] \in Cell /\ v[0] \in Int
    BY WrapCell DEF Values
  <2>. QED BY <2>1, AtType DEF FromTape
<1>2. Mirrors(map, m, w, pm)
  BY <1>1, AssignOther
<1>3. w[r] = FromTape(m, v, k)
  BY <1>1, AssignedType, WrapCell
<1>. HIDE DEF w
<1>4. ASSUME k \notin DOMAIN map PROVE Mirrors(Caching(map, k, r), m, w, pm)
  <2>0. /\ DOMAIN Caching(map, k, r) = DOMAIN map \cup {k}
        /\ Caching(map, k, r)[k] = r
        /\ \A l \in DOMAIN map : l # k => Caching(map, k, r)[l] = map[l]
    BY DEF Caching
  <2>1. ASSUME NEW a \in Window
        PROVE  Seen(Caching(map, k, r), m, w, a) = Seen(map, m, w, a)
    <3>1. a \in Int /\ m.ptr \in Int
      BY MachineFields
    <3>2. CASE a - m.ptr = k
      <4>1. m.ptr + k = a
        BY <3>1, <3>2
      <4>2. FromTape(m, v, k) = m.tape[a]
        BY <4>1 DEF FromTape, InTape, At
      <4>. QED BY <1>3, <1>4, <2>0, <3>2, <4>2 DEF Seen
    <3>3. CASE a - m.ptr # k
      BY <2>0, <3>3 DEF Seen
    <3>. QED BY <3>2, <3>3
  <2>. QED BY <1>2, <2>1 DEF Mirrors
<1>. QED BY <1>2, <1>4 DEF w

\* Storing a cached cell makes its entry superfluous (StoreCached on eviction and
\* at the end of CompileProgram).
LEMMA StoreMirrors ==
  ASSUME NEW n \in Nat, NEW v \in Values(n), NEW map, MapOK(map, n),
         NEW m \in Machine, NEW pm \in Machine, Mirrors(map, m, v, pm),
         NEW k \in DOMAIN map
  PROVE  Mirrors(Without(map, k), IF InTape(m, k) THEN Put(m, k, v[map[k]]) ELSE m, v, pm)
<1>. DEFINE q == IF InTape(m, k) THEN Put(m, k, v[map[k]]) ELSE m
            h == Without(map, k)
<1>1. k \in Int /\ map[k] \in 0 .. n /\ v[map[k]] \in Cell
  BY DEF MapOK, Values
<1>2. Wrap(v[map[k]]) = v[map[k]]
  BY <1>1, WrapCell
<1>3. q.ptr = m.ptr /\ q.inp = m.inp /\ q.out = m.out /\ q.fault = m.fault
  BY <1>1, PutFields
<1>4. DOMAIN h = DOMAIN map \ {k} /\ \A l \in DOMAIN h : h[l] = map[l]
  BY DEF Without
<1>5. /\ InTape(m, k) => q.tape[m.ptr + k] = v[map[k]]
      /\ \A a \in Window : a # m.ptr + k => q.tape[a] = m.tape[a]
  BY <1>1, <1>2, PutFields
<1>. HIDE DEF q, h
<1>6. ASSUME NEW a \in Window PROVE Seen(h, q, v, a) = Seen(map, m, v, a)
  <2>1. a \in Int /\ m.ptr \in Int
    BY MachineFields
  <2>2. CASE a = m.ptr + k
    <3>1. a - m.ptr = k
      BY <1>1, <2>1, <2>2
    <3>2. InTape(m, k)
      BY <2>2 DEF InTape
    <3>. QED BY <1>3, <1>4, <1>5, <2>2, <3>1, <3>2 DEF Seen
  <2>3. CASE a # m.ptr + k
    <3>1. a - m.ptr # k
      BY <1>1, <2>1, <2>3
    <3>. QED BY <1>3, <1>4, <1>5, <2>3, <3>1 DEF Seen
  <2>. QED BY <2>2, <2>3
<1>7. Mirrors(h, q, v, pm)
  BY <1>3, <1>6 DEF Mirrors
<1>. QED BY <1>7 DEF q, h

\* When the pointer moves and the offsets of the map with it, the function and the
\* interpreter go on seeing the same tape: CompileShift moves nothing in memory.
LEMMA ShiftMirrors ==
  ASSUME NEW n \in Nat, NEW v \in Values(n), NEW map, MapOK(map, n),
         NEW m \in Machine, NEW pm \in Machine, Mirrors(map, m, v, pm),
         NEW arg \in Int
  PROVE  Mirrors(Shifted(map, arg), [m EXCEPT !.ptr = m.ptr + arg], v,
                 [pm EXCEPT !.ptr = pm.ptr + arg])
<1>. DEFINE q == [m EXCEPT !.ptr = m.ptr + arg]
            pq == [pm EXCEPT !.ptr = pm.ptr + arg]
            h == Shifted(map, arg)
<1>1. /\ q.ptr = m.ptr + arg /\ q.tape = m.tape /\ q.inp = m.inp /\ q.out = m.out
      /\ q.fault = m.fault
      /\ pq.ptr = pm.ptr + arg /\ pq.tape = pm.tape /\ pq.inp = pm.inp /\ pq.out = pm.out
      /\ pq.fault = pm.fault
  BY DEF Machine
<1>2. /\ \A k \in Int : k - arg \in DOMAIN h <=> k \in DOMAIN map
      /\ \A k \in DOMAIN map : h[k - arg] = map[k]
  BY ShiftedOK
<1>. HIDE DEF q, pq, h
<1>3. ASSUME NEW a \in Window PROVE Seen(h, q, v, a) = Seen(map, m, v, a)
  <2>1. a \in Int /\ m.ptr \in Int
    BY MachineFields
  <2>2. a - q.ptr = (a - m.ptr) - arg /\ a - m.ptr \in Int
    BY <1>1, <2>1
  <2>. QED BY <1>1, <1>2, <2>2 DEF Seen
<1>4. Mirrors(h, q, v, pq)
  BY <1>1, <1>3 DEF Mirrors
<1>. QED BY <1>4 DEF q, pq, h
-----------------------------------------------------------------------------
\* The opcodes that CompileOpcodeCached compiles.
ValueOps == Operations \ {"BF_SFT"}

\* BF_ADD on values does to the cached cells what Apply does to the tape.
LEMMA AddMirrors ==
  ASSUME NEW n \in Nat, NEW v \in Values(n), NEW map, MapOK(map, n),
         NEW m \in Machine, NEW pm \in Machine, Mirrors(map, m, v, pm),
         NEW o \in Opcode, o.src \in DOMAIN map, o.dst \in DOMAIN map,
         o.op = "BF_ADD", ~Apply(pm, o).fault
  PROVE  Mirrors(map, m, Assigned(v, map[o.dst], v[map[o.src]] + o.arg), Apply(pm, o))
<1>1. o.src \in Int /\ o.dst \in Int /\ o.arg \in Int
  BY DEF Opcode
<1>2. pm.fault = FALSE
  BY DEF Mirrors
<1>3. InTape(pm, o.src) /\ InTape(pm, o.dst)
  BY <1>2 DEF Apply, Needs, Faulted, Machine
<1>4. Apply(pm, o) = Put(pm, o.dst, At(pm, o.src) + o.arg)
  BY <1>2, <1>3 DEF Apply, Needs, Effect
<1>5. v[map[o.src]] = At(pm, o.src)
  BY <1>3, CachedCell
<1>6. At(pm, o.src) + o.arg \in Int
  BY <1>1, <1>3, AtType
<1>. QED BY <1>3, <1>4, <1>5, <1>6, AssignCell

\* So does BF_MUL, also when the source is 0 and Apply writes nothing.
LEMMA MulMirrors ==
  ASSUME NEW n \in Nat, NEW v \in Values(n), NEW map, MapOK(map, n),
         NEW m \in Machine, NEW pm \in Machine, Mirrors(map, m, v, pm),
         NEW o \in Opcode, o.src \in DOMAIN map, o.dst \in DOMAIN map,
         o.op = "BF_MUL", ~Apply(pm, o).fault
  PROVE  Mirrors(map, m, Assigned(v, map[o.dst], v[map[o.dst]] + v[map[o.src]] * o.arg),
                 Apply(pm, o))
<1>1. o.src \in Int /\ o.dst \in Int /\ o.arg \in Int
  BY DEF Opcode
<1>2. pm.fault = FALSE
  BY DEF Mirrors
<1>3. InTape(pm, o.src)
  <2>1. Needs(pm, o) = IF InTape(pm, o.src) /\ At(pm, o.src) = 0 THEN {o.src}
                       ELSE {o.src, o.dst}
    BY DEF Needs
  <2>2. o.src \in Needs(pm, o)
    BY <2>1
  <2>3. Faulted(pm).fault = TRUE
    BY DEF Faulted, Machine
  <2>4. ~InTape(pm, o.src) => Apply(pm, o) = Faulted(pm)
    BY <1>2, <2>2 DEF Apply
  <2>. QED BY <2>3, <2>4
<1>4. v[map[o.src]] = At(pm, o.src) /\ At(pm, o.src) \in Int
  <2>1. v[map[o.src]] = At(pm, o.src)
    BY <1>3, CachedCell
  <2>. QED BY <1>1, <1>3, <2>1, AtType
<1>5. map[o.dst] \in 0 .. n /\ v[map[o.dst]] \in Cell /\ v[map[o.dst]] \in Int
  BY WrapCell DEF MapOK, Values
<1>6. CASE At(pm, o.src) = 0
  <2>1. Apply(pm, o) = pm
    BY <1>2, <1>3, <1>6 DEF Apply, Needs, Effect
  <2>2. v[map[o.dst]] + v[map[o.src]] * o.arg = v[map[o.dst]]
    BY <1>1, <1>4, <1>5, <1>6
  <2>3. Assigned(v, map[o.dst], v[map[o.dst]]) = v
    BY <1>5, WrapCell DEF Assigned, Values
  <2>. QED BY <2>1, <2>2, <2>3
<1>7. CASE At(pm, o.src) # 0
  <2>1. InTape(pm, o.dst)
    BY <1>2, <1>7 DEF Apply, Needs, Faulted, Machine
  <2>2. Apply(pm, o) = Put(pm, o.dst, At(pm, o.dst) + At(pm, o.src) * o.arg)
    BY <1>2, <1>3, <1>7, <2>1 DEF Apply, Needs, Effect
  <2>3. v[map[o.dst]] = At(pm, o.dst)
    BY <2>1, CachedCell
  <2>4. v[map[o.dst]] + v[map[o.src]] * o.arg \in Int
    BY <1>1, <1>4, <1>5
  <2>. QED BY <1>4, <2>1, <2>2, <2>3, <2>4, AssignCell
<1>. QED BY <1>6, <1>7

\* So does BF_SET.
LEMMA SetMirrors ==
  ASSUME NEW n \in Nat, NEW v \in Values(n), NEW map, MapOK(map, n),
         NEW m \in Machine, NEW pm \in Machine, Mirrors(map, m, v, pm),
         NEW o \in Opcode, o.dst \in DOMAIN map,
         o.op = "BF_SET", ~Apply(pm, o).fault
  PROVE  Mirrors(map, m, Assigned(v, map[o.dst], o.arg), Apply(pm, o))
<1>1. o.dst \in Int /\ o.arg \in Int
  BY DEF Opcode
<1>2. pm.fault = FALSE
  BY DEF Mirrors
<1>3. InTape(pm, o.dst)
  BY <1>2 DEF Apply, Needs, Faulted, Machine
<1>4. Apply(pm, o) = Put(pm, o.dst, o.arg)
  BY <1>2, <1>3 DEF Apply, Needs, Effect
<1>. QED BY <1>1, <1>3, <1>4, AssignCell

\* BF_PUT prints the value that caches the cell.
LEMMA PutMirrors ==
  ASSUME NEW n \in Nat, NEW v \in Values(n), NEW map, MapOK(map, n),
         NEW m \in Machine, NEW pm \in Machine, Mirrors(map, m, v, pm),
         NEW o \in Opcode, o.src \in DOMAIN map,
         o.op = "BF_PUT", ~Apply(pm, o).fault
  PROVE  Mirrors(map, [m EXCEPT !.out = Append(m.out, v[map[o.src]])], v, Apply(pm, o))
<1>1. pm.fault = FALSE /\ m.out = pm.out
  BY DEF Mirrors
<1>2. InTape(pm, o.src)
  BY <1>1 DEF Apply, Needs, Faulted, Machine
<1>3. Apply(pm, o) = [pm EXCEPT !.out = Append(pm.out, At(pm, o.src))]
  BY <1>1, <1>2 DEF Apply, Needs, Effect
<1>4. v[map[o.src]] = At(pm, o.src)
  BY <1>2, CachedCell
<1>. DEFINE q == [m EXCEPT !.out = Append(m.out, v[map[o.src]])]
            pq == Apply(pm, o)
<1>5. /\ q.ptr = m.ptr /\ q.tape = m.tape /\ q.inp = m.inp /\ q.fault = m.fault
      /\ q.out = Append(m.out, v[map[o.src]])
      /\ pq.ptr = pm.ptr /\ pq.tape = pm.tape /\ pq.inp = pm.inp /\ pq.fault = pm.fault
      /\ pq.out = Append(pm.out, At(pm, o.src))
  BY <1>3 DEF Machine
<1>. HIDE DEF q, pq
<1>6. Mirrors(map, q, v, pq)
  BY <1>1, <1>4, <1>5 DEF Mirrors, Seen
<1>. QED BY <1>6 DEF q, pq

\* BF_GET leaves what was read, or EOF, in the value that caches the cell.
LEMMA GetMirrors ==
  ASSUME NEW n \in Nat, NEW v \in Values(n), NEW map, MapOK(map, n),
         NEW m \in Machine, NEW pm \in Machine, Mirrors(map, m, v, pm),
         NEW o \in Opcode, o.dst \in DOMAIN map,
         o.op = "BF_GET", ~Apply(pm, o).fault
  PROVE  Mirrors(map, IF m.inp = << >> THEN m ELSE [m EXCEPT !.inp = Tail(m.inp)],
                 Assigned(v, map[o.dst], IF m.inp = << >> THEN EOF ELSE Head(m.inp)),
                 Apply(pm, o))
<1>1. pm.fault = FALSE /\ m.inp = pm.inp
  BY DEF Mirrors
<1>2. InTape(pm, o.dst)
  BY <1>1 DEF Apply, Needs, Faulted, Machine
<1>3. Apply(pm, o) = IF pm.inp = << >> THEN Put(pm, o.dst, EOF)
                     ELSE [Put(pm, o.dst, Head(pm.inp)) EXCEPT !.inp = Tail(pm.inp)]
  BY <1>1, <1>2 DEF Apply, Needs, Effect
<1>4. CASE m.inp = << >>
  <2>1. EOF \in Int
    BY WrapType DEF EOF
  <2>. QED BY <1>1, <1>2, <1>3, <1>4, <2>1, AssignCell
<1>5. CASE m.inp # << >>
  <2>1. Head(m.inp) \in Cell
    BY <1>5, HeadTailProperties DEF Machine
  <2>2. Head(m.inp) \in Int
    BY <2>1, WrapCell
  <2>. DEFINE w == Assigned(v, map[o.dst], Head(m.inp))
              q == [m EXCEPT !.inp = Tail(m.inp)]
              pq == Put(pm, o.dst, Head(m.inp))
              pr == [pq EXCEPT !.inp = Tail(m.inp)]
  <2>3. Mirrors(map, m, w, pq)
    BY <1>2, <2>2, AssignCell
  <2>4. pq \in Machine
    BY <2>2, PutType DEF Opcode
  <2>5. Apply(pm, o) = pr
    BY <1>1, <1>3, <1>5
  <2>6. /\ q.ptr = m.ptr /\ q.tape = m.tape /\ q.out = m.out /\ q.fault = m.fault
        /\ q.inp = Tail(m.inp)
    BY DEF Machine
  <2>. HIDE DEF w, pq
  <2>7. /\ pr.ptr = pq.ptr /\ pr.tape = pq.tape /\ pr.out = pq.out /\ pr.fault = pq.fault
        /\ pr.inp = Tail(m.inp)
    BY <2>4 DEF Machine
  <2>. HIDE DEF q, pr
  <2>8. Mirrors(map, q, w, pr)
    BY <2>3, <2>6, <2>7 DEF Mirrors, Seen
  <2>. QED BY <1>5, <2>5, <2>8 DEF w, q
<1>. QED BY <1>4, <1>5
-----------------------------------------------------------------------------
(***************************************************************************)
(* A note says what holds before an instruction: the opcode that is        *)
(* compiled there, and the map.  Takes says that an instruction leads from *)
(* one note to the next.                                                   *)
(***************************************************************************)
Note(op, map) == [op |-> op, map |-> map]

\* An instruction assigns to a value that caches nothing.
Spare(i, a) == i.dst # 0 /\ \A k \in DOMAIN a.map : a.map[k] # i.dst

\* The instruction i leads from note a to note b: it executes the opcode of a, or
\* only prepares it, and leaves the map as the generator had it in b.
Takes(i, a, b) ==
  \/ i.insn = "LABEL" /\ b = a
  \/ /\ i.insn = "LOAD" /\ a.op \in DOMAIN flat /\ Spare(i, a)
     /\ \/ b = a
        \/ i.arg \notin DOMAIN a.map /\ b = Note(a.op, Caching(a.map, i.arg, i.dst))
  \/ /\ i.insn = "STORE" /\ i.arg \in DOMAIN a.map /\ i.src = a.map[i.arg]
     /\ b = Note(a.op, Without(a.map, i.arg))
  \/ i.insn = "MOVE" /\ a.op \in DOMAIN flat /\ Spare(i, a) /\ b = a
  \/ /\ a.op \in DOMAIN flat /\ flat[a.op].op \in ValueOps
     /\ flat[a.op].src \in DOMAIN a.map /\ flat[a.op].dst \in DOMAIN a.map
     /\ i = OnValues(flat[a.op], a.map) /\ b = Note(a.op + 1, a.map)
  \/ /\ i.insn = "SHIFT" /\ a.op \in DOMAIN flat /\ flat[a.op].op = "BF_SFT"
     /\ i.arg = flat[a.op].arg /\ b = Note(a.op + 1, Shifted(a.map, i.arg))
  \/ /\ i.insn = "BRZ" /\ a.op \in DOMAIN flat /\ flat[a.op].op = "LOOP"
     /\ 0 \in DOMAIN a.map /\ i.src = a.map[0] /\ b = Note(a.op + 1, a.map)
  \/ /\ i.insn = "BR" /\ a.op \in DOMAIN flat /\ flat[a.op].op = "END"

\* Opcodes that only touch the machine.
LEMMA FlatOpcode ==
  ASSUME NEW o \in FlatOp, o.op \in Operations
  PROVE  o \in Opcode
BY DEF FlatOp, Opcode, Operations, OpcodeType

\* Instructions that execute no opcode.
Prepares == {"LABEL", "LOAD", "STORE", "MOVE"}

\* The instruction of each opcode.
LEMMA OnValuesType ==
  ASSUME NEW o, o.op \in ValueOps, NEW map
  PROVE  /\ o.op = "BF_ADD" => OnValues(o, map) = Insn("ADD", map[o.dst], map[o.src], o.arg)
         /\ o.op = "BF_MUL" => OnValues(o, map) = Insn("MUL", map[o.dst], map[o.src], o.arg)
         /\ o.op = "BF_PUT" => OnValues(o, map) = Insn("PUT", 0, map[o.src], 0)
         /\ o.op = "BF_GET" => OnValues(o, map) = Insn("GET", map[o.dst], 0, 0)
         /\ o.op = "BF_SET" => OnValues(o, map) = Insn("SET", map[o.dst], 0, o.arg)
         /\ OnValues(o, map).insn \in {"ADD", "MUL", "PUT", "GET", "SET"}
BY DEF OnValues, ValueOps, Operations, Insn

\* An instruction that only prepares an opcode is invisible.
LEMMA PreparesMirrors ==
  ASSUME NEW n \in Nat, NEW v \in Values(n), NEW a, NEW b, MapOK(a.map, n),
         NEW m \in Machine, NEW pm \in Machine, Mirrors(a.map, m, v, pm),
         NEW i \in InsnSet(n), i.insn \in Prepares, Takes(i, a, b)
  PROVE  b.op = a.op /\ Mirrors(b.map, Does(i, m, v).m, Does(i, m, v).v, pm)
<1>0. DoesAs(i, m, v)
  BY DoesEach
<1>1. /\ i.dst \in 0 .. n /\ i.src \in 0 .. n /\ i.arg \in Int
      /\ v[i.src] \in Int
  <2>1. v[i.src] \in Cell
    BY DEF InsnSet, Values
  <2>. QED BY <2>1, WrapCell DEF InsnSet
<1>2. CASE i.insn = "LABEL"
  BY <1>0, <1>2, OnValuesType DEF DoesAs, Takes
<1>3. CASE i.insn = "LOAD"
  <2>1. /\ Spare(i, a)
        /\ \/ b = a
           \/ i.arg \notin DOMAIN a.map /\ b = Note(a.op, Caching(a.map, i.arg, i.dst))
    BY <1>3, OnValuesType DEF Takes
  <2>2. i.dst \in 1 .. n
    BY <1>1, <2>1 DEF Spare
  <2>3. Does(i, m, v).m = m /\ Does(i, m, v).v = Assigned(v, i.dst, FromTape(m, v, i.arg))
    BY <1>0, <1>3 DEF DoesAs, FromTape
  <2>. QED BY <1>1, <2>1, <2>2, <2>3, LoadMirrors DEF Spare, Note
<1>4. CASE i.insn = "STORE"
  <2>1. /\ i.arg \in DOMAIN a.map /\ i.src = a.map[i.arg]
        /\ b = Note(a.op, Without(a.map, i.arg))
    BY <1>4, OnValuesType DEF Takes
  <2>. QED BY <1>0, <1>4, <2>1, StoreMirrors DEF DoesAs, Note
<1>5. CASE i.insn = "MOVE"
  <2>1. Spare(i, a) /\ b = a
    BY <1>5, OnValuesType DEF Takes
  <2>2. i.dst \in 1 .. n
    BY <1>1, <2>1 DEF Spare
  <2>. QED BY <1>0, <1>1, <1>5, <2>1, <2>2, AssignOther DEF DoesAs, Spare
<1>. QED BY <1>2, <1>3, <1>4, <1>5 DEF Prepares

\* An instruction that executes an opcode does on the values and the map what the
\* opcode does on the tape.
LEMMA EffectiveMirrors ==
  ASSUME NEW n \in Nat, NEW v \in Values(n), NEW a, NEW b, MapOK(a.map, n),
         NEW m \in Machine, NEW pm \in Machine, Mirrors(a.map, m, v, pm),
         NEW i \in InsnSet(n), i.insn \in Effective \ {"BRZ", "BR"}, Takes(i, a, b),
         flat \in Seq(FlatOp), ~Apply(pm, flat[a.op]).fault
  PROVE  /\ b.op = a.op + 1 /\ a.op \in DOMAIN flat /\ flat[a.op].op \in Operations
         /\ Mirrors(b.map, Does(i, m, v).m, Does(i, m, v).v, Apply(pm, flat[a.op]))
<1>. DEFINE o == flat[a.op]
<1>0. DoesAs(i, m, v)
  BY DoesEach
<1>1. CASE i.insn = "SHIFT"
  <2>1. /\ a.op \in DOMAIN flat /\ o.op = "BF_SFT"
        /\ i.arg = o.arg /\ b = Note(a.op + 1, Shifted(a.map, i.arg))
    BY <1>1, OnValuesType DEF Takes
  <2>2. o \in FlatOp /\ o.op \in Operations /\ o.arg \in Int
    <3>1. o \in FlatOp
      BY <2>1
    <3>. QED BY <2>1, <3>1 DEF Operations, FlatOp
  <2>3. Apply(pm, o) = [pm EXCEPT !.ptr = pm.ptr + o.arg]
    BY <2>1 DEF Apply, Needs, Effect, Mirrors
  <2>. QED BY <1>0, <1>1, <2>1, <2>2, <2>3, ShiftMirrors DEF DoesAs, Note
<1>2. CASE i.insn # "SHIFT"
  <2>1. /\ a.op \in DOMAIN flat /\ o.op \in ValueOps
        /\ o.src \in DOMAIN a.map /\ o.dst \in DOMAIN a.map
        /\ i = OnValues(o, a.map) /\ b = Note(a.op + 1, a.map)
    BY <1>2 DEF Takes, Effective
  <2>2. o \in Opcode /\ o.op \in Operations
    BY <2>1, FlatOpcode DEF ValueOps
  <2>. HIDE DEF o
  <2>3. CASE o.op = "BF_ADD"
    <3>1. i.insn = "ADD" /\ i.dst = a.map[o.dst] /\ i.src = a.map[o.src] /\ i.arg = o.arg
      BY <2>1, <2>3, OnValuesType DEF Insn
    <3>. QED BY <1>0, <2>1, <2>2, <2>3, <3>1, AddMirrors DEF DoesAs, Note, o
  <2>4. CASE o.op = "BF_MUL"
    <3>1. i.insn = "MUL" /\ i.dst = a.map[o.dst] /\ i.src = a.map[o.src] /\ i.arg = o.arg
      BY <2>1, <2>4, OnValuesType DEF Insn
    <3>. QED BY <1>0, <2>1, <2>2, <2>4, <3>1, MulMirrors DEF DoesAs, Note, o
  <2>5. CASE o.op = "BF_SET"
    <3>1. i.insn = "SET" /\ i.dst = a.map[o.dst] /\ i.arg = o.arg
      BY <2>1, <2>5, OnValuesType DEF Insn
    <3>. QED BY <1>0, <2>1, <2>2, <2>5, <3>1, SetMirrors DEF DoesAs, Note, o
  <2>6. CASE o.op = "BF_PUT"
    <3>1. i.insn = "PUT" /\ i.src = a.map[o.src]
      BY <2>1, <2>6, OnValuesType DEF Insn
    <3>. QED BY <1>0, <2>1, <2>2, <2>6, <3>1, PutMirrors, SMTT(30) DEF DoesAs, Note, o
  <2>7. CASE o.op = "BF_GET"
    <3>1. i.insn = "GET" /\ i.dst = a.map[o.dst]
      BY <2>1, <2>7, OnValuesType DEF Insn
    <3>2. Does(i, m, v).v
            = Assigned(v, a.map[o.dst], IF m.inp = << >> THEN EOF ELSE Head(m.inp))
      BY <1>0, <3>1 DEF DoesAs
    <3>3. Does(i, m, v).m = IF m.inp = << >> THEN m ELSE [m EXCEPT !.inp = Tail(m.inp)]
      BY <1>0, <3>1 DEF DoesAs
    <3>4. Mirrors(a.map, IF m.inp = << >> THEN m ELSE [m EXCEPT !.inp = Tail(m.inp)],
                  Assigned(v, a.map[o.dst], IF m.inp = << >> THEN EOF ELSE Head(m.inp)),
                  Apply(pm, o))
      BY <2>1, <2>2, <2>7, GetMirrors DEF o
    <3>. QED BY <2>1, <2>2, <3>2, <3>3, <3>4 DEF Note, o
  <2>. QED BY <2>1, <2>3, <2>4, <2>5, <2>6, <2>7 DEF ValueOps, Operations
<1>. QED BY <1>1, <1>2
-----------------------------------------------------------------------------
\* f lists the elements of S, each once: an order in which the loops over
\* temporary_values may visit them.
IsOrder(f, S) ==
  /\ f \in Seq(S)
  /\ \A i, j \in DOMAIN f : i # j => f[i] # f[j]
  /\ \A x \in S : \E i \in DOMAIN f : f[i] = x

\* A sequence as long as S that repeats nothing lists all of S.
LEMMA InjectiveIsOrder ==
  ASSUME NEW S, IsFiniteSet(S), NEW f \in [1 .. Cardinality(S) -> S],
         \A i, j \in 1 .. Cardinality(S) : i # j => f[i] # f[j]
  PROVE  IsOrder(f, S)
<1>1. Cardinality(S) \in Nat
  BY FS_CardinalityType
<1>2. f \in Injection(1 .. Cardinality(S), S)
  BY DEF Injection, IsInjective
<1>3. Cardinality(1 .. Cardinality(S)) = Cardinality(S)
  BY <1>1, FS_Interval
<1>4. f \in Surjection(1 .. Cardinality(S), S)
  BY <1>2, <1>3, FS_Injection
<1>5. \A x \in S : \E i \in DOMAIN f : f[i] = x
  BY <1>4 DEF Surjection
<1>6. f \in Seq(S)
  BY <1>1, SeqDef
<1>. QED BY <1>5, <1>6 DEF IsOrder

\* SetToSeqs and SetToSeq yield nothing but such orders.
LEMMA OrdersOf ==
  ASSUME NEW S, IsFiniteSet(S)
  PROVE  /\ \A f \in SetToSeqs(S) : IsOrder(f, S)
         /\ IsOrder(SetToSeq(S), S)
<1>1. ASSUME NEW f \in SetToSeqs(S) PROVE IsOrder(f, S)
  BY InjectiveIsOrder DEF SetToSeqs
<1>2. \E f \in [1 .. Cardinality(S) -> S] : IsInjective(f)
  BY FS_CardinalityType DEF ExistsBijection, Bijection, Injection
<1>3. /\ SetToSeq(S) \in [1 .. Cardinality(S) -> S]
      /\ IsInjective(SetToSeq(S))
  BY <1>2 DEF SetToSeq
<1>4. IsOrder(SetToSeq(S), S)
  BY <1>3, InjectiveIsOrder DEF IsInjective
<1>. QED BY <1>1, <1>4

-----------------------------------------------------------------------------
\* Instructions with a label, and the labels that have been placed.
Marks == {"LABEL", "BR", "BRZ"}

Marked(c, l) == \E q \in DOMAIN c : c[q].insn = "LABEL" /\ c[q].arg = l

\* Labels of open loops grow with the depth; every jump leads to a label that has
\* been placed or to the end of a loop that is still open.
LabelsOK(c, loops, count) ==
  /\ \A k \in DOMAIN loops : loops[k].end = loops[k].start + 1
  /\ \A k, l \in DOMAIN loops : k < l => loops[k].end < loops[l].start
  /\ \A p \in DOMAIN c : c[p].insn \in Marks => c[p].arg < count
  /\ \A p \in DOMAIN c : c[p].insn = "BR" => Marked(c, c[p].arg)
  /\ \A p \in DOMAIN c : c[p].insn = "BRZ" =>
       Marked(c, c[p].arg) \/ \E k \in DOMAIN loops : loops[k].end = c[p].arg
  /\ \A k \in DOMAIN loops : Marked(c, loops[k].start)

\* The open loops are the loops of the tree around the position reached.
Nested(opened, here) ==
  /\ \A k \in DOMAIN opened :
       /\ opened[k].op \in Opens(flat) /\ opened[k].op < here
       /\ here <= EndOf(flat, opened[k].op)
  /\ \A k, l \in DOMAIN opened : k < l => opened[k].op < opened[l].op
  /\ \A i \in Opens(flat) :
       i < here /\ here <= EndOf(flat, i) => \E k \in DOMAIN opened : opened[k].op = i

\* Code that was extended by instructions that are no labels and no jumps.
Quiet(c, d) ==
  /\ DOMAIN c \subseteq DOMAIN d
  /\ \A p \in DOMAIN c : d[p] = c[p]
  /\ \A p \in DOMAIN d \ DOMAIN c : d[p].insn \notin Marks

\* Code without labels and jumps does not disturb them.
LEMMA QuietLabels ==
  ASSUME NEW c, NEW d, NEW loops, NEW count, LabelsOK(c, loops, count), Quiet(c, d)
  PROVE  LabelsOK(d, loops, count)
<1>1. \A l : Marked(c, l) => Marked(d, l)
  BY DEF Marked, Quiet
<1>2. \A p \in DOMAIN d : d[p].insn \in Marks => p \in DOMAIN c /\ d[p] = c[p]
  BY DEF Quiet
<1>3. \A p \in DOMAIN d : d[p].insn \in Marks => d[p].arg < count
  BY <1>2 DEF LabelsOK
<1>4. \A p \in DOMAIN d : d[p].insn = "BR" => Marked(d, d[p].arg)
  BY <1>1, <1>2 DEF LabelsOK, Marks
<1>5. \A p \in DOMAIN d : d[p].insn = "BRZ" =>
        Marked(d, d[p].arg) \/ \E k \in DOMAIN loops : loops[k].end = d[p].arg
  BY <1>1, <1>2 DEF LabelsOK, Marks
<1>6. \A k \in DOMAIN loops : Marked(d, loops[k].start)
  BY <1>1 DEF LabelsOK
<1>. QED BY <1>3, <1>4, <1>5, <1>6 DEF LabelsOK

\* Two quiet pieces of code are one.
LEMMA QuietTrans ==
  ASSUME NEW c, NEW d, NEW e, Quiet(c, d), Quiet(d, e)
  PROVE  Quiet(c, e)
BY DEF Quiet

\* Maps from offsets to values.
Maps == UNION {[D -> Nat] : D \in SUBSET Int}

\* A function on offsets is one.
LEMMA InMaps ==
  ASSUME NEW D \in SUBSET Int, NEW map \in [D -> Nat]
  PROVE  map \in Maps
BY DEF Maps

\* The generator starts with the empty one.
LEMMA EmptyMap == << >> \in Maps /\ DOMAIN << >> = {}
<1>1. DOMAIN << >> = {}
  OBVIOUS
<1>2. << >> \in [{} -> Nat]
  OBVIOUS
<1>. QED BY <1>1, <1>2, InMaps

\* What a map is.
LEMMA OfMaps ==
  ASSUME NEW map \in Maps
  PROVE  DOMAIN map \subseteq Int /\ map \in [DOMAIN map -> Nat]
BY DEF Maps

\* The part of the type invariant about the code and the map, for any generator
\* record that CompileOpcode passes on.
GenOK(g) ==
  /\ g = [map |-> g.map, values |-> g.values, code |-> g.code]
  /\ g.values \in Nat
  /\ MapOK(g.map, g.values) /\ g.map \in Maps /\ IsFiniteSet(DOMAIN g.map)
  /\ g.code \in Seq(InsnSet(g.values))

\* Appended instructions leave those before them where they were.
LEMMA CodeGrows ==
  ASSUME NEW n \in Nat, NEW r \in Nat, n <= r,
         NEW c \in Seq(InsnSet(n)), NEW d \in Seq(InsnSet(r))
  PROVE  /\ c \o d \in Seq(InsnSet(r))
         /\ Len(c \o d) = Len(c) + Len(d) /\ Len(c) \in Nat /\ Len(d) \in Nat
         /\ DOMAIN c = 1 .. Len(c) /\ DOMAIN d = 1 .. Len(d)
         /\ DOMAIN (c \o d) = 1 .. Len(c) + Len(d)
         /\ \A p \in 1 .. Len(c) : (c \o d)[p] = c[p]
         /\ \A p \in 1 .. Len(d) : (c \o d)[Len(c) + p] = d[p]
<1>1. InsnSet(n) \subseteq InsnSet(r)
  BY DEF InsnSet
<1>2. c \in Seq(InsnSet(r))
  BY <1>1, SeqMonotonic
<1>3. c \o d \in Seq(InsnSet(r)) /\ Len(c \o d) = Len(c) + Len(d)
  BY <1>2, ConcatProperties
<1>4. Len(c) \in Nat /\ Len(d) \in Nat /\ DOMAIN c = 1 .. Len(c) /\ DOMAIN d = 1 .. Len(d)
  BY LenProperties
<1>5. \A p \in 1 .. Len(c) + Len(d) :
        (c \o d)[p] = IF p <= Len(c) THEN c[p] ELSE d[p - Len(c)]
  BY <1>2, ConcatProperties
<1>6. \A p \in 1 .. Len(d) : (c \o d)[Len(c) + p] = d[p]
  <2>. TAKE p \in 1 .. Len(d)
  <2>1. Len(c) + p \in 1 .. Len(c) + Len(d) /\ ~(Len(c) + p <= Len(c)) /\ (Len(c) + p) - Len(c) = p
    BY <1>4
  <2>. QED BY <1>5, <2>1
<1>7. DOMAIN (c \o d) = 1 .. Len(c) + Len(d)
  BY <1>3, LenProperties
<1>. QED BY <1>3, <1>4, <1>5, <1>6, <1>7

\* The same, under a name.
Grown(S, c, d) ==
  /\ c \o d \in Seq(S)
  /\ Len(c \o d) = Len(c) + Len(d) /\ Len(c) \in Nat /\ Len(d) \in Nat
  /\ DOMAIN c = 1 .. Len(c) /\ DOMAIN d = 1 .. Len(d)
  /\ DOMAIN (c \o d) = 1 .. Len(c) + Len(d)
  /\ \A p \in 1 .. Len(c) : (c \o d)[p] = c[p]
  /\ \A p \in 1 .. Len(d) : (c \o d)[Len(c) + p] = d[p]

\* See CodeGrows.
LEMMA CodeGrown ==
  ASSUME NEW n \in Nat, NEW r \in Nat, n <= r,
         NEW c \in Seq(InsnSet(n)), NEW d \in Seq(InsnSet(r))
  PROVE  Grown(InsnSet(r), c, d)
BY CodeGrows DEF Grown

\* Appending instructions without labels is quiet.
LEMMA QuietGrows ==
  ASSUME NEW n \in Nat, NEW r \in Nat, n <= r,
         NEW c \in Seq(InsnSet(n)), NEW d \in Seq(InsnSet(r)),
         \A p \in DOMAIN d : d[p].insn \notin Marks
  PROVE  Quiet(c, c \o d)
<1>1. \A p \in DOMAIN (c \o d) \ DOMAIN c : p - Len(c) \in DOMAIN d /\ p = Len(c) + (p - Len(c))
  BY CodeGrows
<1>. QED BY <1>1, CodeGrows DEF Quiet
-----------------------------------------------------------------------------
\* One instruction, as code.
LEMMA OneInsn ==
  ASSUME NEW S, NEW i \in S
  PROVE  /\ << i >> \in Seq(S) /\ Len(<< i >>) = 1 /\ DOMAIN << i >> = 1 .. 1
         /\ << i >>[1] = i
OBVIOUS

\* Two instructions, as code.
LEMMA TwoInsns ==
  ASSUME NEW S, NEW i \in S, NEW j \in S
  PROVE  /\ << i, j >> \in Seq(S) /\ Len(<< i, j >>) = 2 /\ DOMAIN << i, j >> = 1 .. 2
         /\ << i, j >>[1] = i /\ << i, j >>[2] = j
OBVIOUS

\* Two instructions appended at once are appended one after the other.
LEMMA OneByOne ==
  ASSUME NEW S, NEW i \in S, NEW j \in S
  PROVE  << i, j >> = << i >> \o << j >>
<1>. DEFINE x == << i >>
            y == << j >>
            d == << i, j >>
<1>1. /\ x \in Seq(S) /\ Len(x) = 1 /\ x[1] = i
      /\ y \in Seq(S) /\ Len(y) = 1 /\ y[1] = j
      /\ d \in Seq(S) /\ Len(d) = 2 /\ d[1] = i /\ d[2] = j
  BY OneInsn, TwoInsns
<1>. HIDE DEF x, y, d
<1>2. /\ x \o y \in Seq(S) /\ Len(x \o y) = 2
      /\ (x \o y)[1] = i /\ (x \o y)[2] = j
  <2>1. /\ x \o y \in Seq(S) /\ Len(x \o y) = 2
        /\ \A p \in 1 .. 2 : (x \o y)[p] = IF p <= 1 THEN x[p] ELSE y[p - 1]
    BY <1>1, ConcatProperties
  <2>. QED BY <1>1, <2>1
<1>3. \A p \in 1 .. 2 : p = 1 \/ p = 2
  OBVIOUS
<1>4. d = x \o y
  BY <1>1, <1>2, <1>3, SeqEqual
<1>. QED BY <1>4 DEF d, x, y

\* A map stays one when values are added.
LEMMA MapGrows ==
  ASSUME NEW n \in Nat, NEW r \in Nat, n <= r, NEW map, MapOK(map, n)
  PROVE  MapOK(map, r)
BY DEF MapOK

\* What Insn makes is an instruction.
LEMMA InsnIn ==
  ASSUME NEW n \in Nat, NEW kind \in InsnKinds, NEW dst \in 0 .. n, NEW src \in 0 .. n,
         NEW arg \in Int
  PROVE  /\ Insn(kind, dst, src, arg) \in InsnSet(n)
         /\ Insn(kind, dst, src, arg).insn = kind /\ Insn(kind, dst, src, arg).dst = dst
         /\ Insn(kind, dst, src, arg).src = src /\ Insn(kind, dst, src, arg).arg = arg
BY DEF Insn, InsnSet

\* What loading a cell into a value makes of the generator.
Loads(g, h, k) ==
  \/ k \in DOMAIN g.map /\ h = g
  \/ /\ k \notin DOMAIN g.map
     /\ h = [map    |-> Caching(g.map, k, g.values + 1),
             values |-> g.values + 1,
             code   |-> g.code \o << Insn("LOAD", g.values + 1, 0, k) >>]

\* LoadCached: the cell is cached afterwards, in a fresh value if it was not, and
\* what was cached still is.
LEMMA LoadGen ==
  ASSUME NEW g, GenOK(g), NEW k \in Int
  PROVE  /\ Loads(g, LoadCached(g, k), k)
         /\ GenOK(LoadCached(g, k))
         /\ g.values <= LoadCached(g, k).values
         /\ Quiet(g.code, LoadCached(g, k).code)
         /\ DOMAIN LoadCached(g, k).map = DOMAIN g.map \cup {k}
<1>. DEFINE h == LoadCached(g, k)
<1>1. Loads(g, h, k)
  BY DEF Loads, LoadCached
<1>. HIDE DEF h
<1>2. /\ g.values \in Nat /\ MapOK(g.map, g.values) /\ g.map \in Maps
      /\ IsFiniteSet(DOMAIN g.map) /\ g.code \in Seq(InsnSet(g.values))
  BY DEF GenOK
<1>3. CASE k \in DOMAIN g.map
  <2>1. h = g /\ DOMAIN g.map = DOMAIN g.map \cup {k}
    BY <1>1, <1>3 DEF Loads
  <2>. QED BY <1>1, <1>2, <2>1 DEF h, GenOK, Quiet
<1>4. CASE k \notin DOMAIN g.map
  <2>1. /\ h.map = Caching(g.map, k, g.values + 1) /\ h.values = g.values + 1
        /\ h.code = g.code \o << Insn("LOAD", g.values + 1, 0, k) >>
        /\ h = [map |-> h.map, values |-> h.values, code |-> h.code]
    BY <1>1, <1>4 DEF Loads
  <2>2. h.values \in Nat /\ g.values <= h.values /\ g.values + 1 \in 1 .. h.values
    BY <1>2, <2>1
  <2>3. MapOK(g.map, h.values) /\ \A l \in DOMAIN g.map : g.map[l] # g.values + 1
    <3>1. \A l \in DOMAIN g.map : g.map[l] \in 1 .. g.values
      BY <1>2 DEF MapOK
    <3>2. \A l \in DOMAIN g.map : g.map[l] # g.values + 1
      BY <1>2, <3>1
    <3>. QED BY <1>2, <2>2, <3>2, MapGrows
  <2>4. MapOK(h.map, h.values) /\ DOMAIN h.map = DOMAIN g.map \cup {k}
    <3>1. MapOK(Caching(g.map, k, g.values + 1), h.values)
      BY <2>2, <2>3, CachingOK
    <3>. QED BY <2>1, <3>1 DEF Caching
  <2>5. h.map \in Maps
    <3>1. DOMAIN h.map \subseteq Int /\ \A l \in DOMAIN h.map : h.map[l] \in Nat
      BY <2>2, <2>4 DEF MapOK
    <3>2. h.map = [l \in DOMAIN h.map |-> h.map[l]]
      BY <2>1 DEF Caching
    <3>. QED BY <3>1, <3>2, InMaps
  <2>6. IsFiniteSet(DOMAIN h.map)
    BY <1>2, <2>4, FS_AddElement
  <2>. DEFINE i == Insn("LOAD", g.values + 1, 0, k)
  <2>7. i \in InsnSet(h.values) /\ i.insn = "LOAD"
    BY <2>2, InsnIn DEF InsnKinds
  <2>. HIDE DEF i
  <2>8. << i >> \in Seq(InsnSet(h.values)) /\ DOMAIN << i >> = 1 .. 1 /\ << i >>[1] = i
    BY <2>7, OneInsn
  <2>9. h.code \in Seq(InsnSet(h.values))
    <3>1. g.code \o << i >> \in Seq(InsnSet(h.values))
      BY <1>2, <2>2, <2>8, CodeGrows
    <3>. QED BY <2>1, <3>1 DEF i
  <2>10. Quiet(g.code, g.code \o << i >>)
    <3>1. \A p \in DOMAIN << i >> : << i >>[p].insn \notin Marks
      BY <2>7, <2>8 DEF Marks
    <3>. QED BY <1>2, <2>2, <2>8, <3>1, QuietGrows
  <2>11. GenOK(h)
    BY <2>1, <2>2, <2>4, <2>5, <2>6, <2>9 DEF GenOK
  <2>. QED BY <1>1, <2>1, <2>2, <2>4, <2>10, <2>11 DEF h, i
<1>. QED BY <1>3, <1>4

\* Emitting instructions changes only the code.
LEMMA EmitGen ==
  ASSUME NEW g, GenOK(g), NEW d \in Seq(InsnSet(g.values))
  PROVE  /\ GenOK(Emit(g, d)) /\ Emit(g, d).map = g.map /\ Emit(g, d).values = g.values
         /\ Emit(g, d).code = g.code \o d
         /\ (\A p \in DOMAIN d : d[p].insn \notin Marks) => Quiet(g.code, Emit(g, d).code)
<1>1. /\ g.values \in Nat /\ MapOK(g.map, g.values) /\ g.map \in Maps
      /\ IsFiniteSet(DOMAIN g.map) /\ g.code \in Seq(InsnSet(g.values))
      /\ g = [map |-> g.map, values |-> g.values, code |-> g.code]
  BY DEF GenOK
<1>2. Emit(g, d) = [map |-> g.map, values |-> g.values, code |-> g.code \o d]
  <2>. DEFINE e == g.code \o d
  <2>1. Emit(g, d) = [g EXCEPT !.code = e]
    BY DEF Emit
  <2>. HIDE DEF e
  <2>2. \A map, n, c : [[map |-> map, values |-> n, code |-> c] EXCEPT !.code = e]
                      = [map |-> map, values |-> n, code |-> e]
    OBVIOUS
  <2>3. [g EXCEPT !.code = e] = [map |-> g.map, values |-> g.values, code |-> e]
    BY <1>1, <2>2
  <2>. QED BY <2>1, <2>3 DEF e
<1>3. g.code \o d \in Seq(InsnSet(g.values))
  BY <1>1, CodeGrows
<1>4. GenOK(Emit(g, d))
  BY <1>1, <1>2, <1>3 DEF GenOK
<1>5. ASSUME \A p \in DOMAIN d : d[p].insn \notin Marks PROVE Quiet(g.code, g.code \o d)
  BY <1>1, <1>5, QuietGrows
<1>. QED BY <1>2, <1>4, <1>5

\* The code of a tree: each LOOP and its END lead to each other, and loops do not
\* cross.
LEMMA TreeCode ==
  ASSUME NEW ops, IsTreeCode(ops)
  PROVE  /\ ops \in Seq(FlatOp) /\ Len(ops) \in Nat /\ DOMAIN ops = 1 .. Len(ops)
         /\ \A i \in DOMAIN ops : ops[i] \in FlatOp /\ ops[i].arg \in Int
         /\ \A i \in Opens(ops) :
              /\ i \in 1 .. Len(ops) /\ EndOf(ops, i) \in 1 .. Len(ops) /\ i < EndOf(ops, i)
              /\ ops[i].op = "LOOP" /\ ops[EndOf(ops, i)].op = "END"
              /\ EndOf(ops, i) + ops[EndOf(ops, i)].arg = i
              /\ i + ops[i].arg = EndOf(ops, i) + 1
         /\ \A j \in Closes(ops) : \E i \in Opens(ops) : EndOf(ops, i) = j
         /\ \A i, j \in Opens(ops) :
              i < j => EndOf(ops, j) < EndOf(ops, i) \/ EndOf(ops, i) < j
<1>1. /\ ops \in Seq(FlatOp)
      /\ \A i \in Opens(ops) : i < EndOf(ops, i)
      /\ {EndOf(ops, i) : i \in Opens(ops)} = Closes(ops)
      /\ \A i, j \in Opens(ops) :
           i < j => EndOf(ops, j) < EndOf(ops, i) \/ EndOf(ops, i) < j
      /\ \A i \in Opens(ops) : EndOf(ops, i) + ops[EndOf(ops, i)].arg = i
  BY DEF IsTreeCode
<1>2. Len(ops) \in Nat /\ DOMAIN ops = 1 .. Len(ops)
  BY <1>1, LenProperties
<1>3. \A i \in DOMAIN ops : ops[i] \in FlatOp /\ ops[i].arg \in Int
  <2>1. \A i \in DOMAIN ops : ops[i] \in FlatOp
    BY <1>1, <1>2, ElementOfSeq
  <2>. QED BY <2>1 DEF FlatOp
<1>4. \A i \in Opens(ops) : EndOf(ops, i) \in Closes(ops)
  BY <1>1
<1>5. \A i \in Opens(ops) : i \in 1 .. Len(ops) /\ ops[i].op = "LOOP"
  BY <1>2 DEF Opens
<1>6. \A j \in Closes(ops) : j \in 1 .. Len(ops) /\ ops[j].op = "END"
  BY <1>2 DEF Closes
<1>7. \A j \in Closes(ops) : \E i \in Opens(ops) : EndOf(ops, i) = j
  BY <1>1
<1>8. \A i \in Opens(ops) : i + ops[i].arg = EndOf(ops, i) + 1
  BY <1>2, <1>3, <1>5 DEF EndOf
<1>. QED BY <1>1, <1>2, <1>3, <1>4, <1>5, <1>6, <1>7, <1>8

\* Where the interpreter may be.
Place(ops) == [pc : 0 .. Len(ops) + 1, m : Machine]

\* The interpreter stays inside the code.
LEMMA InterpretedType ==
  ASSUME IsTreeCode(flat), NEW q \in Place(flat), q.pc > 0, ~Stopped(flat, q)
  PROVE  /\ Interpreted(flat, q) \in Place(flat) /\ Interpreted(flat, q).pc > 0
<1>1. q.pc \in 1 .. Len(flat) /\ q.m \in Machine /\ q.pc \in DOMAIN flat
  BY TreeCode DEF Stopped, Place
<1>. DEFINE o == flat[q.pc]
<1>2. o \in FlatOp /\ o.arg \in Int /\ o.op \in Operations \cup {"LOOP", "END"}
  <2>1. o \in FlatOp
    BY <1>1, TreeCode
  <2>. QED BY <2>1 DEF FlatOp
<1>3. CASE o.op = "END"
  <2>1. q.pc \in Closes(flat)
    BY <1>1, <1>3 DEF Closes
  <2>2. PICK i \in Opens(flat) : EndOf(flat, i) = q.pc
    BY <2>1, TreeCode
  <2>3. q.pc + o.arg = i /\ i \in 1 .. Len(flat)
    BY <2>2, TreeCode
  <2>4. Interpreted(flat, q) = [q EXCEPT !.pc = q.pc + o.arg]
    BY <1>3 DEF Interpreted
  <2>. HIDE DEF o
  <2>. QED BY <2>3, <2>4, TreeCode DEF Place
<1>4. CASE o.op = "LOOP"
  <2>1. q.pc \in Opens(flat)
    BY <1>1, <1>4 DEF Opens
  <2>2. q.pc + o.arg \in 1 .. Len(flat) + 1 /\ q.pc + 1 \in 1 .. Len(flat) + 1
    BY <1>1, <2>1, TreeCode
  <2>3. Faulted(q.m) \in Machine
    BY <1>1 DEF Faulted, Machine
  <2>4. \/ Interpreted(flat, q) = [q EXCEPT !.m = Faulted(q.m)]
        \/ Interpreted(flat, q) = [q EXCEPT !.pc = q.pc + o.arg]
        \/ Interpreted(flat, q) = [q EXCEPT !.pc = q.pc + 1]
    BY <1>4 DEF Interpreted
  <2>. HIDE DEF o
  <2>. QED BY <1>1, <2>2, <2>3, <2>4 DEF Place
<1>5. CASE o.op \in Operations
  <2>1. o \in Opcode
    BY <1>2, <1>5, FlatOpcode
  <2>2. Apply(q.m, o) \in Machine
    BY <1>1, <2>1, ApplyType
  <2>3. Interpreted(flat, q) = [pc |-> q.pc + 1, m |-> Apply(q.m, o)]
    BY <1>5 DEF Interpreted, Operations
  <2>. HIDE DEF o
  <2>. QED BY <1>1, <2>2, <2>3 DEF Place
<1>. QED BY <1>2, <1>3, <1>4, <1>5
-----------------------------------------------------------------------------
\* Labels of an open loop, and what is remembered of the place it begins.
LoopLabels(count) == [start : 0 .. count - 1, end : 0 .. count - 1]
Entry == [op : Nat, map : Maps]

\* The inductive invariant for the generator and for the run.
GenInv ==
  /\ IsTreeCode(flat) /\ at \in 0 .. Len(flat) + 1
  /\ GenOK(Gen)
  /\ labels \in Nat /\ nest \in Seq(LoopLabels(labels))
  /\ entered \in Seq(Entry) /\ Len(nest) = Len(entered)
  /\ finished \in BOOLEAN /\ coherent \in BOOLEAN
  /\ LabelsOK(code, nest, labels) /\ Nested(entered, at)
  /\ finished => generated
  /\ at = 0 => /\ code = << >> /\ temporary_values = << >> /\ values = 0 /\ ~finished
               /\ nest = << >> /\ entered = << >>

RunInv ==
  /\ jit.pc \in 0 .. Len(code) + 1 /\ jit.m \in Machine
  /\ jit.pc > 0 => finished /\ jit.v \in Values(values)
  /\ plain \in Place(flat)
  /\ jit.pc = 0 <=> plain.pc = 0

TypeInv == GenInv /\ RunInv

\* It says all that the type invariant does.
LEMMA TypeInvTypes == TypeInv => VMTypeOK
<1>. SUFFICES ASSUME TypeInv PROVE VMTypeOK
  OBVIOUS
<1>1. GenOK(Gen)
  BY DEF TypeInv, GenInv
<1>2. /\ values \in Nat /\ MapOK(temporary_values, values)
      /\ code \in Seq(InsnSet(values))
  BY <1>1 DEF GenOK, Gen
<1>3. /\ DOMAIN temporary_values \subseteq Int
      /\ \A k, l \in DOMAIN temporary_values :
           /\ temporary_values[k] \in 1 .. values
           /\ temporary_values[k] = temporary_values[l] => k = l
  BY <1>2 DEF MapOK
<1>4. code \in Seq([insn : InsnKinds, dst : 0 .. values, src : 0 .. values, arg : Int])
  BY <1>2 DEF InsnSet
<1>5. nest \in Seq([start : 0 .. labels - 1, end : 0 .. labels - 1])
  BY DEF TypeInv, GenInv, LoopLabels
<1>6. plain.pc \in 0 .. Len(flat) + 1 /\ plain.m \in Machine
  BY DEF TypeInv, RunInv, Place
<1>7. jit.pc > 0 => finished /\ jit.v \in [0 .. values -> Cell]
  BY DEF TypeInv, RunInv, Values
<1>. QED BY <1>2, <1>3, <1>4, <1>5, <1>6, <1>7 DEF TypeInv, GenInv, RunInv, VMTypeOK

\* The function starts on a machine.
LEMMA LoadedType ==
  ASSUME NEW input \in Seq(Cell)
  PROVE  Loaded(input) \in Machine
BY MachineAssumption DEF Loaded, Machine, Cell

\* Facts about the empty sequence.
LEMMA NoCode == << >> \in Seq(InsnSet(0)) /\ << >> \in Seq(FlatOp) /\ Len(<< >>) = 0
               /\ DOMAIN << >> = {} /\ << >> \in Seq(Cell)
OBVIOUS

\* Nothing has been generated at first.
LEMMA TypeInit == VMInit => TypeInv
<1>. SUFFICES ASSUME VMInit PROVE TypeInv
  OBVIOUS
<1>1. /\ flat = << >> /\ at = 0 /\ temporary_values = << >> /\ values = 0 /\ code = << >>
      /\ nest = << >> /\ labels = 0 /\ finished = FALSE /\ entered = << >> /\ coherent = TRUE
      /\ plain = [pc |-> 0, m |-> Loaded(<< >>)]
      /\ jit = [pc |-> 0, m |-> Loaded(<< >>), v |-> << >>]
  BY DEF VMInit
<1>2. Opens(flat) = {} /\ Closes(flat) = {}
  BY <1>1, NoCode DEF Opens, Closes
<1>3. IsTreeCode(flat)
  BY <1>1, <1>2, NoCode DEF IsTreeCode
<1>4. GenOK(Gen)
  <2>1. MapOK(temporary_values, values)
    BY <1>1, EmptyMap DEF MapOK
  <2>2. IsFiniteSet(DOMAIN temporary_values)
    BY <1>1, EmptyMap, FS_EmptySet
  <2>. QED BY <1>1, <2>1, <2>2, NoCode, EmptyMap DEF GenOK, Gen
<1>5. nest \in Seq(LoopLabels(labels)) /\ entered \in Seq(Entry)
  BY <1>1
<1>6. LabelsOK(code, nest, labels)
  BY <1>1, NoCode DEF LabelsOK
<1>7. Nested(entered, at)
  BY <1>1, <1>2, NoCode DEF Nested
<1>8. GenInv
  <2>1. at \in 0 .. Len(flat) + 1 /\ Len(nest) = Len(entered) /\ labels \in Nat
    BY <1>1, NoCode
  <2>2. /\ finished \in BOOLEAN /\ coherent \in BOOLEAN /\ ~finished
        /\ code = << >> /\ temporary_values = << >> /\ values = 0
        /\ nest = << >> /\ entered = << >>
    BY <1>1
  <2>. QED BY <1>3, <1>4, <1>5, <1>6, <1>7, <2>1, <2>2 DEF GenInv
<1>9. Loaded(<< >>) \in Machine
  BY NoCode, LoadedType
<1>10. RunInv
  BY <1>1, <1>9, NoCode DEF RunInv, Place
<1>. QED BY <1>8, <1>10 DEF TypeInv

\* Nothing runs while code is generated.
LEMMA RunInvKept ==
  ASSUME RunInv, GenInv', ~finished, UNCHANGED jit, UNCHANGED plain
  PROVE  RunInv'
<1>1. jit.pc = 0 /\ plain.pc = 0
  BY DEF RunInv
<1>2. Len(code') \in Nat /\ Len(flat') \in Nat
  BY LenProperties, TreeCode DEF GenInv, GenOK, Gen
<1>. QED BY <1>1, <1>2 DEF RunInv, Place

\* CompileProgram begins with an empty map and no loop open.
LEMMA TypeBegin ==
  ASSUME TypeInv, NEW ops, IsTreeCode(ops), BeginCompilation(ops)
  PROVE  TypeInv'
<1>1. /\ at = 0 /\ at' = 1 /\ flat' = ops
      /\ UNCHANGED <<temporary_values, values, code, nest, labels, finished,
                     entered, coherent, jit, plain>>
  BY DEF BeginCompilation
<1>2. /\ code = << >> /\ temporary_values = << >> /\ values = 0 /\ ~finished
      /\ nest = << >> /\ entered = << >>
  BY <1>1 DEF TypeInv, GenInv
<1>3. IsTreeCode(flat)' /\ at' \in 0 .. Len(flat') + 1
  BY <1>1, TreeCode
<1>4. Nested(entered, at)'
  <2>1. \A i \in Opens(flat') : i \in Int /\ ~(i < 1)
    BY <1>1, <1>3, TreeCode
  <2>2. entered' = << >> /\ at' = 1
    BY <1>1, <1>2
  <2>3. DOMAIN entered' = {}
    BY <2>2, NoCode
  <2>. QED BY <2>1, <2>2, <2>3 DEF Nested
<1>5. GenOK(Gen)' /\ LabelsOK(code, nest, labels)'
  <2>1. GenOK(Gen) /\ LabelsOK(code, nest, labels)
    BY DEF TypeInv, GenInv
  <2>. QED BY <1>1, <2>1 DEF GenOK, Gen, LabelsOK
<1>6. GenInv'
  BY <1>1, <1>2, <1>3, <1>4, <1>5 DEF GenInv, TypeInv, generated
<1>. QED BY <1>1, <1>2, <1>6, RunInvKept DEF TypeInv
-----------------------------------------------------------------------------
\* What GenOK says of the generator's own record.
LEMMA GenRecord ==
  ASSUME GenOK(Gen)
  PROVE  /\ values \in Nat /\ MapOK(temporary_values, values) /\ temporary_values \in Maps
         /\ IsFiniteSet(DOMAIN temporary_values) /\ code \in Seq(InsnSet(values))
         /\ Gen.map = temporary_values /\ Gen.values = values /\ Gen.code = code
         /\ Len(code) \in Nat /\ DOMAIN code = 1 .. Len(code)
<1>1. Gen.map = temporary_values /\ Gen.values = values /\ Gen.code = code
  BY DEF Gen
<1>2. /\ values \in Nat /\ MapOK(temporary_values, values) /\ temporary_values \in Maps
      /\ IsFiniteSet(DOMAIN temporary_values) /\ code \in Seq(InsnSet(values))
  BY <1>1 DEF GenOK
<1>. QED BY <1>1, <1>2, LenProperties

\* No loop begins or ends at an opcode.
LEMMA NestedKept ==
  ASSUME GenInv, NEW ops, Compiles(ops), ops \subseteq Operations, entered' = entered
  PROVE  Nested(entered, at)'
<1>1. /\ at \in DOMAIN flat /\ flat[at].op \in Operations /\ at' = at + 1 /\ flat' = flat
      /\ at \in Int
  BY TreeCode DEF Compiles, GenInv, generated
<1>2. at \notin Opens(flat) /\ at \notin Closes(flat)
  BY <1>1 DEF Opens, Closes, Operations
<1>3. \A i \in Opens(flat) : i # at /\ EndOf(flat, i) # at /\ i \in Int /\ EndOf(flat, i) \in Int
  <2>1. \A i \in Opens(flat) : i # at /\ i \in Int /\ EndOf(flat, i) \in Int
    BY <1>2, TreeCode DEF GenInv
  <2>2. \A i \in Opens(flat) : EndOf(flat, i) \in Closes(flat)
    BY DEF GenInv, IsTreeCode
  <2>. QED BY <1>2, <2>1, <2>2
<1>4. Nested(entered, at)
  BY DEF GenInv
<1>. QED BY <1>1, <1>3, <1>4 DEF Nested

\* A step of the generator at an opcode keeps the invariant when the code it emits
\* has no labels.
LEMMA QuietStep ==
  ASSUME TypeInv, NEW ops, Compiles(ops), ops \subseteq Operations,
         GenOK(Gen)', Quiet(code, code'), UNCHANGED <<nest, labels, entered>>,
         coherent' \in BOOLEAN
  PROVE  TypeInv'
<1>1. /\ at > 0 /\ at \in DOMAIN flat /\ at' = at + 1 /\ flat' = flat /\ finished' = finished
      /\ at' \in 0 .. Len(flat') + 1 /\ at' # 0 /\ ~generated
      /\ UNCHANGED jit /\ UNCHANGED plain
  BY TreeCode DEF Compiles, TypeInv, GenInv, generated
<1>2. LabelsOK(code, nest, labels)'
  BY QuietLabels DEF TypeInv, GenInv
<1>3. Nested(entered, at)'
  BY NestedKept DEF TypeInv
<1>4. GenInv'
  BY <1>1, <1>2, <1>3 DEF TypeInv, GenInv
<1>. QED BY <1>1, <1>4, RunInvKept DEF TypeInv, GenInv

\* CompileOpcode: load what the opcode needs, then the opcode on values.
LEMMA OpcodeGen ==
  ASSUME GenInv, CompileOpcode
  PROVE  \E g1, g2 :
           LET o == flat[at]
               i == OnValues(o, g2.map) IN
           /\ at \in DOMAIN flat /\ o \in FlatOp /\ o.op \in ValueOps
           /\ Loads(Gen, g1, o.src) /\ Loads(g1, g2, o.dst)
           /\ GenOK(g1) /\ GenOK(g2) /\ values <= g1.values /\ g1.values <= g2.values
           /\ o.src \in DOMAIN g2.map /\ o.dst \in DOMAIN g2.map
           /\ i \in InsnSet(g2.values) /\ i.insn \notin Marks
           /\ Quiet(code, g2.code) /\ Quiet(g2.code, code')
           /\ GenOK(Gen)' /\ temporary_values' = g2.map /\ values' = g2.values
           /\ code' = g2.code \o << i >>
<1>. DEFINE o == flat[at]
            g1 == LoadCached(Gen, o.src)
            g2 == LoadCached(g1, o.dst)
            i == OnValues(o, g2.map)
<1>1. at \in DOMAIN flat /\ o.op \in ValueOps
  BY TreeCode DEF CompileOpcode, Compiles, GenInv, generated, ValueOps
<1>2. o \in FlatOp
  BY <1>1, TreeCode DEF GenInv
<1>3. o.src \in Int /\ o.dst \in Int /\ o.arg \in Int
  BY <1>2 DEF FlatOp
<1>4. Becomes(Emit(g2, << i >>))
  BY DEF CompileOpcode
<1>. HIDE DEF o
<1>5. /\ GenOK(Gen) /\ Gen.code = code /\ Gen.values = values
  BY GenRecord DEF GenInv
<1>6. /\ Loads(Gen, g1, o.src) /\ GenOK(g1) /\ values <= g1.values /\ Quiet(code, g1.code)
      /\ DOMAIN g1.map = DOMAIN Gen.map \cup {o.src}
  BY <1>3, <1>5, LoadGen
<1>. HIDE DEF g1
<1>7. /\ Loads(g1, g2, o.dst) /\ GenOK(g2) /\ g1.values <= g2.values
      /\ Quiet(g1.code, g2.code) /\ DOMAIN g2.map = DOMAIN g1.map \cup {o.dst}
  BY <1>3, <1>6, LoadGen
<1>. HIDE DEF g2
<1>8. o.src \in DOMAIN g2.map /\ o.dst \in DOMAIN g2.map
  BY <1>6, <1>7
<1>9. i \in InsnSet(g2.values) /\ i.insn \notin Marks
  <2>1. g2.values \in Nat /\ g2.map[o.src] \in 0 .. g2.values /\ g2.map[o.dst] \in 0 .. g2.values
        /\ 0 \in 0 .. g2.values
    BY <1>7, <1>8 DEF GenOK, MapOK
  <2>2. {"ADD", "MUL", "PUT", "GET", "SET"} \subseteq InsnKinds
    BY DEF InsnKinds, Effective
  <2>3. i \in InsnSet(g2.values)
    <3>1. \A kind \in {"ADD", "MUL", "PUT", "GET", "SET"} :
            \A dst, src \in 0 .. g2.values : \A arg \in Int :
              Insn(kind, dst, src, arg) \in InsnSet(g2.values)
      BY <2>1, <2>2, InsnIn
    <3>2. o.op \in {"BF_ADD", "BF_MUL", "BF_PUT", "BF_GET", "BF_SET"}
      BY <1>1 DEF ValueOps, Operations
    <3>. HIDE DEF i
    <3>3. \/ i = Insn("ADD", g2.map[o.dst], g2.map[o.src], o.arg)
          \/ i = Insn("MUL", g2.map[o.dst], g2.map[o.src], o.arg)
          \/ i = Insn("PUT", 0, g2.map[o.src], 0)
          \/ i = Insn("GET", g2.map[o.dst], 0, 0)
          \/ i = Insn("SET", g2.map[o.dst], 0, o.arg)
      BY <1>1, <3>2, OnValuesType DEF i
    <3>. QED BY <1>3, <2>1, <3>1, <3>3
  <2>4. i.insn \in {"ADD", "MUL", "PUT", "GET", "SET"}
    BY <1>1, OnValuesType
  <2>. QED BY <2>3, <2>4 DEF Marks
<1>. HIDE DEF i
<1>10. << i >> \in Seq(InsnSet(g2.values)) /\ \A p \in DOMAIN << i >> : << i >>[p].insn \notin Marks
  BY <1>9, OneInsn
<1>. DEFINE h == Emit(g2, << i >>)
<1>11. /\ GenOK(h) /\ h.map = g2.map /\ h.values = g2.values /\ h.code = g2.code \o << i >>
       /\ Quiet(g2.code, h.code)
  BY <1>7, <1>10, EmitGen
<1>. HIDE DEF h
<1>12. temporary_values' = h.map /\ values' = h.values /\ code' = h.code
  BY <1>4 DEF Becomes, h
<1>13. GenOK(Gen)'
  BY <1>11, <1>12 DEF GenOK, Gen
<1>14. Quiet(code, g2.code)
  BY <1>6, <1>7, QuietTrans
<1>. QED BY <1>1, <1>2, <1>6, <1>7, <1>8, <1>9, <1>11, <1>12, <1>13, <1>14 DEF o, i

\* Its step keeps the invariant.
LEMMA TypeOpcode ==
  ASSUME TypeInv, CompileOpcode
  PROVE  TypeInv'
<1>1. GenOK(Gen)' /\ Quiet(code, code')
  BY OpcodeGen, QuietTrans DEF TypeInv
<1>2. /\ Compiles(Operations \ {"BF_SFT"}) /\ UNCHANGED <<nest, labels, entered, coherent>>
  BY DEF CompileOpcode
<1>. QED BY <1>1, <1>2, QuietStep DEF TypeInv, GenInv
-----------------------------------------------------------------------------
\* The instructions CompileShift emits for cells that leave, and for cells that
\* stay; the map restricted to some offsets.
Stores(f) == [i \in DOMAIN f |-> Stored(f[i])]
Renames(d, arg) == [i \in DOMAIN d |-> Renamed(d[i], arg, values + i)]
Keep(map, S) == [k \in S |-> map[k]]

\* A function on 1 .. n is a sequence of length n.
LEMMA FunctionIsSeq ==
  ASSUME NEW T, NEW n \in Nat, NEW f \in [1 .. n -> T]
  PROVE  f \in Seq(T) /\ Len(f) = n
<1>1. f \in Seq(T)
  BY SeqDef
<1>2. DOMAIN f = 1 .. Len(f) /\ Len(f) \in Nat
  BY <1>1, LenProperties
<1>. QED BY <1>1, <1>2

\* An order is a sequence over the set.
LEMMA OrderType ==
  ASSUME NEW S, NEW f, IsOrder(f, S)
  PROVE  /\ Len(f) \in Nat /\ DOMAIN f = 1 .. Len(f) /\ \A i \in 1 .. Len(f) : f[i] \in S
BY LenProperties, ElementOfSeq DEF IsOrder

\* The stores are instructions, one for each offset in the order.
LEMMA StoresType ==
  ASSUME GenOK(Gen), NEW S, S \subseteq DOMAIN temporary_values, NEW f, IsOrder(f, S)
  PROVE  /\ Stores(f) \in Seq(InsnSet(values)) /\ DOMAIN Stores(f) = DOMAIN f
         /\ Len(Stores(f)) = Len(f)
         /\ \A i \in DOMAIN f :
              /\ Stores(f)[i].insn = "STORE" /\ Stores(f)[i].arg = f[i]
              /\ Stores(f)[i].src = temporary_values[f[i]]
<1>1. Len(f) \in Nat /\ DOMAIN f = 1 .. Len(f) /\ \A i \in 1 .. Len(f) : f[i] \in S
  BY OrderType
<1>2. \A k \in S : k \in Int /\ temporary_values[k] \in 0 .. values /\ 0 \in 0 .. values
  BY GenRecord DEF MapOK
<1>3. ASSUME NEW k \in S
      PROVE  /\ Stored(k) \in InsnSet(values)
             /\ Stored(k).insn = "STORE" /\ Stored(k).arg = k
             /\ Stored(k).src = temporary_values[k]
  BY <1>2, GenRecord, InsnIn DEF Stored, InsnKinds
<1>4. /\ DOMAIN Stores(f) = 1 .. Len(f)
      /\ \A i \in 1 .. Len(f) : Stores(f)[i] = Stored(f[i]) /\ Stores(f)[i] \in InsnSet(values)
  BY <1>1, <1>3 DEF Stores
<1>5. Stores(f) \in [1 .. Len(f) -> InsnSet(values)]
  BY <1>4 DEF Stores
<1>6. Stores(f) \in Seq(InsnSet(values)) /\ Len(Stores(f)) = Len(f)
  BY <1>1, <1>5, FunctionIsSeq
<1>. QED BY <1>1, <1>3, <1>4, <1>6

\* So are what CompileShift emits for the cells that stay.
LEMMA RenamesType ==
  ASSUME GenOK(Gen), NEW S, S \subseteq DOMAIN temporary_values, NEW d, IsOrder(d, S),
         NEW arg \in Int
  PROVE  /\ Renames(d, arg) \in Seq(InsnSet(values + Len(d))) /\ DOMAIN Renames(d, arg) = DOMAIN d
         /\ Len(Renames(d, arg)) = Len(d)
         /\ \A i \in DOMAIN d : Renames(d, arg)[i] = Renamed(d[i], arg, values + i)
         /\ \A i \in DOMAIN d : Renames(d, arg)[i].insn \in {"MOVE", "LOAD"}
<1>1. Len(d) \in Nat /\ DOMAIN d = 1 .. Len(d) /\ \A i \in 1 .. Len(d) : d[i] \in S
  BY OrderType
<1>2. values \in Nat /\ \A k \in DOMAIN temporary_values : k \in Int /\ temporary_values[k] \in 0 .. values
  BY GenRecord DEF MapOK
<1>. DEFINE n == values + Len(d)
<1>3. n \in Nat /\ 0 \in 0 .. n /\ \A k \in DOMAIN temporary_values : temporary_values[k] \in 0 .. n
  BY <1>1, <1>2
<1>4. ASSUME NEW i \in 1 .. Len(d)
      PROVE  /\ Renamed(d[i], arg, values + i) \in InsnSet(n)
             /\ Renamed(d[i], arg, values + i).insn \in {"MOVE", "LOAD"}
  <2>1. d[i] \in DOMAIN temporary_values /\ d[i] \in Int /\ d[i] - arg \in Int
        /\ values + i \in 0 .. n
    BY <1>1, <1>2
  <2>. HIDE DEF n
  <2>2. CASE d[i] - arg \in DOMAIN temporary_values
    <3>1. /\ Insn("MOVE", temporary_values[d[i] - arg], temporary_values[d[i]], 0) \in InsnSet(n)
          /\ Insn("MOVE", temporary_values[d[i] - arg], temporary_values[d[i]], 0).insn = "MOVE"
      BY <1>3, <2>1, <2>2, InsnIn, SMTT(30) DEF InsnKinds
    <3>. QED BY <2>2, <3>1 DEF Renamed
  <2>3. CASE d[i] - arg \notin DOMAIN temporary_values
    <3>1. /\ Insn("LOAD", values + i, 0, d[i] - arg) \in InsnSet(n)
          /\ Insn("LOAD", values + i, 0, d[i] - arg).insn = "LOAD"
      BY <1>3, <2>1, InsnIn DEF InsnKinds
    <3>. QED BY <2>3, <3>1 DEF Renamed
  <2>. QED BY <2>2, <2>3
<1>. HIDE DEF n
<1>5. /\ DOMAIN Renames(d, arg) = 1 .. Len(d)
      /\ \A i \in 1 .. Len(d) : Renames(d, arg)[i] = Renamed(d[i], arg, values + i)
  BY <1>1 DEF Renames
<1>6. Renames(d, arg) \in [1 .. Len(d) -> InsnSet(n)]
  BY <1>4, <1>5 DEF Renames
<1>7. Renames(d, arg) \in Seq(InsnSet(n)) /\ Len(Renames(d, arg)) = Len(d)
  BY <1>1, <1>6, FunctionIsSeq
<1>. QED BY <1>1, <1>4, <1>5, <1>7 DEF n

\* The map after a shift is a map in which values are unshared.
LEMMA ShiftedGen ==
  ASSUME GenOK(Gen), NEW S, S \subseteq DOMAIN temporary_values, NEW arg \in Int
  PROVE  LET map == Shifted(Keep(temporary_values, S), arg) IN
         /\ MapOK(Keep(temporary_values, S), values)
         /\ MapOK(map, values) /\ map \in Maps /\ IsFiniteSet(DOMAIN map)
         /\ map = [k \in {j - arg : j \in S} |-> temporary_values[k + arg]]
<1>. DEFINE kept == Keep(temporary_values, S)
            map == Shifted(kept, arg)
<1>1. DOMAIN kept = S /\ \A k \in S : kept[k] = temporary_values[k]
  BY DEF Keep
<1>2. values \in Nat /\ MapOK(temporary_values, values) /\ IsFiniteSet(S) /\ S \subseteq Int
  <2>1. IsFiniteSet(S)
    BY GenRecord, FS_Subset
  <2>. QED BY <2>1, GenRecord DEF MapOK
<1>3. MapOK(kept, values)
  BY <1>1, <1>2 DEF MapOK
<1>. HIDE DEF kept
<1>4. MapOK(map, values)
  BY <1>2, <1>3, ShiftedOK
<1>5. DOMAIN map = {j - arg : j \in S}
  BY <1>1 DEF Shifted
<1>6. \A k \in {j - arg : j \in S} : k + arg \in S
  BY <1>2
<1>7. map = [k \in {j - arg : j \in S} |-> temporary_values[k + arg]]
  BY <1>1, <1>6 DEF Shifted
<1>8. IsFiniteSet({j - arg : j \in S})
  <2>. DEFINE g == [j \in S |-> j - arg]
              T == {j - arg : j \in S}
  <2>1. g \in Surjection(S, T)
    BY DEF Surjection
  <2>. QED BY <1>2, <2>1, FS_Surjection
<1>9. map \in Maps
  <2>1. DOMAIN map \in SUBSET Int /\ \A k \in DOMAIN map : map[k] \in Nat
    BY <1>2, <1>4 DEF MapOK
  <2>2. map = [k \in DOMAIN map |-> map[k]]
    BY DEF Shifted
  <2>. HIDE DEF map
  <2>. QED BY <2>1, <2>2, InMaps
<1>. QED BY <1>3, <1>4, <1>5, <1>7, <1>8, <1>9 DEF kept

\* CompileShift: stores, renamings, and the shift itself.
LEMMA ShiftGen ==
  ASSUME GenInv, CompileShift
  PROVE  \E stores, d :
           LET arg == flat[at].arg
               kept == Stays(temporary_values, arg)
               gone == Evicted(temporary_values, arg)
               i == Insn("SHIFT", 0, 0, arg) IN
           /\ at \in DOMAIN flat /\ flat[at].op = "BF_SFT" /\ arg \in Int
           /\ kept \subseteq DOMAIN temporary_values
           /\ gone = DOMAIN temporary_values \ kept
           /\ IsOrder(stores, gone) /\ IsOrder(d, kept)
           /\ temporary_values' = Shifted(Keep(temporary_values, kept), arg)
           /\ values' = values + Len(d) /\ values <= values' /\ values' \in Nat
           /\ code \o Stores(stores) \in Seq(InsnSet(values))
           /\ (code \o Stores(stores)) \o Renames(d, arg) \in Seq(InsnSet(values'))
           /\ code' = ((code \o Stores(stores)) \o Renames(d, arg)) \o << i >>
           /\ i \in InsnSet(values') /\ i.insn = "SHIFT" /\ i.arg = arg
           /\ Quiet(code, code') /\ GenOK(Gen)'
           /\ coherent' = (coherent /\ \A k \in kept : k - arg \notin kept)
<1>. DEFINE arg == flat[at].arg
            kept == Stays(temporary_values, arg)
            gone == Evicted(temporary_values, arg)
            i == Insn("SHIFT", 0, 0, arg)
<1>1. at \in DOMAIN flat /\ flat[at].op = "BF_SFT" /\ arg \in Int
  BY TreeCode DEF CompileShift, Compiles, GenInv, generated
<1>2. kept \subseteq DOMAIN temporary_values /\ gone = DOMAIN temporary_values \ kept
      /\ gone \subseteq DOMAIN temporary_values
  BY DEF Stays, Evicted
<1>0. GenOK(Gen)
  BY DEF GenInv
<1>3. IsFiniteSet(kept) /\ IsFiniteSet(gone)
  BY <1>0, <1>2, GenRecord, FS_Subset
<1>4. PICK stores \in SetToSeqs(gone), d \in SetToSeqs(kept) :
        Becomes([map    |-> [k \in {j - arg : j \in kept} |-> temporary_values[k + arg]],
                 values |-> values + Len(d),
                 code   |-> code \o [j \in DOMAIN stores |-> Stored(stores[j])]
                                 \o [j \in DOMAIN d |-> Renamed(d[j], arg, values + j)]
                                 \o << Insn("SHIFT", 0, 0, arg) >>])
  BY DEF CompileShift
<1>5. coherent' = (coherent /\ \A k \in kept : k - arg \notin kept)
  BY DEF CompileShift
<1>6. IsOrder(stores, gone) /\ IsOrder(d, kept)
  BY <1>3, OrdersOf
<1>7. /\ temporary_values' = [k \in {j - arg : j \in kept} |-> temporary_values[k + arg]]
      /\ values' = values + Len(d)
      /\ code' = ((code \o Stores(stores)) \o Renames(d, arg)) \o << i >>
  BY <1>4 DEF Becomes, Stores, Renames
<1>. HIDE DEF arg, kept, gone
<1>8. /\ temporary_values' = Shifted(Keep(temporary_values, kept), arg)
      /\ MapOK(temporary_values', values) /\ temporary_values' \in Maps
      /\ IsFiniteSet(DOMAIN temporary_values')
  BY <1>0, <1>1, <1>2, <1>7, ShiftedGen
<1>9. /\ values \in Nat /\ values' \in Nat /\ values <= values' /\ 0 \in 0 .. values'
      /\ code \in Seq(InsnSet(values))
  BY <1>0, <1>6, <1>7, GenRecord, OrderType
<1>10. i \in InsnSet(values') /\ i.insn = "SHIFT" /\ i.arg = arg
  <2>1. "SHIFT" \in InsnKinds
    BY DEF InsnKinds, Effective
  <2>. QED BY <1>1, <1>9, <2>1, InsnIn
<1>11. /\ Stores(stores) \in Seq(InsnSet(values))
       /\ \A j \in DOMAIN Stores(stores) : Stores(stores)[j].insn \notin Marks
  BY <1>0, <1>2, <1>6, StoresType DEF Marks
<1>12. /\ Renames(d, arg) \in Seq(InsnSet(values'))
       /\ \A j \in DOMAIN Renames(d, arg) : Renames(d, arg)[j].insn \notin Marks
  <2>1. /\ Renames(d, arg) \in Seq(InsnSet(values + Len(d))) /\ DOMAIN Renames(d, arg) = DOMAIN d
        /\ \A j \in DOMAIN d : Renames(d, arg)[j].insn \in {"MOVE", "LOAD"}
    BY <1>0, <1>1, <1>2, <1>6, RenamesType
  <2>. QED BY <1>7, <2>1 DEF Marks
<1>. HIDE DEF i
<1>13. << i >> \in Seq(InsnSet(values')) /\ \A j \in DOMAIN << i >> : << i >>[j].insn \notin Marks
  BY <1>10, OneInsn DEF Marks
<1>. DEFINE c1 == code \o Stores(stores)
            c2 == c1 \o Renames(d, arg)
<1>14. c1 \in Seq(InsnSet(values)) /\ Quiet(code, c1)
  BY <1>9, <1>11, CodeGrows, QuietGrows
<1>. HIDE DEF c1
<1>15. c2 \in Seq(InsnSet(values')) /\ Quiet(c1, c2)
  BY <1>9, <1>12, <1>14, CodeGrows, QuietGrows
<1>. HIDE DEF c2
<1>16. code' \in Seq(InsnSet(values')) /\ Quiet(c2, code')
  <2>1. c2 \o << i >> \in Seq(InsnSet(values')) /\ Quiet(c2, c2 \o << i >>)
    <3>1. c2 \o << i >> \in Seq(InsnSet(values'))
      BY <1>9, <1>13, <1>15, CodeGrows
    <3>2. Quiet(c2, c2 \o << i >>)
      <4>1. values' <= values'
        BY <1>9
      <4>. QED BY <1>9, <1>13, <1>15, <4>1, QuietGrows, Zenon
    <3>. QED BY <3>1, <3>2
  <2>. QED BY <1>7, <2>1 DEF c2, c1
<1>17. Quiet(code, code')
  BY <1>14, <1>15, <1>16, QuietTrans
<1>18. GenOK(Gen)'
  <2>1. MapOK(temporary_values', values')
    BY <1>8, <1>9, MapGrows
  <2>. QED BY <1>8, <1>9, <1>16, <2>1 DEF GenOK, Gen
<1>. QED BY <1>1, <1>2, <1>5, <1>6, <1>7, <1>8, <1>9, <1>10, <1>14, <1>15, <1>17, <1>18
         DEF arg, kept, gone, i, c1, c2

\* Its step keeps the invariant.
LEMMA TypeShift ==
  ASSUME TypeInv, CompileShift
  PROVE  TypeInv'
<1>1. GenOK(Gen)' /\ Quiet(code, code')
  BY ShiftGen DEF TypeInv
<1>2. /\ Compiles({"BF_SFT"}) /\ UNCHANGED <<nest, labels, entered>>
      /\ coherent' \in BOOLEAN
  BY DEF CompileShift, TypeInv, GenInv
<1>. QED BY <1>1, <1>2, QuietStep DEF TypeInv, Operations
-----------------------------------------------------------------------------
\* BeginLoop: the label, the load of the current cell, the branch.
LEMMA BeginLoopGen ==
  ASSUME GenInv, BeginLoop
  PROVE  \E g :
           LET i == Insn("LABEL", 0, 0, labels)
               z == Insn("BRZ", 0, g.map[0], labels + 1) IN
           /\ i \in InsnSet(values) /\ i.insn = "LABEL" /\ i.arg = labels
           /\ 0 \in DOMAIN g.map /\ z \in InsnSet(values') /\ z.insn = "BRZ"
           /\ z.src = g.map[0] /\ z.arg = labels + 1
           /\ values' = g.values /\ values <= values' /\ values' \in Nat
           /\ temporary_values' = g.map
           /\ g.code \in Seq(InsnSet(values')) /\ Quiet(code \o << i >>, g.code)
           /\ code' = g.code \o << z >>
           /\ 0 \in DOMAIN temporary_values => g.map = temporary_values /\ g.values = values
                                               /\ g.code = code \o << i >>
           /\ GenOK(Gen)'
<1>. DEFINE i == Insn("LABEL", 0, 0, labels)
            g0 == Emit(Gen, << i >>)
            g == LoadCached(g0, 0)
            z == Insn("BRZ", 0, g.map[0], labels + 1)
            h == Emit(g, << z >>)
<1>1. Becomes(h)
  BY DEF BeginLoop
<1>2. /\ GenOK(Gen) /\ values \in Nat /\ labels \in Int /\ 0 \in 0 .. values
      /\ Gen.values = values /\ Gen.code = code /\ Gen.map = temporary_values
  BY GenRecord DEF GenInv
<1>3. i \in InsnSet(values) /\ i.insn = "LABEL" /\ i.arg = labels
  BY <1>2, InsnIn DEF InsnKinds
<1>. HIDE DEF i
<1>4. << i >> \in Seq(InsnSet(values))
  BY <1>3, OneInsn
<1>5. GenOK(g0) /\ g0.map = temporary_values /\ g0.values = values /\ g0.code = code \o << i >>
  BY <1>2, <1>4, EmitGen
<1>. HIDE DEF g0
<1>6. /\ Loads(g0, g, 0) /\ GenOK(g) /\ values <= g.values /\ Quiet(code \o << i >>, g.code)
      /\ DOMAIN g.map = DOMAIN g0.map \cup {0}
  <2>1. /\ Loads(g0, g, 0) /\ GenOK(g) /\ g0.values <= g.values /\ Quiet(g0.code, g.code)
        /\ DOMAIN g.map = DOMAIN g0.map \cup {0}
    <3>1. 0 \in Int
      OBVIOUS
    <3>. QED BY <1>5, <3>1, LoadGen, Zenon
  <2>. QED BY <1>5, <2>1
<1>. HIDE DEF g
<1>7. z \in InsnSet(g.values) /\ z.insn = "BRZ" /\ z.src = g.map[0] /\ z.arg = labels + 1
  <2>1. "BRZ" \in InsnKinds
    BY DEF InsnKinds, Effective
  <2>2. g.map[0] \in 0 .. g.values /\ g.values \in Nat /\ 0 \in 0 .. g.values
    BY <1>6 DEF GenOK, MapOK
  <2>. QED BY <1>2, <2>1, <2>2, InsnIn
<1>. HIDE DEF z
<1>8. << z >> \in Seq(InsnSet(g.values))
  BY <1>7, OneInsn
<1>9. GenOK(h) /\ h.map = g.map /\ h.values = g.values /\ h.code = g.code \o << z >>
  BY <1>6, <1>8, EmitGen
<1>. HIDE DEF h
<1>10. temporary_values' = h.map /\ values' = h.values /\ code' = h.code
  BY <1>1 DEF Becomes
<1>11. GenOK(Gen)'
  BY <1>9, <1>10 DEF GenOK, Gen
<1>12. g.code \in Seq(InsnSet(values')) /\ values' \in Nat /\ 0 \in DOMAIN g.map
  BY <1>6, <1>9, <1>10 DEF GenOK
<1>13. 0 \in DOMAIN temporary_values => g.map = temporary_values /\ g.values = values
                                        /\ g.code = code \o << i >>
  BY <1>5, <1>6 DEF Loads
<1>. QED BY <1>3, <1>6, <1>7, <1>9, <1>10, <1>11, <1>12, <1>13 DEF i, z

\* Opening a loop adds its labels at the end of nest.
LEMMA AppendLoop ==
  ASSUME NEW count \in Nat, NEW loops \in Seq(LoopLabels(count)),
         NEW more \in Nat, count + 2 = more
  PROVE  LET x == [start |-> count, end |-> count + 1]
             both == Append(loops, x) IN
         /\ both \in Seq(LoopLabels(more)) /\ Len(both) = Len(loops) + 1
         /\ DOMAIN both = 1 .. Len(loops) + 1 /\ Len(loops) \in Nat
         /\ \A k \in 1 .. Len(loops) : both[k] = loops[k] /\ k \in DOMAIN loops
         /\ both[Len(loops) + 1] = x
         /\ \A k \in DOMAIN loops : k \in 1 .. Len(loops) /\ loops[k] \in LoopLabels(count)
<1>1. LoopLabels(count) \subseteq LoopLabels(more)
  BY DEF LoopLabels
<1>2. loops \in Seq(LoopLabels(more))
  BY <1>1, SeqMonotonic
<1>3. [start |-> count, end |-> count + 1] \in LoopLabels(more)
  BY DEF LoopLabels
<1>4. Len(loops) \in Nat /\ DOMAIN loops = 1 .. Len(loops)
  BY LenProperties
<1>5. \A k \in DOMAIN loops : loops[k] \in LoopLabels(count)
  BY <1>4, ElementOfSeq
<1>. DEFINE x == [start |-> count, end |-> count + 1]
<1>. HIDE DEF x
<1>6. /\ Append(loops, x) \in Seq(LoopLabels(more)) /\ Len(Append(loops, x)) = Len(loops) + 1
      /\ \A k \in 1 .. Len(loops) : Append(loops, x)[k] = loops[k]
      /\ Append(loops, x)[Len(loops) + 1] = x
  BY <1>2, <1>3, AppendProperties DEF x
<1>7. DOMAIN Append(loops, x) = 1 .. Len(loops) + 1
  BY <1>6, LenProperties
<1>. QED BY <1>4, <1>5, <1>6, <1>7 DEF x

\* Where the marks of code extended by a LABEL, other code and a BRZ are.
LoopMarks(c, b, d, i, z) ==
  /\ Len(c) \in Nat /\ DOMAIN c = 1 .. Len(c)
  /\ \A p \in DOMAIN c : p \in DOMAIN d /\ d[p] = c[p]
  /\ Len(c) + 1 \in DOMAIN d /\ d[Len(c) + 1] = i
  /\ Len(b) + 1 \in DOMAIN d /\ d[Len(b) + 1] = z /\ Len(b) \in Nat /\ Len(b) > Len(c)
  /\ \A p \in DOMAIN d : d[p].insn \in Marks => p \in DOMAIN c \cup {Len(c) + 1, Len(b) + 1}

\* The only marks BeginLoop adds are the label and the branch.
LEMMA BeginLoopMarks ==
  ASSUME NEW n \in Nat, NEW r \in Nat, n <= r, NEW c \in Seq(InsnSet(n)),
         NEW i \in InsnSet(n), NEW b \in Seq(InsnSet(r)), Quiet(c \o << i >>, b),
         NEW z \in InsnSet(r), NEW d, d = b \o << z >>
  PROVE  LoopMarks(c, b, d, i, z)
<1>1. /\ << i >> \in Seq(InsnSet(n)) /\ << i >>[1] = i /\ Len(<< i >>) = 1
      /\ << z >> \in Seq(InsnSet(r)) /\ << z >>[1] = z /\ Len(<< z >>) = 1
  BY OneInsn
<1>2. n <= n /\ r <= r
  OBVIOUS
<1>3. /\ Len(c) \in Nat /\ DOMAIN c = 1 .. Len(c)
      /\ DOMAIN (c \o << i >>) = 1 .. Len(c) + 1
      /\ \A p \in 1 .. Len(c) : (c \o << i >>)[p] = c[p]
      /\ (c \o << i >>)[Len(c) + 1] = i
  BY <1>1, <1>2, CodeGrows
<1>4. /\ Len(b) \in Nat /\ DOMAIN b = 1 .. Len(b) /\ DOMAIN d = 1 .. Len(b) + 1
      /\ \A p \in 1 .. Len(b) : d[p] = b[p]
      /\ d[Len(b) + 1] = z
  BY <1>1, <1>2, CodeGrows
<1>5. /\ 1 .. Len(c) + 1 \subseteq 1 .. Len(b)
      /\ \A p \in 1 .. Len(c) : b[p] = c[p]
      /\ b[Len(c) + 1] = i
      /\ \A p \in (1 .. Len(b)) \ (1 .. Len(c) + 1) : b[p].insn \notin Marks
  <2>. DEFINE e == c \o << i >>
  <2>1. /\ DOMAIN e \subseteq DOMAIN b /\ \A p \in DOMAIN e : b[p] = e[p]
        /\ \A p \in DOMAIN b \ DOMAIN e : b[p].insn \notin Marks
    BY DEF Quiet
  <2>2. /\ DOMAIN e = 1 .. Len(c) + 1 /\ \A p \in 1 .. Len(c) : e[p] = c[p]
        /\ e[Len(c) + 1] = i
    BY <1>3
  <2>. HIDE DEF e
  <2>3. 1 .. Len(c) + 1 \subseteq 1 .. Len(b)
    BY <1>4, <2>1, <2>2
  <2>4. Len(c) + 1 \in 1 .. Len(c) + 1 /\ \A p \in 1 .. Len(c) : p \in 1 .. Len(c) + 1
    BY <1>3
  <2>. QED BY <1>4, <2>1, <2>2, <2>3, <2>4
<1>. QED BY <1>3, <1>4, <1>5 DEF LoopMarks

\* Its step keeps the invariant: the loop that opens is inside those that are open.
LEMMA TypeBeginLoop ==
  ASSUME TypeInv, BeginLoop
  PROVE  TypeInv'
<1>0. GenInv
  BY DEF TypeInv
<1>1. /\ Compiles({"LOOP"})
      /\ nest' = Append(nest, [start |-> labels, end |-> labels + 1])
      /\ labels' = labels + 2
      /\ entered' = Append(entered, [op |-> at, map |-> temporary_values])
      /\ coherent' = (coherent /\ 0 \in DOMAIN temporary_values)
  BY DEF BeginLoop
<1>2. /\ at > 0 /\ at \in DOMAIN flat /\ at' = at + 1 /\ flat' = flat /\ finished' = finished
      /\ at' \in 0 .. Len(flat') + 1 /\ at' # 0 /\ ~generated /\ at \in Nat
      /\ UNCHANGED jit /\ UNCHANGED plain /\ flat[at].op = "LOOP"
  BY <1>0, <1>1, TreeCode DEF Compiles, GenInv, generated
<1>3. PICK g :
           LET i == Insn("LABEL", 0, 0, labels)
               z == Insn("BRZ", 0, g.map[0], labels + 1) IN
           /\ i \in InsnSet(values) /\ i.insn = "LABEL" /\ i.arg = labels
           /\ 0 \in DOMAIN g.map /\ z \in InsnSet(values') /\ z.insn = "BRZ"
           /\ z.src = g.map[0] /\ z.arg = labels + 1
           /\ values' = g.values /\ values <= values' /\ values' \in Nat
           /\ temporary_values' = g.map
           /\ g.code \in Seq(InsnSet(values')) /\ Quiet(code \o << i >>, g.code)
           /\ code' = g.code \o << z >>
           /\ 0 \in DOMAIN temporary_values => g.map = temporary_values /\ g.values = values
                                               /\ g.code = code \o << i >>
           /\ GenOK(Gen)'
  BY <1>0, BeginLoopGen
<1>. DEFINE i == Insn("LABEL", 0, 0, labels)
            z == Insn("BRZ", 0, g.map[0], labels + 1)
<1>4. /\ i \in InsnSet(values) /\ i.insn = "LABEL" /\ i.arg = labels
      /\ z \in InsnSet(values') /\ z.insn = "BRZ" /\ z.arg = labels + 1
      /\ values <= values' /\ values' \in Nat
      /\ g.code \in Seq(InsnSet(values')) /\ Quiet(code \o << i >>, g.code)
      /\ code' = g.code \o << z >> /\ GenOK(Gen)'
  BY <1>3
<1>. HIDE DEF i, z
<1>5. values \in Nat /\ code \in Seq(InsnSet(values)) /\ temporary_values \in Maps
  BY <1>0, GenRecord DEF GenInv
<1>6. /\ Len(code) \in Nat /\ DOMAIN code = 1 .. Len(code)
      /\ \A p \in DOMAIN code : p \in DOMAIN code' /\ code'[p] = code[p]
      /\ Len(code) + 1 \in DOMAIN code' /\ code'[Len(code) + 1] = i
      /\ Len(g.code) + 1 \in DOMAIN code' /\ code'[Len(g.code) + 1] = z
      /\ \A p \in DOMAIN code' :
           code'[p].insn \in Marks => p \in DOMAIN code \cup {Len(code) + 1, Len(g.code) + 1}
  <2>1. LoopMarks(code, g.code, code', i, z)
    BY <1>4, <1>5, BeginLoopMarks
  <2>. QED BY <2>1 DEF LoopMarks
<1>7. labels \in Nat /\ labels' \in Nat /\ nest \in Seq(LoopLabels(labels)) /\ labels + 2 = labels'
  BY <1>0, <1>1 DEF GenInv
<1>8. /\ nest' \in Seq(LoopLabels(labels')) /\ Len(nest') = Len(nest) + 1
      /\ DOMAIN nest' = 1 .. Len(nest) + 1 /\ Len(nest) \in Nat
      /\ \A k \in 1 .. Len(nest) : nest'[k] = nest[k] /\ k \in DOMAIN nest
      /\ nest'[Len(nest) + 1] = [start |-> labels, end |-> labels + 1]
      /\ \A k \in DOMAIN nest : k \in 1 .. Len(nest) /\ nest[k] \in LoopLabels(labels)
  BY <1>1, <1>7, AppendLoop
<1>9. LabelsOK(code, nest, labels)'
  <2>1. LabelsOK(code, nest, labels)
    BY <1>0 DEF GenInv
  <2>2. \A l : Marked(code, l) => Marked(code', l)
    BY <1>6 DEF Marked
  <2>3. Marked(code', labels)
    BY <1>4, <1>6 DEF Marked
  <2>4. \A k \in DOMAIN nest : /\ nest[k].start \in Int /\ nest[k].end \in Int
                               /\ nest[k].end < labels
    BY <1>7, <1>8, SMTT(30) DEF LoopLabels
  <2>5. \A k \in DOMAIN nest' : nest'[k].end = nest'[k].start + 1
    BY <1>8, <2>1 DEF LabelsOK
  <2>6. \A k, l \in DOMAIN nest' : k < l => nest'[k].end < nest'[l].start
    BY <1>8, <2>1, <2>4 DEF LabelsOK
  <2>7. ASSUME NEW p \in DOMAIN code', code'[p].insn \in Marks
        PROVE  \/ p \in DOMAIN code /\ code'[p] = code[p]
               \/ code'[p] = i
               \/ code'[p] = z
    BY <1>6, <2>7
  <2>8. \A p \in DOMAIN code' : code'[p].insn \in Marks => code'[p].arg < labels'
    <3>1. \A p \in DOMAIN code : code[p].insn \in Marks => code[p].arg < labels /\ code[p].arg \in Int
      <4>1. \A p \in DOMAIN code : code[p].arg \in Int
        <5>1. \A p \in DOMAIN code : code[p] \in InsnSet(values)
          BY <1>5, <1>6, ElementOfSeq
        <5>. QED BY <5>1 DEF InsnSet
      <4>. QED BY <2>1, <4>1 DEF LabelsOK
    <3>2. i.arg < labels' /\ z.arg < labels'
      BY <1>4, <1>7
    <3>. QED BY <1>7, <2>7, <3>1, <3>2
  <2>9. \A p \in DOMAIN code' : code'[p].insn = "BR" => Marked(code', code'[p].arg)
    BY <1>4, <2>1, <2>2, <2>7 DEF LabelsOK, Marks
  <2>10. \E k \in DOMAIN nest' : nest'[k].end = labels + 1
    <3>1. Len(nest) + 1 \in DOMAIN nest'
      BY <1>8
    <3>. QED BY <1>8, <3>1
  <2>11. \A k \in DOMAIN nest : k \in DOMAIN nest' /\ nest'[k] = nest[k]
    BY <1>8
  <2>12. \A p \in DOMAIN code' : code'[p].insn = "BRZ" =>
           Marked(code', code'[p].arg) \/ \E k \in DOMAIN nest' : nest'[k].end = code'[p].arg
    <3>. SUFFICES ASSUME NEW p \in DOMAIN code', code'[p].insn = "BRZ"
                  PROVE  Marked(code', code'[p].arg)
                         \/ \E k \in DOMAIN nest' : nest'[k].end = code'[p].arg
      OBVIOUS
    <3>1. code'[p] # i
      BY <1>4
    <3>2. CASE code'[p] = z
      BY <1>4, <2>10, <3>2
    <3>3. CASE p \in DOMAIN code /\ code'[p] = code[p]
      <4>1. Marked(code, code[p].arg) \/ \E k \in DOMAIN nest : nest[k].end = code[p].arg
        BY <2>1, <3>3 DEF LabelsOK
      <4>. QED BY <2>2, <2>11, <3>3, <4>1
    <3>. QED BY <2>7, <3>1, <3>2, <3>3 DEF Marks
  <2>13. \A k \in DOMAIN nest' : Marked(code', nest'[k].start)
    BY <1>8, <2>1, <2>2, <2>3 DEF LabelsOK
  <2>. QED BY <2>5, <2>6, <2>8, <2>9, <2>12, <2>13 DEF LabelsOK
<1>10. /\ entered' \in Seq(Entry) /\ Len(entered') = Len(entered) + 1 /\ Len(entered) \in Nat
       /\ DOMAIN entered' = 1 .. Len(entered) + 1 /\ DOMAIN entered = 1 .. Len(entered)
       /\ \A k \in 1 .. Len(entered) : entered'[k] = entered[k]
       /\ entered'[Len(entered) + 1] = [op |-> at, map |-> temporary_values]
  <2>1. [op |-> at, map |-> temporary_values] \in Entry /\ entered \in Seq(Entry)
    BY <1>0, <1>2, <1>5 DEF Entry, GenInv
  <2>2. /\ entered' \in Seq(Entry) /\ Len(entered') = Len(entered) + 1
        /\ \A k \in 1 .. Len(entered) : entered'[k] = entered[k]
        /\ entered'[Len(entered) + 1] = [op |-> at, map |-> temporary_values]
    BY <1>1, <2>1, AppendProperties
  <2>. QED BY <2>1, <2>2, LenProperties
<1>11. Nested(entered, at)'
  <2>1. at \in Opens(flat) /\ at < EndOf(flat, at) /\ EndOf(flat, at) \in Int
    <3>1. at \in Opens(flat)
      BY <1>2 DEF Opens
    <3>. QED BY <1>0, <3>1, TreeCode DEF GenInv
  <2>2. \A j \in Opens(flat) : j \in Int /\ EndOf(flat, j) \in Int /\ EndOf(flat, j) # at
    <3>1. \A j \in Opens(flat) : flat[EndOf(flat, j)].op = "END" /\ j \in Int /\ EndOf(flat, j) \in Int
      BY <1>0, TreeCode DEF GenInv
    <3>. QED BY <1>2, <3>1
  <2>3. Nested(entered, at)
    BY <1>0 DEF GenInv
  <2>4. \A k \in DOMAIN entered' :
          /\ entered'[k].op \in Opens(flat) /\ entered'[k].op < at + 1
          /\ at + 1 <= EndOf(flat, entered'[k].op)
    BY <1>2, <1>10, <2>1, <2>2, <2>3 DEF Nested
  <2>5. \A k, l \in DOMAIN entered' : k < l => entered'[k].op < entered'[l].op
    BY <1>10, <2>3 DEF Nested
  <2>6. ASSUME NEW j \in Opens(flat), j < at + 1, at + 1 <= EndOf(flat, j)
        PROVE  \E k \in DOMAIN entered' : entered'[k].op = j
    <3>1. CASE j = at
      BY <1>10, <3>1
    <3>2. CASE j # at
      <4>1. j < at /\ at <= EndOf(flat, j)
        BY <1>2, <2>2, <2>6, <3>2
      <4>2. PICK k \in DOMAIN entered : entered[k].op = j
        BY <2>3, <4>1 DEF Nested
      <4>. QED BY <1>10, <4>2
    <3>. QED BY <3>1, <3>2
  <2>. QED BY <1>2, <2>4, <2>5, <2>6 DEF Nested
<1>12. coherent' \in BOOLEAN /\ finished' \in BOOLEAN /\ ~finished /\ Len(nest') = Len(entered')
  BY <1>0, <1>1, <1>2, <1>8, <1>10 DEF GenInv
<1>13. GenInv'
  BY <1>0, <1>2, <1>4, <1>7, <1>8, <1>9, <1>10, <1>11, <1>12 DEF GenInv
<1>. QED BY <1>2, <1>12, <1>13, RunInvKept DEF TypeInv
-----------------------------------------------------------------------------
\* What is left of a sequence without its last element.
FrontFacts(S, s, f) ==
  /\ f \in Seq(S) /\ Len(f) = Len(s) - 1 /\ Len(s) \in Nat
  /\ DOMAIN s = 1 .. Len(s) /\ DOMAIN f = 1 .. Len(s) - 1
  /\ \A k \in 1 .. Len(s) - 1 : f[k] = s[k]
  /\ Last(s) = s[Len(s)] /\ Last(s) \in S

\* See FrontFacts.
LEMMA FrontLast ==
  ASSUME NEW S, NEW s \in Seq(S), Len(s) > 0
  PROVE  FrontFacts(S, s, Front(s))
<1>1. Len(s) \in Nat /\ DOMAIN s = 1 .. Len(s) /\ \A k \in 1 .. Len(s) : s[k] \in S
  BY LenProperties, ElementOfSeq
<1>2. Front(s) = SubSeq(s, 1, Len(s) - 1) /\ Last(s) = s[Len(s)]
  BY DEF Front, Last
<1>. DEFINE m == Len(s) - 1
<1>3. m \in Nat /\ Len(s) = m + 1 /\ \A k \in 1 .. m : s[k] \in S
  BY <1>1
<1>. HIDE DEF m
<1>4. /\ SubSeq(s, 1, m) \in Seq(S)
      /\ Len(SubSeq(s, 1, m)) = m
      /\ \A k \in 1 .. m : SubSeq(s, 1, m)[k] = s[k]
  <2>1. 1 \in Int /\ m \in Int
    BY <1>3
  <2>2. /\ SubSeq(s, 1, m) \in Seq(S)
        /\ Len(SubSeq(s, 1, m)) = IF 1 <= m THEN m - 1 + 1 ELSE 0
        /\ \A k \in 1 .. m - 1 + 1 : SubSeq(s, 1, m)[k] = s[1 + k - 1]
    BY <1>3, <2>1, SubSeqProperties
  <2>. QED BY <1>3, <2>2
<1>5. DOMAIN SubSeq(s, 1, m) = 1 .. m
  BY <1>4, LenProperties
<1>6. m = Len(s) - 1 /\ s[Len(s)] \in S
  BY <1>1, <1>3
<1>. QED BY <1>1, <1>2, <1>4, <1>5, <1>6 DEF m, FrontFacts

\* An END closes the loop that was opened last.
LEMMA ClosesLast ==
  ASSUME GenInv, Compiles({"END"})
  PROVE  /\ Len(entered) > 0 /\ Len(entered) = Len(nest) /\ Len(nest) \in Nat
         /\ DOMAIN nest = 1 .. Len(nest) /\ DOMAIN entered = 1 .. Len(nest)
         /\ entered[Len(nest)].op \in Opens(flat)
         /\ EndOf(flat, entered[Len(nest)].op) = at
         /\ at \in DOMAIN flat /\ flat[at].op = "END"
<1>1. /\ at \in DOMAIN flat /\ flat[at].op = "END" /\ at \in Int
  BY TreeCode DEF GenInv, Compiles, generated
<1>2. /\ Len(entered) = Len(nest) /\ Len(nest) \in Nat
      /\ DOMAIN nest = 1 .. Len(nest) /\ DOMAIN entered = 1 .. Len(nest)
  BY LenProperties DEF GenInv
<1>3. at \in Closes(flat)
  BY <1>1 DEF Closes
<1>4. PICK i \in Opens(flat) : EndOf(flat, i) = at
  BY <1>3, TreeCode DEF GenInv
<1>5. \A j \in Opens(flat) : j \in Int /\ EndOf(flat, j) \in Int /\ j < EndOf(flat, j)
  BY TreeCode DEF GenInv
<1>6. Nested(entered, at)
  BY DEF GenInv
<1>7. PICK k \in DOMAIN entered : entered[k].op = i
  BY <1>1, <1>4, <1>5, <1>6 DEF Nested
<1>8. k = Len(nest)
  <2>. SUFFICES ASSUME k # Len(nest) PROVE FALSE
    OBVIOUS
  <2>. DEFINE j == entered[Len(nest)].op
  <2>1. k < Len(nest) /\ Len(nest) \in DOMAIN entered
    BY <1>2, <1>7
  <2>2. i < j /\ j \in Opens(flat) /\ j < at /\ at <= EndOf(flat, j)
    BY <1>6, <1>7, <2>1 DEF Nested
  <2>. HIDE DEF j
  <2>3. EndOf(flat, j) < EndOf(flat, i) \/ EndOf(flat, i) < j
    BY <2>2, TreeCode DEF GenInv
  <2>. QED BY <1>1, <1>4, <1>5, <2>2, <2>3
<1>. QED BY <1>1, <1>2, <1>4, <1>7, <1>8

\* EndLoop: the jump back and the label to exit to, of the innermost loop.
LEMMA EndLoopGen ==
  ASSUME GenInv, EndLoop
  PROVE  LET loop == nest[Len(nest)]
             i == Insn("BR", 0, 0, loop.start)
             j == Insn("LABEL", 0, 0, loop.end) IN
         /\ i \in InsnSet(values) /\ i.insn = "BR" /\ i.arg = loop.start
         /\ j \in InsnSet(values) /\ j.insn = "LABEL" /\ j.arg = loop.end
         /\ loop \in LoopLabels(labels)
         /\ code' = code \o << i, j >> /\ GenOK(Gen)'
         /\ temporary_values' = temporary_values /\ values' = values
         /\ Len(code) \in Nat /\ DOMAIN code = 1 .. Len(code)
         /\ DOMAIN code' = 1 .. Len(code) + 2
         /\ \A p \in 1 .. Len(code) : code'[p] = code[p]
         /\ code'[Len(code) + 1] = i /\ code'[Len(code) + 2] = j
<1>. DEFINE loop == nest[Len(nest)]
            i == Insn("BR", 0, 0, loop.start)
            j == Insn("LABEL", 0, 0, loop.end)
<1>1. Compiles({"END"}) /\ Becomes(Emit(Gen, LoopEnd(Last(nest))))
  BY DEF EndLoop
<1>2. /\ Len(nest) > 0 /\ nest \in Seq(LoopLabels(labels)) /\ labels \in Nat
  BY <1>1, ClosesLast DEF GenInv
<1>3. Last(nest) = loop /\ loop \in LoopLabels(labels)
  <2>1. FrontFacts(LoopLabels(labels), nest, Front(nest))
    BY <1>2, FrontLast
  <2>. QED BY <2>1 DEF FrontFacts
<1>4. /\ GenOK(Gen) /\ values \in Nat /\ 0 \in 0 .. values
      /\ Gen.values = values /\ Gen.code = code /\ Gen.map = temporary_values
      /\ code \in Seq(InsnSet(values)) /\ values <= values
  BY GenRecord DEF GenInv
<1>. HIDE DEF loop
<1>5. loop.start \in Int /\ loop.end \in Int
  BY <1>2, <1>3 DEF LoopLabels
<1>6. "BR" \in InsnKinds /\ "LABEL" \in InsnKinds
  BY DEF InsnKinds, Effective
<1>7. /\ i \in InsnSet(values) /\ i.insn = "BR" /\ i.arg = loop.start
      /\ j \in InsnSet(values) /\ j.insn = "LABEL" /\ j.arg = loop.end
  BY <1>4, <1>5, <1>6, InsnIn
<1>8. LoopEnd(Last(nest)) = << i, j >>
  BY <1>3 DEF LoopEnd
<1>. HIDE DEF i, j
<1>9. << i, j >> \in Seq(InsnSet(values)) /\ Len(<< i, j >>) = 2
      /\ << i, j >>[1] = i /\ << i, j >>[2] = j
  BY <1>7, TwoInsns
<1>. DEFINE h == Emit(Gen, << i, j >>)
<1>10. GenOK(h) /\ h.map = temporary_values /\ h.values = values /\ h.code = code \o << i, j >>
  BY <1>4, <1>9, EmitGen
<1>11. Becomes(h)
  BY <1>1, <1>8
<1>. HIDE DEF h
<1>12. temporary_values' = h.map /\ values' = h.values /\ code' = h.code
  BY <1>11 DEF Becomes
<1>13. GenOK(Gen)'
  BY <1>10, <1>12 DEF GenOK, Gen
<1>. DEFINE d == << i, j >>
<1>14. d \in Seq(InsnSet(values)) /\ Len(d) = 2 /\ d[1] = i /\ d[2] = j
  BY <1>9
<1>15. code' = code \o d
  BY <1>10, <1>12
<1>. HIDE DEF d
<1>16. /\ Len(code) \in Nat /\ DOMAIN code = 1 .. Len(code)
       /\ DOMAIN code' = 1 .. Len(code) + 2
       /\ \A p \in 1 .. Len(code) : code'[p] = code[p]
       /\ code'[Len(code) + 1] = i /\ code'[Len(code) + 2] = j
  <2>1. Grown(InsnSet(values), code, d)
    BY <1>4, <1>14, CodeGrown
  <2>2. /\ Len(code) \in Nat /\ DOMAIN code = 1 .. Len(code)
        /\ DOMAIN (code \o d) = 1 .. Len(code) + Len(d)
        /\ \A p \in 1 .. Len(code) : (code \o d)[p] = code[p]
        /\ \A p \in 1 .. Len(d) : (code \o d)[Len(code) + p] = d[p]
    BY <2>1 DEF Grown
  <2>. QED BY <1>14, <1>15, <2>2
<1>. QED BY <1>3, <1>7, <1>10, <1>12, <1>13, <1>16 DEF i, j, loop

\* Its step keeps the invariant: the END closes the innermost loop that is open.
LEMMA TypeEndLoop ==
  ASSUME TypeInv, EndLoop
  PROVE  TypeInv'
<1>0. GenInv
  BY DEF TypeInv
<1>1. /\ Compiles({"END"}) /\ nest' = Front(nest) /\ entered' = Front(entered)
      /\ coherent' = (coherent /\ temporary_values = Last(entered).map)
      /\ labels' = labels
  BY DEF EndLoop
<1>2. /\ at > 0 /\ at \in DOMAIN flat /\ at' = at + 1 /\ flat' = flat /\ finished' = finished
      /\ at' \in 0 .. Len(flat') + 1 /\ at' # 0 /\ ~generated /\ at \in Nat
      /\ UNCHANGED jit /\ UNCHANGED plain
  BY <1>0, <1>1, TreeCode DEF Compiles, GenInv, generated
<1>. DEFINE loop == nest[Len(nest)]
            i == Insn("BR", 0, 0, loop.start)
            j == Insn("LABEL", 0, 0, loop.end)
<1>3. /\ i \in InsnSet(values) /\ i.insn = "BR" /\ i.arg = loop.start
      /\ j \in InsnSet(values) /\ j.insn = "LABEL" /\ j.arg = loop.end
      /\ loop \in LoopLabels(labels)
      /\ GenOK(Gen)'
      /\ Len(code) \in Nat /\ DOMAIN code = 1 .. Len(code)
      /\ DOMAIN code' = 1 .. Len(code) + 2
      /\ \A p \in 1 .. Len(code) : code'[p] = code[p]
      /\ code'[Len(code) + 1] = i /\ code'[Len(code) + 2] = j
  BY <1>0, EndLoopGen
<1>. HIDE DEF i, j
<1>4. /\ Len(entered) > 0 /\ Len(entered) = Len(nest) /\ Len(nest) \in Nat
      /\ DOMAIN nest = 1 .. Len(nest) /\ DOMAIN entered = 1 .. Len(nest)
      /\ entered[Len(nest)].op \in Opens(flat)
      /\ EndOf(flat, entered[Len(nest)].op) = at
      /\ flat[at].op = "END"
  BY <1>0, <1>1, ClosesLast
<1>5. labels \in Nat /\ nest \in Seq(LoopLabels(labels)) /\ entered \in Seq(Entry)
  BY <1>0 DEF GenInv
<1>6. /\ nest' \in Seq(LoopLabels(labels)) /\ Len(nest') = Len(nest) - 1
      /\ DOMAIN nest' = 1 .. Len(nest) - 1
      /\ \A k \in 1 .. Len(nest) - 1 : nest'[k] = nest[k] /\ k \in DOMAIN nest
  <2>1. FrontFacts(LoopLabels(labels), nest, Front(nest))
    BY <1>4, <1>5, FrontLast
  <2>. QED BY <1>1, <1>4, <2>1 DEF FrontFacts
<1>7. /\ entered' \in Seq(Entry) /\ Len(entered') = Len(nest) - 1
      /\ DOMAIN entered' = 1 .. Len(nest) - 1
      /\ \A k \in 1 .. Len(nest) - 1 : entered'[k] = entered[k] /\ k \in DOMAIN entered
  <2>1. FrontFacts(Entry, entered, Front(entered))
    BY <1>4, <1>5, FrontLast
  <2>. QED BY <1>1, <1>4, <2>1 DEF FrontFacts
<1>8. LabelsOK(code, nest, labels)'
  <2>1. LabelsOK(code, nest, labels)
    BY <1>0 DEF GenInv
  <2>2. \A l : Marked(code, l) => Marked(code', l)
    BY <1>3 DEF Marked
  <2>3. Len(code) + 2 \in DOMAIN code' /\ Len(nest) \in DOMAIN nest
    BY <1>3, <1>4
  <2>4. Marked(code', loop.end)
    BY <1>3, <2>3 DEF Marked
  <2>5. Marked(code', loop.start)
    BY <2>1, <2>2, <2>3 DEF LabelsOK
  <2>6. i.arg < labels /\ j.arg < labels
    BY <1>3, <1>5 DEF LoopLabels
  <2>. HIDE DEF loop
  <2>7. \A p \in DOMAIN code' : \/ p \in DOMAIN code /\ code'[p] = code[p]
                               \/ code'[p] = i \/ code'[p] = j
    BY <1>3
  <2>8. \A k \in DOMAIN nest' : k \in DOMAIN nest /\ nest'[k] = nest[k]
    BY <1>6
  <2>9. \A k \in DOMAIN nest' : nest'[k].end = nest'[k].start + 1
    BY <2>1, <2>8 DEF LabelsOK
  <2>10. \A k, l \in DOMAIN nest' : k < l => nest'[k].end < nest'[l].start
    BY <2>1, <2>8 DEF LabelsOK
  <2>11. \A p \in DOMAIN code' : code'[p].insn \in Marks => code'[p].arg < labels'
    BY <1>1, <2>1, <2>6, <2>7 DEF LabelsOK
  <2>12. \A p \in DOMAIN code' : code'[p].insn = "BR" => Marked(code', code'[p].arg)
    BY <1>3, <2>1, <2>2, <2>5, <2>7 DEF LabelsOK
  <2>13. \A p \in DOMAIN code' : code'[p].insn = "BRZ" =>
           Marked(code', code'[p].arg) \/ \E k \in DOMAIN nest' : nest'[k].end = code'[p].arg
    <3>. SUFFICES ASSUME NEW p \in DOMAIN code', code'[p].insn = "BRZ",
                         ~Marked(code', code'[p].arg)
                  PROVE  \E k \in DOMAIN nest' : nest'[k].end = code'[p].arg
      OBVIOUS
    <3>1. p \in DOMAIN code /\ code'[p] = code[p]
      BY <1>3, <2>7
    <3>2. PICK k \in DOMAIN nest : nest[k].end = code[p].arg
      BY <2>1, <2>2, <3>1 DEF LabelsOK
    <3>3. k # Len(nest)
      BY <2>4, <3>1, <3>2 DEF loop
    <3>4. k \in DOMAIN nest'
      BY <1>4, <1>6, <3>3
    <3>. QED BY <2>8, <3>1, <3>2, <3>4
  <2>14. \A k \in DOMAIN nest' : Marked(code', nest'[k].start)
    BY <2>1, <2>2, <2>8 DEF LabelsOK
  <2>. QED BY <2>9, <2>10, <2>11, <2>12, <2>13, <2>14 DEF LabelsOK
<1>9. Nested(entered, at)'
  <2>1. Nested(entered, at)
    BY <1>0 DEF GenInv
  <2>2. \A k \in Opens(flat) : k \in Int /\ EndOf(flat, k) \in Int /\ k # at
    <3>1. \A k \in Opens(flat) : k \in Int /\ EndOf(flat, k) \in Int /\ flat[k].op = "LOOP"
      BY <1>0, TreeCode DEF GenInv
    <3>. QED BY <1>4, <3>1
  <2>3. \A k \in DOMAIN entered' : /\ k \in DOMAIN entered /\ entered'[k] = entered[k]
                                   /\ k < Len(nest) /\ Len(nest) \in DOMAIN entered
    BY <1>4, <1>7
  <2>. DEFINE last == entered[Len(nest)].op
  <2>4. last \in Opens(flat) /\ EndOf(flat, last) = at /\ last < at
    BY <1>0, <1>4, TreeCode DEF GenInv
  <2>5. ASSUME NEW k \in DOMAIN entered'
        PROVE  /\ entered'[k].op \in Opens(flat) /\ entered'[k].op < at + 1
               /\ at + 1 <= EndOf(flat, entered'[k].op)
    <3>. DEFINE o == entered[k].op
    <3>1. o \in Opens(flat) /\ o < at /\ at <= EndOf(flat, o) /\ o < last
      BY <2>1, <2>3 DEF Nested
    <3>. HIDE DEF o, last
    <3>2. EndOf(flat, last) < EndOf(flat, o) \/ EndOf(flat, o) < last
      BY <1>0, <2>4, <3>1, TreeCode DEF GenInv
    <3>3. at + 1 <= EndOf(flat, o) /\ o < at + 1
      BY <1>2, <2>2, <2>4, <3>1, <3>2
    <3>. QED BY <2>3, <3>1, <3>3 DEF o
  <2>6. \A k, l \in DOMAIN entered' : k < l => entered'[k].op < entered'[l].op
    BY <2>1, <2>3 DEF Nested
  <2>7. ASSUME NEW o \in Opens(flat), o < at + 1, at + 1 <= EndOf(flat, o)
        PROVE  \E k \in DOMAIN entered' : entered'[k].op = o
    <3>1. o < at /\ at <= EndOf(flat, o) /\ EndOf(flat, o) # at
      BY <1>2, <2>2, <2>7
    <3>2. PICK k \in DOMAIN entered : entered[k].op = o
      BY <2>1, <3>1 DEF Nested
    <3>3. k # Len(nest)
      BY <1>4, <3>1, <3>2
    <3>4. k \in 1 .. Len(nest) - 1
      BY <1>4, <3>3
    <3>. QED BY <1>7, <3>2, <3>4
  <2>. QED BY <1>2, <2>5, <2>6, <2>7 DEF Nested
<1>10. coherent' \in BOOLEAN /\ finished' \in BOOLEAN /\ ~finished /\ Len(nest') = Len(entered')
  BY <1>0, <1>1, <1>2, <1>6, <1>7 DEF GenInv
<1>11. GenInv'
  BY <1>0, <1>1, <1>2, <1>3, <1>5, <1>6, <1>7, <1>8, <1>9, <1>10 DEF GenInv
<1>. QED BY <1>2, <1>10, <1>11, RunInvKept DEF TypeInv

\* The end of CompileProgram: stores of all that is cached.
LEMMA FinishGen ==
  ASSUME GenInv, Finish
  PROVE  \E order : /\ IsOrder(order, DOMAIN temporary_values)
                    /\ Stores(order) \in Seq(InsnSet(values))
                    /\ code' = code \o Stores(order)
                    /\ code' \in Seq(InsnSet(values)) /\ Quiet(code, code')
<1>. DEFINE order == SetToSeq(DOMAIN temporary_values)
<1>1. code' = code \o [k \in DOMAIN order |-> Stored(order[k])]
  BY DEF Finish
<1>2. /\ GenOK(Gen) /\ values \in Nat /\ values <= values /\ code \in Seq(InsnSet(values))
      /\ IsFiniteSet(DOMAIN temporary_values)
  BY GenRecord DEF GenInv
<1>3. IsOrder(order, DOMAIN temporary_values)
  BY <1>2, OrdersOf
<1>. HIDE DEF order
<1>4. code' = code \o Stores(order)
  BY <1>1 DEF Stores
<1>5. /\ Stores(order) \in Seq(InsnSet(values))
      /\ \A k \in DOMAIN Stores(order) : Stores(order)[k].insn \notin Marks
  BY <1>2, <1>3, StoresType DEF Marks
<1>6. code \o Stores(order) \in Seq(InsnSet(values)) /\ Quiet(code, code \o Stores(order))
  BY <1>2, <1>5, CodeGrows, QuietGrows
<1>. QED BY <1>3, <1>4, <1>5, <1>6

\* Its step keeps the invariant.
LEMMA TypeFinish ==
  ASSUME TypeInv, Finish
  PROVE  TypeInv'
<1>0. GenInv
  BY DEF TypeInv
<1>1. /\ ~finished /\ at > 0 /\ generated /\ finished' = TRUE
      /\ UNCHANGED <<flat, at, temporary_values, values, nest, labels, entered, coherent,
                     jit, plain>>
  BY DEF Finish
<1>2. code' \in Seq(InsnSet(values)) /\ Quiet(code, code')
  BY <1>0, FinishGen
<1>3. GenOK(Gen)'
  BY <1>0, <1>1, <1>2, GenRecord DEF GenOK, Gen, GenInv
<1>4. LabelsOK(code, nest, labels)'
  <2>1. LabelsOK(code', nest, labels)
    BY <1>0, <1>2, QuietLabels DEF GenInv
  <2>. QED BY <1>1, <2>1
<1>5. Nested(entered, at)' /\ generated'
  BY <1>0, <1>1 DEF GenInv, Nested, generated
<1>6. GenInv'
  BY <1>0, <1>1, <1>3, <1>4, <1>5 DEF GenInv
<1>. QED BY <1>1, <1>6, RunInvKept DEF TypeInv
-----------------------------------------------------------------------------
\* At the end of the code no loop is open.
LEMMA NoOpenLoops ==
  ASSUME GenInv, generated
  PROVE  at = Len(flat) + 1 /\ nest = << >> /\ DOMAIN nest = {}
<1>1. Len(flat) \in Nat /\ at = Len(flat) + 1
  BY TreeCode DEF GenInv, generated
<1>2. DOMAIN entered = {}
  <2>. SUFFICES ASSUME NEW k \in DOMAIN entered PROVE FALSE
    OBVIOUS
  <2>1. entered[k].op \in Opens(flat) /\ at <= EndOf(flat, entered[k].op)
    BY DEF GenInv, Nested
  <2>2. EndOf(flat, entered[k].op) \in 1 .. Len(flat)
    BY <2>1, TreeCode DEF GenInv
  <2>. QED BY <1>1, <2>1, <2>2
<1>3. Len(entered) = 0
  <2>1. Len(entered) \in Nat /\ DOMAIN entered = 1 .. Len(entered)
    BY LenProperties DEF GenInv
  <2>. QED BY <1>2, <2>1
<1>4. nest \in Seq(LoopLabels(labels)) /\ Len(nest) = 0
  BY <1>3 DEF GenInv
<1>5. nest = << >>
  BY <1>4, EmptySeq
<1>. QED BY <1>1, <1>5, NoCode

\* A label that has been placed is found.
LEMMA LabelPlace ==
  ASSUME NEW l, Marked(code, l)
  PROVE  LabelAt(l) \in DOMAIN code /\ code[LabelAt(l)].insn = "LABEL"
         /\ code[LabelAt(l)].arg = l
BY DEF Marked, LabelAt

\* Every branch of a finished function has its label.
LEMMA BranchesLand ==
  ASSUME GenInv, generated, NEW p \in DOMAIN code, code[p].insn \in {"BR", "BRZ"}
  PROVE  /\ LabelAt(code[p].arg) \in DOMAIN code
         /\ code[LabelAt(code[p].arg)].insn = "LABEL"
         /\ code[LabelAt(code[p].arg)].arg = code[p].arg
<1>1. DOMAIN nest = {} /\ LabelsOK(code, nest, labels)
  BY NoOpenLoops DEF GenInv
<1>2. Marked(code, code[p].arg)
  BY <1>1 DEF LabelsOK
<1>. QED BY <1>2, LabelPlace

\* A step of the run stays inside the function: a branch always has its label.
LEMMA TypeRun ==
  ASSUME TypeInv, RunStep
  PROVE  TypeInv'
<1>1. UNCHANGED genVars
  BY DEF RunStep, Run, RunInstruction, RunOpcode
<1>2. /\ UNCHANGED <<flat, at, temporary_values, values, code, nest, labels, finished>>
      /\ UNCHANGED <<entered, coherent>>
  BY <1>1 DEF genVars
<1>3. GenOK(Gen)'
  <2>1. Gen' = Gen
    BY <1>2 DEF Gen
  <2>. QED BY <2>1 DEF TypeInv, GenInv, GenOK
<1>4. LabelsOK(code, nest, labels)' /\ Nested(entered, at)'
  BY <1>2 DEF TypeInv, GenInv, Nested, LabelsOK
<1>5. GenInv'
  BY <1>2, <1>3, <1>4 DEF TypeInv, GenInv, generated
<1>6. /\ values \in Nat /\ code \in Seq(InsnSet(values)) /\ Len(code) \in Nat
      /\ DOMAIN code = 1 .. Len(code) /\ Len(flat) \in Nat /\ IsTreeCode(flat)
  BY GenRecord, TreeCode DEF TypeInv, GenInv
<1>7. CASE Run
  <2>1. PICK input \in Stdin, unset \in Unset :
          /\ jit' = [pc |-> 1, m |-> Loaded(input), v |-> [r \in 0 .. values |-> unset]]
          /\ plain' = [pc |-> 1, m |-> Loaded(input)]
    BY <1>7 DEF Run
  <2>2. Loaded(input) \in Machine /\ unset \in Cell
    BY VMAssumption, LoadedType
  <2>3. finished
    BY <1>7 DEF Run
  <2>4. RunInv'
    BY <1>2, <1>6, <2>1, <2>2, <2>3 DEF RunInv, Place, Values
  <2>. QED BY <1>5, <2>4 DEF TypeInv
<1>8. CASE RunInstruction
  <2>. DEFINE i == code[jit.pc]
              done == Does(i, jit.m, jit.v)
  <2>1. /\ jit.pc \in 1 .. Len(code) /\ jit.pc > 0
        /\ jit' = [pc |-> Goes(i, jit.pc, jit.v), m |-> done.m, v |-> done.v]
        /\ plain' = IF i.insn \in Effective /\ ~Stopped(flat, plain)
                    THEN Interpreted(flat, plain) ELSE plain
    BY <1>6, <1>8 DEF RunInstruction
  <2>2. finished /\ jit.m \in Machine /\ jit.v \in Values(values) /\ generated
    BY <2>1 DEF TypeInv, RunInv, GenInv
  <2>3. i \in InsnSet(values)
    BY <1>6, <2>1, ElementOfSeq
  <2>4. done.m \in Machine /\ done.v \in Values(values)
    BY <1>6, <2>2, <2>3, DoesType
  <2>5. Goes(i, jit.pc, jit.v) \in 1 .. Len(code) + 1
    <3>1. i.insn \in {"BR", "BRZ"} => LabelAt(i.arg) \in DOMAIN code
      BY <1>6, <2>1, <2>2, BranchesLand DEF TypeInv
    <3>. QED BY <1>6, <2>1, <3>1 DEF Goes
  <2>6. plain \in Place(flat) /\ plain.pc # 0 /\ plain.pc > 0
    BY <2>1 DEF TypeInv, RunInv, Place
  <2>7. plain' \in Place(flat) /\ plain'.pc # 0
    <3>1. ~Stopped(flat, plain) => Interpreted(flat, plain) \in Place(flat)
                                   /\ Interpreted(flat, plain).pc > 0
      BY <1>6, <2>6, InterpretedType
    <3>. QED BY <2>1, <2>6, <3>1 DEF Place
  <2>. HIDE DEF i, done
  <2>8. /\ jit'.pc = Goes(i, jit.pc, jit.v) /\ jit'.m = done.m /\ jit'.v = done.v
    BY <2>1
  <2>9. RunInv'
    BY <1>2, <1>6, <2>2, <2>4, <2>5, <2>7, <2>8 DEF RunInv
  <2>. QED BY <1>5, <2>9 DEF TypeInv
<1>9. CASE RunOpcode
  <2>1. /\ jit.pc > Len(code) /\ plain.pc > 0 /\ plain' = Interpreted(flat, plain)
        /\ ~Stopped(flat, plain) /\ jit' = jit /\ plain \in Place(flat)
    BY <1>9 DEF RunOpcode, TypeInv, RunInv
  <2>2. plain' \in Place(flat) /\ plain'.pc > 0
    BY <1>6, <2>1, InterpretedType
  <2>3. RunInv'
    BY <1>2, <1>6, <2>1, <2>2 DEF TypeInv, RunInv, Place
  <2>. QED BY <1>5, <2>3 DEF TypeInv
<1>. QED BY <1>7, <1>8, <1>9 DEF RunStep

\* Every step keeps the invariant.
LEMMA TypeStep == TypeInv /\ [VMNext]_vmVars => TypeInv'
<1>. SUFFICES ASSUME TypeInv, [VMNext]_vmVars PROVE TypeInv'
  OBVIOUS
<1>1. CASE \E ops \in {flat'} : IsTreeCode(ops) /\ BeginCompilation(ops)
  BY <1>1, TypeBegin
<1>2. CASE CompileStep
  BY <1>2, TypeOpcode, TypeShift, TypeBeginLoop, TypeEndLoop, TypeFinish DEF CompileStep
<1>3. CASE RunStep
  BY <1>3, TypeRun
<1>4. CASE UNCHANGED vmVars
  <2>1. /\ UNCHANGED <<flat, at, temporary_values, values, code, nest, labels, finished>>
        /\ UNCHANGED <<entered, coherent>> /\ jit' = jit /\ plain' = plain
    BY <1>4 DEF vmVars, genVars
  <2>2. GenInv /\ RunInv
    BY DEF TypeInv
  <2>3. Gen' = Gen
    BY <2>1 DEF Gen
  <2>4. LabelsOK(code, nest, labels)' /\ Nested(entered, at)' /\ GenOK(Gen)'
    BY <2>1, <2>2, <2>3 DEF GenInv, LabelsOK, Nested, GenOK
  <2>5. GenInv'
    BY <2>1, <2>2, <2>4 DEF GenInv, generated
  <2>6. RunInv'
    BY <2>1, <2>2 DEF RunInv
  <2>. QED BY <2>5, <2>6 DEF TypeInv
<1>. QED BY <1>1, <1>2, <1>3, <1>4 DEF VMNext

\* BfVM, for every program, tape, size of a cell and input: no two cells share a
\* value, instructions use only values that exist, every open loop has its labels,
\* and a jump always leads to an instruction of the function.
THEOREM VMTypeCorrect == VMSpec => []VMTypeOK
<1>1. VMSpec => []TypeInv
  BY TypeInit, TypeStep, PTL DEF VMSpec
<1>. QED BY <1>1, TypeInvTypes, PTL
-----------------------------------------------------------------------------
(***************************************************************************)
(* Notes for a sequence of instructions, one before each and one at the    *)
(* end: the opcodes only advance, and each instruction leads from its note *)
(* to the next.                                                            *)
(***************************************************************************)
Fits(N, c, n) ==
  /\ DOMAIN N = 1 .. Len(c) + 1
  /\ \A p \in 1 .. Len(c) + 1 : N[p].op \in 1 .. Len(flat) + 1 /\ MapOK(N[p].map, n)
  /\ \A p, q \in 1 .. Len(c) + 1 : p <= q => N[p].op <= N[q].op
  /\ \A p \in 1 .. Len(c) : Takes(c[p], N[p], N[p + 1])

\* A branch leads to a place with the note that its opcode leads to.
Landing(N, c) ==
  \A p, q \in DOMAIN c :
    c[q].insn = "LABEL" /\ c[q].arg = c[p].arg =>
      /\ c[p].insn = "BRZ" => N[q] = Note(EndOf(flat, N[p].op) + 1, N[p].map)
      /\ c[p].insn = "BR" => N[q] = Note(N[p].op + flat[N[p].op].arg, N[p].map)

\* What the marks of the loops that are still open will need.
OpenNotes(N, c, loops, opened) ==
  \A k \in DOMAIN loops, p \in DOMAIN c :
    /\ c[p].insn = "BRZ" /\ c[p].arg = loops[k].end => N[p] = opened[k]
    /\ c[p].insn = "LABEL" /\ c[p].arg = loops[k].start => N[p] = opened[k]
    /\ c[p].insn = "BR" => c[p].arg # loops[k].end

\* Notes for code, followed by notes for what is appended to it.
Joined(N, e, l) == [p \in 1 .. l + Len(e) |-> IF p <= l THEN N[p] ELSE e[p - l]]

Joins(N, e, l, k, M) ==
  /\ \A p \in 1 .. l + 1 : M[p] = N[p]
  /\ \A p \in 1 .. k + 1 : M[l + p] = e[p]

\* They fit if they agree where they meet.
LEMMA JoinFits ==
  ASSUME flat \in Seq(FlatOp), NEW n \in Nat, NEW r \in Nat, n <= r,
         NEW c \in Seq(InsnSet(n)), NEW d \in Seq(InsnSet(r)),
         NEW N, Fits(N, c, n), NEW e, Fits(e, d, r), e[1] = N[Len(c) + 1]
  PROVE  \E M : Fits(M, c \o d, r) /\ Joins(N, e, Len(c), Len(d), M)
<1>. DEFINE l == Len(c)
            k == Len(d)
            M == [p \in 1 .. l + k + 1 |-> IF p <= l THEN N[p] ELSE e[p - l]]
            f == c \o d
<1>1. /\ l \in Nat /\ k \in Nat /\ Len(f) = l + k
      /\ \A p \in 1 .. l : f[p] = c[p]
      /\ \A p \in 1 .. k : f[l + p] = d[p]
  <2>1. Grown(InsnSet(r), c, d)
    BY CodeGrown
  <2>. QED BY <2>1 DEF Grown
<1>2. Len(flat) \in Nat
  BY LenProperties
<1>3. /\ \A p \in 1 .. l + 1 : N[p].op \in 1 .. Len(flat) + 1 /\ MapOK(N[p].map, n)
      /\ \A p, q \in 1 .. l + 1 : p <= q => N[p].op <= N[q].op
      /\ \A p \in 1 .. l : Takes(c[p], N[p], N[p + 1])
  BY DEF Fits
<1>4. /\ \A p \in 1 .. k + 1 : e[p].op \in 1 .. Len(flat) + 1 /\ MapOK(e[p].map, r)
      /\ \A p, q \in 1 .. k + 1 : p <= q => e[p].op <= e[q].op
      /\ \A p \in 1 .. k : Takes(d[p], e[p], e[p + 1])
  BY DEF Fits
<1>5. e[1] = N[l + 1]
  OBVIOUS
<1>. HIDE DEF l, k, f
<1>6. /\ DOMAIN M = 1 .. l + k + 1
      /\ \A p \in 1 .. l + 1 : M[p] = N[p]
      /\ \A p \in 1 .. k + 1 : M[l + p] = e[p]
  <2>1. \A p \in 1 .. l + 1 : M[p] = N[p]
    <3>. TAKE p \in 1 .. l + 1
    <3>1. CASE p <= l
      BY <1>1, <3>1
    <3>2. CASE ~(p <= l)
      <4>1. p = l + 1 /\ p - l = 1
        BY <1>1, <3>2
      <4>. QED BY <1>1, <1>5, <3>2, <4>1
    <3>. QED BY <3>1, <3>2
  <2>2. \A p \in 1 .. k + 1 : M[l + p] = e[p]
    <3>. TAKE p \in 1 .. k + 1
    <3>1. l + p \in 1 .. l + k + 1 /\ ~(l + p <= l) /\ (l + p) - l = p
      BY <1>1
    <3>. QED BY <3>1
  <2>. QED BY <1>1, <2>1, <2>2
<1>. HIDE DEF M
<1>7. \A p \in 1 .. l + k + 1 :
        \/ p \in 1 .. l
        \/ p - l \in 1 .. k + 1 /\ p = l + (p - l)
  BY <1>1
<1>8. \A p \in 1 .. l + k + 1 : M[p].op \in 1 .. Len(flat) + 1 /\ MapOK(M[p].map, r)
  <2>. TAKE p \in 1 .. l + k + 1
  <2>1. CASE p \in 1 .. l
    <3>1. p \in 1 .. l + 1
      BY <1>1, <2>1
    <3>2. M[p] = N[p] /\ N[p].op \in 1 .. Len(flat) + 1 /\ MapOK(N[p].map, n)
      BY <1>3, <1>6, <3>1
    <3>. QED BY <3>2, MapGrows
  <2>2. CASE p - l \in 1 .. k + 1 /\ p = l + (p - l)
    <3>1. M[p] = e[p - l]
      BY <1>6, <2>2
    <3>. QED BY <1>4, <2>2, <3>1
  <2>. QED BY <1>7, <2>1, <2>2
<1>9. \A p, q \in 1 .. l + k + 1 : p <= q => M[p].op <= M[q].op
  <2>. SUFFICES ASSUME NEW p \in 1 .. l + k + 1, NEW q \in 1 .. l + k + 1, p <= q
                PROVE  M[p].op <= M[q].op
    OBVIOUS
  <2>1. CASE q <= l
    <3>1. p \in 1 .. l + 1 /\ q \in 1 .. l + 1
      BY <1>1, <2>1
    <3>. QED BY <1>3, <1>6, <3>1
  <2>2. CASE ~(q <= l) /\ p <= l
    <3>1. p \in 1 .. l + 1 /\ l + 1 \in 1 .. l + 1 /\ q - l \in 1 .. k + 1 /\ q = l + (q - l)
          /\ 1 \in 1 .. k + 1 /\ p <= l + 1 /\ 1 <= q - l
      BY <1>1, <2>2
    <3>2. M[p] = N[p] /\ M[q] = e[q - l]
      BY <1>6, <3>1
    <3>3. N[p].op <= N[l + 1].op /\ e[1].op <= e[q - l].op
      BY <1>3, <1>4, <3>1
    <3>4. /\ N[p].op \in Int /\ N[l + 1].op \in Int /\ e[q - l].op \in Int
      BY <1>2, <1>3, <1>4, <3>1
    <3>. QED BY <1>5, <3>2, <3>3, <3>4
  <2>3. CASE ~(q <= l) /\ ~(p <= l)
    <3>1. /\ p - l \in 1 .. k + 1 /\ p = l + (p - l) /\ q - l \in 1 .. k + 1
          /\ q = l + (q - l) /\ p - l <= q - l
      BY <1>1, <2>3
    <3>2. M[p] = e[p - l] /\ M[q] = e[q - l]
      BY <1>6, <3>1
    <3>. QED BY <1>4, <3>1, <3>2
  <2>. QED BY <2>1, <2>2, <2>3
<1>10. \A p \in 1 .. l + k : Takes(f[p], M[p], M[p + 1])
  <2>. TAKE p \in 1 .. l + k
  <2>1. CASE p \in 1 .. l
    <3>1. p \in 1 .. l + 1 /\ p + 1 \in 1 .. l + 1
      BY <1>1, <2>1
    <3>2. M[p] = N[p] /\ M[p + 1] = N[p + 1] /\ f[p] = c[p]
      BY <1>1, <1>6, <2>1, <3>1
    <3>. QED BY <1>3, <2>1, <3>2
  <2>2. CASE p \notin 1 .. l
    <3>1. PICK x \in 1 .. k : p = l + x
      <4>1. p - l \in 1 .. k /\ p = l + (p - l)
        BY <1>1, <2>2
      <4>. QED BY <4>1
    <3>2. x \in 1 .. k + 1 /\ x + 1 \in 1 .. k + 1 /\ p + 1 = l + (x + 1)
      BY <1>1, <3>1
    <3>3. M[l + x] = e[x] /\ M[l + (x + 1)] = e[x + 1] /\ f[l + x] = d[x]
      BY <1>1, <1>6, <3>1, <3>2
    <3>. QED BY <1>4, <3>1, <3>2, <3>3
  <2>. QED BY <2>1, <2>2
<1>11. Fits(M, f, r)
  BY <1>1, <1>6, <1>8, <1>9, <1>10 DEF Fits
<1>12. Joins(N, e, l, k, M)
  BY <1>6 DEF Joins
<1>. QED BY <1>11, <1>12 DEF f, l, k

\* Code without marks does not disturb where branches land.
LEMMA QuietNotes ==
  ASSUME NEW c, NEW d, Quiet(c, d), NEW N, NEW M, \A p \in DOMAIN c : M[p] = N[p],
         NEW loops, NEW opened
  PROVE  /\ Landing(N, c) => Landing(M, d)
         /\ OpenNotes(N, c, loops, opened) => OpenNotes(M, d, loops, opened)
<1>1. \A p \in DOMAIN d : d[p].insn \in Marks => p \in DOMAIN c /\ d[p] = c[p] /\ M[p] = N[p]
  BY DEF Quiet
<1>2. ASSUME Landing(N, c) PROVE Landing(M, d)
  BY <1>1, <1>2 DEF Landing, Marks
<1>3. ASSUME OpenNotes(N, c, loops, opened) PROVE OpenNotes(M, d, loops, opened)
  BY <1>1, <1>3 DEF OpenNotes, Marks
<1>. QED BY <1>2, <1>3

\* The notes N annotate all of the code, and tip is the note at its end.
Good(N, c, n, tip) ==
  /\ Fits(N, c, n) /\ Landing(N, c) /\ OpenNotes(N, c, nest, entered)
  /\ N[1] = Note(1, << >>) /\ N[Len(c) + 1] = tip

\* Good notes can be continued over code without marks.
LEMMA GoodGrows ==
  ASSUME flat \in Seq(FlatOp), NEW n \in Nat, NEW r \in Nat, n <= r,
         NEW c \in Seq(InsnSet(n)), NEW d \in Seq(InsnSet(r)),
         \A p \in DOMAIN d : d[p].insn \notin Marks,
         NEW N, NEW tip, Good(N, c, n, tip), NEW e, Fits(e, d, r), e[1] = tip
  PROVE  \E M : Good(M, c \o d, r, e[Len(d) + 1])
<1>1. Fits(N, c, n) /\ e[1] = N[Len(c) + 1]
  BY DEF Good
<1>2. PICK M : Fits(M, c \o d, r) /\ Joins(N, e, Len(c), Len(d), M)
  BY <1>1, JoinFits
<1>3. /\ Len(c) \in Nat /\ Len(d) \in Nat /\ Len(c \o d) = Len(c) + Len(d)
      /\ DOMAIN c = 1 .. Len(c)
  <2>1. Grown(InsnSet(r), c, d)
    BY CodeGrown
  <2>. QED BY <2>1 DEF Grown
<1>4. /\ \A p \in 1 .. Len(c) + 1 : M[p] = N[p]
      /\ \A p \in 1 .. Len(d) + 1 : M[Len(c) + p] = e[p]
  BY <1>2 DEF Joins
<1>5. /\ \A p \in DOMAIN c : M[p] = N[p]
      /\ M[1] = N[1]
      /\ M[Len(c) + Len(d) + 1] = e[Len(d) + 1]
  <2>1. /\ \A p \in 1 .. Len(c) : p \in 1 .. Len(c) + 1
        /\ 1 \in 1 .. Len(c) + 1 /\ Len(d) + 1 \in 1 .. Len(d) + 1
        /\ Len(c) + Len(d) + 1 = Len(c) + (Len(d) + 1)
    BY <1>3
  <2>2. M[Len(c) + (Len(d) + 1)] = e[Len(d) + 1] /\ M[1] = N[1]
    BY <1>4, <2>1
  <2>3. \A p \in DOMAIN c : M[p] = N[p]
    BY <1>3, <1>4, <2>1
  <2>. QED BY <2>1, <2>2, <2>3
<1>6. Quiet(c, c \o d)
  BY QuietGrows
<1>7. Landing(M, c \o d) /\ OpenNotes(M, c \o d, nest, entered)
  BY <1>5, <1>6, QuietNotes DEF Good
<1>. QED BY <1>2, <1>3, <1>5, <1>7 DEF Good
-----------------------------------------------------------------------------
\* Notes for a single instruction.
LEMMA TwoNotes ==
  ASSUME flat \in Seq(FlatOp), NEW r \in Nat, NEW i \in InsnSet(r),
         NEW a, NEW b, a.op \in 1 .. Len(flat) + 1, MapOK(a.map, r),
         b.op \in 1 .. Len(flat) + 1, MapOK(b.map, r), a.op <= b.op, Takes(i, a, b)
  PROVE  LET e == [x \in 1 .. 2 |-> IF x = 1 THEN a ELSE b] IN
         /\ Fits(e, << i >>, r) /\ e[1] = a /\ e[2] = b /\ e[Len(<< i >>) + 1] = b
<1>. DEFINE e == [x \in 1 .. 2 |-> IF x = 1 THEN a ELSE b]
            d == << i >>
<1>1. DOMAIN e = 1 .. 2 /\ e[1] = a /\ e[2] = b
  OBVIOUS
<1>2. Len(d) = 1 /\ d[1] = i
  BY OneInsn
<1>3. Len(flat) \in Nat /\ a.op \in Int /\ b.op \in Int
  <2>1. Len(flat) \in Nat
    BY LenProperties
  <2>. QED BY <2>1
<1>. HIDE DEF e, d
<1>4. \A x \in 1 .. Len(d) + 1 : e[x].op \in 1 .. Len(flat) + 1 /\ MapOK(e[x].map, r)
  BY <1>1, <1>2
<1>5. \A x, y \in 1 .. Len(d) + 1 : x <= y => e[x].op <= e[y].op
  <2>1. \A x \in 1 .. Len(d) + 1 : x = 1 \/ x = 2
    BY <1>2
  <2>. QED BY <1>1, <1>3, <2>1
<1>6. \A x \in 1 .. Len(d) : Takes(d[x], e[x], e[x + 1])
  <2>1. \A x \in 1 .. Len(d) : x = 1 /\ x + 1 = 2
    BY <1>2
  <2>. QED BY <1>1, <1>2, <2>1
<1>7. Fits(e, d, r)
  BY <1>1, <1>2, <1>4, <1>5, <1>6 DEF Fits
<1>. QED BY <1>1, <1>2, <1>7 DEF e, d

\* The last note is a note.
LEMMA TipOK ==
  ASSUME NEW N, NEW n \in Nat, NEW c \in Seq(InsnSet(n)), NEW tip, Good(N, c, n, tip)
  PROVE  tip.op \in 1 .. Len(flat) + 1 /\ MapOK(tip.map, n)
<1>1. Len(c) + 1 \in 1 .. Len(c) + 1
  BY LenProperties
<1>. QED BY <1>1 DEF Good, Fits

\* Good notes can be continued over one instruction without a mark.
LEMMA GoodStep ==
  ASSUME flat \in Seq(FlatOp), NEW n \in Nat, NEW r \in Nat, n <= r,
         NEW c \in Seq(InsnSet(n)), NEW i \in InsnSet(r), i.insn \notin Marks,
         NEW N, NEW tip, Good(N, c, n, tip),
         NEW b, b.op \in 1 .. Len(flat) + 1, MapOK(b.map, r), tip.op <= b.op, Takes(i, tip, b)
  PROVE  \E M : Good(M, c \o << i >>, r, b)
<1>1. tip.op \in 1 .. Len(flat) + 1 /\ MapOK(tip.map, r)
  BY TipOK, MapGrows
<1>. DEFINE e == [x \in 1 .. 2 |-> IF x = 1 THEN tip ELSE b]
            d == << i >>
<1>2. Fits(e, d, r) /\ e[1] = tip /\ e[Len(d) + 1] = b
  BY <1>1, TwoNotes
<1>3. d \in Seq(InsnSet(r)) /\ \A p \in DOMAIN d : d[p].insn \notin Marks
  BY OneInsn
<1>. HIDE DEF e, d
<1>4. \E M : Good(M, c \o d, r, e[Len(d) + 1])
  BY <1>2, <1>3, GoodGrows
<1>. QED BY <1>2, <1>4 DEF d

\* Over what LoadCached emits.
LEMMA LoadGood ==
  ASSUME flat \in Seq(FlatOp), NEW g, NEW h, GenOK(g), GenOK(h), NEW k \in Int, Loads(g, h, k),
         NEW op \in DOMAIN flat, NEW N, Good(N, g.code, g.values, Note(op, g.map))
  PROVE  \E M : Good(M, h.code, h.values, Note(op, h.map))
<1>1. CASE h = g
  BY <1>1
<1>2. CASE h # g
  <2>1. /\ k \notin DOMAIN g.map
        /\ h.map = Caching(g.map, k, g.values + 1) /\ h.values = g.values + 1
        /\ h.code = g.code \o << Insn("LOAD", g.values + 1, 0, k) >>
    BY <1>2 DEF Loads
  <2>. DEFINE i == Insn("LOAD", g.values + 1, 0, k)
              a == Note(op, g.map)
              b == Note(op, h.map)
  <2>2. g.values \in Nat /\ h.values \in Nat /\ g.values <= h.values
        /\ g.code \in Seq(InsnSet(g.values)) /\ MapOK(h.map, h.values) /\ MapOK(g.map, g.values)
    BY <2>1 DEF GenOK
  <2>3. i \in InsnSet(h.values) /\ i.insn = "LOAD" /\ i.dst = g.values + 1 /\ i.arg = k
    <3>. DEFINE r == g.values + 1
    <3>1. "LOAD" \in InsnKinds
      BY DEF InsnKinds
    <3>2. r \in 0 .. h.values /\ 0 \in 0 .. h.values
      BY <2>1, <2>2
    <3>. HIDE DEF r, i
    <3>3. /\ Insn("LOAD", r, 0, k) \in InsnSet(h.values)
          /\ Insn("LOAD", r, 0, k).insn = "LOAD" /\ Insn("LOAD", r, 0, k).dst = r
          /\ Insn("LOAD", r, 0, k).arg = k
      BY <2>2, <3>1, <3>2, InsnIn
    <3>. QED BY <3>3 DEF i, r
  <2>4. a.op = op /\ a.map = g.map /\ b.op = op /\ b.map = h.map
    BY DEF Note
  <2>5. op \in 1 .. Len(flat) + 1 /\ op \in Int
    <3>1. DOMAIN flat = 1 .. Len(flat) /\ Len(flat) \in Nat
      BY LenProperties
    <3>. QED BY <3>1
  <2>6. b = Note(a.op, Caching(a.map, i.arg, i.dst))
    BY <2>1, <2>3, <2>4
  <2>. HIDE DEF i, a, b
  <2>7. \A l \in DOMAIN g.map : g.map[l] # g.values + 1
    <3>1. \A l \in DOMAIN g.map : g.map[l] \in 1 .. g.values
      BY <2>2 DEF MapOK
    <3>. QED BY <2>2, <3>1
  <2>8. Spare(i, a)
    BY <2>2, <2>3, <2>4, <2>7 DEF Spare
  <2>9. Takes(i, a, b)
    BY <2>1, <2>3, <2>4, <2>6, <2>8 DEF Takes
  <2>10. i.insn \notin Marks /\ a.op <= b.op
    BY <2>3, <2>4, <2>5 DEF Marks
  <2>11. \E M : Good(M, g.code \o << i >>, h.values, b)
    BY <2>2, <2>3, <2>4, <2>5, <2>9, <2>10, GoodStep DEF a
  <2>. QED BY <2>1, <2>11 DEF i, b
<1>. QED BY <1>1, <1>2

\* Over what CompileOpcode emits.
LEMMA NotesOpcode ==
  ASSUME GenInv, CompileOpcode, NEW N, Good(N, code, values, Note(at, temporary_values))
  PROVE  \E M : Good(M, code', values', Note(at + 1, temporary_values'))
<1>. DEFINE o == flat[at]
<1>1. PICK g1, g2 :
           LET i == OnValues(o, g2.map) IN
           /\ at \in DOMAIN flat /\ o \in FlatOp /\ o.op \in ValueOps
           /\ Loads(Gen, g1, o.src) /\ Loads(g1, g2, o.dst)
           /\ GenOK(g1) /\ GenOK(g2) /\ values <= g1.values /\ g1.values <= g2.values
           /\ o.src \in DOMAIN g2.map /\ o.dst \in DOMAIN g2.map
           /\ i \in InsnSet(g2.values) /\ i.insn \notin Marks
           /\ Quiet(code, g2.code) /\ Quiet(g2.code, code')
           /\ GenOK(Gen)' /\ temporary_values' = g2.map /\ values' = g2.values
           /\ code' = g2.code \o << i >>
  BY OpcodeGen
<1>2. /\ flat \in Seq(FlatOp) /\ GenOK(Gen) /\ o.src \in Int /\ o.dst \in Int
      /\ Gen.map = temporary_values /\ Gen.values = values /\ Gen.code = code
      /\ at \in 1 .. Len(flat) + 1 /\ at + 1 \in 1 .. Len(flat) + 1 /\ at \in Int
  <2>1. /\ flat \in Seq(FlatOp) /\ DOMAIN flat = 1 .. Len(flat) /\ Len(flat) \in Nat
    BY TreeCode DEF GenInv
  <2>2. o.src \in Int /\ o.dst \in Int
    BY <1>1 DEF FlatOp
  <2>. QED BY <1>1, <2>1, <2>2, GenRecord DEF GenInv
<1>3. PICK N1 : Good(N1, g1.code, g1.values, Note(at, g1.map))
  BY <1>1, <1>2, LoadGood
<1>4. PICK N2 : Good(N2, g2.code, g2.values, Note(at, g2.map))
  BY <1>1, <1>2, <1>3, LoadGood
<1>. DEFINE i == OnValues(o, g2.map)
            a == Note(at, g2.map)
            b == Note(at + 1, g2.map)
<1>5. a.op = at /\ a.map = g2.map /\ b.op = at + 1 /\ b.map = g2.map
  BY DEF Note
<1>6. Takes(i, a, b)
  BY <1>1, <1>5 DEF Takes
<1>7. /\ g2.values \in Nat /\ g2.values <= g2.values /\ g2.code \in Seq(InsnSet(g2.values))
      /\ MapOK(g2.map, g2.values) /\ i \in InsnSet(g2.values) /\ i.insn \notin Marks
      /\ a.op <= b.op
  BY <1>1, <1>2, <1>5 DEF GenOK
<1>. HIDE DEF i, a, b
<1>8. \E M : Good(M, g2.code \o << i >>, g2.values, b)
  BY <1>2, <1>4, <1>5, <1>6, <1>7, GoodStep DEF a
<1>. QED BY <1>1, <1>8 DEF i, b
-----------------------------------------------------------------------------
\* The notes of the stores of some cells, in some order.
StoreNotes(op, f) ==
  [x \in 1 .. Len(f) + 1 |->
     Note(op, Keep(temporary_values,
                   DOMAIN temporary_values \ {f[y] : y \in 1 .. x - 1}))]

\* The stores of a shift, or of the end, drop one entry of the map each.
LEMMA StoresFit ==
  ASSUME GenOK(Gen), flat \in Seq(FlatOp), NEW op \in 1 .. Len(flat) + 1,
         NEW S, S \subseteq DOMAIN temporary_values, NEW f, IsOrder(f, S)
  PROVE  /\ Fits(StoreNotes(op, f), Stores(f), values)
         /\ StoreNotes(op, f)[1] = Note(op, temporary_values)
         /\ StoreNotes(op, f)[Len(Stores(f)) + 1]
              = Note(op, Keep(temporary_values, DOMAIN temporary_values \ S))
<1>. DEFINE T == temporary_values
            D == DOMAIN T
            Rest(x) == D \ {f[y] : y \in 1 .. x - 1}
            e == StoreNotes(op, f)
            d == Stores(f)
<1>1. /\ Len(f) \in Nat /\ DOMAIN f = 1 .. Len(f) /\ \A x \in 1 .. Len(f) : f[x] \in S
      /\ \A x, y \in 1 .. Len(f) : x # y => f[x] # f[y]
      /\ \A k \in S : \E x \in 1 .. Len(f) : f[x] = k
  BY OrderType DEF IsOrder
<1>2. /\ Len(d) = Len(f)
      /\ \A x \in 1 .. Len(f) : /\ d[x].insn = "STORE" /\ d[x].arg = f[x]
                                /\ d[x].src = T[f[x]]
  BY <1>1, StoresType
<1>3. DOMAIN e = 1 .. Len(f) + 1 /\ \A x \in 1 .. Len(f) + 1 : e[x] = Note(op, Keep(T, Rest(x)))
  BY DEF StoreNotes
<1>4. values \in Nat /\ MapOK(T, values) /\ T \in Maps
  BY GenRecord
<1>. HIDE DEF e, d, T
<1>5. \A R : R \subseteq D => MapOK(Keep(T, R), values)
  BY <1>4 DEF MapOK, Keep
<1>6. Keep(T, D) = T
  BY <1>4, OfMaps DEF Keep
<1>7. Rest(1) = D /\ Rest(Len(f) + 1) = D \ S
  <2>1. {f[y] : y \in 1 .. 1 - 1} = {}
    <3>1. 1 .. 1 - 1 = {}
      OBVIOUS
    <3>. QED BY <3>1
  <2>2. {f[y] : y \in 1 .. Len(f) + 1 - 1} = S
    <3>1. Len(f) + 1 - 1 = Len(f)
      BY <1>1
    <3>2. {f[y] : y \in 1 .. Len(f)} = S
      BY <1>1
    <3>. QED BY <3>1, <3>2
  <2>3. Rest(1) = D
    <3>1. Rest(1) = D \ {f[y] : y \in 1 .. 1 - 1}
      OBVIOUS
    <3>. HIDE DEF Rest, D
    <3>. QED BY <2>1, <3>1
  <2>4. Rest(Len(f) + 1) = D \ S
    <3>1. Rest(Len(f) + 1) = D \ {f[y] : y \in 1 .. Len(f) + 1 - 1}
      OBVIOUS
    <3>. HIDE DEF Rest, D
    <3>. QED BY <2>2, <3>1
  <2>. QED BY <2>3, <2>4
<1>8. ASSUME NEW x \in 1 .. Len(f) PROVE f[x] \in Rest(x) /\ Rest(x + 1) = Rest(x) \ {f[x]}
  <2>1. x + 1 - 1 = x /\ 1 .. x = (1 .. x - 1) \cup {x} /\ x \notin 1 .. x - 1
        /\ \A y \in 1 .. x - 1 : y \in 1 .. Len(f) /\ y # x
    BY <1>1
  <2>2. \A y \in 1 .. x - 1 : f[y] # f[x]
    BY <1>1, <2>1
  <2>3. {f[y] : y \in 1 .. x} = {f[y] : y \in 1 .. x - 1} \cup {f[x]}
    BY <2>1
  <2>4. {f[y] : y \in 1 .. x + 1 - 1} = {f[y] : y \in 1 .. x}
    BY <2>1
  <2>5. f[x] \in D
    BY <1>1 DEF T
  <2>. QED BY <2>2, <2>3, <2>4, <2>5
<1>. HIDE DEF Rest
<1>9. \A x \in 1 .. Len(f) : Without(Keep(T, Rest(x)), f[x]) = Keep(T, Rest(x + 1))
  <2>. TAKE x \in 1 .. Len(f)
  <2>1. DOMAIN Keep(T, Rest(x)) = Rest(x) /\ \A k \in Rest(x) : Keep(T, Rest(x))[k] = T[k]
    BY DEF Keep
  <2>. QED BY <1>8, <2>1 DEF Without, Keep
<1>10. \A x \in 1 .. Len(f) : f[x] \in DOMAIN Keep(T, Rest(x)) /\ Keep(T, Rest(x))[f[x]] = T[f[x]]
  BY <1>8 DEF Keep
<1>11. \A x \in 1 .. Len(f) + 1 : e[x].op = op /\ e[x].map = Keep(T, Rest(x)) /\ Rest(x) \subseteq D
  <2>1. \A x : Rest(x) \subseteq D
    BY DEF Rest
  <2>. HIDE DEF D
  <2>2. \A R : Note(op, R).op = op /\ Note(op, R).map = R
    BY DEF Note
  <2>. QED BY <1>3, <2>1, <2>2
<1>12. \A x \in 1 .. Len(f) : Takes(d[x], e[x], e[x + 1])
  <2>. TAKE x \in 1 .. Len(f)
  <2>1. x \in 1 .. Len(f) + 1 /\ x + 1 \in 1 .. Len(f) + 1
    BY <1>1
  <2>2. e[x + 1] = Note(e[x].op, Without(e[x].map, d[x].arg))
    BY <1>2, <1>3, <1>9, <1>11, <2>1
  <2>3. d[x].arg \in DOMAIN e[x].map /\ d[x].src = e[x].map[d[x].arg] /\ d[x].insn = "STORE"
    BY <1>2, <1>10, <1>11, <2>1
  <2>. QED BY <2>2, <2>3 DEF Takes
<1>13. Fits(e, d, values)
  <2>1. op \in Int
    BY LenProperties
  <2>. QED BY <1>2, <1>3, <1>5, <1>11, <1>12, <2>1 DEF Fits
<1>14. 1 \in 1 .. Len(f) + 1 /\ Len(f) + 1 \in 1 .. Len(f) + 1
  BY <1>1
<1>15. e[1] = Note(op, T) /\ e[Len(d) + 1] = Note(op, Keep(T, D \ S))
  <2>. HIDE DEF D
  <2>1. e[1] = Note(op, Keep(T, Rest(1)))
    BY <1>3, <1>14
  <2>2. e[Len(f) + 1] = Note(op, Keep(T, Rest(Len(f) + 1)))
    BY <1>3, <1>14
  <2>3. e[1] = Note(op, T)
    BY <1>6, <1>7, <2>1
  <2>4. e[Len(f) + 1] = Note(op, Keep(T, D \ S))
    BY <1>7, <2>2
  <2>. QED BY <1>2, <2>3, <2>4
<1>. QED BY <1>13, <1>15 DEF e, d, T

\* Good notes can be continued over them.
LEMMA NotesStores ==
  ASSUME GenOK(Gen), flat \in Seq(FlatOp), NEW op,
         NEW S, S \subseteq DOMAIN temporary_values, NEW f, IsOrder(f, S),
         NEW N, Good(N, code, values, Note(op, temporary_values))
  PROVE  \E M : Good(M, code \o Stores(f), values,
                     Note(op, Keep(temporary_values, DOMAIN temporary_values \ S)))
<1>1. values \in Nat /\ values <= values /\ code \in Seq(InsnSet(values))
  BY GenRecord
<1>2. op \in 1 .. Len(flat) + 1
  <2>1. Note(op, temporary_values).op \in 1 .. Len(flat) + 1
    BY <1>1, TipOK
  <2>. QED BY <2>1 DEF Note
<1>. DEFINE e == StoreNotes(op, f)
            d == Stores(f)
<1>3. /\ Fits(e, d, values) /\ e[1] = Note(op, temporary_values)
      /\ e[Len(d) + 1] = Note(op, Keep(temporary_values, DOMAIN temporary_values \ S))
  BY <1>2, StoresFit
<1>4. d \in Seq(InsnSet(values)) /\ \A p \in DOMAIN d : d[p].insn \notin Marks
  BY StoresType DEF Marks
<1>. HIDE DEF e, d
<1>5. \E M : Good(M, code \o d, values, e[Len(d) + 1])
  BY <1>1, <1>3, <1>4, GoodGrows
<1>. QED BY <1>3, <1>5 DEF d

\* Notes for the renamings of a shift: all the same.
RenameNotes(op, S, n) == [x \in 1 .. n + 1 |-> Note(op, Keep(temporary_values, S))]

\* Renaming changes no note: what it overwrites or loads is no longer cached.
LEMMA RenamesFit ==
  ASSUME GenOK(Gen), flat \in Seq(FlatOp), NEW op \in DOMAIN flat,
         NEW S, S \subseteq DOMAIN temporary_values, NEW d, IsOrder(d, S),
         NEW arg \in Int, \A k \in S : k - arg \notin S
  PROVE  /\ Fits(RenameNotes(op, S, Len(d)), Renames(d, arg), values + Len(d))
         /\ RenameNotes(op, S, Len(d))[1] = Note(op, Keep(temporary_values, S))
         /\ RenameNotes(op, S, Len(d))[Len(Renames(d, arg)) + 1]
              = Note(op, Keep(temporary_values, S))
<1>. DEFINE T == temporary_values
            K == Keep(T, S)
            a == Note(op, K)
            e == RenameNotes(op, S, Len(d))
            r == Renames(d, arg)
            n == values + Len(d)
<1>1. Len(d) \in Nat /\ DOMAIN d = 1 .. Len(d) /\ \A x \in 1 .. Len(d) : d[x] \in S
  BY OrderType
<1>2. /\ Len(r) = Len(d)
      /\ \A x \in 1 .. Len(d) : r[x] = Renamed(d[x], arg, values + x)
  BY <1>1, RenamesType
<1>3. /\ values \in Nat /\ n \in Nat /\ values <= n
      /\ MapOK(K, values) /\ S \subseteq DOMAIN T /\ MapOK(T, values)
  <2>1. values \in Nat /\ MapOK(T, values)
    BY GenRecord
  <2>2. MapOK(K, values)
    BY ShiftedGen
  <2>. QED BY <1>1, <2>1, <2>2
<1>4. MapOK(K, n)
  BY <1>3, MapGrows
<1>5. a.op = op /\ a.map = K /\ DOMAIN K = S /\ \A k \in S : K[k] = T[k]
  BY DEF Note, Keep
<1>6. 1 \in 1 .. Len(d) + 1 /\ Len(d) + 1 \in 1 .. Len(d) + 1
  BY <1>1
<1>7. DOMAIN e = 1 .. Len(d) + 1 /\ (\A x \in 1 .. Len(d) + 1 : e[x] = a)
      /\ e[1] = a /\ e[Len(r) + 1] = a
  BY <1>2, <1>6 DEF RenameNotes
<1>8. op \in 1 .. Len(flat) + 1 /\ op \in Int
  BY LenProperties
<1>. HIDE DEF K, a, e, r, n
<1>9. ASSUME NEW x \in 1 .. Len(d) PROVE Takes(r[x], a, a)
  <2>. DEFINE o == d[x]
  <2>1. o \in S /\ o \in DOMAIN T /\ o - arg \notin S /\ r[x] = Renamed(o, arg, values + x)
    BY <1>1, <1>2, <1>3
  <2>. HIDE DEF o
  <2>2. CASE o - arg \in DOMAIN T
    <3>1. r[x] = Insn("MOVE", T[o - arg], T[o], 0)
      BY <2>1, <2>2 DEF Renamed
    <3>2. r[x].insn = "MOVE" /\ r[x].dst = T[o - arg]
      BY <3>1 DEF Insn
    <3>3. T[o - arg] # 0
      BY <1>3, <2>2 DEF MapOK
    <3>4. ASSUME NEW k \in S PROVE T[k] # T[o - arg]
      <4>1. k \in DOMAIN T /\ k # o - arg
        BY <1>3, <2>1
      <4>. QED BY <1>3, <2>2, <4>1 DEF MapOK
    <3>5. Spare(r[x], a)
      BY <1>5, <3>2, <3>3, <3>4 DEF Spare
    <3>. QED BY <1>5, <3>2, <3>5 DEF Takes
  <2>3. CASE o - arg \notin DOMAIN T
    <3>1. r[x] = Insn("LOAD", values + x, 0, o - arg)
      BY <2>1, <2>3 DEF Renamed
    <3>2. r[x].insn = "LOAD" /\ r[x].dst = values + x
      BY <3>1 DEF Insn
    <3>3. \A k \in S : K[k] \in 1 .. values
      BY <1>3, <1>5 DEF MapOK
    <3>4. Spare(r[x], a)
      BY <1>1, <1>3, <1>5, <3>2, <3>3 DEF Spare
    <3>. QED BY <1>5, <3>2, <3>4 DEF Takes
  <2>. QED BY <2>2, <2>3
<1>10. \A x \in 1 .. Len(d) : Takes(r[x], e[x], e[x + 1])
  <2>. TAKE x \in 1 .. Len(d)
  <2>1. e[x] = a /\ e[x + 1] = a
    BY <1>1, <1>7
  <2>. QED BY <1>9, <2>1
<1>11. Fits(e, r, n)
  BY <1>2, <1>4, <1>5, <1>7, <1>8, <1>10 DEF Fits
<1>. QED BY <1>7, <1>11 DEF e, r, n, a, K

\* Good notes can be continued over what CompileShift emits, when no cell that
\* stays is overwritten by another (coherent).
LEMMA NotesShift ==
  ASSUME GenInv, CompileShift, coherent',
         NEW N, Good(N, code, values, Note(at, temporary_values))
  PROVE  \E M : Good(M, code', values', Note(at + 1, temporary_values'))
<1>1. PICK stores, d :
           LET arg == flat[at].arg
               kept == Stays(temporary_values, arg)
               gone == Evicted(temporary_values, arg)
               i == Insn("SHIFT", 0, 0, arg) IN
           /\ at \in DOMAIN flat /\ flat[at].op = "BF_SFT" /\ arg \in Int
           /\ kept \subseteq DOMAIN temporary_values
           /\ gone = DOMAIN temporary_values \ kept
           /\ IsOrder(stores, gone) /\ IsOrder(d, kept)
           /\ temporary_values' = Shifted(Keep(temporary_values, kept), arg)
           /\ values' = values + Len(d) /\ values <= values' /\ values' \in Nat
           /\ code \o Stores(stores) \in Seq(InsnSet(values))
           /\ (code \o Stores(stores)) \o Renames(d, arg) \in Seq(InsnSet(values'))
           /\ code' = ((code \o Stores(stores)) \o Renames(d, arg)) \o << i >>
           /\ i \in InsnSet(values') /\ i.insn = "SHIFT" /\ i.arg = arg
           /\ Quiet(code, code') /\ GenOK(Gen)'
           /\ coherent' = (coherent /\ \A k \in kept : k - arg \notin kept)
  BY ShiftGen
<1>. DEFINE arg == flat[at].arg
            kept == Stays(temporary_values, arg)
            gone == Evicted(temporary_values, arg)
            i == Insn("SHIFT", 0, 0, arg)
            K == Keep(temporary_values, kept)
            c1 == code \o Stores(stores)
            r == Renames(d, arg)
            c2 == c1 \o r
<1>2. /\ at \in DOMAIN flat /\ flat[at].op = "BF_SFT" /\ arg \in Int
      /\ kept \subseteq DOMAIN temporary_values /\ gone \subseteq DOMAIN temporary_values
      /\ DOMAIN temporary_values \ gone = kept
      /\ IsOrder(stores, gone) /\ IsOrder(d, kept)
      /\ temporary_values' = Shifted(K, arg)
      /\ values' = values + Len(d) /\ values <= values' /\ values' \in Nat
      /\ c1 \in Seq(InsnSet(values)) /\ c2 \in Seq(InsnSet(values'))
      /\ code' = c2 \o << i >>
      /\ i \in InsnSet(values') /\ i.insn = "SHIFT" /\ i.arg = arg
      /\ \A k \in kept : k - arg \notin kept
  BY <1>1
<1>3. GenOK(Gen) /\ flat \in Seq(FlatOp) /\ values \in Nat /\ at \in Int
      /\ at + 1 \in 1 .. Len(flat) + 1
  BY <1>2, GenRecord, TreeCode DEF GenInv
<1>. HIDE DEF arg, kept, gone, i
<1>4. PICK N1 : Good(N1, c1, values, Note(at, K))
  BY <1>2, <1>3, NotesStores
<1>. DEFINE a == Note(at, K)
            e == RenameNotes(at, kept, Len(d))
<1>5. Fits(e, r, values') /\ e[1] = a /\ e[Len(r) + 1] = a
  <2>1. Fits(e, r, values + Len(d)) /\ e[1] = a /\ e[Len(r) + 1] = a
    BY <1>2, <1>3, RenamesFit
  <2>. HIDE DEF e, a, r
  <2>. QED BY <1>2, <2>1
<1>6. r \in Seq(InsnSet(values')) /\ \A p \in DOMAIN r : r[p].insn \notin Marks
  BY <1>2, <1>3, RenamesType DEF Marks
<1>7. a.op = at /\ a.map = K
  BY DEF Note
<1>. HIDE DEF e, r, c1, a, K
<1>8. PICK N2 : Good(N2, c2, values', a)
  <2>1. \E M : Good(M, c1 \o r, values', e[Len(r) + 1])
    BY <1>2, <1>3, <1>4, <1>5, <1>6, GoodGrows DEF a
  <2>. QED BY <1>5, <2>1
<1>. DEFINE b == Note(at + 1, temporary_values')
<1>9. b.op = at + 1 /\ b.map = temporary_values' /\ b = Note(a.op + 1, Shifted(a.map, i.arg))
  BY <1>2, <1>7 DEF Note
<1>. HIDE DEF b, c2
<1>10. Takes(i, a, b)
  BY <1>2, <1>7, <1>9 DEF Takes, arg
<1>11. MapOK(temporary_values', values')
  <2>1. GenOK(Gen)'
    BY <1>1
  <2>. QED BY <2>1 DEF GenOK, Gen
<1>12. a.op <= b.op /\ i.insn \notin Marks /\ values' <= values'
  BY <1>2, <1>3, <1>7, <1>9 DEF Marks
<1>13. \E M : Good(M, c2 \o << i >>, values', b)
  BY <1>2, <1>3, <1>8, <1>9, <1>10, <1>11, <1>12, GoodStep
<1>. QED BY <1>2, <1>13 DEF b

\* And over the stores at the end, after which nothing is cached.
LEMMA NotesFinish ==
  ASSUME GenInv, Finish, NEW N, Good(N, code, values, Note(at, temporary_values))
  PROVE  \E M, tip : /\ Good(M, code', values, tip)
                     /\ tip.op = at /\ DOMAIN tip.map = {}
<1>1. PICK order : /\ IsOrder(order, DOMAIN temporary_values)
                   /\ code' = code \o Stores(order)
  BY FinishGen
<1>2. GenOK(Gen) /\ flat \in Seq(FlatOp)
  BY TreeCode DEF GenInv
<1>. DEFINE D == DOMAIN temporary_values
            tip == Note(at, Keep(temporary_values, D \ D))
<1>3. \E M : Good(M, code \o Stores(order), values, tip)
  BY <1>1, <1>2, NotesStores
<1>4. tip.op = at /\ DOMAIN tip.map = {}
  BY DEF Note, Keep
<1>. QED BY <1>1, <1>3, <1>4
-----------------------------------------------------------------------------
\* Notes for one more instruction i that end in b, written for code d.
Extended(N, c, b, d, n) ==
  \E M : /\ Fits(M, d, n)
         /\ \A p \in 1 .. Len(c) + 1 : M[p] = N[p]
         /\ M[Len(c) + 2] = b

\* Notes for one more instruction, of any kind.
LEMMA OneMore ==
  ASSUME flat \in Seq(FlatOp), NEW n \in Nat, NEW r \in Nat, n <= r,
         NEW c \in Seq(InsnSet(n)), NEW i \in InsnSet(r), NEW N, Fits(N, c, n),
         NEW b, b.op \in 1 .. Len(flat) + 1, MapOK(b.map, r),
         N[Len(c) + 1].op <= b.op, Takes(i, N[Len(c) + 1], b)
  PROVE  Extended(N, c, b, c \o << i >>, r)
<1>. DEFINE a == N[Len(c) + 1]
            e == [x \in 1 .. 2 |-> IF x = 1 THEN a ELSE b]
            d == << i >>
<1>1. Len(c) \in Nat /\ Len(c) + 1 \in 1 .. Len(c) + 1
  BY LenProperties
<1>2. a.op \in 1 .. Len(flat) + 1 /\ MapOK(a.map, r)
  BY <1>1, MapGrows DEF Fits
<1>3. Fits(e, d, r) /\ e[1] = a /\ e[2] = b
  <2>. HIDE DEF a
  <2>1. Takes(i, a, b) /\ a.op <= b.op
    BY DEF a
  <2>. QED BY <1>2, <2>1, TwoNotes
<1>4. d \in Seq(InsnSet(r)) /\ Len(d) = 1
  BY OneInsn
<1>. HIDE DEF d, e
<1>5. PICK M : Fits(M, c \o d, r) /\ Joins(N, e, Len(c), Len(d), M)
  BY <1>3, <1>4, JoinFits DEF a
<1>6. /\ \A p \in 1 .. Len(c) + 1 : M[p] = N[p]
      /\ \A p \in 1 .. 2 : M[Len(c) + p] = e[p]
  BY <1>4, <1>5 DEF Joins
<1>7. M[Len(c) + 2] = b
  BY <1>3, <1>6
<1>. QED BY <1>5, <1>6, <1>7 DEF d, Extended

\* Good for other loops than those that are open now.
Noted(N, c, n, loops, opened, tip) ==
  /\ Fits(N, c, n) /\ Landing(N, c) /\ OpenNotes(N, c, loops, opened)
  /\ N[1] = Note(1, << >>) /\ N[Len(c) + 1] = tip

\* The marks in the code, and the labels of the open loops.
MarksBelow(c, loops, count) ==
  /\ \A p \in DOMAIN c : c[p].arg \in Int /\ (c[p].insn \in Marks => c[p].arg < count)
  /\ \A k \in DOMAIN loops :
       /\ loops[k].start \in Int /\ loops[k].end \in Int
       /\ loops[k].start < count /\ loops[k].end < count
       /\ loops[k].end = loops[k].start + 1
  /\ \A k, l \in DOMAIN loops : k < l => loops[k].end < loops[l].start

\* The marks of the code so far are below those still to come.
LEMMA MarksOf ==
  ASSUME GenInv
  PROVE  MarksBelow(code, nest, labels) /\ labels \in Nat
<1>1. /\ values \in Nat /\ code \in Seq(InsnSet(values)) /\ DOMAIN code = 1 .. Len(code)
      /\ labels \in Nat /\ LabelsOK(code, nest, labels)
  BY GenRecord DEF GenInv
<1>2. \A p \in DOMAIN code : code[p].arg \in Int
  <2>1. \A p \in DOMAIN code : code[p] \in InsnSet(values)
    BY <1>1, ElementOfSeq
  <2>. QED BY <2>1 DEF InsnSet
<1>3. \A k \in DOMAIN nest : nest[k] \in LoopLabels(labels)
  BY LenProperties, ElementOfSeq DEF GenInv
<1>4. \A k \in DOMAIN nest :
       /\ nest[k].start \in Int /\ nest[k].end \in Int
       /\ nest[k].start < labels /\ nest[k].end < labels
  BY <1>1, <1>3 DEF LoopLabels
<1>. QED BY <1>1, <1>2, <1>4 DEF MarksBelow, LabelsOK

\* Good notes can be continued over what BeginLoop emits, when the current cell was
\* cached before (coherent): the map at the label is then the map after the branch.
LEMMA NotesBeginLoop ==
  ASSUME GenInv, BeginLoop, coherent',
         NEW N, Good(N, code, values, Note(at, temporary_values))
  PROVE  \E M : Noted(M, code', values', nest', entered', Note(at + 1, temporary_values'))
<1>1. PICK g :
           LET i == Insn("LABEL", 0, 0, labels)
               z == Insn("BRZ", 0, g.map[0], labels + 1) IN
           /\ i \in InsnSet(values) /\ i.insn = "LABEL" /\ i.arg = labels
           /\ 0 \in DOMAIN g.map /\ z \in InsnSet(values') /\ z.insn = "BRZ"
           /\ z.src = g.map[0] /\ z.arg = labels + 1
           /\ values' = g.values /\ values <= values' /\ values' \in Nat
           /\ temporary_values' = g.map
           /\ g.code \in Seq(InsnSet(values')) /\ Quiet(code \o << i >>, g.code)
           /\ code' = g.code \o << z >>
           /\ 0 \in DOMAIN temporary_values => g.map = temporary_values /\ g.values = values
                                               /\ g.code = code \o << i >>
           /\ GenOK(Gen)'
  BY BeginLoopGen
<1>2. /\ Compiles({"LOOP"})
      /\ nest' = Append(nest, [start |-> labels, end |-> labels + 1])
      /\ entered' = Append(entered, [op |-> at, map |-> temporary_values])
      /\ 0 \in DOMAIN temporary_values
  BY DEF BeginLoop
<1>. DEFINE T == temporary_values
            i == Insn("LABEL", 0, 0, labels)
            z == Insn("BRZ", 0, T[0], labels + 1)
            a == Note(at, T)
            b == Note(at + 1, T)
            l == Len(code)
<1>3. /\ i \in InsnSet(values) /\ i.insn = "LABEL" /\ i.arg = labels
      /\ z \in InsnSet(values) /\ z.insn = "BRZ" /\ z.src = T[0] /\ z.arg = labels + 1
      /\ temporary_values' = T /\ values' = values
      /\ code \o << i >> \in Seq(InsnSet(values))
      /\ code' = (code \o << i >>) \o << z >>
  BY <1>1, <1>2
<1>4. /\ GenOK(Gen) /\ flat \in Seq(FlatOp) /\ values \in Nat /\ MapOK(T, values)
      /\ code \in Seq(InsnSet(values)) /\ values <= values
      /\ at \in DOMAIN flat /\ flat[at].op = "LOOP" /\ at \in 1 .. Len(flat) + 1
      /\ at + 1 \in 1 .. Len(flat) + 1 /\ at <= at + 1 /\ at <= at
      /\ l \in Nat /\ DOMAIN code = 1 .. l
  BY <1>2, GenRecord, TreeCode DEF GenInv, Compiles, generated
<1>5. a.op = at /\ a.map = T /\ b.op = at + 1 /\ b.map = T
  BY DEF Note
<1>6. Fits(N, code, values) /\ Landing(N, code) /\ OpenNotes(N, code, nest, entered)
      /\ N[1] = Note(1, << >>) /\ N[l + 1] = a
  BY DEF Good
<1>. HIDE DEF i, z, b, l
<1>7. Takes(i, a, a) /\ Takes(z, a, b)
  <2>1. b = Note(a.op + 1, a.map)
    BY <1>5 DEF b
  <2>. HIDE DEF a
  <2>. QED BY <1>2, <1>3, <1>4, <1>5, <2>1 DEF Takes
<1>. HIDE DEF a
<1>. DEFINE c1 == code \o << i >>
<1>8. PICK N1 : /\ Fits(N1, c1, values)
                /\ \A p \in 1 .. l + 1 : N1[p] = N[p]
                /\ N1[l + 2] = a
  <2>1. N[Len(code) + 1].op <= a.op /\ Takes(i, N[Len(code) + 1], a)
    BY <1>4, <1>5, <1>6, <1>7 DEF l
  <2>2. Extended(N, code, a, code \o << i >>, values)
    <3>1. a.op \in 1 .. Len(flat) + 1 /\ MapOK(a.map, values) /\ Fits(N, code, values)
      BY <1>4, <1>5, <1>6
    <3>. QED BY <1>3, <1>4, <2>1, <3>1, OneMore
  <2>. QED BY <2>2 DEF l, Extended
<1>9. /\ c1 \in Seq(InsnSet(values)) /\ Len(c1) = l + 1 /\ DOMAIN c1 = 1 .. l + 1
      /\ \A p \in 1 .. l : c1[p] = code[p]
      /\ c1[l + 1] = i
  <2>1. Grown(InsnSet(values), code, << i >>)
    BY <1>3, <1>4, OneInsn, CodeGrown
  <2>2. Len(<< i >>) = 1 /\ << i >>[1] = i
    BY OneInsn
  <2>. DEFINE d == << i >>
  <2>. HIDE DEF d
  <2>3. /\ code \o d \in Seq(InsnSet(values)) /\ Len(code \o d) = l + Len(d)
        /\ DOMAIN (code \o d) = 1 .. l + Len(d)
        /\ \A p \in 1 .. l : (code \o d)[p] = code[p]
        /\ \A p \in 1 .. Len(d) : (code \o d)[l + p] = d[p]
        /\ Len(d) = 1 /\ d[1] = i
    BY <2>1, <2>2 DEF Grown, l, d
  <2>4. c1 = code \o d
    BY DEF d
  <2>. HIDE DEF c1
  <2>5. /\ c1 \in Seq(InsnSet(values)) /\ Len(c1) = l + 1 /\ DOMAIN c1 = 1 .. l + 1
        /\ \A p \in 1 .. l : c1[p] = code[p]
        /\ \A p \in 1 .. 1 : c1[l + p] = i
    <3>1. \A p \in 1 .. 1 : p = 1
      OBVIOUS
    <3>. QED BY <2>3, <2>4, <3>1
  <2>. QED BY <2>5
<1>. HIDE DEF c1
<1>10. PICK M : /\ Fits(M, c1 \o << z >>, values)
                /\ \A p \in 1 .. l + 2 : M[p] = N1[p]
                /\ M[l + 3] = b
  <2>1. l + 1 + 1 = l + 2 /\ l + 1 + 2 = l + 3
    BY <1>4
  <2>2. N1[Len(c1) + 1] = a
    BY <1>8, <1>9, <2>1
  <2>3. Extended(N1, c1, b, c1 \o << z >>, values)
    <3>1. N1[Len(c1) + 1].op <= b.op /\ Takes(z, N1[Len(c1) + 1], b)
      BY <1>4, <1>5, <1>7, <2>2
    <3>2. b.op \in 1 .. Len(flat) + 1 /\ MapOK(b.map, values)
      BY <1>4, <1>5
    <3>. QED BY <1>3, <1>4, <1>8, <1>9, <3>1, <3>2, OneMore
  <2>. QED BY <1>9, <2>1, <2>3 DEF Extended
<1>11. /\ Len(code') = l + 2 /\ DOMAIN code' = 1 .. l + 2
       /\ \A p \in 1 .. l : code'[p] = code[p]
       /\ code'[l + 1] = i /\ code'[l + 2] = z
  <2>1. Grown(InsnSet(values), c1, << z >>)
    BY <1>3, <1>4, <1>9, OneInsn, CodeGrown
  <2>2. Len(<< z >>) = 1 /\ << z >>[1] = z
    BY OneInsn
  <2>. DEFINE d == << z >>
  <2>3. code' = c1 \o d
    BY <1>3 DEF c1
  <2>4. Len(d) = 1 /\ d[1] = z
    BY <2>2
  <2>. HIDE DEF d
  <2>5. /\ Len(code') = l + 1 + 1 /\ DOMAIN code' = 1 .. l + 1 + 1
        /\ \A p \in 1 .. l + 1 : code'[p] = c1[p]
        /\ \A p \in 1 .. 1 : code'[l + 1 + p] = d[p]
    BY <1>9, <2>1, <2>3, <2>4 DEF Grown, d
  <2>6. code'[l + 1 + 1] = z
    BY <2>4, <2>5
  <2>. QED BY <1>4, <1>9, <2>5, <2>6
<1>12. /\ \A p \in 1 .. l : M[p] = N[p]
       /\ M[1] = N[1] /\ M[l + 1] = a /\ M[l + 2] = a /\ M[l + 3] = b
  <2>1. /\ \A p \in 1 .. l : p \in 1 .. l + 1 /\ p \in 1 .. l + 2
        /\ 1 \in 1 .. l + 1 /\ 1 \in 1 .. l + 2 /\ l + 1 \in 1 .. l + 1 /\ l + 1 \in 1 .. l + 2
        /\ l + 2 \in 1 .. l + 2
    BY <1>4
  <2>. QED BY <1>6, <1>8, <1>10, <2>1
<1>13. MarksBelow(code, nest, labels) /\ labels \in Nat
  BY MarksOf
<1>14. \A p \in DOMAIN code' : p \in DOMAIN code \/ p = l + 1 \/ p = l + 2
  BY <1>4, <1>11
<1>15. Landing(M, code')
  <2>. SUFFICES ASSUME NEW p \in DOMAIN code', NEW q \in DOMAIN code',
                       code'[q].insn = "LABEL", code'[q].arg = code'[p].arg,
                       code'[p].insn \in {"BRZ", "BR"}
                PROVE  /\ code'[p].insn = "BRZ" =>
                            M[q] = Note(EndOf(flat, M[p].op) + 1, M[p].map)
                       /\ code'[p].insn = "BR" =>
                            M[q] = Note(M[p].op + flat[M[p].op].arg, M[p].map)
    BY DEF Landing
  <2>1. CASE p \in DOMAIN code
    <3>1. code'[p] = code[p] /\ code[p].arg < labels /\ code[p].arg \in Int
      BY <1>4, <1>11, <1>13, <2>1 DEF MarksBelow, Marks
    <3>2. q \in DOMAIN code
      BY <1>3, <1>11, <1>13, <1>14, <3>1
    <3>3. code'[q] = code[q] /\ M[p] = N[p] /\ M[q] = N[q]
      BY <1>4, <1>11, <1>12, <2>1, <3>2
    <3>. QED BY <1>6, <2>1, <3>1, <3>2, <3>3 DEF Landing
  <2>2. CASE p = l + 2
    <3>1. code'[p].arg = labels + 1
      BY <1>3, <1>11, <2>2
    <3>2. q \notin DOMAIN code
      BY <1>4, <1>11, <1>13, <3>1 DEF MarksBelow, Marks
    <3>. QED BY <1>3, <1>11, <1>13, <1>14, <3>1, <3>2
  <2>3. p # l + 1
    BY <1>3, <1>11
  <2>. QED BY <1>14, <2>1, <2>2, <2>3
<1>16. /\ DOMAIN nest' = 1 .. Len(nest) + 1 /\ Len(nest) \in Nat
       /\ \A k \in 1 .. Len(nest) : nest'[k] = nest[k] /\ k \in DOMAIN nest
       /\ nest'[Len(nest) + 1] = [start |-> labels, end |-> labels + 1]
  <2>1. labels + 2 \in Nat /\ nest \in Seq(LoopLabels(labels))
    BY <1>13 DEF GenInv
  <2>. QED BY <1>2, <1>13, <2>1, AppendLoop
<1>17. /\ \A k \in 1 .. Len(nest) : entered'[k] = entered[k]
       /\ entered'[Len(nest) + 1] = a
  <2>1. [op |-> at, map |-> T] \in Entry /\ entered \in Seq(Entry) /\ Len(entered) = Len(nest)
    BY <1>4, GenRecord DEF Entry, GenInv
  <2>2. /\ \A k \in 1 .. Len(entered) : entered'[k] = entered[k]
        /\ entered'[Len(entered) + 1] = [op |-> at, map |-> T]
    BY <1>2, <2>1, AppendProperties
  <2>. QED BY <2>1, <2>2 DEF a, Note
<1>18. OpenNotes(M, code', nest', entered')
  <2>. SUFFICES ASSUME NEW k \in DOMAIN nest', NEW p \in DOMAIN code'
                PROVE  /\ code'[p].insn = "BRZ" /\ code'[p].arg = nest'[k].end
                            => M[p] = entered'[k]
                       /\ code'[p].insn = "LABEL" /\ code'[p].arg = nest'[k].start
                            => M[p] = entered'[k]
                       /\ code'[p].insn = "BR" => code'[p].arg # nest'[k].end
    BY DEF OpenNotes
  <2>1. CASE k \in 1 .. Len(nest)
    <3>1. /\ k \in DOMAIN nest /\ nest'[k] = nest[k] /\ entered'[k] = entered[k]
          /\ nest[k].start \in Int /\ nest[k].end \in Int
          /\ nest[k].start < labels /\ nest[k].end < labels
      BY <1>13, <1>16, <1>17, <2>1 DEF MarksBelow
    <3>2. CASE p \in DOMAIN code
      <4>1. code'[p] = code[p] /\ M[p] = N[p]
        BY <1>4, <1>11, <1>12, <3>2
      <4>. QED BY <1>6, <3>1, <3>2, <4>1 DEF OpenNotes
    <3>3. CASE p = l + 1
      BY <1>3, <1>11, <1>13, <3>1, <3>3
    <3>4. CASE p = l + 2
      BY <1>3, <1>11, <1>13, <3>1, <3>4
    <3>. QED BY <1>14, <3>2, <3>3, <3>4
  <2>2. CASE k = Len(nest) + 1
    <3>1. nest'[k].start = labels /\ nest'[k].end = labels + 1 /\ entered'[k] = a
      BY <1>16, <1>17, <2>2
    <3>2. CASE p \in DOMAIN code
      <4>1. code'[p] = code[p] /\ code[p].arg \in Int
            /\ (code[p].insn \in Marks => code[p].arg < labels)
        BY <1>4, <1>11, <1>13, <3>2 DEF MarksBelow
      <4>. QED BY <1>13, <3>1, <4>1 DEF Marks
    <3>3. CASE p = l + 1
      BY <1>3, <1>11, <1>12, <3>1, <3>3
    <3>4. CASE p = l + 2
      BY <1>3, <1>11, <1>12, <3>1, <3>4
    <3>. QED BY <1>14, <3>2, <3>3, <3>4
  <2>. QED BY <1>16, <2>1, <2>2
<1>19. Fits(M, code', values')
  BY <1>3, <1>10 DEF c1
<1>20. M[Len(code') + 1] = b
  <2>1. Len(code') + 1 = l + 3
    BY <1>4, <1>11
  <2>. QED BY <1>12, <2>1
<1>. QED BY <1>3, <1>6, <1>12, <1>15, <1>18, <1>19, <1>20 DEF Noted, b

\* And over what EndLoop emits, when the map is the one of the loop's label
\* (coherent): the jump back and the exit both land where the map is theirs.
LEMMA NotesEndLoop ==
  ASSUME GenInv, EndLoop, coherent',
         NEW N, Good(N, code, values, Note(at, temporary_values))
  PROVE  \E M : Noted(M, code', values', nest', entered', Note(at + 1, temporary_values'))
<1>. DEFINE T == temporary_values
            top == Len(nest)
            loop == nest[top]
            o == entered[top].op
            i == Insn("BR", 0, 0, loop.start)
            j == Insn("LABEL", 0, 0, loop.end)
            a == Note(at, T)
            b == Note(at + 1, T)
            l == Len(code)
<1>1. /\ Compiles({"END"}) /\ nest' = Front(nest) /\ entered' = Front(entered)
      /\ T = Last(entered).map
  BY DEF EndLoop
<1>2. /\ i \in InsnSet(values) /\ i.insn = "BR" /\ i.arg = loop.start
      /\ j \in InsnSet(values) /\ j.insn = "LABEL" /\ j.arg = loop.end
      /\ code' = code \o << i, j >>
      /\ temporary_values' = T /\ values' = values
      /\ l \in Nat /\ DOMAIN code = 1 .. l
      /\ DOMAIN code' = 1 .. l + 2
      /\ \A p \in 1 .. l : code'[p] = code[p]
      /\ code'[l + 1] = i /\ code'[l + 2] = j
  BY EndLoopGen
<1>3. /\ top > 0 /\ top = Len(entered) /\ top \in Nat
      /\ DOMAIN nest = 1 .. top /\ DOMAIN entered = 1 .. top
      /\ o \in Opens(flat) /\ EndOf(flat, o) = at
      /\ at \in DOMAIN flat /\ flat[at].op = "END"
  BY <1>1, ClosesLast
<1>4. /\ GenOK(Gen) /\ flat \in Seq(FlatOp) /\ values \in Nat /\ MapOK(T, values)
      /\ code \in Seq(InsnSet(values)) /\ values <= values
      /\ at \in 1 .. Len(flat) + 1 /\ at + 1 \in 1 .. Len(flat) + 1 /\ at <= at + 1
      /\ at + 1 <= at + 1
  BY <1>3, GenRecord, TreeCode DEF GenInv
<1>5. at + flat[at].arg = o
  BY <1>3, TreeCode DEF GenInv
<1>6. /\ nest \in Seq(LoopLabels(labels)) /\ entered \in Seq(Entry)
  BY DEF GenInv
<1>7. /\ DOMAIN nest' = 1 .. top - 1
      /\ \A k \in 1 .. top - 1 : nest'[k] = nest[k] /\ k \in DOMAIN nest
  <2>1. FrontFacts(LoopLabels(labels), nest, Front(nest))
    BY <1>3, <1>6, FrontLast
  <2>. QED BY <1>1, <1>3, <2>1 DEF FrontFacts
<1>8. /\ \A k \in 1 .. top - 1 : entered'[k] = entered[k]
      /\ Last(entered) = entered[top] /\ entered[top] \in Entry
  <2>1. FrontFacts(Entry, entered, Front(entered))
    BY <1>3, <1>6, FrontLast
  <2>. QED BY <1>1, <1>3, <2>1 DEF FrontFacts
<1>9. entered[top] = Note(o, T)
  <2>1. entered[top] = [op |-> entered[top].op, map |-> entered[top].map]
    BY <1>8 DEF Entry
  <2>. QED BY <1>1, <1>8, <2>1 DEF Note
<1>10. a.op = at /\ a.map = T /\ b.op = at + 1 /\ b.map = T
  BY DEF Note
<1>11. Fits(N, code, values) /\ Landing(N, code) /\ OpenNotes(N, code, nest, entered)
       /\ N[1] = Note(1, << >>) /\ N[l + 1] = a
  BY DEF Good
<1>12. MarksBelow(code, nest, labels) /\ labels \in Nat
  BY MarksOf
<1>. HIDE DEF i, j, b, l, o
<1>13. Takes(i, a, b) /\ Takes(j, b, b)
  BY <1>2, <1>3, <1>10 DEF Takes
<1>. HIDE DEF a
<1>. DEFINE c1 == code \o << i >>
<1>14. PICK N1 : /\ Fits(N1, c1, values)
                 /\ \A p \in 1 .. l + 1 : N1[p] = N[p]
                 /\ N1[l + 2] = b
  <2>1. N[Len(code) + 1].op <= b.op /\ Takes(i, N[Len(code) + 1], b)
    BY <1>4, <1>10, <1>11, <1>13 DEF l
  <2>2. Extended(N, code, b, code \o << i >>, values)
    <3>1. b.op \in 1 .. Len(flat) + 1 /\ MapOK(b.map, values) /\ Fits(N, code, values)
      BY <1>4, <1>10, <1>11
    <3>. QED BY <1>2, <1>4, <2>1, <3>1, OneMore
  <2>. QED BY <2>2 DEF l, Extended
<1>15. c1 \in Seq(InsnSet(values)) /\ Len(c1) = l + 1
  <2>1. Grown(InsnSet(values), code, << i >>) /\ Len(<< i >>) = 1
    BY <1>2, <1>4, OneInsn, CodeGrown
  <2>. DEFINE d == << i >>
  <2>2. c1 = code \o d /\ Len(d) = 1 /\ Grown(InsnSet(values), code, d)
    BY <2>1
  <2>. HIDE DEF d, c1
  <2>. QED BY <2>2 DEF Grown, l
<1>16. code' = c1 \o << j >>
  <2>. DEFINE S == InsnSet(values)
              x == << i >>
              y == << j >>
  <2>1. << i, j >> = x \o y
    BY <1>2, OneByOne
  <2>2. x \in Seq(S) /\ y \in Seq(S) /\ code \in Seq(S)
    BY <1>2, <1>4, OneInsn
  <2>. HIDE DEF S, x, y
  <2>3. (code \o x) \o y = code \o (x \o y)
    BY <2>2, ConcatAssociative
  <2>. QED BY <1>2, <2>1, <2>3 DEF x, y
<1>. HIDE DEF c1
<1>17. PICK M : /\ Fits(M, code', values)
                /\ \A p \in 1 .. l + 2 : M[p] = N1[p]
                /\ M[l + 3] = b
  <2>1. l + 1 + 1 = l + 2 /\ l + 1 + 2 = l + 3
    BY <1>2
  <2>2. N1[Len(c1) + 1] = b
    BY <1>14, <1>15, <2>1
  <2>3. Extended(N1, c1, b, c1 \o << j >>, values)
    <3>1. N1[Len(c1) + 1].op <= b.op /\ Takes(j, N1[Len(c1) + 1], b)
      BY <1>4, <1>10, <1>13, <2>2
    <3>2. b.op \in 1 .. Len(flat) + 1 /\ MapOK(b.map, values)
      BY <1>4, <1>10
    <3>. QED BY <1>2, <1>4, <1>14, <1>15, <3>1, <3>2, OneMore
  <2>. QED BY <1>15, <1>16, <2>1, <2>3 DEF Extended
<1>18. /\ \A p \in 1 .. l : M[p] = N[p]
       /\ M[1] = N[1] /\ M[l + 1] = a /\ M[l + 2] = b /\ M[l + 3] = b
  <2>1. /\ \A p \in 1 .. l : p \in 1 .. l + 1 /\ p \in 1 .. l + 2
        /\ 1 \in 1 .. l + 1 /\ 1 \in 1 .. l + 2 /\ l + 1 \in 1 .. l + 1 /\ l + 1 \in 1 .. l + 2
        /\ l + 2 \in 1 .. l + 2
    BY <1>2
  <2>. QED BY <1>11, <1>14, <1>17, <2>1
<1>19. \A p \in DOMAIN code' : p \in DOMAIN code \/ p = l + 1 \/ p = l + 2
  <2>1. l \in Nat /\ DOMAIN code = 1 .. l /\ DOMAIN code' = 1 .. l + 2
    BY <1>2
  <2>2. \A p \in 1 .. l + 2 : p \in 1 .. l \/ p = l + 1 \/ p = l + 2
    BY <2>1
  <2>. QED BY <2>1, <2>2
<1>20. /\ top \in DOMAIN nest /\ loop.start \in Int /\ loop.end = loop.start + 1
       /\ \A p \in DOMAIN code :
            /\ code[p].insn = "BRZ" /\ code[p].arg = loop.end => N[p] = Note(o, T)
            /\ code[p].insn = "LABEL" /\ code[p].arg = loop.start => N[p] = Note(o, T)
            /\ code[p].insn = "BR" => code[p].arg # loop.end
       /\ \A k \in 1 .. top - 1 :
            /\ nest[k].start \in Int /\ nest[k].end \in Int
            /\ nest[k].start < nest[k].end /\ nest[k].end < loop.start
  <2>1. top \in DOMAIN nest /\ \A k \in 1 .. top - 1 : k \in DOMAIN nest /\ k < top
    BY <1>3
  <2>. HIDE DEF top
  <2>. QED BY <1>9, <1>11, <1>12, <2>1 DEF MarksBelow, OpenNotes
<1>. HIDE DEF loop
<1>21. Landing(M, code')
  <2>. SUFFICES ASSUME NEW p \in DOMAIN code', NEW q \in DOMAIN code',
                       code'[q].insn = "LABEL", code'[q].arg = code'[p].arg,
                       code'[p].insn \in {"BRZ", "BR"}
                PROVE  /\ code'[p].insn = "BRZ" =>
                            M[q] = Note(EndOf(flat, M[p].op) + 1, M[p].map)
                       /\ code'[p].insn = "BR" =>
                            M[q] = Note(M[p].op + flat[M[p].op].arg, M[p].map)
    BY DEF Landing
  <2>1. CASE p \in DOMAIN code /\ q \in DOMAIN code
    <3>1. code'[p] = code[p] /\ code'[q] = code[q] /\ M[p] = N[p] /\ M[q] = N[q]
      BY <1>2, <1>18, <2>1
    <3>. QED BY <1>11, <2>1, <3>1 DEF Landing
  <2>2. CASE p \in DOMAIN code /\ q = l + 2
    <3>1. code'[p] = code[p] /\ M[p] = N[p] /\ code[p].arg = loop.end
      BY <1>2, <1>18, <2>2
    <3>2. code[p].insn = "BRZ" /\ N[p] = Note(o, T)
      BY <1>20, <2>2, <3>1
    <3>3. M[p].op = o /\ M[p].map = T
      BY <3>1, <3>2 DEF Note
    <3>. QED BY <1>3, <1>18, <2>2, <3>1, <3>2, <3>3 DEF b
  <2>3. CASE p = l + 1 /\ q \in DOMAIN code
    <3>1. code'[p].insn = "BR" /\ code'[p].arg = loop.start /\ code'[q] = code[q] /\ M[q] = N[q]
      BY <1>2, <1>18, <2>3
    <3>2. M[q] = Note(o, T)
      BY <1>20, <2>3, <3>1
    <3>. QED BY <1>5, <1>10, <1>18, <2>3, <3>1, <3>2
  <2>4. CASE p = l + 1 /\ q = l + 2
    BY <1>2, <1>20, <2>4
  <2>. QED BY <1>2, <1>19, <2>1, <2>2, <2>3, <2>4
<1>22. OpenNotes(M, code', nest', entered')
  <2>. SUFFICES ASSUME NEW k \in DOMAIN nest', NEW p \in DOMAIN code'
                PROVE  /\ code'[p].insn = "BRZ" /\ code'[p].arg = nest'[k].end
                            => M[p] = entered'[k]
                       /\ code'[p].insn = "LABEL" /\ code'[p].arg = nest'[k].start
                            => M[p] = entered'[k]
                       /\ code'[p].insn = "BR" => code'[p].arg # nest'[k].end
    BY DEF OpenNotes
  <2>1. /\ k \in DOMAIN nest /\ nest'[k] = nest[k] /\ entered'[k] = entered[k]
        /\ nest[k].start \in Int /\ nest[k].end \in Int
        /\ nest[k].start < nest[k].end /\ nest[k].end < loop.start
    BY <1>7, <1>8, <1>20
  <2>2. CASE p \in DOMAIN code
    <3>1. code'[p] = code[p] /\ M[p] = N[p]
      BY <1>2, <1>18, <2>2
    <3>. QED BY <1>11, <2>1, <2>2, <3>1 DEF OpenNotes
  <2>3. CASE p = l + 1
    BY <1>2, <1>20, <2>1, <2>3
  <2>4. CASE p = l + 2
    BY <1>2, <1>20, <2>1, <2>4
  <2>. QED BY <1>19, <2>2, <2>3, <2>4
<1>23. M[Len(code') + 1] = b
  <2>1. Len(code') = l + 2
    <3>1. code' \in Seq(InsnSet(values))
      BY <1>2, <1>4, <1>15, <1>16, OneInsn, CodeGrows
    <3>2. DOMAIN code' = 1 .. Len(code') /\ Len(code') \in Nat
      BY <3>1, LenProperties
    <3>. QED BY <1>2, <3>2
  <2>2. Len(code') + 1 = l + 3
    BY <1>2, <2>1
  <2>. QED BY <1>18, <2>2
<1>. QED BY <1>2, <1>11, <1>17, <1>18, <1>21, <1>22, <1>23 DEF Noted, b

\* Before anything is emitted a single note will do.
LEMMA NotesBegin ==
  ASSUME TypeInv, NEW ops, IsTreeCode(ops), BeginCompilation(ops)
  PROVE  \E M : Good(M, code, values, Note(at, temporary_values))'
<1>1. /\ at = 0 /\ at' = 1 /\ flat' = ops
      /\ code' = << >> /\ temporary_values' = << >> /\ values' = 0
      /\ nest' = << >> /\ entered' = << >>
  BY DEF BeginCompilation, TypeInv, GenInv
<1>. DEFINE a == Note(1, << >>)
            M == [x \in 1 .. 1 |-> a]
<1>2. a.op = 1 /\ a.map = << >> /\ DOMAIN M = 1 .. 1 /\ M[1] = a
  BY DEF Note
<1>3. MapOK(a.map, 0)
  BY <1>2, EmptyMap DEF MapOK
<1>. HIDE DEF a, M
<1>4. Len(code') = 0 /\ DOMAIN code' = {} /\ DOMAIN nest' = {} /\ 1 .. 0 = {}
  BY <1>1, NoCode
<1>5. 1 \in 1 .. Len(flat') + 1
  BY <1>1, TreeCode
<1>6. \A x \in 1 .. Len(code') + 1 : x = 1
  BY <1>4
<1>7. Fits(M, code, values)'
  <2>1. Len(code') + 1 = 1 /\ 1 .. Len(code') = {}
    BY <1>4
  <2>. QED BY <1>1, <1>2, <1>3, <1>5, <1>6, <2>1 DEF Fits
<1>8. Landing(M, code)' /\ OpenNotes(M, code, nest, entered)'
  BY <1>4 DEF Landing, OpenNotes
<1>9. M[Len(code') + 1] = a /\ a = Note(at', temporary_values')
  <2>1. Len(code') + 1 = 1
    BY <1>4
  <2>. QED BY <1>1, <1>2, <2>1 DEF a
<1>. QED BY <1>2, <1>7, <1>8, <1>9 DEF Good, a
-----------------------------------------------------------------------------
\* The run is where the notes say, and its machines agree as they say.
Coupled(N) ==
  jit.pc > 0 /\ ~plain.m.fault =>
    plain.pc = N[jit.pc].op /\ Mirrors(N[jit.pc].map, jit.m, jit.v, plain.m)

\* As long as the generator was coherent, there are notes for what it emitted.
Annotated ==
  coherent /\ at > 0 =>
    \E N, tip :
      /\ Good(N, code, values, tip) /\ tip.op = at
      /\ ~finished => tip = Note(at, temporary_values)
      /\ finished => DOMAIN tip.map = {}
      /\ Coupled(N)

\* Nothing has to be annotated at first.
LEMMA AnnotatedInit == VMInit => Annotated
BY DEF VMInit, Annotated

\* Before the function runs, it is where it should be.
LEMMA NotYet ==
  ASSUME TypeInv, ~finished, jit' = jit
  PROVE  \A N : Coupled(N)'
<1>1. jit.pc = 0
  BY DEF TypeInv, RunInv
<1>. QED BY <1>1 DEF Coupled

\* The notes there are while code is generated.
LEMMA NotesNow ==
  ASSUME Annotated, coherent, at > 0, ~finished
  PROVE  \E N : Good(N, code, values, Note(at, temporary_values))
BY DEF Annotated

\* Every step of the generator continues the notes, as long as it is coherent.
LEMMA AnnotatedCompile ==
  ASSUME TypeInv, Annotated, CompileStep
  PROVE  Annotated'
<1>0. GenInv
  BY DEF TypeInv
<1>. SUFFICES ASSUME coherent', at' > 0
              PROVE  \E N, tip :
                       /\ Good(N, code, values, tip)' /\ tip.op = at'
                       /\ ~finished' => tip = Note(at', temporary_values')
                       /\ finished' => DOMAIN tip.map = {}
                       /\ Coupled(N)'
  BY DEF Annotated
<1>1. at > 0 /\ ~finished /\ coherent /\ jit' = jit /\ flat' = flat
  <2>1. at > 0 /\ ~finished /\ jit' = jit /\ flat' = flat
    BY <1>0 DEF CompileStep, CompileOpcode, CompileShift, BeginLoop, EndLoop, Finish,
                Compiles, GenInv
  <2>2. coherent
    BY DEF CompileStep, CompileOpcode, CompileShift, BeginLoop, EndLoop, Finish
  <2>. QED BY <2>1, <2>2
<1>2. \A N : Coupled(N)'
  BY <1>1, NotYet
<1>3. PICK N : Good(N, code, values, Note(at, temporary_values))
  BY <1>1, NotesNow
<1>4. \A M, tip : Noted(M, code', values', nest', entered', tip) => Good(M, code, values, tip)'
  BY <1>1 DEF Noted, Good, Fits, Landing, OpenNotes, Takes, EndOf
<1>5. \A M, c, n, tip : Good(M, c, n, tip) => Noted(M, c, n, nest, entered, tip)
  BY DEF Noted, Good
<1>6. ASSUME at' = at + 1, finished' = finished,
             \E M : Noted(M, code', values', nest', entered', Note(at + 1, temporary_values'))
      PROVE  \E M, tip :
               /\ Good(M, code, values, tip)' /\ tip.op = at'
               /\ ~finished' => tip = Note(at', temporary_values')
               /\ finished' => DOMAIN tip.map = {}
               /\ Coupled(M)'
  <2>1. PICK M : Noted(M, code', values', nest', entered', Note(at + 1, temporary_values'))
    BY <1>6
  <2>0. PICK tip : tip = Note(at + 1, temporary_values')
    OBVIOUS
  <2>2. tip.op = at' /\ tip = Note(at', temporary_values')
    BY <1>6, <2>0 DEF Note
  <2>3. Good(M, code, values, tip)'
    BY <1>4, <2>0, <2>1
  <2>. QED BY <1>1, <1>2, <1>6, <2>2, <2>3
<1>7. CASE CompileOpcode
  <2>1. at' = at + 1 /\ finished' = finished /\ nest' = nest /\ entered' = entered
    BY <1>7 DEF CompileOpcode, Compiles
  <2>2. PICK M : Good(M, code', values', Note(at + 1, temporary_values'))
    BY <1>0, <1>3, <1>7, NotesOpcode
  <2>3. Noted(M, code', values', nest', entered', Note(at + 1, temporary_values'))
    BY <1>5, <2>1, <2>2
  <2>. QED BY <1>6, <2>1, <2>3
<1>8. CASE CompileShift
  <2>1. at' = at + 1 /\ finished' = finished /\ nest' = nest /\ entered' = entered
    BY <1>8 DEF CompileShift, Compiles
  <2>2. PICK M : Good(M, code', values', Note(at + 1, temporary_values'))
    BY <1>0, <1>3, <1>8, NotesShift
  <2>3. Noted(M, code', values', nest', entered', Note(at + 1, temporary_values'))
    BY <1>5, <2>1, <2>2
  <2>. QED BY <1>6, <2>1, <2>3
<1>9. CASE BeginLoop
  <2>1. at' = at + 1 /\ finished' = finished
    BY <1>9 DEF BeginLoop, Compiles
  <2>. QED BY <1>0, <1>3, <1>6, <1>9, <2>1, NotesBeginLoop
<1>10. CASE EndLoop
  <2>1. at' = at + 1 /\ finished' = finished
    BY <1>10 DEF EndLoop, Compiles
  <2>. QED BY <1>0, <1>3, <1>6, <1>10, <2>1, NotesEndLoop
<1>11. CASE Finish
  <2>1. /\ at' = at /\ finished' = TRUE /\ nest' = nest /\ entered' = entered
        /\ values' = values
    BY <1>11 DEF Finish
  <2>2. PICK M, tip : /\ Good(M, code', values, tip)
                      /\ tip.op = at /\ DOMAIN tip.map = {}
    BY <1>0, <1>3, <1>11, NotesFinish
  <2>3. Good(M, code, values, tip)'
    BY <1>4, <1>5, <2>1, <2>2
  <2>. QED BY <1>2, <2>1, <2>2, <2>3
<1>. QED BY <1>7, <1>8, <1>9, <1>10, <1>11 DEF CompileStep

\* The beginning of CompileProgram has its note.
LEMMA AnnotatedBegin ==
  ASSUME TypeInv, NEW ops, IsTreeCode(ops), BeginCompilation(ops)
  PROVE  Annotated'
<1>1. at = 0 /\ finished' = finished /\ jit' = jit
  BY DEF BeginCompilation
<1>2. ~finished
  BY <1>1 DEF TypeInv, GenInv
<1>3. PICK M : Good(M, code, values, Note(at, temporary_values))'
  BY NotesBegin
<1>4. Coupled(M)'
  BY <1>1, <1>2, NotYet
<1>5. Note(at, temporary_values).op' = at'
  BY DEF Note
<1>. QED BY <1>1, <1>2, <1>3, <1>4, <1>5 DEF Annotated
-----------------------------------------------------------------------------
\* At the end of the code the opcodes are at theirs.
LEMMA AtTheEnd ==
  ASSUME TypeInv, finished
  PROVE  at = Len(flat) + 1 /\ at > 0 /\ Len(flat) \in Nat
<1>1. GenInv /\ generated
  BY DEF TypeInv, GenInv
<1>. QED BY <1>1, NoOpenLoops, TreeCode DEF GenInv

\* BfVM::Run starts the function where the interpreter starts, with nothing cached.
LEMMA CoupledRun ==
  ASSUME TypeInv, Run, NEW N, N[1] = Note(1, << >>)
  PROVE  Coupled(N)'
<1>1. PICK input \in Stdin, unset \in Unset :
        /\ jit' = [pc |-> 1, m |-> Loaded(input), v |-> [r \in 0 .. values |-> unset]]
        /\ plain' = [pc |-> 1, m |-> Loaded(input)]
  BY DEF Run
<1>. DEFINE m == Loaded(input)
            a == Note(1, << >>)
<1>2. /\ jit'.pc = 1 /\ jit'.m = m /\ plain'.pc = 1 /\ plain'.m = m
      /\ m.fault = FALSE
  BY <1>1 DEF Loaded
<1>3. a.op = 1 /\ a.map = << >> /\ DOMAIN << >> = {}
  BY EmptyMap DEF Note
<1>. HIDE DEF m, a
<1>4. \A x : Seen(<< >>, m, jit'.v, x) = m.tape[x]
  BY <1>3 DEF Seen
<1>5. Mirrors(<< >>, m, jit'.v, m)
  BY <1>2, <1>4 DEF Mirrors
<1>6. N[1].op = 1 /\ N[1].map = << >>
  BY <1>3 DEF a
<1>. QED BY <1>2, <1>5, <1>6 DEF Coupled

\* An instruction that executes an opcode executes one of the program's.
LEMMA TakesOpcode ==
  ASSUME NEW i, NEW a, NEW b, Takes(i, a, b), i.insn \in Effective \ {"BRZ", "BR"}
  PROVE  a.op \in DOMAIN flat /\ flat[a.op].op \in Operations
<1>1. CASE i.insn = "SHIFT"
  <2>1. a.op \in DOMAIN flat /\ flat[a.op].op = "BF_SFT"
    BY <1>1, OnValuesType DEF Takes
  <2>. QED BY <2>1 DEF Operations
<1>2. CASE i.insn # "SHIFT"
  <2>1. a.op \in DOMAIN flat /\ flat[a.op].op \in ValueOps
    BY <1>2 DEF Takes, Effective
  <2>. QED BY <2>1 DEF ValueOps
<1>. QED BY <1>1, <1>2

\* The step of the simulation: an instruction takes the function from its note to
\* the next, or over a branch to the note of the label, and the interpreter along.
LEMMA CoupledInstruction ==
  ASSUME TypeInv, RunInstruction, NEW N, Fits(N, code, values), Landing(N, code), Coupled(N)
  PROVE  Coupled(N)'
<1>. DEFINE p == jit.pc
            i == code[p]
            a == N[p]
            b == N[p + 1]
            pm == plain.m
            done == Does(i, jit.m, jit.v)
<1>1. GenInv /\ RunInv /\ IsTreeCode(flat) /\ flat \in Seq(FlatOp) /\ DOMAIN flat = 1 .. Len(flat)
      /\ Len(flat) \in Nat
  BY TreeCode DEF TypeInv, GenInv
<1>2. values \in Nat /\ code \in Seq(InsnSet(values)) /\ Len(code) \in Nat /\ DOMAIN code = 1 .. Len(code)
  BY <1>1, GenRecord DEF GenInv
<1>3. /\ p \in DOMAIN code /\ p \in 1 .. Len(code) /\ p > 0 /\ ~pm.fault
      /\ jit' = [pc |-> Goes(i, p, jit.v), m |-> done.m, v |-> done.v]
      /\ plain' = IF i.insn \in Effective /\ ~Stopped(flat, plain)
                  THEN Interpreted(flat, plain) ELSE plain
  BY <1>2 DEF RunInstruction, WithinBounds
<1>4. finished /\ jit.m \in Machine /\ jit.v \in Values(values) /\ generated /\ pm \in Machine
      /\ plain \in Place(flat)
  BY <1>1, <1>3 DEF RunInv, GenInv, Place
<1>5. plain.pc = a.op /\ Mirrors(a.map, jit.m, jit.v, pm)
  BY <1>3 DEF Coupled
<1>6. MapOK(a.map, values) /\ Takes(i, a, b) /\ i \in InsnSet(values)
  <2>1. p \in 1 .. Len(code) + 1
    BY <1>2, <1>3
  <2>. QED BY <1>2, <1>3, <2>1, ElementOfSeq DEF Fits
<1>7. a.op \in DOMAIN flat => ~Stopped(flat, plain)
  BY <1>1, <1>3, <1>5 DEF Stopped
<1>. HIDE DEF i, b, done
<1>8. /\ jit'.pc = Goes(i, p, jit.v) /\ jit'.m = done.m /\ jit'.v = done.v
  BY <1>3
<1>9. \A q : N[q] = N[q]
  OBVIOUS
<1>10. CASE i.insn \in Prepares
  <2>1. i.insn \notin Effective /\ i.insn # "BR" /\ i.insn # "BRZ"
    BY <1>10 DEF Prepares, Effective
  <2>2. plain' = plain /\ jit'.pc = p + 1
    BY <1>3, <1>8, <2>1 DEF Goes
  <2>3. b.op = a.op /\ Mirrors(b.map, done.m, done.v, pm)
    <3>. HIDE DEF a, pm
    <3>. QED BY <1>2, <1>4, <1>5, <1>6, <1>10, PreparesMirrors DEF done, pm
  <2>4. plain'.pc = N[jit'.pc].op /\ Mirrors(N[jit'.pc].map, jit'.m, jit'.v, plain'.m)
    BY <1>5, <1>8, <2>2, <2>3 DEF b
  <2>. QED BY <2>4 DEF Coupled
<1>11. CASE i.insn \in Effective \ {"BRZ", "BR"}
  <2>1. a.op \in DOMAIN flat /\ flat[a.op].op \in Operations
    <3>. HIDE DEF a
    <3>. QED BY <1>6, <1>11, TakesOpcode
  <2>2. plain' = Interpreted(flat, plain) /\ jit'.pc = p + 1
    <3>1. plain' = Interpreted(flat, plain)
      BY <1>3, <1>7, <1>11, <2>1
    <3>. QED BY <1>8, <1>11, <3>1 DEF Goes
  <2>3. Interpreted(flat, plain) = [pc |-> a.op + 1, m |-> Apply(pm, flat[a.op])]
    BY <1>5, <2>1 DEF Interpreted, Operations
  <2>4. plain'.pc = a.op + 1 /\ plain'.m = Apply(pm, flat[a.op])
    BY <2>2, <2>3
  <2>5. SUFFICES ASSUME ~plain'.m.fault
                 PROVE  /\ plain'.pc = N[jit'.pc].op
                        /\ Mirrors(N[jit'.pc].map, jit'.m, jit'.v, plain'.m)
    BY DEF Coupled
  <2>6. b.op = a.op + 1 /\ Mirrors(b.map, done.m, done.v, Apply(pm, flat[a.op]))
    <3>1. ~Apply(pm, flat[a.op]).fault
      BY <2>4, <2>5
    <3>2. flat \in Seq(FlatOp) /\ values \in Nat
      BY <1>1, <1>2
    <3>. HIDE DEF a, pm
    <3>3. /\ b.op = a.op + 1
          /\ Mirrors(b.map, Does(i, jit.m, jit.v).m, Does(i, jit.m, jit.v).v,
                     Apply(pm, flat[a.op]))
      BY <1>4, <1>5, <1>6, <1>11, <3>1, <3>2, EffectiveMirrors, ZenonT(30)
    <3>. QED BY <3>3 DEF done
  <2>. QED BY <1>8, <2>2, <2>4, <2>6 DEF b
<1>12. CASE i.insn = "BRZ"
  <2>1. /\ a.op \in DOMAIN flat /\ flat[a.op].op = "LOOP" /\ 0 \in DOMAIN a.map
        /\ i.src = a.map[0] /\ b = Note(a.op + 1, a.map)
    <3>. HIDE DEF a
    <3>. QED BY <1>6, <1>12, OnValuesType DEF Takes
  <2>2. plain' = Interpreted(flat, plain) /\ i.insn \in Effective
    BY <1>3, <1>7, <1>12, <2>1 DEF Effective
  <2>3. done.m = jit.m /\ done.v = jit.v
    <3>1. DoesAs(i, jit.m, jit.v)
      BY DoesEach
    <3>. QED BY <1>12, <3>1 DEF DoesAs, done
  <2>4. CASE ~InTape(pm, 0)
    <3>1. plain' = [plain EXCEPT !.m = Faulted(pm)]
      BY <1>5, <2>1, <2>2, <2>4 DEF Interpreted
    <3>2. plain'.m.fault = TRUE
      BY <1>4, <3>1 DEF Faulted, Machine, Place
    <3>. QED BY <3>2 DEF Coupled
  <2>5. CASE InTape(pm, 0)
    <3>1. plain' = [plain EXCEPT !.pc = IF At(pm, 0) = 0 THEN plain.pc + flat[a.op].arg
                                                         ELSE plain.pc + 1]
      BY <1>5, <2>1, <2>2, <2>5 DEF Interpreted
    <3>2. /\ plain'.pc = IF At(pm, 0) = 0 THEN a.op + flat[a.op].arg ELSE a.op + 1
          /\ plain'.m = pm
      BY <1>4, <1>5, <3>1 DEF Place
    <3>3. jit.v[i.src] = At(pm, 0)
      <4>. HIDE DEF a, pm
      <4>. QED BY <1>2, <1>4, <1>5, <1>6, <2>1, <2>5, CachedCell DEF pm
    <3>4. CASE At(pm, 0) = 0
      <4>. DEFINE q == LabelAt(i.arg)
      <4>1. jit'.pc = q
        BY <1>8, <1>12, <3>3, <3>4 DEF Goes
      <4>2. q \in DOMAIN code /\ code[q].insn = "LABEL" /\ code[q].arg = i.arg
        BY <1>1, <1>3, <1>4, <1>12, BranchesLand DEF i
      <4>. HIDE DEF q
      <4>3. N[q] = Note(EndOf(flat, a.op) + 1, a.map)
        BY <1>3, <1>12, <4>2 DEF Landing, i
      <4>4. a.op + flat[a.op].arg = EndOf(flat, a.op) + 1
        <5>1. a.op \in Opens(flat)
          BY <2>1 DEF Opens
        <5>. QED BY <1>1, <5>1, TreeCode
      <4>5. N[q].op = plain'.pc /\ N[q].map = a.map
        BY <3>2, <3>4, <4>3, <4>4 DEF Note
      <4>. QED BY <1>5, <1>8, <2>3, <3>2, <4>1, <4>5 DEF Coupled
    <3>5. CASE At(pm, 0) # 0
      <4>1. jit'.pc = p + 1
        BY <1>8, <1>12, <3>3, <3>5 DEF Goes
      <4>2. b.op = plain'.pc /\ b.map = a.map
        BY <2>1, <3>2, <3>5 DEF Note
      <4>. QED BY <1>5, <1>8, <2>3, <3>2, <4>1, <4>2 DEF Coupled, b
    <3>. QED BY <3>4, <3>5
  <2>. QED BY <2>4, <2>5
<1>13. CASE i.insn = "BR"
  <2>1. a.op \in DOMAIN flat /\ flat[a.op].op = "END"
    <3>. HIDE DEF a
    <3>. QED BY <1>6, <1>13, OnValuesType DEF Takes
  <2>2. plain' = Interpreted(flat, plain) /\ i.insn \in Effective
    BY <1>3, <1>7, <1>13, <2>1 DEF Effective
  <2>3. done.m = jit.m /\ done.v = jit.v
    <3>1. DoesAs(i, jit.m, jit.v)
      BY DoesEach
    <3>. QED BY <1>13, <3>1 DEF DoesAs, done
  <2>4. plain' = [plain EXCEPT !.pc = plain.pc + flat[a.op].arg]
    BY <1>5, <2>1, <2>2 DEF Interpreted
  <2>5. plain'.pc = a.op + flat[a.op].arg /\ plain'.m = pm
    BY <1>4, <1>5, <2>4 DEF Place
  <2>. DEFINE q == LabelAt(i.arg)
  <2>6. jit'.pc = q
    BY <1>8, <1>13 DEF Goes
  <2>7. q \in DOMAIN code /\ code[q].insn = "LABEL" /\ code[q].arg = i.arg
    BY <1>1, <1>3, <1>4, <1>13, BranchesLand DEF i
  <2>. HIDE DEF q
  <2>8. N[q] = Note(a.op + flat[a.op].arg, a.map)
    BY <1>3, <1>13, <2>7 DEF Landing, i
  <2>9. N[q].op = plain'.pc /\ N[q].map = a.map
    BY <2>5, <2>8 DEF Note
  <2>. QED BY <1>5, <1>8, <2>3, <2>5, <2>6, <2>9 DEF Coupled
<1>14. i.insn \in InsnKinds
  BY <1>6 DEF InsnSet
<1>. QED BY <1>10, <1>11, <1>12, <1>13, <1>14 DEF InsnKinds, Prepares

\* Running keeps the function and the interpreter coupled.
LEMMA AnnotatedRun ==
  ASSUME TypeInv, Annotated, RunStep
  PROVE  Annotated'
<1>1. /\ UNCHANGED <<flat, at, temporary_values, values, code, nest, labels, finished>>
      /\ UNCHANGED <<entered, coherent>>
  BY DEF RunStep, Run, RunInstruction, RunOpcode, genVars
<1>. SUFFICES ASSUME coherent, at > 0
              PROVE  Annotated'
  BY <1>1 DEF Annotated
<1>2. PICK N, tip :
        /\ Good(N, code, values, tip) /\ tip.op = at
        /\ ~finished => tip = Note(at, temporary_values)
        /\ finished => DOMAIN tip.map = {}
        /\ Coupled(N)
  BY DEF Annotated
<1>3. Good(N, code, values, tip)'
  BY <1>1, <1>2 DEF Good, Fits, Landing, OpenNotes, Takes, EndOf
<1>4. Fits(N, code, values) /\ Landing(N, code) /\ N[1] = Note(1, << >>)
      /\ N[Len(code) + 1] = tip
  BY <1>2 DEF Good
<1>5. ASSUME Run PROVE Coupled(N)'
  BY <1>4, <1>5, CoupledRun
<1>6. ASSUME RunInstruction PROVE Coupled(N)'
  BY <1>2, <1>4, <1>6, CoupledInstruction
<1>7. ASSUME RunOpcode PROVE Coupled(N)'
  <2>1. /\ jit.pc > Len(code) /\ ~Stopped(flat, plain) /\ plain.pc > 0
    BY <1>7 DEF RunOpcode
  <2>2. ~plain.m.fault /\ ~(plain.pc > Len(flat))
    BY <2>1 DEF Stopped
  <2>3. jit.pc \in 0 .. Len(code) + 1 /\ Len(code) \in Nat
    BY GenRecord DEF TypeInv, GenInv, RunInv
  <2>4. jit.pc = Len(code) + 1 /\ jit.pc > 0
    BY <2>1, <2>3
  <2>5. finished
    BY <2>4 DEF TypeInv, RunInv
  <2>6. plain.pc = at
    BY <1>2, <1>4, <2>2, <2>4 DEF Coupled
  <2>. QED BY <2>2, <2>5, <2>6, AtTheEnd
<1>8. Coupled(N)'
  BY <1>5, <1>6, <1>7 DEF RunStep
<1>9. tip.op = at' /\ (~finished' => tip = Note(at', temporary_values'))
      /\ (finished' => DOMAIN tip.map = {})
  BY <1>1, <1>2
<1>. QED BY <1>3, <1>8, <1>9 DEF Annotated

\* Every step keeps the notes.
LEMMA AnnotatedStep ==
  ASSUME TypeInv, Annotated, [VMNext]_vmVars
  PROVE  Annotated'
<1>1. CASE \E ops \in {flat'} : IsTreeCode(ops) /\ BeginCompilation(ops)
  BY <1>1, AnnotatedBegin
<1>2. CASE CompileStep
  BY <1>2, AnnotatedCompile
<1>3. CASE RunStep
  BY <1>3, AnnotatedRun
<1>4. CASE UNCHANGED vmVars
  <2>1. /\ UNCHANGED <<flat, at, temporary_values, values, code, nest, labels, finished>>
        /\ UNCHANGED <<entered, coherent>> /\ jit' = jit /\ plain' = plain
    BY <1>4 DEF vmVars, genVars
  <2>. SUFFICES ASSUME coherent, at > 0
                PROVE  Annotated'
    BY <2>1 DEF Annotated
  <2>2. PICK N, tip :
          /\ Good(N, code, values, tip) /\ tip.op = at
          /\ ~finished => tip = Note(at, temporary_values)
          /\ finished => DOMAIN tip.map = {}
          /\ Coupled(N)
    BY DEF Annotated
  <2>3. Good(N, code, values, tip)'
    BY <2>1, <2>2 DEF Good, Fits, Landing, OpenNotes, Takes, EndOf
  <2>4. Coupled(N)'
    BY <2>1, <2>2 DEF Coupled
  <2>5. tip.op = at' /\ (~finished' => tip = Note(at', temporary_values'))
        /\ (finished' => DOMAIN tip.map = {})
    BY <2>1, <2>2
  <2>. QED BY <2>3, <2>4, <2>5 DEF Annotated
<1>. QED BY <1>1, <1>2, <1>3, <1>4 DEF VMNext

\* With an empty map, machines that mirror each other are the same.
LEMMA SameMachine ==
  ASSUME NEW m \in Machine, NEW pm \in Machine, NEW map, DOMAIN map = {}, NEW v,
         Mirrors(map, m, v, pm)
  PROVE  m = pm
<1>1. \A a \in Window : m.tape[a] = pm.tape[a]
  BY DEF Mirrors, Seen
<1>2. m.tape \in [Window -> Cell] /\ pm.tape \in [Window -> Cell]
  BY MachineFields
<1>3. m.tape = pm.tape
  BY <1>1, <1>2
<1>. QED BY <1>3 DEF Mirrors, Machine

\* Coupled machines print and read the same and end with the same tape.
LEMMA AnnotatedInvisible ==
  ASSUME TypeInv, Annotated
  PROVE  CoherentCacheIsInvisible
<1>. SUFFICES ASSUME coherent, jit.pc > 0, ~plain.m.fault
              PROVE  /\ jit.m.out = plain.m.out /\ jit.m.inp = plain.m.inp
                     /\ jit.pc > Len(code) => plain.pc > Len(flat) /\ jit.m = plain.m
                     /\ plain.pc > Len(flat) =>
                          \A p \in jit.pc .. Len(code) : code[p].insn \in {"LABEL", "STORE"}
  BY DEF CoherentCacheIsInvisible
<1>1. finished /\ jit.m \in Machine /\ plain.m \in Machine /\ jit.pc \in 0 .. Len(code) + 1
      /\ plain.pc \in Int
  BY TreeCode DEF TypeInv, RunInv, Place, GenInv
<1>2. at = Len(flat) + 1 /\ at > 0 /\ Len(flat) \in Nat
  BY <1>1, AtTheEnd
<1>3. Len(code) \in Nat
  BY GenRecord DEF TypeInv, GenInv
<1>4. PICK N, tip :
        /\ Good(N, code, values, tip) /\ tip.op = at
        /\ ~finished => tip = Note(at, temporary_values)
        /\ finished => DOMAIN tip.map = {}
        /\ Coupled(N)
  BY <1>2 DEF Annotated
<1>5. plain.pc = N[jit.pc].op /\ Mirrors(N[jit.pc].map, jit.m, jit.v, plain.m)
  BY <1>4 DEF Coupled
<1>6. Fits(N, code, values) /\ N[Len(code) + 1] = tip
  BY <1>4 DEF Good
<1>7. jit.m.out = plain.m.out /\ jit.m.inp = plain.m.inp
  BY <1>5 DEF Mirrors
<1>8. ASSUME jit.pc > Len(code) PROVE plain.pc > Len(flat) /\ jit.m = plain.m
  <2>1. jit.pc = Len(code) + 1
    BY <1>1, <1>3, <1>8
  <2>2. N[jit.pc] = tip /\ DOMAIN tip.map = {} /\ plain.pc = at
    BY <1>1, <1>4, <1>5, <1>6, <2>1
  <2>3. jit.m = plain.m
    BY <1>1, <1>5, <2>2, SameMachine
  <2>. QED BY <1>2, <2>2, <2>3
<1>9. ASSUME plain.pc > Len(flat), NEW p \in jit.pc .. Len(code)
      PROVE  code[p].insn \in {"LABEL", "STORE"}
  <2>1. p \in 1 .. Len(code) /\ p \in 1 .. Len(code) + 1 /\ jit.pc \in 1 .. Len(code) + 1
        /\ jit.pc <= p
    BY <1>1, <1>3
  <2>2. N[jit.pc].op <= N[p].op /\ Takes(code[p], N[p], N[p + 1]) /\ N[p].op \in Int
    BY <1>2, <1>6, <2>1 DEF Fits
  <2>3. N[p].op \notin DOMAIN flat
    <3>1. DOMAIN flat = 1 .. Len(flat)
      BY TreeCode DEF TypeInv, GenInv
    <3>. QED BY <1>1, <1>2, <1>5, <1>9, <2>2, <3>1
  <2>. QED BY <2>2, <2>3 DEF Takes
<1>. QED BY <1>7, <1>8, <1>9

\* For every program, tape, size of a cell and input: while BfVM's cache stays
\* coherent, the function prints, reads and leaves behind what the opcodes do, and
\* returns only when they are done.  Only incoherent maps can make caching visible.
THEOREM CoherentCacheCorrect == VMSpec => []CoherentCacheIsInvisible
<1>1. VMInit => TypeInv /\ Annotated
  BY TypeInit, AnnotatedInit
<1>2. TypeInv /\ Annotated /\ [VMNext]_vmVars => TypeInv' /\ Annotated'
  BY TypeStep, AnnotatedStep
<1>3. TypeInv /\ Annotated => CoherentCacheIsInvisible
  BY AnnotatedInvisible
<1>. QED BY <1>1, <1>2, <1>3, PTL DEF VMSpec
=============================================================================

