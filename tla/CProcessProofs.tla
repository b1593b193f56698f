--------------------------- MODULE CProcessProofs ---------------------------
(***************************************************************************)
(* Proofs about CProcess and CJit, for any number of lines.                *)
(*                                                                         *)
(* The invariant of CProcess says for every stage which objects are live:  *)
(* the virtual machine's once it has been made, the functions and          *)
(* signatures of the texts compiled so far, and the text and the tree of   *)
(* the current one.  That of CJit counts the records of open loops.        *)
(***************************************************************************)
EXTENDS CJit, SequenceTheorems, FiniteSetTheorems, TLAPS

Machine == {Vm, Data, Context}

MachineMade ==
  \/ stage \in {"prompt", "optimize", "begin", "generate", "run", "free", "history", "leave"}
  \/ interactive /\ At("parse")

\* Texts that a function has been made for.
built == IF stage \in {"open", "create"} THEN 0
         ELSE IF stage \in {"parse", "optimize", "begin"} THEN lines - 1
         ELSE lines

TextKept == \/ At("parse")
            \/ ~interactive /\ stage \in {"create", "optimize", "begin", "generate"}

ProgramKept == \/ stage \in {"optimize", "begin", "generate"}
               \/ interactive /\ stage \in {"run", "free"}
               \/ ~interactive /\ At("create")

Live ==
  (IF MachineMade THEN Machine ELSE {})
    \cup {Function(n) : n \in 1 .. built} \cup {Signatures(n) : n \in 1 .. built}
    \cup (IF TextKept THEN {Text(lines), State(lines)} ELSE {})
    \cup (IF ProgramKept THEN {Program(lines)} ELSE {})

\* Which stages come with which number of lines.
Control ==
  /\ interactive \in BOOLEAN
  /\ stage \in Stages
  /\ lines \in Nat
  /\ ~interactive => /\ stage \notin {"prompt", "free", "history"}
                     /\ lines = IF At("open") THEN 0 ELSE 1
  /\ interactive => /\ ~At("open")
                    /\ At("create") => lines = 0
                    /\ stage \in {"parse", "optimize", "begin", "generate",
                                  "run", "free", "history", "dead"} => lines > 0

Ledger ==
  /\ stage \notin {"exited", "dead"} => live \ {Descriptor} = Live /\ signatures = built
  /\ interactive => Descriptor \notin live
  /\ At("exited") => live \ {Descriptor} = {Signatures(n) : n \in 1 .. lines - 1}
  /\ live \subseteq Objects
  /\ signatures \in 0 .. lines

Inv == Control /\ Ledger /\ OnlyTheHistoryDangles
-----------------------------------------------------------------------------
LEMMA InitInv == Init => Inv
  BY DEF Init, Inv, Control, Ledger, OnlyTheHistoryDangles, Remembered, Live, Machine,
     MachineMade, built, TextKept, ProgramKept, At, Stages, Objects, Text, Signatures,
     Function, State, Program, Descriptor, Vm, Data, Context

\* The control part alone: every action goes on to a stage it may go on to.
LEMMA ControlStep == Control /\ [Next]_processVars => Control'
  BY DEF Control, Next, processVars, Stages, At, Goes, StateRead, VmCreate, ReadLine,
     EndOfInput, Parsed, Optimized, BeginJit, EndJit, VmRun, ProgramFree, AddHistory,
     VmFree, Dies

LEMMA LedgerStep ==
  ASSUME Inv, [Next]_processVars, Control'
  PROVE  Ledger'
<1>. USE DEF Inv, Control, At, Goes, Kept, Allocates, Frees, Reads,
         Ledger, Live, MachineMade, built, TextKept, ProgramKept, Objects,
         Vm, Data, Context, Descriptor, Machine, Text, State, Program, Function, Signatures
<1>1. CASE StateRead
  BY <1>1 DEF StateRead
<1>2. CASE VmCreate
  BY <1>2 DEF VmCreate
<1>3. CASE ReadLine
  BY <1>3 DEF ReadLine
<1>4. CASE EndOfInput
  BY <1>4 DEF EndOfInput
<1>5. CASE Parsed
  BY <1>5 DEF Parsed
<1>6. CASE Optimized
  BY <1>6 DEF Optimized
<1>7. CASE BeginJit
  BY <1>7 DEF BeginJit, MadeByBegin
<1>8. CASE EndJit
  BY <1>8 DEF EndJit
<1>9. CASE VmRun
  BY <1>9 DEF VmRun
<1>10. CASE ProgramFree
  BY <1>10 DEF ProgramFree, FreedProgram
<1>11. CASE AddHistory
  BY <1>11 DEF AddHistory
<1>12. CASE VmFree
  BY <1>12 DEF VmFree, FreedWithVm
<1>13. CASE Dies
  BY <1>13 DEF Dies
<1>14. CASE UNCHANGED processVars
  BY <1>14 DEF processVars
<1>. QED BY <1>1, <1>2, <1>3, <1>4, <1>5, <1>6, <1>7, <1>8, <1>9, <1>10, <1>11, <1>12, <1>13, <1>14 DEF Next

\* Every free and every read but AddHistory's is of an object in the ledger.
LEMMA DanglingStep ==
  ASSUME Inv, [Next]_processVars, Control'
  PROVE  OnlyTheHistoryDangles'
<1>. USE DEF Inv, Control, At, Goes, Kept, Allocates, Frees, Reads, OnlyTheHistoryDangles,
         Remembered, Ledger, Live, MachineMade, built, TextKept, ProgramKept,
         Vm, Data, Context, Descriptor, Machine, Text, State, Program, Function, Signatures
<1>1. CASE StateRead
  BY <1>1 DEF StateRead
<1>2. CASE VmCreate
  BY <1>2 DEF VmCreate
<1>3. CASE ReadLine
  BY <1>3 DEF ReadLine
<1>4. CASE EndOfInput
  BY <1>4 DEF EndOfInput
<1>5. CASE Parsed
  BY <1>5 DEF Parsed
<1>6. CASE Optimized
  BY <1>6 DEF Optimized
<1>7. CASE BeginJit
  BY <1>7 DEF BeginJit, MadeByBegin
<1>8. CASE EndJit
  BY <1>8 DEF EndJit
<1>9. CASE VmRun
  BY <1>9 DEF VmRun
<1>10. CASE ProgramFree
  BY <1>10 DEF ProgramFree, FreedProgram
<1>11. CASE AddHistory
  BY <1>11 DEF AddHistory
<1>12. CASE VmFree
  BY <1>12 DEF VmFree, FreedWithVm
<1>13. CASE Dies
  BY <1>13 DEF Dies
<1>14. CASE UNCHANGED processVars
  BY <1>14 DEF processVars
<1>. QED BY <1>1, <1>2, <1>3, <1>4, <1>5, <1>6, <1>7, <1>8, <1>9, <1>10, <1>11, <1>12, <1>13, <1>14 DEF Next

LEMMA Invariance == Spec => []Inv
<1>1. Inv /\ [Next]_processVars => Inv'
  BY ControlStep, LedgerStep, DanglingStep DEF Inv
<1>. QED BY InitInv, <1>1, PTL DEF Spec

LEMMA LedgerFacts == Inv => TypeOK /\ OnlySignaturesPileUp /\ UsedWhenGone
<1>. SUFFICES ASSUME Inv PROVE TypeOK /\ OnlySignaturesPileUp /\ UsedWhenGone
  OBVIOUS
<1>. USE DEF Inv, Control, Ledger, At, Live, MachineMade, built, TextKept, ProgramKept, Machine,
         Vm, Data, Context, Descriptor, Text, State, Program, Function, Signatures
<1>1. dangling \subseteq Objects
  BY DEF OnlyTheHistoryDangles, Remembered, Objects
<1>2. TypeOK
  BY <1>1 DEF TypeOK
<1>3. OnlySignaturesPileUp
  BY DEF OnlySignaturesPileUp
<1>4. UsedWhenGone
  BY DEF UsedWhenGone, Uses, Stages
<1>. QED BY <1>2, <1>3, <1>4
-----------------------------------------------------------------------------
\* The objects the process keeps are those of the texts it has read.
THEOREM TypeCorrect == Spec => []TypeOK
  BY Invariance, LedgerFacts, PTL

\* However many lines are typed, nothing piles up but signatures and functions,
\* and only signatures are left when the process exits.
THEOREM PilesUp == Spec => []OnlySignaturesPileUp
  BY Invariance, LedgerFacts, PTL

\* However many lines are typed, each stage works on objects that are live, but
\* for the freed text that goes into the history and, when no line was typed at
\* all, the signatures that bf_vm_free is to free.
THEOREM UsesAreLive == Spec => []UsedWhenGone
  BY Invariance, LedgerFacts, PTL

\* However many lines are typed, the only dangling uses are those of the
\* history, and of the unset signatures when there was no line at all.
THEOREM HistoryDangles == Spec => []OnlyTheHistoryDangles
  BY Invariance, PTL DEF Inv
-----------------------------------------------------------------------------
(***************************************************************************)
(* The functions of CJit.  While one is generated there is a call, and in  *)
(* the chain a record, for each loop of the flat code that is open at the  *)
(* position reached; the chain is LoopStack's, whose steps keep it.        *)
(***************************************************************************)
Stack == INSTANCE LoopStackProofs

UnderWay == {i \in Opens(flat) : i < at /\ at <= EndOf(flat, i)}

Kinds == {"load", "store", "constant", "add constant", "mul constant", "add", "shift",
          "putchar", "getchar"}
Values == {"value", "old", ""}
Instruction ==
  [kind : Kinds, to : Values, from : Values, n : Int]
    \cup [kind : {"label", "exit", "back"}, label : Int]

Midway ==
  /\ IsTreeCode(flat)
  /\ at \in 1 .. Len(flat) + 1
  /\ Len(calls) = Cardinality(UnderWay)

JitInv ==
  /\ Stack!Chain
  /\ emitted \in Seq(Instruction)
  /\ IF At("generate") THEN Midway ELSE calls = << >>

\* What CJit takes from LoopStack is what LoopStackProofs speaks of.
LEMMA SameLoops ==
  /\ Loops!Init => Stack!Init
  /\ \A a \in Addr : Loops!BeginLoop(a) => Stack!BeginLoop(a)
  /\ Loops!EndLoop => Stack!EndLoop
<1>1. Loops!Init => Stack!Init
  BY DEF Loops!Init, Stack!Init, Loops!Garbage, Stack!Garbage, Loops!Pointer, Stack!Pointer,
     Loops!jit_label_undefined, Stack!jit_label_undefined
<1>2. ASSUME NEW a \in Addr, Loops!BeginLoop(a) PROVE Stack!BeginLoop(a)
  BY <1>2 DEF Loops!BeginLoop, Stack!BeginLoop, Loops!LinkedParent, Stack!LinkedParent,
     Loops!LoopHead, Stack!LoopHead, Loops!Mark, Stack!Mark
<1>3. ASSUME Loops!EndLoop PROVE Stack!EndLoop
  BY <1>3 DEF Loops!EndLoop, Stack!EndLoop, Loops!LoopTail, Stack!LoopTail,
     Loops!Deleted, Stack!Deleted, Loops!Mark, Stack!Mark
<1>. QED BY <1>1, <1>2, <1>3

\* There are finitely many open loops.
LEMMA UnderWayFinite == IsTreeCode(flat) => IsFiniteSet(UnderWay) /\ Cardinality(UnderWay) \in Nat
<1>. SUFFICES ASSUME IsTreeCode(flat) PROVE IsFiniteSet(UnderWay)
  BY FS_CardinalityType
<1>1. UnderWay \subseteq 1 .. Len(flat) /\ Len(flat) \in Nat
  BY DEF UnderWay, Opens, IsTreeCode
<1>2. IsFiniteSet(1 .. Len(flat))
  BY <1>1, FS_Interval
<1>. QED BY <1>1, <1>2, FS_Subset

\* At the position reached, what the walk finds there and how it goes on.
LEMMA UnderWayStep ==
  ASSUME Midway, at <= Len(flat), at' = at + 1, flat' = flat
  PROVE  /\ at' \in 1 .. Len(flat) + 1
         /\ flat[at].op \in Operations => UnderWay' = UnderWay
         /\ flat[at].op = "LOOP" => at \notin UnderWay /\ UnderWay' = UnderWay \cup {at}
         /\ flat[at].op = "END" => \E i \in UnderWay : UnderWay' = UnderWay \ {i}
<1>. DEFINE End(i) == EndOf(flat, i)
            Loop == Opens(flat)
<1>1. flat \in Seq(FlatOp) /\ Len(flat) \in Nat /\ at \in 1 .. Len(flat) /\ DOMAIN flat = 1 .. Len(flat)
  BY DEF Midway, IsTreeCode
<1>2. Loop \subseteq 1 .. Len(flat) /\ \A i \in 1 .. Len(flat) : i \in Loop <=> flat[i].op = "LOOP"
  BY <1>1 DEF Opens
<1>3. \A i \in Loop : End(i) \in 1 .. Len(flat) /\ i < End(i) /\ flat[End(i)].op = "END"
  BY <1>1 DEF Midway, IsTreeCode, Closes
<1>4. \A i, j \in Loop : End(i) = End(j) => i = j
  <2>1. \A i, j \in Loop : i < j => End(j) < End(i) \/ End(i) < j
    BY DEF Midway, IsTreeCode
  <2>. HIDE DEF End, Loop
  <2>. QED BY <1>2, <1>3, <2>1
<1>5. UnderWay = {i \in Loop : i < at /\ at <= End(i)}
      /\ UnderWay' = {i \in Loop : i < at + 1 /\ at + 1 <= End(i)}
  BY DEF UnderWay
<1>6. flat[at].op = "END" => \E i \in Loop : End(i) = at
  BY <1>1 DEF Midway, IsTreeCode, Closes
<1>. HIDE DEF End, Loop
<1>12. at' \in 1 .. Len(flat) + 1
  BY <1>1
<1>. DEFINE Before(i) == i < at /\ at <= End(i)
            After(i) == i < at + 1 /\ at + 1 <= End(i)
<1>7. \A i \in Loop : i \in Nat /\ End(i) \in Nat /\ i < End(i)
  BY <1>1, <1>2, <1>3
<1>8. \A i \in Loop : i # at /\ End(i) # at => (After(i) <=> Before(i))
  BY <1>1, <1>7
<1>9. at \in Loop => After(at) /\ ~Before(at)
  BY <1>1, <1>7
<1>10. \A i \in Loop : End(i) = at => Before(i) /\ ~After(i)
  BY <1>1, <1>7
<1>11. UnderWay = {i \in Loop : Before(i)} /\ UnderWay' = {i \in Loop : After(i)}
  BY <1>5
<1>. HIDE DEF Before, After
<1>13. ASSUME flat[at].op \in Operations PROVE UnderWay' = UnderWay
  <2>1. at \notin Loop /\ \A i \in Loop : End(i) # at
    BY <1>1, <1>2, <1>3, <1>13 DEF Operations
  <2>2. \A i \in Loop : After(i) <=> Before(i)
    BY <1>8, <2>1
  <2>. QED BY <1>11, <2>2
<1>14. ASSUME flat[at].op = "LOOP" PROVE at \notin UnderWay /\ UnderWay' = UnderWay \cup {at}
  <2>1. at \in Loop /\ \A i \in Loop : End(i) # at
    BY <1>1, <1>2, <1>3, <1>14
  <2>2. \A i \in Loop : After(i) <=> Before(i) \/ i = at
    BY <1>8, <1>9, <2>1
  <2>. QED BY <1>9, <1>11, <2>1, <2>2
<1>15. ASSUME flat[at].op = "END" PROVE \E i \in UnderWay : UnderWay' = UnderWay \ {i}
  <2>1. PICK i \in Loop : End(i) = at
    BY <1>6, <1>15
  <2>2. at \notin Loop /\ \A j \in Loop : End(j) = at => j = i
    BY <1>1, <1>2, <1>4, <1>15, <2>1
  <2>3. i \in UnderWay
    BY <1>10, <1>11, <2>1
  <2>4. \A j \in Loop : After(j) <=> Before(j) /\ j # i
    BY <1>8, <1>10, <2>1, <2>2
  <2>5. UnderWay' = UnderWay \ {i}
    BY <1>11, <2>4
  <2>. QED BY <2>3, <2>5
<1>. QED BY <1>12, <1>13, <1>14, <1>15

\* Short sequences of members of a set.
LEMMA Tuples ==
  \A S : /\ \A a \in S : << a >> \in Seq(S)
         /\ \A a, b \in S : <<a, b>> \in Seq(S)
         /\ \A a, b, c \in S : <<a, b, c>> \in Seq(S)
         /\ \A a, b, c, d, e \in S : <<a, b, c, d, e>> \in Seq(S)
  OBVIOUS

\* A sequence without its last element.
LEMMA OneLess ==
  ASSUME NEW S, NEW s \in Seq(S), NEW n \in Nat, n # 0, Len(s) = n
  PROVE  Len(SubSeq(s, 1, n - 1)) = n - 1
<1>1. \A i \in 1 .. n - 1 : s[i] \in S
  OBVIOUS
<1>2. SubSeq(s, 1, n - 1) \in Seq(S)
      /\ Len(SubSeq(s, 1, n - 1)) = IF 1 <= n - 1 THEN (n - 1) - 1 + 1 ELSE 0
  BY <1>1, SubSeqProperties
<1>. QED BY <1>2

\* An operation is translated to instructions, none of them a jump.
LEMMA OperationsDoNotJump ==
  ASSUME NEW o \in FlatOp, o.op \in Operations
  PROVE  /\ Translated(o) \in Seq(Instruction)
         /\ \A i \in 1 .. Len(Translated(o)) : ~IsJump(Translated(o)[i])
<1>. DEFINE Plain == {x \in Instruction : ~IsJump(x)}
<1>1. o.src \in Int /\ o.dst \in Int /\ o.arg \in Int
  BY DEF FlatOp
<1>2. ASSUME NEW n \in Int
      PROVE  /\ Load("value", n) \in Plain /\ Load("old", n) \in Plain
             /\ Store("value", n) \in Plain
             /\ Insn("add constant", "value", "value", n) \in Plain
             /\ Insn("mul constant", "value", "value", n) \in Plain
             /\ Insn("shift", "", "", n) \in Plain
             /\ Insn("add", "value", "old", n) \in Plain
             /\ Insn("constant", "value", "", n) \in Plain
             /\ Insn("putchar", "", "value", n) \in Plain
             /\ Insn("getchar", "value", "", n) \in Plain
  BY DEF Load, Store, Insn, Instruction, Kinds, Values, IsJump
<1>. HIDE DEF Plain
<1>3. ASSUME NEW n \in Int, NEW offset \in Int, NEW source \in Int
      PROVE  /\ CompileAdd(n, offset) \in Seq(Plain)
             /\ CompileMul(n, source, offset) \in Seq(Plain)
             /\ CompileShift(n) \in Seq(Plain) /\ CompileClear(offset) \in Seq(Plain)
             /\ CompilePut(offset) \in Seq(Plain) /\ CompileGet(offset) \in Seq(Plain)
  <2>0. 0 \in Int
    OBVIOUS
  <2>1. CompileAdd(n, offset) \in Seq(Plain)
    BY <1>2, <2>0, Tuples DEF CompileAdd
  <2>2. CompileMul(n, source, offset) \in Seq(Plain)
    BY <1>2, <2>0, Tuples DEF CompileMul
  <2>3. CompileShift(n) \in Seq(Plain)
    BY <1>2, <2>0, Tuples DEF CompileShift
  <2>4. CompileClear(offset) \in Seq(Plain)
    BY <1>2, <2>0, Tuples DEF CompileClear
  <2>5. CompilePut(offset) \in Seq(Plain)
    BY <1>2, <2>0, Tuples DEF CompilePut
  <2>6. CompileGet(offset) \in Seq(Plain)
    BY <1>2, <2>0, Tuples DEF CompileGet
  <2>. QED BY <2>1, <2>2, <2>3, <2>4, <2>5, <2>6
<1>4. Translated(o) \in Seq(Plain)
  <2>1. CASE o.op = "BF_ADD"
    BY <1>1, <1>3, <2>1 DEF Translated
  <2>2. CASE o.op = "BF_MUL"
    BY <1>1, <1>3, <2>2 DEF Translated
  <2>3. CASE o.op = "BF_SFT"
    BY <1>1, <1>3, <2>3 DEF Translated
  <2>4. CASE o.op = "BF_SET"
    BY <1>1, <1>3, <2>4 DEF Translated
  <2>5. CASE o.op = "BF_PUT"
    BY <1>1, <1>3, <2>5 DEF Translated
  <2>6. CASE o.op = "BF_GET"
    BY <1>1, <1>3, <2>6 DEF Translated
  <2>. QED BY <2>1, <2>2, <2>3, <2>4, <2>5, <2>6 DEF Operations
<1>5. Plain \subseteq Instruction /\ \A x \in Plain : ~IsJump(x)
  BY DEF Plain
<1>6. Translated(o) \in Seq(Instruction)
  BY <1>4, <1>5, SeqMonotonic
<1>7. \A i \in 1 .. Len(Translated(o)) : Translated(o)[i] \in Plain
  BY <1>4
<1>. QED BY <1>5, <1>6, <1>7

\* What opens and closes a loop are two jumps.
LEMMA MarksJump ==
  ASSUME NEW l \in Int, NEW kind \in {"label", "exit", "back"}
  PROVE  Stack!Mark(kind, l) \in Instruction /\ IsJump(Stack!Mark(kind, l))
  BY DEF Stack!Mark, Instruction, IsJump
-----------------------------------------------------------------------------
\* Before the first text no loop is open.
LEMMA InitJitInv == JitInit => JitInv
<1>. SUFFICES ASSUME JitInit PROVE JitInv
  OBVIOUS
<1>1. Stack!Chain
  BY SameLoops, Stack!InitChain, JitAssumption DEF JitInit
<1>2. calls = << >> /\ emitted = << >> /\ ~At("generate")
  BY DEF JitInit, Loops!Init, Init, At
<1>3. emitted \in Seq(Instruction)
  BY <1>2
<1>. QED BY <1>1, <1>2, <1>3 DEF JitInv

\* A function begins with no loop open, whatever the one before has left.
LEMMA BeginFunctionInv ==
  ASSUME JitInv, NEW ops, IsTreeCode(ops), BeginFunction(ops)
  PROVE  JitInv'
<1>1. calls = << >> /\ calls' = << >> /\ At("generate")'
  BY DEF JitInv, BeginFunction, BeginJit, At, Goes
<1>2. /\ current_loop' = current_loop /\ heap' = heap /\ allocated' = allocated
      /\ labels' = 0 /\ crashed' = crashed /\ emitted' = << >> /\ at' = 1 /\ flat' = ops
  BY DEF BeginFunction, Labels
<1>3. Stack!Chain'
  BY <1>1, <1>2 DEF JitInv, Stack!Chain, Stack!ListTypeOK, Stack!ChainMirrorsCalls,
     Stack!LiveLoopsAreOpen, Stack!OpenLabels, Stack!NoWildDereference, Stack!Pointer
<1>4. emitted' \in Seq(Instruction)
  BY <1>2
<1>5. UnderWay' = {} /\ at' \in 1 .. Len(flat') + 1
  <2>1. ops \in Seq(FlatOp)
    BY DEF IsTreeCode
  <2>. QED BY <1>2, <2>1 DEF UnderWay, Opens
<1>6. Len(calls') = Cardinality(UnderWay')
  BY <1>1, <1>5, FS_EmptySet
<1>7. IsTreeCode(flat')
  BY <1>2
<1>8. Midway'
  BY <1>5, <1>6, <1>7 DEF Midway
<1>. QED BY <1>1, <1>3, <1>4, <1>8 DEF JitInv

\* What every step of bf_compile_block has in common.
LEMMA Walk ==
  ASSUME JitInv, NEW ops, Compiles(ops)
  PROVE  /\ Midway /\ at <= Len(flat) /\ at' = at + 1 /\ flat' = flat
         /\ flat[at] \in FlatOp /\ flat[at].op \in ops /\ At("generate")'
         /\ IsTreeCode(flat')
<1>1. Midway /\ at' = at + 1 /\ flat' = flat /\ flat[at].op \in ops /\ At("generate")'
  BY DEF JitInv, Compiles, At, processVars
<1>2. at <= Len(flat) /\ at \in 1 .. Len(flat) /\ flat \in Seq(FlatOp)
  BY <1>1 DEF Midway, IsTreeCode, Compiles, generated
<1>. QED BY <1>1, <1>2 DEF Midway

\* An operation leaves the loops alone.
LEMMA CompileOperationInv ==
  ASSUME JitInv, CompileOperation
  PROVE  JitInv'
<1>1. Compiles(Operations)
  BY DEF CompileOperation
<1>2. /\ Midway /\ at <= Len(flat) /\ at' = at + 1 /\ flat' = flat
      /\ flat[at] \in FlatOp /\ flat[at].op \in Operations /\ At("generate")'
      /\ IsTreeCode(flat')
  BY <1>1, Walk
<1>3. UnderWay' = UnderWay /\ at' \in 1 .. Len(flat) + 1
  BY <1>2, UnderWayStep
<1>4. /\ current_loop' = current_loop /\ heap' = heap /\ allocated' = allocated
      /\ calls' = calls /\ labels' = labels /\ crashed' = crashed
      /\ emitted' = emitted \o Translated(flat[at])
  BY DEF CompileOperation
<1>5. Stack!Chain'
  BY <1>4 DEF JitInv, Stack!Chain, Stack!ListTypeOK, Stack!ChainMirrorsCalls,
     Stack!LiveLoopsAreOpen, Stack!OpenLabels, Stack!NoWildDereference, Stack!Pointer
<1>6. emitted' \in Seq(Instruction)
  BY <1>2, <1>4, OperationsDoNotJump, ConcatProperties DEF JitInv
<1>7. Midway'
  BY <1>2, <1>3, <1>4 DEF Midway
<1>. QED BY <1>2, <1>5, <1>6, <1>7 DEF JitInv

\* A loop that begins is one more that is open, and one more call.
LEMMA LoopStartInv ==
  ASSUME JitInv, LoopStart
  PROVE  JitInv'
<1>1. Compiles({"LOOP"})
  BY DEF LoopStart
<1>2. /\ Midway /\ at <= Len(flat) /\ at' = at + 1 /\ flat' = flat
      /\ flat[at].op = "LOOP" /\ At("generate")' /\ IsTreeCode(flat')
  BY <1>1, Walk
<1>3. at \notin UnderWay /\ UnderWay' = UnderWay \cup {at} /\ at' \in 1 .. Len(flat) + 1
  BY <1>2, UnderWayStep
<1>4. PICK a \in Addr : Stack!BeginLoop(a)
  BY SameLoops DEF LoopStart
<1>5. Stack!Chain /\ Stack!Chain'
  BY <1>4, Stack!BeginLoopChain, JitAssumption DEF JitInv
<1>6. /\ labels \in Nat /\ calls \in Seq(Addr)
      /\ calls' = Append(calls, a) /\ emitted' = emitted \o Stack!LoopHead(labels)
  BY <1>4, <1>5 DEF Stack!BeginLoop, Stack!Chain, Stack!ListTypeOK
<1>7. emitted' \in Seq(Instruction)
  <2>1. Stack!Mark("label", labels) \in Instruction /\ Stack!Mark("exit", labels + 1) \in Instruction
    BY <1>6, MarksJump
  <2>2. Stack!LoopHead(labels) \in Seq(Instruction)
    BY <2>1 DEF Stack!LoopHead
  <2>. QED BY <1>6, <2>2, ConcatProperties DEF JitInv
<1>8. Len(calls') = Cardinality(UnderWay')
  <2>1. Cardinality(UnderWay') = Cardinality(UnderWay) + 1
    BY <1>2, <1>3, UnderWayFinite, FS_AddElement DEF Midway
  <2>. QED BY <1>2, <1>6, <2>1 DEF Midway
<1>9. Midway'
  BY <1>2, <1>3, <1>8 DEF Midway
<1>. QED BY <1>2, <1>5, <1>7, <1>9 DEF JitInv

\* The labels that leaving a loop uses have been numbered.
LEMMA InnermostLabels ==
  ASSUME Stack!Chain, calls # << >>
  PROVE  /\ Stack!Nest[Len(Stack!Nest)].start \in Int
         /\ Stack!Nest[Len(Stack!Nest)].end \in Int
<1>1. Len(calls) \in Nat /\ Len(calls) # 0 /\ labels \in Nat
  BY LenProperties, EmptySeq DEF Stack!Chain, Stack!ListTypeOK
<1>2. Len(Stack!Nest) = Len(calls)
  BY <1>1 DEF Stack!Nest
<1>3. Stack!Nest[Len(calls)] = [start |-> heap[calls[Len(calls)]].start_label,
                                end |-> heap[calls[Len(calls)]].end_label]
  BY <1>1 DEF Stack!Nest
<1>. QED BY <1>1, <1>2, <1>3 DEF Stack!Chain, Stack!OpenLabels

\* A loop that ends is one less that is open, and one call less.
LEMMA LoopEndInv ==
  ASSUME JitInv, LoopEnd
  PROVE  JitInv'
<1>1. Compiles({"END"})
  BY DEF LoopEnd
<1>2. /\ Midway /\ at <= Len(flat) /\ at' = at + 1 /\ flat' = flat
      /\ flat[at].op = "END" /\ At("generate")' /\ IsTreeCode(flat')
  BY <1>1, Walk
<1>3. PICK i \in UnderWay : UnderWay' = UnderWay \ {i}
  BY <1>2, UnderWayStep
<1>4. Stack!EndLoop
  BY SameLoops DEF LoopEnd
<1>5. Stack!Chain /\ Stack!Chain'
  BY <1>4, Stack!EndLoopChain, JitAssumption DEF JitInv
<1>6. /\ calls \in Seq(Addr) /\ calls # << >>
      /\ calls' = SubSeq(calls, 1, Len(calls) - 1)
      /\ Len(calls) \in Nat /\ Len(calls) # 0
  BY <1>4, <1>5, LenProperties, EmptySeq DEF Stack!EndLoop, Stack!Chain, Stack!ListTypeOK
<1>7. emitted' \in Seq(Instruction)
  <2>. DEFINE top == Stack!Nest[Len(Stack!Nest)]
              tail == << Stack!Mark("back", top.start), Stack!Mark("label", top.end) >>
  <2>1. emitted' = emitted \o tail
    BY <1>4, <1>5, Stack!EndLoopCloses, JitAssumption
  <2>2. top.start \in Int /\ top.end \in Int
    BY <1>5, <1>6, InnermostLabels
  <2>. HIDE DEF top
  <2>3. Stack!Mark("back", top.start) \in Instruction /\ Stack!Mark("label", top.end) \in Instruction
    BY <2>2, MarksJump
  <2>4. tail \in Seq(Instruction)
    BY <2>3
  <2>. QED BY <2>1, <2>4, ConcatProperties DEF JitInv
<1>8. Len(calls') = Cardinality(UnderWay')
  <2>1. Cardinality(UnderWay') = Cardinality(UnderWay) - 1
    <3>1. IsFiniteSet(UnderWay)
      BY <1>2, UnderWayFinite DEF Midway
    <3>2. Cardinality(UnderWay \ {i}) = Cardinality(UnderWay) - 1
      BY <3>1, FS_RemoveElement
    <3>. QED BY <1>3, <3>2
  <2>2. Len(calls') = Len(calls) - 1
    BY <1>6, OneLess
  <2>. QED BY <1>2, <2>1, <2>2 DEF Midway
<1>9. at' \in 1 .. Len(flat) + 1
  BY <1>2, UnderWayStep
<1>10. Midway'
  BY <1>2, <1>8, <1>9 DEF Midway
<1>. QED BY <1>2, <1>5, <1>7, <1>10 DEF JitInv

\* When the walk has come to the end no loop is open.
LEMMA EndFunctionInv ==
  ASSUME JitInv, EndFunction
  PROVE  JitInv'
<1>1. Midway /\ at > Len(flat) /\ ~At("generate")'
  BY DEF EndFunction, EndJit, JitInv, At, Goes, generated
<1>2. UnderWay = {}
  <2>1. flat \in Seq(FlatOp) /\ \A i \in Opens(flat) : EndOf(flat, i) \in DOMAIN flat
    <3>1. Closes(flat) \subseteq DOMAIN flat
      BY DEF Closes
    <3>. QED BY <1>1, <3>1 DEF Midway, IsTreeCode
  <2>2. \A i \in Opens(flat) : ~(at <= EndOf(flat, i))
    BY <1>1, <2>1 DEF Midway, IsTreeCode
  <2>. QED BY <2>2 DEF UnderWay
<1>3. calls = << >>
  <2>1. Len(calls) = 0 /\ calls \in Seq(Addr)
    BY <1>1, <1>2, FS_EmptySet DEF Midway, JitInv, Stack!Chain, Stack!ListTypeOK
  <2>. QED BY <2>1, EmptySeq
<1>4. UNCHANGED jitVars
  BY DEF EndFunction
<1>. QED BY <1>1, <1>3, <1>4 DEF JitInv, jitVars, Stack!Chain, Stack!ListTypeOK,
     Stack!ChainMirrorsCalls, Stack!LiveLoopsAreOpen, Stack!OpenLabels,
     Stack!NoWildDereference, Stack!Pointer

\* The other calls neither begin a function nor end one.
LEMMA OtherCallInv ==
  ASSUME JitInv, OtherCall \/ UNCHANGED <<processVars, jitVars>>
  PROVE  JitInv'
<1>1. UNCHANGED jitVars
  BY DEF OtherCall, jitVars
<1>2. At("generate")' <=> At("generate")
  BY DEF OtherCall, processVars, At, Goes, StateRead, VmCreate, ReadLine, EndOfInput, Parsed,
     Optimized, VmRun, ProgramFree, AddHistory, VmFree, Dies
<1>. QED BY <1>1, <1>2 DEF JitInv, jitVars, Midway, UnderWay, Stack!Chain, Stack!ListTypeOK,
     Stack!ChainMirrorsCalls, Stack!LiveLoopsAreOpen, Stack!OpenLabels,
     Stack!NoWildDereference, Stack!Pointer

\* Every step keeps the invariant.
LEMMA JitInvariance == JitSpec => []JitInv
<1>1. JitInv /\ [JitNext]_<<processVars, jitVars>> => JitInv'
  <2>. SUFFICES ASSUME JitInv, [JitNext]_<<processVars, jitVars>> PROVE JitInv'
    OBVIOUS
  <2>1. ASSUME NEW ops \in {flat'}, IsTreeCode(ops), BeginFunction(ops) PROVE JitInv'
    BY <2>1, BeginFunctionInv
  <2>2. CASE CompileBlock
    BY <2>2, CompileOperationInv, LoopStartInv, LoopEndInv DEF CompileBlock
  <2>3. CASE EndFunction
    BY <2>3, EndFunctionInv
  <2>4. CASE OtherCall \/ UNCHANGED <<processVars, jitVars>>
    BY <2>4, OtherCallInv
  <2>. QED BY <2>1, <2>2, <2>3, <2>4 DEF JitNext
<1>. QED BY InitJitInv, <1>1, PTL DEF JitSpec

\* However many functions are generated, of whatever trees: no record that is gone
\* is used, and none is left when a function has been made.
THEOREM LoopsEnd == JitSpec => []LoopsEndWithFunction
<1>1. JitInv => LoopsEndWithFunction
  <2>. SUFFICES ASSUME JitInv PROVE LoopsEndWithFunction
    OBVIOUS
  <2>1. ~crashed /\ allocated = {calls[i] : i \in 1 .. Len(calls)}
    BY DEF JitInv, Stack!Chain, Stack!NoWildDereference, Stack!LiveLoopsAreOpen
  <2>2. calls = << >> => allocated = {}
    BY <2>1
  <2>. QED BY <2>1, <2>2 DEF JitInv, LoopsEndWithFunction
<1>. QED BY JitInvariance, <1>1, PTL
-----------------------------------------------------------------------------
(***************************************************************************)
(* The jumps that are emitted, among the other instructions.               *)
(***************************************************************************)
Keeping == INSTANCE FoldProofs WITH Step <- KeepJump

JumpsOf(s) == FoldLeft(KeepJump, << >>, s)

\* One more instruction is one more jump, or none.
LEMMA JumpsOfOneMore ==
  ASSUME NEW S, NEW s \in Seq(S), NEW e \in S
  PROVE  JumpsOf(Append(s, e)) = KeepJump(JumpsOf(s), e)
<1>1. \A base, t : Keeping!Fold(base, t) = FoldLeft(KeepJump, base, t)
  BY DEF Keeping!Fold, Keeping!FoldLeft, FoldLeft, Keeping!MapThenFoldSet, MapThenFoldSet,
     Keeping!Max, Max
<1>2. Keeping!Fold(<< >>, Append(s, e)) = KeepJump(Keeping!Fold(<< >>, s), e)
  BY Keeping!FoldLast
<1>. QED BY <1>1, <1>2 DEF JumpsOf

\* The jumps are some of the instructions.
LEMMA JumpsAreInstructions ==
  ASSUME NEW S, NEW s \in Seq(S)
  PROVE  JumpsOf(s) \in Seq(S)
<1>. DEFINE n == Len(s)
            part(k) == SubSeq(s, 1, k)
            T == {k \in Nat : k <= n /\ JumpsOf(part(k)) \notin Seq(S)}
<1>1. n \in Nat /\ part(n) = s
  OBVIOUS
<1>2. part(0) = << >>
  BY SubSeqEmpty
<1>3. ASSUME NEW k \in 0 .. n - 1
      PROVE  part(k) \in Seq(S) /\ s[k + 1] \in S /\ part(k + 1) = Append(part(k), s[k + 1])
  OBVIOUS
<1>4. JumpsOf(<< >>) = << >>
  <2>1. Keeping!Fold(<< >>, << >>) = << >>
    BY Keeping!FoldEmpty
  <2>. QED BY <2>1 DEF JumpsOf, Keeping!Fold, Keeping!FoldLeft, FoldLeft,
     Keeping!MapThenFoldSet, MapThenFoldSet, Keeping!Max, Max
<1>. HIDE DEF part
<1>5. ASSUME NEW k \in 0 .. n - 1, JumpsOf(part(k)) \in Seq(S)
      PROVE  JumpsOf(part(k + 1)) \in Seq(S)
  <2>1. JumpsOf(part(k + 1)) = KeepJump(JumpsOf(part(k)), s[k + 1])
    BY <1>3, JumpsOfOneMore
  <2>2. Append(JumpsOf(part(k)), s[k + 1]) \in Seq(S)
    BY <1>3, <1>5, AppendProperties
  <2>. QED BY <1>5, <2>1, <2>2 DEF KeepJump
<1>6. T = {}
  <2>. SUFFICES ASSUME T # {} PROVE FALSE
    OBVIOUS
  <2>1. PICK k \in T : \A j \in T : k <= j
    BY Keeping!Least
  <2>2. << >> \in Seq(S)
    OBVIOUS
  <2>3. k # 0
    BY <1>2, <1>4, <2>2
  <2>4. k - 1 \in 0 .. n - 1 /\ (k - 1) + 1 = k /\ k - 1 \in Nat /\ k - 1 <= n
    BY <1>1, <2>3
  <2>5. JumpsOf(part(k - 1)) \in Seq(S)
    BY <2>1, <2>4
  <2>. QED BY <1>5, <2>4, <2>5
<1>7. JumpsOf(part(n)) \in Seq(S)
  BY <1>1, <1>6
<1>. QED BY <1>1, <1>7

\* Two more jumps.
LEMMA JumpsOfTwoMore ==
  ASSUME NEW S, NEW s \in Seq(S), NEW a \in S, NEW b \in S, IsJump(a), IsJump(b)
  PROVE  JumpsOf(s \o <<a, b>>) = JumpsOf(s) \o <<a, b>>
<1>. DEFINE t == Append(s, a)
            j == JumpsOf(s)
<1>1. t \in Seq(S) /\ s \o <<a, b>> = Append(t, b)
  OBVIOUS
<1>2. JumpsOf(t) = Append(JumpsOf(s), a)
  BY JumpsOfOneMore DEF KeepJump
<1>. HIDE DEF t
<1>3. JumpsOf(Append(t, b)) = KeepJump(JumpsOf(t), b)
  BY <1>1, JumpsOfOneMore
<1>4. Append(Append(j, a), b) = j \o <<a, b>>
  BY JumpsAreInstructions
<1>5. JumpsOf(Append(t, b)) = Append(Append(j, a), b)
  BY <1>2, <1>3 DEF KeepJump
<1>. QED BY <1>1, <1>4, <1>5

\* Any number of other instructions.
LEMMA JumpsOfOthers ==
  ASSUME NEW S, NEW s \in Seq(S), NEW e \in Seq(S), \A i \in 1 .. Len(e) : ~IsJump(e[i])
  PROVE  JumpsOf(s \o e) = JumpsOf(s)
<1>. DEFINE n == Len(e)
            with(k) == s \o SubSeq(e, 1, k)
            T == {k \in Nat : k <= n /\ JumpsOf(with(k)) # JumpsOf(s)}
<1>1. n \in Nat
  OBVIOUS
<1>2. with(0) = s
  BY SubSeqEmpty
<1>3. with(n) = s \o e
  OBVIOUS
<1>4. ASSUME NEW k \in 0 .. n - 1
      PROVE  /\ with(k) \in Seq(S) /\ e[k + 1] \in S
             /\ with(k + 1) = Append(with(k), e[k + 1])
  OBVIOUS
<1>. HIDE DEF with
<1>5. ASSUME NEW k \in 0 .. n - 1 PROVE JumpsOf(with(k + 1)) = JumpsOf(with(k))
  <2>1. JumpsOf(with(k + 1)) = KeepJump(JumpsOf(with(k)), e[k + 1])
    BY <1>4, JumpsOfOneMore
  <2>2. k + 1 \in 1 .. n
    BY <1>1
  <2>. QED BY <2>1, <2>2 DEF KeepJump
<1>6. T = {}
  <2>. SUFFICES ASSUME T # {} PROVE FALSE
    OBVIOUS
  <2>1. PICK k \in T : \A j \in T : k <= j
    BY Keeping!Least
  <2>2. k # 0
    BY <1>2
  <2>3. k - 1 \in 0 .. n - 1 /\ (k - 1) + 1 = k /\ k - 1 \in Nat /\ k - 1 <= n
    BY <1>1, <2>2
  <2>4. JumpsOf(with(k - 1)) = JumpsOf(s)
    BY <2>1, <2>3
  <2>. QED BY <1>5, <2>3, <2>4
<1>7. JumpsOf(with(n)) = JumpsOf(s)
  BY <1>1, <1>6
<1>. QED BY <1>3, <1>7

(***************************************************************************)
(* How the steps of bf_compile_block change the open loops and the jumps.  *)
(***************************************************************************)
OpenLoops == Stack!Nest

\* The steps that LoopNest describes: a loop opens, a loop closes.
Opening ==
  /\ OpenLoops' = Append(OpenLoops, [start |-> labels, end |-> labels + 1])
  /\ labels' = labels + 2
  /\ Jumps' = Jumps \o << Stack!Mark("label", labels), Stack!Mark("exit", labels + 1) >>

Closing ==
  /\ OpenLoops # << >>
  /\ OpenLoops' = SubSeq(OpenLoops, 1, Len(OpenLoops) - 1)
  /\ labels' = labels
  /\ Jumps' = Jumps \o << Stack!Mark("back", OpenLoops[Len(OpenLoops)].start),
                        Stack!Mark("label", OpenLoops[Len(OpenLoops)].end) >>

\* An operation does neither.
LEMMA OperationsKeepJumps ==
  ASSUME JitInv, CompileOperation
  PROVE  UNCHANGED <<calls, labels, Jumps>>
<1>1. flat[at] \in FlatOp /\ flat[at].op \in Operations
  BY Walk DEF CompileOperation
<1>2. /\ calls' = calls /\ labels' = labels
      /\ emitted' = emitted \o Translated(flat[at])
  BY DEF CompileOperation
<1>3. JumpsOf(emitted \o Translated(flat[at])) = JumpsOf(emitted)
  BY <1>1, OperationsDoNotJump, JumpsOfOthers DEF JitInv
<1>. QED BY <1>2, <1>3 DEF Jumps, JumpsOf

\* A loop that begins opens one.
LEMMA LoopStartOpens ==
  ASSUME JitInv, LoopStart
  PROVE  Opening
<1>1. PICK a \in Addr : Stack!BeginLoop(a)
  BY SameLoops DEF LoopStart
<1>2. /\ OpenLoops' = Append(OpenLoops, [start |-> labels, end |-> labels + 1])
      /\ labels' = labels + 2
      /\ emitted' = emitted \o Stack!LoopHead(labels)
  BY <1>1, Stack!BeginLoopOpens, JitAssumption DEF JitInv, OpenLoops
<1>. DEFINE x == Stack!Mark("label", labels)
            y == Stack!Mark("exit", labels + 1)
<1>3. x \in Instruction /\ y \in Instruction /\ IsJump(x) /\ IsJump(y)
  BY MarksJump DEF JitInv, Stack!Chain, Stack!ListTypeOK
<1>4. emitted' = emitted \o <<x, y>>
  BY <1>2 DEF Stack!LoopHead
<1>. HIDE DEF x, y
<1>5. JumpsOf(emitted \o <<x, y>>) = JumpsOf(emitted) \o <<x, y>>
  BY <1>3, JumpsOfTwoMore DEF JitInv
<1>. QED BY <1>2, <1>4, <1>5 DEF Opening, Jumps, JumpsOf, x, y

\* A loop that ends closes the innermost.
LEMMA LoopEndCloses ==
  ASSUME JitInv, LoopEnd
  PROVE  Closing
<1>1. Stack!EndLoop /\ Stack!Chain
  BY SameLoops DEF LoopEnd, JitInv
<1>. DEFINE top == OpenLoops[Len(OpenLoops)]
            x == Stack!Mark("back", top.start)
            y == Stack!Mark("label", top.end)
<1>2. /\ OpenLoops # << >>
      /\ OpenLoops' = SubSeq(OpenLoops, 1, Len(OpenLoops) - 1)
      /\ labels' = labels
      /\ emitted' = emitted \o <<x, y>>
  BY <1>1, Stack!EndLoopCloses, JitAssumption DEF OpenLoops
<1>3. top.start \in Int /\ top.end \in Int
  BY <1>1, InnermostLabels DEF Stack!EndLoop, OpenLoops
<1>. HIDE DEF top
<1>4. x \in Instruction /\ y \in Instruction /\ IsJump(x) /\ IsJump(y)
  BY <1>3, MarksJump
<1>. HIDE DEF x, y
<1>5. JumpsOf(emitted \o <<x, y>>) = JumpsOf(emitted) \o <<x, y>>
  BY <1>4, JumpsOfTwoMore DEF JitInv
<1>. QED BY <1>2, <1>5 DEF Closing, Jumps, JumpsOf, x, y, top

\* They are LoopNest's steps.
LEMMA NestingSteps ==
  /\ Opening => Nesting!Next
  /\ Closing => Nesting!Next
<1>1. Opening => Nesting!Open
  BY DEF Opening, OpenLoops, Stack!Nest, Nesting!Open, Nesting!Mark, Stack!Mark
<1>2. Closing => Nesting!Close
  BY DEF Closing, OpenLoops, Stack!Nest, Nesting!Close, Nesting!Mark, Stack!Mark
<1>. QED BY <1>1, <1>2 DEF Nesting!Next

\* Before its first loop a function has neither open loops nor jumps.
LEMMA BeginFunctionNests ==
  ASSUME JitInv, NEW ops, BeginFunction(ops)
  PROVE  at' = 1 /\ Nesting!Init'
<1>1. calls' = << >> /\ at' = 1 /\ labels' = 0 /\ emitted' = << >>
  BY DEF JitInv, BeginFunction, BeginJit, At, Goes, Labels
<1>2. Keeping!Fold(<< >>, << >>) = << >>
  BY Keeping!FoldEmpty
<1>3. FoldLeft(KeepJump, << >>, << >>) = << >>
  BY <1>2 DEF Keeping!Fold, Keeping!FoldLeft, FoldLeft, Keeping!MapThenFoldSet,
     MapThenFoldSet, Keeping!Max, Max
<1>. QED BY <1>1, <1>3 DEF Nesting!Init, Jumps

\* The jumps of every function nest as LoopNest promises, however many functions
\* the virtual machine has generated before and whatever they have left in
\* current_loop and in the memory of the records.
THEOREM FunctionsNest == JitSpec => JumpsNest
<1>. DEFINE Nests == [IF at' = 1 THEN Nesting!Init' ELSE Nesting!Next]_<<calls, labels, Jumps>>
<1>1. ASSUME JitInv, [JitNext]_<<processVars, jitVars>> PROVE Nests
  <2>1. ASSUME NEW ops \in {flat'}, BeginFunction(ops) PROVE Nests
    BY <1>1, <2>1, BeginFunctionNests
  <2>2. CASE CompileOperation
    BY <1>1, <2>2, OperationsKeepJumps
  <2>3. ASSUME NEW ops, Compiles(ops) PROVE at' # 1
    <3>1. at' = at + 1 /\ at \in 1 .. Len(flat) + 1 /\ flat \in Seq(FlatOp)
      BY <1>1, <2>3, Walk DEF Midway, IsTreeCode
    <3>. QED BY <3>1
  <2>4. CASE LoopStart
    <3>1. at' # 1
      BY <2>3, <2>4 DEF LoopStart
    <3>. QED BY <1>1, <2>4, <3>1, LoopStartOpens, NestingSteps
  <2>5. CASE LoopEnd
    <3>1. at' # 1
      BY <2>3, <2>5 DEF LoopEnd
    <3>. QED BY <1>1, <2>5, <3>1, LoopEndCloses, NestingSteps
  <2>6. CASE UNCHANGED jitVars
    BY <2>6 DEF jitVars, Jumps
  <2>7. EndFunction \/ OtherCall \/ UNCHANGED <<processVars, jitVars>> => UNCHANGED jitVars
    BY DEF EndFunction, OtherCall
  <2>. HIDE DEF Nests
  <2>. QED BY <1>1, <2>1, <2>2, <2>4, <2>5, <2>6, <2>7 DEF JitNext, CompileBlock
<1>. QED BY JitInvariance, <1>1, PTL DEF JitSpec, JumpsNest
=============================================================================
