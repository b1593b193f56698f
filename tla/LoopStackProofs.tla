-------------------------- MODULE LoopStackProofs --------------------------
(***************************************************************************)
(* Proofs about LoopStack for any set of addresses, any number of loops    *)
(* and any contents of the pointers that are read unset.                   *)
(***************************************************************************)
EXTENDS LoopStack, SequenceTheorems, TLAPS

\* Code that is appended to may use more labels than the code it follows.
LEMMA SeqGrows ==
  ASSUME NEW S, NEW T, S \subseteq T, NEW e \in Seq(S), NEW s \in Seq(T)
  PROVE  e \o s \in Seq(T)
<1>1. e \in Seq(T)
  BY SeqMonotonic
<1>. QED BY <1>1, ConcatProperties

LEMMA MarksGrow ==
  ASSUME labels \in Nat, labels' \in Nat, labels <= labels'
  PROVE  Marks \subseteq Marks'
BY DEF Marks

\* The invariant of the chain: the types of the records, and which of them are
\* open and allocated.  The labels of every Loop in the chain have been numbered
\* by libjit.
ListTypeOK ==
  /\ current_loop \in Pointer
  /\ heap \in [Addr -> Loop]
  /\ allocated \subseteq Addr
  /\ calls \in Seq(Addr)
  /\ labels \in Nat
  /\ crashed \in BOOLEAN

OpenLabels ==
  \A i \in 1 .. Len(calls) : /\ heap[calls[i]].start_label \in 0 .. labels - 1
                             /\ heap[calls[i]].end_label \in 0 .. labels - 1

Chain == /\ ListTypeOK
         /\ ChainMirrorsCalls
         /\ LiveLoopsAreOpen
         /\ OpenLabels
         /\ NoWildDereference

\* The inductive invariant: the chain, and that what is emitted uses its labels.
IInv == Chain /\ emitted \in Seq(Marks)

\* Before the first loop the chain is empty, whatever is unset.
LEMMA InitChain == Init => Chain
<1>. SUFFICES ASSUME Init PROVE Chain
  OBVIOUS
<1>. USE DEF Init
<1>1. heap \in [Addr -> Loop]
  BY DEF Garbage, Loop, jit_label_undefined
<1>2. calls \in Seq(Addr)
  BY EmptySeq
<1>3. ListTypeOK
  BY <1>1, <1>2 DEF ListTypeOK
<1>4. ChainMirrorsCalls /\ LiveLoopsAreOpen /\ OpenLabels /\ NoWildDereference
  BY DEF ChainMirrorsCalls, LiveLoopsAreOpen, OpenLabels, NoWildDereference
<1>. QED BY <1>3, <1>4 DEF Chain

\* The two steps keep the chain, and what they append to emitted plays no part.
LEMMA BeginLoopChain ==
  ASSUME Chain, NEW a \in Addr, BeginLoop(a)
  PROVE  Chain'
<1>. USE DEF Chain
<1>1. /\ a \notin allocated /\ allocated' = allocated \cup {a}
      /\ current_loop' = a
      /\ calls' = Append(calls, a)
      /\ labels' = labels + 2
      /\ crashed' = crashed
      /\ heap' = [heap EXCEPT ![a] = [start_label |-> labels,
                                      end_label |-> labels + 1,
                                      parent |-> LinkedParent(a)]]
  BY DEF BeginLoop
<1>2. LinkedParent(a) \in Pointer
  BY DEF LinkedParent, ListTypeOK, Loop
<1>3. heap' \in [Addr -> Loop]
  BY <1>1, <1>2 DEF ListTypeOK, Loop
<1>4. /\ Len(calls') = Len(calls) + 1
      /\ \A i \in 1 .. Len(calls) : calls'[i] = calls[i]
      /\ calls'[Len(calls) + 1] = a
      /\ calls' \in Seq(Addr)
  BY <1>1 DEF ListTypeOK
<1>5. \A i \in 1 .. Len(calls) : calls[i] \in Addr /\ calls[i] # a /\ heap'[calls[i]] = heap[calls[i]]
  BY <1>1 DEF ListTypeOK, LiveLoopsAreOpen
<1>6. ListTypeOK'
  BY <1>1, <1>3, <1>4 DEF ListTypeOK, Pointer
<1>7. ChainMirrorsCalls'
  <2>1. calls' # << >> => current_loop' = calls'[Len(calls')]
    BY <1>1, <1>4
  <2>2. ASSUME NEW i \in 1 .. Len(calls') - 1
        PROVE  heap'[calls'[i + 1]].parent = calls'[i]
    <3>1. CASE i + 1 <= Len(calls)
      BY <3>1, <1>4, <1>5 DEF ChainMirrorsCalls, ListTypeOK
    <3>2. CASE i = Len(calls)
      <4>1. calls # << >> /\ current_loop = calls[i] /\ current_loop \in Addr
        BY <3>2, <1>4, <1>5 DEF ChainMirrorsCalls, ListTypeOK
      <4>2. LinkedParent(a) = current_loop
        BY <4>1, LoopStackAssumption DEF LinkedParent
      <4>. QED BY <4>1, <4>2, <3>2, <1>1, <1>4 DEF ListTypeOK
    <3>. QED BY <3>1, <3>2, <1>4 DEF ListTypeOK
  <2>3. \A i, j \in 1 .. Len(calls') : calls'[i] = calls'[j] => i = j
    BY <1>4, <1>5 DEF ChainMirrorsCalls, ListTypeOK
  <2>. QED BY <2>1, <2>2, <2>3 DEF ChainMirrorsCalls
<1>8. LiveLoopsAreOpen'
  <2>. DEFINE Open == {calls[i] : i \in 1 .. Len(calls)}
              OpenNext == {calls'[i] : i \in 1 .. Len(calls')}
  <2>1. ASSUME NEW x \in OpenNext PROVE x \in Open \cup {a}
    BY <2>1, <1>4 DEF ListTypeOK
  <2>2. ASSUME NEW x \in Open \cup {a} PROVE x \in OpenNext
    <3>1. CASE x = a
      <4>1. Len(calls) + 1 \in 1 .. Len(calls')
        BY <1>4 DEF ListTypeOK
      <4>. QED BY <3>1, <4>1, <1>4
    <3>2. CASE x \in Open
      <4>1. PICK i \in 1 .. Len(calls) : x = calls[i]
        BY <3>2
      <4>2. i \in 1 .. Len(calls') /\ calls'[i] = x
        BY <4>1, <1>4 DEF ListTypeOK
      <4>. QED BY <4>2
    <3>. QED BY <2>2, <3>1, <3>2
  <2>3. OpenNext = Open \cup {a}
    BY <2>1, <2>2
  <2>. QED BY <2>3, <1>1 DEF LiveLoopsAreOpen
<1>9. OpenLabels'
  <2>. SUFFICES ASSUME NEW i \in 1 .. Len(calls')
                PROVE  /\ heap'[calls'[i]].start_label \in 0 .. labels' - 1
                       /\ heap'[calls'[i]].end_label \in 0 .. labels' - 1
    BY DEF OpenLabels
  <2>1. CASE i <= Len(calls)
    BY <2>1, <1>1, <1>4, <1>5 DEF OpenLabels, ListTypeOK
  <2>2. CASE i = Len(calls) + 1
    BY <2>2, <1>1, <1>4 DEF ListTypeOK
  <2>. QED BY <2>1, <2>2, <1>4 DEF ListTypeOK
<1>. QED BY <1>1, <1>6, <1>7, <1>8, <1>9 DEF NoWildDereference

\* Leaving a loop ends the innermost link.
LEMMA EndLoopChain ==
  ASSUME Chain, EndLoop
  PROVE  Chain'
<1>. USE DEF Chain
<1>. DEFINE n == Len(calls)
            top == calls[n]
<1>1. n \in Nat /\ n # 0 /\ calls \in [1 .. n -> Addr]
  BY LenProperties, EmptySeq DEF EndLoop, ListTypeOK
<1>2. current_loop = top /\ top \in Addr /\ top \in allocated
  BY <1>1 DEF ChainMirrorsCalls, LiveLoopsAreOpen, EndLoop
<1>3. /\ current_loop' = heap[top].parent
      /\ allocated' = allocated \ {top}
      /\ calls' = SubSeq(calls, 1, n - 1)
      /\ heap' = heap /\ labels' = labels /\ crashed' = crashed
  BY <1>2 DEF EndLoop, Deleted
<1>4. calls' \in Seq(Addr) /\ Len(calls') = n - 1
  <2>1. \A i \in 1 .. n - 1 : calls[i] \in Addr
    BY <1>1
  <2>. QED BY <2>1, <1>1, <1>3, SubSeqProperties
<1>5. \A i \in 1 .. n - 1 : calls'[i] = calls[i] /\ calls'[i] # top
  <2>1. \A i \in 1 .. n - 1 : calls'[i] = calls[i]
    BY <1>1, <1>3
  <2>2. \A i \in 1 .. n - 1 : calls[i] # top
    BY <1>1 DEF ChainMirrorsCalls
  <2>. QED BY <2>1, <2>2
<1>6. ListTypeOK'
  <2>1. heap[top].parent \in Pointer
    BY <1>2 DEF ListTypeOK, Loop
  <2>. QED BY <2>1, <1>3, <1>4 DEF ListTypeOK, Pointer
<1>7. ChainMirrorsCalls'
  <2>1. ASSUME n - 1 # 0 PROVE current_loop' = calls'[n - 1]
    <3>1. n - 1 \in 1 .. Len(calls) - 1
      BY <2>1, <1>1
    <3>2. heap[calls[n]].parent = calls[n - 1]
      BY <3>1, <1>1 DEF ChainMirrorsCalls
    <3>3. calls'[n - 1] = calls[n - 1]
      BY <3>1, <1>5
    <3>. QED BY <3>2, <3>3, <1>3
  <2>2. calls' # << >> => Len(calls') # 0
    BY <1>4, EmptySeq
  <2>3. \A i \in 1 .. Len(calls') - 1 : heap'[calls'[i + 1]].parent = calls'[i]
    BY <1>1, <1>3, <1>4, <1>5 DEF ChainMirrorsCalls
  <2>4. \A i, j \in 1 .. Len(calls') : calls'[i] = calls'[j] => i = j
    BY <1>1, <1>4, <1>5 DEF ChainMirrorsCalls
  <2>. QED BY <2>1, <2>2, <2>3, <2>4, <1>4 DEF ChainMirrorsCalls
<1>8. LiveLoopsAreOpen'
  <2>. DEFINE Open == {calls[i] : i \in 1 .. n}
              OpenNext == {calls'[i] : i \in 1 .. n - 1}
  <2>1. ASSUME NEW x \in OpenNext PROVE x \in Open \ {top}
    BY <2>1, <1>1, <1>5
  <2>2. ASSUME NEW x \in Open \ {top} PROVE x \in OpenNext
    <3>1. PICK i \in 1 .. n : x = calls[i]
      BY <2>2
    <3>2. i \in 1 .. n - 1
      BY <3>1, <2>2, <1>1
    <3>. QED BY <3>1, <3>2, <1>5
  <2>3. OpenNext = Open \ {top}
    BY <2>1, <2>2
  <2>. QED BY <2>3, <1>3, <1>4 DEF LiveLoopsAreOpen
<1>9. OpenLabels'
  BY <1>1, <1>3, <1>4, <1>5 DEF OpenLabels
<1>. QED BY <1>3, <1>6, <1>7, <1>8, <1>9 DEF NoWildDereference

\* What is emitted uses the labels that libjit has numbered.
LEMMA EmittedStep ==
  ASSUME IInv, Next
  PROVE  emitted' \in Seq(Marks')
<1>. USE DEF IInv, Chain
<1>1. ASSUME NEW a \in Addr, BeginLoop(a) PROVE emitted' \in Seq(Marks')
  <2>1. labels' = labels + 2 /\ emitted' = emitted \o LoopHead(labels) /\ labels \in Nat
    BY <1>1 DEF BeginLoop, ListTypeOK
  <2>2. LoopHead(labels) \in Seq(Marks')
    BY <2>1 DEF LoopHead, Mark, Marks
  <2>3. Marks \subseteq Marks'
    BY <2>1, MarksGrow
  <2>. QED BY <2>1, <2>2, <2>3, SeqGrows
<1>2. CASE EndLoop
  <2>. DEFINE top == calls[Len(calls)]
  <2>1. Len(calls) \in Nat /\ Len(calls) # 0 /\ calls \in [1 .. Len(calls) -> Addr]
    BY <1>2, LenProperties, EmptySeq DEF EndLoop, ListTypeOK
  <2>2. current_loop = top /\ top \in allocated
    BY <1>2, <2>1 DEF ChainMirrorsCalls, LiveLoopsAreOpen, EndLoop
  <2>3. emitted' = emitted \o LoopTail(heap[top]) /\ labels' = labels
    BY <1>2, <2>2 DEF EndLoop
  <2>4. heap[top].start_label \in 0 .. labels - 1 /\ heap[top].end_label \in 0 .. labels - 1
    BY <2>1 DEF OpenLabels
  <2>5. LoopTail(heap[top]) \in Seq(Marks)
    BY <2>4 DEF LoopTail, Mark, Marks
  <2>6. Marks' = Marks
    BY <2>3 DEF Marks
  <2>. QED BY <2>3, <2>5, <2>6, ConcatProperties
<1>. QED BY <1>1, <1>2 DEF Next

(***************************************************************************)
(* The safety results.  Each holds for every allocator, every nesting of   *)
(* loops and every value of the pointers that are read unset.              *)
(***************************************************************************)
THEOREM Inductive == Spec => []IInv
<1>1. Init => IInv
  <2>1. Init => emitted \in Seq(Marks)
    BY EmptySeq DEF Init
  <2>. QED BY InitChain, <2>1 DEF IInv
<1>2. IInv /\ [Next]_vars => IInv'
  <2>. SUFFICES ASSUME IInv, [Next]_vars PROVE IInv'
    OBVIOUS
  <2>1. ASSUME NEW a \in Addr, BeginLoop(a) PROVE Chain'
    BY <2>1, BeginLoopChain DEF IInv
  <2>2. CASE EndLoop
    BY <2>2, EndLoopChain, EmittedStep DEF IInv, Next
  <2>3. CASE UNCHANGED vars
    BY <2>3 DEF IInv, Chain, ListTypeOK, ChainMirrorsCalls, LiveLoopsAreOpen, OpenLabels,
                NoWildDereference, vars, Marks
  <2>4. CASE Next
    <3>1. Chain'
      BY <2>1, <2>2, <2>4 DEF IInv, Next
    <3>2. emitted' \in Seq(Marks')
      BY <2>4, EmittedStep
    <3>. QED BY <3>1, <3>2 DEF IInv
  <2>. QED BY <2>3, <2>4
<1>. QED BY <1>1, <1>2, PTL DEF Spec

\* The variables keep their types; no branch to an unnumbered label is emitted.
THEOREM TypeCorrect == Spec => []TypeOK
<1>1. IInv => TypeOK
  BY DEF IInv, Chain, ListTypeOK, TypeOK
<1>. QED BY Inductive, <1>1, PTL

\* EndLoop never follows a pointer BeginLoop did not store.
THEOREM NeverWild == Spec => []NoWildDereference
<1>1. IInv => NoWildDereference
  BY DEF IInv, Chain
<1>. QED BY Inductive, <1>1, PTL

\* The parent chain is the recursion of CompileBlock.
THEOREM ChainCorrect == Spec => []ChainMirrorsCalls
<1>1. IInv => ChainMirrorsCalls
  BY DEF IInv, Chain
<1>. QED BY Inductive, <1>1, PTL

\* What is allocated is exactly the chain: no Loop leaks, none is freed early.
THEOREM LiveLoops == Spec => []LiveLoopsAreOpen
<1>1. IInv => LiveLoopsAreOpen
  BY DEF IInv, Chain
<1>. QED BY Inductive, <1>1, PTL
-----------------------------------------------------------------------------
(***************************************************************************)
(* The refinement: LoopStack implements LoopNest.                          *)
(***************************************************************************)
Nest == [i \in 1 .. Len(calls) |-> [start |-> heap[calls[i]].start_label,
                                    end |-> heap[calls[i]].end_label]]

\* Entering a loop opens one.
LEMMA BeginLoopOpens ==
  ASSUME Chain, NEW a \in Addr, BeginLoop(a)
  PROVE  /\ Nest' = Append(Nest, [start |-> labels, end |-> labels + 1])
         /\ labels' = labels + 2
         /\ emitted' = emitted \o LoopHead(labels)
<1>. USE DEF Chain
<1>. DEFINE new == [start |-> labels, end |-> labels + 1]
            n == Len(calls)
<1>1. n \in Nat /\ calls \in [1 .. n -> Addr]
  BY LenProperties DEF ListTypeOK
<1>2. Len(calls') = n + 1 /\ (\A i \in 1 .. n : calls'[i] = calls[i]) /\ calls'[n + 1] = a
  BY <1>1 DEF BeginLoop, ListTypeOK
<1>3. \A i \in 1 .. n : heap'[calls[i]] = heap[calls[i]]
  BY <1>1 DEF BeginLoop, ListTypeOK, LiveLoopsAreOpen
<1>4. heap'[a].start_label = labels /\ heap'[a].end_label = labels + 1
  BY DEF BeginLoop, ListTypeOK
<1>5. Nest' = [i \in 1 .. n + 1 |-> IF i <= n THEN Nest[i] ELSE new]
  <2>1. ASSUME NEW i \in 1 .. n + 1
        PROVE  Nest'[i] = IF i <= n THEN Nest[i] ELSE new
    <3>1. Nest'[i] = [start |-> heap'[calls'[i]].start_label, end |-> heap'[calls'[i]].end_label]
      BY <1>2 DEF Nest
    <3>2. CASE i <= n
      BY <3>1, <3>2, <1>1, <1>2, <1>3 DEF Nest
    <3>3. CASE i = n + 1
      BY <3>1, <3>3, <1>1, <1>2, <1>4
    <3>. QED BY <3>2, <3>3, <1>1
  <2>. QED BY <2>1, <1>2 DEF Nest
<1>6. Append(Nest, new) = [i \in 1 .. n + 1 |-> IF i <= n THEN Nest[i] ELSE new]
  BY <1>1 DEF Nest
<1>7. labels' = labels + 2 /\ emitted' = emitted \o LoopHead(labels)
  BY DEF BeginLoop
<1>. QED BY <1>5, <1>6, <1>7

\* Leaving one closes the innermost.
LEMMA EndLoopCloses ==
  ASSUME Chain, EndLoop
  PROVE  /\ Nest # << >>
         /\ Nest' = SubSeq(Nest, 1, Len(Nest) - 1)
         /\ labels' = labels
         /\ emitted' = emitted \o << Mark("back", Nest[Len(Nest)].start),
                                    Mark("label", Nest[Len(Nest)].end) >>
<1>. USE DEF Chain
<1>. DEFINE n == Len(calls)
<1>1. n \in Nat /\ n # 0 /\ calls \in [1 .. n -> Addr]
  BY LenProperties, EmptySeq DEF EndLoop, ListTypeOK
<1>2. current_loop = calls[n] /\ current_loop \in allocated
  BY <1>1 DEF ChainMirrorsCalls, LiveLoopsAreOpen, EndLoop
<1>3. emitted' = emitted \o LoopTail(heap[calls[n]]) /\ heap' = heap /\ labels' = labels
  BY <1>2 DEF EndLoop
<1>4. Len(calls') = n - 1 /\ \A i \in 1 .. n - 1 : calls'[i] = calls[i]
  BY <1>1 DEF EndLoop, ListTypeOK
<1>5. Len(Nest) = n /\ Nest # << >>
  BY <1>1 DEF Nest
<1>6. Nest[n] = [start |-> heap[calls[n]].start_label, end |-> heap[calls[n]].end_label]
  BY <1>1 DEF Nest
<1>7. Nest' = [i \in 1 .. n - 1 |-> Nest[i]]
  BY <1>1, <1>3, <1>4 DEF Nest
<1>8. SubSeq(Nest, 1, n - 1) = [i \in 1 .. n - 1 |-> Nest[i]]
  BY <1>1 DEF Nest
<1>9. LoopTail(heap[calls[n]]) = << Mark("back", Nest[n].start), Mark("label", Nest[n].end) >>
  BY <1>6 DEF LoopTail
<1>10. Nest' = SubSeq(Nest, 1, Len(Nest) - 1)
  BY <1>5, <1>7, <1>8
<1>. QED BY <1>3, <1>5, <1>9, <1>10

\* Every loop closed is the innermost one open, and its two labels are the ones
\* its opening placed and branched to.
THEOREM Refinement == Spec => ClosesInnermostLoop
<1>1. Init => Nesting!Init
  BY DEF Init, Nesting!Init
<1>2. IInv /\ [Next]_vars => [Nesting!Next]_<<Nest, labels, emitted>>
  <2>. SUFFICES ASSUME IInv, [Next]_vars PROVE [Nesting!Next]_<<Nest, labels, emitted>>
    OBVIOUS
  <2>1. ASSUME NEW a \in Addr, BeginLoop(a) PROVE Nesting!Next
    BY <2>1, BeginLoopOpens
       DEF IInv, Nesting!Next, Nesting!Open, Nesting!Mark, LoopHead, Mark, Nest
  <2>2. CASE EndLoop
    BY <2>2, EndLoopCloses
       DEF IInv, Nesting!Next, Nesting!Close, Nesting!Mark, Mark, Nest
  <2>3. CASE UNCHANGED vars
    BY <2>3 DEF vars, Nest
  <2>. QED BY <2>1, <2>2, <2>3 DEF Next
<1>. QED BY Inductive, <1>1, <1>2, PTL DEF Spec, ClosesInnermostLoop, Nesting!Spec, Nest

Abstract == INSTANCE LoopNestProofs WITH
  nest <- [i \in 1 .. Len(calls) |-> [start |-> heap[calls[i]].start_label,
                                      end |-> heap[calls[i]].end_label]]

\* The branches pair up, as they do in any implementation of LoopNest.
THEOREM BranchesCorrect == Spec => []BranchesPair
<1>1. Abstract!Spec => []Abstract!BranchesPair
  BY Abstract!Pairing
<1>2. ClosesInnermostLoop => Abstract!Spec
  BY DEF ClosesInnermostLoop, Nesting!Spec, Abstract!Spec, Nesting!Init, Abstract!Init,
         Nesting!Next, Abstract!Next, Nesting!Open, Abstract!Open, Nesting!Close,
         Abstract!Close, Nesting!Mark, Abstract!Mark
<1>3. Abstract!BranchesPair => BranchesPair
  BY DEF BranchesPair, Nesting!BranchesPair, Abstract!BranchesPair, Nesting!Placed,
         Abstract!Placed, Nesting!Mark, Abstract!Mark
<1>. QED BY Refinement, <1>1, <1>2, <1>3, PTL
=============================================================================
