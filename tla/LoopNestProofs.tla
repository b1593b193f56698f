--------------------------- MODULE LoopNestProofs ---------------------------
(***************************************************************************)
(* What the promise of LoopNest amounts to: the branches of the code pair  *)
(* up, however many loops there are and however deep they nest.            *)
(***************************************************************************)
EXTENDS LoopNest, SequenceTheorems, TLAPS

Marks == [kind : {"label", "exit", "back"}, label : Nat]
Loops == [start : Nat, end : Nat]

\* Labels have been given out before they are used, those of inner loops later.
Numbered ==
  /\ labels \in Nat
  /\ emitted \in Seq(Marks)
  /\ \A i \in 1 .. Len(emitted) : /\ emitted[i].label < labels
                                  /\ emitted[i].kind = "exit" => i > 1
  /\ nest \in Seq(Loops)
  /\ \A k \in 1 .. Len(nest) : nest[k].start < labels /\ nest[k].end < labels
  /\ \A k, m \in 1 .. Len(nest) : k < m => nest[k].end < nest[m].end

\* Of an open loop the start is placed and the end is not, and an exit to this
\* end comes right after the start.
OpenLoops ==
  \A k \in 1 .. Len(nest) :
    /\ Placed(nest[k].start) # {}
    /\ Placed(nest[k].end) = {}
    /\ \A i \in 1 .. Len(emitted) : emitted[i] = Mark("exit", nest[k].end) =>
         i > 1 /\ emitted[i - 1].label = nest[k].start

\* A label that is used and not placed yet is the end of an open loop.
Targets ==
  \A i \in 1 .. Len(emitted) :
    Placed(emitted[i].label) # {} \/ \E k \in 1 .. Len(nest) : nest[k].end = emitted[i].label

\* The parts of BranchesPair that hold at any time.
ExitsLand ==
  \A i \in 1 .. Len(emitted) : emitted[i].kind = "exit" =>
    \A j \in Placed(emitted[i].label) :
      /\ i < j
      /\ emitted[j - 1] = Mark("back", emitted[i - 1].label)

PlacedOnce ==
  \A i, j \in 1 .. Len(emitted) :
    emitted[i] = emitted[j] /\ emitted[i].kind = "label" => i = j

PInv == Numbered /\ OpenLoops /\ Targets /\ ExitsLand /\ PlacedOnce

LEMMA PairedByInv == PInv => BranchesPair
<1>. SUFFICES ASSUME PInv PROVE BranchesPair
  OBVIOUS
<1>1. nest = << >> => \A i \in 1 .. Len(emitted) : Placed(emitted[i].label) # {}
  BY DEF PInv, Targets
<1>. QED BY <1>1 DEF PInv, ExitsLand, PlacedOnce, BranchesPair

LEMMA InitPInv == Init => PInv
BY EmptySeq DEF Init, PInv, Numbered, OpenLoops, Targets, ExitsLand, PlacedOnce

\* What Numbered says of each mark and each open loop.
LEMMA NumberedFacts ==
  ASSUME Numbered
  PROVE  /\ Len(emitted) \in Nat /\ Len(nest) \in Nat /\ labels \in Nat
         /\ \A i \in 1 .. Len(emitted) :
              /\ emitted[i].label \in Nat /\ emitted[i].label < labels
              /\ emitted[i].kind = "exit" => i > 1
         /\ \A k \in 1 .. Len(nest) :
              /\ nest[k].start \in Nat /\ nest[k].start < labels
              /\ nest[k].end \in Nat /\ nest[k].end < labels
         /\ \A k, m \in 1 .. Len(nest) : k < m => nest[k].end < nest[m].end
<1>1. Len(emitted) \in Nat /\ Len(nest) \in Nat
  BY DEF Numbered
<1>2. /\ emitted \in [1 .. Len(emitted) -> Marks]
      /\ nest \in [1 .. Len(nest) -> Loops]
  BY LenProperties DEF Numbered
<1>3. /\ \A i \in 1 .. Len(emitted) : emitted[i].label \in Nat
      /\ \A k \in 1 .. Len(nest) : nest[k].start \in Nat /\ nest[k].end \in Nat
  BY <1>2 DEF Marks, Loops
<1>. QED BY <1>1, <1>3 DEF Numbered

LEMMA TwoMore ==
  ASSUME NEW S, NEW s \in Seq(S), NEW a \in S, NEW b \in S
  PROVE  LET t == s \o << a, b >> IN
           /\ t \in Seq(S)
           /\ Len(t) = Len(s) + 2
           /\ \A i \in 1 .. Len(s) : t[i] = s[i]
           /\ t[Len(s) + 1] = a
           /\ t[Len(s) + 2] = b
OBVIOUS

LEMMA OneLess ==
  ASSUME NEW S, NEW s \in Seq(S), s # << >>
  PROVE  LET t == SubSeq(s, 1, Len(s) - 1) IN
           /\ t \in Seq(S)
           /\ Len(t) = Len(s) - 1
           /\ \A i \in 1 .. Len(s) - 1 : t[i] = s[i]
<1>1. PICK n \in Nat : n = Len(s) - 1
  BY EmptySeq
<1>. DEFINE t == SubSeq(s, 1, n)
<1>2. Len(s) = n + 1 /\ \A i \in 1 .. n : s[i] \in S
  BY <1>1
<1>3. /\ t \in Seq(S)
      /\ Len(t) = IF 1 <= n THEN n - 1 + 1 ELSE 0
  BY <1>2, SubSeqProperties
<1>4. \A i \in 1 .. n : t[i] = s[i]
  BY <1>2
<1>. HIDE DEF t
<1>5. Len(t) = n
  BY <1>3
<1>. QED BY <1>1, <1>3, <1>4, <1>5 DEF t

LEMMA MarkOf ==
  ASSUME Numbered, NEW i \in 1 .. Len(emitted)
  PROVE  emitted[i] = Mark(emitted[i].kind, emitted[i].label)
<1>1. emitted \in [1 .. Len(emitted) -> Marks]
  BY LenProperties DEF Numbered
<1>2. emitted[i] \in Marks
  BY <1>1
<1>. QED BY <1>2 DEF Marks, Mark

LEMMA OpenPInv ==
  ASSUME PInv, Open
  PROVE  PInv'
<1>. DEFINE n == Len(emitted)
            d == Len(nest)
            PlacedNext(l) == {i \in 1 .. Len(emitted') : emitted'[i] = Mark("label", l)}
<1>1. /\ n \in Nat /\ d \in Nat /\ labels \in Nat
      /\ \A i \in 1 .. n : /\ emitted[i].label \in Nat /\ emitted[i].label < labels
                           /\ emitted[i].kind = "exit" => i > 1
      /\ \A k \in 1 .. d : /\ nest[k].start \in Nat /\ nest[k].start < labels
                           /\ nest[k].end \in Nat /\ nest[k].end < labels
      /\ \A k, m \in 1 .. d : k < m => nest[k].end < nest[m].end
  BY NumberedFacts DEF PInv
<1>2. /\ emitted' \in Seq(Marks) /\ labels' = labels + 2
      /\ nest' \in Seq(Loops)
  <2>1. Mark("label", labels) \in Marks /\ Mark("exit", labels + 1) \in Marks
    BY <1>1 DEF Mark, Marks
  <2>2. emitted \in Seq(Marks) /\ nest \in Seq(Loops)
    BY DEF PInv, Numbered
  <2>3. emitted' \in Seq(Marks)
    BY <2>1, <2>2, TwoMore DEF Open
  <2>. QED BY <1>1, <2>2, <2>3 DEF Open, Loops
<1>3. /\ Len(emitted') = n + 2
      /\ \A i \in 1 .. n : emitted'[i] = emitted[i]
      /\ emitted'[n + 1] = Mark("label", labels)
      /\ emitted'[n + 2] = Mark("exit", labels + 1)
  <2>1. Mark("label", labels) \in Marks /\ Mark("exit", labels + 1) \in Marks
    BY <1>1 DEF Mark, Marks
  <2>2. emitted \in Seq(Marks)
    BY DEF PInv, Numbered
  <2>. QED BY <2>1, <2>2, TwoMore DEF Open
<1>4. /\ Len(nest') = d + 1
      /\ \A k \in 1 .. d : nest'[k] = nest[k]
      /\ nest'[d + 1] = [start |-> labels, end |-> labels + 1]
  BY DEF PInv, Numbered, Open
<1>. HIDE DEF n, d
<1>5. Mark("label", labels).label = labels /\ Mark("exit", labels + 1).label = labels + 1
  BY DEF Mark
<1>6. /\ \A l \in Nat : l < labels => PlacedNext(l) = Placed(l)
      /\ n + 1 \in PlacedNext(labels)
      /\ PlacedNext(labels + 1) = {}
  <2>1. ASSUME NEW l \in Nat, l < labels PROVE PlacedNext(l) = Placed(l)
    <3>1. ASSUME NEW i \in 1 .. n + 2, emitted'[i] = Mark("label", l)
          PROVE  i \in 1 .. n
      BY <3>1, <2>1, <1>1, <1>3 DEF Mark
    <3>2. \A i \in PlacedNext(l) : i \in Placed(l)
      BY <3>1, <1>3 DEF Placed, n
    <3>3. \A i \in Placed(l) : i \in PlacedNext(l)
      BY <1>1, <1>3 DEF Placed, n
    <3>. QED BY <3>2, <3>3
  <2>2. n + 1 \in PlacedNext(labels)
    BY <1>1, <1>3 DEF Placed
  <2>3. PlacedNext(labels + 1) = {}
    BY <1>1, <1>3 DEF Placed, Mark
  <2>. QED BY <2>1, <2>2, <2>3
<1>. HIDE DEF PlacedNext
<1>7. Numbered'
  <2>1. ASSUME NEW i \in 1 .. n + 2
        PROVE  emitted'[i].label < labels' /\ (emitted'[i].kind = "exit" => i > 1)
    <3>1. CASE i \in 1 .. n
      <4>1. /\ emitted'[i] = emitted[i] /\ emitted[i].label \in Nat /\ emitted[i].label < labels
            /\ emitted[i].kind = "exit" => i > 1
        BY <3>1, <1>1, <1>3
      <4>. QED BY <4>1, <1>1, <1>2
    <3>2. CASE i = n + 1
      BY <3>2, <1>1, <1>2, <1>3 DEF Mark
    <3>3. CASE i = n + 2
      BY <3>3, <1>1, <1>2, <1>3 DEF Mark
    <3>. QED BY <3>1, <3>2, <3>3, <1>1
  <2>2. ASSUME NEW k \in 1 .. d + 1
        PROVE  nest'[k].start < labels' /\ nest'[k].end < labels'
    <3>1. CASE k \in 1 .. d
      <4>1. nest'[k].start < labels /\ nest'[k].end < labels
        BY <3>1, <1>1, <1>4
      <4>2. nest'[k].start \in Nat /\ nest'[k].end \in Nat
        BY <3>1, <1>1, <1>4
      <4>. QED BY <4>1, <4>2, <1>1, <1>2
    <3>2. CASE k = d + 1
      BY <3>2, <1>1, <1>2, <1>4
    <3>. QED BY <3>1, <3>2, <1>1
  <2>3. ASSUME NEW k \in 1 .. d + 1, NEW m \in 1 .. d + 1, k < m
        PROVE  nest'[k].end < nest'[m].end
    <3>1. k \in 1 .. d /\ nest'[k] = nest[k]
      BY <2>3, <1>1, <1>4
    <3>2. CASE m \in 1 .. d
      BY <3>1, <3>2, <2>3, <1>1, <1>4
    <3>3. CASE m = d + 1
      BY <3>1, <3>3, <1>1, <1>4
    <3>. QED BY <3>2, <3>3, <1>1
  <2>. QED BY <1>1, <1>2, <1>3, <1>4, <2>1, <2>2, <2>3 DEF Numbered
<1>8. OpenLoops'
  <2>. SUFFICES ASSUME NEW k \in 1 .. d + 1
       PROVE  /\ PlacedNext(nest'[k].start) # {}
              /\ PlacedNext(nest'[k].end) = {}
              /\ \A i \in 1 .. n + 2 : emitted'[i] = Mark("exit", nest'[k].end) =>
                   i > 1 /\ emitted'[i - 1].label = nest'[k].start
    BY <1>3, <1>4 DEF OpenLoops, Placed, PlacedNext
  <2>1. CASE k \in 1 .. d
    <3>1. /\ Placed(nest[k].start) # {} /\ Placed(nest[k].end) = {}
          /\ \A i \in 1 .. n : emitted[i] = Mark("exit", nest[k].end) =>
               i > 1 /\ emitted[i - 1].label = nest[k].start
      BY <2>1 DEF PInv, OpenLoops, n, d
    <3>2. nest'[k] = nest[k] /\ nest[k].start < labels /\ nest[k].end < labels
          /\ nest[k].start \in Nat /\ nest[k].end \in Nat
      BY <2>1, <1>1, <1>4
    <3>3. PlacedNext(nest[k].start) # {} /\ PlacedNext(nest[k].end) = {}
      BY <3>1, <3>2, <1>6
    <3>4. ASSUME NEW i \in 1 .. n + 2, emitted'[i] = Mark("exit", nest[k].end)
          PROVE  i > 1 /\ emitted'[i - 1].label = nest[k].start
      <4>1. i # n + 1 /\ i # n + 2
        BY <3>4, <3>2, <1>1, <1>3 DEF Mark
      <4>2. i \in 1 .. n
        BY <4>1, <1>1
      <4>3. i > 1 /\ emitted[i - 1].label = nest[k].start
        BY <4>2, <3>1, <3>4, <1>3
      <4>. QED BY <4>2, <4>3, <1>1, <1>3
    <3>. QED BY <3>2, <3>3, <3>4
  <2>2. CASE k = d + 1
    <3>1. ASSUME NEW i \in 1 .. n + 2, emitted'[i] = Mark("exit", labels + 1)
          PROVE  i > 1 /\ emitted'[i - 1].label = labels
      <4>1. i \notin 1 .. n
        <5>. SUFFICES ASSUME i \in 1 .. n PROVE FALSE
          OBVIOUS
        <5>1. emitted[i].label = labels + 1
          BY <3>1, <1>3 DEF Mark
        <5>. QED BY <5>1, <1>1
      <4>2. i # n + 1
        BY <3>1, <1>3 DEF Mark
      <4>3. i = n + 2
        BY <4>1, <4>2, <1>1
      <4>. QED BY <4>3, <1>1, <1>3, <1>5
    <3>. QED BY <2>2, <3>1, <1>1, <1>4, <1>6
  <2>. QED BY <2>1, <2>2, <1>1
<1>9. Targets'
  <2>. SUFFICES ASSUME NEW i \in 1 .. n + 2
       PROVE  PlacedNext(emitted'[i].label) # {} \/ \E k \in 1 .. d + 1 : nest'[k].end = emitted'[i].label
    BY <1>3, <1>4 DEF Targets, Placed, PlacedNext
  <2>1. CASE i \in 1 .. n
    <3>1. emitted'[i] = emitted[i] /\ emitted[i].label \in Nat /\ emitted[i].label < labels
      BY <2>1, <1>1, <1>3
    <3>2. CASE Placed(emitted[i].label) # {}
      BY <3>1, <3>2, <1>6
    <3>3. CASE \E k \in 1 .. d : nest[k].end = emitted[i].label
      <4>1. PICK k \in 1 .. d : nest[k].end = emitted[i].label
        BY <3>3
      <4>2. k \in 1 .. d + 1 /\ nest'[k].end = emitted'[i].label
        BY <4>1, <3>1, <1>1, <1>4
      <4>. QED BY <4>2
    <3>. QED BY <2>1, <3>2, <3>3 DEF PInv, Targets, n, d
  <2>2. CASE i = n + 1
    BY <2>2, <1>3, <1>5, <1>6
  <2>3. CASE i = n + 2
    <3>1. d + 1 \in 1 .. d + 1 /\ nest'[d + 1].end = emitted'[i].label
      BY <2>3, <1>1, <1>3, <1>4, <1>5
    <3>. QED BY <3>1
  <2>. QED BY <2>1, <2>2, <2>3, <1>1
<1>10. ExitsLand'
  <2>. SUFFICES ASSUME NEW i \in 1 .. n + 2, emitted'[i].kind = "exit",
                       NEW j \in PlacedNext(emitted'[i].label)
       PROVE  i < j /\ emitted'[j - 1] = Mark("back", emitted'[i - 1].label)
    BY <1>3 DEF ExitsLand, Placed, PlacedNext
  <2>1. CASE i \in 1 .. n
    <3>1. /\ emitted'[i] = emitted[i] /\ emitted[i].kind = "exit" /\ i > 1
          /\ emitted[i].label \in Nat /\ emitted[i].label < labels
      BY <2>1, <1>1, <1>3
    <3>2. j \in Placed(emitted[i].label)
      BY <3>1, <1>6
    <3>3. i < j /\ emitted[j - 1] = Mark("back", emitted[i - 1].label)
      BY <2>1, <3>1, <3>2 DEF PInv, ExitsLand, n
    <3>4. j \in 1 .. n
      BY <3>2 DEF Placed, n
    <3>5. emitted'[j - 1] = emitted[j - 1] /\ emitted'[i - 1] = emitted[i - 1]
      BY <2>1, <3>1, <3>3, <3>4, <1>1, <1>3
    <3>. QED BY <3>3, <3>5
  <2>2. CASE i = n + 1
    BY <2>2, <1>3 DEF Mark
  <2>3. CASE i = n + 2
    BY <2>3, <1>3, <1>5, <1>6
  <2>. QED BY <2>1, <2>2, <2>3, <1>1
<1>11. PlacedOnce'
  <2>. SUFFICES ASSUME NEW i \in 1 .. n + 2, NEW j \in 1 .. n + 2,
                       emitted'[i] = emitted'[j], emitted'[i].kind = "label"
       PROVE  i = j
    BY <1>3 DEF PlacedOnce
  <2>1. i # n + 2 /\ j # n + 2
    BY <1>3 DEF Mark
  <2>2. CASE i \in 1 .. n /\ j \in 1 .. n
    BY <2>2, <1>3 DEF PInv, PlacedOnce, n
  <2>3. CASE i = n + 1 \/ j = n + 1
    <3>1. emitted'[i].label = labels /\ emitted'[j].label = labels
      BY <2>3, <1>3, <1>5
    <3>2. i \notin 1 .. n /\ j \notin 1 .. n
      BY <3>1, <1>1, <1>3
    <3>. QED BY <2>1, <3>2, <1>1
  <2>. QED BY <2>1, <2>2, <2>3, <1>1
<1>. QED BY <1>7, <1>8, <1>9, <1>10, <1>11 DEF PInv

LEMMA ClosePInv ==
  ASSUME PInv, Close
  PROVE  PInv'
<1>. DEFINE n == Len(emitted)
            d == Len(nest)
            start == nest[d].start
            end == nest[d].end
            PlacedNext(l) == {i \in 1 .. Len(emitted') : emitted'[i] = Mark("label", l)}
<1>1. /\ n \in Nat /\ d \in Nat /\ labels \in Nat
      /\ \A i \in 1 .. n : /\ emitted[i].label \in Nat /\ emitted[i].label < labels
                           /\ emitted[i].kind = "exit" => i > 1
      /\ \A k \in 1 .. d : /\ nest[k].start \in Nat /\ nest[k].start < labels
                           /\ nest[k].end \in Nat /\ nest[k].end < labels
      /\ \A k, m \in 1 .. d : k < m => nest[k].end < nest[m].end
  BY NumberedFacts DEF PInv
<1>2. d \in 1 .. d
  <2>1. nest \in Seq(Loops) /\ nest # << >>
    BY DEF PInv, Numbered, Close
  <2>. QED BY <2>1, <1>1, EmptySeq
<1>3. start \in Nat /\ start < labels /\ end \in Nat /\ end < labels
  BY <1>1, <1>2
<1>4. Mark("back", start) \in Marks /\ Mark("label", end) \in Marks
  BY <1>3 DEF Mark, Marks
<1>5. /\ emitted' \in Seq(Marks)
      /\ Len(emitted') = n + 2
      /\ \A i \in 1 .. n : emitted'[i] = emitted[i]
      /\ emitted'[n + 1] = Mark("back", start)
      /\ emitted'[n + 2] = Mark("label", end)
  <2>1. emitted \in Seq(Marks)
    BY DEF PInv, Numbered
  <2>2. emitted' = emitted \o << Mark("back", start), Mark("label", end) >>
    BY DEF Close
  <2>. HIDE DEF start, end
  <2>. QED BY <1>4, <2>1, <2>2, TwoMore
<1>6. /\ nest' \in Seq(Loops)
      /\ Len(nest') = d - 1
      /\ \A k \in 1 .. d - 1 : nest'[k] = nest[k]
      /\ labels' = labels
  <2>1. nest \in Seq(Loops) /\ nest # << >>
    BY DEF PInv, Numbered, Close
  <2>2. nest' = SubSeq(nest, 1, d - 1) /\ labels' = labels
    BY DEF Close
  <2>. QED BY <2>1, <2>2, OneLess
<1>7. /\ Placed(start) # {} /\ Placed(end) = {}
      /\ \A i \in 1 .. n : emitted[i] = Mark("exit", end) =>
           i > 1 /\ emitted[i - 1].label = start
  BY <1>2 DEF PInv, OpenLoops
<1>. HIDE DEF n, d, start, end
<1>8. Mark("back", start).label = start /\ Mark("label", end).label = end
  BY DEF Mark
<1>9. /\ \A l : l # end => PlacedNext(l) = Placed(l)
      /\ PlacedNext(end) = {n + 2}
  <2>1. ASSUME NEW l, NEW i \in Placed(l) PROVE i \in PlacedNext(l)
    BY <2>1, <1>1, <1>5 DEF Placed, n
  <2>2. ASSUME NEW l, NEW i \in PlacedNext(l), i # n + 2 PROVE i \in Placed(l)
    <3>1. i \in 1 .. n
      BY <2>2, <1>1, <1>5 DEF Mark
    <3>. QED BY <2>2, <3>1, <1>5 DEF Placed, n
  <2>3. ASSUME NEW l, l # end PROVE n + 2 \notin PlacedNext(l)
    BY <2>3, <1>5 DEF Mark
  <2>4. n + 2 \in PlacedNext(end)
    BY <1>1, <1>5
  <2>5. ASSUME NEW l, l # end PROVE PlacedNext(l) = Placed(l)
    BY <2>1, <2>2, <2>3, <2>5
  <2>6. PlacedNext(end) = {n + 2}
    BY <2>2, <2>4, <1>7
  <2>. QED BY <2>5, <2>6
<1>. HIDE DEF PlacedNext
<1>10. \A l : Placed(l) # {} => PlacedNext(l) # {}
  BY <1>9
<1>11. \A k \in 1 .. d - 1 : /\ k \in 1 .. d /\ nest'[k] = nest[k]
                            /\ nest[k].end # end
  <2>. TAKE k \in 1 .. d - 1
  <2>1. k \in 1 .. d /\ k < d
    BY <1>1
  <2>2. nest[k].end < end /\ nest[k].end \in Nat
    BY <2>1, <1>1, <1>2 DEF end
  <2>. QED BY <2>1, <2>2, <1>3, <1>6
<1>12. Numbered'
  <2>1. ASSUME NEW i \in 1 .. n + 2
        PROVE  emitted'[i].label < labels' /\ (emitted'[i].kind = "exit" => i > 1)
    <3>1. CASE i \in 1 .. n
      BY <3>1, <1>1, <1>5, <1>6
    <3>2. CASE i = n + 1
      BY <3>2, <1>3, <1>5, <1>6 DEF Mark
    <3>3. CASE i = n + 2
      BY <3>3, <1>3, <1>5, <1>6 DEF Mark
    <3>. QED BY <3>1, <3>2, <3>3, <1>1
  <2>2. \A k \in 1 .. d - 1 : nest'[k].start < labels' /\ nest'[k].end < labels'
    BY <1>1, <1>6, <1>11
  <2>3. \A k, m \in 1 .. d - 1 : k < m => nest'[k].end < nest'[m].end
    BY <1>1, <1>11
  <2>. QED BY <1>1, <1>5, <1>6, <2>1, <2>2, <2>3 DEF Numbered
<1>13. OpenLoops'
  <2>. SUFFICES ASSUME NEW k \in 1 .. d - 1
       PROVE  /\ PlacedNext(nest'[k].start) # {}
              /\ PlacedNext(nest'[k].end) = {}
              /\ \A i \in 1 .. n + 2 : emitted'[i] = Mark("exit", nest'[k].end) =>
                   i > 1 /\ emitted'[i - 1].label = nest'[k].start
    BY <1>5, <1>6 DEF OpenLoops, Placed, PlacedNext
  <2>1. /\ Placed(nest[k].start) # {} /\ Placed(nest[k].end) = {}
        /\ \A i \in 1 .. n : emitted[i] = Mark("exit", nest[k].end) =>
             i > 1 /\ emitted[i - 1].label = nest[k].start
    BY <1>11 DEF PInv, OpenLoops, n, d
  <2>2. PlacedNext(nest[k].start) # {} /\ PlacedNext(nest[k].end) = {}
    BY <2>1, <1>9, <1>10, <1>11
  <2>3. ASSUME NEW i \in 1 .. n + 2, emitted'[i] = Mark("exit", nest[k].end)
        PROVE  i > 1 /\ emitted'[i - 1].label = nest[k].start
    <3>1. i # n + 1 /\ i # n + 2
      BY <2>3, <1>5 DEF Mark
    <3>2. i \in 1 .. n
      BY <3>1, <1>1
    <3>3. i > 1 /\ emitted[i - 1].label = nest[k].start
      BY <3>2, <2>1, <2>3, <1>5
    <3>. QED BY <3>2, <3>3, <1>1, <1>5
  <2>. QED BY <2>2, <2>3, <1>11
<1>14. Targets'
  <2>. SUFFICES ASSUME NEW i \in 1 .. n + 2
       PROVE  \/ PlacedNext(emitted'[i].label) # {}
              \/ \E k \in 1 .. d - 1 : nest'[k].end = emitted'[i].label
    BY <1>5, <1>6 DEF Targets, Placed, PlacedNext
  <2>1. CASE i \in 1 .. n
    <3>1. CASE Placed(emitted[i].label) # {}
      BY <3>1, <2>1, <1>5, <1>10
    <3>2. CASE \E k \in 1 .. d : nest[k].end = emitted[i].label
      <4>1. PICK k \in 1 .. d : nest[k].end = emitted[i].label
        BY <3>2
      <4>2. CASE k = d
        BY <4>1, <4>2, <2>1, <1>5, <1>9 DEF end
      <4>3. CASE k \in 1 .. d - 1
        BY <4>1, <4>3, <2>1, <1>5, <1>11
      <4>. QED BY <4>2, <4>3, <1>1
    <3>. QED BY <2>1, <3>1, <3>2 DEF PInv, Targets, n, d
  <2>2. CASE i = n + 1
    BY <2>2, <1>5, <1>7, <1>8, <1>10
  <2>3. CASE i = n + 2
    BY <2>3, <1>5, <1>8, <1>9
  <2>. QED BY <2>1, <2>2, <2>3, <1>1
<1>15. ExitsLand'
  <2>. SUFFICES ASSUME NEW i \in 1 .. n + 2, emitted'[i].kind = "exit",
                       NEW j \in PlacedNext(emitted'[i].label)
       PROVE  i < j /\ emitted'[j - 1] = Mark("back", emitted'[i - 1].label)
    BY <1>5 DEF ExitsLand, Placed, PlacedNext
  <2>1. i \in 1 .. n
    <3>1. i # n + 1 /\ i # n + 2
      BY <1>5 DEF Mark
    <3>. QED BY <3>1, <1>1
  <2>2. /\ emitted'[i] = emitted[i] /\ emitted[i].kind = "exit" /\ i > 1
        /\ emitted'[i - 1] = emitted[i - 1]
    BY <2>1, <1>1, <1>5
  <2>3. CASE emitted[i].label = end
    <3>1. emitted[i] = Mark("exit", end)
      BY <2>1, <2>2, <2>3, MarkOf DEF PInv, n
    <3>2. j = n + 2 /\ emitted[i - 1].label = start
      BY <2>1, <2>2, <2>3, <3>1, <1>7, <1>9
    <3>3. j - 1 = n + 1 /\ i < j
      BY <2>1, <3>2, <1>1
    <3>. QED BY <2>2, <3>2, <3>3, <1>5
  <2>4. CASE emitted[i].label # end
    <3>1. j \in Placed(emitted[i].label)
      BY <2>2, <2>4, <1>9
    <3>2. i < j /\ emitted[j - 1] = Mark("back", emitted[i - 1].label)
      BY <2>1, <2>2, <3>1 DEF PInv, ExitsLand, n
    <3>3. j \in 1 .. n
      BY <3>1 DEF Placed, n
    <3>4. emitted'[j - 1] = emitted[j - 1]
      BY <2>1, <3>2, <3>3, <1>1, <1>5
    <3>. QED BY <2>2, <3>2, <3>4
  <2>. QED BY <2>3, <2>4
<1>16. PlacedOnce'
  <2>. SUFFICES ASSUME NEW i \in 1 .. n + 2, NEW j \in 1 .. n + 2,
                       emitted'[i] = emitted'[j], emitted'[i].kind = "label"
       PROVE  i = j
    BY <1>5 DEF PlacedOnce
  <2>1. i # n + 1 /\ j # n + 1
    BY <1>5 DEF Mark
  <2>2. CASE i \in 1 .. n /\ j \in 1 .. n
    BY <2>2, <1>5 DEF PInv, PlacedOnce, n
  <2>3. CASE i = n + 2 \/ j = n + 2
    <3>1. emitted'[i] = Mark("label", end) /\ emitted'[j] = Mark("label", end)
      BY <2>3, <1>5
    <3>2. i \in PlacedNext(end) /\ j \in PlacedNext(end)
      BY <3>1, <1>5 DEF PlacedNext
    <3>. QED BY <3>2, <1>9
  <2>. QED BY <2>1, <2>2, <2>3, <1>1
<1>. QED BY <1>12, <1>13, <1>14, <1>15, <1>16 DEF PInv

(***************************************************************************)
(* Code of nested loops, generated as LoopNest says, has the branches its  *)
(* loops need: each exit lands just after its own jump back, which returns *)
(* to just before that exit, and no branch is left without a target.       *)
(***************************************************************************)
THEOREM Pairing == Spec => []BranchesPair
<1>1. PInv /\ [Next]_<<nest, labels, emitted>> => PInv'
  <2>. SUFFICES ASSUME PInv, [Next]_<<nest, labels, emitted>> PROVE PInv'
    OBVIOUS
  <2>1. CASE UNCHANGED <<nest, labels, emitted>>
    BY <2>1 DEF PInv, Numbered, OpenLoops, Targets, ExitsLand, PlacedOnce, Placed
  <2>. QED BY <2>1, OpenPInv, ClosePInv DEF Next
<1>. QED BY InitPInv, <1>1, PairedByInv, PTL DEF Spec
=============================================================================
