----------------------------- MODULE FoldProofs -----------------------------
(***************************************************************************)
(* FoldLeft of SequencesExt, for any operator that it may fold: what it is *)
(* of the empty sequence, and that folding a sequence is folding its tail  *)
(* from where the first element leads.  A loop that walks a sequence and   *)
(* keeps a result takes these steps one by one.                            *)
(*                                                                         *)
(* Step is a constant, so that an instance gives the facts for one step.   *)
(***************************************************************************)
EXTENDS SequencesExt, SequenceTheorems, WellFoundedInduction, TLAPS

CONSTANT Step(_, _)

Fold(base, seq) == FoldLeft(Step, base, seq)

\* A nonempty set of natural numbers has a least element.
LEMMA Least ==
  ASSUME NEW T \in SUBSET Nat, T # {}
  PROVE  \E x \in T : \A y \in T : x <= y
<1>1. IsWellFoundedOn(OpToRel(<, Nat), Nat)
  BY NatLessThanWellFounded
<1>2. PICK x \in T : \A y \in T : ~(<<y, x>> \in OpToRel(<, Nat))
  BY <1>1, WFMin
<1>3. \A y \in T : ~(y < x)
  BY <1>2 DEF OpToRel
<1>. QED BY <1>3

-----------------------------------------------------------------------------
\* What FoldLeft computes, for the sets of the first n positions: the greatest
\* position is folded last.
Folds(base, s, n, F) ==
  F = [D \in SUBSET (1 .. n) |->
         IF D = {} THEN base ELSE Step(F[D \ {Max(D)}], s[Max(D)])]

\* The greatest element of a set of numbers up to n + 1 that holds n + 1.
LEMMA MaxIsLast ==
  ASSUME NEW n \in Nat, NEW D \in SUBSET (1 .. n + 1), n + 1 \in D
  PROVE  Max(D) = n + 1 /\ D \ {Max(D)} \in SUBSET (1 .. n)
<1>1. \A y \in D : y \in Int /\ n + 1 >= y
  OBVIOUS
<1>2. \A x \in D : (\A y \in D : x >= y) => x = n + 1
  BY <1>1
<1>3. Max(D) = n + 1
  BY <1>1, <1>2 DEF Max
<1>. QED BY <1>3

\* The greatest element of a nonempty set of numbers is one of them.
LEMMA MaxIn ==
  ASSUME NEW n \in Nat, NEW D \in SUBSET (1 .. n), D # {}
  PROVE  Max(D) \in D
<1>. DEFINE U == {n - x : x \in D}
<1>1. U \in SUBSET Nat /\ U # {}
  <2>1. \A x \in D : x \in 1 .. n
    OBVIOUS
  <2>2. \A x \in D : n - x \in Nat
    BY <2>1
  <2>. QED BY <2>2
<1>2. PICK u \in U : \A v \in U : u <= v
  BY <1>1, Least
<1>3. PICK x \in D : u = n - x
  OBVIOUS
<1>4. ASSUME NEW y \in D PROVE x >= y
  <2>1. n - x <= n - y
    BY <1>2, <1>3
  <2>. QED BY <2>1
<1>. QED BY <1>4 DEF Max

\* There is a function like that.
LEMMA FoldExists ==
  ASSUME NEW base, NEW s, NEW n \in Nat
  PROVE  \E F : Folds(base, s, n, F)
<1>. DEFINE E(k) == \E F : Folds(base, s, k, F)
            T == {k \in Nat : ~E(k)}
<1>1. E(0)
  <2>. DEFINE F == [D \in SUBSET (1 .. 0) |-> base]
  <2>1. \A D \in SUBSET (1 .. 0) : D = {}
    OBVIOUS
  <2>2. F = [D \in SUBSET (1 .. 0) |->
               IF D = {} THEN base ELSE Step(F[D \ {Max(D)}], s[Max(D)])]
    BY <2>1
  <2>3. Folds(base, s, 0, F)
    BY <2>2 DEF Folds
  <2>. QED BY <2>3
<1>2. ASSUME NEW k \in Nat, E(k) PROVE E(k + 1)
  <2>1. PICK F : Folds(base, s, k, F)
    BY <1>2
  <2>2. /\ DOMAIN F = SUBSET (1 .. k)
        /\ \A D \in SUBSET (1 .. k) :
             F[D] = IF D = {} THEN base ELSE Step(F[D \ {Max(D)}], s[Max(D)])
    BY <2>1 DEF Folds
  <2>. DEFINE G == [D \in SUBSET (1 .. k + 1) |->
                      IF k + 1 \in D THEN Step(F[D \ {k + 1}], s[k + 1]) ELSE F[D]]
              Rec(D) == IF D = {} THEN base ELSE Step(G[D \ {Max(D)}], s[Max(D)])
  <2>3. ASSUME NEW D \in SUBSET (1 .. k + 1)
        PROVE  G[D] = Rec(D)
    <3>1. CASE k + 1 \in D
      <4>1. Max(D) = k + 1 /\ D \ {Max(D)} \in SUBSET (1 .. k)
        BY <3>1, MaxIsLast
      <4>2. k + 1 \notin D \ {Max(D)} /\ D \ {Max(D)} \in SUBSET (1 .. k + 1)
        BY <4>1
      <4>3. G[D \ {Max(D)}] = F[D \ {Max(D)}]
        BY <4>2
      <4>. QED BY <3>1, <4>1, <4>3
    <3>2. CASE k + 1 \notin D
      <4>1. D \in SUBSET (1 .. k) /\ D \ {Max(D)} \in SUBSET (1 .. k)
        <5>1. \A x \in D : x \in 1 .. k + 1 /\ x # k + 1
          BY <3>2
        <5>2. \A x \in D : x \in 1 .. k
          BY <5>1
        <5>. QED BY <5>2
      <4>2. k + 1 \notin D \ {Max(D)} /\ D \ {Max(D)} \in SUBSET (1 .. k + 1)
        BY <3>2
      <4>3. G[D \ {Max(D)}] = F[D \ {Max(D)}] /\ G[D] = F[D]
        BY <3>2, <4>2
      <4>. QED BY <2>2, <4>1, <4>3
    <3>. QED BY <3>1, <3>2
  <2>4. G = [D \in SUBSET (1 .. k + 1) |-> Rec(D)]
    <3>. DEFINE H == [D \in SUBSET (1 .. k + 1) |-> Rec(D)]
    <3>1. DOMAIN G = SUBSET (1 .. k + 1)
      OBVIOUS
    <3>. QED BY <2>3
  <2>. HIDE DEF G
  <2>5. Folds(base, s, k + 1, G)
    BY <2>4 DEF Folds
  <2>. QED BY <2>5
<1>. HIDE DEF E
<1>3. T = {}
  <2>. SUFFICES ASSUME T # {} PROVE FALSE
    OBVIOUS
  <2>1. PICK x \in T : \A y \in T : x <= y
    BY Least
  <2>2. x # 0 /\ x \in Nat
    BY <1>1
  <2>3. x - 1 \in Nat /\ (x - 1) + 1 = x
    BY <2>2
  <2>4. E(x - 1)
    BY <2>1, <2>3
  <2>5. E(x)
    BY <1>2, <2>3, <2>4
  <2>. QED BY <2>5
<1>4. E(n)
  BY <1>3
<1>. QED BY <1>4 DEF E

-----------------------------------------------------------------------------
\* h holds the results of folding the first 0, 1, ... n elements of s.
Results(base, s, n, h) ==
  /\ h[0] = base
  /\ \A k \in 0 .. n - 1 : h[k + 1] = Step(h[k], s[k + 1])

\* FoldLeft folds one element after the other.
LEMMA FoldResults ==
  ASSUME NEW base, NEW S, NEW s \in Seq(S)
  PROVE  \E h : Results(base, s, Len(s), h) /\ Fold(base, s) = h[Len(s)]
<1>. DEFINE n == Len(s)
<1>1. n \in Nat /\ DOMAIN s = 1 .. n
  OBVIOUS
<1>2. PICK F : /\ F = [D \in SUBSET (1 .. n) |->
                         IF D = {} THEN base ELSE Step(F[D \ {Max(D)}], s[Max(D)])]
               /\ Fold(base, s) = F[1 .. n]
  <2>0. PICK F : Folds(base, s, n, F)
    BY <1>1, FoldExists
  <2>1. \E G : G = [D \in SUBSET (1 .. n) |->
                      IF D = {} THEN base ELSE Step(G[D \ {Max(D)}], s[Max(D)])]
    BY <2>0 DEF Folds
  <2>. QED BY <1>1, <2>1 DEF Fold, FoldLeft, MapThenFoldSet
<1>3. \A D \in SUBSET (1 .. n) :
        F[D] = IF D = {} THEN base ELSE Step(F[D \ {Max(D)}], s[Max(D)])
  BY <1>2
<1>. DEFINE h == [k \in 0 .. n |-> F[1 .. k]]
<1>4. h[0] = base
  <2>1. (1 .. 0) \in SUBSET (1 .. n) /\ 1 .. 0 = {}
    OBVIOUS
  <2>2. F[1 .. 0] = base
    BY <1>3, <2>1
  <2>. QED BY <1>1, <2>2
<1>5. ASSUME NEW k \in 0 .. n - 1
      PROVE  h[k + 1] = Step(h[k], s[k + 1])
  <2>1. k \in Nat /\ k + 1 \in 1 .. n /\ (1 .. k + 1) \in SUBSET (1 .. n)
    BY <1>1
  <2>2. Max(1 .. k + 1) = k + 1 /\ (1 .. k + 1) \ {k + 1} = 1 .. k /\ (1 .. k + 1) # {}
    <3>1. k + 1 \in 1 .. k + 1 /\ (1 .. k + 1) \in SUBSET (1 .. k + 1)
      BY <2>1
    <3>2. Max(1 .. k + 1) = k + 1
      BY <2>1, <3>1, MaxIsLast
    <3>3. (1 .. k + 1) \ {k + 1} = 1 .. k
      BY <2>1
    <3>. QED BY <3>1, <3>2, <3>3
  <2>3. F[1 .. k + 1] = Step(F[1 .. k], s[k + 1])
    BY <1>3, <2>1, <2>2
  <2>4. k \in 0 .. n /\ k + 1 \in 0 .. n
    BY <1>1
  <2>. QED BY <2>3, <2>4
<1>6. Fold(base, s) = h[n]
  BY <1>1, <1>2
<1>. HIDE DEF h
<1>. QED BY <1>4, <1>5, <1>6 DEF Results

\* The results are determined.
LEMMA ResultsUnique ==
  ASSUME NEW base, NEW s, NEW n \in Nat, NEW h, NEW g,
         Results(base, s, n, h), Results(base, s, n, g)
  PROVE  h[n] = g[n]
<1>. DEFINE T == {k \in Nat : k <= n /\ h[k] # g[k]}
<1>. SUFFICES ASSUME T # {} PROVE FALSE
  OBVIOUS
<1>1. PICK x \in T : \A y \in T : x <= y
  BY Least
<1>2. x # 0
  BY DEF Results
<1>3. x - 1 \in 0 .. n - 1 /\ (x - 1) + 1 = x
  BY <1>2
<1>4. h[x - 1] = g[x - 1]
  BY <1>1, <1>3
<1>5. h[x] = Step(h[x - 1], s[x]) /\ g[x] = Step(g[x - 1], s[x])
  <2>1. \A k \in 0 .. n - 1 : /\ h[k + 1] = Step(h[k], s[k + 1])
                              /\ g[k + 1] = Step(g[k], s[k + 1])
    BY DEF Results
  <2>. QED BY <1>3, <2>1
<1>. QED BY <1>4, <1>5

\* An element appended is folded last.
THEOREM FoldLast ==
  ASSUME NEW base, NEW S, NEW s \in Seq(S), NEW e \in S
  PROVE  Fold(base, Append(s, e)) = Step(Fold(base, s), e)
<1>. DEFINE n == Len(s)
            t == Append(s, e)
<1>1. /\ n \in Nat /\ t \in Seq(S) /\ Len(t) = n + 1 /\ t[n + 1] = e
      /\ \A k \in 1 .. n : t[k] = s[k]
  OBVIOUS
<1>. HIDE DEF t
<1>2. PICK h : Results(base, t, n + 1, h) /\ Fold(base, t) = h[n + 1]
  BY <1>1, FoldResults
<1>3. PICK g : Results(base, s, n, g) /\ Fold(base, s) = g[n]
  BY FoldResults
<1>4. h[0] = base /\ \A k \in 0 .. n : h[k + 1] = Step(h[k], t[k + 1])
  BY <1>1, <1>2 DEF Results
<1>5. Results(base, s, n, h)
  BY <1>1, <1>4 DEF Results
<1>6. h[n] = g[n]
  BY <1>1, <1>3, <1>5, ResultsUnique
<1>7. h[n + 1] = Step(h[n], t[n + 1])
  BY <1>1, <1>4
<1>. QED BY <1>1, <1>2, <1>3, <1>6, <1>7 DEF t

\* Folding nothing leaves what there is.
THEOREM FoldEmpty ==
  ASSUME NEW base
  PROVE  Fold(base, << >>) = base
<1>1. << >> \in Seq({}) /\ Len(<< >>) = 0
  OBVIOUS
<1>2. PICK h : Results(base, << >>, 0, h) /\ Fold(base, << >>) = h[0]
  BY <1>1, FoldResults
<1>. QED BY <1>2 DEF Results

\* Folding a sequence is folding what follows its first element, from where that
\* one leads.
FirstOf(base, S, s, o, r) ==
  (/\ s \in Seq(S) /\ r \in Seq(S)
   /\ Len(s) = Len(r) + 1 /\ s[1] = o
   /\ \A i \in 1 .. Len(r) : r[i] = s[i + 1])
     => Fold(base, s) = Fold(Step(base, o), r)

\* It is, whatever is folded.
LEMMA FoldTail ==
  ASSUME NEW base, NEW S, NEW s, NEW o, NEW r
  PROVE  FirstOf(base, S, s, o, r)
<1>. SUFFICES ASSUME s \in Seq(S), r \in Seq(S), Len(s) = Len(r) + 1, s[1] = o,
                     \A i \in 1 .. Len(r) : r[i] = s[i + 1]
              PROVE  Fold(base, s) = Fold(Step(base, o), r)
  BY DEF FirstOf
<1>. DEFINE n == Len(r)
<1>1. n \in Nat /\ Len(s) = n + 1
  OBVIOUS
<1>2. PICK h : Results(base, s, n + 1, h) /\ Fold(base, s) = h[n + 1]
  BY <1>1, FoldResults
<1>3. PICK g : Results(Step(base, o), r, n, g) /\ Fold(Step(base, o), r) = g[n]
  BY FoldResults
<1>. DEFINE t == [k \in 0 .. n |-> h[k + 1]]
<1>4. Results(Step(base, o), r, n, t)
  <2>1. \A k \in 0 .. n : h[k + 1] = Step(h[k], s[k + 1])
    BY <1>1, <1>2 DEF Results
  <2>2. h[1] = Step(base, o)
    <3>1. 0 \in 0 .. n /\ 0 + 1 = 1
      BY <1>1
    <3>2. h[0] = base
      BY <1>2 DEF Results
    <3>. QED BY <2>1, <3>1, <3>2
  <2>3. t[0] = Step(base, o)
    BY <1>1, <2>2
  <2>4. ASSUME NEW k \in 0 .. n - 1 PROVE t[k + 1] = Step(t[k], r[k + 1])
    <3>1. k \in 0 .. n /\ k + 1 \in 0 .. n /\ k + 1 \in 1 .. n
      BY <1>1
    <3>2. h[(k + 1) + 1] = Step(h[k + 1], s[(k + 1) + 1])
      BY <2>1, <3>1
    <3>. QED BY <3>1, <3>2
  <2>. HIDE DEF t
  <2>. QED BY <2>3, <2>4 DEF Results
<1>5. t[n] = g[n]
  <2>. HIDE DEF t
  <2>. QED BY <1>1, <1>3, <1>4, ResultsUnique
<1>. QED BY <1>1, <1>2, <1>3, <1>5

\* A part of a sequence, element by element.
LEMMA Part ==
  ASSUME NEW S, NEW c \in Seq(S), NEW m \in 1 .. Len(c) + 1, NEW n \in Nat,
         n <= Len(c), m <= n + 1
  PROVE  /\ SubSeq(c, m, n) \in Seq(S)
         /\ Len(SubSeq(c, m, n)) = n + 1 - m
         /\ \A i \in 1 .. n + 1 - m : SubSeq(c, m, n)[i] = c[m + i - 1]
<1>1. \A i \in m .. n : i \in 1 .. Len(c) /\ c[i] \in S
  OBVIOUS
<1>2. SubSeq(c, m, n) \in Seq(S)
  BY <1>1, SubSeqProperties
<1>. QED BY <1>2

\* Taking the element at k: folding what follows it from where it leads.
TakesOne(c, k) ==
  \A base : Fold(base, SubSeq(c, k, Len(c))) =
              Fold(Step(base, c[k]), SubSeq(c, k + 1, Len(c)))

\* Every element of a sequence is taken like that.
LEMMA FoldFirst ==
  ASSUME NEW S, NEW c \in Seq(S), NEW k \in 1 .. Len(c)
  PROVE  TakesOne(c, k)
<1>. DEFINE s == SubSeq(c, k, Len(c))
            r == SubSeq(c, k + 1, Len(c))
            o == c[k]
<1>1. Len(c) \in Nat /\ k \in 1 .. Len(c) + 1 /\ k + 1 \in 1 .. Len(c) + 1 /\ k <= Len(c)
  OBVIOUS
<1>2. /\ s \in Seq(S) /\ Len(s) = Len(c) + 1 - k
      /\ \A i \in 1 .. Len(c) + 1 - k : s[i] = c[k + i - 1]
  BY <1>1, Part
<1>3. /\ r \in Seq(S) /\ Len(r) = Len(c) + 1 - (k + 1)
      /\ \A i \in 1 .. Len(c) + 1 - (k + 1) : r[i] = c[(k + 1) + i - 1]
  BY <1>1, Part
<1>4. Len(s) = Len(r) + 1 /\ s[1] = o
  <2>1. 1 \in 1 .. Len(c) + 1 - k /\ k + 1 - 1 = k
    BY <1>1
  <2>. QED BY <1>1, <1>2, <1>3, <2>1
<1>5. ASSUME NEW i \in 1 .. Len(r) PROVE r[i] = s[i + 1]
  <2>1. i \in 1 .. Len(c) + 1 - (k + 1) /\ i + 1 \in 1 .. Len(c) + 1 - k
    BY <1>1, <1>3
  <2>2. (k + 1) + i - 1 = k + (i + 1) - 1
    BY <1>1
  <2>. QED BY <1>2, <1>3, <2>1, <2>2
<1>. HIDE DEF s, r, o
<1>6. ASSUME NEW base PROVE Fold(base, s) = Fold(Step(base, o), r)
  <2>1. FirstOf(base, S, s, o, r)
    BY FoldTail
  <2>. QED BY <1>2, <1>3, <1>4, <1>5, <2>1 DEF FirstOf
<1>. QED BY <1>6 DEF TakesOne, s, r, o
=============================================================================
