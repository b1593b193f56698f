--------------------------- MODULE COpWalkProofs ---------------------------
(***************************************************************************)
(* The macros of BfList do to the pointers what COpList says they do to    *)
(* the sequence, for any number of nodes and any reuse of freed ones; and  *)
(* the loops of COpWalk, which edit the list they walk, make of it what    *)
(* CPasses says, for any number of operations.                             *)
(*                                                                         *)
(* One lemma per macro states what it does to a linked list; the proof of  *)
(* each action then only has to name the nodes.  The turns of a loop take  *)
(* the steps of a fold (FoldProofs).                                       *)
(***************************************************************************)
EXTENDS COpWalk, SequenceTheorems, TLAPS

IInv == TypeOK /\ Intact

\* What the two forms of an argument stand for.
LEMMA ArgumentValues ==
  \A l, x : Value(l, Variable(x)) = x /\ Value(l, NextOf(x)) = l.next[x]
BY DEF Value, Variable, NextOf

\* The fields after an assignment to next or prev.
LEMMA SetNextFields ==
  ASSUME NEW l \in List, NEW x \in Node, NEW p \in Pointer
  PROVE  /\ SetNext(l, x, p) \in List
         /\ SetNext(l, x, p).next = [l.next EXCEPT ![x] = p]
         /\ SetNext(l, x, p).prev = l.prev
         /\ SetNext(l, x, p).first = l.first
         /\ SetNext(l, x, p).last = l.last
         /\ SetNext(l, x, p).fault = l.fault
BY DEF SetNext, List

LEMMA SetPrevFields ==
  ASSUME NEW l \in List, NEW x \in Node, NEW p \in Pointer
  PROVE  /\ SetPrev(l, x, p) \in List
         /\ SetPrev(l, x, p).prev = [l.prev EXCEPT ![x] = p]
         /\ SetPrev(l, x, p).next = l.next
         /\ SetPrev(l, x, p).first = l.first
         /\ SetPrev(l, x, p).last = l.last
         /\ SetPrev(l, x, p).fault = l.fault
BY DEF SetPrev, List

\* A new node has no neighbours and disturbs no node of the list.
LEMMA CreatedLinked ==
  ASSUME NEW l \in List, NEW s \in Seq(Node), Linked(l, s), NEW x \in Node,
         \A i \in 1 .. Len(s) : s[i] # x
  PROVE  /\ Created(l, x) \in List
         /\ Linked(Created(l, x), s)
         /\ Created(l, x).next[x] = NULL
         /\ Created(l, x).prev[x] = NULL
         /\ Created(l, x).fault = l.fault
<1> DEFINE k == SetNext(l, x, NULL)
           m == Created(l, x)
<1>1. NULL \in Pointer
  BY DEF Pointer
<1>2. k \in List /\ m = SetPrev(k, x, NULL)
  BY <1>1, SetNextFields DEF Created
<1>3. /\ m \in List
      /\ m.next = [l.next EXCEPT ![x] = NULL] /\ m.prev = [l.prev EXCEPT ![x] = NULL]
      /\ m.first = l.first /\ m.last = l.last /\ m.fault = l.fault
  BY <1>1, <1>2, SetNextFields, SetPrevFields
<1>4. l.next \in [Node -> Pointer] /\ l.prev \in [Node -> Pointer]
  BY DEF List
<1>5. \A i \in 1 .. Len(s) : m.next[s[i]] = l.next[s[i]] /\ m.prev[s[i]] = l.prev[s[i]]
  BY <1>3, <1>4
<1>6. Linked(m, s)
  BY <1>3, <1>5 DEF Linked
<1> QED
  BY <1>3, <1>4, <1>6

\* Appending a node that is not in the list appends it to the sequence.
LEMMA AppendLinked ==
  ASSUME NEW l \in List, NEW s \in Seq(Node), Linked(l, s), Distinct(s), NEW x \in Node,
         \A i \in 1 .. Len(s) : s[i] # x, l.next[x] = NULL, l.prev[x] = NULL
  PROVE  /\ ListAppend(l, x) \in List
         /\ Linked(ListAppend(l, x), Append(s, x))
         /\ ListAppend(l, x).fault = l.fault
<1> DEFINE m == ListAppend(l, x)
           t == Append(s, x)
<1>1. t \in Seq(Node) /\ Len(t) = Len(s) + 1 /\ t[Len(t)] = x
      /\ \A i \in 1 .. Len(s) : t[i] = s[i]
  OBVIOUS
<1>2. CASE s = << >>
  <2>1. l.first = NULL
    BY <1>2 DEF Linked, Neighbour
  <2>2. m = [l EXCEPT !.first = x, !.last = x]
    BY <2>1 DEF ListAppend
  <2>3. m \in List /\ m.first = x /\ m.last = x /\ m.next = l.next /\ m.prev = l.prev
        /\ m.fault = l.fault
    BY <2>2 DEF List, Pointer
  <2>4. Linked(m, t)
    BY <1>1, <1>2, <2>3 DEF Linked, Neighbour
  <2> QED
    BY <2>3, <2>4
<1>3. CASE s # << >>
  <2>1. /\ Len(s) \in Nat \ {0}
        /\ l.first = s[1] /\ l.first # NULL
        /\ l.last = s[Len(s)] /\ l.last \in Node
    BY <1>3, BfListAssumption DEF Linked, Neighbour
  <2>2. /\ m \in List
        /\ m.first = l.first /\ m.last = x /\ m.fault = l.fault
        /\ m.next = [[l.next EXCEPT ![l.last] = x] EXCEPT ![x] = NULL]
        /\ m.prev = [l.prev EXCEPT ![x] = l.last]
    <3> DEFINE k == SetPrev(SetNext(l, l.last, x), x, l.last)
               h == [k EXCEPT !.last = x]
    <3>1. NULL \in Pointer /\ x \in Pointer /\ l.last \in Pointer
      BY <2>1 DEF Pointer
    <3>2. /\ k \in List
          /\ k.next = [l.next EXCEPT ![l.last] = x] /\ k.prev = [l.prev EXCEPT ![x] = l.last]
          /\ k.first = l.first /\ k.fault = l.fault
      BY <2>1, <3>1, SetNextFields, SetPrevFields
    <3>3. /\ h \in List /\ h.last = x
          /\ h.next = k.next /\ h.prev = k.prev /\ h.first = k.first /\ h.fault = k.fault
      BY <3>1, <3>2 DEF List
    <3>4. m = SetNext(h, x, NULL)
      BY <2>1 DEF ListAppend
    <3>5. /\ SetNext(h, x, NULL) \in List
          /\ SetNext(h, x, NULL).next = [h.next EXCEPT ![x] = NULL]
          /\ SetNext(h, x, NULL).prev = h.prev /\ SetNext(h, x, NULL).first = h.first
          /\ SetNext(h, x, NULL).last = h.last /\ SetNext(h, x, NULL).fault = h.fault
      <4> HIDE DEF h
      <4> QED BY <3>1, <3>3, SetNextFields
    <3> HIDE DEF h, k, m
    <3> QED
      BY <3>2, <3>3, <3>4, <3>5
  <2>3. ASSUME NEW i \in 1 .. Len(t)
        PROVE  m.next[t[i]] = Neighbour(t, i + 1) /\ m.prev[t[i]] = Neighbour(t, i - 1)
    <3>1. CASE i = Len(t)
      BY <1>1, <2>1, <2>2, <3>1 DEF List, Neighbour
    <3>2. CASE i = Len(s)
      BY <1>1, <2>1, <2>2, <3>2 DEF Linked, List, Neighbour
    <3>3. CASE i < Len(s)
      <4>1. s[i] # s[Len(s)] /\ s[i] # x /\ s[i] \in Node
        BY <2>1, <3>3 DEF Distinct
      <4> QED
        BY <1>1, <2>1, <2>2, <3>3, <4>1 DEF Linked, List, Neighbour
    <3> QED
      BY <1>1, <3>1, <3>2, <3>3
  <2>4. m.first = Neighbour(t, 1) /\ m.last = Neighbour(t, Len(t))
    BY <1>1, <2>1, <2>2 DEF Neighbour
  <2>5. Linked(m, t)
    <3> HIDE DEF m, t
    <3> QED BY <2>3, <2>4 DEF Linked
  <2> QED
    BY <2>2, <2>5
<1> QED
  BY <1>2, <1>3

\* What the sequences of the actions are made of.
LEMMA WithoutProperties ==
  ASSUME NEW s \in Seq(Node), Distinct(s), NEW i \in 1 .. Len(s)
  PROVE  /\ Without(s, i) \in Seq(Node)
         /\ Len(Without(s, i)) = Len(s) - 1
         /\ \A j \in 1 .. Len(s) - 1 :
              Without(s, i)[j] = IF j < i THEN s[j] ELSE s[j + 1]
         /\ Distinct(Without(s, i))
<1>1. Len(s) \in Nat /\ Len(s) - 1 \in Nat
  OBVIOUS
<1>2. \A j \in 1 .. Len(s) - 1 : (IF j < i THEN s[j] ELSE s[j + 1]) \in Node
  OBVIOUS
<1>3. Without(s, i) \in Seq(Node) /\ Len(Without(s, i)) = Len(s) - 1
  BY <1>1, <1>2 DEF Without
<1>4. \A j \in 1 .. Len(s) - 1 : Without(s, i)[j] = IF j < i THEN s[j] ELSE s[j + 1]
  BY <1>1 DEF Without
<1>5. Distinct(Without(s, i))
  BY <1>1, <1>3, <1>4 DEF Distinct
<1> QED
  BY <1>3, <1>4, <1>5

-----------------------------------------------------------------------------
(* Removal of a node that the argument names for good. *)

RemoveNode(l, x) == ListRemove(l, Variable(x))

\* Where position j of the sequence without position i is in the sequence.
Old(i, j) == IF j < i THEN j ELSE j + 1

\* What is at each position, NULL before the first and after the last.
LEMMA NeighbourType ==
  ASSUME NEW s \in Seq(Node), NEW k \in Int
  PROVE  /\ Neighbour(s, k) \in Pointer
         /\ k \in 1 .. Len(s) => Neighbour(s, k) = s[k] /\ s[k] \in Node /\ s[k] # NULL
         /\ k \notin 1 .. Len(s) => Neighbour(s, k) = NULL
BY BfListAssumption DEF Neighbour, Pointer

LEMMA NeighbourWithout ==
  ASSUME NEW s \in Seq(Node), Distinct(s), NEW i \in 1 .. Len(s), NEW j \in 0 .. Len(s)
  PROVE  Neighbour(Without(s, i), j) = Neighbour(s, Old(i, j))
<1> DEFINE t == Without(s, i)
<1>1. /\ Len(s) \in Nat /\ Len(t) = Len(s) - 1
      /\ \A k \in 1 .. Len(s) - 1 : t[k] = IF k < i THEN s[k] ELSE s[k + 1]
  BY WithoutProperties
<1>0. SUFFICES Neighbour(t, j) = Neighbour(s, Old(i, j))
  OBVIOUS
<1> HIDE DEF t
<1>2. CASE j = 0
  BY <1>1, <1>2 DEF Neighbour, Old
<1>3. CASE j = Len(s)
  <2>1. Old(i, j) = Len(s) + 1
    BY <1>1, <1>3 DEF Old
  <2>2. Neighbour(s, Old(i, j)) = NULL
    BY <1>1, <2>1 DEF Neighbour
  <2>3. Neighbour(t, j) = NULL
    BY <1>1, <1>3 DEF Neighbour
  <2> QED
    BY <2>2, <2>3
<1>4. CASE j \in 1 .. Len(s) - 1
  <2> DEFINE k == Old(i, j)
  <2>1. k \in 1 .. Len(s) /\ k = IF j < i THEN j ELSE j + 1
    BY <1>1, <1>4 DEF Old
  <2> HIDE DEF k
  <2>2. Neighbour(t, j) = t[j] /\ t[j] = s[k]
    BY <1>1, <1>4, <2>1 DEF Neighbour
  <2>3. Neighbour(s, k) = s[k]
    BY <2>1 DEF Neighbour
  <2> QED
    BY <2>2, <2>3 DEF k
<1>5. j = 0 \/ j = Len(s) \/ j \in 1 .. Len(s) - 1
  BY <1>1
<1> QED
  BY <1>2, <1>3, <1>4, <1>5

(***************************************************************************)
(* A list that holds s without its i-th element: only the neighbours of    *)
(* that element point elsewhere than before.                               *)
(***************************************************************************)
LEMMA Unlinked ==
  ASSUME NEW s \in Seq(Node), Distinct(s), NEW i \in 1 .. Len(s), NEW r \in List,
         r.first = Neighbour(s, Old(i, 1)),
         r.last = Neighbour(s, Old(i, Len(s) - 1)),
         \A k \in 1 .. Len(s) : k # i =>
           /\ r.next[s[k]] = Neighbour(s, IF k = i - 1 THEN i + 1 ELSE k + 1)
           /\ r.prev[s[k]] = Neighbour(s, IF k = i + 1 THEN i - 1 ELSE k - 1)
  PROVE  Linked(r, Without(s, i))
<1> DEFINE t == Without(s, i)
<1>1. /\ Len(s) \in Nat /\ Len(t) = Len(s) - 1 /\ i \in Nat
      /\ \A j \in 0 .. Len(s) : Neighbour(t, j) = Neighbour(s, Old(i, j))
  BY WithoutProperties, NeighbourWithout
<1> HIDE DEF t
<1>2. CASE Len(s) = 1
  <2>1. r.first = NULL /\ r.last = NULL
    BY <1>2 DEF Old, Neighbour
  <2> QED
    BY <1>1, <1>2, <2>1 DEF Linked, Neighbour, t
<1>3. CASE Len(s) > 1
  <2>1. r.first = Neighbour(t, 1) /\ r.last = Neighbour(t, Len(t))
    BY <1>1, <1>3
  <2>2. ASSUME NEW j \in 1 .. Len(t)
        PROVE  r.next[t[j]] = Neighbour(t, j + 1) /\ r.prev[t[j]] = Neighbour(t, j - 1)
    <3> DEFINE k == Old(i, j)
    <3>1. /\ j \in 1 .. Len(s) - 1 /\ k \in 1 .. Len(s) /\ k # i
          /\ j + 1 \in 0 .. Len(s) /\ j - 1 \in 0 .. Len(s) /\ j \in 0 .. Len(s)
      BY <1>1 DEF Old
    <3>2. t[j] = s[k]
      <4>1. Neighbour(t, j) = t[j]
        BY DEF Neighbour
      <4>2. Neighbour(s, k) = s[k]
        BY <3>1 DEF Neighbour
      <4> QED
        BY <1>1, <3>1, <4>1, <4>2
    <3>3. /\ (IF k = i - 1 THEN i + 1 ELSE k + 1) = Old(i, j + 1)
          /\ (IF k = i + 1 THEN i - 1 ELSE k - 1) = Old(i, j - 1)
      BY <1>1, <3>1 DEF Old
    <3> HIDE DEF k
    <3> QED
      BY <1>1, <3>1, <3>2, <3>3
  <2> QED
    BY <2>1, <2>2 DEF Linked, t
<1> QED
  BY <1>1, <1>2, <1>3

\* Removing the node at position i removes the i-th element of the sequence.
LEMMA RemoveLinked ==
  ASSUME NEW l \in List, NEW s \in Seq(Node), Linked(l, s), Distinct(s),
         NEW i \in 1 .. Len(s)
  PROVE  /\ RemoveNode(l, s[i]) \in List
         /\ Linked(RemoveNode(l, s[i]), Without(s, i))
         /\ RemoveNode(l, s[i]).fault = l.fault
<1> DEFINE n == Len(s)
           N(k) == Neighbour(s, k)
           r == RemoveNode(l, s[i])
<1>1. n \in Nat \ {0} /\ i \in 1 .. n /\ NULL \in Pointer /\ NULL \notin Node
  BY BfListAssumption DEF Pointer
<1>2. \A k \in Int : N(k) \in Pointer
  BY NeighbourType
<1>3. \A k \in 1 .. n : N(k) = s[k] /\ s[k] \in Node /\ s[k] # NULL
  BY NeighbourType
<1>4. N(0) = NULL /\ N(n + 1) = NULL
  BY NeighbourType
<1>5. \A j, k \in 1 .. n : s[j] = s[k] => j = k
  BY DEF Distinct
<1>6. /\ l.first = N(1) /\ l.last = N(n)
      /\ \A k \in 1 .. n : l.next[s[k]] = N(k + 1) /\ l.prev[s[k]] = N(k - 1)
  BY DEF Linked
<1>7. l.next \in [Node -> Pointer] /\ l.prev \in [Node -> Pointer]
  BY DEF List
<1>8. SUFFICES /\ r \in List /\ r.fault = l.fault
               /\ r.first = N(Old(i, 1)) /\ r.last = N(Old(i, n - 1))
               /\ \A k \in 1 .. n : k # i =>
                    /\ r.next[s[k]] = N(IF k = i - 1 THEN i + 1 ELSE k + 1)
                    /\ r.prev[s[k]] = N(IF k = i + 1 THEN i - 1 ELSE k - 1)
  <2> HIDE DEF r
  <2>1. Linked(r, Without(s, i))
    BY <1>8, Unlinked
  <2> QED
    BY <1>8, <2>1 DEF r
<1> DEFINE x == s[i]
<1>9. x \in Node /\ x # NULL /\ l.next[x] = N(i + 1) /\ l.prev[x] = N(i - 1)
  BY <1>1, <1>3, <1>6
<1>10. r = ListRemove(l, Variable(x))
  BY DEF RemoveNode
<1> HIDE DEF n, N, r, x
<1>11. CASE n = 1
  <2>1. r = UnlinkOnly(l) /\ i = 1
    BY <1>1, <1>6, <1>10, <1>11 DEF ListRemove
  <2>2. r \in List /\ r.first = NULL /\ r.last = NULL /\ r.fault = l.fault
    BY <1>1, <2>1 DEF UnlinkOnly, List
  <2> QED
    BY <1>1, <1>4, <1>11, <2>1, <2>2 DEF Old
<1>12. CASE n > 1 /\ i = 1
  <2> DEFINE q == N(2)
             m == [l EXCEPT !.first = q]
  <2>1. q = s[2] /\ q \in Node /\ q # NULL /\ l.next[x] = q /\ l.prev[x] = NULL
    BY <1>1, <1>3, <1>4, <1>9, <1>12
  <2>2. l.first # l.last
    BY <1>1, <1>3, <1>5, <1>6, <1>12
  <2>3. /\ m \in List /\ m.first = q /\ m.last = l.last
        /\ m.next = l.next /\ m.prev = l.prev /\ m.fault = l.fault
    BY <1>2 DEF List
  <2>4. r = SetPrev(m, q, NULL)
    BY <1>10, <2>1, <2>2, <2>3, ArgumentValues DEF ListRemove, UnlinkFirst
  <2> HIDE DEF m
  <2>5. /\ r \in List /\ r.first = q /\ r.last = N(n) /\ r.fault = l.fault
        /\ r.next = l.next /\ r.prev = [l.prev EXCEPT ![q] = NULL]
    BY <1>1, <1>6, <2>1, <2>3, <2>4, SetPrevFields
  <2> HIDE DEF q
  <2>6. ASSUME NEW k \in 1 .. n, k # i
        PROVE  /\ r.next[s[k]] = N(IF k = i - 1 THEN i + 1 ELSE k + 1)
               /\ r.prev[s[k]] = N(IF k = i + 1 THEN i - 1 ELSE k - 1)
    <3>1. r.next[s[k]] = N(IF k = i - 1 THEN i + 1 ELSE k + 1)
      BY <1>1, <1>6, <1>12, <2>5, <2>6
    <3>2. CASE k = 2
      BY <1>1, <1>3, <1>4, <1>7, <1>12, <2>1, <2>5, <3>1, <3>2
    <3>3. CASE k # 2
      <4>1. s[k] # q /\ s[k] \in Node
        BY <1>1, <1>3, <1>5, <1>12, <2>1, <3>3
      <4> QED
        BY <1>1, <1>6, <1>7, <1>12, <2>5, <3>1, <3>3, <4>1
    <3> QED
      BY <3>2, <3>3
  <2>7. r.first = N(Old(i, 1)) /\ r.last = N(Old(i, n - 1))
    BY <1>1, <1>12, <2>5 DEF Old, q
  <2> QED
    BY <2>5, <2>6, <2>7
<1>13. CASE n > 1 /\ i > 1
  <2> DEFINE p == N(i - 1)
             q == N(i + 1)
             m == SetNext(l, p, q)
  <2>1. p = s[i - 1] /\ p \in Node /\ p # NULL /\ p # x /\ p \in Pointer /\ q \in Pointer
    BY <1>1, <1>2, <1>3, <1>5, <1>13 DEF x
  <2>2. l.first # l.last
    <3>1. s[1] # s[n]
      BY <1>1, <1>5, <1>13
    <3> QED
      BY <1>1, <1>3, <1>6, <3>1
  <2>3. r = UnlinkLater(l, Variable(x))
    BY <1>9, <1>10, <2>1, <2>2, ArgumentValues DEF ListRemove
  <2>4. /\ m \in List /\ m.next = [l.next EXCEPT ![p] = q]
        /\ m.prev = l.prev /\ m.first = l.first /\ m.last = l.last /\ m.fault = l.fault
    BY <2>1, SetNextFields
  <2>5. m.next[x] = q /\ m.prev[x] = p
    BY <1>7, <1>9, <2>1, <2>4
  <2>6. r = IF m.last = x THEN [m EXCEPT !.last = p]
            ELSE IF q = NULL THEN Fault(m) ELSE SetPrev(m, q, p)
    BY <1>9, <2>3, <2>5, ArgumentValues DEF UnlinkLater
  <2> HIDE DEF m
  <2>7. ASSUME NEW k \in 1 .. n, k # i
        PROVE  m.next[s[k]] = N(IF k = i - 1 THEN i + 1 ELSE k + 1)
    <3>1. CASE k = i - 1
      BY <1>7, <2>1, <2>4, <3>1
    <3>2. CASE k # i - 1
      <4>1. s[k] # p /\ s[k] \in Node
        BY <1>1, <1>3, <1>5, <1>13, <2>1, <3>2
      <4> QED
        BY <1>6, <1>7, <2>4, <3>2, <4>1
    <3> QED
      BY <3>1, <3>2
  <2>8. CASE i = n
    <3>1. m.last = x
      BY <1>1, <1>3, <1>6, <2>4, <2>8 DEF x
    <3>2. r = [m EXCEPT !.last = p]
      BY <2>6, <3>1
    <3>3. /\ r \in List /\ r.last = p /\ r.first = m.first /\ r.fault = m.fault
          /\ r.next = m.next /\ r.prev = m.prev
      BY <2>1, <2>4, <3>2 DEF List
    <3>4. \A k \in 1 .. n : k # i => r.prev[s[k]] = N(IF k = i + 1 THEN i - 1 ELSE k - 1)
      BY <1>1, <1>6, <2>4, <2>8, <3>3
    <3>5. r.first = N(Old(i, 1)) /\ r.last = N(Old(i, n - 1))
      BY <1>1, <1>6, <1>13, <2>4, <2>8, <3>3 DEF Old
    <3> QED
      BY <2>4, <2>7, <3>3, <3>4, <3>5
  <2>9. CASE i < n
    <3>1. q = s[i + 1] /\ q \in Node /\ q # NULL /\ m.last # x
      <4>1. i + 1 \in 1 .. n /\ N(i + 1) = s[i + 1] /\ s[i + 1] \in Node
        BY <1>1, <1>3, <2>9
      <4>2. s[n] # s[i]
        BY <1>1, <1>5, <2>9
      <4>3. m.last = s[n]
        BY <1>1, <1>3, <1>6, <2>4
      <4> QED
        BY <1>1, <4>1, <4>2, <4>3 DEF x
    <3>2. r = SetPrev(m, q, p)
      BY <2>6, <3>1
    <3>3. /\ r \in List /\ r.last = m.last /\ r.first = m.first /\ r.fault = m.fault
          /\ r.next = m.next /\ r.prev = [m.prev EXCEPT ![q] = p]
      BY <2>1, <2>4, <3>1, <3>2, SetPrevFields
    <3>4. ASSUME NEW k \in 1 .. n, k # i
          PROVE  r.prev[s[k]] = N(IF k = i + 1 THEN i - 1 ELSE k - 1)
      <4>1. CASE k = i + 1
        BY <1>7, <2>4, <3>1, <3>3, <4>1
      <4>2. CASE k # i + 1
        <5>1. s[k] # q /\ s[k] \in Node
          BY <1>1, <1>3, <1>5, <2>9, <3>1, <4>2
        <5> QED
          BY <1>6, <1>7, <2>4, <3>3, <4>2, <5>1
      <4> QED
        BY <4>1, <4>2
    <3>5. r.first = N(Old(i, 1)) /\ r.last = N(Old(i, n - 1))
      BY <1>1, <1>6, <1>13, <2>4, <2>9, <3>3 DEF Old
    <3> QED
      BY <2>4, <2>7, <3>3, <3>4, <3>5
  <2> QED
    BY <1>1, <2>8, <2>9
<1> QED
  BY <1>1, <1>11, <1>12, <1>13

-----------------------------------------------------------------------------
(* Replacement. *)

\* Putting another node at position i leaves its neighbours where they were.
LEMMA ReplacedProperties ==
  ASSUME NEW s \in Seq(Node), Distinct(s), NEW i \in 1 .. Len(s), NEW new \in Node,
         \A k \in 1 .. Len(s) : s[k] # new
  PROVE  LET t == [s EXCEPT ![i] = new] IN
         /\ t \in Seq(Node) /\ Len(t) = Len(s) /\ Distinct(t)
         /\ t[i] = new /\ \A k \in 1 .. Len(s) : k # i => t[k] = s[k]
         /\ \A k \in Int : Neighbour(t, k) = IF k = i THEN new ELSE Neighbour(s, k)
<1> DEFINE t == [s EXCEPT ![i] = new]
<1>1. t \in Seq(Node) /\ Len(t) = Len(s)
  OBVIOUS
<1>2. t[i] = new /\ \A k \in 1 .. Len(s) : k # i => t[k] = s[k]
  OBVIOUS
<1> HIDE DEF t
<1>3. Distinct(t)
  BY <1>1, <1>2 DEF Distinct
<1>4. \A k \in Int : Neighbour(t, k) = IF k = i THEN new ELSE Neighbour(s, k)
  BY <1>1, <1>2 DEF Neighbour
<1> QED
  BY <1>1, <1>2, <1>3, <1>4 DEF t

\* Replacing the node at position i by a new one replaces the i-th element.
LEMMA ReplaceLinked ==
  ASSUME NEW l \in List, NEW s \in Seq(Node), Linked(l, s), Distinct(s),
         NEW i \in 1 .. Len(s), NEW new \in Node,
         \A k \in 1 .. Len(s) : s[k] # new, l.prev[new] = NULL
  PROVE  /\ ListReplace(l, s[i], new) \in List
         /\ Linked(ListReplace(l, s[i], new), [s EXCEPT ![i] = new])
         /\ ListReplace(l, s[i], new).next[s[i]] = Neighbour(s, i + 1)
         /\ ListReplace(l, s[i], new).fault = l.fault
<1> DEFINE n == Len(s)
           N(k) == Neighbour(s, k)
           x == s[i]
           t == [s EXCEPT ![i] = new]
           m == SetNext(l, new, l.next[x])
           h == IF l.prev[x] = NULL THEN [m EXCEPT !.first = new]
                ELSE SetNext(SetPrev(m, new, l.prev[x]), l.prev[x], new)
           r == ListReplace(l, x, new)
<1>1. n \in Nat \ {0} /\ i \in 1 .. n /\ NULL \in Pointer /\ new \in Pointer /\ new # NULL
  BY BfListAssumption DEF Pointer
<1>2. \A k \in Int : N(k) \in Pointer
  BY NeighbourType
<1>3. \A k \in 1 .. n : N(k) = s[k] /\ s[k] \in Node /\ s[k] # NULL /\ s[k] # new
  BY NeighbourType
<1>4. N(0) = NULL /\ N(n + 1) = NULL
  BY NeighbourType
<1>5. \A j, k \in 1 .. n : s[j] = s[k] => j = k
  BY DEF Distinct
<1>6. /\ l.first = N(1) /\ l.last = N(n)
      /\ \A k \in 1 .. n : l.next[s[k]] = N(k + 1) /\ l.prev[s[k]] = N(k - 1)
  BY DEF Linked
<1>7. l.next \in [Node -> Pointer] /\ l.prev \in [Node -> Pointer]
  BY DEF List
<1>8. x \in Node /\ x # NULL /\ x # new /\ l.next[x] = N(i + 1) /\ l.prev[x] = N(i - 1)
  BY <1>1, <1>3, <1>6
<1>9. /\ t \in Seq(Node) /\ Len(t) = n /\ t[i] = new
      /\ \A k \in 1 .. n : k # i => t[k] = s[k]
      /\ \A k \in Int : Neighbour(t, k) = IF k = i THEN new ELSE N(k)
  BY ReplacedProperties
<1>10. /\ m \in List /\ m.next = [l.next EXCEPT ![new] = N(i + 1)]
       /\ m.prev = l.prev /\ m.first = l.first /\ m.last = l.last /\ m.fault = l.fault
  BY <1>1, <1>2, <1>8, SetNextFields
<1>11. r = TakeNext(h, x, new)
  BY DEF ListReplace
<1> HIDE DEF n, N, m, t
\* The predecessor, if there is one, points to the new node.
<1>12. /\ h \in List /\ h.last = l.last /\ h.fault = l.fault
       /\ h.first = IF i = 1 THEN new ELSE l.first
       /\ h.next[new] = N(i + 1) /\ h.prev[new] = N(i - 1)
       /\ \A k \in 1 .. n : /\ h.next[s[k]] = IF k = i - 1 THEN new ELSE N(k + 1)
                            /\ h.prev[s[k]] = N(k - 1)
  <2>1. CASE i = 1
    <3>1. h = [m EXCEPT !.first = new]
      BY <1>4, <1>8, <2>1
    <3>2. /\ h \in List /\ h.first = new /\ h.last = m.last /\ h.fault = m.fault
          /\ h.next = m.next /\ h.prev = m.prev
      BY <1>1, <1>10, <3>1 DEF List
    <3> HIDE DEF h
    <3>3. h.next[new] = N(i + 1) /\ h.prev[new] = N(i - 1)
      BY <1>4, <1>7, <1>10, <2>1, <3>2
    <3>4. ASSUME NEW k \in 1 .. n
          PROVE  /\ h.next[s[k]] = IF k = i - 1 THEN new ELSE N(k + 1)
                 /\ h.prev[s[k]] = N(k - 1)
      <4>1. k # i - 1 /\ s[k] # new /\ s[k] \in Node
        BY <1>1, <1>3, <2>1
      <4> QED
        BY <1>6, <1>7, <1>10, <3>2, <4>1
    <3> QED
      BY <1>10, <2>1, <3>2, <3>3, <3>4
  <2>2. CASE i > 1
    <3> DEFINE p == s[i - 1]
               g == SetPrev(m, new, p)
    <3>1. l.prev[x] = p /\ p \in Node /\ p # NULL /\ p # new /\ p \in Pointer /\ N(i - 1) = p
      BY <1>1, <1>3, <1>8, <2>2 DEF Pointer
    <3>2. h = SetNext(g, p, new)
      BY <3>1
    <3>3. /\ g \in List /\ g.prev = [l.prev EXCEPT ![new] = p]
          /\ g.next = m.next /\ g.first = l.first /\ g.last = l.last /\ g.fault = l.fault
      BY <1>10, <3>1, SetPrevFields
    <3> HIDE DEF g, h
    <3>4. /\ h \in List /\ h.next = [m.next EXCEPT ![p] = new]
          /\ h.prev = g.prev /\ h.first = l.first /\ h.last = l.last /\ h.fault = l.fault
      BY <1>1, <3>1, <3>2, <3>3, SetNextFields
    <3>5. h.next[new] = N(i + 1) /\ h.prev[new] = N(i - 1)
      BY <1>7, <1>10, <3>1, <3>3, <3>4
    <3>6. ASSUME NEW k \in 1 .. n
          PROVE  /\ h.next[s[k]] = IF k = i - 1 THEN new ELSE N(k + 1)
                 /\ h.prev[s[k]] = N(k - 1)
      <4>1. s[k] # new /\ s[k] \in Node /\ (s[k] = p => k = i - 1)
        BY <1>1, <1>3, <1>5, <2>2
      <4>2. h.prev[s[k]] = N(k - 1)
        BY <1>6, <1>7, <3>3, <3>4, <4>1
      <4>3. CASE k = i - 1
        BY <1>7, <1>10, <3>1, <3>4, <4>2, <4>3
      <4>4. CASE k # i - 1
        BY <1>6, <1>7, <1>10, <3>4, <4>1, <4>2, <4>4
      <4> QED
        BY <4>3, <4>4
    <3> QED
      BY <2>2, <3>4, <3>5, <3>6
  <2> QED
    BY <1>1, <2>1, <2>2
<1> HIDE DEF h
\* The successor, if there is one, points back to it.
<1>13. /\ r \in List /\ r.first = h.first /\ r.fault = h.fault /\ r.next = h.next
       /\ r.last = IF i = n THEN new ELSE l.last
       /\ r.prev[new] = N(i - 1)
       /\ \A k \in 1 .. n : k # i => r.prev[s[k]] = IF k = i + 1 THEN new ELSE N(k - 1)
  <2>1. CASE i = n
    <3>1. r = [h EXCEPT !.last = new]
      BY <1>4, <1>11, <1>12, <2>1 DEF TakeNext
    <3>2. /\ r \in List /\ r.last = new /\ r.first = h.first /\ r.fault = h.fault
          /\ r.next = h.next /\ r.prev = h.prev
      BY <1>1, <1>12, <3>1 DEF List
    <3> HIDE DEF r
    <3>3. \A k \in 1 .. n : k # i + 1
      BY <1>1, <2>1
    <3> QED
      BY <1>12, <2>1, <3>2, <3>3
  <2>2. CASE i < n
    <3> DEFINE q == s[i + 1]
    <3>1. i + 1 \in 1 .. n
      BY <1>1, <2>2
    <3>2. N(i + 1) = q /\ q \in Node /\ q # NULL /\ q # new
      BY <1>3, <3>1
    <3>3. r = SetPrev(h, q, new)
      BY <1>11, <1>12, <3>2 DEF TakeNext
    <3> HIDE DEF r
    <3>4. /\ r \in List /\ r.prev = [h.prev EXCEPT ![q] = new]
          /\ r.next = h.next /\ r.first = h.first /\ r.last = h.last /\ r.fault = h.fault
      BY <1>1, <1>12, <3>2, <3>3, SetPrevFields
    <3>5. h.prev \in [Node -> Pointer]
      BY <1>12 DEF List
    <3>6. r.prev[new] = N(i - 1)
      BY <1>12, <3>2, <3>4, <3>5
    <3>7. ASSUME NEW k \in 1 .. n, k # i
          PROVE  r.prev[s[k]] = IF k = i + 1 THEN new ELSE N(k - 1)
      <4>1. s[k] \in Node /\ (s[k] = q => k = i + 1)
        BY <1>3, <1>5, <3>1
      <4>2. CASE k = i + 1
        BY <3>2, <3>4, <3>5, <4>2
      <4>3. CASE k # i + 1
        BY <1>12, <3>4, <3>5, <4>1, <4>3
      <4> QED
        BY <4>2, <4>3
    <3> QED
      BY <1>12, <2>2, <3>4, <3>6, <3>7
  <2> QED
    BY <1>1, <2>1, <2>2
<1> HIDE DEF r
<1>14. r.first = Neighbour(t, 1) /\ r.last = Neighbour(t, Len(t))
  BY <1>1, <1>6, <1>9, <1>12, <1>13
<1>15. ASSUME NEW k \in 1 .. n
       PROVE  r.next[t[k]] = Neighbour(t, k + 1) /\ r.prev[t[k]] = Neighbour(t, k - 1)
  <2>1. k \in Int /\ k + 1 \in Int /\ k - 1 \in Int /\ i \in Int
    BY <1>1
  <2>2. CASE k = i
    BY <1>9, <1>12, <1>13, <2>1, <2>2
  <2>3. CASE k # i
    <3>1. t[k] = s[k]
      BY <1>9, <2>3
    <3>2. r.next[s[k]] = IF k + 1 = i THEN new ELSE N(k + 1)
      BY <1>12, <1>13, <2>1
    <3>3. r.prev[s[k]] = IF k - 1 = i THEN new ELSE N(k - 1)
      BY <1>13, <2>1, <2>3
    <3> QED
      BY <1>9, <2>1, <3>1, <3>2, <3>3
  <2> QED
    BY <2>2, <2>3
<1>16. Linked(r, t)
  BY <1>9, <1>14, <1>15 DEF Linked
<1>17. r.next[x] = N(i + 1)
  BY <1>1, <1>12, <1>13
<1> QED
  BY <1>12, <1>13, <1>16, <1>17 DEF r, t, N

-----------------------------------------------------------------------------
(* The steps of the list. *)

\* Naming the node to remove as op->next is safe when op is not its neighbour.
LEMMA RemovesSuccessor ==
  ASSUME NEW l \in List, NEW a \in Node, NEW y \in Node, l.next[a] = y,
         l.prev[y] \in Node, l.prev[y] # a, l.next[y] \in Pointer
  PROVE  ListRemove(l, NextOf(a)) = RemoveNode(l, y)
<1> DEFINE m == SetNext(l, l.prev[y], l.next[y])
<1>1. m.next = [l.next EXCEPT ![l.prev[y]] = l.next[y]]
  BY SetNextFields
<1>2. m.next[a] = y
  BY <1>1 DEF List
<1> HIDE DEF m
<1>3. l.prev[y] # NULL
  BY BfListAssumption
<1>4. UnlinkLater(l, NextOf(a)) = UnlinkLater(l, Variable(y))
  BY <1>2, ArgumentValues DEF UnlinkLater, m
<1> QED
  BY <1>3, <1>4, ArgumentValues DEF ListRemove, RemoveNode

LEMMA InitIInv == Init => IInv
<1> SUFFICES ASSUME Init PROVE IInv
  OBVIOUS
<1>1. items = << >> /\ Len(items) = 0 /\ items \in Seq(Node)
  BY DEF Init
<1>2. list \in List /\ list.first = NULL /\ list.last = NULL /\ list.fault = FALSE
  BY DEF Init, List, Pointer
<1> QED
  BY <1>1, <1>2 DEF IInv, TypeOK, Intact, Distinct, Linked, Neighbour

LEMMA AppendOpStep ==
  ASSUME IInv, NEW x \in Node, AppendOp(x)
  PROVE  IInv'
<1> DEFINE c == Created(list, x)
<1>1. /\ list \in List /\ items \in Seq(Node) /\ Distinct(items) /\ Linked(list, items)
      /\ ~list.fault
      /\ \A k \in 1 .. Len(items) : items[k] # x
  BY DEF IInv, TypeOK, Intact, AppendOp, Free
<1>2. c \in List /\ Linked(c, items) /\ c.next[x] = NULL /\ c.prev[x] = NULL /\ ~c.fault
  BY <1>1, CreatedLinked
<1>3. list' = ListAppend(c, x) /\ items' = Append(items, x)
  BY DEF AppendOp
<1> HIDE DEF c
<1>4. list' \in List /\ Linked(list', items') /\ ~list'.fault
  BY <1>1, <1>2, <1>3, AppendLinked
<1>5. items' \in Seq(Node) /\ Distinct(items')
  BY <1>1, <1>3 DEF Distinct
<1> QED
  BY <1>4, <1>5 DEF IInv, TypeOK, Intact

LEMMA RemoveOpStep ==
  ASSUME IInv, NEW i \in 1 .. Len(items), RemoveOp(i)
  PROVE  IInv'
<1>1. /\ list \in List /\ items \in Seq(Node) /\ Distinct(items) /\ Linked(list, items)
      /\ ~list.fault
  BY DEF IInv, TypeOK, Intact
<1>2. list' = RemoveNode(list, items[i]) /\ items' = Without(items, i)
  BY DEF RemoveOp, RemoveNode
<1>3. list' \in List /\ Linked(list', items') /\ ~list'.fault
  BY <1>1, <1>2, RemoveLinked
<1>4. items' \in Seq(Node) /\ Distinct(items')
  BY <1>1, <1>2, WithoutProperties
<1> QED
  BY <1>3, <1>4 DEF IInv, TypeOK, Intact

LEMMA ReplaceOpStep ==
  ASSUME IInv, NEW i \in 1 .. Len(items), NEW new \in Node, ReplaceOp(i, new)
  PROVE  IInv'
<1> DEFINE c == Created(list, new)
<1>1. /\ list \in List /\ items \in Seq(Node) /\ Distinct(items) /\ Linked(list, items)
      /\ ~list.fault
      /\ \A k \in 1 .. Len(items) : items[k] # new
  BY DEF IInv, TypeOK, Intact, ReplaceOp, Free
<1>2. c \in List /\ Linked(c, items) /\ c.prev[new] = NULL /\ ~c.fault
  BY <1>1, CreatedLinked
<1>3. list' = ListReplace(c, items[i], new) /\ items' = [items EXCEPT ![i] = new]
  BY DEF ReplaceOp
<1> HIDE DEF c
<1>4. list' \in List /\ Linked(list', items') /\ ~list'.fault
  <2> DEFINE l == ListReplace(c, items[i], new)
             t == [items EXCEPT ![i] = new]
  <2>1. l \in List /\ Linked(l, t) /\ ~l.fault
    BY <1>1, <1>2, ReplaceLinked
  <2>2. list' = l /\ items' = t
    BY <1>3
  <2> HIDE DEF l, t
  <2> QED
    BY <2>1, <2>2
<1>5. items' \in Seq(Node) /\ Distinct(items')
  BY <1>1, <1>3, ReplacedProperties
<1> QED
  BY <1>4, <1>5 DEF IInv, TypeOK, Intact

LEMMA MergeOpsStep ==
  ASSUME IInv, NEW i \in 1 .. Len(items) - 1, NEW new \in Node, MergeOps(i, new)
  PROVE  IInv'
<1> DEFINE c == Created(list, new)
           a == items[i]
           y == items[i + 1]
           t == [items EXCEPT ![i] = new]
           l == ListReplace(c, a, new)
<1>1. /\ list \in List /\ items \in Seq(Node) /\ Distinct(items) /\ Linked(list, items)
      /\ ~list.fault
      /\ \A k \in 1 .. Len(items) : items[k] # new
  BY DEF IInv, TypeOK, Intact, MergeOps, Free
<1>2. c \in List /\ Linked(c, items) /\ c.prev[new] = NULL /\ ~c.fault
  BY <1>1, CreatedLinked
<1>3. /\ list' = ListRemove(l, NextOf(a))
      /\ items' = Without(t, i + 1)
  BY DEF MergeOps, Successor
<1>4. i \in 1 .. Len(items) /\ i + 1 \in 1 .. Len(items) /\ a \in Node /\ y \in Node /\ a # y
  BY <1>1 DEF Distinct
<1> HIDE DEF c
<1>5. l \in List /\ Linked(l, t) /\ l.next[a] = Neighbour(items, i + 1) /\ ~l.fault
  BY <1>1, <1>2, <1>4, ReplaceLinked
<1>6. /\ t \in Seq(Node) /\ Len(t) = Len(items) /\ Distinct(t) /\ t[i] = new /\ t[i + 1] = y
  BY <1>1, <1>4, ReplacedProperties
<1> HIDE DEF l, t
<1>7. /\ l.next[a] = y
      /\ l.prev[y] = new /\ l.next[y] \in Pointer /\ new # a
  <2>1. Neighbour(items, i + 1) = y
    BY <1>4 DEF Neighbour
  <2>2. l.prev[t[i + 1]] = Neighbour(t, i + 1 - 1)
    BY <1>4, <1>5, <1>6 DEF Linked
  <2>3. Neighbour(t, i + 1 - 1) = new
    BY <1>4, <1>6 DEF Neighbour
  <2>4. l.next[y] \in Pointer
    BY <1>4, <1>5 DEF List
  <2>5. new # a
    BY <1>1, <1>4
  <2> QED
    BY <1>5, <1>6, <2>1, <2>2, <2>3, <2>4, <2>5
<1> HIDE DEF a, y
<1>8. list' = RemoveNode(l, t[i + 1])
  BY <1>3, <1>4, <1>5, <1>6, <1>7, RemovesSuccessor
<1>9. list' \in List /\ Linked(list', items') /\ ~list'.fault
  BY <1>3, <1>4, <1>5, <1>6, <1>8, RemoveLinked
<1>10. items' \in Seq(Node) /\ Distinct(items')
  BY <1>3, <1>4, <1>6, WithoutProperties
<1> QED
  BY <1>9, <1>10 DEF IInv, TypeOK, Intact

LEMMA Inductive == Spec => []IInv
<1>1. IInv /\ [Next]_vars => IInv'
  <2> SUFFICES ASSUME IInv, [Next]_vars PROVE IInv'
    OBVIOUS
  <2>1. ASSUME NEW x \in Node, AppendOp(x) PROVE IInv'
    BY <2>1, AppendOpStep
  <2>2. ASSUME NEW i \in 1 .. Len(items), RemoveOp(i) PROVE IInv'
    BY <2>2, RemoveOpStep
  <2>3. ASSUME NEW i \in 1 .. Len(items), NEW new \in Node, ReplaceOp(i, new) PROVE IInv'
    BY <2>3, ReplaceOpStep
  <2>4. ASSUME NEW i \in 1 .. Len(items) - 1, NEW new \in Node, MergeOps(i, new) PROVE IInv'
    BY <2>4, MergeOpsStep
  <2>5. CASE UNCHANGED vars
    BY <2>5 DEF vars, IInv, TypeOK, Intact
  <2> QED
    BY <2>1, <2>2, <2>3, <2>4, <2>5 DEF Next
<1> QED
  BY <1>1, InitIInv, PTL DEF Spec

\* The pointers stay pointers to nodes and no operation is in the list twice.
THEOREM TypeCorrect == Spec => []TypeOK
<1>1. IInv => TypeOK
  BY DEF IInv
<1> QED
  BY <1>1, Inductive, PTL

(***************************************************************************)
(* Whatever the passes do to a list of operations through the macros of    *)
(* list.h, with any number of nodes and with freed nodes returned by the   *)
(* allocator, the pointers stand for the sequence that was meant, from     *)
(* either end, and no null pointer is followed.                            *)
(***************************************************************************)
THEOREM PointersMirror == Spec => []Intact
<1>1. IInv => Intact
  BY DEF IInv
<1> QED
  BY <1>1, Inductive, PTL

-----------------------------------------------------------------------------
(* The loops that walk the list. *)

ReorderFold == INSTANCE FoldProofs WITH Step <- Reorder
LinearFold == INSTANCE FoldProofs WITH Step <- AddLinear
SweepFold == INSTANCE FoldProofs WITH Step <- Sweep

FoldReorder(base, ops) == FoldLeft(Reorder, base, ops)
FoldLinear(base, ops) == FoldLeft(AddLinear, base, ops)
FoldSweep(base, ops) == FoldLeft(Sweep, base, ops)

\* Folding nothing.
LEMMA FoldsEmpty ==
  ASSUME NEW base
  PROVE  /\ FoldReorder(base, << >>) = base
         /\ FoldLinear(base, << >>) = base
         /\ FoldSweep(base, << >>) = base
<1>1. FoldReorder(base, << >>) = base
  <2>1. ReorderFold!Fold(base, << >>) = base
    BY ReorderFold!FoldEmpty
  <2>. QED BY <2>1 DEF FoldReorder, FoldLeft, MapThenFoldSet, Max, ReorderFold!Fold, ReorderFold!FoldLeft,
                      ReorderFold!MapThenFoldSet, ReorderFold!Max
<1>2. FoldLinear(base, << >>) = base
  <2>1. LinearFold!Fold(base, << >>) = base
    BY LinearFold!FoldEmpty
  <2>. QED BY <2>1 DEF FoldLinear, FoldLeft, MapThenFoldSet, Max, LinearFold!Fold, LinearFold!FoldLeft,
                      LinearFold!MapThenFoldSet, LinearFold!Max
<1>3. FoldSweep(base, << >>) = base
  <2>1. SweepFold!Fold(base, << >>) = base
    BY SweepFold!FoldEmpty
  <2>. QED BY <2>1 DEF FoldSweep, FoldLeft, MapThenFoldSet, Max, SweepFold!Fold, SweepFold!FoldLeft,
                      SweepFold!MapThenFoldSet, SweepFold!Max
<1>. QED BY <1>1, <1>2, <1>3

\* Taking the first element.
TakesFirst(c, k) ==
  /\ \A base : FoldReorder(base, SubSeq(c, k, Len(c))) =
                 FoldReorder(Reorder(base, c[k]), SubSeq(c, k + 1, Len(c)))
  /\ \A base : FoldLinear(base, SubSeq(c, k, Len(c))) =
                 FoldLinear(AddLinear(base, c[k]), SubSeq(c, k + 1, Len(c)))
  /\ \A base : FoldSweep(base, SubSeq(c, k, Len(c))) =
                 FoldSweep(Sweep(base, c[k]), SubSeq(c, k + 1, Len(c)))

LEMMA FoldsFirst ==
  ASSUME NEW S, NEW c \in Seq(S), NEW k \in 1 .. Len(c)
  PROVE  TakesFirst(c, k)
<1>1. ASSUME NEW base
     PROVE  FoldReorder(base, SubSeq(c, k, Len(c))) =
              FoldReorder(Reorder(base, c[k]), SubSeq(c, k + 1, Len(c)))
  <2>1. ReorderFold!TakesOne(c, k)
    BY ReorderFold!FoldFirst
  <2>2. ReorderFold!Fold(base, SubSeq(c, k, Len(c))) =
          ReorderFold!Fold(Reorder(base, c[k]), SubSeq(c, k + 1, Len(c)))
    BY <2>1 DEF ReorderFold!TakesOne
  <2>. QED BY <2>2 DEF FoldReorder, FoldLeft, MapThenFoldSet, Max, ReorderFold!Fold, ReorderFold!FoldLeft,
                      ReorderFold!MapThenFoldSet, ReorderFold!Max
<1>2. ASSUME NEW base
     PROVE  FoldLinear(base, SubSeq(c, k, Len(c))) =
              FoldLinear(AddLinear(base, c[k]), SubSeq(c, k + 1, Len(c)))
  <2>1. LinearFold!TakesOne(c, k)
    BY LinearFold!FoldFirst
  <2>2. LinearFold!Fold(base, SubSeq(c, k, Len(c))) =
          LinearFold!Fold(AddLinear(base, c[k]), SubSeq(c, k + 1, Len(c)))
    BY <2>1 DEF LinearFold!TakesOne
  <2>. QED BY <2>2 DEF FoldLinear, FoldLeft, MapThenFoldSet, Max, LinearFold!Fold, LinearFold!FoldLeft,
                      LinearFold!MapThenFoldSet, LinearFold!Max
<1>3. ASSUME NEW base
     PROVE  FoldSweep(base, SubSeq(c, k, Len(c))) =
              FoldSweep(Sweep(base, c[k]), SubSeq(c, k + 1, Len(c)))
  <2>1. SweepFold!TakesOne(c, k)
    BY SweepFold!FoldFirst
  <2>2. SweepFold!Fold(base, SubSeq(c, k, Len(c))) =
          SweepFold!Fold(Sweep(base, c[k]), SubSeq(c, k + 1, Len(c)))
    BY <2>1 DEF SweepFold!TakesOne
  <2>. QED BY <2>2 DEF FoldSweep, FoldLeft, MapThenFoldSet, Max, SweepFold!Fold, SweepFold!FoldLeft,
                      SweepFold!MapThenFoldSet, SweepFold!Max
<1>. QED BY <1>1, <1>2, <1>3 DEF TakesFirst

-----------------------------------------------------------------------------
(* What the edits do to the operations of the list, a sequence. *)

\* A part of a sequence, element by element.
LEMMA PartOf ==
  ASSUME NEW S, NEW c \in Seq(S), NEW m \in Int, NEW n \in Int,
         1 <= m, m <= n + 1, n <= Len(c)
  PROVE  /\ SubSeq(c, m, n) \in Seq(S)
         /\ Len(SubSeq(c, m, n)) = n + 1 - m
         /\ \A i \in 1 .. n + 1 - m : SubSeq(c, m, n)[i] = c[m + i - 1]
<1>1. \A i \in m .. n : i \in 1 .. Len(c) /\ c[i] \in S
  OBVIOUS
<1>2. SubSeq(c, m, n) \in Seq(S)
  BY <1>1, SubSeqProperties
<1>. QED BY <1>2

\* Elements m to n of c are elements p to q of d.
Agree(c, m, n, d, p, q) ==
  /\ n - m = q - p
  /\ \A i \in 1 .. n + 1 - m : c[m + i - 1] = d[p + i - 1]

\* Two parts with the same elements.
LEMMA SameParts ==
  ASSUME NEW S, NEW c \in Seq(S), NEW d \in Seq(S),
         NEW m \in Int, NEW n \in Int, 1 <= m, m <= n + 1, n <= Len(c),
         NEW p \in Int, NEW q \in Int, 1 <= p, p <= q + 1, q <= Len(d),
         Agree(c, m, n, d, p, q)
  PROVE  SubSeq(c, m, n) = SubSeq(d, p, q)
<1>. DEFINE s == SubSeq(c, m, n)
            t == SubSeq(d, p, q)
<1>1. /\ s \in Seq(S) /\ Len(s) = n + 1 - m
      /\ \A i \in 1 .. n + 1 - m : s[i] = c[m + i - 1]
  BY PartOf
<1>2. /\ t \in Seq(S) /\ Len(t) = q + 1 - p
      /\ \A i \in 1 .. q + 1 - p : t[i] = d[p + i - 1]
  BY PartOf
<1>. HIDE DEF s, t
<1>3. /\ n + 1 - m = q + 1 - p
      /\ \A i \in 1 .. n + 1 - m : c[m + i - 1] = d[p + i - 1]
  BY DEF Agree
<1>4. Len(s) = Len(t) /\ \A i \in 1 .. Len(s) : s[i] = t[i]
  BY <1>1, <1>2, <1>3
<1>5. s = t
  BY <1>1, <1>2, <1>4
<1>. QED BY <1>5 DEF s, t

\* d is c where the element at k, and with gap = 1 its successor, became v.
Becomes(c, d, k, v, gap) ==
  /\ Len(d) = Len(c) - gap
  /\ \A j \in 1 .. k - 1 : d[j] = c[j]
  /\ d[k] = v
  /\ \A j \in k + 1 .. Len(d) : d[j] = c[j + gap]

\* What is before and after it.
LEMMA BecomesParts ==
  ASSUME NEW S, NEW c \in Seq(S), NEW d \in Seq(S), NEW k \in Int, NEW v,
         NEW gap \in {0, 1}, 1 <= k, k + gap <= Len(c), Becomes(c, d, k, v, gap)
  PROVE  /\ k <= Len(d)
         /\ SubSeq(d, 1, k - 1) = SubSeq(c, 1, k - 1)
         /\ SubSeq(d, 1, k) = Append(SubSeq(c, 1, k - 1), v)
         /\ SubSeq(d, k + 1, Len(d)) = SubSeq(c, k + 1 + gap, Len(c))
<1>1. /\ Len(c) \in Nat /\ Len(d) \in Nat /\ Len(d) = Len(c) - gap /\ gap \in Int
      /\ \A j \in 1 .. k - 1 : d[j] = c[j]
      /\ d[k] = v
      /\ \A j \in k + 1 .. Len(d) : d[j] = c[j + gap]
  BY DEF Becomes
<1>2. SubSeq(d, 1, k - 1) = SubSeq(c, 1, k - 1)
  <2>1. Agree(d, 1, k - 1, c, 1, k - 1)
    BY <1>1 DEF Agree
  <2>. QED BY <1>1, <2>1, SameParts
<1>3. SubSeq(d, k + 1, Len(d)) = SubSeq(c, k + 1 + gap, Len(c))
  <2>0. PICK m \in Int, p \in Int : m = k + 1 /\ p = k + 1 + gap
    BY <1>1
  <2>1. ASSUME NEW i \in 1 .. Len(d) + 1 - m
        PROVE  d[m + i - 1] = c[p + i - 1]
    <3>1. m + i - 1 \in k + 1 .. Len(d)
      BY <1>1, <2>0
    <3>2. (m + i - 1) + gap = p + i - 1
      BY <1>1, <2>0
    <3>. QED BY <1>1, <3>1, <3>2
  <2>2. /\ Len(d) \in Int /\ 1 <= m /\ m <= Len(d) + 1
        /\ Len(c) \in Int /\ 1 <= p
        /\ p <= Len(c) + 1 /\ Agree(d, m, Len(d), c, p, Len(c))
    BY <1>1, <2>0, <2>1 DEF Agree
  <2>3. SubSeq(d, m, Len(d)) = SubSeq(c, p, Len(c))
    <3>0. Len(d) \in Int /\ Len(c) \in Int
      BY <1>1
    <3>1. PICK x \in Int, y \in Int : x = Len(d) /\ y = Len(c)
      BY ONLY <3>0
    <3>2. Agree(d, m, x, c, p, y) /\ x <= Len(d) /\ y <= Len(c)
          /\ 1 <= m /\ m <= x + 1 /\ 1 <= p /\ p <= y + 1
      BY <1>1, <2>2, <3>1
    <3>3. SubSeq(d, m, x) = SubSeq(c, p, y)
      BY ONLY <3>2, SameParts, c \in Seq(S), d \in Seq(S), m \in Int, p \in Int, x \in Int, y \in Int
    <3>. QED BY <3>1, <3>3
  <2>. QED BY <2>0, <2>3
<1>4. SubSeq(d, 1, k) = Append(SubSeq(c, 1, k - 1), v)
  <2>. DEFINE s == SubSeq(d, 1, k)
              p == SubSeq(d, 1, k - 1)
  <2>1. s \in Seq(S) /\ Len(s) = k /\ \A i \in 1 .. k : s[i] = d[i]
    <3>1. /\ s \in Seq(S) /\ Len(s) = k + 1 - 1
          /\ \A i \in 1 .. k + 1 - 1 : s[i] = d[1 + i - 1]
      BY <1>1, PartOf
    <3>. QED BY <1>1, <3>1
  <2>2. p \in Seq(S) /\ Len(p) = k - 1 /\ \A i \in 1 .. k - 1 : p[i] = d[i]
    <3>1. /\ p \in Seq(S) /\ Len(p) = (k - 1) + 1 - 1
          /\ \A i \in 1 .. (k - 1) + 1 - 1 : p[i] = d[1 + i - 1]
      BY <1>1, PartOf
    <3>. QED BY <1>1, <3>1
  <2>3. v \in S
    BY <1>1
  <2>. HIDE DEF s, p
  <2>4. Append(p, v) \in Seq(S) /\ Len(Append(p, v)) = k
        /\ \A i \in 1 .. k : Append(p, v)[i] = IF i = k THEN v ELSE p[i]
    BY <2>2, <2>3
  <2>5. ASSUME NEW i \in 1 .. k PROVE s[i] = Append(p, v)[i]
    <3>1. CASE i = k
      BY <1>1, <2>1, <2>4, <3>1
    <3>2. CASE i # k
      <4>1. i \in 1 .. k - 1
        BY <3>2
      <4>. QED BY <2>1, <2>2, <2>4, <3>2, <4>1
    <3>. QED BY <3>1, <3>2
  <2>6. s = Append(p, v)
    BY <2>1, <2>4, <2>5
  <2>. QED BY <1>2, <2>6 DEF s, p
<1>. QED BY <1>1, <1>2, <1>3, <1>4

\* d is c without the element at k.
Loses(c, d, k) ==
  /\ Len(d) = Len(c) - 1
  /\ \A j \in 1 .. k - 1 : d[j] = c[j]
  /\ \A j \in k .. Len(d) : d[j] = c[j + 1]

\* What is before and after that one.
LEMMA LosesParts ==
  ASSUME NEW S, NEW c \in Seq(S), NEW d \in Seq(S), NEW k \in Int,
         1 <= k, k <= Len(c), Loses(c, d, k)
  PROVE  /\ SubSeq(d, 1, k - 1) = SubSeq(c, 1, k - 1)
         /\ SubSeq(d, k, Len(d)) = SubSeq(c, k + 1, Len(c))
<1>1. /\ Len(c) \in Nat /\ Len(d) \in Nat /\ Len(d) = Len(c) - 1
      /\ \A j \in 1 .. k - 1 : d[j] = c[j]
      /\ \A j \in k .. Len(d) : d[j] = c[j + 1]
  BY DEF Loses
<1>2. SubSeq(d, 1, k - 1) = SubSeq(c, 1, k - 1)
  <2>1. Agree(d, 1, k - 1, c, 1, k - 1)
    BY <1>1 DEF Agree
  <2>. QED BY <1>1, <2>1, SameParts
<1>3. SubSeq(d, k, Len(d)) = SubSeq(c, k + 1, Len(c))
  <2>0. PICK p \in Int : p = k + 1
    OBVIOUS
  <2>1. ASSUME NEW i \in 1 .. Len(d) + 1 - k
        PROVE  d[k + i - 1] = c[p + i - 1]
    <3>1. k + i - 1 \in k .. Len(d)
      BY <1>1
    <3>2. (k + i - 1) + 1 = p + i - 1
      BY <1>1, <2>0
    <3>. QED BY <1>1, <3>1, <3>2
  <2>2. /\ Len(d) \in Int /\ k <= Len(d) + 1
        /\ Len(c) \in Int /\ 1 <= p
        /\ p <= Len(c) + 1 /\ Agree(d, k, Len(d), c, p, Len(c))
    BY <1>1, <2>0, <2>1 DEF Agree
  <2>3. SubSeq(d, k, Len(d)) = SubSeq(c, p, Len(c))
    <3>0. Len(d) \in Int /\ Len(c) \in Int
      BY <1>1
    <3>1. PICK x \in Int, y \in Int : x = Len(d) /\ y = Len(c)
      BY ONLY <3>0
    <3>2. Agree(d, k, x, c, p, y) /\ x <= Len(d) /\ y <= Len(c)
          /\ 1 <= k /\ k <= x + 1 /\ 1 <= p /\ p <= y + 1
      BY <1>1, <2>2, <3>1
    <3>3. SubSeq(d, k, x) = SubSeq(c, p, y)
      BY ONLY <3>2, SameParts, c \in Seq(S), d \in Seq(S), k \in Int, p \in Int, x \in Int, y \in Int
    <3>. QED BY <3>1, <3>3
  <2>. QED BY <2>0, <2>3
<1>. QED BY <1>2, <1>3

-----------------------------------------------------------------------------
(* The operations that the nodes of a sequence hold. *)

Held(f, s) == [i \in DOMAIN s |-> f[s[i]]]

\* Node x, and no other, holds something else in g than in f.
Changed(f, g, x, v) == g[x] = v /\ \A y \in Node : y # x => g[y] = f[y]

LEMMA HeldProperties ==
  ASSUME NEW f, NEW s \in Seq(Node), NEW S, \A x \in Node : f[x] \in S
  PROVE  /\ Held(f, s) \in Seq(S)
         /\ Len(Held(f, s)) = Len(s)
         /\ \A i \in 1 .. Len(s) : Held(f, s)[i] = f[s[i]]
<1>1. \A i \in 1 .. Len(s) : f[s[i]] \in S
  OBVIOUS
<1>2. Held(f, s) = [i \in 1 .. Len(s) |-> f[s[i]]]
  BY DEF Held
<1>. QED BY <1>1, <1>2

\* A node is removed.
LEMMA HeldRemoved ==
  ASSUME NEW f, NEW s \in Seq(Node), Distinct(s), NEW i \in 1 .. Len(s)
  PROVE  /\ Loses(Held(f, s), Held(f, Without(s, i)), i)
         /\ i < Len(s) =>
              Becomes(Held(f, s), Held(f, Without(s, i)), i, Held(f, s)[i + 1], 1)
<1>. DEFINE t == Without(s, i)
            S == {f[x] : x \in Node}
            c == Held(f, s)
            d == Held(f, t)
<1>1. /\ Len(s) \in Nat /\ t \in Seq(Node) /\ Len(t) = Len(s) - 1
      /\ \A j \in 1 .. Len(s) - 1 : t[j] = IF j < i THEN s[j] ELSE s[j + 1]
  BY WithoutProperties
<1>2. \A x \in Node : f[x] \in S
  OBVIOUS
<1>. HIDE DEF S, t
<1>3. Len(c) = Len(s) /\ \A j \in 1 .. Len(s) : c[j] = f[s[j]]
  BY <1>2, HeldProperties
<1>4. Len(d) = Len(t) /\ \A j \in 1 .. Len(t) : d[j] = f[t[j]]
  BY <1>1, <1>2, HeldProperties
<1>. HIDE DEF c, d
<1>5. Len(d) = Len(c) - 1
  BY <1>1, <1>3, <1>4
<1>6. ASSUME NEW j \in 1 .. i - 1 PROVE d[j] = c[j]
  <2>1. j \in 1 .. Len(s) - 1 /\ j \in 1 .. Len(t) /\ j \in 1 .. Len(s) /\ j < i
    BY <1>1
  <2>. QED BY <1>1, <1>3, <1>4, <2>1
<1>7. ASSUME NEW j \in i .. Len(d) PROVE d[j] = c[j + 1]
  <2>1. j \in 1 .. Len(s) - 1 /\ j \in 1 .. Len(t) /\ j + 1 \in 1 .. Len(s) /\ ~(j < i)
    BY <1>1, <1>4
  <2>. QED BY <1>1, <1>3, <1>4, <2>1
<1>8. Loses(c, d, i)
  BY <1>5, <1>6, <1>7 DEF Loses
<1>9. ASSUME i < Len(s) PROVE Becomes(c, d, i, c[i + 1], 1)
  <2>1. i \in i .. Len(d)
    BY <1>1, <1>4, <1>9
  <2>2. d[i] = c[i + 1]
    BY <1>7, <2>1
  <2>3. \A j \in i + 1 .. Len(d) : j \in i .. Len(d)
    BY <1>1, <1>4
  <2>. QED BY <1>5, <1>6, <1>7, <2>2, <2>3 DEF Becomes
<1>. QED BY <1>8, <1>9 DEF c, d, t

\* What one node holds changes.
LEMMA HeldWritten ==
  ASSUME NEW f, NEW g, NEW s \in Seq(Node), Distinct(s), NEW i \in 1 .. Len(s), NEW v,
         Changed(f, g, s[i], v)
  PROVE  Becomes(Held(f, s), Held(g, s), i, v, 0)
<1>. DEFINE S == {f[x] : x \in Node} \cup {g[x] : x \in Node}
            c == Held(f, s)
            d == Held(g, s)
<1>1. Len(s) \in Nat /\ \A j \in 1 .. Len(s) : s[j] \in Node
  OBVIOUS
<1>2. \A x \in Node : f[x] \in S /\ g[x] \in S
  OBVIOUS
<1>. HIDE DEF S
<1>3. Len(c) = Len(s) /\ \A j \in 1 .. Len(s) : c[j] = f[s[j]]
  BY <1>2, HeldProperties
<1>4. Len(d) = Len(s) /\ \A j \in 1 .. Len(s) : d[j] = g[s[j]]
  BY <1>2, HeldProperties
<1>. HIDE DEF c, d
<1>5. \A j \in 1 .. Len(s) : j # i => d[j] = c[j]
  BY <1>1, <1>3, <1>4 DEF Changed, Distinct
<1>6. d[i] = v
  BY <1>4 DEF Changed
<1>7. \A j \in 1 .. i - 1 : d[j] = c[j]
  BY <1>1, <1>5
<1>8. \A j \in i + 1 .. Len(d) : d[j] = c[j + 0]
  BY <1>1, <1>4, <1>5
<1>9. Len(d) = Len(c) - 0
  BY <1>1, <1>3, <1>4
<1>. QED BY <1>6, <1>7, <1>8, <1>9 DEF Becomes, c, d

\* A new node takes the place of one.
LEMMA HeldReplaced ==
  ASSUME NEW f, NEW g, NEW s \in Seq(Node), Distinct(s), NEW i \in 1 .. Len(s), NEW v,
         NEW new \in Node, \A k \in 1 .. Len(s) : s[k] # new, Changed(f, g, new, v)
  PROVE  Becomes(Held(f, s), Held(g, [s EXCEPT ![i] = new]), i, v, 0)
<1>. DEFINE t == [s EXCEPT ![i] = new]
            S == {f[x] : x \in Node} \cup {g[x] : x \in Node}
            c == Held(f, s)
            d == Held(g, t)
<1>1. /\ Len(s) \in Nat /\ \A j \in 1 .. Len(s) : s[j] \in Node
      /\ t \in Seq(Node) /\ Len(t) = Len(s) /\ t[i] = new
      /\ \A j \in 1 .. Len(s) : j # i => t[j] = s[j]
  BY ReplacedProperties
<1>2. \A x \in Node : f[x] \in S /\ g[x] \in S
  OBVIOUS
<1>. HIDE DEF S, t
<1>3. Len(c) = Len(s) /\ \A j \in 1 .. Len(s) : c[j] = f[s[j]]
  BY <1>2, HeldProperties
<1>4. Len(d) = Len(s) /\ \A j \in 1 .. Len(s) : d[j] = g[t[j]]
  <2>1. Len(d) = Len(t) /\ \A j \in 1 .. Len(t) : d[j] = g[t[j]]
    BY <1>1, <1>2, HeldProperties
  <2>. QED BY <1>1, <2>1
<1>. HIDE DEF c, d
<1>5. \A j \in 1 .. Len(s) : j # i => d[j] = c[j]
  BY <1>1, <1>3, <1>4 DEF Changed
<1>6. d[i] = v
  BY <1>1, <1>4 DEF Changed
<1>7. \A j \in 1 .. i - 1 : d[j] = c[j]
  BY <1>1, <1>5
<1>8. \A j \in i + 1 .. Len(d) : d[j] = c[j + 0]
  BY <1>1, <1>4, <1>5
<1>9. Len(d) = Len(c) - 0
  BY <1>1, <1>3, <1>4
<1>. QED BY <1>6, <1>7, <1>8, <1>9 DEF Becomes, c, d, t

\* A new node takes the place of two.
LEMMA HeldMerged ==
  ASSUME NEW f, NEW g, NEW s \in Seq(Node), Distinct(s), NEW i \in 1 .. Len(s) - 1, NEW v,
         NEW new \in Node, \A k \in 1 .. Len(s) : s[k] # new, Changed(f, g, new, v)
  PROVE  Becomes(Held(f, s), Held(g, Without([s EXCEPT ![i] = new], i + 1)), i, v, 1)
<1>. DEFINE t == [s EXCEPT ![i] = new]
            c == Held(f, s)
            e == Held(g, t)
            d == Held(g, Without(t, i + 1))
<1>0. Len(s) \in Nat /\ i \in Int /\ i \in 1 .. Len(s) /\ i + 1 \in 1 .. Len(s)
  OBVIOUS
<1>1. /\ t \in Seq(Node) /\ Len(t) = Len(s) /\ Distinct(t)
  BY <1>0, ReplacedProperties
<1>2. Becomes(c, e, i, v, 0)
  BY <1>0, HeldReplaced
<1>. HIDE DEF t
<1>3. i + 1 \in 1 .. Len(t)
  BY <1>0, <1>1
<1>4. Loses(e, d, i + 1)
  BY <1>1, <1>3, HeldRemoved
<1>5. Len(c) = Len(s)
  <2>. DEFINE S == {f[x] : x \in Node}
  <2>1. \A x \in Node : f[x] \in S
    OBVIOUS
  <2>. HIDE DEF S
  <2>. QED BY <2>1, HeldProperties
<1>. HIDE DEF c, d, e
<1>6. /\ Len(e) = Len(c) - 0 /\ e[i] = v
      /\ \A j \in 1 .. i - 1 : e[j] = c[j]
      /\ \A j \in i + 1 .. Len(e) : e[j] = c[j + 0]
  BY <1>2 DEF Becomes
<1>7. /\ Len(d) = Len(e) - 1
      /\ \A j \in 1 .. (i + 1) - 1 : d[j] = e[j]
      /\ \A j \in i + 1 .. Len(d) : d[j] = e[j + 1]
  BY <1>4 DEF Loses
<1>8. d[i] = v /\ \A j \in 1 .. i - 1 : d[j] = c[j]
  <2>1. i \in 1 .. (i + 1) - 1 /\ \A j \in 1 .. i - 1 : j \in 1 .. (i + 1) - 1
    BY <1>0
  <2>. QED BY <1>6, <1>7, <2>1
<1>9. ASSUME NEW j \in i + 1 .. Len(d) PROVE d[j] = c[j + 1]
  <2>1. j + 1 \in i + 1 .. Len(e) /\ (j + 1) + 0 = j + 1
    BY <1>0, <1>5, <1>6, <1>7
  <2>. QED BY <1>6, <1>7, <2>1
<1>10. Len(d) = Len(c) - 1
  BY <1>0, <1>5, <1>6, <1>7
<1>. QED BY <1>8, <1>9, <1>10 DEF Becomes, c, d, t

\* A new node is the last.
LEMMA HeldAppended ==
  ASSUME NEW f, NEW g, NEW s \in Seq(Node), NEW v,
         NEW new \in Node, \A k \in 1 .. Len(s) : s[k] # new, Changed(f, g, new, v)
  PROVE  Held(g, Append(s, new)) = Append(Held(f, s), v)
<1>. DEFINE t == Append(s, new)
            S == {f[x] : x \in Node} \cup {g[x] : x \in Node}
            c == Held(f, s)
            d == Held(g, t)
            e == Append(c, v)
<1>1. /\ Len(s) \in Nat /\ \A j \in 1 .. Len(s) : s[j] \in Node
      /\ t \in Seq(Node) /\ Len(t) = Len(s) + 1 /\ t[Len(s) + 1] = new
      /\ \A j \in 1 .. Len(s) : t[j] = s[j]
  OBVIOUS
<1>2. (\A x \in Node : f[x] \in S /\ g[x] \in S) /\ v \in S
  BY DEF Changed
<1>. HIDE DEF S, t
<1>3. c \in Seq(S) /\ Len(c) = Len(s) /\ \A j \in 1 .. Len(s) : c[j] = f[s[j]]
  BY <1>2, HeldProperties
<1>4. d \in Seq(S) /\ Len(d) = Len(t) /\ \A j \in 1 .. Len(t) : d[j] = g[t[j]]
  BY <1>1, <1>2, HeldProperties
<1>. HIDE DEF c, d
<1>5. /\ e \in Seq(S) /\ Len(e) = Len(s) + 1 /\ e[Len(s) + 1] = v
      /\ \A j \in 1 .. Len(s) : e[j] = c[j]
  BY <1>2, <1>3
<1>. HIDE DEF e
<1>6. d[Len(s) + 1] = v
  BY <1>1, <1>4 DEF Changed
<1>7. ASSUME NEW j \in 1 .. Len(s) PROVE d[j] = c[j]
  <2>1. j \in 1 .. Len(t) /\ t[j] = s[j] /\ s[j] \in Node /\ s[j] # new
    BY <1>1
  <2>. QED BY <1>3, <1>4, <2>1 DEF Changed
<1>8. \A j \in 1 .. Len(s) + 1 : d[j] = e[j]
  <2>1. \A j \in 1 .. Len(s) + 1 : j = Len(s) + 1 \/ j \in 1 .. Len(s)
    BY <1>1
  <2>. QED BY <1>5, <1>6, <1>7, <2>1
<1>9. d = e
  BY <1>1, <1>4, <1>5, <1>8
<1>. QED BY <1>9 DEF c, d, e, t

-----------------------------------------------------------------------------
(* A turn of a loop takes one step of the fold. *)

\* Finished and Whole, of the pass p.
Fin(p, sum, seen, rest) ==
  CASE p = "reorder" ->
         FoldReorder([ops |-> seen, offset |-> sum], rest).ops
           \o Rest(FoldReorder([ops |-> seen, offset |-> sum], rest).offset)
    [] p = "linear" -> FoldLinear(seen, rest) \o << Clear >>
    [] p = "ops" -> FoldSweep([ops |-> seen, at |-> FALSE], rest).ops

WholeOf(p, ops) ==
  CASE p = "reorder" -> Reordered(ops)
    [] p = "linear" -> MadeLinear(ops)
    [] p = "ops" -> Optimized(ops)

\* What p makes of the operations of c when its loop is at k.
FinAt(p, sum, c, k) == Fin(p, sum, SubSeq(c, 1, k - 1), SubSeq(c, k, Len(c)))

LEMMA BecomesItself ==
  ASSUME NEW S, NEW c \in Seq(S), NEW k \in 1 .. Len(c)
  PROVE  Becomes(c, c, k, c[k], 0)
<1>1. Len(c) \in Nat /\ k \in Int /\ Len(c) = Len(c) - 0
  OBVIOUS
<1>2. \A j \in k + 1 .. Len(c) : j + 0 = j
  BY <1>1
<1>. QED BY <1>1, <1>2 DEF Becomes

LEMMA ReorderTurns ==
  ASSUME NEW S, NEW c \in Seq(S), NEW d \in Seq(S), NEW k \in 1 .. Len(c), NEW sum
  PROVE  /\ Shift(c[k]) /\ Loses(c, d, k) =>
              FinAt("reorder", sum + c[k].arg, d, k) = FinAt("reorder", sum, c, k)
         /\ ~Shift(c[k]) /\ Becomes(c, d, k, Displaced(c[k], sum), 0) =>
              FinAt("reorder", sum, d, k + 1) = FinAt("reorder", sum, c, k)
<1>. DEFINE seen == SubSeq(c, 1, k - 1)
            rest == SubSeq(c, k, Len(c))
            more == SubSeq(c, k + 1, Len(c))
            o == c[k]
            base == [ops |-> seen, offset |-> sum]
<1>1. FoldReorder(base, rest) = FoldReorder(Reorder(base, o), more)
  BY FoldsFirst DEF TakesFirst
<1>2. k \in Int /\ 1 <= k /\ k <= Len(c)
  OBVIOUS
<1>3. ASSUME Shift(o), Loses(c, d, k)
      PROVE  FinAt("reorder", sum + o.arg, d, k) = FinAt("reorder", sum, c, k)
  <2>1. SubSeq(d, 1, k - 1) = seen /\ SubSeq(d, k, Len(d)) = more
    BY <1>2, <1>3, LosesParts
  <2>2. Reorder(base, o) = [ops |-> seen, offset |-> sum + o.arg]
    BY <1>3 DEF Reorder
  <2>. HIDE DEF seen, rest, more, o
  <2>3. Fin("reorder", sum + o.arg, seen, more) = Fin("reorder", sum, seen, rest)
    BY <1>1, <2>2 DEF Fin
  <2>. QED BY <2>1, <2>3 DEF FinAt, seen, rest
<1>4. ASSUME ~Shift(o), Becomes(c, d, k, Displaced(o, sum), 0)
      PROVE  FinAt("reorder", sum, d, k + 1) = FinAt("reorder", sum, c, k)
  <2>. DEFINE v == Displaced(o, sum)
  <2>0. 0 \in {0, 1} /\ k + 0 <= Len(c) /\ k + 1 + 0 = k + 1 /\ (k + 1) - 1 = k
    BY <1>2
  <2>. HIDE DEF v
  <2>1. SubSeq(d, 1, k) = Append(seen, v) /\ SubSeq(d, k + 1, Len(d)) = SubSeq(c, k + 1 + 0, Len(c))
    BY <1>2, <1>4, <2>0, BecomesParts DEF v
  <2>2. Reorder(base, o) = [ops |-> Append(seen, v), offset |-> sum]
    BY <1>4 DEF Reorder, v
  <2>. HIDE DEF seen, rest, more, o
  <2>3. Fin("reorder", sum, Append(seen, v), more) = Fin("reorder", sum, seen, rest)
    BY <1>1, <2>2 DEF Fin
  <2>. QED BY <2>0, <2>1, <2>3 DEF FinAt, seen, rest, more
<1>. QED BY <1>3, <1>4

LEMMA LinearTurns ==
  ASSUME NEW S, NEW c \in Seq(S), NEW d \in Seq(S), NEW k \in 1 .. Len(c), NEW sum
  PROVE  /\ /\ c[k].op = "BF_ADD" /\ c[k].offset # 0
            /\ Becomes(c, d, k, CreateOp("BF_MUL", c[k].arg, c[k].offset), 0)
            => FinAt("linear", sum, d, k + 1) = FinAt("linear", sum, c, k)
         /\ c[k].op = "BF_ADD" /\ c[k].offset = 0 /\ Loses(c, d, k) =>
              FinAt("linear", sum, d, k) = FinAt("linear", sum, c, k)
         /\ c[k].op # "BF_ADD" =>
              FinAt("linear", sum, c, k + 1) = FinAt("linear", sum, c, k)
<1>. DEFINE seen == SubSeq(c, 1, k - 1)
            rest == SubSeq(c, k, Len(c))
            more == SubSeq(c, k + 1, Len(c))
            o == c[k]
<1>1. FoldLinear(seen, rest) = FoldLinear(AddLinear(seen, o), more)
  BY FoldsFirst DEF TakesFirst
<1>2. k \in Int /\ 1 <= k /\ k <= Len(c) /\ k - 1 \in Int /\ Len(c) \in Int
      /\ 1 <= (k - 1) + 1 /\ k - 1 <= Len(c)
  OBVIOUS
<1>3. seen \in Seq(S)
  BY <1>2, PartOf
\* The operation is in the list from now on as v.
<1>4. ASSUME NEW e \in Seq(S), NEW v, Becomes(c, e, k, v, 0), Linear(o) = << v >>
      PROVE  FinAt("linear", sum, e, k + 1) = FinAt("linear", sum, c, k)
  <2>0. 0 \in {0, 1} /\ k + 0 <= Len(c) /\ k + 1 + 0 = k + 1 /\ (k + 1) - 1 = k
    BY <1>2
  <2>1. SubSeq(e, 1, k) = Append(seen, v) /\ SubSeq(e, k + 1, Len(e)) = SubSeq(c, k + 1 + 0, Len(c))
    BY <1>2, <1>4, <2>0, BecomesParts
  <2>. HIDE DEF seen, rest, more, o
  <2>2. AddLinear(seen, o) = Append(seen, v)
    <3>1. v \in S
      BY <1>2, <1>4 DEF Becomes
    <3>2. seen \o << v >> = Append(seen, v)
      BY <1>3, <3>1
    <3>. QED BY <1>4, <3>2 DEF AddLinear
  <2>3. Fin("linear", sum, Append(seen, v), more) = Fin("linear", sum, seen, rest)
    BY <1>1, <2>2 DEF Fin
  <2>. QED BY <2>0, <2>1, <2>3 DEF FinAt, seen, rest, more
<1>5. ASSUME o.op = "BF_ADD", o.offset # 0,
             Becomes(c, d, k, CreateOp("BF_MUL", o.arg, o.offset), 0)
      PROVE  FinAt("linear", sum, d, k + 1) = FinAt("linear", sum, c, k)
  <2>1. Linear(o) = << CreateOp("BF_MUL", o.arg, o.offset) >>
    BY <1>5 DEF Linear
  <2>. QED BY <1>4, <1>5, <2>1
<1>6. ASSUME o.op = "BF_ADD", o.offset = 0, Loses(c, d, k)
      PROVE  FinAt("linear", sum, d, k) = FinAt("linear", sum, c, k)
  <2>1. SubSeq(d, 1, k - 1) = seen /\ SubSeq(d, k, Len(d)) = more
    BY <1>2, <1>6, LosesParts
  <2>2. Linear(o) = << >>
    BY <1>6 DEF Linear
  <2>. HIDE DEF seen, rest, more, o
  <2>3. AddLinear(seen, o) = seen
    BY <1>3, <2>2 DEF AddLinear
  <2>4. Fin("linear", sum, seen, more) = Fin("linear", sum, seen, rest)
    BY <1>1, <2>3 DEF Fin
  <2>. QED BY <2>1, <2>4 DEF FinAt, seen, rest
<1>7. ASSUME o.op # "BF_ADD"
      PROVE  FinAt("linear", sum, c, k + 1) = FinAt("linear", sum, c, k)
  <2>1. Linear(o) = << o >>
    BY <1>7 DEF Linear
  <2>2. Becomes(c, c, k, o, 0)
    BY BecomesItself
  <2>. QED BY <1>4, <2>1, <2>2
<1>. QED BY <1>5, <1>6, <1>7

\* Sums and Lost, of an operation and the one after it.
SumsWith(o, p) ==
  o.op = p.op /\ ((o.op = "BF_ADD" /\ o.offset = p.offset) \/ o.op = "BF_SFT")

LostBefore(o, p) ==
  p.op = "BF_CLEAR" /\ ((o.op = "BF_ADD" /\ o.offset = p.offset) \/ o.op = "BF_CLEAR")

\* Sweep, at its first operation and at the second.
SweepsTo(seen, o, p) ==
  /\ Sweep([ops |-> seen, at |-> FALSE], o) = [ops |-> Append(seen, o), at |-> TRUE]
  /\ SumsWith(o, p) =>
       Sweep([ops |-> Append(seen, o), at |-> TRUE], p) =
         [ops |-> Append(seen, CreateOp(o.op, o.arg + p.arg, o.offset)),
          at |-> o.op = "BF_SFT"]
  /\ LostBefore(o, p) =>
       Sweep([ops |-> Append(seen, o), at |-> TRUE], p) =
         [ops |-> Append(seen, p), at |-> o.op = "BF_CLEAR"]
  /\ ~SumsWith(o, p) /\ ~LostBefore(o, p) =>
       Sweep([ops |-> Append(seen, o), at |-> TRUE], p) =
         [ops |-> Append(Append(seen, o), p), at |-> TRUE]

LEMMA SweepSteps ==
  ASSUME NEW S, NEW seen \in Seq(S), NEW o \in S, NEW p
  PROVE  SweepsTo(seen, o, p)
<1>. DEFINE both == Append(seen, o)
            base == [ops |-> both, at |-> TRUE]
<1>1. Sweep([ops |-> seen, at |-> FALSE], o) = [ops |-> Append(seen, o), at |-> TRUE]
  BY DEF Sweep
<1>2. Last(both) = o /\ Front(both) = seen
  <2>1. both \in Seq(S) /\ Len(both) = Len(seen) + 1 /\ both[Len(both)] = o
    OBVIOUS
  <2>2. SubSeq(both, 1, Len(both) - 1) = seen
    <3>1. \A i \in 1 .. Len(seen) : both[i] = seen[i]
      OBVIOUS
    <3>. DEFINE f == SubSeq(both, 1, Len(both) - 1)
    <3>2. Len(both) - 1 = Len(seen) /\ Len(seen) \in Nat
      BY <2>1
    <3>. HIDE DEF both
    <3>3. f \in Seq(S) /\ Len(f) = Len(seen) /\ \A i \in 1 .. Len(seen) : f[i] = both[i]
      BY <2>1, <3>2
    <3>. HIDE DEF f
    <3>4. f = seen
      BY <3>1, <3>3
    <3>. QED BY <3>4 DEF f
  <2>. QED BY <2>1, <2>2 DEF Last, Front
<1>3. base.ops = both /\ base.at = TRUE
  OBVIOUS
<1>. HIDE DEF both, base
<1>4. ASSUME SumsWith(o, p)
      PROVE  Sweep(base, p) = [ops |-> Append(seen, CreateOp(o.op, o.arg + p.arg, o.offset)),
                               at |-> o.op = "BF_SFT"]
  <2>1. CASE o.op = "BF_ADD"
    <3>1. p.op = "BF_ADD" /\ o.offset = p.offset /\ (o.op = "BF_SFT") = FALSE
      BY <1>4, <2>1 DEF SumsWith
    <3>. QED BY <1>2, <1>3, <2>1, <3>1 DEF Sweep, SameOffset
  <2>2. CASE o.op = "BF_SFT"
    <3>1. p.op = "BF_SFT" /\ (o.op = "BF_SFT") = TRUE
      BY <1>4, <2>2 DEF SumsWith
    <3>. QED BY <1>2, <1>3, <2>2, <3>1 DEF Sweep, SameOffset
  <2>. QED BY <1>4, <2>1, <2>2 DEF SumsWith
<1>5. ASSUME LostBefore(o, p)
      PROVE  Sweep(base, p) = [ops |-> Append(seen, p), at |-> o.op = "BF_CLEAR"]
  <2>1. CASE o.op = "BF_ADD"
    <3>1. p.op = "BF_CLEAR" /\ o.offset = p.offset /\ (o.op = "BF_CLEAR") = FALSE
      BY <1>5, <2>1 DEF LostBefore
    <3>. QED BY <1>2, <1>3, <2>1, <3>1 DEF Sweep, SameOffset
  <2>2. CASE o.op = "BF_CLEAR"
    <3>1. p.op = "BF_CLEAR" /\ (o.op = "BF_CLEAR") = TRUE
      BY <1>5, <2>2 DEF LostBefore
    <3>. QED BY <1>2, <1>3, <2>2, <3>1 DEF Sweep, SameOffset
  <2>. QED BY <1>5, <2>1, <2>2 DEF LostBefore
<1>6. ASSUME ~SumsWith(o, p), ~LostBefore(o, p)
      PROVE  Sweep(base, p) = [ops |-> Append(both, p), at |-> TRUE]
  BY <1>2, <1>3, <1>6 DEF Sweep, SameOffset, SumsWith, LostBefore
<1>. QED BY <1>1, <1>4, <1>5, <1>6 DEF base, both, SweepsTo

LEMMA OpsTurns ==
  ASSUME NEW S, NEW c \in Seq(S), NEW d \in Seq(S), NEW k \in 1 .. Len(c), NEW sum
  PROVE  /\ /\ k < Len(c) /\ SumsWith(c[k], c[k + 1])
            /\ Becomes(c, d, k, CreateOp(c[k].op, c[k].arg + c[k + 1].arg, c[k].offset), 1)
            => /\ c[k].op = "BF_SFT" => FinAt("ops", sum, d, k) = FinAt("ops", sum, c, k)
               /\ c[k].op # "BF_SFT" => FinAt("ops", sum, d, k + 1) = FinAt("ops", sum, c, k)
         /\ k < Len(c) /\ LostBefore(c[k], c[k + 1]) /\ Becomes(c, d, k, c[k + 1], 1)
            => /\ c[k].op = "BF_CLEAR" => FinAt("ops", sum, d, k) = FinAt("ops", sum, c, k)
               /\ c[k].op # "BF_CLEAR" => FinAt("ops", sum, d, k + 1) = FinAt("ops", sum, c, k)
         /\ (k < Len(c) => ~SumsWith(c[k], c[k + 1]) /\ ~LostBefore(c[k], c[k + 1]))
            => FinAt("ops", sum, c, k + 1) = FinAt("ops", sum, c, k)
<1>. DEFINE seen == SubSeq(c, 1, k - 1)
            rest == SubSeq(c, k, Len(c))
            more == SubSeq(c, k + 1, Len(c))
            last == SubSeq(c, k + 1 + 1, Len(c))
            o == c[k]
            p == c[k + 1]
            Turn2(ops, at, list2) == FoldSweep([ops |-> ops, at |-> at], list2).ops
<1>1. k \in Int /\ 1 <= k /\ k <= Len(c) /\ k - 1 \in Int /\ Len(c) \in Int
      /\ 1 <= (k - 1) + 1 /\ k - 1 <= Len(c) /\ o \in S
  OBVIOUS
<1>2. seen \in Seq(S)
  BY <1>1, PartOf
<1>0. SweepsTo(seen, o, p)
  <2>. HIDE DEF seen, o, p
  <2>. QED BY <1>1, <1>2, SweepSteps
<1>3. Turn2(seen, FALSE, rest) = Turn2(Append(seen, o), TRUE, more)
  <2>1. FoldSweep([ops |-> seen, at |-> FALSE], rest) =
          FoldSweep(Sweep([ops |-> seen, at |-> FALSE], o), more)
    BY FoldsFirst DEF TakesFirst
  <2>. HIDE DEF seen, rest, more, o
  <2>. QED BY <1>0, <2>1 DEF SweepsTo
<1>4. ASSUME k < Len(c), NEW at
      PROVE  FoldSweep([ops |-> Append(seen, o), at |-> at], more) =
               FoldSweep(Sweep([ops |-> Append(seen, o), at |-> at], p), last)
  <2>1. k + 1 \in 1 .. Len(c)
    BY <1>1, <1>4
  <2>. QED BY <2>1, FoldsFirst DEF TakesFirst
\* Two operations are one from now on, v, and the loop stays or passes it.
<1>5. ASSUME k < Len(c), NEW v, Becomes(c, d, k, v, 1), NEW stays \in BOOLEAN,
             Sweep([ops |-> Append(seen, o), at |-> TRUE], p) =
               [ops |-> Append(seen, v), at |-> stays]
      PROVE  /\ stays => FinAt("ops", sum, d, k) = FinAt("ops", sum, c, k)
             /\ ~stays => FinAt("ops", sum, d, k + 1) = FinAt("ops", sum, c, k)
  <2>0. 1 \in {0, 1} /\ k + 1 <= Len(c) /\ (k + 1) - 1 = k
    BY <1>1, <1>5
  <2>1. /\ k <= Len(d) /\ SubSeq(d, 1, k - 1) = seen /\ SubSeq(d, 1, k) = Append(seen, v)
        /\ SubSeq(d, k + 1, Len(d)) = last
    BY <1>1, <1>5, <2>0, BecomesParts
  <2>2. d[k] = v /\ v \in S /\ k \in 1 .. Len(d)
    BY <1>1, <1>5, <2>1 DEF Becomes
  <2>3. Turn2(seen, FALSE, rest) = Turn2(Append(seen, v), stays, last)
    BY <1>3, <1>4, <1>5
  <2>4. FinAt("ops", sum, c, k) = Turn2(seen, FALSE, rest)
    BY DEF FinAt, Fin
  <2>. HIDE DEF seen, rest, more, last, o, p
  <2>5. ASSUME stays PROVE FinAt("ops", sum, d, k) = FinAt("ops", sum, c, k)
    <3>1. FoldSweep([ops |-> seen, at |-> FALSE], SubSeq(d, k, Len(d))) =
            FoldSweep(Sweep([ops |-> seen, at |-> FALSE], d[k]), SubSeq(d, k + 1, Len(d)))
      BY <2>2, FoldsFirst DEF TakesFirst
    <3>2. Sweep([ops |-> seen, at |-> FALSE], v) = [ops |-> Append(seen, v), at |-> TRUE]
      <4>1. SweepsTo(seen, v, v)
        BY <1>2, <2>2, SweepSteps
      <4>. QED BY <4>1 DEF SweepsTo
    <3>3. stays = TRUE
      BY <2>5
    <3>4. FinAt("ops", sum, d, k) = Turn2(seen, FALSE, SubSeq(d, k, Len(d)))
      BY <2>1 DEF FinAt, Fin
    <3>. QED BY <2>1, <2>2, <2>3, <2>4, <3>1, <3>2, <3>3, <3>4
  <2>6. ASSUME ~stays PROVE FinAt("ops", sum, d, k + 1) = FinAt("ops", sum, c, k)
    <3>1. stays = FALSE
      BY <2>6
    <3>2. FinAt("ops", sum, d, k + 1) = Turn2(Append(seen, v), FALSE, last)
      BY <2>0, <2>1 DEF FinAt, Fin
    <3>. QED BY <2>3, <2>4, <3>1, <3>2
  <2>. QED BY <2>5, <2>6
<1>6. ASSUME k < Len(c), SumsWith(o, p),
             Becomes(c, d, k, CreateOp(o.op, o.arg + p.arg, o.offset), 1)
      PROVE  /\ o.op = "BF_SFT" => FinAt("ops", sum, d, k) = FinAt("ops", sum, c, k)
             /\ o.op # "BF_SFT" => FinAt("ops", sum, d, k + 1) = FinAt("ops", sum, c, k)
  <2>1. Sweep([ops |-> Append(seen, o), at |-> TRUE], p) =
          [ops |-> Append(seen, CreateOp(o.op, o.arg + p.arg, o.offset)),
           at |-> o.op = "BF_SFT"]
    <3>. HIDE DEF seen, rest, more, last, o, p
    <3>. QED BY <1>0, <1>6 DEF SweepsTo
  <2>2. (o.op = "BF_SFT") \in BOOLEAN
    OBVIOUS
  <2>. HIDE DEF seen, rest, more, last, o, p
  <2>. QED BY <1>5, <1>6, <2>1, <2>2
<1>7. ASSUME k < Len(c), LostBefore(o, p), Becomes(c, d, k, p, 1)
      PROVE  /\ o.op = "BF_CLEAR" => FinAt("ops", sum, d, k) = FinAt("ops", sum, c, k)
             /\ o.op # "BF_CLEAR" => FinAt("ops", sum, d, k + 1) = FinAt("ops", sum, c, k)
  <2>1. Sweep([ops |-> Append(seen, o), at |-> TRUE], p) =
          [ops |-> Append(seen, p), at |-> o.op = "BF_CLEAR"]
    <3>. HIDE DEF seen, rest, more, last, o, p
    <3>. QED BY <1>0, <1>7 DEF SweepsTo
  <2>2. (o.op = "BF_CLEAR") \in BOOLEAN
    OBVIOUS
  <2>. HIDE DEF seen, rest, more, last, o, p
  <2>. QED BY <1>5, <1>7, <2>1, <2>2
<1>8. ASSUME k < Len(c) => ~SumsWith(o, p) /\ ~LostBefore(o, p)
      PROVE  FinAt("ops", sum, c, k + 1) = FinAt("ops", sum, c, k)
  <2>1. Turn2(Append(seen, o), TRUE, more) = Turn2(Append(seen, o), FALSE, more)
    <3>1. CASE k < Len(c)
      <4>0. k + 1 \in 1 .. Len(c) /\ p \in S
        BY <1>1, <3>1
      <4>. HIDE DEF seen, rest, more, last, o, p
      <4>1. Sweep([ops |-> Append(seen, o), at |-> TRUE], p) =
              [ops |-> Append(Append(seen, o), p), at |-> TRUE]
        BY <1>0, <1>8, <3>1 DEF SweepsTo
      <4>2. Append(seen, o) \in Seq(S)
        BY <1>1, <1>2
      <4>3. Sweep([ops |-> Append(seen, o), at |-> FALSE], p) =
              [ops |-> Append(Append(seen, o), p), at |-> TRUE]
        <5>1. SweepsTo(Append(seen, o), p, p)
          BY <4>0, <4>2, SweepSteps
        <5>. QED BY <5>1 DEF SweepsTo
      <4>. QED BY <1>4, <3>1, <4>1, <4>3
    <3>2. CASE ~(k < Len(c))
      <4>1. more = << >>
        BY <1>1, <3>2
      <4>. HIDE DEF seen, rest, more, last, o, p
      <4>2. /\ FoldSweep([ops |-> Append(seen, o), at |-> TRUE], << >>) =
                 [ops |-> Append(seen, o), at |-> TRUE]
            /\ FoldSweep([ops |-> Append(seen, o), at |-> FALSE], << >>) =
                 [ops |-> Append(seen, o), at |-> FALSE]
        BY FoldsEmpty
      <4>. QED BY <4>1, <4>2
    <3>. QED BY <3>1, <3>2
  <2>2. SubSeq(c, 1, k) = Append(seen, o)
    <3>1. Becomes(c, c, k, o, 0) /\ 0 \in {0, 1} /\ k + 0 <= Len(c)
      BY <1>1, BecomesItself
    <3>. QED BY <1>1, <3>1, BecomesParts
  <2>3. FinAt("ops", sum, c, k) = Turn2(seen, FALSE, rest)
    BY DEF FinAt, Fin
  <2>4. FinAt("ops", sum, c, k + 1) = Turn2(Append(seen, o), FALSE, more)
    <3>1. (k + 1) - 1 = k
      BY <1>1
    <3>. HIDE DEF seen, o
    <3>. QED BY <2>2, <3>1 DEF FinAt, Fin
  <2>. QED BY <1>3, <2>1, <2>3, <2>4
<1>. QED BY <1>6, <1>7, <1>8

\* Where the loop starts and where it ends.
LEMMA FinAtStart ==
  ASSUME NEW S, NEW c \in Seq(S), NEW p \in {"reorder", "linear", "ops"}
  PROVE  FinAt(p, 0, c, 1) = WholeOf(p, c)
<1>1. SubSeq(c, 1, 1 - 1) = << >> /\ SubSeq(c, 1, Len(c)) = c
  OBVIOUS
<1>2. FinAt(p, 0, c, 1) = Fin(p, 0, << >>, c)
  BY <1>1 DEF FinAt
<1>3. Reordered(c) = FoldReorder([ops |-> << >>, offset |-> 0], c).ops
                       \o Rest(FoldReorder([ops |-> << >>, offset |-> 0], c).offset)
  BY DEF Reordered, FoldReorder
<1>4. MadeLinear(c) = FoldLinear(<< >>, c) \o << Clear >>
  BY DEF MadeLinear, FoldLinear
<1>5. Optimized(c) = FoldSweep([ops |-> << >>, at |-> FALSE], c).ops
  BY DEF Optimized, FoldSweep
<1>. QED BY <1>2, <1>3, <1>4, <1>5 DEF Fin, WholeOf

LEMMA FinAtEnd ==
  ASSUME NEW S, NEW c \in Seq(S), NEW sum
  PROVE  /\ FinAt("reorder", sum, c, Len(c) + 1) = c \o Rest(sum)
         /\ FinAt("linear", sum, c, Len(c) + 1) = c \o << Clear >>
         /\ FinAt("ops", sum, c, Len(c) + 1) = c
<1>1. /\ (Len(c) + 1) - 1 = Len(c) /\ SubSeq(c, 1, Len(c)) = c
      /\ SubSeq(c, Len(c) + 1, Len(c)) = << >>
  OBVIOUS
<1>2. \A p : FinAt(p, sum, c, Len(c) + 1) = Fin(p, sum, c, << >>)
  BY <1>1 DEF FinAt
<1>3. /\ FoldReorder([ops |-> c, offset |-> sum], << >>) = [ops |-> c, offset |-> sum]
      /\ FoldLinear(c, << >>) = c
      /\ FoldSweep([ops |-> c, at |-> FALSE], << >>) = [ops |-> c, at |-> FALSE]
  BY FoldsEmpty
<1>4. /\ FoldReorder([ops |-> c, offset |-> sum], << >>).ops = c
      /\ FoldReorder([ops |-> c, offset |-> sum], << >>).offset = sum
      /\ FoldSweep([ops |-> c, at |-> FALSE], << >>).ops = c
  BY <1>3
<1>5. Fin("reorder", sum, c, << >>) = c \o Rest(sum)
  BY <1>4 DEF Fin
<1>6. Fin("linear", sum, c, << >>) = c \o << Clear >>
  BY <1>3 DEF Fin
<1>7. Fin("ops", sum, c, << >>) = c
  BY <1>4 DEF Fin
<1>. QED BY <1>2, <1>5, <1>6, <1>7

-----------------------------------------------------------------------------
(***************************************************************************)
(* The invariant: between passes the list holds what the pass made is on   *)
(* sequences; in a pass the loop's pointer is at some place of the list    *)
(* where the rest of the fold leads to that.                               *)
(***************************************************************************)
AtPlace(k) ==
  /\ op = Neighbour(items, k)
  /\ FinAt(pass, offset, Contents, k) = WholeOf(pass, given)

WInv ==
  /\ IInv
  /\ DOMAIN fields = Node
  /\ route \in Seq({"reorder", "linear", "ops"})
  /\ pass \in {"fill", "reorder", "linear", "ops"}
  /\ walking \in BOOLEAN
  /\ pass = "fill" => ~walking
  /\ walking => \E k \in 1 .. Len(items) + 1 : AtPlace(k)
  /\ pass # "fill" /\ ~walking => Contents = WholeOf(pass, given)

LEMMA WInvProperties ==
  ASSUME WInv
  PROVE  /\ list \in List /\ items \in Seq(Node) /\ Distinct(items) /\ Linked(list, items)
         /\ Contents = Held(fields, items)
BY DEF WInv, IInv, TypeOK, Intact, Contents, Held

LEMMA WritesChanges ==
  ASSUME WInv, NEW x \in Node, NEW v, Writes(x, v)
  PROVE  DOMAIN fields' = Node /\ Changed(fields, fields', x, v)
BY DEF WInv, Writes, Changed

\* Contents of one kind before and after a step.
LEMMA ContentsKind ==
  ASSUME items \in Seq(Node), items' \in Seq(Node)
  PROVE  /\ Contents = Held(fields, items) /\ Contents' = Held(fields', items')
         /\ Len(Contents) = Len(items) /\ Len(Contents') = Len(items')
         /\ \E S : Contents \in Seq(S) /\ Contents' \in Seq(S)
<1>. DEFINE S == {fields[x] : x \in Node} \cup {fields'[x] : x \in Node}
<1>1. \A x \in Node : fields[x] \in S /\ fields'[x] \in S
  OBVIOUS
<1>. HIDE DEF S
<1>2. Contents = Held(fields, items) /\ Contents' = Held(fields', items')
  BY DEF Contents, Held
<1>3. Held(fields, items) \in Seq(S) /\ Len(Held(fields, items)) = Len(items)
  BY <1>1, HeldProperties
<1>4. Held(fields', items') \in Seq(S) /\ Len(Held(fields', items')) = Len(items')
  BY <1>1, HeldProperties
<1>. QED BY <1>2, <1>3, <1>4

LEMMA HeldKind ==
  ASSUME items \in Seq(Node)
  PROVE  \E S : Held(fields, items) \in Seq(S)
<1>. DEFINE S == {fields[x] : x \in Node}
<1>1. \A x \in Node : fields[x] \in S
  OBVIOUS
<1>. HIDE DEF S
<1>. QED BY <1>1, HeldProperties

\* What a turn of a loop finds.
OpAt(k) ==
  /\ AtPlace(k)
  /\ op = items[k] /\ op \in Node
  /\ Place(op) = k
  /\ NextOp = Neighbour(items, k + 1)
  /\ Contents[k] = fields[op]

LEMMA AtTurn ==
  ASSUME WInv, walking, op # NULL
  PROVE  \E k \in 1 .. Len(items) : OpAt(k)
<1>1. PICK k \in 1 .. Len(items) + 1 : AtPlace(k)
  BY DEF WInv
<1>2. items \in Seq(Node) /\ Distinct(items) /\ Linked(list, items)
  BY WInvProperties
<1>3. k \in 1 .. Len(items)
  BY <1>1, <1>2 DEF AtPlace, Neighbour
<1>4. op = items[k] /\ op \in Node
  BY <1>1, <1>2, <1>3 DEF AtPlace, Neighbour
<1>5. Place(op) = k
  <2>1. DOMAIN items = 1 .. Len(items)
    BY <1>2
  <2>2. \A i \in DOMAIN items : items[i] = op <=> i = k
    BY <1>2, <1>3, <1>4, <2>1 DEF Distinct
  <2>. QED BY <1>3, <2>1, <2>2 DEF Place
<1>6. NextOp = Neighbour(items, k + 1)
  BY <1>2, <1>3, <1>4 DEF NextOp, Linked
<1>7. Contents[k] = fields[op]
  BY <1>2, <1>3, <1>4 DEF Contents
<1>. QED BY <1>1, <1>3, <1>4, <1>5, <1>6, <1>7 DEF OpAt

\* A turn after which the fold still leads where it has to.
LEMMA StillWalking ==
  ASSUME WInv, walking, IInv', DOMAIN fields' = Node,
         UNCHANGED <<given, route, pass, walking>>,
         NEW k \in 1 .. Len(items') + 1, op' = Neighbour(items', k),
         FinAt(pass, offset', Contents', k) = WholeOf(pass, given)
  PROVE  WInv'
<1>1. AtPlace(k)'
  BY DEF AtPlace
<1>2. /\ route' \in Seq({"reorder", "linear", "ops"})
      /\ pass' \in {"fill", "reorder", "linear", "ops"} /\ walking' = TRUE
      /\ pass' # "fill"
  BY DEF WInv
<1>. QED BY <1>1, <1>2 DEF WInv

\* A step that leaves the list alone leaves it as it is.
LEMMA ListStays ==
  ASSUME IInv, UNCHANGED <<list, items>>
  PROVE  IInv'
BY DEF IInv, TypeOK, Intact

LEMMA InitWInv == WalkInit => WInv
<1>. SUFFICES ASSUME WalkInit PROVE WInv
  OBVIOUS
<1>1. IInv
  BY InitIInv DEF WalkInit
<1>2. DOMAIN fields = Node
  BY DEF WalkInit
<1>3. route \in Seq({"reorder", "linear", "ops"})
  BY COpWalkAssumption DEF WalkInit
<1>. QED BY <1>1, <1>2, <1>3 DEF WInv, WalkInit

-----------------------------------------------------------------------------
(* The steps of the loops. *)

LEMMA FillStep == ASSUME WInv, Fill PROVE WInv'
<1>1. PICK x \in Node : AppendOp(x) /\ Writes(x, given[Len(items) + 1])
  BY DEF Fill
<1>2. IInv'
  BY <1>1, AppendOpStep DEF WInv
<1>3. DOMAIN fields' = Node
  BY <1>1, WritesChanges
<1>4. UNCHANGED <<given, route, pass, walking>> /\ pass = "fill" /\ walking = FALSE
  BY DEF Fill, WInv
<1>. QED BY <1>2, <1>3, <1>4 DEF WInv

LEMMA StartsStep == ASSUME WInv, Starts PROVE WInv'
<1>1. /\ IInv' /\ UNCHANGED <<list, items, fields>>
  BY ListStays DEF Starts, WInv
<1>2. /\ route' \in Seq({"reorder", "linear", "ops"})
      /\ pass' \in {"reorder", "linear", "ops"}
  BY DEF Starts, WInv
<1>3. walking' = TRUE /\ given' = Contents /\ offset' = 0 /\ op' = list.first
  BY DEF Starts
<1>4. items \in Seq(Node) /\ Linked(list, items)
  BY WInvProperties
<1>5. PICK S : Contents \in Seq(S)
  BY <1>1, <1>4, ContentsKind
<1>6. Contents' = Contents
  BY <1>1 DEF Contents
<1>7. FinAt(pass', offset', Contents', 1) = WholeOf(pass', given')
  BY <1>2, <1>3, <1>5, <1>6, FinAtStart
<1>8. op' = Neighbour(items', 1) /\ 1 \in 1 .. Len(items') + 1
  BY <1>1, <1>3, <1>4 DEF Linked
<1>9. AtPlace(1)'
  BY <1>7, <1>8 DEF AtPlace
<1>. QED BY <1>1, <1>2, <1>3, <1>8, <1>9 DEF WInv

LEMMA ReorderTurnStep == ASSUME WInv, ReorderTurn PROVE WInv'
<1>1. /\ pass = "reorder" /\ walking /\ op # NULL
      /\ UNCHANGED <<given, route, pass, walking>> /\ op' = NextOp
  BY DEF ReorderTurn, Turn
<1>2. PICK k \in 1 .. Len(items) : OpAt(k)
  BY <1>1, AtTurn
<1>3. /\ items \in Seq(Node) /\ Distinct(items) /\ Len(items) \in Nat /\ k \in Int
      /\ IInv /\ DOMAIN fields = Node
  BY WInvProperties DEF WInv
<1>4. /\ op = items[k] /\ op \in Node /\ Place(op) = k
      /\ op' = Neighbour(items, k + 1) /\ Contents[k] = fields[op]
      /\ FinAt("reorder", offset, Contents, k) = WholeOf(pass, given)
  BY <1>1, <1>2 DEF OpAt, AtPlace
<1>5. CASE Shift(fields[op]) /\ offset' = offset + fields[op].arg /\ RemoveOp(Place(op))
           /\ UNCHANGED fields
  <2>1. IInv' /\ items' = Without(items, k)
    BY <1>3, <1>4, <1>5, RemoveOpStep DEF RemoveOp
  <2>2. items' \in Seq(Node) /\ Len(items') = Len(items) - 1
    BY <1>3, <2>1, WithoutProperties
  <2>3. PICK S : Contents \in Seq(S) /\ Contents' \in Seq(S)
    BY <1>3, <2>2, ContentsKind
  <2>4. Loses(Contents, Contents', k) /\ k \in 1 .. Len(Contents)
    <3>1. /\ Contents = Held(fields, items) /\ Contents' = Held(fields', items')
          /\ Len(Contents) = Len(items)
      BY <1>3, <2>2, ContentsKind
    <3>. QED BY <1>3, <1>5, <2>1, <3>1, HeldRemoved
  <2>5. FinAt("reorder", offset', Contents', k) = FinAt("reorder", offset, Contents, k)
    BY <1>4, <1>5, <2>3, <2>4, ReorderTurns
  <2>6. op' = Neighbour(items', k)
    <3>1. Old(k, k) = k + 1 /\ k \in 0 .. Len(items)
      BY <1>3 DEF Old
    <3>. QED BY <1>3, <1>4, <2>1, <3>1, NeighbourWithout
  <2>7. k \in 1 .. Len(items') + 1
    BY <1>3, <2>2
  <2>. QED BY <1>1, <1>3, <1>4, <1>5, <2>1, <2>5, <2>6, <2>7, StillWalking
<1>6. CASE ~Shift(fields[op]) /\ Writes(op, Displaced(fields[op], offset))
           /\ UNCHANGED <<list, items, offset>>
  <2>1. IInv' /\ items' = items /\ items' \in Seq(Node)
    BY <1>3, <1>6, ListStays
  <2>2. DOMAIN fields' = Node /\ Changed(fields, fields', op, Displaced(fields[op], offset))
    BY <1>4, <1>6, WritesChanges
  <2>3. PICK S : Contents \in Seq(S) /\ Contents' \in Seq(S)
    BY <1>3, <2>1, ContentsKind
  <2>4. Becomes(Contents, Contents', k, Displaced(Contents[k], offset), 0)
        /\ k \in 1 .. Len(Contents)
    <3>1. /\ Contents = Held(fields, items) /\ Contents' = Held(fields', items')
          /\ Len(Contents) = Len(items)
      BY <1>3, <2>1, ContentsKind
    <3>2. Becomes(Held(fields, items), Held(fields', items), k, Displaced(fields[op], offset), 0)
      BY <1>3, <1>4, <2>2, HeldWritten
    <3>. QED BY <1>3, <1>4, <2>1, <3>1, <3>2
  <2>5. FinAt("reorder", offset, Contents', k + 1) = FinAt("reorder", offset, Contents, k)
    BY <1>4, <1>6, <2>3, <2>4, ReorderTurns
  <2>6. op' = Neighbour(items', k + 1) /\ k + 1 \in 1 .. Len(items') + 1
    BY <1>3, <1>4, <2>1
  <2>. QED BY <1>1, <1>4, <1>6, <2>1, <2>2, <2>5, <2>6, StillWalking
<1>. QED BY <1>5, <1>6 DEF ReorderTurn

LEMMA LinearTurnStep == ASSUME WInv, LinearTurn PROVE WInv'
<1>1. /\ pass = "linear" /\ walking /\ op # NULL /\ UNCHANGED offset
      /\ UNCHANGED <<given, route, pass, walking>> /\ op' = NextOp
  BY DEF LinearTurn, Turn
<1>2. PICK k \in 1 .. Len(items) : OpAt(k)
  BY <1>1, AtTurn
<1>3. /\ items \in Seq(Node) /\ Distinct(items) /\ Len(items) \in Nat /\ k \in Int
      /\ IInv /\ DOMAIN fields = Node
  BY WInvProperties DEF WInv
<1>4. /\ op = items[k] /\ op \in Node /\ Place(op) = k
      /\ op' = Neighbour(items, k + 1) /\ Contents[k] = fields[op]
      /\ FinAt("linear", offset, Contents, k) = WholeOf(pass, given)
  BY <1>1, <1>2 DEF OpAt, AtPlace
<1>. DEFINE o == fields[op]
            mul == CreateOp("BF_MUL", o.arg, o.offset)
<1>5. ASSUME o.op = "BF_ADD", o.offset # 0, NEW new \in Node,
             ReplaceOp(Place(op), new), Writes(new, mul)
      PROVE  WInv'
  <2>1. IInv' /\ items' = [items EXCEPT ![k] = new] /\ \A i \in 1 .. Len(items) : items[i] # new
    BY <1>3, <1>4, <1>5, ReplaceOpStep DEF ReplaceOp, Free
  <2>2. /\ items' \in Seq(Node) /\ Len(items') = Len(items)
        /\ Neighbour(items', k + 1) = Neighbour(items, k + 1)
    <3>. DEFINE t == [items EXCEPT ![k] = new]
    <3>0. \A i \in 1 .. Len(items) : items[i] # new
      BY <2>1
    <3>1. t \in Seq(Node) /\ Len(t) = Len(items)
      BY <1>3, <3>0, ReplacedProperties
    <3>4. \A j \in Int : Neighbour(t, j) = IF j = k THEN new ELSE Neighbour(items, j)
      BY <1>3, <3>0, ReplacedProperties
    <3>2. items' = t
      BY <2>1
    <3>. HIDE DEF t
    <3>3. k + 1 \in Int /\ k + 1 # k
      BY <1>3
    <3>. QED BY <3>1, <3>2, <3>3, <3>4
  <2>. HIDE DEF o, mul
  <2>3. DOMAIN fields' = Node /\ Changed(fields, fields', new, mul)
    BY <1>5, WritesChanges
  <2>4. PICK S : Contents \in Seq(S) /\ Contents' \in Seq(S)
    BY <1>3, <2>2, ContentsKind
  <2>5. Becomes(Contents, Contents', k, mul, 0) /\ k \in 1 .. Len(Contents)
    <3>1. /\ Contents = Held(fields, items) /\ Contents' = Held(fields', items')
          /\ Len(Contents) = Len(items)
      BY <1>3, <2>2, ContentsKind
    <3>2. Becomes(Held(fields, items), Held(fields', [items EXCEPT ![k] = new]), k, mul, 0)
      BY <1>3, <2>1, <2>3, HeldReplaced
    <3>. QED BY <1>3, <2>1, <3>1, <3>2
  <2>6. FinAt("linear", offset, Contents', k + 1) = FinAt("linear", offset, Contents, k)
    BY <1>4, <1>5, <2>4, <2>5, LinearTurns DEF o, mul
  <2>7. op' = Neighbour(items', k + 1) /\ k + 1 \in 1 .. Len(items') + 1
    BY <1>3, <1>4, <2>2
  <2>. QED BY <1>1, <1>4, <2>1, <2>3, <2>6, <2>7, StillWalking
<1>6. ASSUME o.op = "BF_ADD", o.offset = 0, RemoveOp(Place(op)), UNCHANGED fields
      PROVE  WInv'
  <2>1. IInv' /\ items' = Without(items, k)
    BY <1>3, <1>4, <1>6, RemoveOpStep DEF RemoveOp
  <2>2. items' \in Seq(Node) /\ Len(items') = Len(items) - 1
    BY <1>3, <2>1, WithoutProperties
  <2>3. PICK S : Contents \in Seq(S) /\ Contents' \in Seq(S)
    BY <1>3, <2>2, ContentsKind
  <2>4. Loses(Contents, Contents', k) /\ k \in 1 .. Len(Contents)
    <3>1. /\ Contents = Held(fields, items) /\ Contents' = Held(fields', items')
          /\ Len(Contents) = Len(items)
      BY <1>3, <2>2, ContentsKind
    <3>. QED BY <1>3, <1>6, <2>1, <3>1, HeldRemoved
  <2>5. FinAt("linear", offset, Contents', k) = FinAt("linear", offset, Contents, k)
    BY <1>4, <1>6, <2>3, <2>4, LinearTurns
  <2>6. op' = Neighbour(items', k)
    <3>1. Old(k, k) = k + 1 /\ k \in 0 .. Len(items)
      BY <1>3 DEF Old
    <3>. QED BY <1>3, <1>4, <2>1, <3>1, NeighbourWithout
  <2>7. k \in 1 .. Len(items') + 1
    BY <1>3, <2>2
  <2>. HIDE DEF o
  <2>. QED BY <1>1, <1>3, <1>4, <1>6, <2>1, <2>5, <2>6, <2>7, StillWalking
<1>7. ASSUME o.op # "BF_ADD", UNCHANGED <<list, items, fields>>
      PROVE  WInv'
  <2>1. IInv' /\ Contents' = Contents
    BY <1>3, <1>7, ListStays DEF Contents
  <2>2. PICK S : Contents \in Seq(S)
    BY <1>3, <1>7, ContentsKind
  <2>3. Len(Contents) = Len(items)
    BY <1>3, <1>7, ContentsKind
  <2>4. FinAt("linear", offset, Contents, k + 1) = FinAt("linear", offset, Contents, k)
    BY <1>4, <1>7, <2>2, <2>3, LinearTurns
  <2>5. op' = Neighbour(items', k + 1) /\ k + 1 \in 1 .. Len(items') + 1
    BY <1>3, <1>4, <1>7
  <2>. HIDE DEF o
  <2>. QED BY <1>1, <1>3, <1>4, <1>7, <2>1, <2>4, <2>5, StillWalking
<1>. QED BY <1>5, <1>6, <1>7 DEF LinearTurn

\* The pointer after a sum: the operation after new, unless it is a shift.
LEMMA OpsTurnStep == ASSUME WInv, OpsTurn PROVE WInv'
<1>1. /\ pass = "ops" /\ walking /\ op # NULL /\ UNCHANGED offset
      /\ UNCHANGED <<given, route, pass, walking>>
  BY DEF OpsTurn, Turn
<1>2. PICK k \in 1 .. Len(items) : OpAt(k)
  BY <1>1, AtTurn
<1>3. /\ items \in Seq(Node) /\ Distinct(items) /\ Len(items) \in Nat /\ k \in Int
      /\ IInv /\ DOMAIN fields = Node
  BY WInvProperties DEF WInv
<1>4. /\ op = items[k] /\ op \in Node /\ Place(op) = k
      /\ NextOp = Neighbour(items, k + 1) /\ Contents[k] = fields[op]
      /\ FinAt("ops", offset, Contents, k) = WholeOf(pass, given)
  BY <1>1, <1>2 DEF OpAt, AtPlace
<1>. DEFINE o == fields[op]
            next == NextOp
            p == fields[next]
            sum == CreateOp(o.op, o.arg + p.arg, o.offset)
\* There is a successor, and the next step of the fold takes it.
<1>5. ASSUME next # NULL
      PROVE  /\ k \in 1 .. Len(items) - 1 /\ next = items[k + 1] /\ next \in Node
             /\ k < Len(Contents) /\ k \in 1 .. Len(Contents) /\ Contents[k + 1] = p
  <2>1. k + 1 \in 1 .. Len(items) /\ next = items[k + 1]
    BY <1>3, <1>4, <1>5 DEF Neighbour
  <2>2. Len(Contents) = Len(items)
    BY <1>3 DEF Contents
  <2>3. Contents[k + 1] = p
    BY <1>3, <2>1 DEF Contents
  <2>. HIDE DEF next, p
  <2>. QED BY <1>3, <2>1, <2>2, <2>3
<1>6. ASSUME Sums(o, next), NEW new \in Node, MergeOps(Place(op), new), Writes(new, sum),
             op' = AfterSum(list', new, o.op)
      PROVE  WInv'
  <2>0. next # NULL /\ SumsWith(o, p)
    BY <1>6 DEF Sums, SumsWith
  <2>1. /\ k \in 1 .. Len(items) - 1 /\ next = items[k + 1]
        /\ k < Len(Contents) /\ k \in 1 .. Len(Contents) /\ Contents[k + 1] = p
    BY <1>5, <2>0
  <2>. HIDE DEF o, next, p, sum
  <2>2. MergeOps(k, new)
    BY <1>4, <1>6
  <2>3. /\ IInv' /\ items' = Without([items EXCEPT ![k] = new], k + 1)
        /\ \A i \in 1 .. Len(items) : items[i] # new
    BY <1>3, <2>1, <2>2, MergeOpsStep DEF MergeOps, Free
  <2>4. items' \in Seq(Node) /\ Len(items') = Len(items) - 1 /\ items'[k] = new
        /\ Linked(list', items') /\ list' \in List
    <3>. DEFINE t == [items EXCEPT ![k] = new]
    <3>0. k \in 1 .. Len(items)
      BY <1>3, <2>1
    <3>1. t \in Seq(Node) /\ Len(t) = Len(items) /\ Distinct(t) /\ t[k] = new
      BY <1>3, <2>3, <3>0, ReplacedProperties
    <3>2. items' = Without(t, k + 1)
      BY <2>3
    <3>. HIDE DEF t
    <3>3. k + 1 \in 1 .. Len(t)
      BY <1>3, <2>1, <3>1
    <3>4. /\ Len(Without(t, k + 1)) = Len(t) - 1 /\ Without(t, k + 1) \in Seq(Node)
          /\ \A j \in 1 .. Len(t) - 1 :
               Without(t, k + 1)[j] = IF j < k + 1 THEN t[j] ELSE t[j + 1]
      BY <3>1, <3>3, WithoutProperties
    <3>5. k \in 1 .. Len(t) - 1 /\ k < k + 1
      BY <1>3, <2>1, <3>1
    <3>6. Linked(list', items') /\ list' \in List
      BY <2>3 DEF IInv, TypeOK, Intact
    <3>. QED BY <3>1, <3>2, <3>4, <3>5, <3>6
  <2>5. DOMAIN fields' = Node /\ Changed(fields, fields', new, sum)
    BY <1>6, WritesChanges
  <2>6. PICK S : Contents \in Seq(S) /\ Contents' \in Seq(S)
    BY <1>3, <2>4, ContentsKind
  <2>7. Becomes(Contents, Contents', k, sum, 1)
    <3>1. /\ Contents = Held(fields, items) /\ Contents' = Held(fields', items')
      BY <1>3, <2>4, ContentsKind
    <3>2. Becomes(Held(fields, items),
                  Held(fields', Without([items EXCEPT ![k] = new], k + 1)), k, sum, 1)
      BY <1>3, <2>1, <2>3, <2>5, HeldMerged
    <3>. QED BY <2>3, <3>1, <3>2
  <2>8. /\ o.op = "BF_SFT" => FinAt("ops", offset, Contents', k) = FinAt("ops", offset, Contents, k)
        /\ o.op # "BF_SFT" =>
             FinAt("ops", offset, Contents', k + 1) = FinAt("ops", offset, Contents, k)
    BY <1>4, <2>0, <2>1, <2>6, <2>7, OpsTurns DEF o, sum
  <2>9. k \in 1 .. Len(items') /\ k \in 1 .. Len(items') + 1 /\ k + 1 \in 1 .. Len(items') + 1
    BY <1>3, <2>1, <2>4
  <2>10. list'.next[new] = Neighbour(items', k + 1) /\ new = Neighbour(items', k)
    BY <2>4, <2>9 DEF Linked, Neighbour
  <2>11. CASE o.op = "BF_SFT"
    <3>1. op' = Neighbour(items', k)
      BY <1>6, <2>10, <2>11 DEF AfterSum
    <3>. QED BY <1>1, <1>4, <2>3, <2>5, <2>8, <2>9, <2>11, <3>1, StillWalking
  <2>12. CASE o.op # "BF_SFT"
    <3>1. op' = Neighbour(items', k + 1)
      BY <1>6, <2>10, <2>12 DEF AfterSum
    <3>. QED BY <1>1, <1>4, <2>3, <2>5, <2>8, <2>9, <2>12, <3>1, StillWalking
  <2>. QED BY <2>11, <2>12
<1>7. ASSUME Lost(o, next), RemoveOp(Place(op)), UNCHANGED fields,
             op' = IF o.op = "BF_ADD" THEN list'.next[next] ELSE next
      PROVE  WInv'
  <2>0. next # NULL /\ LostBefore(o, p)
    BY <1>7 DEF Lost, LostBefore
  <2>1. /\ k \in 1 .. Len(items) - 1 /\ next = items[k + 1]
        /\ k < Len(Contents) /\ k \in 1 .. Len(Contents) /\ Contents[k + 1] = p
    BY <1>5, <2>0
  <2>. HIDE DEF o, next, p, sum
  <2>2. IInv' /\ items' = Without(items, k)
    BY <1>3, <1>4, <1>7, RemoveOpStep DEF RemoveOp
  <2>3. /\ items' \in Seq(Node) /\ Len(items') = Len(items) - 1 /\ items'[k] = next
        /\ Linked(list', items')
    <3>1. /\ items' \in Seq(Node) /\ Len(items') = Len(items) - 1
          /\ \A j \in 1 .. Len(items) - 1 :
               items'[j] = IF j < k THEN items[j] ELSE items[j + 1]
      BY <1>3, <2>2, WithoutProperties
    <3>2. Linked(list', items')
      BY <2>2 DEF IInv, Intact
    <3>. QED BY <1>3, <2>1, <3>1, <3>2
  <2>4. PICK S : Contents \in Seq(S) /\ Contents' \in Seq(S)
    BY <1>3, <2>3, ContentsKind
  <2>5. Becomes(Contents, Contents', k, p, 1)
    <3>1. /\ Contents = Held(fields, items) /\ Contents' = Held(fields', items')
      BY <1>3, <2>3, ContentsKind
    <3>2. k < Len(items)
      BY <1>3, <2>1
    <3>3. Becomes(Held(fields, items), Held(fields, Without(items, k)), k,
                  Held(fields, items)[k + 1], 1)
      BY <1>3, <3>2, HeldRemoved
    <3>. QED BY <1>7, <2>1, <2>2, <3>1, <3>3
  <2>6. /\ o.op = "BF_CLEAR" =>
             FinAt("ops", offset, Contents', k) = FinAt("ops", offset, Contents, k)
        /\ o.op # "BF_CLEAR" =>
             FinAt("ops", offset, Contents', k + 1) = FinAt("ops", offset, Contents, k)
    BY <1>4, <2>0, <2>1, <2>4, <2>5, OpsTurns DEF o
  <2>7. k \in 1 .. Len(items') /\ k \in 1 .. Len(items') + 1 /\ k + 1 \in 1 .. Len(items') + 1
    BY <1>3, <2>1, <2>3
  <2>8. list'.next[next] = Neighbour(items', k + 1) /\ next = Neighbour(items', k)
    BY <2>3, <2>7 DEF Linked, Neighbour
  <2>9. DOMAIN fields' = Node
    BY <1>3, <1>7
  <2>10. CASE o.op = "BF_CLEAR"
    <3>1. op' = Neighbour(items', k)
      BY <1>7, <2>8, <2>10
    <3>. QED BY <1>1, <1>4, <2>2, <2>6, <2>7, <2>9, <2>10, <3>1, StillWalking
  <2>11. CASE o.op = "BF_ADD"
    <3>1. op' = Neighbour(items', k + 1)
      BY <1>7, <2>8, <2>11
    <3>. QED BY <1>1, <1>4, <2>2, <2>6, <2>7, <2>9, <2>11, <3>1, StillWalking
  <2>. QED BY <2>0, <2>10, <2>11 DEF LostBefore
<1>8. ASSUME ~Sums(o, next), ~Lost(o, next), op' = next, UNCHANGED <<list, items, fields>>
      PROVE  WInv'
  <2>1. IInv' /\ Contents' = Contents
    BY <1>3, <1>8, ListStays DEF Contents
  <2>2. PICK S : Contents \in Seq(S)
    BY <1>3, <1>8, ContentsKind
  <2>3. Len(Contents) = Len(items)
    BY <1>3, <1>8, ContentsKind
  <2>4. k < Len(Contents) => /\ ~SumsWith(Contents[k], Contents[k + 1])
                             /\ ~LostBefore(Contents[k], Contents[k + 1])
    <3>. SUFFICES ASSUME k < Len(Contents)
                  PROVE  /\ ~SumsWith(Contents[k], Contents[k + 1])
                         /\ ~LostBefore(Contents[k], Contents[k + 1])
      OBVIOUS
    <3>1. next # NULL
      BY <1>3, <1>4, <2>3, BfListAssumption DEF Neighbour
    <3>2. Contents[k + 1] = p
      BY <1>5, <3>1
    <3>. QED BY <1>4, <1>8, <3>1, <3>2 DEF Sums, Lost, SumsWith, LostBefore
  <2>5. FinAt("ops", offset, Contents, k + 1) = FinAt("ops", offset, Contents, k)
    <3>1. k \in 1 .. Len(Contents)
      BY <2>3
    <3>. QED BY <2>2, <2>4, <3>1, OpsTurns
  <2>6. op' = Neighbour(items', k + 1) /\ k + 1 \in 1 .. Len(items') + 1
    BY <1>3, <1>4, <1>8
  <2>. HIDE DEF o, next, p
  <2>. QED BY <1>1, <1>3, <1>4, <1>8, <2>1, <2>5, <2>6, StillWalking
<1>. QED BY <1>6, <1>7, <1>8 DEF OpsTurn

\* Past the end of the list the fold is over.
LEMMA AtTheEnd ==
  ASSUME WInv, walking, op = NULL
  PROVE  FinAt(pass, offset, Contents, Len(Contents) + 1) = WholeOf(pass, given)
<1>1. PICK k \in 1 .. Len(items) + 1 : AtPlace(k)
  BY DEF WInv
<1>2. items \in Seq(Node)
  BY WInvProperties
<1>3. Len(Contents) = Len(items)
  BY <1>2 DEF Contents
<1>4. k = Len(items) + 1
  BY <1>1, <1>2, BfListAssumption DEF AtPlace, Neighbour
<1>. QED BY <1>1, <1>3, <1>4 DEF AtPlace

\* A pass appends a last operation.
LEMMA LastAppended ==
  ASSUME WInv, NEW x \in Node, NEW v, AppendOp(x), Writes(x, v)
  PROVE  IInv' /\ DOMAIN fields' = Node /\ Contents' = Contents \o << v >>
<1>1. IInv' /\ DOMAIN fields' = Node /\ Changed(fields, fields', x, v)
  BY AppendOpStep, WritesChanges DEF WInv
<1>2. items \in Seq(Node) /\ items' = Append(items, x) /\ \A i \in 1 .. Len(items) : items[i] # x
  BY WInvProperties DEF AppendOp, Free
<1>3. items' \in Seq(Node)
  BY <1>2
<1>4. /\ Contents = Held(fields, items) /\ Contents' = Held(fields', items')
  BY <1>2, <1>3, ContentsKind
<1>5. Contents' = Append(Contents, v)
  <2>1. \A i \in 1 .. Len(items) : items[i] # x
    BY <1>2
  <2>2. Held(fields', Append(items, x)) = Append(Held(fields, items), v)
    <3>1. Changed(fields, fields', x, v) /\ items \in Seq(Node) /\ x \in Node
      BY <1>1, <1>2
    <3>. QED BY ONLY <2>1, <3>1, HeldAppended
  <2>. QED BY <1>2, <1>4, <2>2
<1>6. Append(Contents, v) = Contents \o << v >>
  <2>1. PICK S : Contents \in Seq(S)
    BY <1>2, <1>3, ContentsKind
  <2>2. Contents \in Seq(S \cup {v})
    BY <2>1
  <2>. QED BY <2>2
<1>. QED BY <1>1, <1>5, <1>6

\* A pass is over.
LEMMA PassOver ==
  ASSUME WInv, IInv', DOMAIN fields' = Node, UNCHANGED <<given, route, pass>>,
         pass # "fill", walking' = FALSE, Contents' = WholeOf(pass, given)
  PROVE  WInv'
BY DEF WInv

LEMMA ReorderEndsStep == ASSUME WInv, ReorderEnds PROVE WInv'
<1>1. /\ pass = "reorder" /\ walking /\ op = NULL /\ walking' = FALSE
      /\ UNCHANGED <<given, route, pass>>
  BY DEF ReorderEnds, Ends
<1>2. FinAt("reorder", offset, Contents, Len(Contents) + 1) = WholeOf(pass, given)
  BY <1>1, AtTheEnd
<1>3. PICK S : Contents \in Seq(S)
  BY WInvProperties, HeldKind
<1>4. WholeOf(pass, given) = Contents \o Rest(offset)
  BY <1>2, <1>3, FinAtEnd
<1>5. CASE offset = 0 /\ UNCHANGED <<list, items, fields>>
  <2>1. IInv' /\ Contents' = Contents /\ DOMAIN fields' = Node
    BY <1>5, ListStays DEF Contents, WInv
  <2>2. Contents \o << >> = Contents
    BY <1>3
  <2>. QED BY <1>1, <1>4, <1>5, <2>1, <2>2, PassOver DEF Rest
<1>6. CASE offset # 0 /\ \E x \in Node : AppendOp(x) /\ Writes(x, CreateOp("BF_SFT", offset, 0))
  <2>1. IInv' /\ DOMAIN fields' = Node
        /\ Contents' = Contents \o << CreateOp("BF_SFT", offset, 0) >>
    BY <1>6, LastAppended
  <2>. QED BY <1>1, <1>4, <1>6, <2>1, PassOver DEF Rest
<1>. QED BY <1>5, <1>6 DEF ReorderEnds

LEMMA LinearEndsStep == ASSUME WInv, LinearEnds PROVE WInv'
<1>1. /\ pass = "linear" /\ walking /\ op = NULL /\ walking' = FALSE
      /\ UNCHANGED <<given, route, pass>>
  BY DEF LinearEnds, Ends
<1>2. FinAt("linear", offset, Contents, Len(Contents) + 1) = WholeOf(pass, given)
  BY <1>1, AtTheEnd
<1>3. PICK S : Contents \in Seq(S)
  BY WInvProperties, HeldKind
<1>4. WholeOf(pass, given) = Contents \o << Clear >>
  BY <1>2, <1>3, FinAtEnd
<1>5. IInv' /\ DOMAIN fields' = Node /\ Contents' = Contents \o << Clear >>
  BY LastAppended DEF LinearEnds
<1>. QED BY <1>1, <1>4, <1>5, PassOver

LEMMA OpsEndsStep == ASSUME WInv, OpsEnds PROVE WInv'
<1>1. /\ pass = "ops" /\ walking /\ op = NULL /\ walking' = FALSE
      /\ UNCHANGED <<given, route, pass>> /\ UNCHANGED <<list, items, fields>>
  BY DEF OpsEnds, Ends
<1>2. FinAt("ops", offset, Contents, Len(Contents) + 1) = WholeOf(pass, given)
  BY <1>1, AtTheEnd
<1>3. PICK S : Contents \in Seq(S)
  BY WInvProperties, HeldKind
<1>4. WholeOf(pass, given) = Contents
  BY <1>2, <1>3, FinAtEnd
<1>5. IInv' /\ DOMAIN fields' = Node /\ Contents' = Contents
  BY <1>1, ListStays DEF Contents, WInv
<1>. QED BY <1>1, <1>4, <1>5, PassOver

LEMMA WalkInductive == WalkSpec => []WInv
<1>1. WInv /\ [WalkNext]_walkVars => WInv'
  <2>. SUFFICES ASSUME WInv, [WalkNext]_walkVars PROVE WInv'
    OBVIOUS
  <2>1. CASE UNCHANGED walkVars
    BY <2>1 DEF walkVars, WInv, IInv, TypeOK, Intact, AtPlace, Contents
  <2>. QED BY <2>1, FillStep, StartsStep, ReorderTurnStep, ReorderEndsStep, LinearTurnStep,
              LinearEndsStep, OpsTurnStep, OpsEndsStep DEF WalkNext
<1>. QED BY <1>1, InitWInv, PTL DEF WalkSpec

\* The passes keep the list a list while they walk it.
THEOREM WalkTypeCorrect == WalkSpec => []TypeOK
<1>1. WInv => TypeOK
  BY DEF WInv, IInv
<1>. QED BY <1>1, WalkInductive, PTL

\* So do they keep its pointers, in either direction.
THEOREM WalkPointersMirror == WalkSpec => []Intact
<1>1. WInv => Intact
  BY DEF WInv, IInv
<1>. QED BY <1>1, WalkInductive, PTL

(***************************************************************************)
(* A loop that edits the list it walks, whatever the block and however     *)
(* long, makes of its operations what the pass is on sequences, and its    *)
(* pointer is never outside the list.                                      *)
(***************************************************************************)
THEOREM WalksAreFolds == WalkSpec => []WalkFolds
<1>1. ASSUME WInv PROVE WalkFolds
  <2>1. items \in Seq(Node) /\ Distinct(items)
    BY <1>1, WInvProperties
  <2>2. /\ Whole(given) = WholeOf(pass, given)
        /\ \A seen, rest : Finished(seen, rest) = Fin(pass, offset, seen, rest)
    <3>1. Whole(given) = WholeOf(pass, given)
      BY DEF Whole, WholeOf
    <3>2. ASSUME NEW seen, NEW rest
          PROVE  Finished(seen, rest) = Fin(pass, offset, seen, rest)
      BY DEF Finished, Fin, FoldReorder, FoldLinear, FoldSweep
    <3>. QED BY <3>1, <3>2
  <2>3. CASE pass # "fill" /\ ~walking
    BY <1>1, <2>2, <2>3 DEF WalkFolds, WInv
  <2>4. CASE pass # "fill" /\ walking
    <3>1. PICK k \in 1 .. Len(items) + 1 : AtPlace(k)
      BY <1>1, <2>4 DEF WInv
    <3>2. Len(Contents) = Len(items)
      BY <2>1 DEF Contents
    <3>3. Finished(SubSeq(Contents, 1, k - 1), SubSeq(Contents, k, Len(items))) = Whole(given)
      BY <2>2, <3>1, <3>2 DEF AtPlace, FinAt
    <3>4. /\ op = NULL \/ \E i \in DOMAIN items : items[i] = op
          /\ k = IF op = NULL THEN Len(items) + 1 ELSE Place(op)
      <4>1. CASE op = NULL
        <5>1. k = Len(items) + 1
          BY <2>1, <3>1, <4>1, BfListAssumption DEF AtPlace, Neighbour
        <5>. QED BY <4>1, <5>1
      <4>2. CASE op # NULL
        <5>1. k \in 1 .. Len(items) /\ op = items[k]
          BY <2>1, <3>1, <4>2 DEF AtPlace, Neighbour
        <5>2. DOMAIN items = 1 .. Len(items)
          BY <2>1
        <5>3. \A i \in DOMAIN items : items[i] = op <=> i = k
          BY <2>1, <5>1, <5>2 DEF Distinct
        <5>4. Place(op) = k
          BY <5>1, <5>2, <5>3 DEF Place
        <5>. QED BY <4>2, <5>1, <5>2, <5>4
      <4>. QED BY <4>1, <4>2
    <3>. QED BY <2>4, <3>3, <3>4 DEF WalkFolds
  <2>5. CASE pass = "fill"
    BY <2>5 DEF WalkFolds
  <2>. QED BY <2>3, <2>4, <2>5 DEF WInv
<1>. QED BY <1>1, WalkInductive, PTL
=============================================================================
