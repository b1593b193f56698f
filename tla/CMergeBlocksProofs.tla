------------------------- MODULE CMergeBlocksProofs -------------------------
(***************************************************************************)
(* The merge loop of CMergeBlocks ends well for exactly the lists that     *)
(* survive, for any number of blocks and any allocator.                    *)
(***************************************************************************)
EXTENDS CMergeBlocks, SequenceTheorems, TLAPS

Total == Len(isOps)

\* The addresses of the blocks behind number k: as long as the loop has not
\* got there, they are the ones the list was built with.
Rest(k) == k + 1 .. Total

(***************************************************************************)
(* The loop's block, and what is ahead of it.  One prev is wrong behind a  *)
(* merged block: that of the block after the next one, and when the run of *)
(* merges has ended at a container, of the block after that container.     *)
(* What stands there has been freed once, so it is none of the rest.       *)
(***************************************************************************)
Ahead ==
  LET b == Hi(block) IN
  /\ block \in alive
  /\ blocks.next[block] = IF b < Total THEN b + 1 ELSE NULL
  /\ \A i \in Rest(b) : /\ i \in alive /\ holds[i] = << i >>
                        /\ blocks.next[i] = IF i < Total THEN i + 1 ELSE NULL
  /\ \A i \in Rest(b + 2) : blocks.prev[i] = i - 1
  /\ b + 2 <= Total => IF Lo(block) = b THEN blocks.prev[b + 2] = b + 1
                       ELSE blocks.prev[b + 2] \notin {NULL} \cup Rest(b)
  /\ b + 1 <= Total => IF ~isOps[b] /\ Merges(isOps, b - 2)
                       THEN blocks.prev[b + 1] \notin {NULL, block} \cup Rest(b)
                       ELSE blocks.prev[b + 1] = block
  /\ blocks.prev[block] \notin Rest(b)
  /\ ~Merges(isOps, Lo(block) - 1)
  /\ Lo(block) = b => block = b
  /\ blocks.last \notin {NULL} \cup (b + 1 .. Total - 1)

Behind == \A x \in alive : x = block \/ Hi(x) < Lo(block) \/ x \in Rest(Hi(block))

\* The block before number a, a container, followed a merged block.
StaleAt(a) == Merges(isOps, a - 3) /\ ~isOps[a - 1]

\* No merge before number b does what does not survive.
SurvivesUpTo(b) ==
  \A i \in DOMAIN isOps : Merges(isOps, i) =>
    /\ i < b => i + 1 < Total
    /\ i + 3 < b => isOps[i + 2] \/ ~Merges(isOps, i + 3)

\* What is behind the loop's block is in order.
Clean ==
  LET a == Lo(block)
      b == Hi(block)
      before == blocks.prev[block]
  IN
  /\ SurvivesUpTo(b)
  /\ \A x \in alive : Hi(x) < a => InPlace(x)
  /\ blocks.first \in alive /\ Lo(blocks.first) = 1
  /\ b + 1 < Total => blocks.last = Total
  /\ IF a = 1 THEN before = NULL
     ELSE IF StaleAt(a) THEN /\ a = b
                             /\ a - 1 \in alive /\ Lo(a - 1) = a - 1 /\ Hi(a - 1) = a - 1
                             /\ before \notin {NULL, a - 1} \cup Rest(a - 1)
     ELSE before \in alive /\ Hi(before) = a - 1

\* x is followed by nothing that is there, or by a block too far on.
LeftOut(x) ==
  /\ blocks.next[x] # NULL
  /\ blocks.next[x] \in alive => Lo(blocks.next[x]) > Hi(x) + 1

Lost == \E x \in alive : Hi(x) + 1 < Lo(block) /\ LeftOut(x)

\* The next step uses a block that has been freed, or merges one with itself.
Doomed ==
  /\ block \in alive /\ HoldsOps(block)
  /\ Follower = block \/ Follower \notin alive \cup {NULL}

Merging ==
  \/ ~Survives(isOps) /\ Doomed
  \/ Ahead /\ Behind /\ (Clean \/ (~Survives(isOps) /\ Lost))

Merged ==
  \/ Survives(isOps) /\ InOrder
  \/ ~Survives(isOps) /\ \E x \in alive : LeftOut(x)

OnlyOpsMerge == \A x \in alive : Lo(x) < Hi(x) => \A k \in Lo(x) .. Hi(x) : isOps[k]

Sound ==
  /\ blocks.fault = FALSE
  /\ OnlyOpsMerge
  /\ status = "merging" => IF block = NULL THEN Merged ELSE Merging
  /\ status = "done" => Merged
  /\ status \in {"crashed", "wild"} => ~Survives(isOps)

IInv == TypeOK /\ Sound
-----------------------------------------------------------------------------
\* The fields after an assignment to next or prev, and of a new node.
LEMMA SetNextFields ==
  ASSUME NEW l \in List, NEW x \in Node, NEW p \in Pointer
  PROVE  /\ SetNext(l, x, p) \in List
         /\ \A w \in Node : SetNext(l, x, p).next[w] = IF w = x THEN p ELSE l.next[w]
         /\ SetNext(l, x, p).prev = l.prev
         /\ SetNext(l, x, p).first = l.first
         /\ SetNext(l, x, p).last = l.last
         /\ SetNext(l, x, p).fault = l.fault
BY DEF SetNext, List

\* The same of an assignment to prev.
LEMMA SetPrevFields ==
  ASSUME NEW l \in List, NEW x \in Node, NEW p \in Pointer
  PROVE  /\ SetPrev(l, x, p) \in List
         /\ \A w \in Node : SetPrev(l, x, p).prev[w] = IF w = x THEN p ELSE l.prev[w]
         /\ SetPrev(l, x, p).next = l.next
         /\ SetPrev(l, x, p).first = l.first
         /\ SetPrev(l, x, p).last = l.last
         /\ SetPrev(l, x, p).fault = l.fault
BY DEF SetPrev, List

\* The fields of a list in which r has been created: r's are null.
LEMMA CreatedFields ==
  ASSUME NEW l \in List, NEW r \in Node
  PROVE  /\ Created(l, r) \in List
         /\ \A w \in Node : /\ Created(l, r).next[w] = IF w = r THEN NULL ELSE l.next[w]
                            /\ Created(l, r).prev[w] = IF w = r THEN NULL ELSE l.prev[w]
         /\ Created(l, r).first = l.first
         /\ Created(l, r).last = l.last
         /\ Created(l, r).fault = l.fault
<1>1. NULL \in Pointer
  BY DEF Pointer
<1>2. SetNext(l, r, NULL) \in List
  BY <1>1, SetNextFields
<1> QED
  BY <1>1, <1>2, SetNextFields, SetPrevFields DEF Created

\* The fields of a list are pointers.
LEMMA ListFields ==
  ASSUME NEW l \in List
  PROVE  /\ \A w \in Node : l.next[w] \in Pointer /\ l.prev[w] \in Pointer
         /\ l.first \in Pointer /\ l.last \in Pointer
BY DEF List

\* List m is list k with r in the place of x.
Replaced(k, x, r, m) ==
  LET v == k.prev[x] IN
  /\ m \in List
  /\ m.fault = k.fault
  /\ m.first = IF v = NULL THEN r ELSE k.first
  /\ \A w \in Node : w \notin {r, v} => m.next[w] = k.next[w]
  /\ v # NULL => m.next[v] = r
  /\ v # r => m.next[r] = k.next[x]
  /\ m.next[r] # NULL => m.last = k.last /\ m.prev[m.next[r]] = r
  /\ \A w \in Node : w \notin {r, m.next[r]} => m.prev[w] = k.prev[w]
  /\ m.next[r] # r => m.prev[r] = IF v = NULL THEN k.prev[r] ELSE v

\* What ListReplace does: Replaced.
LEMMA ReplaceFields ==
  ASSUME NEW k \in List, NEW x \in Node, NEW r \in Node
  PROVE  Replaced(k, x, r, ListReplace(k, x, r))
<1>a. PICK m : m = ListReplace(k, x, r)
  OBVIOUS
<1>b. PICK v : v = k.prev[x]
  OBVIOUS
<1> DEFINE k1 == SetNext(k, r, k.next[x])
           k2 == SetPrev(k1, r, v)
           k3 == SetNext(k2, v, r)
           taken == IF v = NULL THEN [k1 EXCEPT !.first = r] ELSE k3
<1>1. k.next[x] \in Pointer /\ v \in Pointer /\ r \in Pointer
  BY <1>b, ListFields DEF Pointer
<1>2. /\ k1 \in List /\ \A w \in Node : k1.next[w] = IF w = r THEN k.next[x] ELSE k.next[w]
      /\ k1.prev = k.prev /\ k1.first = k.first /\ k1.last = k.last /\ k1.fault = k.fault
  <2>1. k.next[x] \in Pointer
    BY <1>1
  <2> QED
    BY <2>1, SetNextFields
<1>3. ASSUME v # NULL
      PROVE  /\ k3 \in List
             /\ \A w \in Node : k3.next[w] = IF w = v THEN r ELSE k1.next[w]
             /\ \A w \in Node : k3.prev[w] = IF w = r THEN v ELSE k.prev[w]
             /\ k3.first = k.first /\ k3.last = k.last /\ k3.fault = k.fault
  <2>1. /\ k2 \in List /\ k2.next = k1.next
        /\ \A w \in Node : k2.prev[w] = IF w = r THEN v ELSE k1.prev[w]
        /\ k2.first = k1.first /\ k2.last = k1.last /\ k2.fault = k1.fault
    <3>1. k1 \in List
      BY <1>2
    <3> HIDE DEF k1
    <3> QED
      BY <3>1, <1>1, SetPrevFields
  <2>2. v \in Node
    BY <1>1, <1>3 DEF Pointer
  <2> HIDE DEF k1, k2
  <2>3. /\ k3 \in List /\ \A w \in Node : k3.next[w] = IF w = v THEN r ELSE k2.next[w]
        /\ k3.prev = k2.prev /\ k3.first = k2.first
        /\ k3.last = k2.last /\ k3.fault = k2.fault
    <3>1. k2 \in List
      BY <2>1
    <3> QED
      BY <3>1, <1>1, <2>2, SetNextFields
  <2> QED
    BY <1>2, <2>1, <2>3
<1> HIDE DEF k1, k2, k3
<1>4. /\ taken \in List /\ taken.fault = k.fault /\ taken.last = k.last
      /\ taken.first = IF v = NULL THEN r ELSE k.first
      /\ \A w \in Node : w \notin {r, v} => taken.next[w] = k.next[w]
      /\ v # NULL => taken.next[v] = r
      /\ v # r => taken.next[r] = k.next[x]
      /\ \A w \in Node : w # r => taken.prev[w] = k.prev[w]
      /\ taken.prev[r] = IF v = NULL THEN k.prev[r] ELSE v
  <2>1. CASE v = NULL
    <3>1. taken = [k1 EXCEPT !.first = r]
      BY <2>1
    <3>2. /\ taken \in List /\ taken.fault = k1.fault /\ taken.last = k1.last
          /\ taken.first = r /\ taken.next = k1.next /\ taken.prev = k1.prev
      BY <3>1, <1>1, <1>2 DEF List
    <3> QED
      BY <2>1, <3>2, <1>2
  <2>2. CASE v # NULL
    <3>1. taken = k3 /\ v \in Node
      BY <2>2, <1>1 DEF Pointer
    <3> QED
      BY <2>2, <3>1, <1>2, <1>3
  <2> QED
    BY <2>1, <2>2
<1>5. m = TakeNext(taken, x, r)
  BY <1>a, <1>b DEF ListReplace, k1, k2, k3
<1> HIDE DEF taken
<1>6. CASE taken.next[r] = NULL
  <2>1. m = [taken EXCEPT !.last = r]
    BY <1>5, <1>6 DEF TakeNext
  <2>2. m \in List /\ m.fault = taken.fault /\ m.first = taken.first /\ m.next = taken.next
        /\ m.prev = taken.prev
    BY <2>1, <1>1, <1>4 DEF List
  <2>3. m.next[r] = NULL
    BY <2>2, <1>6
  <2> QED
    BY <2>2, <2>3, <1>4, <1>b, <1>a DEF Replaced
<1>7. CASE taken.next[r] # NULL
  <2>1. m = SetPrev(taken, taken.next[r], r)
    BY <1>5, <1>7 DEF TakeNext
  <2>2. taken.next[r] \in Node
    BY <1>4, <1>7, ListFields DEF Pointer
  <2>3. m \in List /\ m.fault = taken.fault /\ m.first = taken.first /\ m.next = taken.next
        /\ m.last = taken.last
        /\ \A w \in Node : m.prev[w] = IF w = taken.next[r] THEN r ELSE taken.prev[w]
    <3>1. taken \in List /\ r \in Pointer
      BY <1>1, <1>4
    <3> QED
      BY <3>1, <2>1, <2>2, SetPrevFields
  <2> QED
    BY <2>2, <2>3, <1>4, <1>7, <1>b, <1>a DEF Replaced
<1> QED
  BY <1>6, <1>7

\* What ListRemove makes of list l when its argument is the next of x: once x
\* has got its new next y, the argument stands for y.
RemovedNext(l, x, y, rest) ==
  /\ y = NULL \/ (l.last # y /\ l.next[y] = NULL) => rest.fault
  /\ y # NULL /\ (l.last = y \/ l.next[y] # NULL) =>
       /\ rest \in List /\ rest.fault = FALSE /\ rest.first = l.first
       /\ rest.last = IF l.last = y THEN l.prev[y] ELSE l.last
       /\ \A w \in Node : rest.next[w] = IF w = x THEN y ELSE l.next[w]
       /\ \A w \in Node : rest.prev[w] = IF l.last # y /\ w = l.next[y] THEN l.prev[y]
                                         ELSE l.prev[w]

\* What ListRemove does with the argument of the merge loop: RemovedNext.
LEMMA RemoveNextFields ==
  ASSUME NEW l \in List, l.fault = FALSE, NEW x \in Node, NEW f \in Node, l.next[x] = f,
         l.prev[f] = x, f # x, l.next[f] # x, l.first # l.last, l.last # NULL
  PROVE  RemovedNext(l, x, l.next[f], ListRemove(l, NextOf(x)))
<1>a. PICK rest : rest = ListRemove(l, NextOf(x))
  OBVIOUS
<1>b. PICK y : y = l.next[f]
  OBVIOUS
<1> SUFFICES RemovedNext(l, x, y, rest)
  BY <1>a, <1>b
<1> DEFINE m == SetNext(l, x, y)
<1>1. Value(l, NextOf(x)) = f /\ Value(m, NextOf(x)) = m.next[x]
  BY DEF Value, NextOf
<1>2. x # NULL
  BY BfListAssumption
<1>3. rest = UnlinkLater(l, NextOf(x))
  BY <1>1, <1>2, <1>a DEF ListRemove
<1>4. y \in Pointer
  BY <1>b, ListFields
<1>5. /\ m \in List /\ \A w \in Node : m.next[w] = IF w = x THEN y ELSE l.next[w]
      /\ m.prev = l.prev /\ m.first = l.first /\ m.last = l.last /\ m.fault = FALSE
  BY <1>4, SetNextFields
<1>6. m.next[x] = y
  BY <1>5
<1>7. rest = IF m.last = y THEN [m EXCEPT !.last = m.prev[y]]
             ELSE IF y = NULL THEN Fault(m)
             ELSE IF m.next[y] = NULL THEN Fault(m)
             ELSE SetPrev(m, m.next[y], m.prev[y])
  BY <1>1, <1>3, <1>6, <1>b DEF UnlinkLater
<1> HIDE DEF m
<1>8. Fault(m).fault
  BY <1>5 DEF Fault, List
<1>9. CASE y = NULL
  BY <1>9, <1>5, <1>7, <1>8 DEF RemovedNext
<1>10. CASE y # NULL
  <2>1. y \in Node /\ y # x
    BY <1>4, <1>10, <1>b DEF Pointer
  <2>2. m.next[y] = l.next[y] /\ m.prev[y] = l.prev[y]
        /\ l.next[y] \in Pointer /\ l.prev[y] \in Pointer
    <3>1. l.next[y] \in Pointer /\ l.prev[y] \in Pointer
      BY <2>1, ListFields
    <3>2. m.next[y] = l.next[y]
      BY <2>1, <1>5
    <3> QED
      BY <3>1, <3>2, <1>5
  <2>3. CASE l.last = y
    <3>1. rest = [m EXCEPT !.last = l.prev[y]]
      BY <2>2, <2>3, <1>5, <1>7
    <3>2. rest \in List /\ rest.fault = m.fault /\ rest.first = m.first
          /\ rest.last = l.prev[y] /\ rest.next = m.next /\ rest.prev = m.prev
      BY <3>1, <2>2, <1>5 DEF List
    <3> QED
      BY <3>2, <2>3, <1>5, <1>10 DEF RemovedNext
  <2>4. CASE l.last # y /\ l.next[y] = NULL
    BY <2>2, <2>4, <1>5, <1>7, <1>8, <1>10 DEF RemovedNext
  <2>5. CASE l.last # y /\ l.next[y] # NULL
    <3>1. rest = SetPrev(m, l.next[y], l.prev[y])
      BY <2>2, <2>5, <1>5, <1>7, <1>10
    <3>2. l.next[y] \in Node
      BY <2>2, <2>5 DEF Pointer
    <3>3. /\ rest \in List /\ rest.fault = m.fault /\ rest.first = m.first
          /\ rest.last = m.last /\ rest.next = m.next
          /\ \A w \in Node : rest.prev[w] = IF w = l.next[y] THEN l.prev[y] ELSE m.prev[w]
      <4>1. m \in List /\ l.prev[y] \in Pointer
        BY <1>5, <2>2
      <4> QED
        BY <4>1, <3>1, <3>2, SetPrevFields
    <3> QED
      BY <3>3, <2>5, <1>5, <1>10 DEF RemovedNext
  <2> QED
    BY <2>3, <2>4, <2>5
<1> QED
  BY <1>9, <1>10


\* List m is list l with r, which has been created, in the place of x and its
\* next, before y.
MergedInto(l, x, y, r, m) ==
  LET v == l.prev[x] IN
  /\ m \in List /\ m.fault = FALSE
  /\ m.first = IF v = NULL THEN r ELSE l.first
  /\ m.last = IF l.last = y THEN l.prev[y] ELSE l.last
  /\ m.next[r] = y
  /\ v # NULL => m.next[v] = r
  /\ \A w \in Node : w \notin {x, r, v} => m.next[w] = l.next[w]
  /\ m.prev[r] = v /\ m.prev[y] = r
  /\ \A w \in Node : w \notin {r, y} =>
       m.prev[w] = IF l.last # y /\ w = l.next[y] THEN l.prev[y] ELSE l.prev[w]

\* A merge that finds all it needs: MergedInto.  Only a last that is wrong makes the
\* macro dereference null.
LEMMA MergeFields ==
  ASSUME NEW l \in List, l.fault = FALSE, NEW x \in Node, NEW r \in Node, NEW f \in Node,
         NEW y \in Node, l.next[x] = f, l.prev[f] = x, l.next[f] = y,
         x # f, x # y, r \notin {x, f, y}, l.next[y] \notin {r, x, y},
         l.first # l.last, l.last # NULL, l.prev[x] # r,
         NEW rest, rest = ListRemove(Created(l, r), NextOf(x))
  PROVE  /\ rest.fault => l.last # y /\ l.next[y] = NULL
         /\ ~rest.fault => MergedInto(l, x, y, r, ListReplace(rest, x, r))
<1>1. PICK c : c = Created(l, r)
  OBVIOUS
<1>2. PICK v : v = l.prev[x]
  OBVIOUS
<1>3. PICK m : m = ListReplace(rest, x, r)
  OBVIOUS
<1>4. /\ c \in List
      /\ \A w \in Node : /\ c.next[w] = IF w = r THEN NULL ELSE l.next[w]
                         /\ c.prev[w] = IF w = r THEN NULL ELSE l.prev[w]
      /\ c.first = l.first /\ c.last = l.last /\ c.fault = FALSE
  <2>1. /\ c \in List
        /\ \A w \in Node : /\ c.next[w] = IF w = r THEN NULL ELSE l.next[w]
                           /\ c.prev[w] = IF w = r THEN NULL ELSE l.prev[w]
        /\ c.first = l.first /\ c.last = l.last /\ c.fault = l.fault
    BY ONLY <1>1, l \in List, r \in Node, CreatedFields
  <2> QED
    BY <2>1
<1>5. /\ c.next[x] = f /\ c.prev[f] = x /\ c.next[f] = y /\ c.next[y] = l.next[y]
      /\ c.prev[y] = l.prev[y] /\ c.prev[x] = v /\ c.prev[r] = NULL
  <2>1. c.next[x] = f /\ c.next[f] = y /\ c.next[y] = l.next[y]
    BY <1>4
  <2>2. c.prev[f] = x /\ c.prev[y] = l.prev[y] /\ c.prev[x] = v /\ c.prev[r] = NULL
    BY <1>2, <1>4
  <2> QED
    BY <2>1, <2>2
<1>6. y # NULL /\ f # NULL /\ v # r
  BY <1>2, BfListAssumption
<1>7. RemovedNext(c, x, y, rest)
  <2>1. c.first # c.last /\ c.last # NULL /\ c.next[f] # x
        /\ c \in List /\ c.fault = FALSE /\ c.next[x] = f /\ c.prev[f] = x /\ y = c.next[f]
    BY <1>4, <1>5
  <2>2. rest = ListRemove(c, NextOf(x))
    BY <1>1
  <2> QED
    BY <2>1, <2>2, RemoveNextFields
<1>8. CASE l.last # y /\ l.next[y] = NULL
  BY <1>4, <1>5, <1>7, <1>8 DEF RemovedNext
<1>9. CASE l.last = y \/ l.next[y] # NULL
  <2>1. /\ rest \in List /\ rest.fault = FALSE /\ rest.first = l.first
        /\ rest.last = IF l.last = y THEN l.prev[y] ELSE l.last
        /\ \A w \in Node : w # r => rest.next[w] = IF w = x THEN y ELSE l.next[w]
        /\ \A w \in Node : w # r =>
             rest.prev[w] = IF l.last # y /\ w = l.next[y] THEN l.prev[y] ELSE l.prev[w]
        /\ rest.prev[r] = NULL
    BY <1>4, <1>5, <1>6, <1>7, <1>9 DEF RemovedNext
  <2>2. rest.next[x] = y /\ rest.prev[x] = v
    BY <1>2, <2>1
  <2>3. Replaced(rest, x, r, m)
    <3>1. rest \in List
      BY <2>1
    <3> QED
      BY <3>1, <1>3, ReplaceFields
  <2>4. /\ m \in List /\ m.fault = FALSE
        /\ m.first = IF v = NULL THEN r ELSE l.first
        /\ \A w \in Node : w \notin {r, v} => m.next[w] = rest.next[w]
        /\ v # NULL => m.next[v] = r
        /\ m.next[r] = y
        /\ m.last = rest.last /\ m.prev[y] = r
        /\ \A w \in Node : w \notin {r, y} => m.prev[w] = rest.prev[w]
        /\ m.prev[r] = v
    BY <2>1, <2>2, <2>3, <1>6 DEF Replaced
  <2> QED
    BY <2>1, <2>4, <1>2, <1>3, <1>9 DEF MergedInto
<1> QED
  BY <1>8, <1>9

\* When all of the list is unlinked, or the result is already what stands before
\* it, the result ends up before the freed block or before itself.
TiesUp(l, x, f, r, m) == m \in List /\ m.fault = FALSE /\ m.next[r] \in {f, r}

\* Such a merge.
LEMMA MergeDooms ==
  ASSUME NEW l \in List, l.fault = FALSE, NEW x \in Node, NEW r \in Node, NEW f \in Node,
         l.next[x] = f, l.prev[f] = x, x # f, r \notin {x, f}, l.next[f] \notin {x, r},
         l.next[f] # NULL => l.next[l.next[f]] # x,
         l.last # NULL, l.first = l.last \/ l.prev[x] = r,
         NEW rest, rest = ListRemove(Created(l, r), NextOf(x)), ~rest.fault
  PROVE  TiesUp(l, x, f, r, ListReplace(rest, x, r))
<1>a. PICK m : m = ListReplace(rest, x, r)
  OBVIOUS
<1> SUFFICES m \in List /\ m.fault = FALSE /\ m.next[r] \in {f, r}
  BY <1>a DEF TiesUp
<1>1. PICK c : c = Created(l, r)
  OBVIOUS
<1>2. /\ c \in List
      /\ \A w \in Node : /\ c.next[w] = IF w = r THEN NULL ELSE l.next[w]
                         /\ c.prev[w] = IF w = r THEN NULL ELSE l.prev[w]
      /\ c.first = l.first /\ c.last = l.last /\ c.fault = FALSE
  BY <1>1, CreatedFields
<1>3. CASE l.first = l.last
  <2>1. rest = [c EXCEPT !.first = NULL, !.last = NULL]
    BY <1>1, <1>2, <1>3 DEF ListRemove, UnlinkOnly
  <2>2. /\ rest \in List /\ rest.next = c.next /\ rest.prev = c.prev
        /\ rest.fault = FALSE
    BY <2>1, <1>2 DEF List, Pointer
  <2>3. rest.next[x] = f
    BY <2>2, <1>2
  <2>4. Replaced(rest, x, r, m)
    <3>1. rest \in List
      BY <2>2
    <3> QED
      BY <3>1, <1>a, ReplaceFields
  <2>5. rest.prev[x] \in Pointer
    BY <2>2, ListFields
  <2>6. r # NULL
    BY BfListAssumption
  <2>7. m.next[r] \in {f, r}
    BY <2>3, <2>4, <2>6 DEF Replaced
  <2> QED
    BY <2>2, <2>4, <2>7 DEF Replaced
<1>4. CASE l.first # l.last /\ l.prev[x] = r
  <2>1. PICK y : y = l.next[f]
    OBVIOUS
  <2>2. /\ c.next[x] = f /\ c.prev[f] = x /\ c.next[f] = y /\ c.prev[x] = r
        /\ c.first # c.last /\ c.last # NULL
    BY <1>2, <1>4, <2>1
  <2>3. RemovedNext(c, x, y, rest)
    <3>1. c \in List /\ c.fault = FALSE /\ c.next[f] # x
      BY <1>2, <2>1, <2>2
    <3>2. rest = ListRemove(c, NextOf(x)) /\ y = c.next[f]
      BY <1>1, <2>2
    <3> QED
      BY <3>1, <3>2, <2>2, RemoveNextFields
  <2>4. /\ rest \in List /\ rest.fault = FALSE
        /\ \A w \in Node : rest.prev[w] = IF c.last # y /\ w = c.next[y] THEN c.prev[y]
                                          ELSE c.prev[w]
    BY <2>3, ~rest.fault DEF RemovedNext
  <2>5. y # NULL /\ y \in Node
    <3>1. y # NULL
      BY <2>3 DEF RemovedNext
    <3>2. l.next[f] \in Pointer
      BY ListFields
    <3> QED
      BY <3>1, <3>2, <2>1 DEF Pointer
  <2>6. c.next[y] # x
    BY <2>1, <2>5, <1>2
  <2>7. rest.prev[x] = r
    BY <2>2, <2>4, <2>6
  <2>8. Replaced(rest, x, r, m)
    <3>1. rest \in List
      BY <2>4
    <3> QED
      BY <3>1, <1>a, ReplaceFields
  <2>9. r # NULL
    BY BfListAssumption
  <2> QED
    BY <2>4, <2>7, <2>8, <2>9 DEF Replaced
<1> QED
  BY <1>3, <1>4

\* A merge of the last two blocks dereferences null.
LEMMA MergeLast ==
  ASSUME NEW l \in List, l.fault = FALSE, NEW x \in Node, NEW r \in Node, NEW f \in Node,
         l.next[x] = f, l.prev[f] = x, x # f, r \notin {x, f}, l.next[f] = NULL,
         l.first # l.last, l.last # NULL
  PROVE  ListRemove(Created(l, r), NextOf(x)).fault
<1>1. PICK c : c = Created(l, r)
  OBVIOUS
<1>2. /\ c \in List
      /\ \A w \in Node : /\ c.next[w] = IF w = r THEN NULL ELSE l.next[w]
                         /\ c.prev[w] = IF w = r THEN NULL ELSE l.prev[w]
      /\ c.first = l.first /\ c.last = l.last /\ c.fault = FALSE
  BY <1>1, CreatedFields
<1>3. /\ c.next[x] = f /\ c.prev[f] = x /\ c.next[f] = NULL
      /\ c.first # c.last /\ c.last # NULL
  BY <1>2
<1>4. RemovedNext(c, x, c.next[f], ListRemove(c, NextOf(x)))
  <2>1. c \in List /\ c.fault = FALSE /\ c.next[f] # x
    BY <1>2, <1>3, BfListAssumption
  <2> QED
    BY <2>1, <1>3, RemoveNextFields
<1> QED
  BY <1>1, <1>3, <1>4 DEF RemovedNext
-----------------------------------------------------------------------------
\* The numbers of the blocks that are allocated.
LEMMA Numbers ==
  ASSUME TypeOK, NEW x \in alive
  PROVE  /\ x \in Node /\ Total \in Nat
         /\ Lo(x) \in 1 .. Total /\ Hi(x) \in 1 .. Total /\ Lo(x) <= Hi(x)
         /\ holds[x] \in Seq(1 .. Total) /\ Len(holds[x]) = Hi(x) - Lo(x) + 1
<1>1. x \in Node /\ holds[x] \in Seq(1 .. Total) /\ holds[x] # << >> /\ Total \in Nat
      /\ \A k \in 1 .. Len(holds[x]) : holds[x][k] = Lo(x) + k - 1
  BY DEF TypeOK, Total
<1>2. Len(holds[x]) \in Nat /\ Len(holds[x]) >= 1
  BY <1>1
<1>3. holds[x][1] \in 1 .. Total /\ holds[x][Len(holds[x])] \in 1 .. Total
      /\ holds[x][Len(holds[x])] = Lo(x) + Len(holds[x]) - 1
  <2>1. 1 \in 1 .. Len(holds[x]) /\ Len(holds[x]) \in 1 .. Len(holds[x])
    BY <1>2
  <2>2. \A k \in 1 .. Len(holds[x]) : holds[x][k] \in 1 .. Total
    BY <1>1
  <2> QED
    BY <1>1, <2>1, <2>2
<1> QED
  <2>1. Lo(x) = holds[x][1] /\ Hi(x) = holds[x][1] + Len(holds[x]) - 1
    BY DEF Lo, Hi
  <2>2. holds[x][1] + Len(holds[x]) - 1 \in 1 .. Total
    BY <1>3, <2>1
  <2> QED
    BY <1>1, <1>2, <1>3, <2>1, <2>2

\* Allocated blocks that have a number in common are the same block.
LEMMA Apart ==
  ASSUME TypeOK, NEW x \in alive, NEW y \in alive, Lo(x) <= Hi(y), Lo(y) <= Hi(x)
  PROVE  x = y
<1>1. Lo(x) \in Int /\ Hi(x) \in Int /\ Lo(y) \in Int /\ Hi(y) \in Int
  BY Numbers
<1>2. x # y => Hi(x) < Lo(y) \/ Hi(y) < Lo(x)
  BY DEF TypeOK
<1> QED
  BY <1>1, <1>2

\* The blocks that have not been looked at.
LEMMA RestBlocks ==
  ASSUME TypeOK, Ahead, NEW i \in Rest(Hi(block))
  PROVE  /\ i \in alive /\ i \in Node /\ Lo(i) = i /\ Hi(i) = i /\ i # block
         /\ HoldsOps(i) = isOps[i]
<1>1. i \in alive /\ holds[i] = << i >> /\ block \in alive
  BY DEF Ahead
<1>2. Lo(i) = i /\ Hi(i) = i /\ HoldsOps(i) = isOps[i]
  <2>1. i \in Int
    BY Numbers, <1>1 DEF Rest
  <2> QED
    BY <1>1, <2>1 DEF Lo, Hi, HoldsOps
<1>3. i # block
  BY <1>1, <1>2, Numbers DEF Rest
<1> QED
  BY <1>1, <1>2, <1>3, Numbers

\* What the loop looks at while the list ahead of it is as it should be.
LEMMA AheadLooking ==
  ASSUME TypeOK, OnlyOpsMerge, Ahead, NEW a, NEW b, a = Lo(block), b = Hi(block)
  PROVE  /\ block \in alive /\ block \in Node /\ block # NULL /\ block \notin Rest(b)
         /\ Total \in Nat /\ a \in 1 .. Total /\ b \in 1 .. Total /\ a <= b
         /\ Follower = IF b < Total THEN b + 1 ELSE NULL
         /\ b < Total => /\ b + 1 \in alive /\ b + 1 \in Node /\ b + 1 # block
                         /\ Lo(b + 1) = b + 1 /\ Hi(b + 1) = b + 1
                         /\ HoldsOps(b + 1) = isOps[b + 1]
                         /\ blocks.next[b + 1] = IF b + 1 < Total THEN b + 2 ELSE NULL
         /\ \A k \in a .. b : isOps[k] = HoldsOps(block)
         /\ a < b => HoldsOps(block)
         /\ HoldsOps(block) \in BOOLEAN
         /\ Mergeable <=> Merges(isOps, b)
<1>1. /\ block \in alive /\ block \in Node /\ block # NULL
      /\ Total \in Nat /\ a \in 1 .. Total /\ b \in 1 .. Total /\ a <= b
  BY Numbers, BfListAssumption DEF Ahead
<1>2. Follower = IF b < Total THEN b + 1 ELSE NULL
  BY DEF Ahead, Follower
<1>3. ASSUME b < Total
      PROVE  /\ b + 1 \in alive /\ b + 1 \in Node /\ b + 1 # block
             /\ Lo(b + 1) = b + 1 /\ Hi(b + 1) = b + 1
             /\ HoldsOps(b + 1) = isOps[b + 1]
             /\ blocks.next[b + 1] = IF b + 1 < Total THEN b + 2 ELSE NULL
  <2>1. b + 1 \in Rest(b)
    BY <1>1, <1>3 DEF Rest
  <2>2. blocks.next[b + 1] = IF b + 1 < Total THEN (b + 1) + 1 ELSE NULL
    BY <2>1 DEF Ahead
  <2> QED
    BY <1>1, <2>1, <2>2, RestBlocks
<1>4. block \notin Rest(b)
  BY <1>1, RestBlocks
<1>5. /\ \A k \in a .. b : isOps[k] = HoldsOps(block)
      /\ a < b => HoldsOps(block)
      /\ HoldsOps(block) \in BOOLEAN
  <2>1. HoldsOps(block) = isOps[a]
    BY DEF HoldsOps, Lo
  <2>2. \A k \in 1 .. Total : isOps[k] \in BOOLEAN
    BY DEF TypeOK, Total
  <2>3. a < b => \A k \in a .. b : isOps[k] = TRUE
    BY <1>1, <2>2 DEF OnlyOpsMerge
  <2> QED
    BY <1>1, <2>1, <2>2, <2>3
<1>6. Mergeable <=> Merges(isOps, b)
  <2>1. isOps[b] = HoldsOps(block)
    BY <1>1, <1>5
  <2>2. CASE b < Total
    BY <2>1, <2>2, <1>1, <1>2, <1>3, BfListAssumption DEF Mergeable, Merges, Total
  <2>3. CASE ~(b < Total)
    BY <2>3, <1>1, <1>2 DEF Mergeable, Merges, Total
  <2> QED
    BY <2>2, <2>3
<1> QED
  BY <1>1, <1>2, <1>3, <1>4, <1>5, <1>6
-----------------------------------------------------------------------------
\* The list as it is built.
LEMMA InitFields ==
  ASSUME Init
  PROVE  /\ Total \in Nat /\ Total <= MaxBlocks /\ 1 .. Total \subseteq Node
         /\ isOps \in [1 .. Total -> BOOLEAN] /\ DOMAIN isOps = 1 .. Total
         /\ isOps \in Seq(BOOLEAN)
         /\ alive = 1 .. Total
         /\ \A x \in alive : holds[x] = << x >> /\ Lo(x) = x /\ Hi(x) = x
         /\ holds \in [Node -> Seq(1 .. Total)]
         /\ blocks \in List /\ blocks.fault = FALSE
         /\ blocks.first = IF Total = 0 THEN NULL ELSE 1
         /\ blocks.last = IF Total = 0 THEN NULL ELSE Total
         /\ \A i \in 1 .. Total : /\ blocks.next[i] = IF i < Total THEN i + 1 ELSE NULL
                                  /\ blocks.prev[i] = IF i = 1 THEN NULL ELSE i - 1
         /\ block = blocks.first /\ status = "merging"
<1>1. PICK n \in 0 .. MaxBlocks : isOps \in [1 .. n -> BOOLEAN]
  BY DEF Init, BoundedSeq, SeqOf
<1>2. n = Total /\ n \in Nat /\ n <= MaxBlocks /\ 1 .. n \subseteq Node /\ DOMAIN isOps = 1 .. n
      /\ isOps \in Seq(BOOLEAN)
  BY <1>1, CMergeBlocksAssumption DEF Total
<1>3. alive = 1 .. n
  BY <1>2 DEF Init
<1>4. /\ \A x \in alive : holds[x] = << x >>
      /\ holds \in [Node -> Seq(1 .. n)]
  <2>1. holds = [x \in Node |-> IF x \in 1 .. n THEN << x >> ELSE << >>]
    BY <1>3 DEF Init
  <2>2. \A x \in Node : (IF x \in 1 .. n THEN << x >> ELSE << >>) \in Seq(1 .. n)
    <3> TAKE x \in Node
    <3>1. CASE x \in 1 .. n
      <4>1. << x >> \in Seq(1 .. n)
        BY <3>1
      <4> QED
        BY <3>1, <4>1
    <3>2. CASE x \notin 1 .. n
      <4>1. << >> \in Seq(1 .. n)
        OBVIOUS
      <4> QED
        BY <3>2, <4>1, Zenon
    <3> QED
      BY <3>1, <3>2
  <2> QED
    BY <2>1, <2>2, <1>2, <1>3
<1>5. \A x \in alive : Lo(x) = x /\ Hi(x) = x
  <2> TAKE x \in alive
  <2>1. x \in Int /\ x \in Node
    BY <1>2, <1>3
  <2>2. holds[x] = << x >>
    BY <1>4
  <2> QED
    BY <2>1, <2>2 DEF Lo, Hi
<1>6. blocks = Built(n)
  BY <1>2 DEF Init, Total
<1> DEFINE NodeAt(i) == IF i \in 1 .. n THEN i ELSE NULL
<1>7. /\ blocks.fault = FALSE
      /\ blocks.first = NodeAt(1)
      /\ blocks.last = NodeAt(n)
      /\ blocks.next = [x \in Node |-> IF x \in 1 .. n THEN NodeAt(x + 1) ELSE NULL]
      /\ blocks.prev = [x \in Node |-> IF x \in 1 .. n THEN NodeAt(x - 1) ELSE NULL]
  BY <1>6 DEF Built
<1>8. blocks \in List
  <2>1. \A i : NodeAt(i) \in Pointer
    BY <1>2 DEF Pointer
  <2>2. NULL \in Pointer
    BY DEF Pointer
  <2> HIDE DEF NodeAt
  <2>3. blocks.next \in [Node -> Pointer] /\ blocks.prev \in [Node -> Pointer]
    BY <1>7, <2>1, <2>2
  <2>4. blocks.first \in Pointer /\ blocks.last \in Pointer /\ blocks.fault \in BOOLEAN
    BY <1>7, <2>1
  <2>5. blocks = [first |-> blocks.first, last |-> blocks.last, next |-> blocks.next,
                  prev |-> blocks.prev, fault |-> blocks.fault]
    BY <1>6 DEF Built
  <2> QED
    BY <2>3, <2>4, <2>5 DEF List
<1>9. \A i \in 1 .. n : /\ blocks.next[i] = IF i < n THEN i + 1 ELSE NULL
                        /\ blocks.prev[i] = IF i = 1 THEN NULL ELSE i - 1
  <2> TAKE i \in 1 .. n
  <2>1. i \in Node
    BY <1>2
  <2>2. blocks.next[i] = NodeAt(i + 1) /\ blocks.prev[i] = NodeAt(i - 1)
    BY <2>1, <1>7
  <2> QED
    BY <2>2, <1>2
<1>10. block = blocks.first /\ status = "merging"
  BY DEF Init
<1> QED
  <2>1. blocks.first = (IF Total = 0 THEN NULL ELSE 1)
        /\ blocks.last = IF Total = 0 THEN NULL ELSE Total
    BY <1>2, <1>7
  <2> HIDE DEF NodeAt
  <2> QED
    BY <1>1, <1>2, <1>3, <1>4, <1>5, <1>7, <1>8, <1>9, <1>10, <2>1

\* The list as it is built has its types.
LEMMA InitTypes == Init => TypeOK
<1> SUFFICES ASSUME Init PROVE TypeOK
  OBVIOUS
<1>1. Total \in Nat /\ 1 .. Total \subseteq Node /\ alive = 1 .. Total
      /\ isOps \in Seq(BOOLEAN) /\ DOMAIN isOps = 1 .. Total /\ Total <= MaxBlocks
      /\ blocks \in List /\ holds \in [Node -> Seq(1 .. Total)]
      /\ block = blocks.first /\ status = "merging"
  BY InitFields
<1>2. \A x \in alive : holds[x] = << x >> /\ Lo(x) = x /\ Hi(x) = x
  BY InitFields
<1>3. \A x \in alive : holds[x] # << >> /\ \A k \in DOMAIN holds[x] : holds[x][k] = Lo(x) + k - 1
  BY <1>1, <1>2
<1>4. \A x, y \in alive : x # y => Hi(x) < Lo(y) \/ Hi(y) < Lo(x)
  BY <1>1, <1>2
<1>5. block \in Pointer
  BY <1>1, ListFields
<1> QED
  BY <1>1, <1>3, <1>4, <1>5 DEF TypeOK, Total

\* The loop starts with everything ahead and nothing behind it.
LEMMA InitSound == Init => Sound
<1> SUFFICES ASSUME Init PROVE Sound
  OBVIOUS
<1>1. TypeOK
  BY InitTypes
<1>2. Total \in Nat /\ 1 .. Total \subseteq Node /\ alive = 1 .. Total
      /\ isOps \in [1 .. Total -> BOOLEAN] /\ DOMAIN isOps = 1 .. Total
  BY InitFields
<1>3. \A x \in alive : holds[x] = << x >> /\ Lo(x) = x /\ Hi(x) = x
  BY InitFields
<1>4. /\ blocks.fault = FALSE
      /\ blocks.first = IF Total = 0 THEN NULL ELSE 1
      /\ blocks.last = IF Total = 0 THEN NULL ELSE Total
      /\ \A i \in 1 .. Total : /\ blocks.next[i] = IF i < Total THEN i + 1 ELSE NULL
                               /\ blocks.prev[i] = IF i = 1 THEN NULL ELSE i - 1
      /\ block = blocks.first /\ status = "merging"
  BY InitFields
<1>5. OnlyOpsMerge
  BY <1>2, <1>3 DEF OnlyOpsMerge
<1>6. CASE Total = 0
  <2>1. Survives(isOps)
    BY <1>2, <1>6 DEF Survives
  <2>2. InOrder
    BY <1>1, <1>2, <1>4, <1>6 DEF InOrder, TypeOK, Total
  <2> QED
    BY <2>1, <2>2, <1>4, <1>5, <1>6 DEF Sound, Merged
<1>7. CASE Total # 0
  <2>1. /\ block = 1 /\ 1 \in alive /\ Lo(1) = 1 /\ Hi(1) = 1 /\ Total >= 1
        /\ Rest(1) = 2 .. Total /\ Rest(3) = 4 .. Total
    BY <1>2, <1>3, <1>4, <1>7 DEF Rest
  <2>2. \A i \in Int : i < 1 => ~Merges(isOps, i)
    BY DEF Merges
  <2>3. Ahead
    <3>1. blocks.next[1] = IF 1 < Total THEN 1 + 1 ELSE NULL
      BY <1>2, <1>4, <2>1
    <3>2. \A i \in Rest(1) : /\ i \in alive /\ holds[i] = << i >>
                             /\ blocks.next[i] = IF i < Total THEN i + 1 ELSE NULL
      BY <1>2, <1>3, <1>4, <2>1
    <3>3. \A i \in Rest(1 + 2) : blocks.prev[i] = i - 1
      BY <1>2, <1>4, <2>1
    <3>4. 1 + 2 <= Total => blocks.prev[1 + 2] = 1 + 1
      BY <1>2, <1>4
    <3>5. 1 + 1 <= Total => blocks.prev[1 + 1] = 1
      BY <1>2, <1>4
    <3>6. blocks.prev[1] \notin Rest(1)
      BY <1>2, <1>4, <2>1, BfListAssumption
    <3>7. blocks.last \notin {NULL} \cup (1 + 1 .. Total - 1)
      BY <1>2, <1>4, <2>1, BfListAssumption
    <3>8. ~Merges(isOps, 1 - 1) /\ ~Merges(isOps, 1 - 2)
      BY <2>2
    <3> QED
      BY <2>1, <3>1, <3>2, <3>3, <3>4, <3>5, <3>6, <3>7, <3>8 DEF Ahead
  <2>4. Behind
    BY <1>2, <1>3, <2>1 DEF Behind
  <2>5. Clean
    <3>1. SurvivesUpTo(1)
      BY <1>2, <2>2 DEF SurvivesUpTo
    <3>2. \A x \in alive : ~(Hi(x) < 1)
      BY <1>2, <1>3
    <3>3. blocks.first = 1 /\ (1 + 1 < Total => blocks.last = Total) /\ blocks.prev[1] = NULL
      BY <1>4, <1>7, <2>1
    <3> QED
      BY <2>1, <3>1, <3>2, <3>3 DEF Clean
  <2>6. block # NULL
    BY <1>2, <2>1, BfListAssumption
  <2> QED
    BY <2>3, <2>4, <2>5, <2>6, <1>4, <1>5 DEF Sound, Merging
<1> QED
  BY <1>6, <1>7

\* The loop goes on to the next block, or comes to the end of the list.
LEMMA AdvanceSound ==
  ASSUME IInv, Advance
  PROVE  IInv'
<1>1. TypeOK /\ OnlyOpsMerge /\ status = "merging" /\ Looking /\ ~Mergeable
  BY DEF IInv, Sound, Advance, Looking
<1>2. /\ block' = Follower
      /\ isOps' = isOps /\ blocks' = blocks /\ alive' = alive /\ holds' = holds
      /\ status' = status
  BY DEF Advance
<1>3. Total' = Total /\ \A x : Lo(x)' = Lo(x) /\ Hi(x)' = Hi(x) /\ HoldsOps(x)' = HoldsOps(x)
  BY <1>2 DEF Total, Lo, Hi, HoldsOps
<1>4. \A x : InPlace(x)' = InPlace(x) /\ LeftOut(x)' = LeftOut(x)
  BY <1>2, <1>3 DEF InPlace, LeftOut, Total
<1>5. TypeOK'
  <2>1. Follower \in Pointer
    BY <1>1 DEF Looking, TypeOK, Pointer
  <2> QED
    BY <1>1, <1>2, <1>3, <2>1 DEF TypeOK
<1>6. OnlyOpsMerge' /\ blocks'.fault = FALSE
  BY <1>2, <1>3 DEF OnlyOpsMerge, IInv, Sound
<1>7. block \in alive /\ block # NULL
  BY <1>1, BfListAssumption DEF Looking, TypeOK
<1>8. Ahead /\ Behind /\ (Clean \/ (~Survives(isOps) /\ Lost))
  <2>1. ASSUME Doomed PROVE FALSE
    BY <1>1, <1>7, <2>1 DEF Doomed, Looking, Mergeable
  <2> QED
    BY <1>1, <1>7, <2>1 DEF IInv, Sound, Merging
<1>9. PICK a : a = Lo(block)
  OBVIOUS
<1>10. PICK b : b = Hi(block)
  OBVIOUS
<1>11. /\ block \in alive /\ block \in Node /\ block # NULL /\ block \notin Rest(b)
       /\ Total \in Nat /\ a \in 1 .. Total /\ b \in 1 .. Total /\ a <= b
       /\ Follower = IF b < Total THEN b + 1 ELSE NULL
       /\ b < Total => /\ b + 1 \in alive /\ b + 1 \in Node /\ b + 1 # block
                       /\ Lo(b + 1) = b + 1 /\ Hi(b + 1) = b + 1
                       /\ HoldsOps(b + 1) = isOps[b + 1]
                       /\ blocks.next[b + 1] = IF b + 1 < Total THEN b + 2 ELSE NULL
       /\ \A k \in a .. b : isOps[k] = HoldsOps(block)
       /\ a < b => HoldsOps(block)
       /\ HoldsOps(block) \in BOOLEAN
       /\ ~Merges(isOps, b)
  BY <1>1, <1>8, <1>9, <1>10, AheadLooking
<1>12. CASE ~(b < Total)
  <2>1. block' = NULL /\ b = Total /\ Rest(b) = {}
    BY <1>2, <1>11, <1>12 DEF Rest
  <2>2. CASE Clean
    <3>1. SurvivesUpTo(Total)
      BY <2>1, <2>2, <1>10 DEF Clean
    <3>2. Survives(isOps)
      <4> SUFFICES ASSUME NEW i \in DOMAIN isOps, Merges(isOps, i)
                   PROVE  i + 1 < Len(isOps) /\ (isOps[i + 2] \/ ~Merges(isOps, i + 3))
        BY DEF Survives
      <4>1. i \in Int /\ i < Total /\ (Merges(isOps, i + 3) => i + 3 < Total)
        BY <1>11 DEF Merges, Total
      <4> QED
        BY <3>1, <4>1 DEF SurvivesUpTo, Total
    <3>3. InPlace(block)
      <4>1. blocks.next[block] = NULL
        BY <1>11, <1>12 DEF Follower
      <4> QED
        BY <2>1, <4>1, <1>10 DEF InPlace, Total
    <3>4. \A x \in alive : InPlace(x)
      BY <1>8, <1>9, <1>10, <2>1, <2>2, <3>3 DEF Behind, Clean
    <3>5. isOps # << >> /\ blocks.first \in alive /\ Lo(blocks.first) = 1
      BY <1>11, <2>2 DEF Clean, Total
    <3>6. InOrder
      BY <3>4, <3>5 DEF InOrder
    <3>7. InOrder'
      BY <3>4, <3>5, <1>2, <1>3, <1>4 DEF InOrder
    <3> QED
      BY <3>2, <3>7, <2>1, <1>1, <1>2, <1>5, <1>6 DEF IInv, Sound, Merged
  <2>3. CASE ~Survives(isOps) /\ Lost
    <3>1. \E x \in alive : LeftOut(x)
      BY <2>3 DEF Lost
    <3> QED
      BY <3>1, <2>1, <2>3, <1>1, <1>2, <1>4, <1>5, <1>6 DEF IInv, Sound, Merged
  <2> QED
    BY <2>2, <2>3, <1>8
<1>13. CASE b < Total
  <2>1. /\ block' = b + 1 /\ b + 1 # NULL /\ Lo(block)' = b + 1 /\ Hi(block)' = b + 1
    BY <1>2, <1>3, <1>11, <1>13, BfListAssumption DEF Lo, Hi
  <2>2. /\ \A i \in Rest(b) : /\ i \in alive /\ holds[i] = << i >>
                              /\ blocks.next[i] = IF i < Total THEN i + 1 ELSE NULL
        /\ \A i \in Rest(b + 2) : blocks.prev[i] = i - 1
        /\ b + 2 <= Total => IF a = b THEN blocks.prev[b + 2] = b + 1
                             ELSE blocks.prev[b + 2] \notin {NULL} \cup Rest(b)
        /\ IF ~isOps[b] /\ Merges(isOps, b - 2)
           THEN blocks.prev[b + 1] \notin {NULL, block} \cup Rest(b)
           ELSE blocks.prev[b + 1] = block
        /\ ~Merges(isOps, a - 1)
        /\ a = b => block = b
        /\ blocks.last \notin {NULL} \cup (b + 1 .. Total - 1)
    BY <1>8, <1>9, <1>10, <1>11, <1>13 DEF Ahead
  <2>3. Rest(b) = b + 1 .. Total /\ Rest(b + 1) = b + 2 .. Total
        /\ Rest(b + 2) = b + 3 .. Total /\ Rest(b + 1 + 2) = b + 4 .. Total
    BY <1>11 DEF Rest
  <2>4. Ahead'
    <3>1. blocks.next[b + 1] = IF b + 1 < Total THEN (b + 1) + 1 ELSE NULL
      BY <1>11, <1>13
    <3>2. \A i \in Rest(b + 1) : /\ i \in alive /\ holds[i] = << i >>
                                 /\ blocks.next[i] = IF i < Total THEN i + 1 ELSE NULL
      BY <2>2, <2>3, <1>11
    <3>3. \A i \in Rest(b + 1 + 2) : blocks.prev[i] = i - 1
      <4>1. Rest(b + 1 + 2) \subseteq Rest(b + 2)
        BY <2>3, <1>11
      <4> QED
        BY <2>2, <4>1
    <3>4. (b + 1) + 2 <= Total => blocks.prev[(b + 1) + 2] = (b + 1) + 1
      BY <2>2, <2>3, <1>11
    <3>5. (b + 1) + 1 <= Total => IF ~isOps[b + 1] /\ Merges(isOps, (b + 1) - 2)
                                  THEN blocks.prev[(b + 1) + 1] \notin {NULL, b + 1} \cup Rest(b + 1)
                                  ELSE blocks.prev[(b + 1) + 1] = b + 1
      <4>1. CASE a = b
        <5>1. ~Merges(isOps, b - 1) /\ (b + 1) - 2 = b - 1
          BY <4>1, <2>2, <1>11
        <5> QED
          BY <4>1, <5>1, <2>2, <1>11
      <4>2. CASE a # b
        <5>1. b - 1 \in a .. b /\ b \in a .. b
          BY <4>2, <1>11
        <5>2. isOps[b - 1] /\ isOps[b]
          BY <5>1, <4>2, <1>11
        <5>3. Merges(isOps, b - 1) /\ (b + 1) - 2 = b - 1
          BY <5>1, <5>2, <1>11, <1>13 DEF Merges, Total
        <5>4. ~isOps[b + 1]
          BY <5>2, <1>11, <1>13 DEF Merges, Total
        <5>5. (b + 1) + 1 = b + 2 /\ b + 1 \in Rest(b) /\ Rest(b + 1) \subseteq Rest(b)
          BY <2>3, <1>11, <1>13
        <5> QED
          BY <4>2, <5>3, <5>4, <5>5, <2>2
      <4> QED
        BY <4>1, <4>2
    <3>6. blocks.prev[b + 1] \notin Rest(b + 1)
      BY <2>2, <2>3, <1>11
    <3>7. blocks.last \notin {NULL} \cup ((b + 1) + 1 .. Total - 1)
      BY <2>2, <1>11
    <3>8. ~Merges(isOps, (b + 1) - 1)
      <4>1. (b + 1) - 1 = b
        BY <1>11
      <4> QED
        BY <4>1, <1>11
    <3> QED
      BY <2>1, <3>1, <3>2, <3>3, <3>4, <3>5, <3>6, <3>7, <3>8, <1>2, <1>3, <1>11, <1>13
      DEF Ahead, Rest
  <2>5. Behind'
    <3>1. \A x \in alive : x = block \/ Hi(x) < a \/ x \in Rest(b)
      BY <1>8, <1>9, <1>10 DEF Behind
    <3>2. \A x \in alive : x = b + 1 \/ Hi(x) < b + 1 \/ x \in Rest(b + 1)
      <4> TAKE x \in alive
      <4>1. Hi(x) \in Int
        BY <1>1, Numbers
      <4> QED
        BY <3>1, <4>1, <2>3, <1>10, <1>11
    <3> QED
      BY <2>1, <3>2, <1>2, <1>3 DEF Behind, Rest
  <2>6. ASSUME Clean PROVE Clean'
    <3>1. SurvivesUpTo(b + 1)
      <4>1. SurvivesUpTo(b)
        BY <2>6, <1>10 DEF Clean
      <4> SUFFICES ASSUME NEW i \in DOMAIN isOps, Merges(isOps, i)
                   PROVE  /\ i < b + 1 => i + 1 < Total
                          /\ i + 3 < b + 1 => isOps[i + 2] \/ ~Merges(isOps, i + 3)
        BY DEF SurvivesUpTo
      <4>2. i \in Int /\ i # b /\ (i + 3 = b => ~Merges(isOps, i + 3))
        BY <1>11 DEF Merges
      <4> QED
        BY <4>1, <4>2, <1>11 DEF SurvivesUpTo
    <3>2. \A x \in alive : Hi(x) < b + 1 => InPlace(x)
      <4> SUFFICES ASSUME NEW x \in alive, Hi(x) < b + 1 PROVE InPlace(x)
        OBVIOUS
      <4>1. CASE x = block
        <5>1. blocks.next[x] = b + 1
          BY <4>1, <1>11, <1>13 DEF Follower
        <5>2. ~(HoldsOps(x) /\ HoldsOps(b + 1))
          BY <4>1, <1>11, <1>13 DEF Merges, Total
        <5> QED
          BY <4>1, <5>1, <5>2, <1>10, <1>11, <1>13, BfListAssumption DEF InPlace
      <4>2. CASE Hi(x) < a
        BY <4>2, <2>6, <1>9 DEF Clean
      <4>3. CASE x \in Rest(b)
        BY <4>3, <2>3, <1>1, <1>8, <1>10, <1>11, RestBlocks
      <4> QED
        BY <4>1, <4>2, <4>3, <1>8, <1>9, <1>10 DEF Behind
    <3>3. blocks.first \in alive /\ Lo(blocks.first) = 1
          /\ ((b + 1) + 1 < Total => blocks.last = Total)
      BY <2>6, <1>10, <1>11 DEF Clean
    <3>4. b + 1 # 1 /\ (b + 1) - 1 = b /\ (b + 1) - 3 = b - 2
      BY <1>11
    <3>5. CASE StaleAt(b + 1)
      <4>1. ~isOps[b] /\ Merges(isOps, b - 2)
        BY <3>4, <3>5 DEF StaleAt
      <4>2. a = b /\ block = b
        BY <4>1, <2>2, <1>11
      <4>3. b \in alive /\ Lo(b) = b /\ Hi(b) = b /\ blocks.prev[b + 1] \notin {NULL, b} \cup Rest(b)
        BY <4>1, <4>2, <2>2, <1>9, <1>10, <1>11
      <4> QED
        BY <3>1, <3>2, <3>3, <3>4, <3>5, <4>3, <2>1, <1>2, <1>3, <1>4
        DEF Clean, StaleAt, SurvivesUpTo, Rest
    <3>6. CASE ~StaleAt(b + 1)
      <4>1. blocks.prev[b + 1] = block
        BY <3>4, <3>6, <2>2 DEF StaleAt
      <4> QED
        BY <3>1, <3>2, <3>3, <3>4, <3>6, <4>1, <2>1, <1>2, <1>3, <1>4, <1>10, <1>11
        DEF Clean, StaleAt, SurvivesUpTo, Rest
    <3> QED
      BY <3>5, <3>6
  <2>7. ASSUME Lost PROVE Lost'
    <3>1. PICK x \in alive : Hi(x) + 1 < a /\ LeftOut(x)
      BY <2>7, <1>9 DEF Lost
    <3>2. Hi(x) + 1 < b + 1
      BY <3>1, <1>1, <1>11, Numbers
    <3> QED
      BY <3>1, <3>2, <2>1, <1>2, <1>3, <1>4 DEF Lost
  <2> QED
    BY <2>1, <2>4, <2>5, <2>6, <2>7, <1>1, <1>2, <1>5, <1>6, <1>8 DEF IInv, Sound, Merging
<1> QED
  BY <1>12, <1>13

\* What is allocated after a merge, and what it holds.
LEMMA MergedHolds ==
  ASSUME TypeOK, OnlyOpsMerge, Ahead, Mergeable, NEW r \in Node, r \notin alive,
         NEW a, NEW b, a = Lo(block), b = Hi(block),
         isOps' = isOps, alive' = (alive \cup {r}) \ Freed,
         holds' = [holds EXCEPT ![r] = holds[block] \o holds[Follower]]
  PROVE  /\ alive' = (alive \ {block, b + 1}) \cup {r}
         /\ Total' = Total
         /\ Lo(r)' = a /\ Hi(r)' = b + 1 /\ HoldsOps(r)'
         /\ \A x \in alive : /\ holds'[x] = holds[x]
                             /\ Lo(x)' = Lo(x) /\ Hi(x)' = Hi(x) /\ HoldsOps(x)' = HoldsOps(x)
         /\ holds' \in [Node -> Seq(1 .. Total)]
         /\ \A x \in alive' : /\ holds'[x] # << >>
                              /\ \A k \in DOMAIN holds'[x] : holds'[x][k] = Lo(x)' + k - 1
         /\ \A x, y \in alive' : x # y => Hi(x)' < Lo(y)' \/ Hi(y)' < Lo(x)'
         /\ OnlyOpsMerge'
<1>1. /\ block \in alive /\ block \in Node /\ Total \in Nat
      /\ a \in 1 .. Total /\ b \in 1 .. Total /\ a <= b
      /\ b < Total /\ Follower = b + 1 /\ b + 1 \in alive /\ b + 1 \in Node /\ b + 1 # block
      /\ Lo(b + 1) = b + 1 /\ Hi(b + 1) = b + 1
      /\ HoldsOps(block) /\ HoldsOps(b + 1)
      /\ \A k \in a .. b : isOps[k] = HoldsOps(block)
      /\ isOps[b + 1]
  BY AheadLooking DEF Mergeable
<1>2. alive' = (alive \ {block, b + 1}) \cup {r} /\ r # block /\ r # b + 1
  BY <1>1 DEF Freed
<1>3. Total' = Total
  BY DEF Total
<1>4. holds \in [Node -> Seq(1 .. Total)]
  BY <1>1 DEF TypeOK, Total
<1>5. \A x \in alive : /\ x \in Node /\ holds'[x] = holds[x]
                       /\ Lo(x)' = Lo(x) /\ Hi(x)' = Hi(x) /\ HoldsOps(x)' = HoldsOps(x)
  <2> TAKE x \in alive
  <2>1. x \in Node /\ x # r
    BY Numbers
  <2>2. holds'[x] = holds[x]
    BY <2>1, <1>4
  <2> QED
    BY <2>1, <2>2 DEF Lo, Hi, HoldsOps
<1>6. PICK s : s = holds[block]
  OBVIOUS
<1>7. PICK t : t = holds[b + 1]
  OBVIOUS
<1>8. /\ s \in Seq(1 .. Total) /\ Len(s) = b - a + 1
      /\ \A k \in 1 .. Len(s) : s[k] = a + k - 1
      /\ t \in Seq(1 .. Total) /\ Len(t) = 1 /\ t[1] = b + 1
  <2>1. s \in Seq(1 .. Total) /\ Len(s) = b - a + 1
    BY <1>1, <1>6, Numbers
  <2>2. t \in Seq(1 .. Total) /\ Len(t) = Hi(b + 1) - Lo(b + 1) + 1
    BY <1>1, <1>7, Numbers
  <2>3. t[1] = b + 1
    BY <1>1, <1>7 DEF Lo
  <2>4. \A k \in 1 .. Len(s) : s[k] = a + k - 1
    <3>1. DOMAIN s = 1 .. Len(s)
      BY <2>1
    <3>2. \A k \in DOMAIN holds[block] : holds[block][k] = Lo(block) + k - 1
      BY <1>1 DEF TypeOK
    <3> QED
      BY <3>1, <3>2, <1>6
  <2>5. Len(t) = 1
    <3>1. Hi(b + 1) - Lo(b + 1) + 1 = 1
      BY <1>1
    <3> QED
      BY <2>2, <3>1
  <2> QED
    BY <2>1, <2>2, <2>3, <2>4, <2>5
<1>9. PICK u : u = s \o t
  OBVIOUS
<1>10. /\ u \in Seq(1 .. Total) /\ Len(u) = b - a + 2
       /\ \A k \in 1 .. Len(u) : u[k] = a + k - 1
  <2>1. u \in Seq(1 .. Total)
    BY <1>8, <1>9
  <2>c. /\ Len(s \o t) = Len(s) + Len(t)
        /\ \A k \in 1 .. Len(s) + Len(t) : (s \o t)[k] = IF k <= Len(s) THEN s[k]
                                                        ELSE t[k - Len(s)]
    <3>1. s \in Seq(1 .. Total) /\ t \in Seq(1 .. Total)
      BY <1>8
    <3> QED
      BY <3>1, ConcatProperties
  <2>0. a \in Int /\ b \in Int /\ a <= b
    BY <1>1
  <2>2. Len(u) = b - a + 2
    <3>1. Len(u) = Len(s) + Len(t)
      BY <2>c, <1>9
    <3> QED
      BY <2>0, <3>1, <1>8
  <2>3. \A k \in 1 .. Len(u) : u[k] = a + k - 1
    <3> TAKE k \in 1 .. Len(u)
    <3>1. CASE k <= Len(s)
      <4>1. k \in 1 .. Len(s) /\ u[k] = s[k]
        BY <3>1, <2>0, <1>8, <1>9, <2>2
      <4> QED
        BY <4>1, <1>8
    <3>2. CASE ~(k <= Len(s))
      <4>1. k = Len(s) + 1 /\ k = b - a + 2
        BY <3>2, <2>0, <1>8, <2>2
      <4>2. u[k] = t[1]
        <5>1. k \in 1 .. Len(s) + Len(t) /\ ~(k <= Len(s)) /\ k - Len(s) = 1
          <6>1. Len(s) \in Nat /\ Len(t) = 1
            BY <1>8
          <6> QED
            BY <6>1, <4>1
        <5> QED
          BY <5>1, <2>c, <1>9
      <4>3. a + k - 1 = b + 1
        BY <4>1, <2>0
      <4> QED
        BY <4>2, <4>3, <1>8
    <3> QED
      BY <3>1, <3>2
  <2> QED
    BY <2>1, <2>2, <2>3
<1>11. holds'[r] = u
  BY <1>1, <1>4, <1>6, <1>7, <1>9
<1>12. Lo(r)' = a /\ Hi(r)' = b + 1
  <2>1. 1 \in 1 .. Len(u)
    BY <1>1, <1>10
  <2>2. u[1] = a /\ u[1] + Len(u) - 1 = b + 1
    BY <2>1, <1>1, <1>10
  <2> QED
    BY <2>2, <1>11 DEF Lo, Hi
<1>13. HoldsOps(r)'
  <2>1. HoldsOps(r)' = isOps[Lo(r)'] /\ HoldsOps(block) = isOps[a]
    BY DEF HoldsOps, Lo
  <2> QED
    BY <2>1, <1>1, <1>12
<1>14. holds' \in [Node -> Seq(1 .. Total)]
  <2>1. holds[block] \o holds[Follower] = u
    BY <1>1, <1>6, <1>7, <1>9
  <2> QED
    BY <2>1, <1>4, <1>10
<1>15. \A x \in alive' : /\ holds'[x] # << >>
                         /\ \A k \in DOMAIN holds'[x] : holds'[x][k] = Lo(x)' + k - 1
  <2> TAKE x \in alive'
  <2>1. CASE x = r
    <3>1. u # << >> /\ DOMAIN u = 1 .. Len(u)
      BY <1>1, <1>10
    <3> QED
      BY <2>1, <3>1, <1>10, <1>11, <1>12
  <2>2. CASE x # r
    <3>1. x \in alive
      BY <2>2, <1>2
    <3> QED
      BY <3>1, <1>5 DEF TypeOK
  <2> QED
    BY <2>1, <2>2
<1>16. \A x \in alive \ {block, b + 1} : Hi(x)' < a \/ b + 1 < Lo(x)'
  <2> TAKE x \in alive \ {block, b + 1}
  <2>1. /\ Hi(x) < Lo(block) \/ Hi(block) < Lo(x)
        /\ Hi(x) < Lo(b + 1) \/ Hi(b + 1) < Lo(x)
    BY <1>1 DEF TypeOK
  <2>2. Lo(x) \in Int /\ Hi(x) \in Int /\ Lo(x) <= Hi(x)
    BY Numbers
  <2>3. a \in Int /\ b \in Int /\ a <= b /\ Lo(b + 1) = b + 1 /\ Hi(b + 1) = b + 1
    BY <1>1
  <2>4. Hi(x) < a \/ b + 1 < Lo(x)
    BY <2>1, <2>2, <2>3
  <2> QED
    BY <2>4, <1>5
<1>17. \A x, y \in alive' : x # y => Hi(x)' < Lo(y)' \/ Hi(y)' < Lo(x)'
  <2> SUFFICES ASSUME NEW x \in alive', NEW y \in alive', x # y
               PROVE  Hi(x)' < Lo(y)' \/ Hi(y)' < Lo(x)'
    OBVIOUS
  <2>1. CASE x = r \/ y = r
    BY <2>1, <1>2, <1>12, <1>16
  <2>2. CASE x # r /\ y # r
    <3>1. x \in alive /\ y \in alive
      BY <2>2, <1>2
    <3>2. Hi(x) < Lo(y) \/ Hi(y) < Lo(x)
      BY <3>1 DEF TypeOK
    <3> QED
      BY <3>1, <3>2, <1>5
  <2> QED
    BY <2>1, <2>2
<1>18. OnlyOpsMerge'
  <2> SUFFICES ASSUME NEW x \in alive', Lo(x)' < Hi(x)', NEW k \in Lo(x)' .. Hi(x)'
               PROVE  isOps'[k]
    BY DEF OnlyOpsMerge
  <2>1. CASE x = r
    <3>1. k \in a .. b \/ k = b + 1
      BY <2>1, <1>1, <1>12
    <3> QED
      BY <3>1, <1>1
  <2>2. CASE x # r
    <3>1. x \in alive
      BY <2>2, <1>2
    <3>2. Lo(x) < Hi(x) /\ k \in Lo(x) .. Hi(x)
      BY <3>1, <1>5
    <3> QED
      BY <3>1, <3>2 DEF OnlyOpsMerge
  <2> QED
    BY <2>1, <2>2
<1> QED
  BY <1>2, <1>3, <1>5, <1>12, <1>13, <1>14, <1>15, <1>17, <1>18

\* A crash, of a list that does not survive.
LEMMA DiesSound ==
  ASSUME IInv, ~Survives(isOps), UNCHANGED <<isOps, blocks, alive, holds, block>>,
         status' \in {"crashed", "wild"}
  PROVE  IInv'
<1>1. Total' = Total /\ \A x : Lo(x)' = Lo(x) /\ Hi(x)' = Hi(x)
  BY DEF Total, Lo, Hi
<1>2. TypeOK'
  BY <1>1 DEF IInv, TypeOK
<1>3. OnlyOpsMerge'
  BY <1>1 DEF IInv, Sound, OnlyOpsMerge
<1> QED
  BY <1>2, <1>3 DEF IInv, Sound

\* Two lists that do not survive: the merge takes the last block, or starts
\* where the prev is stale.
LEMMA DoesNotSurvive ==
  ASSUME TypeOK, NEW i, Merges(isOps, i), i + 1 = Total \/ StaleAt(i)
  PROVE  ~Survives(isOps)
<1>1. i \in DOMAIN isOps /\ i \in Int /\ Total \in Nat /\ DOMAIN isOps = 1 .. Total
  BY DEF Merges, TypeOK, Total
<1>2. CASE i + 1 = Total
  BY <1>1, <1>2 DEF Survives, Total
<1>3. CASE StaleAt(i)
  <2>1. PICK j : j = i - 3
    OBVIOUS
  <2>2. Merges(isOps, j) /\ j + 2 = i - 1 /\ j + 3 = i /\ ~isOps[i - 1]
    BY <2>1, <1>1, <1>3 DEF StaleAt
  <2>3. j \in DOMAIN isOps
    BY <2>2 DEF Merges
  <2>4. ~(isOps[j + 2] \/ ~Merges(isOps, j + 3))
    BY <2>2
  <2> QED
    BY <2>2, <2>3, <2>4 DEF Survives
<1> QED
  BY <1>2, <1>3

\* A merge that finds all it needs takes the loop on to the merged block.
LEMMA MergesOn ==
  ASSUME TypeOK, OnlyOpsMerge, Mergeable, Ahead, Behind, Clean \/ (~Survives(isOps) /\ Lost),
         NEW r \in Node, r \notin alive, NEW a, NEW b, a = Lo(block), b = Hi(block),
         NEW v, v = blocks.prev[block], v # r, v \in alive \cup {NULL},
         b + 1 < Total, MergedInto(blocks, block, b + 2, r, blocks'),
         isOps' = isOps, alive' = (alive \cup {r}) \ Freed, block' = r,
         holds' = [holds EXCEPT ![r] = holds[block] \o holds[Follower]]
  PROVE  Merging'
<1>1. /\ alive' = (alive \ {block, b + 1}) \cup {r}
      /\ Total' = Total
      /\ Lo(r)' = a /\ Hi(r)' = b + 1 /\ HoldsOps(r)'
      /\ \A x \in alive : /\ holds'[x] = holds[x]
                          /\ Lo(x)' = Lo(x) /\ Hi(x)' = Hi(x) /\ HoldsOps(x)' = HoldsOps(x)
  BY MergedHolds
<1>2. /\ block \in alive /\ block \in Node /\ block # NULL /\ block \notin Rest(b)
      /\ Total \in Nat /\ a \in 1 .. Total /\ b \in 1 .. Total /\ a <= b
      /\ Follower = b + 1 /\ b + 1 \in alive /\ b + 1 \in Node /\ b + 1 # block
      /\ Lo(b + 1) = b + 1 /\ Hi(b + 1) = b + 1
      /\ HoldsOps(block) /\ Merges(isOps, b)
      /\ \A k \in a .. b : isOps[k]
      /\ isOps[b + 1]
  <2>1. HoldsOps(block) /\ Merges(isOps, b)
    BY AheadLooking DEF Mergeable
  <2>2. b < Total /\ isOps[b + 1]
    BY <2>1, AheadLooking DEF Merges, Total
  <2> QED
    BY <2>1, <2>2, AheadLooking
<1>3. /\ \A i \in Rest(b) : /\ i \in alive /\ holds[i] = << i >>
                            /\ blocks.next[i] = IF i < Total THEN i + 1 ELSE NULL
      /\ \A i \in Rest(b + 2) : blocks.prev[i] = i - 1
      /\ IF a = b THEN blocks.prev[b + 2] = b + 1
         ELSE blocks.prev[b + 2] \notin {NULL} \cup Rest(b)
      /\ v \notin Rest(b)
      /\ ~Merges(isOps, a - 1)
      /\ a = b => block = b
      /\ blocks.last \notin {NULL} \cup (b + 1 .. Total - 1)
  <2>1. b + 2 <= Total
    BY <1>2
  <2> QED
    BY <2>1 DEF Ahead
<1>4. /\ Rest(b) = b + 1 .. Total /\ Rest(b + 1) = b + 2 .. Total
      /\ Rest(b + 2) = b + 3 .. Total /\ Rest(b + 1 + 2) = b + 4 .. Total
      /\ b + 2 \in Rest(b + 1) /\ b + 2 \in Rest(b) /\ b + 2 \in Node
  <2>1. b + 2 \in Rest(b)
    BY <1>2 DEF Rest
  <2> QED
    BY <2>1, <1>2, RestBlocks DEF Rest
<1>5. \A i \in Rest(b) : /\ i \in Node /\ i \notin {block, r, v} /\ i \in Int
                         /\ Lo(i) = i /\ Hi(i) = i
  BY <1>2, <1>3, <1>4, RestBlocks
<1>6. blocks.next[b + 2] = (IF b + 2 < Total THEN b + 3 ELSE NULL) /\ blocks.last # NULL
      /\ (b + 2 < Total => blocks.last # b + 2)
  BY <1>2, <1>3, <1>4
<1>7. /\ blocks'.first = IF v = NULL THEN r ELSE blocks.first
      /\ blocks'.last = IF blocks.last = b + 2 THEN blocks.prev[b + 2] ELSE blocks.last
      /\ blocks'.next[r] = b + 2
      /\ v # NULL => blocks'.next[v] = r
      /\ \A w \in Node : w \notin {block, r, v} => blocks'.next[w] = blocks.next[w]
      /\ blocks'.prev[r] = v /\ blocks'.prev[b + 2] = r
      /\ \A w \in Node : w \notin {r, b + 2} =>
           blocks'.prev[w] = IF blocks.last # b + 2 /\ w = blocks.next[b + 2]
                             THEN blocks.prev[b + 2] ELSE blocks.prev[w]
  BY DEF MergedInto
<1>8. r # NULL /\ r \in alive'
  BY <1>1, BfListAssumption
<1>9. \A x \in alive : x # block /\ x # b + 1 => x \in alive' /\ x # r /\ x \in Node
  BY <1>1, Numbers
<1>10. Ahead'
  <2>1. blocks'.next[r] = IF b + 1 < Total THEN (b + 1) + 1 ELSE NULL
    BY <1>2, <1>7
  <2>2. \A i \in Rest(b + 1) : /\ i \in alive' /\ holds'[i] = << i >>
                               /\ blocks'.next[i] = IF i < Total THEN i + 1 ELSE NULL
    <3> TAKE i \in Rest(b + 1)
    <3>1. i \in Rest(b) /\ i # b + 1
      BY <1>2, <1>4
    <3>2. i \in alive /\ i # block /\ i \in Node /\ i \notin {block, r, v}
      BY <3>1, <1>3, <1>5
    <3>3. holds[i] = << i >> /\ blocks.next[i] = IF i < Total THEN i + 1 ELSE NULL
      BY <3>1, <1>3
    <3>4. holds'[i] = holds[i] /\ i \in alive' /\ blocks'.next[i] = blocks.next[i]
      BY <3>1, <3>2, <1>1, <1>7
    <3> QED
      BY <3>3, <3>4
  <2>3. \A i \in Rest((b + 1) + 2) : blocks'.prev[i] = i - 1
    <3> TAKE i \in Rest((b + 1) + 2)
    <3>1. i \in Rest(b) /\ i \in Rest(b + 2) /\ i # b + 2 /\ i # b + 3
      BY <1>2, <1>4
    <3>2. i \in Node /\ i # r /\ i # NULL
      BY <3>1, <1>5, BfListAssumption
    <3> QED
      BY <3>1, <3>2, <1>3, <1>6, <1>7
  <2>4. blocks.prev[b + 2] \notin {NULL} \cup Rest(b + 1)
    BY <1>2, <1>3, <1>4, BfListAssumption
  <2>5. (b + 1) + 2 <= Total => blocks'.prev[(b + 1) + 2] \notin {NULL} \cup Rest(b + 1)
    <3> SUFFICES ASSUME b + 3 <= Total
                 PROVE  blocks'.prev[b + 3] \notin {NULL} \cup Rest(b + 1)
      BY <1>2
    <3>1. b + 3 \in Node /\ b + 3 # r /\ b + 3 # b + 2
      BY <1>2, <1>4, <1>5
    <3>2. blocks.last # b + 2 /\ blocks.next[b + 2] = b + 3
      BY <1>2, <1>6
    <3>3. blocks'.prev[b + 3] = blocks.prev[b + 2]
      BY <3>1, <3>2, <1>7
    <3> QED
      BY <3>3, <2>4
  <2>6. blocks'.prev[(b + 1) + 1] = r
    BY <1>2, <1>7
  <2>7. blocks'.prev[r] \notin Rest(b + 1)
    BY <1>2, <1>3, <1>4, <1>7
  <2>8. blocks'.last \notin {NULL} \cup ((b + 1) + 1 .. Total - 1)
    <3>1. (b + 1) + 1 .. Total - 1 \subseteq Rest(b + 1)
          /\ (b + 1) + 1 .. Total - 1 \subseteq b + 1 .. Total - 1
      BY <1>2, <1>4
    <3> QED
      BY <3>1, <2>4, <1>3, <1>7
  <2>9. a # b + 1 /\ isOps[b + 1]
    BY <1>2
  <2>10. Lo(block)' = a /\ Hi(block)' = b + 1
    BY <1>1 DEF Lo, Hi
  <2>11. \A k : Rest(k)' = Rest(k)
    BY <1>1 DEF Rest
  <2>12. (blocks.next[block] = IF Hi(block) < Total THEN Hi(block) + 1 ELSE NULL)'
    BY <2>1, <2>10, <1>1
  <2>13. (\A i \in Rest(Hi(block)) : /\ i \in alive /\ holds[i] = << i >>
                                    /\ blocks.next[i] = IF i < Total THEN i + 1 ELSE NULL)'
    BY <2>2, <2>10, <2>11, <1>1
  <2>14. (\A i \in Rest(Hi(block) + 2) : blocks.prev[i] = i - 1)'
    BY <2>3, <2>10, <2>11
  <2>15. (Hi(block) + 2 <= Total =>
           IF Lo(block) = Hi(block) THEN blocks.prev[Hi(block) + 2] = Hi(block) + 1
           ELSE blocks.prev[Hi(block) + 2] \notin {NULL} \cup Rest(Hi(block)))'
    BY <2>5, <2>9, <2>10, <2>11, <1>1
  <2>16. (Hi(block) + 1 <= Total =>
           IF ~isOps[Hi(block)] /\ Merges(isOps, Hi(block) - 2)
           THEN blocks.prev[Hi(block) + 1] \notin {NULL, block} \cup Rest(Hi(block))
           ELSE blocks.prev[Hi(block) + 1] = block)'
    BY <2>6, <2>9, <2>10
  <2>17. (blocks.prev[block] \notin Rest(Hi(block)))'
    BY <2>7, <2>10, <2>11
  <2>18. (~Merges(isOps, Lo(block) - 1))' /\ (Lo(block) # Hi(block))'
    BY <2>9, <2>10, <1>3
  <2>19. (blocks.last \notin {NULL} \cup (Hi(block) + 1 .. Total - 1))'
    BY <2>8, <2>10, <1>1
  <2> QED
    BY <2>12, <2>13, <2>14, <2>15, <2>16, <2>17, <2>18, <2>19, <1>8 DEF Ahead
<1>11. Behind'
  <2>1. \A x \in alive' : x = r \/ Hi(x)' < a \/ x \in Rest(b + 1)
    <3> SUFFICES ASSUME NEW x \in alive', x # r PROVE Hi(x)' < a \/ x \in Rest(b + 1)
      OBVIOUS
    <3>1. x \in alive /\ x # block /\ x # b + 1
      BY <1>1
    <3>2. Hi(x) < a \/ x \in Rest(b)
      BY <3>1 DEF Behind
    <3> QED
      BY <3>1, <3>2, <1>1, <1>2, <1>4
  <2>2. Lo(block)' = a /\ Hi(block)' = b + 1
    BY <1>1 DEF Lo, Hi
  <2> QED
    BY <2>1, <2>2, <1>1 DEF Behind, Rest
<1>12. ASSUME NEW x \in alive, x \notin {block, b + 1}, v # x, LeftOut(x), Hi(x) + 1 < a
       PROVE  LeftOut(x)'
  <2>1. PICK y : y = blocks.next[x]
    OBVIOUS
  <2>2. blocks'.next[x] = y /\ x \in Node /\ Hi(x)' = Hi(x)
    BY <2>1, <1>1, <1>7, <1>9, <1>12
  <2>3. y # NULL /\ (y \in alive => Lo(y) > Hi(x) + 1)
    BY <2>1, <1>12 DEF LeftOut
  <2>4. y \in alive' => Lo(y)' > Hi(x) + 1
    <3>1. CASE y = r
      <4>1. Hi(x) \in Int /\ a \in Int
        BY <1>2, Numbers
      <4> QED
        BY <3>1, <4>1, <1>1, <1>12
    <3>2. CASE y # r
      BY <3>2, <2>3, <1>1
    <3> QED
      BY <3>1, <3>2
  <2> QED
    BY <2>2, <2>3, <2>4 DEF LeftOut, Lo
<1>13. ASSUME v \in alive, Hi(v) + 1 < a
       PROVE  LeftOut(v)'
  <2>1. v # NULL /\ blocks'.next[v] = r /\ Hi(v)' = Hi(v) /\ Hi(v) \in Int
    BY <1>1, <1>7, <1>13, BfListAssumption, Numbers
  <2>2. Lo(blocks.next[v])' = a
    BY <2>1, <1>1 DEF Lo
  <2> QED
    BY <2>1, <2>2, <1>2, <1>8, <1>13 DEF LeftOut
<1>14. \A x \in alive : Hi(x) + 1 < a => x \notin {block, b + 1}
  <2> SUFFICES ASSUME NEW x \in alive, Hi(x) + 1 < a PROVE x # block /\ x # b + 1
    OBVIOUS
  <2> QED
    BY <1>2
<1>15. CASE ~Survives(isOps) /\ Lost
  <2>1. PICK x \in alive : Hi(x) + 1 < a /\ LeftOut(x)
    BY <1>15 DEF Lost
  <2>2. LeftOut(x)' /\ x \in alive' /\ Hi(x)' + 1 < a
    BY <2>1, <1>1, <1>9, <1>12, <1>13, <1>14
  <2>3. Lo(block)' = a
    BY <1>1 DEF Lo
  <2> QED
    BY <2>2, <2>3, <1>10, <1>11, <1>15 DEF Merging, Lost
<1>16. CASE Clean /\ StaleAt(a)
  <2>1. /\ a = b /\ a - 1 \in alive /\ Lo(a - 1) = a - 1 /\ Hi(a - 1) = a - 1
        /\ v \notin {NULL, a - 1} \cup Rest(a - 1)
    <3>1. a # 1
      BY <1>2, <1>16 DEF StaleAt, Merges
    <3> QED
      BY <3>1, <1>16 DEF Clean
  <2>2. ~Survives(isOps)
    BY <2>1, <1>2, <1>16, DoesNotSurvive
  <2>3. v \in alive /\ v # block
    BY <2>1, <1>2, <1>3 DEF Rest
  <2>4. Hi(v) < a /\ Lo(v) <= Hi(v) /\ Hi(v) \in Int /\ Lo(v) \in Int
    BY <2>3, <1>3, Numbers DEF Behind
  <2>5. Hi(v) # a - 1
    BY <2>1, <2>3, <2>4, Apart
  <2>6. Hi(v) + 1 < a
    BY <2>4, <2>5, <1>2
  <2>7. LeftOut(v)' /\ v \in alive' /\ Hi(v)' + 1 < a
    BY <2>3, <2>6, <1>1, <1>9, <1>13, <1>14
  <2>8. Lo(block)' = a
    BY <1>1 DEF Lo
  <2> QED
    BY <2>2, <2>7, <2>8, <1>10, <1>11 DEF Merging, Lost
<1>17. CASE Clean /\ ~StaleAt(a)
  <2>1. /\ SurvivesUpTo(b)
        /\ \A x \in alive : Hi(x) < a => InPlace(x)
        /\ blocks.first \in alive /\ Lo(blocks.first) = 1
        /\ blocks.last = Total
        /\ IF a = 1 THEN v = NULL ELSE v \in alive /\ Hi(v) = a - 1
    BY <1>17 DEF Clean
  <2>2. SurvivesUpTo(b + 1)
    <3> SUFFICES ASSUME NEW i \in DOMAIN isOps, Merges(isOps, i)
                 PROVE  /\ i < b + 1 => i + 1 < Total
                        /\ i + 3 < b + 1 => isOps[i + 2] \/ ~Merges(isOps, i + 3)
      BY DEF SurvivesUpTo
    <3>1. i \in Int
      BY DEF Merges
    <3>2. i + 3 = b => isOps[i + 2]
      <4> SUFFICES ASSUME i + 3 = b PROVE isOps[i + 2]
        OBVIOUS
      <4>1. i = b - 3 /\ i + 2 = b - 1
        BY <3>1, <1>2
      <4>2. CASE a = b
        BY <4>1, <4>2, <1>17 DEF StaleAt
      <4>3. CASE a # b
        BY <4>1, <4>3, <1>2
      <4> QED
        BY <4>2, <4>3
    <3> QED
      BY <3>1, <3>2, <2>1, <1>2 DEF SurvivesUpTo
  <2>3. \A x \in alive : Lo(x) = a => x = block
    BY <1>2, Apart, Numbers
  <2>4. \A x \in alive : Hi(x) = a - 1 => x = v
    <3> SUFFICES ASSUME NEW x \in alive, Hi(x) = a - 1 PROVE x = v
      OBVIOUS
    <3>1. Hi(x) \in 1 .. Total /\ Lo(x) \in Int /\ Lo(x) <= Hi(x)
      BY Numbers
    <3>2. v \in alive /\ Hi(v) = a - 1
      BY <3>1, <2>1, <1>2
    <3>3. Lo(v) \in Int /\ Lo(v) <= Hi(v)
      BY <3>2, Numbers
    <3> QED
      BY <3>1, <3>2, <3>3, Apart
  <2>5. \A x \in alive' : Hi(x)' < a => InPlace(x)'
    <3> SUFFICES ASSUME NEW x \in alive', Hi(x)' < a PROVE InPlace(x)'
      OBVIOUS
    <3>1. x # r /\ x \in alive /\ x # block /\ x # b + 1 /\ x \in Node /\ Hi(x) < a
      <4>1. x # r
        BY <1>1, <1>2
      <4>2. x \in alive /\ x # block /\ x # b + 1
        BY <4>1, <1>1
      <4> QED
        BY <4>1, <4>2, <1>1, <1>9
    <3>2. InPlace(x) /\ Hi(x) \in 1 .. Total
      BY <3>1, <2>1, Numbers
    <3>3. PICK y : y = blocks.next[x]
      OBVIOUS
    <3>4. y # NULL /\ y \in alive /\ Lo(y) = Hi(x) + 1 /\ ~(HoldsOps(x) /\ HoldsOps(y))
      BY <3>1, <3>2, <3>3, <1>2 DEF InPlace, Total
    <3>5. CASE x = v
      <4>1. v # NULL
        BY <3>1, <3>5, BfListAssumption
      <4>2. a # 1 /\ Hi(x) = a - 1
        BY <4>1, <3>5, <2>1
      <4>3. y = block
        BY <4>2, <3>4, <2>3, <1>2
      <4>4. ~HoldsOps(x)
        BY <4>3, <3>4, <1>2
      <4>5. blocks'.next[x] = r /\ Lo(r)' = Hi(x)' + 1 /\ ~HoldsOps(x)'
        BY <4>1, <4>2, <4>4, <3>1, <3>5, <1>1, <1>2, <1>7
      <4> QED
        BY <4>5, <1>8 DEF InPlace, Lo, HoldsOps
    <3>6. CASE x # v
      <4>1. blocks'.next[x] = y
        BY <3>1, <3>3, <3>6, <1>7
      <4>2. Hi(x) # a - 1
        BY <3>1, <3>6, <2>4
      <4>3. y # block /\ y # b + 1
        BY <4>2, <3>1, <3>2, <3>4, <1>2
      <4>4. y \in alive' /\ Lo(y)' = Hi(x)' + 1 /\ ~(HoldsOps(x)' /\ HoldsOps(y)')
        BY <4>3, <3>1, <3>4, <1>1, <1>9
      <4> QED
        BY <4>1, <4>4, <3>4 DEF InPlace, Lo, HoldsOps
    <3> QED
      BY <3>5, <3>6
  <2>6. PICK z : z = blocks'.first /\ z \in alive' /\ Lo(z)' = 1
    <3>1. CASE v = NULL
      <4>1. a = 1
        BY <3>1, <2>1, <1>2, Numbers, BfListAssumption
      <4> QED
        BY <3>1, <4>1, <1>1, <1>7, <1>8
    <3>2. CASE v # NULL
      <4>1. a # 1
        BY <3>2, <2>1
      <4>2. blocks.first # block /\ blocks.first # b + 1
        BY <4>1, <2>1, <1>2
      <4>3. PICK w : w = blocks.first
        OBVIOUS
      <4>4. w \in alive' /\ Lo(w)' = 1 /\ w = blocks'.first
        BY <3>2, <4>2, <4>3, <2>1, <1>1, <1>7, <1>9
      <4> QED
        BY <4>4
    <3> QED
      BY <3>1, <3>2
  <2>7. (b + 1) + 1 < Total => blocks'.last = Total
    BY <2>1, <1>2, <1>7
  <2>8. /\ blocks'.prev[r] = v
        /\ IF a = 1 THEN v = NULL ELSE v \in alive' /\ Hi(v)' = a - 1
    <3>1. CASE a = 1
      BY <3>1, <2>1, <1>7
    <3>2. CASE a # 1
      <4>1. v \in alive /\ Hi(v) = a - 1 /\ v # block /\ v # b + 1
        BY <3>2, <2>1, <1>2
      <4> QED
        BY <3>2, <4>1, <1>1, <1>7, <1>9
    <3> QED
      BY <3>1, <3>2
  <2>9. Lo(block)' = a /\ Hi(block)' = b + 1
    BY <1>1 DEF Lo, Hi
  <2>10. SurvivesUpTo(b + 1)' /\ ~StaleAt(a)'
    BY <2>2, <1>1, <1>17 DEF SurvivesUpTo, StaleAt
  <2>11. Clean'
    <3>1. SurvivesUpTo(Hi(block))'
      BY <2>9, <2>10 DEF SurvivesUpTo
    <3>2. ~StaleAt(Lo(block))'
      BY <2>9, <2>10 DEF StaleAt
    <3>3. (\A x \in alive : Hi(x) < Lo(block) => InPlace(x))'
      BY <2>5, <2>9
    <3>4. (blocks.first \in alive /\ Lo(blocks.first) = 1)'
      BY <2>6 DEF Lo
    <3>5. (Hi(block) + 1 < Total => blocks.last = Total)'
      BY <2>7, <2>9, <1>1
    <3>6. (IF Lo(block) = 1 THEN blocks.prev[block] = NULL
           ELSE blocks.prev[block] \in alive /\ Hi(blocks.prev[block]) = Lo(block) - 1)'
      BY <2>8, <2>9 DEF Hi
    <3> QED
      BY <3>1, <3>2, <3>3, <3>4, <3>5, <3>6 DEF Clean
  <2> QED
    BY <2>11, <1>10, <1>11 DEF Merging
<1> QED
  BY <1>15, <1>16, <1>17

\* One merge: done, or the end of a list that does not survive.
LEMMA MergeSound ==
  ASSUME IInv, NEW result \in Node, Merge(result)
  PROVE  IInv'
<1>1. /\ TypeOK /\ OnlyOpsMerge /\ blocks.fault = FALSE /\ status = "merging"
      /\ Looking /\ Mergeable /\ result \notin alive /\ isOps' = isOps
      /\ block \in alive /\ block # NULL /\ blocks \in List
      /\ Merging
  <2>1. TypeOK /\ status = "merging" /\ block \in alive /\ blocks \in List
    BY DEF IInv, Merge, Looking, TypeOK
  <2>2. block # NULL
    BY <2>1, BfListAssumption DEF TypeOK
  <2> QED
    BY <2>1, <2>2 DEF IInv, Sound, Merge
<1>2. PICK rest : rest = ListRemove(Created(blocks, result), NextOf(block))
  OBVIOUS
<1>3. PICK m : m = ListReplace(rest, block, result)
  OBVIOUS
<1>4. \/ /\ status' \in {"crashed", "wild"} /\ UNCHANGED <<blocks, alive, holds, block>>
         /\ rest.fault \/ ~(Touched \subseteq alive \cup {NULL, result}) \/ Follower = block
      \/ /\ ~rest.fault /\ Touched \subseteq alive \cup {NULL, result} /\ Follower # block
         /\ blocks' = m /\ alive' = (alive \cup {result}) \ Freed
         /\ holds' = [holds EXCEPT ![result] = holds[block] \o holds[Follower]]
         /\ block' = result /\ status' = status
  BY <1>2, <1>3 DEF Merge, WithoutNext
<1>5. ASSUME ~Survives(isOps), UNCHANGED <<blocks, alive, holds, block>>,
             status' \in {"crashed", "wild"}
      PROVE  IInv'
  BY <1>1, <1>5, DiesSound
<1>6. CASE ~Survives(isOps) /\ Doomed
  <2>1. Follower = block
    BY <1>1, <1>6 DEF Doomed, Looking, Mergeable
  <2> QED
    BY <2>1, <1>4, <1>5, <1>6
<1>7. CASE Ahead /\ Behind /\ (Clean \/ (~Survives(isOps) /\ Lost))
  <2>1. PICK a : a = Lo(block)
    OBVIOUS
  <2>2. PICK b : b = Hi(block)
    OBVIOUS
  <2>3. PICK v : v = blocks.prev[block]
    OBVIOUS
  <2>4. /\ block \in Node /\ block \notin Rest(b)
        /\ Total \in Nat /\ a \in 1 .. Total /\ b \in 1 .. Total /\ a <= b /\ b < Total
        /\ Follower = b + 1 /\ b + 1 \in alive /\ b + 1 \in Node /\ b + 1 # block
        /\ blocks.next[b + 1] = IF b + 1 < Total THEN b + 2 ELSE NULL
        /\ HoldsOps(block) /\ Merges(isOps, b) /\ isOps[b]
    <3>1. Merges(isOps, b) /\ HoldsOps(block)
      BY <1>1, <1>7, <2>1, <2>2, AheadLooking DEF Mergeable
    <3>2. b < Total /\ isOps[b]
      BY <3>1, <1>1, <1>7, <2>1, <2>2, AheadLooking DEF Merges, Total
    <3> QED
      BY <3>1, <3>2, <1>1, <1>7, <2>1, <2>2, AheadLooking
  <2>5. /\ blocks.next[block] = b + 1 /\ blocks.prev[b + 1] = block
        /\ \A i \in Rest(b) : i \in alive /\ blocks.next[i] = IF i < Total THEN i + 1 ELSE NULL
        /\ blocks.last # NULL
        /\ a = b => block = b
    <3>1. b + 1 <= Total
      BY <2>4
    <3> QED
      BY <3>1, <1>7, <2>1, <2>2, <2>4 DEF Ahead, Follower
  <2>6. Rest(b) = b + 1 .. Total
    BY DEF Rest
  <2>7. v \in Pointer
    BY <1>1, <2>3, <2>4, ListFields
  <2>8. ASSUME Clean
        PROVE  /\ b + 1 < Total => blocks.last = Total
               /\ blocks.first \in alive /\ Lo(blocks.first) = 1
               /\ v \in alive \/ v = NULL \/ ~Survives(isOps)
    <3>1. StaleAt(a) => ~Survives(isOps)
      <4>1. StaleAt(a) /\ a # 1 => a = b
        BY <2>1, <2>2, <2>8 DEF Clean
      <4>2. ~StaleAt(1)
        BY DEF StaleAt, Merges
      <4> QED
        BY <4>1, <4>2, <1>1, <2>4, DoesNotSurvive
    <3> QED
      BY <3>1, <2>1, <2>2, <2>3, <2>8 DEF Clean
  <2>9. b + 1 = Total => ~Survives(isOps)
    BY <1>1, <2>4, DoesNotSurvive
  <2>10. CASE blocks.first = blocks.last \/ v = result
    <3>1. ~Survives(isOps)
      <4> SUFFICES ASSUME Clean, b + 1 # Total PROVE ~Survives(isOps)
        BY <1>7, <2>9
      <4>1. CASE blocks.first = blocks.last
        <5>1. Total \in Rest(b) /\ Lo(Total) = 1
          BY <4>1, <2>4, <2>6, <2>8
        <5>2. Lo(Total) = Total
          BY <5>1, <1>1, <1>7, <2>2, RestBlocks
        <5> QED
          BY <5>1, <5>2, <2>4
      <4>2. CASE v = result
        BY <4>2, <1>1, <2>8, BfListAssumption
      <4> QED
        BY <2>10, <4>1, <4>2
    <3>2. CASE UNCHANGED <<blocks, alive, holds, block>> /\ status' \in {"crashed", "wild"}
      BY <3>1, <3>2, <1>5
    <3>3. CASE /\ ~rest.fault /\ blocks' = m /\ alive' = (alive \cup {result}) \ Freed
               /\ holds' = [holds EXCEPT ![result] = holds[block] \o holds[Follower]]
               /\ block' = result /\ status' = status
      <4>1. m \in List /\ m.fault = FALSE /\ m.next[result] \in {b + 1, result}
        <5>1. PICK y : y = blocks.next[b + 1]
          OBVIOUS
        <5>2. y \notin {block, result} /\ (y # NULL => blocks.next[y] # block)
          <6>1. CASE b + 1 < Total
            <7>1. y = b + 2 /\ b + 2 \in Rest(b) /\ (b + 2 < Total => b + 3 \in Rest(b))
              BY <6>1, <5>1, <2>4, <2>6
            <7>2. blocks.next[y] = (IF b + 2 < Total THEN b + 3 ELSE NULL)
              BY <7>1, <2>4, <2>5
            <7> QED
              BY <7>1, <7>2, <1>1, <2>4, <2>5
          <6>2. CASE ~(b + 1 < Total)
            BY <6>2, <5>1, <1>1, <2>4, BfListAssumption
          <6> QED
            BY <6>1, <6>2
        <5>3. block # b + 1 /\ result \notin {block, b + 1} /\ ~rest.fault
              /\ (blocks.first = blocks.last \/ blocks.prev[block] = result)
          BY <1>1, <2>3, <2>4, <2>10, <3>3
        <5>4. /\ blocks \in List /\ blocks.fault = FALSE /\ block \in Node /\ b + 1 \in Node
              /\ blocks.next[block] = b + 1 /\ blocks.prev[b + 1] = block
              /\ blocks.last # NULL
          BY <1>1, <2>4, <2>5
        <5>5. /\ blocks.next[b + 1] \notin {block, result}
              /\ blocks.next[b + 1] # NULL => blocks.next[blocks.next[b + 1]] # block
          BY <5>1, <5>2
        <5>6. PICK f : f = b + 1
          OBVIOUS
        <5>7. /\ f \in Node /\ blocks.next[block] = f /\ blocks.prev[f] = block /\ block # f
              /\ result \notin {block, f} /\ blocks.next[f] \notin {block, result}
              /\ blocks.next[f] # NULL => blocks.next[blocks.next[f]] # block
          BY <5>3, <5>4, <5>5, <5>6
        <5>8. m \in List /\ m.fault = FALSE /\ m.next[result] \in {f, result}
          <6>1. TiesUp(blocks, block, f, result, ListReplace(rest, block, result))
            BY ONLY <5>3, <5>4, <5>7, <1>2, result \in Node, MergeDooms
          <6> QED
            BY <6>1, <1>3 DEF TiesUp
        <5> QED
          BY <5>6, <5>8
      <4>2. /\ alive' = (alive \ {block, b + 1}) \cup {result}
            /\ HoldsOps(result)'
            /\ holds' \in [Node -> Seq(1 .. Total)] /\ Total' = Total
            /\ \A x \in alive' : /\ holds'[x] # << >>
                                 /\ \A k \in DOMAIN holds'[x] : holds'[x][k] = Lo(x)' + k - 1
            /\ \A x, y \in alive' : x # y => Hi(x)' < Lo(y)' \/ Hi(y)' < Lo(x)'
            /\ OnlyOpsMerge'
        BY <1>1, <1>7, <2>1, <2>2, <3>3, MergedHolds
      <4>3. Doomed'
        <5>1. result \in alive' /\ b + 1 \notin alive' \cup {NULL}
          BY <4>2, <1>1, <2>4, BfListAssumption
        <5>2. Follower' \in {b + 1, result}
          BY <3>3, <4>1 DEF Follower
        <5> QED
          BY <5>1, <5>2, <3>3, <4>2 DEF Doomed, HoldsOps
      <4>4. TypeOK'
        <5>1. alive' \subseteq Node
          BY <1>1, <4>2 DEF TypeOK
        <5>2. block' \in Pointer /\ DOMAIN isOps = 1 .. Total
          BY <1>1, <3>3 DEF Pointer, TypeOK, Total
        <5> QED
          BY <5>1, <5>2, <1>1, <3>3, <4>1, <4>2 DEF TypeOK
      <4>5. block' # NULL
        BY <3>3, BfListAssumption
      <4> QED
        BY <1>1, <3>1, <3>3, <4>1, <4>2, <4>3, <4>4, <4>5 DEF IInv, Sound, Merging
    <3> QED
      BY <1>4, <3>2, <3>3
  <2>11. CASE blocks.first # blocks.last /\ v # result /\ b + 1 = Total
    <3>1. rest.fault
      <4>1. blocks.next[b + 1] = NULL
        BY <2>4, <2>11
      <4>2. block # b + 1 /\ result \notin {block, b + 1} /\ blocks.first # blocks.last
        BY <1>1, <2>4, <2>11
      <4>3. /\ blocks \in List /\ blocks.fault = FALSE /\ block \in Node /\ b + 1 \in Node
            /\ blocks.next[block] = b + 1 /\ blocks.prev[b + 1] = block
            /\ blocks.last # NULL
        BY <1>1, <2>4, <2>5
      <4> QED
        BY ONLY <4>1, <4>2, <4>3, <1>2, result \in Node, MergeLast
    <3> QED
      BY <3>1, <1>4, <1>5, <2>9, <2>11
  <2>12. CASE blocks.first # blocks.last /\ v # result /\ b + 1 # Total
    <3>1. /\ b + 1 < Total /\ b + 2 \in Rest(b) /\ (b + 2 < Total => b + 3 \in Rest(b))
          /\ blocks.next[b + 1] = b + 2
          /\ b + 2 \in alive /\ b + 2 \in Node
          /\ blocks.next[b + 2] = (IF b + 2 < Total THEN b + 3 ELSE NULL)
          /\ blocks.next[b + 2] \in alive \cup {NULL}
          /\ blocks.next[b + 2] \notin {result, block, b + 2}
      <4>1. b + 1 < Total /\ b + 2 \in Rest(b) /\ (b + 2 < Total => b + 3 \in Rest(b))
            /\ blocks.next[b + 1] = b + 2
        BY <2>4, <2>6, <2>12
      <4>2. b + 2 \in alive /\ b + 2 \in Node
        BY <4>1, <2>5, <1>1 DEF TypeOK
      <4>3. blocks.next[b + 2] = (IF b + 2 < Total THEN b + 3 ELSE NULL)
        BY <4>1, <2>4, <2>5
      <4>4. b + 2 < Total => b + 3 \in alive /\ b + 3 # block /\ b + 3 # result
        BY <4>1, <2>4, <2>5, <1>1
      <4>5. result # NULL /\ b + 2 # NULL /\ b + 3 # b + 2
        BY <4>2, <2>4, BfListAssumption
      <4> QED
        BY <4>1, <4>2, <4>3, <4>4, <4>5, <1>1
    <3>2. /\ rest.fault => blocks.last # b + 2 /\ blocks.next[b + 2] = NULL
          /\ ~rest.fault => MergedInto(blocks, block, b + 2, result, m)
      <4>1. block # b + 1 /\ block # b + 2 /\ result \notin {block, b + 1, b + 2}
            /\ blocks.prev[block] # result /\ blocks.first # blocks.last
        BY <1>1, <2>3, <2>4, <2>12, <3>1
      <4>2. /\ blocks \in List /\ blocks.fault = FALSE /\ block \in Node /\ b + 1 \in Node
            /\ blocks.next[block] = b + 1 /\ blocks.prev[b + 1] = block
            /\ blocks.last # NULL
        BY <1>1, <2>4, <2>5
      <4>3. /\ b + 2 \in Node /\ blocks.next[b + 1] = b + 2
            /\ blocks.next[b + 2] \notin {result, block, b + 2}
        BY <3>1
      <4> QED
        BY ONLY <4>1, <4>2, <4>3, <1>2, <1>3, result \in Node, MergeFields
    <3>3. Touched = {v, block, b + 2, blocks.next[b + 2]} \/ Touched = {v, block, b + 2}
      <4>1. b + 2 # NULL
        BY <3>1, BfListAssumption
      <4> QED
        BY <4>1, <2>3, <2>4, <2>5, <3>1 DEF Touched
    <3>4. CASE UNCHANGED <<blocks, alive, holds, block>> /\ status' \in {"crashed", "wild"}
               /\ (rest.fault \/ ~(Touched \subseteq alive \cup {NULL, result}) \/ Follower = block)
      <4>1. ~Survives(isOps)
        <5> SUFFICES ASSUME Clean PROVE ~Survives(isOps)
          BY <1>7
        <5>1. ~rest.fault
          <6>1. b + 2 < Total => b + 3 \in Node
            BY <3>1, <2>5, <1>1 DEF TypeOK
          <6>2. blocks.next[b + 2] = NULL => b + 2 = Total
            BY <6>1, <2>4, <3>1, BfListAssumption
          <6> QED
            BY <6>2, <2>8, <3>1, <3>2
        <5>2. v \notin alive \cup {NULL, result}
          BY <5>1, <1>1, <2>4, <3>1, <3>3, <3>4
        <5> QED
          BY <5>2, <2>8
      <4> QED
        BY <4>1, <1>5, <3>4
    <3>5. CASE /\ ~rest.fault /\ Touched \subseteq alive \cup {NULL, result}
               /\ blocks' = m /\ alive' = (alive \cup {result}) \ Freed
               /\ holds' = [holds EXCEPT ![result] = holds[block] \o holds[Follower]]
               /\ block' = result /\ status' = status
      <4>1. v \in alive \cup {NULL}
        BY <2>12, <3>3, <3>5
      <4>2. MergedInto(blocks, block, b + 2, result, blocks')
        BY <3>2, <3>5
      <4>3. Merging'
        <5>1. /\ v = blocks.prev[block] /\ v # result /\ v \in alive \cup {NULL}
              /\ b + 1 < Total /\ a = Lo(block) /\ b = Hi(block)
          BY <4>1, <2>1, <2>2, <2>3, <2>12, <3>1
        <5> QED
          BY <5>1, <4>2, <1>1, <1>7, <3>5, MergesOn
      <4>4. /\ alive' = (alive \ {block, b + 1}) \cup {result}
            /\ holds' \in [Node -> Seq(1 .. Total)] /\ Total' = Total
            /\ \A x \in alive' : /\ holds'[x] # << >>
                                 /\ \A k \in DOMAIN holds'[x] : holds'[x][k] = Lo(x)' + k - 1
            /\ \A x, y \in alive' : x # y => Hi(x)' < Lo(y)' \/ Hi(y)' < Lo(x)'
            /\ OnlyOpsMerge'
        BY <1>1, <1>7, <2>1, <2>2, <3>5, MergedHolds
      <4>5. blocks' \in List /\ blocks'.fault = FALSE
        BY <4>2 DEF MergedInto
      <4>6. TypeOK'
        <5>1. alive' \subseteq Node
          BY <1>1, <4>4 DEF TypeOK
        <5>2. block' \in Pointer /\ DOMAIN isOps = 1 .. Total
          BY <1>1, <3>5 DEF Pointer, TypeOK, Total
        <5> QED
          BY <5>1, <5>2, <1>1, <3>5, <4>4, <4>5 DEF TypeOK
      <4>7. block' # NULL
        BY <3>5, BfListAssumption
      <4> QED
        BY <1>1, <3>5, <4>3, <4>4, <4>5, <4>6, <4>7 DEF IInv, Sound
    <3> QED
      BY <1>4, <3>4, <3>5
  <2> QED
    BY <2>10, <2>11, <2>12
<1> QED
  BY <1>1, <1>6, <1>7 DEF Merging
-----------------------------------------------------------------------------
\* The loop stops at the end of the list.
LEMMA FinishSound ==
  ASSUME IInv, Finish
  PROVE  IInv'
<1>1. Total' = Total /\ \A x : Lo(x)' = Lo(x) /\ Hi(x)' = Hi(x) /\ HoldsOps(x)' = HoldsOps(x)
  BY DEF Finish, Total, Lo, Hi, HoldsOps
<1>2. TypeOK'
  BY <1>1 DEF IInv, TypeOK, Finish
<1>3. OnlyOpsMerge'
  BY <1>1 DEF IInv, Sound, OnlyOpsMerge, Finish
<1>4. Merged
  BY DEF IInv, Sound, Finish
<1>5. Merged'
  <2>1. \A x : InPlace(x)' = InPlace(x) /\ LeftOut(x)' = LeftOut(x)
    BY <1>1 DEF InPlace, LeftOut, Finish
  <2>2. InOrder' = InOrder
    BY <2>1, <1>1 DEF InOrder, Finish, Lo
  <2> QED
    BY <1>4, <2>1, <2>2 DEF Merged, Finish
<1> QED
  BY <1>2, <1>3, <1>5 DEF IInv, Sound, Finish

\* While what is ahead is as it should be, the loop never looks at a freed block.
LEMMA LookAtFreedSound ==
  ASSUME IInv, LookAtFreed
  PROVE  IInv'
<1>1. ~Survives(isOps)
  <2> SUFFICES ASSUME Ahead PROVE FALSE
    BY DEF IInv, Sound, Merging, LookAtFreed
  <2>1. block \in alive /\ Follower \in alive \cup {NULL}
    BY AheadLooking DEF IInv, Sound
  <2> QED
    BY <2>1 DEF LookAtFreed, Looking
<1> QED
  BY <1>1, DiesSound DEF LookAtFreed

\* A step that changes nothing.
LEMMA StutterSound ==
  ASSUME IInv, UNCHANGED vars
  PROVE  IInv'
<1>1. /\ isOps' = isOps /\ blocks' = blocks /\ alive' = alive /\ holds' = holds
      /\ block' = block /\ status' = status
  BY DEF vars
<1>2. /\ Total' = Total
      /\ \A x : Lo(x)' = Lo(x) /\ Hi(x)' = Hi(x) /\ HoldsOps(x)' = HoldsOps(x)
      /\ \A k : Rest(k)' = Rest(k)
  BY <1>1 DEF Total, Lo, Hi, HoldsOps, Rest
<1>3. \A x : InPlace(x)' = InPlace(x) /\ LeftOut(x)' = LeftOut(x)
  BY <1>1, <1>2 DEF InPlace, LeftOut
<1>4. TypeOK' = TypeOK
  BY <1>1 DEF TypeOK, Lo, Hi
<1>5. Ahead' = Ahead
  BY <1>1 DEF Ahead, Lo, Hi, Rest, Total
<1>6. Behind' = Behind
  BY <1>1 DEF Behind, Lo, Hi, Rest, Total
<1>7. Clean' = Clean
  BY <1>1 DEF Clean, Lo, Hi, Rest, Total, InPlace, HoldsOps, SurvivesUpTo, StaleAt
<1>8. Lost' = Lost
  BY <1>1 DEF Lost, Lo, Hi, LeftOut
<1>9. Doomed' = Doomed
  BY <1>1 DEF Doomed, Follower, HoldsOps
<1>10. InOrder' = InOrder
  BY <1>1 DEF InOrder, InPlace, Lo, Hi, HoldsOps
<1>11. OnlyOpsMerge' = OnlyOpsMerge
  BY <1>1 DEF OnlyOpsMerge, Lo, Hi
<1>12. Merging' = Merging
  BY <1>1, <1>5, <1>6, <1>7, <1>8, <1>9 DEF Merging
<1>13. Merged' = Merged
  BY <1>1, <1>3, <1>10 DEF Merged
<1> QED
  BY <1>1, <1>4, <1>11, <1>12, <1>13 DEF IInv, Sound

\* What the loop's pointers are at every moment, whatever the list and the allocator.
THEOREM Invariant == Spec => []IInv
<1>1. Init => IInv
  BY InitTypes, InitSound DEF IInv
<1>2. IInv /\ [Next]_vars => IInv'
  <2> SUFFICES ASSUME IInv, [Next]_vars PROVE IInv'
    OBVIOUS
  <2>1. CASE \E result \in Node : Merge(result)
    BY <2>1, MergeSound
  <2>2. CASE Advance
    BY <2>2, AdvanceSound
  <2>3. CASE Finish
    BY <2>3, FinishSound
  <2>4. CASE LookAtFreed
    BY <2>4, LookAtFreedSound
  <2>5. CASE UNCHANGED vars
    BY <2>5, StutterSound
  <2> QED
    BY <2>1, <2>2, <2>3, <2>4, <2>5 DEF Next
<1> QED
  BY <1>1, <1>2, PTL DEF Spec

\* Of any number of blocks, every one that is allocated holds a part of those at
\* first, and no two hold the same.
THEOREM TypeCorrect == Spec => []TypeOK
<1>1. IInv => TypeOK
  BY DEF IInv
<1> QED
  BY <1>1, Invariant, PTL

\* bf_optimize_merge_blocks kills the process only on lists that do not survive,
\* whatever addresses the allocator returns.
THEOREM MergingEndsWell == Spec => []EndsWell
<1>1. IInv => EndsWell
  BY DEF IInv, Sound, EndsWell
<1> QED
  BY <1>1, Invariant, PTL

\* If the loop comes to its end, the list is merged completely and in order if
\* and only if it is one that survives.
THEOREM MergingInOrder == Spec => []MergedInOrder
<1>1. IInv => MergedInOrder
  <2> SUFFICES ASSUME IInv, status = "done", ~Survives(isOps) PROVE ~InOrder
    BY DEF IInv, Sound, Merged, MergedInOrder
  <2>1. PICK x \in alive : LeftOut(x)
    BY DEF IInv, Sound, Merged
  <2>2. blocks.next[x] \in alive => Lo(blocks.next[x]) # Hi(x) + 1
    <3> SUFFICES ASSUME blocks.next[x] \in alive PROVE Lo(blocks.next[x]) # Hi(x) + 1
      OBVIOUS
    <3>1. Lo(blocks.next[x]) \in Int /\ Hi(x) \in Int
      BY Numbers DEF IInv
    <3> QED
      BY <2>1, <3>1 DEF LeftOut
  <2>3. ~InPlace(x)
    BY <2>1, <2>2 DEF InPlace, LeftOut
  <2> QED
    BY <2>3 DEF InOrder
<1> QED
  BY <1>1, Invariant, PTL
=============================================================================
