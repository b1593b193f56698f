-------------------------- MODULE CCompilerProofs --------------------------
(***************************************************************************)
(* What the parser of CCompiler does with brackets that close nothing, for *)
(* texts of any length.                                                    *)
(***************************************************************************)
EXTENDS CCompiler, FiniteSetTheorems, SequenceTheorems, WellFoundedInduction, TLAPS

\* How many brackets are open behind the first p characters.
Depth(text, p) == Count(text, "[", 1, p) - Count(text, "]", 1, p)

Brackets == {"[", "]"}

\* A nonempty set of natural numbers has a least element.
LEMMA Least ==
  ASSUME NEW T \in SUBSET Nat, T # {}
  PROVE  \E x \in T : \A y \in T : x <= y
<1>1. IsWellFoundedOn(OpToRel(<, Nat), Nat)
  BY NatLessThanWellFounded
<1>2. PICK x \in T : \A y \in T : ~(<<y, x>> \in OpToRel(<, Nat))
  BY <1>1, WFMin
<1>3. \A y \in T : ~(y < x)
  BY <1>2 DEF OpToRel
<1>. QED BY <1>3

\* A nonempty set of natural numbers with an upper bound has a greatest element.
LEMMA Greatest ==
  ASSUME NEW n \in Nat, NEW T \in SUBSET (0 .. n), T # {}
  PROVE  \E x \in T : \A y \in T : x >= y
<1>. DEFINE U == {n - x : x \in T}
<1>1. U \in SUBSET Nat /\ U # {}
  <2>1. \A x \in T : x \in 0 .. n
    OBVIOUS
  <2>2. \A x \in T : n - x \in Nat
    BY <2>1
  <2>. QED BY <2>2
<1>2. PICK u \in U : \A v \in U : u <= v
  BY <1>1, Least
<1>3. PICK x \in T : u = n - x
  OBVIOUS
<1>4. ASSUME NEW y \in T PROVE x >= y
  <2>1. n - y \in U
    OBVIOUS
  <2>2. n - x <= n - y
    BY <1>2, <1>3, <2>1
  <2>. QED BY <2>2
<1>. QED BY <1>4

-----------------------------------------------------------------------------
\* A count is a natural number.
LEMMA CountType ==
  ASSUME NEW text, NEW c, NEW from \in Int, NEW to \in Int
  PROVE  /\ IsFiniteSet({i \in from .. to : text[i] = c})
         /\ Count(text, c, from, to) \in Nat
<1>1. IsFiniteSet(from .. to)
  BY FS_Interval
<1>2. IsFiniteSet({i \in from .. to : text[i] = c})
  BY <1>1, FS_Subset
<1>. QED BY <1>2, FS_CardinalityType DEF Count

\* One character more.
LEMMA CountStep ==
  ASSUME NEW text, NEW c, NEW p \in Nat
  PROVE  Count(text, c, 1, p + 1) = IF text[p + 1] = c THEN Count(text, c, 1, p) + 1
                                    ELSE Count(text, c, 1, p)
<1>. DEFINE S(q) == {i \in 1 .. q : text[i] = c}
<1>1. IsFiniteSet(S(p))
  BY CountType, 1 \in Int, p \in Int
<1>2. CASE text[p + 1] = c
  <2>1. S(p + 1) = S(p) \cup {p + 1} /\ p + 1 \notin S(p)
    BY <1>2
  <2>. QED BY <1>1, <1>2, <2>1, FS_AddElement DEF Count
<1>3. CASE text[p + 1] # c
  <2>1. S(p + 1) = S(p)
    BY <1>3
  <2>. QED BY <1>3, <2>1 DEF Count
<1>. QED BY <1>2, <1>3

\* The counts of two adjacent parts of a text add up.
LEMMA CountParts ==
  ASSUME NEW text, NEW c, NEW j \in Nat, NEW k \in Int, j <= k
  PROVE  Count(text, c, 1, k) = Count(text, c, 1, j) + Count(text, c, j + 1, k)
<1>. DEFINE S(a, b) == {i \in a .. b : text[i] = c}
<1>1. S(1, k) = S(1, j) \cup S(j + 1, k) /\ S(1, j) \cap S(j + 1, k) = {}
  OBVIOUS
<1>2. IsFiniteSet(S(1, j)) /\ IsFiniteSet(S(j + 1, k))
  BY CountType, 1 \in Int, j \in Int, j + 1 \in Int
<1>3. Cardinality(S(1, k)) =
        Cardinality(S(1, j)) + Cardinality(S(j + 1, k)) - Cardinality({})
  BY <1>1, <1>2, FS_Union
<1>4. Cardinality(S(1, j)) \in Nat /\ Cardinality(S(j + 1, k)) \in Nat
  BY <1>2, FS_CardinalityType
<1>. QED BY <1>3, <1>4, FS_EmptySet DEF Count

\* No bracket is open at the start, and each character changes the depth by
\* what it is.
LEMMA DepthStep ==
  ASSUME NEW text
  PROVE  /\ Depth(text, 0) = 0
         /\ \A p \in Nat : /\ Depth(text, p) \in Int
                           /\ text[p + 1] = "[" => Depth(text, p + 1) = Depth(text, p) + 1
                           /\ text[p + 1] = "]" => Depth(text, p + 1) = Depth(text, p) - 1
                           /\ text[p + 1] \notin Brackets => Depth(text, p + 1) = Depth(text, p)
<1>1. \A c : Count(text, c, 1, 0) = 0
  <2>1. \A c : {i \in 1 .. 0 : text[i] = c} = {}
    OBVIOUS
  <2>. QED BY <2>1, FS_EmptySet DEF Count
<1>2. ASSUME NEW p \in Nat
      PROVE  Count(text, "[", 1, p) \in Nat /\ Count(text, "]", 1, p) \in Nat
  BY CountType, 1 \in Int, p \in Int
<1>. QED BY <1>1, <1>2, CountStep DEF Depth, Brackets

\* A part of a text is balanced when the depth is the same on both sides of it
\* and nowhere less.
LEMMA BalancedDepth ==
  ASSUME NEW text, NEW j \in Nat, NEW k \in Int, j <= k
  PROVE  Balanced(text, j + 1, k) <=>
           /\ Depth(text, k) = Depth(text, j)
           /\ \A i \in j + 1 .. k : Depth(text, i) >= Depth(text, j)
<1>1. ASSUME NEW i \in j .. k
      PROVE  /\ Depth(text, i) - Depth(text, j) =
                  Count(text, "[", j + 1, i) - Count(text, "]", j + 1, i)
             /\ Count(text, "[", j + 1, i) \in Int /\ Count(text, "]", j + 1, i) \in Int
             /\ Depth(text, i) \in Int /\ Depth(text, j) \in Int
  <2>1. \A c : Count(text, c, 1, i) = Count(text, c, 1, j) + Count(text, c, j + 1, i)
    BY CountParts
  <2>2. \A c : /\ Count(text, c, 1, i) \in Nat /\ Count(text, c, 1, j) \in Nat
               /\ Count(text, c, j + 1, i) \in Nat
    BY CountType, 1 \in Int, j \in Int, j + 1 \in Int, i \in Int
  <2>. QED BY <2>1, <2>2 DEF Depth
<1>. QED BY <1>1 DEF Balanced

-----------------------------------------------------------------------------
\* As long as the depth is never negative, every closing bracket closes one.
LEMMA NoStray ==
  ASSUME NEW p \in Nat, \A k \in 0 .. p : Depth(code, k) >= 0
  PROVE  \A i \in 1 .. p : ~StrayAt(i)
<1>. SUFFICES ASSUME NEW i \in 1 .. p, code[i] = "]"
              PROVE  \E j \in 1 .. i : Closes(code, j, i)
  BY DEF StrayAt
<1>. DEFINE D(q) == Depth(code, q)
            T == {j \in 0 .. i - 1 : D(j) <= D(i)}
<1>1. \A q \in Nat : D(q) \in Int
  BY DepthStep
<1>2. D(i) = D(i - 1) - 1
  <2>1. i - 1 \in Nat /\ i = (i - 1) + 1
    OBVIOUS
  <2>. QED BY <2>1, DepthStep
<1>3. 0 \in T
  BY DepthStep
<1>4. PICK m \in T : \A j \in T : m >= j
  BY <1>3, i - 1 \in Nat, T \in SUBSET (0 .. i - 1), Greatest
<1>5. m \in Nat /\ m < i - 1
  <2>1. m # i - 1
    BY <1>1, <1>2, i - 1 \in Nat
  <2>. QED BY <2>1
<1>6. \A q \in m + 1 .. i - 1 : D(q) >= D(i) + 1
  <2>. SUFFICES ASSUME NEW q \in m + 1 .. i - 1, D(q) <= D(i) PROVE FALSE
    BY <1>1
  <2>. QED BY <1>4
<1>7. code[m + 1] = "[" /\ D(m + 1) = D(m) + 1
  <2>1. D(m + 1) >= D(i) + 1 /\ D(m) <= D(i)
    BY <1>5, <1>6
  <2>2. D(m) \in Int /\ D(i) \in Int /\ D(m + 1) \in Int
    BY <1>1, <1>5
  <2>3. D(m + 1) > D(m)
    BY <2>1, <2>2
  <2>. QED BY <1>5, <2>2, <2>3, DepthStep DEF Brackets
<1>8. D(m + 1) = D(i - 1) /\ \A q \in m + 2 .. i - 1 : D(q) >= D(m + 1)
  <2>1. D(m + 1) >= D(i) + 1 /\ D(m) <= D(i)
    BY <1>5, <1>6
  <2>2. D(m) \in Int /\ D(i) \in Int /\ D(m + 1) \in Int /\ D(i - 1) \in Int
    BY <1>1, <1>5
  <2>3. D(m + 1) = D(i) + 1
    BY <1>7, <2>1, <2>2
  <2>. QED BY <1>2, <1>6, <2>2, <2>3
<1>9. Balanced(code, m + 2, i - 1)
  <2>1. m + 1 \in Nat /\ i - 1 \in Int /\ m + 1 <= i - 1 /\ (m + 1) + 1 = m + 2
    BY <1>5
  <2>. QED BY <1>8, <2>1, BalancedDepth
<1>10. Closes(code, m + 1, i)
  BY <1>5, <1>7, <1>9, (m + 1) + 1 = m + 2 DEF Closes
<1>. QED BY <1>5, <1>10

\* A closing bracket where no bracket is open closes nothing.
LEMMA StrayWhereDepthIsZero ==
  ASSUME NEW i \in Nat \ {0}, code[i] = "]", Depth(code, i - 1) = 0,
         \A k \in 0 .. i - 1 : Depth(code, k) >= 0
  PROVE  StrayAt(i)
<1>. SUFFICES ASSUME NEW j \in 1 .. i, Closes(code, j, i) PROVE FALSE
  BY DEF StrayAt
<1>1. j <= i - 1 /\ j \in Nat /\ j - 1 \in Nat /\ (j - 1) + 1 = j /\ i - 1 \in Int
  BY DEF Closes
<1>2. Depth(code, i - 1) = Depth(code, j)
  BY <1>1, BalancedDepth DEF Closes
<1>3. Depth(code, j) = Depth(code, j - 1) + 1
  BY <1>1, DepthStep DEF Closes
<1>4. Depth(code, j - 1) \in Int /\ Depth(code, j - 1) >= 0
  BY <1>1, DepthStep
<1>. QED BY <1>2, <1>3, <1>4

-----------------------------------------------------------------------------
\* A run of equal characters is at least one long and ends with the text.
LEMMA RunLength ==
  ASSUME CompilerTypeOK, code_pos <= Len(code)
  PROVE  /\ CountEqOps \in 1 .. Len(code) - code_pos + 1
         /\ \A i \in code_pos .. code_pos + CountEqOps - 1 : code[i] = code[code_pos]
<1>1. code_pos \in Nat \ {0} /\ Len(code) \in Nat
  BY CCompilerAssumption DEF CompilerTypeOK
<1>. DEFINE n == Len(code) - code_pos + 1
            T == {m \in 1 .. n : \A i \in 0 .. m - 1 : code[code_pos + i] = code[code_pos]}
<1>2. 1 \in T /\ n \in Nat /\ T \in SUBSET (0 .. n)
  BY <1>1
<1>3. \E x \in T : \A y \in T : x >= y
  BY <1>2, Greatest
<1>4. Max(T) \in T
  BY <1>3 DEF Max
<1>5. CountEqOps = Max(T)
  BY DEF CountEqOps
<1>. HIDE DEF T
<1>6. CountEqOps \in T
  BY <1>4, <1>5
<1>7. /\ CountEqOps \in 1 .. n
      /\ \A i \in 0 .. CountEqOps - 1 : code[code_pos + i] = code[code_pos]
  BY <1>6 DEF T
<1>8. ASSUME NEW i \in code_pos .. code_pos + CountEqOps - 1
      PROVE  code[i] = code[code_pos]
  <2>1. CountEqOps \in Int /\ i - code_pos \in 0 .. CountEqOps - 1
    BY <1>1, <1>2, <1>7
  <2>2. code[code_pos + (i - code_pos)] = code[code_pos]
    BY <1>7, <2>1
  <2>3. code_pos + (i - code_pos) = i
    BY <1>1, <2>1
  <2>. QED BY <2>2, <2>3
<1>. QED BY <1>7, <1>8

\* Containers of any blocks are containers of the blocks that are in them.
LEMMA BlocksTyped ==
  ASSUME NEW B, NEW c \in Seq(Containers(B))
  PROVE  c \in Seq(Containers(BlocksIn(c)))
<1>1. ASSUME NEW i \in DOMAIN c
      PROVE  c[i] \in Containers(BlocksIn(c))
  <2>. DEFINE r == [is_container |-> TRUE, is_loop |-> c[i].is_loop, blocks |-> c[i].blocks]
  <2>1. c[i] \in Containers(B)
    OBVIOUS
  <2>2. c[i].blocks \in Seq(B) /\ c[i].is_loop \in BOOLEAN
    BY <2>1 DEF Containers
  <2>3. \A k \in DOMAIN c[i].blocks : c[i].blocks[k] \in BlocksIn(c)
    BY DEF BlocksIn
  <2>4. c[i].blocks \in Seq(BlocksIn(c))
    <3>1. /\ Len(c[i].blocks) \in Nat
          /\ c[i].blocks = [k \in 1 .. Len(c[i].blocks) |-> c[i].blocks[k]]
          /\ DOMAIN c[i].blocks = 1 .. Len(c[i].blocks)
      BY <2>2
    <3>2. [k \in 1 .. Len(c[i].blocks) |-> c[i].blocks[k]] \in Seq(BlocksIn(c))
      BY <2>3, <3>1
    <3>. QED BY <3>1, <3>2
  <2>5. c[i] = r
    BY <2>1 DEF Containers
  <2>6. r \in Containers(BlocksIn(c))
    BY <2>2, <2>4 DEF Containers
  <2>. QED BY <2>5, <2>6
<1>2. /\ Len(c) \in Nat /\ DOMAIN c = 1 .. Len(c)
      /\ c = [k \in 1 .. Len(c) |-> c[k]]
  OBVIOUS
<1>3. [k \in 1 .. Len(c) |-> c[k]] \in Seq(Containers(BlocksIn(c)))
  BY <1>1, <1>2
<1>. QED BY <1>2, <1>3

\* Containers of some blocks are containers of more blocks.
LEMMA ContainersMonotonic ==
  ASSUME NEW B, NEW C, B \subseteq C
  PROVE  Seq(Containers(B)) \subseteq Seq(Containers(C))
<1>1. Seq(B) \subseteq Seq(C)
  BY SeqMonotonic
<1>2. Containers(B) \subseteq Containers(C)
  BY <1>1 DEF Containers
<1>. QED BY <1>2, SeqMonotonic

\* Filling the last container leaves the others alone, and its kind.
LEMMA FilledTyped ==
  ASSUME NEW B, NEW c \in Seq(Containers(B)), c # << >>, NEW b \in B
  PROVE  /\ Filled(c, b) \in Seq(Containers(B))
         /\ Len(Filled(c, b)) = Len(c)
         /\ \A i \in DOMAIN c : Filled(c, b)[i].is_loop = c[i].is_loop
<1>. DEFINE n == Len(c)
            last == [c[n] EXCEPT !.blocks = Append(@, b)]
<1>1. n \in 1 .. Len(c) /\ DOMAIN c = 1 .. n
  OBVIOUS
<1>2. c[n] \in Containers(B)
  BY <1>1
<1>3. Append(c[n].blocks, b) \in Seq(B)
  <2>1. c[n].blocks \in Seq(B)
    BY <1>2 DEF Containers
  <2>. QED BY <2>1
<1>4. last.is_loop = c[n].is_loop
  BY <1>2 DEF Containers
<1>5. last \in Containers(B)
  BY <1>2, <1>3 DEF Containers
<1>6. Filled(c, b) = [c EXCEPT ![n] = last]
  BY DEF Filled
<1>. HIDE DEF last
<1>7. Filled(c, b) \in Seq(Containers(B)) /\ Len(Filled(c, b)) = Len(c)
  BY <1>1, <1>5, <1>6, ExceptSeq
<1>8. \A i \in DOMAIN c : Filled(c, b)[i] = IF i = n THEN last ELSE c[i]
  BY <1>6
<1>. QED BY <1>4, <1>7, <1>8

-----------------------------------------------------------------------------
\* The open containers: the first is the program, the others are loops.
OpenOK ==
  /\ open \in Seq(Containers(BlocksIn(open)))
  /\ \A i \in DOMAIN open : open[i].is_loop <=> i > 1

\* The program, empty, is the first open container.
LEMMA ProgramOpen ==
  LET o == << Container(FALSE, << >>) >> IN
  /\ o \in Seq(Containers(BlocksIn(o))) /\ Len(o) = 1 /\ o # << >>
  /\ \A i \in DOMAIN o : o[i].is_loop <=> i > 1
<1>. DEFINE c == Container(FALSE, << >>)
<1>1. c \in Containers({}) /\ ~c.is_loop
  <2>1. << >> \in Seq({})
    OBVIOUS
  <2>. QED BY <2>1 DEF Container, Containers
<1>. HIDE DEF c
<1>2. << c >> \in Seq(Containers({})) /\ Len(<< c >>) = 1
  BY <1>1
<1>3. << c >> \in Seq(Containers(BlocksIn(<< c >>)))
  BY <1>2, BlocksTyped
<1>4. << c >> # << >> /\ \A i \in DOMAIN << c >> : << c >>[i].is_loop <=> i > 1
  BY <1>1
<1>. QED BY <1>2, <1>3, <1>4 DEF c

\* An opening bracket opens one container.
LEMMA OpenBracketOpens ==
  ASSUME CompilerTypeOK, OpenBracket, open # << >>
  PROVE  OpenOK' /\ Len(open') = Len(open) + 1
<1>. DEFINE B == BlocksIn(open) \cup {OpBlock(block)}
            f == Filled(open, OpBlock(block))
            c == NewContainer
<1>1. open \in Seq(Containers(B))
  BY ContainersMonotonic DEF CompilerTypeOK
<1>2. /\ f \in Seq(Containers(B)) /\ Len(f) = Len(open)
      /\ \A i \in DOMAIN open : f[i].is_loop = open[i].is_loop
  BY <1>1, OpBlock(block) \in B, FilledTyped
<1>3. c \in Containers(B) /\ c.is_loop
  <2>1. << >> \in Seq(B)
    OBVIOUS
  <2>. QED BY <2>1 DEF NewContainer, Container, Containers
<1>4. open' = Append(f, c)
  BY DEF OpenBracket
<1>. HIDE DEF B, f, c
<1>5. open' \in Seq(Containers(B)) /\ Len(open') = Len(f) + 1
  BY <1>2, <1>3, <1>4
<1>6. open' \in Seq(Containers(BlocksIn(open')))
  BY <1>5, BlocksTyped
<1>7. \A i \in DOMAIN open' : open'[i].is_loop <=> i > 1
  <2>1. DOMAIN open' = 1 .. Len(open) + 1 /\ DOMAIN open = 1 .. Len(open)
    BY <1>1, <1>2, <1>5
  <2>2. \A i \in DOMAIN open : open'[i] = f[i]
    BY <1>1, <1>2, <1>4
  <2>3. \A i \in DOMAIN open : open'[i].is_loop <=> i > 1
    BY <1>2, <2>2 DEF CompilerTypeOK
  <2>4. open'[Len(open) + 1].is_loop /\ Len(open) + 1 > 1
    BY <1>1, <1>2, <1>3, <1>4
  <2>. QED BY <2>1, <2>3, <2>4
<1>. QED BY <1>2, <1>5, <1>6, <1>7 DEF OpenOK

\* A closing bracket closes one.
LEMMA CloseBracketCloses ==
  ASSUME CompilerTypeOK, CloseBracket, open # << >>
  PROVE  OpenOK' /\ Len(open') = Len(open) - 1
<1>. DEFINE B == BlocksIn(open) \cup {OpBlock(block)}
            f == Filled(open, OpBlock(block))
            C == B \cup {Last(f)}
            g == Front(f)
<1>1. open \in Seq(Containers(B)) /\ Len(open) \in Nat \ {0}
  <2>1. open \in Seq(Containers(B))
    BY ContainersMonotonic DEF CompilerTypeOK
  <2>. QED BY <2>1
<1>2. /\ f \in Seq(Containers(B)) /\ Len(f) = Len(open)
      /\ \A i \in DOMAIN open : f[i].is_loop = open[i].is_loop
  BY <1>1, OpBlock(block) \in B, FilledTyped
<1>3. CASE Len(open) > 1
  <2>1. open' = Filled(g, Last(f))
    BY <1>3 DEF CloseBracket
  <2>. HIDE DEF f
  <2>2. f \in Seq(Containers(C))
    BY <1>2, ContainersMonotonic
  <2>3. /\ g \in Seq(Containers(C)) /\ Len(g) = Len(open) - 1
        /\ \A i \in 1 .. Len(open) - 1 : g[i] = f[i]
    BY <1>1, <1>2, <2>2 DEF Front
  <2>. HIDE DEF g, C
  <2>4. g # << >> /\ Last(f) \in C /\ DOMAIN g = 1 .. Len(open) - 1
    BY <1>1, <1>3, <2>3 DEF C
  <2>5. /\ open' \in Seq(Containers(C)) /\ Len(open') = Len(open) - 1
        /\ \A i \in DOMAIN g : open'[i].is_loop = g[i].is_loop
    BY <2>1, <2>3, <2>4, FilledTyped
  <2>6. open' \in Seq(Containers(BlocksIn(open')))
    BY <2>5, BlocksTyped
  <2>7. DOMAIN open' = 1 .. Len(open) - 1 /\ DOMAIN open = 1 .. Len(open)
    BY <1>1, <2>5
  <2>8. \A i \in DOMAIN open' : open'[i].is_loop <=> i > 1
    BY <1>1, <1>2, <2>3, <2>4, <2>5, <2>7 DEF CompilerTypeOK
  <2>. QED BY <2>5, <2>6, <2>8 DEF OpenOK
<1>4. CASE Len(open) = 1
  <2>1. open' = << >>
    BY <1>4 DEF CloseBracket
  <2>2. << >> \in Seq(Containers(BlocksIn(open')))
    OBVIOUS
  <2>3. \A i \in DOMAIN open' : open'[i].is_loop <=> i > 1
    BY <2>1
  <2>4. Len(open') = 0
    BY <2>1
  <2>. QED BY <1>4, <2>1, <2>2, <2>3, <2>4 DEF OpenOK
<1>5. Len(open) > 1 \/ Len(open) = 1
  <2>1. PICK n \in Nat \ {0} : n = Len(open)
    BY <1>1
  <2>. QED BY <2>1
<1>. QED BY <1>3, <1>4, <1>5

-----------------------------------------------------------------------------
(***************************************************************************)
(* What reads characters that are no brackets: everything but the position *)
(* and the block stays, and the block is empty only as long as no command  *)
(* is read.                                                                *)
(***************************************************************************)
Skims ==
  /\ parsing = "yes" /\ code_pos <= Len(code)
  /\ UNCHANGED <<code, open, parsing>>
  /\ code_pos' \in code_pos + 1 .. Len(code) + 1
  /\ \A i \in code_pos .. code_pos' - 1 : code[i] \notin Brackets
  /\ block' \in Seq(COp)
  /\ block' # << >> <=>
       block # << >> \/ \E i \in code_pos .. code_pos' - 1 : code[i] \in Commands

\* Runs of commands skim the text.
LEMMA RunOfCommandsSkims ==
  ASSUME CompilerTypeOK, RunOfCommands
  PROVE  Skims
<1>1. /\ parsing = "yes" /\ code_pos <= Len(code) /\ code[code_pos] \in {"+", "-", "<", ">"}
      /\ UNCHANGED <<code, open, parsing>>
      /\ code_pos' = code_pos + CountEqOps
      /\ block' = Append(block, RunOp(code[code_pos], CountEqOps))
  BY DEF RunOfCommands, Reads
<1>2. code_pos \in Nat \ {0} /\ Len(code) \in Nat /\ block \in Seq(COp)
  BY CCompilerAssumption DEF CompilerTypeOK
<1>3. /\ CountEqOps \in 1 .. Len(code) - code_pos + 1
      /\ \A i \in code_pos .. code_pos + CountEqOps - 1 : code[i] = code[code_pos]
  BY <1>1, RunLength
<1>4. RunOp(code[code_pos], CountEqOps) \in COp
  <2>1. CountEqOps \in Int /\ -CountEqOps \in Int
    BY <1>2, <1>3
  <2>. QED BY <2>1 DEF RunOp, CreateOp, COp, COpType
<1>5. block' \in Seq(COp) /\ block' # << >>
  BY <1>1, <1>2, <1>4
<1>6. code_pos' \in code_pos + 1 .. Len(code) + 1
  BY <1>1, <1>2, <1>3
<1>7. \A i \in code_pos .. code_pos' - 1 : code[i] \in Commands /\ code[i] \notin Brackets
  <2>1. code[code_pos] \in Commands /\ code[code_pos] \notin Brackets
    BY <1>1 DEF Commands, Brackets
  <2>2. code_pos' - 1 = code_pos + CountEqOps - 1
    <3>1. code_pos' = code_pos + CountEqOps
      BY <1>1
    <3>2. PICK p \in Int : p = code_pos
      BY <1>2
    <3>3. PICK n \in Int : n = CountEqOps
      BY <1>2, <1>3
    <3>. QED BY <3>1, <3>2, <3>3
  <2>. QED BY <1>3, <2>1, <2>2
<1>8. code_pos \in code_pos .. code_pos' - 1
  <2>1. PICK p \in Int : p = code_pos
    BY <1>2
  <2>2. PICK q \in Int : q = code_pos'
    BY <1>2, <1>6
  <2>3. q \in p + 1 .. Len(code) + 1 /\ Len(code) \in Nat
    BY <1>2, <1>6, <2>1, <2>2
  <2>4. p \in p .. q - 1
    BY <2>3
  <2>. QED BY <2>1, <2>2, <2>4
<1>. QED BY <1>1, <1>5, <1>6, <1>7, <1>8 DEF Skims

\* Input and output skim the text.
LEMMA InputOutputSkims ==
  ASSUME CompilerTypeOK, InputOutput
  PROVE  Skims
<1>. DEFINE o == CreateOp(IF code[code_pos] = "." THEN "BF_PUT" ELSE "BF_GET", 1, 0)
<1>1. /\ parsing = "yes" /\ code_pos <= Len(code) /\ code[code_pos] \in {".", ","}
      /\ UNCHANGED <<code, open, parsing>>
      /\ code_pos' = code_pos + 1
      /\ block' = Append(block, o)
  BY DEF InputOutput, Reads
<1>2. code_pos \in Nat \ {0} /\ Len(code) \in Nat /\ block \in Seq(COp)
  BY CCompilerAssumption DEF CompilerTypeOK
<1>3. o \in COp
  BY DEF CreateOp, COp, COpType
<1>. HIDE DEF o
<1>4. block' \in Seq(COp) /\ block' # << >>
  <2>1. Append(block, o) \in Seq(COp)
    BY <1>2, <1>3
  <2>2. Len(Append(block, o)) = Len(block) + 1 /\ Len(block) \in Nat
    BY <1>2, <1>3
  <2>3. Append(block, o) # << >>
    BY <2>2
  <2>. QED BY <1>1, <2>1, <2>3
<1>5. code_pos' \in code_pos + 1 .. Len(code) + 1 /\ code_pos .. code_pos' - 1 = {code_pos}
  <2>1. code_pos' = code_pos + 1 /\ code_pos <= Len(code)
    BY <1>1
  <2>. QED BY <1>2, <2>1
<1>6. code[code_pos] \in Commands /\ code[code_pos] \notin Brackets
  BY <1>1 DEF Commands, Brackets
<1>. QED BY <1>1, <1>4, <1>5, <1>6 DEF Skims

\* Comments skim the text.
LEMMA CommentSkims ==
  ASSUME CompilerTypeOK, Comment
  PROVE  Skims
<1>1. /\ parsing = "yes" /\ code_pos <= Len(code)
      /\ code[code_pos] \notin Commands /\ code[code_pos] \notin Brackets
      /\ UNCHANGED <<code, open, parsing, block>>
      /\ code_pos' = code_pos + 1
  BY DEF Comment, Reads, Brackets
<1>2. code_pos \in Nat \ {0} /\ Len(code) \in Nat /\ block \in Seq(COp)
  BY CCompilerAssumption DEF CompilerTypeOK
<1>3. code_pos' \in code_pos + 1 .. Len(code) + 1 /\ code_pos .. code_pos' - 1 = {code_pos}
  BY <1>1, <1>2
<1>. QED BY <1>1, <1>2, <1>3 DEF Skims

-----------------------------------------------------------------------------
\* Every step preserves the types.
LEMMA TypeStep ==
  ASSUME CompilerTypeOK,
         CompilerNext \/ (\E text \in Files : BeginText(text)) \/ UNCHANGED cCompilerVars
  PROVE  CompilerTypeOK'
<1>1. /\ code \in Files /\ code \in Seq(STRING) /\ Len(code) \in Nat
      /\ code_pos \in 1 .. Len(code) + 1 /\ block \in Seq(COp)
      /\ OpenOK /\ parsing \in {"yes", "done", "crashed"}
  BY CCompilerAssumption DEF CompilerTypeOK, OpenOK
<1>2. << >> \in Seq(COp)
  OBVIOUS
<1>3. ASSUME /\ code' \in Files /\ code_pos' \in 1 .. Len(code') + 1 /\ block' \in Seq(COp)
             /\ OpenOK' /\ parsing' \in {"yes", "done", "crashed"}
      PROVE  CompilerTypeOK'
  BY <1>3 DEF CompilerTypeOK, OpenOK
<1>4. CASE Skims
  <2>1. code_pos' \in 1 .. Len(code') + 1
    BY <1>1, <1>4 DEF Skims
  <2>2. OpenOK'
    BY <1>1, <1>4 DEF Skims, OpenOK
  <2>. QED BY <1>1, <1>3, <1>4, <2>1, <2>2 DEF Skims
<1>5. CASE UNCHANGED <<code, code_pos, open, block>> /\ parsing' \in {"yes", "done", "crashed"}
  <2>1. OpenOK'
    BY <1>1, <1>5 DEF OpenOK
  <2>. QED BY <1>1, <1>3, <1>5, <2>1
<1>6. CASE (OpenBracket \/ CloseBracket) /\ open # << >>
  <2>1. OpenOK'
    BY <1>6, OpenBracketOpens, CloseBracketCloses
  <2>2. /\ code_pos <= Len(code) /\ code_pos' = code_pos + 1 /\ block' = << >>
        /\ UNCHANGED <<code, parsing>>
    BY <1>6 DEF OpenBracket, CloseBracket, Reads, NextBlock
  <2>3. code_pos' \in 1 .. Len(code') + 1
    BY <1>1, <2>2
  <2>. QED BY <1>1, <1>2, <1>3, <2>1, <2>2, <2>3
<1>7. CASE \E text \in Files : BeginText(text)
  <2>1. PICK text \in Files : BeginText(text)
    BY <1>7
  <2>2. /\ code' = text /\ code_pos' = 1 /\ block' = << >> /\ parsing' = "yes"
        /\ open' = << Container(FALSE, << >>) >>
    BY <2>1 DEF BeginText
  <2>3. OpenOK'
    BY <2>2, ProgramOpen DEF OpenOK
  <2>4. Len(code') \in Nat
    BY <2>2, CCompilerAssumption
  <2>. QED BY <1>2, <1>3, <2>2, <2>3, <2>4
<1>8. CASE UNCHANGED cCompilerVars
  BY <1>1, <1>5, <1>8 DEF cCompilerVars
<1>9. CASE CompilerNext
  <2>1. CASE RunOfCommands
    BY <1>4, <2>1, RunOfCommandsSkims
  <2>2. CASE InputOutput
    BY <1>4, <2>2, InputOutputSkims
  <2>3. CASE Comment
    BY <1>4, <2>3, CommentSkims
  <2>4. CASE OpenBracket
    <3>1. CASE open = << >>
      BY <1>5, <2>4, <3>1 DEF OpenBracket, Reads, Crash
    <3>. QED BY <1>6, <2>4, <3>1
  <2>5. CASE CloseBracket
    <3>1. CASE open = << >>
      BY <1>5, <2>5, <3>1 DEF CloseBracket, Reads, Crash
    <3>. QED BY <1>6, <2>5, <3>1
  <2>6. CASE EndOfText
    <3>1. CASE block # << >> /\ open = << >>
      BY <1>5, <2>6, <3>1 DEF EndOfText, Crash
    <3>2. CASE ~(block # << >> /\ open = << >>)
      BY <1>5, <2>6, <3>2 DEF EndOfText
    <3>. QED BY <3>1, <3>2
  <2>. QED BY <1>9, <2>1, <2>2, <2>3, <2>4, <2>5, <2>6 DEF CompilerNext
<1>. QED BY <1>7, <1>8, <1>9

-----------------------------------------------------------------------------
(***************************************************************************)
(* As long as there is a container, one is open for the program and one    *)
(* for each open bracket, and no closing bracket was stray.                *)
(***************************************************************************)
Opened ==
  /\ Len(open) = 1 + Depth(code, code_pos - 1)
  /\ \A k \in 0 .. code_pos - 1 : Depth(code, k) >= 0

\* s is the first stray bracket, and no bracket follows it in what was read; the
\* block holds the commands that do.
LeftAt(s) ==
  /\ StrayAt(s)
  /\ \A i \in 1 .. s - 1 : ~StrayAt(i)
  /\ \A i \in s + 1 .. code_pos - 1 : code[i] \notin Brackets
  /\ block # << >> <=> \E i \in s + 1 .. code_pos - 1 : code[i] \in Commands

\* Something is left to put somewhere after a stray bracket.
SomethingLeft ==
  \E i \in DOMAIN code : StrayAt(i) /\
    \E j \in i + 1 .. Len(code) : code[j] \in Commands \cup Brackets

CrashInv ==
  /\ open # << >> => Opened
  /\ open = << >> => \E s \in 1 .. code_pos - 1 : LeftAt(s)
  /\ parsing = "crashed" => SomethingLeft
  /\ parsing = "done" => code_pos = Len(code) + 1 /\ (open = << >> => block = << >>)

\* Characters that are no brackets do not change the depth.
LEMMA FlatDepth ==
  ASSUME NEW text, NEW j \in Nat, NEW k \in Int, j <= k,
         \A i \in j + 1 .. k : text[i] \notin Brackets
  PROVE  Depth(text, k) = Depth(text, j)
<1>1. ASSUME NEW c \in Brackets
      PROVE  Count(text, c, 1, k) = Count(text, c, 1, j)
  <2>1. {i \in j + 1 .. k : text[i] = c} = {}
    OBVIOUS
  <2>2. Count(text, c, j + 1, k) = 0
    BY <2>1, FS_EmptySet DEF Count
  <2>3. Count(text, c, 1, j) \in Nat
    BY CountType, 1 \in Int, j \in Int
  <2>4. Count(text, c, 1, k) = Count(text, c, 1, j) + Count(text, c, j + 1, k)
    BY CountParts
  <2>. QED BY <2>2, <2>3, <2>4
<1>. QED BY <1>1 DEF Depth, Brackets

\* Reading on without a bracket leaves the depth where it was.
LEMMA SkimmedDepth ==
  ASSUME NEW text, NEW p \in Nat \ {0}, NEW q \in Int, p < q,
         \A i \in p .. q - 1 : text[i] \notin Brackets,
         \A k \in 0 .. p - 1 : Depth(text, k) >= 0
  PROVE  /\ Depth(text, q - 1) = Depth(text, p - 1)
         /\ \A k \in 0 .. q - 1 : Depth(text, k) >= 0
<1>1. p - 1 \in Nat /\ (p - 1) + 1 = p
  OBVIOUS
<1>2. ASSUME NEW k \in p - 1 .. q - 1
      PROVE  Depth(text, k) = Depth(text, p - 1)
  <2>1. k \in Int /\ p - 1 <= k /\ \A i \in (p - 1) + 1 .. k : text[i] \notin Brackets
    OBVIOUS
  <2>. QED BY <1>1, <2>1, FlatDepth
<1>. QED BY <1>2

\* Skimming preserves the invariant.
LEMMA SkimStep ==
  ASSUME CompilerTypeOK, CrashInv, Skims
  PROVE  CrashInv'
<1>1. PICK p \in Nat \ {0} : p = code_pos
  BY DEF CompilerTypeOK
<1>2. PICK q \in Int : q = code_pos'
  BY CCompilerAssumption DEF CompilerTypeOK, Skims
<1>3. Len(code) \in Nat
  BY CCompilerAssumption DEF CompilerTypeOK
<1>4. /\ code' = code /\ open' = open /\ parsing' = "yes"
      /\ q \in p + 1 .. Len(code) + 1
      /\ \A i \in p .. q - 1 : code[i] \notin Brackets
      /\ block' # << >> <=> block # << >> \/ \E i \in p .. q - 1 : code[i] \in Commands
  BY <1>1, <1>2 DEF Skims
<1>5. (open # << >> => Opened)'
  <2>. SUFFICES ASSUME open # << >> PROVE Opened'
    BY <1>4
  <2>1. Len(open) = 1 + Depth(code, p - 1) /\ \A k \in 0 .. p - 1 : Depth(code, k) >= 0
    BY <1>1 DEF CrashInv, Opened
  <2>2. p < q
    BY <1>3, <1>4
  <2>3. /\ Depth(code, q - 1) = Depth(code, p - 1)
        /\ \A k \in 0 .. q - 1 : Depth(code, k) >= 0
    BY <1>4, <2>1, <2>2, SkimmedDepth
  <2>. QED BY <1>2, <1>4, <2>1, <2>3 DEF Opened
<1>6. (open = << >> => \E s \in 1 .. code_pos - 1 : LeftAt(s))'
  <2>. SUFFICES ASSUME open = << >> PROVE \E s \in 1 .. q - 1 : LeftAt(s)'
    BY <1>2, <1>4
  <2>1. PICK s \in 1 .. p - 1 : LeftAt(s)
    BY <1>1 DEF CrashInv
  <2>2. /\ StrayAt(s) /\ \A i \in 1 .. s - 1 : ~StrayAt(i)
        /\ \A i \in s + 1 .. p - 1 : code[i] \notin Brackets
        /\ block # << >> <=> \E i \in s + 1 .. p - 1 : code[i] \in Commands
    BY <1>1, <2>1 DEF LeftAt
  <2>3. \A i : StrayAt(i)' <=> StrayAt(i)
    BY <1>4 DEF StrayAt
  <2>4. \A i : i \in s + 1 .. q - 1 <=> i \in s + 1 .. p - 1 \/ i \in p .. q - 1
    BY <1>3, <1>4
  <2>5. \A i \in s + 1 .. q - 1 : code[i] \notin Brackets
    BY <1>4, <2>2, <2>4
  <2>6. block' # << >> <=> \E i \in s + 1 .. q - 1 : code[i] \in Commands
    BY <1>4, <2>2, <2>4
  <2>7. LeftAt(s)'
    BY <1>2, <1>4, <2>2, <2>3, <2>5, <2>6 DEF LeftAt
  <2>8. s \in 1 .. q - 1
    BY <1>3, <1>4
  <2>. QED BY <2>7, <2>8
<1>. QED BY <1>4, <1>5, <1>6 DEF CrashInv

\* An opening bracket preserves the invariant.
LEMMA OpenStep ==
  ASSUME CompilerTypeOK, CrashInv, OpenBracket, open # << >>
  PROVE  CrashInv'
<1>1. PICK p \in Nat \ {0} : p = code_pos
  BY DEF CompilerTypeOK
<1>2. /\ code[p] = "[" /\ code' = code /\ code_pos' = p + 1 /\ parsing' = "yes"
  BY <1>1 DEF OpenBracket, Reads
<1>3. Len(open') = Len(open) + 1 /\ Len(open) \in Nat
  BY OpenBracketOpens DEF CompilerTypeOK
<1>4. open' # << >>
  BY <1>3
<1>5. Len(open) = 1 + Depth(code, p - 1) /\ \A k \in 0 .. p - 1 : Depth(code, k) >= 0
  BY <1>1 DEF CrashInv, Opened
<1>6. p - 1 \in Nat /\ (p - 1) + 1 = p
  OBVIOUS
<1>7. Depth(code, p - 1) \in Int /\ Depth(code, p) = Depth(code, p - 1) + 1
  BY <1>2, <1>6, DepthStep
<1>8. Len(open') = 1 + Depth(code, p) /\ \A k \in 0 .. p : Depth(code, k) >= 0
  <2>1. Depth(code, p - 1) >= 0
    BY <1>5, <1>6
  <2>2. \A k \in 0 .. p : k \in 0 .. p - 1 \/ k = p
    OBVIOUS
  <2>. QED BY <1>3, <1>5, <1>7, <2>1, <2>2
<1>9. Opened'
  <2>1. p = (p + 1) - 1
    OBVIOUS
  <2>. QED BY <1>2, <1>8, <2>1 DEF Opened
<1>. QED BY <1>2, <1>4, <1>9 DEF CrashInv

\* A closing bracket preserves it, also when it is the first that closes nothing.
LEMMA CloseStep ==
  ASSUME CompilerTypeOK, CrashInv, CloseBracket, open # << >>
  PROVE  CrashInv'
<1>1. PICK p \in Nat \ {0} : p = code_pos
  BY DEF CompilerTypeOK
<1>2. /\ code[p] = "]" /\ code' = code /\ code_pos' = p + 1 /\ parsing' = "yes"
      /\ block' = << >>
  BY <1>1 DEF CloseBracket, Reads, NextBlock
<1>3. Len(open') = Len(open) - 1 /\ Len(open) \in Nat
  BY CloseBracketCloses DEF CompilerTypeOK
<1>4. Len(open) = 1 + Depth(code, p - 1) /\ \A k \in 0 .. p - 1 : Depth(code, k) >= 0
  BY <1>1 DEF CrashInv, Opened
<1>5. p - 1 \in Nat /\ (p - 1) + 1 = p /\ p = (p + 1) - 1
  OBVIOUS
<1>6. Depth(code, p - 1) \in Int /\ Depth(code, p) = Depth(code, p - 1) - 1
  BY <1>2, <1>5, DepthStep
<1>7. open' # << >> => Opened'
  <2>. SUFFICES ASSUME open' # << >> PROVE Opened'
    OBVIOUS
  <2>1. Len(open') >= 1
    <3>1. open' \in Seq(Containers(BlocksIn(open')))
      BY CloseBracketCloses DEF OpenOK
    <3>. QED BY <3>1
  <2>2. Len(open') = 1 + Depth(code, p) /\ Depth(code, p) >= 0
    BY <1>3, <1>4, <1>6, <2>1
  <2>3. \A k \in 0 .. p : k \in 0 .. p - 1 \/ k = p
    OBVIOUS
  <2>4. \A k \in 0 .. p : Depth(code, k) >= 0
    BY <1>4, <2>2, <2>3
  <2>. QED BY <1>2, <1>5, <2>2, <2>4 DEF Opened
<1>8. open' = << >> => LeftAt(p)'
  <2>. SUFFICES ASSUME open' = << >> PROVE LeftAt(p)'
    OBVIOUS
  <2>1. Depth(code, p - 1) = 0
    <3>1. Len(open') = 0
      OBVIOUS
    <3>. QED BY <1>3, <1>4, <1>6, <3>1
  <2>2. StrayAt(p)
    BY <1>2, <1>4, <2>1, StrayWhereDepthIsZero
  <2>3. \A i \in 1 .. p - 1 : ~StrayAt(i)
    BY <1>4, <1>5, NoStray
  <2>4. \A i : StrayAt(i)' <=> StrayAt(i)
    BY <1>2 DEF StrayAt
  <2>5. p + 1 .. (p + 1) - 1 = {}
    OBVIOUS
  <2>. QED BY <1>2, <2>2, <2>3, <2>4, <2>5 DEF LeftAt
<1>9. p \in 1 .. (p + 1) - 1
  OBVIOUS
<1>. QED BY <1>2, <1>7, <1>8, <1>9 DEF CrashInv

\* A bracket read when there is no container is left behind the stray one.
LEMMA CrashAtBracket ==
  ASSUME CompilerTypeOK, CrashInv, OpenBracket \/ CloseBracket, open = << >>
  PROVE  CrashInv'
<1>1. PICK p \in Nat \ {0} : p = code_pos
  BY DEF CompilerTypeOK
<1>2. Len(code) \in Nat /\ code \in Seq(STRING)
  BY CCompilerAssumption DEF CompilerTypeOK
<1>3. /\ code[p] \in Brackets /\ p <= Len(code)
      /\ UNCHANGED <<code, code_pos, open, block>> /\ parsing' = "crashed"
  BY <1>1 DEF OpenBracket, CloseBracket, Reads, Crash, Brackets
<1>4. \A i : StrayAt(i)' <=> StrayAt(i)
  BY <1>3 DEF StrayAt
<1>5. PICK s \in 1 .. p - 1 : LeftAt(s)
  BY <1>1 DEF CrashInv
<1>6. SomethingLeft
  <2>1. s \in DOMAIN code /\ StrayAt(s) /\ p \in s + 1 .. Len(code)
    BY <1>2, <1>3, <1>5 DEF LeftAt
  <2>. QED BY <1>3, <2>1 DEF SomethingLeft
<1>7. SomethingLeft'
  BY <1>3, <1>4, <1>6 DEF SomethingLeft
<1>8. \A i : LeftAt(i)' <=> LeftAt(i)
  BY <1>3, <1>4 DEF LeftAt
<1>. QED BY <1>3, <1>7, <1>8 DEF CrashInv, Opened

\* At the end of the text the compiler crashes if a block is left, or is done.
LEMMA EndStep ==
  ASSUME CompilerTypeOK, CrashInv, EndOfText
  PROVE  CrashInv'
<1>1. PICK p \in Nat \ {0} : p = code_pos /\ p <= Len(code) + 1
  BY DEF CompilerTypeOK
<1>2. Len(code) \in Nat /\ code \in Seq(STRING)
  BY CCompilerAssumption DEF CompilerTypeOK
<1>3. UNCHANGED <<code, code_pos, open, block>> /\ p = Len(code) + 1
  <2>1. UNCHANGED <<code, code_pos, open, block>> /\ p > Len(code)
    BY <1>1 DEF EndOfText, Crash
  <2>. QED BY <1>1, <1>2, <2>1
<1>4. \A i : StrayAt(i)' <=> StrayAt(i)
  BY <1>3 DEF StrayAt
<1>5. \A i : LeftAt(i)' <=> LeftAt(i)
  BY <1>3, <1>4 DEF LeftAt
<1>6. CASE block # << >> /\ open = << >>
  <2>1. parsing' = "crashed"
    BY <1>6 DEF EndOfText, Crash
  <2>2. PICK s \in 1 .. p - 1 : LeftAt(s)
    BY <1>1, <1>6 DEF CrashInv
  <2>3. PICK j \in s + 1 .. p - 1 : code[j] \in Commands
    BY <1>1, <1>6, <2>2 DEF LeftAt
  <2>4. s \in DOMAIN code /\ StrayAt(s) /\ j \in s + 1 .. Len(code)
    BY <1>2, <1>3, <2>2 DEF LeftAt
  <2>5. SomethingLeft
    BY <2>3, <2>4 DEF SomethingLeft
  <2>6. SomethingLeft'
    BY <1>3, <1>4, <2>5 DEF SomethingLeft
  <2>. QED BY <1>3, <1>5, <2>1, <2>6 DEF CrashInv, Opened
<1>7. CASE ~(block # << >> /\ open = << >>)
  <2>1. parsing' = "done"
    BY <1>7 DEF EndOfText
  <2>2. (open = << >> => block = << >>)'
    BY <1>3, <1>7
  <2>3. (code_pos = Len(code) + 1)'
    BY <1>1, <1>3
  <2>. QED BY <1>3, <1>5, <2>1, <2>2, <2>3 DEF CrashInv, Opened
<1>. QED BY <1>6, <1>7

\* Another text starts with the program open.
LEMMA BeginStep ==
  ASSUME NEW text \in Files, BeginText(text)
  PROVE  CrashInv'
<1>1. /\ code_pos' = 1 /\ parsing' = "yes" /\ open' = << Container(FALSE, << >>) >>
      /\ Len(open') = 1
  BY DEF BeginText
<1>2. open' # << >>
  BY <1>1
<1>3. Depth(code', 0) = 0
  BY DepthStep
<1>4. Opened'
  BY <1>1, <1>3 DEF Opened
<1>. QED BY <1>1, <1>2, <1>4 DEF CrashInv

\* The initial state has the types and the invariant.
LEMMA InitOK ==
  ASSUME CompilerInit
  PROVE  CompilerTypeOK /\ CrashInv
<1>1. /\ code \in Files /\ code_pos = 1 /\ block = << >> /\ parsing = "yes"
      /\ open = << Container(FALSE, << >>) >>
  BY DEF CompilerInit
<1>2. << >> \in Seq(COp) /\ Len(code) \in Nat
  BY <1>1, CCompilerAssumption
<1>3. CompilerTypeOK
  <2>1. /\ open \in Seq(Containers(BlocksIn(open)))
        /\ \A i \in DOMAIN open : open[i].is_loop <=> i > 1
    BY <1>1, ProgramOpen
  <2>2. code_pos \in 1 .. Len(code) + 1
    BY <1>1, <1>2
  <2>. QED BY <1>1, <1>2, <2>1, <2>2 DEF CompilerTypeOK
<1>4. open # << >> /\ Len(open) = 1
  BY <1>1
<1>5. Depth(code, 0) = 0
  BY DepthStep
<1>6. Opened
  BY <1>1, <1>4, <1>5 DEF Opened
<1>. QED BY <1>1, <1>3, <1>4, <1>6 DEF CrashInv

\* Every step preserves the invariant.
LEMMA CrashInvStep ==
  ASSUME CompilerTypeOK, CrashInv,
         CompilerNext \/ (\E text \in Files : BeginText(text)) \/ UNCHANGED cCompilerVars
  PROVE  CrashInv'
<1>1. CASE CompilerNext
  <2>1. CASE RunOfCommands
    BY <2>1, RunOfCommandsSkims, SkimStep
  <2>2. CASE InputOutput
    BY <2>2, InputOutputSkims, SkimStep
  <2>3. CASE Comment
    BY <2>3, CommentSkims, SkimStep
  <2>4. CASE OpenBracket
    BY <2>4, OpenStep, CrashAtBracket
  <2>5. CASE CloseBracket
    BY <2>5, CloseStep, CrashAtBracket
  <2>6. CASE EndOfText
    BY <2>6, EndStep
  <2>. QED BY <1>1, <2>1, <2>2, <2>3, <2>4, <2>5, <2>6 DEF CompilerNext
<1>2. CASE \E text \in Files : BeginText(text)
  BY <1>2, BeginStep
<1>3. CASE UNCHANGED cCompilerVars
  <2>1. UNCHANGED <<code, code_pos, open, block, parsing>>
    BY <1>3 DEF cCompilerVars
  <2>2. \A i : StrayAt(i)' <=> StrayAt(i)
    BY <2>1 DEF StrayAt
  <2>3. \A i : LeftAt(i)' <=> LeftAt(i)
    BY <2>1, <2>2 DEF LeftAt
  <2>4. SomethingLeft' <=> SomethingLeft
    BY <2>1, <2>2 DEF SomethingLeft
  <2>. QED BY <2>1, <2>3, <2>4 DEF CrashInv, Opened
<1>. QED BY <1>1, <1>2, <1>3

\* When the compiler is done, nothing is left behind a stray bracket.
LEMMA DoneLeavesNothing ==
  ASSUME CompilerTypeOK, CrashInv, parsing = "done"
  PROVE  ~SomethingLeft
<1>. SUFFICES ASSUME NEW i \in DOMAIN code, StrayAt(i),
                     NEW j \in i + 1 .. Len(code), code[j] \in Commands \cup Brackets
              PROVE  FALSE
  BY DEF SomethingLeft
<1>1. Len(code) \in Nat /\ code \in Seq(STRING) /\ code_pos = Len(code) + 1
  BY CCompilerAssumption DEF CompilerTypeOK, CrashInv
<1>2. i \in 1 .. Len(code) /\ j \in 1 .. Len(code)
  BY <1>1
<1>3. CASE open # << >>
  <2>1. \A k \in 0 .. Len(code) : Depth(code, k) >= 0
    BY <1>1, <1>3 DEF CrashInv, Opened
  <2>. QED BY <1>1, <1>2, <2>1, NoStray
<1>4. CASE open = << >>
  <2>1. PICK s \in 1 .. Len(code) : LeftAt(s)
    BY <1>1, <1>4 DEF CrashInv
  <2>2. block = << >>
    BY <1>4 DEF CrashInv
  <2>3. /\ \A k \in 1 .. s - 1 : ~StrayAt(k)
        /\ \A k \in s + 1 .. Len(code) : code[k] \notin Brackets /\ code[k] \notin Commands
    BY <1>1, <2>1, <2>2 DEF LeftAt
  <2>4. i >= s
    BY <1>2, <2>3
  <2>5. j \in s + 1 .. Len(code)
    BY <1>1, <1>2, <2>1, <2>4
  <2>. QED BY <2>3, <2>5
<1>. QED BY <1>3, <1>4

-----------------------------------------------------------------------------
\* The parser keeps its types: the containers that are open and all they hold are
\* well formed, and only the first of them is no loop.
THEOREM TypeCorrect == CompilerSpec => []CompilerTypeOK
<1>1. CompilerInit => CompilerTypeOK
  BY InitOK
<1>2. /\ CompilerTypeOK
      /\ [CompilerNext \/ \E text \in Files : BeginText(text)]_cCompilerVars
      => CompilerTypeOK'
  BY TypeStep
<1>. QED BY <1>1, <1>2, PTL DEF CompilerSpec

\* What the parser has open, and what follows a stray bracket, is what CrashInv says.
THEOREM Invariant == CompilerSpec => []CrashInv
<1>1. CompilerInit => CrashInv
  BY InitOK
<1>2. /\ CompilerTypeOK /\ CrashInv
      /\ [CompilerNext \/ \E text \in Files : BeginText(text)]_cCompilerVars
      => CrashInv'
  BY CrashInvStep
<1>. QED BY <1>1, <1>2, TypeCorrect, PTL DEF CompilerSpec

\* For every text, the parser crashes just when a command or a bracket follows the
\* first closing bracket that closes nothing.
THEOREM CrashesJustAfterStray == CompilerSpec => []CrashesAfterStray
<1>1. CompilerTypeOK /\ CrashInv => CrashesAfterStray
  <2>. SUFFICES ASSUME CompilerTypeOK, CrashInv, parsing # "yes" PROVE CrashesAfterStray
    BY DEF CrashesAfterStray
  <2>1. parsing = "crashed" => SomethingLeft
    BY DEF CrashInv
  <2>2. parsing = "done" => ~SomethingLeft
    BY DoneLeavesNothing
  <2>3. parsing = "crashed" <=> SomethingLeft
    BY <2>1, <2>2 DEF CompilerTypeOK
  <2>. QED BY <2>3 DEF CrashesAfterStray, SomethingLeft, Brackets
<1>. QED BY <1>1, TypeCorrect, Invariant, PTL
=============================================================================
