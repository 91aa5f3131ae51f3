--------------------------- MODULE ArchiveProofs ---------------------------
(***************************************************************************)
(* Proofs about Archive, for any blocks of the two chains and any order in *)
(* which they are stored.                                                  *)
(*                                                                         *)
(* What is stored is closed under parents, and each vector of a skip list  *)
(* is made of blocks that are stored.  So the lookups that skip find what  *)
(* a walk over the parents finds, and all that the archive says of a block *)
(* follows from the blocks before it, whenever they were stored.           *)
(***************************************************************************)
EXTENDS Archive, FunctionTheorems, FiniteSetTheorems, SequenceTheorems, WellFoundedInduction, TLAPS

\* A set of numbers has a least one.
LEMMA NatMin ==
    ASSUME NEW T \in SUBSET Nat, T # {}
    PROVE  \E n \in T : \A m \in T : n <= m
<1> DEFINE R == {ss \in Nat \X Nat : ss[1] < ss[2]}
<1>1. R = OpToRel(<, Nat)
  BY DEF OpToRel
<1>2. IsWellFoundedOn(R, Nat)
  BY <1>1, NatLessThanWellFounded
<1>3. PICK n \in T : \A m \in T : ~(<<m, n>> \in R)
  <2> HIDE DEF R
  <2> QED
    BY <1>2, WFMin
<1>4. ASSUME NEW m \in T
      PROVE  n <= m
  <2>1. <<m, n>> \notin R
    BY <1>3
  <2>2. m \in Nat /\ n \in Nat
    OBVIOUS
  <2> QED
    BY <2>1, <2>2
<1> QED
  BY <1>4

-----------------------------------------------------------------------------
(***************************************************************************)
(* Powers of two.                                                          *)
(***************************************************************************)
\* The subsets of 1..(i+1) are those of 1..i, each with and without i+1.
LEMMA TwoPower ==
    /\ \A i \in Nat : i = 0 => 2^i = 1
    /\ \A i \in Nat : 2^i \in Nat /\ 2^(i + 1) = 2^i + 2^i
<1>1. ASSUME NEW i \in Nat, i = 0 PROVE 2^i = 1
  <2>1. 1..i = {}
    BY <1>1
  <2>2. SUBSET (1..i) = {{}}
    BY <2>1
  <2>3. IsFiniteSet(1..i) /\ Cardinality(1..i) = i
    BY <1>1, FS_Interval
  <2>4. Cardinality(SUBSET (1..i)) = 2^i
    BY <2>3, FS_SUBSET
  <2>5. Cardinality({{}}) = 1
    BY FS_Singleton
  <2> QED
    BY <2>2, <2>4, <2>5
<1>2. ASSUME NEW i \in Nat PROVE 2^i \in Nat /\ 2^(i + 1) = 2^i + 2^i
  <2> DEFINE A == SUBSET (1..i)
             B == {X \cup {i + 1} : X \in A}
             f == [X \in A |-> X \cup {i + 1}]
  <2>1. /\ IsFiniteSet(1..i) /\ Cardinality(1..i) = i
        /\ IsFiniteSet(1..(i + 1)) /\ Cardinality(1..(i + 1)) = i + 1
    BY FS_Interval
  <2>2. /\ IsFiniteSet(A) /\ Cardinality(A) = 2^i
        /\ Cardinality(SUBSET (1..(i + 1))) = 2^(i + 1)
    BY <2>1, FS_SUBSET
  <2>3. \A X \in A : i + 1 \notin X
    OBVIOUS
  <2>4. f \in Bijection(A, B)
    <3>1. f \in [A -> B] /\ \A Y \in B : \E X \in A : f[X] = Y
      OBVIOUS
    <3>2. \A X, Y \in A : f[X] = f[Y] => X = Y
      BY <2>3
    <3> HIDE DEF A, B, f
    <3> QED
      BY <3>1, <3>2 DEF Bijection, Injection, Surjection, IsInjective
  <2>5. IsFiniteSet(B) /\ Cardinality(B) = 2^i
    <3>1. ExistsBijection(A, B)
      BY <2>4 DEF ExistsBijection
    <3> QED
      BY <2>2, <3>1, FS_Bijection
  <2>6. A \cap B = {} /\ A \cup B = SUBSET (1..(i + 1))
    <3>1. A \cap B = {}
      BY <2>3
    <3>2. \A Y \in A \cup B : Y \in SUBSET (1..(i + 1))
      OBVIOUS
    <3>3. ASSUME NEW Y \in SUBSET (1..(i + 1)) PROVE Y \in A \cup B
      <4>1. CASE i + 1 \notin Y
        BY <4>1
      <4>2. CASE i + 1 \in Y
        <5>1. Y \ {i + 1} \in A /\ Y = (Y \ {i + 1}) \cup {i + 1}
          BY <4>2
        <5> QED
          BY <5>1
      <4> QED
        BY <4>1, <4>2
    <3> QED
      BY <3>1, <3>2, <3>3
  <2> HIDE DEF A, B
  <2>7. Cardinality(A) \in Nat
    BY <2>2, FS_CardinalityType
  <2>8. Cardinality(A \cup B) = Cardinality(A) + Cardinality(B) - Cardinality(A \cap B)
    BY <2>2, <2>5, FS_Union
  <2>9. Cardinality(A \cap B) = 0
    BY <2>6, FS_EmptySet
  <2>10. 2^i \in Nat
    BY <2>2, <2>7
  <2> DEFINE p == 2^i
             q == 2^(i + 1)
  <2>11. q = p + p - 0
    BY <2>2, <2>5, <2>6, <2>8, <2>9
  <2>12. q = p + p
    <3> HIDE DEF p, q
    <3> QED
      BY <2>10, <2>11 DEF p
  <2> QED
    BY <2>10, <2>12
<1> QED
  BY <1>1, <1>2

\* They grow, and faster than the numbers.
LEMMA PowerGrows ==
    \A i \in Nat : 2^i >= i + 1
<1> DEFINE Bad == {i \in Nat : ~(2^i >= i + 1)}
<1>1. SUFFICES ASSUME Bad # {} PROVE FALSE
  OBVIOUS
<1>2. PICK i \in Bad : \A j \in Bad : i <= j
  BY <1>1, NatMin
<1>3. i # 0
  BY <1>2, TwoPower
<1>4. i - 1 \in Nat /\ i - 1 \notin Bad /\ (i - 1) + 1 = i
  BY <1>2, <1>3
<1>5. 2^(i - 1) >= i /\ 2^(i - 1) \in Nat
  BY <1>4, TwoPower
<1>6. 2^i = 2^(i - 1) + 2^(i - 1)
  BY <1>4, TwoPower
<1> QED
  BY <1>2, <1>3, <1>5, <1>6

\* ilog2.
LEMMA LogIs ==
    ASSUME NEW n \in Nat, n >= 1
    PROVE  /\ Log2(n) \in Nat /\ 2^Log2(n) \in Nat \ {0}
           /\ 2^Log2(n) <= n /\ n < 2^(Log2(n) + 1)
           /\ n >= 2 => Log2(n) >= 1
<1> DEFINE T == {i \in Nat : n < 2^(i + 1)}
<1>1. n \in T
  BY PowerGrows, TwoPower
<1>2. PICK i \in T : \A j \in T : i <= j
  BY <1>1, NatMin
<1>3. i <= n /\ i \in 0..n
  BY <1>1, <1>2
<1>4. 2^i <= n
  <2>1. CASE i = 0
    BY <2>1, TwoPower
  <2>2. CASE i # 0
    <3>1. i - 1 \in Nat /\ i - 1 \notin T /\ (i - 1) + 1 = i
      BY <1>2, <2>2
    <3>2. ~(n < 2^i)
      BY <3>1
    <3> QED
      BY <3>2, TwoPower
  <2> QED
    BY <2>1, <2>2
<1>5. Log2(n) \in 0..n /\ 2^Log2(n) <= n /\ n < 2^(Log2(n) + 1)
  BY <1>2, <1>3, <1>4 DEF Log2
<1> DEFINE l == Log2(n)
<1>6. l \in Nat /\ 2^l \in Nat /\ 2^l >= 1
  BY <1>5, TwoPower, PowerGrows
<1>7. n >= 2 => l # 0
  BY <1>5, TwoPower
<1> QED
  BY <1>5, <1>6, <1>7

-----------------------------------------------------------------------------
(***************************************************************************)
(* Skip lists, of either chain: up[b] has b and its ancestors.             *)
(***************************************************************************)
Lineage(S, parent, up) ==
    \A b \in S :
        /\ up[b] \in Seq(S)
        /\ Len(up[b]) >= 1 /\ up[b][1] = b
        /\ Len(up[b]) > 1 =>
              /\ parent[b] \in S /\ Len(up[b]) = Len(up[parent[b]]) + 1
              /\ \A i \in 1..Len(up[parent[b]]) : up[b][i + 1] = up[parent[b]][i]

\* Each vector has the ancestors at the powers of two.
Vectors(S, exponential, up) ==
    \A b \in S : \A i \in Nat \ {0} :
        2^i < Len(up[b]) => exponential[b][i] = up[b][2^i + 1]

\* The ancestors of an ancestor are the rest of the ancestors.
Rest(S, up, b, i) ==
    i < Len(up[b]) =>
        /\ up[b][i + 1] \in S
        /\ Len(up[up[b][i + 1]]) = Len(up[b]) - i
        /\ \A j \in Nat : i + j < Len(up[b]) => up[up[b][i + 1]][j + 1] = up[b][i + j + 1]

LEMMA UpLen ==
    ASSUME NEW S, NEW parent, NEW up, Lineage(S, parent, up), NEW b \in S
    PROVE  up[b] \in Seq(S) /\ Len(up[b]) \in Nat \ {0} /\ up[b][1] = b
<1>1. up[b] \in Seq(S)
  BY DEF Lineage
<1>2. Len(up[b]) \in Nat
  BY <1>1
<1> QED
  BY <1>1, <1>2 DEF Lineage

LEMMA RestIs ==
    ASSUME NEW S, NEW parent, NEW up, Lineage(S, parent, up)
    PROVE  \A b \in S, i \in Nat : Rest(S, up, b, i)
<1> DEFINE Bad == {i \in Nat : \E b \in S : ~Rest(S, up, b, i)}
<1>1. SUFFICES ASSUME Bad # {} PROVE FALSE
  OBVIOUS
<1>2. PICK i \in Bad : \A j \in Bad : i <= j
  BY <1>1, NatMin
<1>3. PICK b \in S : ~Rest(S, up, b, i)
  BY <1>2
<1>4. i \in Nat /\ up[b] \in Seq(S) /\ Len(up[b]) \in Nat
  BY <1>2 DEF Lineage
<1>5. i # 0
  <2>1. up[b][1] = b
    BY DEF Lineage
  <2> QED
    BY <1>3, <1>4, <2>1 DEF Rest
<1>6. i < Len(up[b])
  BY <1>3 DEF Rest
<1>7. /\ parent[b] \in S /\ Len(up[b]) = Len(up[parent[b]]) + 1
      /\ \A k \in 1..Len(up[parent[b]]) : up[b][k + 1] = up[parent[b]][k]
  BY <1>4, <1>5, <1>6 DEF Lineage
<1> DEFINE p == parent[b]
<1>8. i - 1 \in Nat /\ Rest(S, up, p, i - 1)
  BY <1>2, <1>4, <1>5, <1>7
<1>9. Len(up[p]) \in Nat /\ i - 1 < Len(up[p]) /\ (i - 1) + 1 = i /\ i \in 1..Len(up[p])
  <2>1. Len(up[p]) \in Nat
    BY <1>7, UpLen
  <2> QED
    BY <1>4, <1>5, <1>6, <1>7, <2>1
<1>10. /\ up[p][i] \in S
       /\ Len(up[up[p][i]]) = Len(up[p]) - (i - 1)
       /\ \A j \in Nat : (i - 1) + j < Len(up[p]) => up[up[p][i]][j + 1] = up[p][(i - 1) + j + 1]
  BY <1>8, <1>9 DEF Rest
<1>11. up[b][i + 1] = up[p][i]
  BY <1>7, <1>9
<1>12. Len(up[up[b][i + 1]]) = Len(up[b]) - i
  BY <1>4, <1>7, <1>9, <1>10, <1>11
<1>13. ASSUME NEW j \in Nat, i + j < Len(up[b])
       PROVE  up[up[b][i + 1]][j + 1] = up[b][i + j + 1]
  <2>1. (i - 1) + j < Len(up[p]) /\ (i - 1) + j + 1 = i + j /\ i + j \in 1..Len(up[p])
    BY <1>4, <1>5, <1>7, <1>9, <1>13
  <2>2. up[up[p][i]][j + 1] = up[p][i + j]
    BY <1>10, <2>1
  <2> QED
    BY <1>7, <1>11, <2>1, <2>2
<1> QED
  BY <1>3, <1>10, <1>11, <1>12, <1>13 DEF Rest

\* The first turns of the loop of get_nth_ancestor.
IsLoop(f, exponential, parent, block, n, j) ==
    f = [i \in 0..j |-> IF i = 0 THEN [block |-> block, n |-> n]
                        ELSE StepBack(exponential, parent, f[i - 1])]

LEMMA LoopExists ==
    ASSUME NEW e, NEW parent, NEW block, NEW n
    PROVE  \A j \in Nat : \E f : IsLoop(f, e, parent, block, n, j)
<1> DEFINE Bad == {j \in Nat : ~\E f : IsLoop(f, e, parent, block, n, j)}
<1>1. SUFFICES ASSUME Bad # {} PROVE FALSE
  OBVIOUS
<1>2. PICK j \in Bad : \A i \in Bad : j <= i
  BY <1>1, NatMin
<1>3. CASE j = 0
  <2> DEFINE f == [i \in 0..j |-> [block |-> block, n |-> n]]
  <2>1. IsLoop(f, e, parent, block, n, j)
    BY <1>3 DEF IsLoop
  <2> QED
    BY <1>2, <2>1
<1>4. CASE j # 0
  <2>1. j \in Nat /\ j - 1 \in Nat /\ j - 1 \notin Bad
    BY <1>2, <1>4
  <2>2. PICK g : IsLoop(g, e, parent, block, n, j - 1)
    BY <2>1
  <2> DEFINE f == [i \in 0..j |-> IF i = j THEN StepBack(e, parent, g[j - 1]) ELSE g[i]]
             rhs == [i \in 0..j |-> IF i = 0 THEN [block |-> block, n |-> n]
                                    ELSE StepBack(e, parent, f[i - 1])]
  <2>3. \A i \in 0..(j - 1) : g[i] = IF i = 0 THEN [block |-> block, n |-> n]
                                     ELSE StepBack(e, parent, g[i - 1])
    BY <2>2 DEF IsLoop
  <2>4. \A i \in 0..(j - 1) : f[i] = g[i]
    BY <2>1
  <2>5. ASSUME NEW i \in 0..j PROVE f[i] = rhs[i]
    <3>1. CASE i = j
      <4>1. i # 0 /\ i - 1 = j - 1 /\ j - 1 \in 0..(j - 1) /\ f[i - 1] = g[j - 1]
        BY <2>1, <2>4, <3>1
      <4> QED
        BY <3>1, <4>1
    <3>2. CASE i # j
      <4>1. i \in 0..(j - 1) /\ (i # 0 => i - 1 \in 0..(j - 1))
        BY <2>1, <3>2
      <4>2. f[i] = g[i] /\ (i # 0 => f[i - 1] = g[i - 1])
        BY <2>4, <4>1
      <4> HIDE DEF f
      <4> QED
        BY <2>3, <4>1, <4>2
    <3> QED
      BY <3>1, <3>2
  <2>6. f = rhs
    BY <2>5
  <2>7. IsLoop(f, e, parent, block, n, j)
    BY <2>6 DEF IsLoop
  <2> QED
    BY <1>2, <2>7
<1> QED
  BY <1>3, <1>4

LEMMA NthIsLoop ==
    ASSUME NEW e, NEW parent, NEW block, NEW n \in Nat
    PROVE  \E f : IsLoop(f, e, parent, block, n, n) /\ NthIn(e, parent, block, n) = f[n].block
<1> DEFINE f == CHOOSE f : IsLoop(f, e, parent, block, n, n)
<1>1. IsLoop(f, e, parent, block, n, n)
  BY LoopExists
<1>2. NthIn(e, parent, block, n) = f[n].block
  BY DEF NthIn, IsLoop
<1> QED
  BY <1>1, <1>2

\* Skipping arrives where a walk over the parents arrives.
LEMMA NthIs ==
    ASSUME NEW S, NEW parent, NEW up, NEW e, Lineage(S, parent, up), Vectors(S, e, up),
           NEW b \in S, NEW n \in Nat, n < Len(up[b])
    PROVE  NthIn(e, parent, b, n) = up[b][n + 1]
<1>1. PICK f : IsLoop(f, e, parent, b, n, n) /\ NthIn(e, parent, b, n) = f[n].block
  BY NthIsLoop
<1>2. /\ f[0] = [block |-> b, n |-> n]
      /\ \A i \in 1..n : f[i] = StepBack(e, parent, f[i - 1])
  BY <1>1 DEF IsLoop
<1>3. up[b] \in Seq(S) /\ Len(up[b]) \in Nat /\ up[b][1] = b
  BY DEF Lineage
<1> DEFINE At(i, k) == f[i] = [block |-> up[b][n - k + 1], n |-> k]
           Bad == {i \in 0..n : ~\E k \in 0..(n - i) : At(i, k)}
<1>4. ASSUME NEW i \in 1..n, NEW k \in 0..(n - (i - 1)), At(i - 1, k)
      PROVE  \E l \in 0..(n - i) : At(i, l)
  <2> DEFINE x == up[b][n - k + 1]
  <2>1. n - k \in Nat /\ n - k < Len(up[b]) /\ k \in Nat /\ (n - k) + k = n
    BY <1>3
  <2>2. /\ x \in S
        /\ Len(up[x]) = Len(up[b]) - (n - k)
        /\ \A j \in Nat : (n - k) + j < Len(up[b]) => up[x][j + 1] = up[b][(n - k) + j + 1]
    <3>1. Rest(S, up, b, n - k)
      BY <2>1, RestIs
    <3> QED
      BY <2>1, <3>1 DEF Rest
  <2>3. Len(up[x]) > k /\ Len(up[x]) \in Nat
    BY <1>3, <2>1, <2>2
  <2>4. f[i] = StepBack(e, parent, [block |-> x, n |-> k])
    BY <1>2, <1>4
  <2>5. CASE k = 0
    <3>1. At(i, 0) /\ 0 \in 0..(n - i)
      BY <2>4, <2>5 DEF StepBack
    <3> QED
      BY <3>1
  <2>6. CASE k = 1
    <3>1. f[i] = [block |-> parent[x], n |-> 0]
      BY <2>4, <2>6 DEF StepBack
    <3>2. parent[x] \in S /\ up[x][2] = up[parent[x]][1] /\ up[parent[x]][1] = parent[x]
      <4>1. Len(up[x]) > 1
        BY <2>3, <2>6
      <4>2. parent[x] \in S /\ Len(up[parent[x]]) >= 1 /\ up[parent[x]][1] = parent[x]
        BY <2>2, <4>1 DEF Lineage
      <4>3. Len(up[parent[x]]) \in Nat /\ 1 \in 1..Len(up[parent[x]])
        BY <4>2, UpLen
      <4>4. up[x][1 + 1] = up[parent[x]][1]
        BY <2>2, <4>1, <4>3 DEF Lineage
      <4> QED
        BY <4>2, <4>4
    <3>3. up[x][2] = up[b][n + 1]
      BY <2>1, <2>2, <2>6
    <3>4. At(i, 0) /\ 0 \in 0..(n - i)
      BY <3>1, <3>2, <3>3, <2>6
    <3> QED
      BY <3>4
  <2>7. CASE k # 0 /\ k # 1
    <3> DEFINE l == Log2(k)
               q == 2^l
    <3>1. l \in Nat \ {0} /\ q \in Nat \ {0} /\ q <= k
      <4>1. k \in Nat /\ k >= 1 /\ k >= 2
        BY <2>1, <2>7
      <4>2. /\ Log2(k) \in Nat /\ 2^Log2(k) \in Nat \ {0} /\ 2^Log2(k) <= k
            /\ Log2(k) >= 1
        BY <4>1, LogIs
      <4> QED
        BY <4>2
    <3>2. f[i] = [block |-> e[x][l], n |-> k - q]
      BY <2>4, <2>7 DEF StepBack
    <3>3. e[x][l] = up[x][q + 1]
      <4>1. q < Len(up[x])
        <5> HIDE DEF q
        <5> QED
          BY <2>1, <2>3, <3>1
      <4> QED
        BY <2>2, <3>1, <4>1 DEF Vectors
    <3> HIDE DEF q
    <3>4. up[x][q + 1] = up[b][(n - k) + q + 1]
      <4>1. q \in Nat /\ (n - k) + q < Len(up[b])
        BY <2>1, <3>1, <1>3
      <4> QED
        BY <2>2, <4>1
    <3>5. (n - k) + q + 1 = n - (k - q) + 1 /\ k - q \in 0..(n - i)
      BY <2>1, <2>7, <3>1
    <3>6. At(i, k - q)
      BY <3>2, <3>3, <3>4, <3>5
    <3> QED
      BY <3>5, <3>6
  <2> QED
    BY <2>5, <2>6, <2>7
<1>5. Bad = {}
  <2> SUFFICES ASSUME Bad # {} PROVE FALSE
    OBVIOUS
  <2>1. PICK i \in Bad : \A j \in Bad : i <= j
    <3>1. Bad \in SUBSET Nat
      OBVIOUS
    <3> HIDE DEF Bad
    <3> QED
      BY <3>1, NatMin
  <2>2. i # 0
    <3>1. At(0, n) /\ n \in 0..(n - 0)
      <4>1. n - n + 1 = 1 /\ n \in 0..(n - 0)
        OBVIOUS
      <4> QED
        BY <1>2, <1>3, <4>1
    <3> QED
      BY <2>1, <3>1
  <2>3. i \in 1..n /\ i - 1 \in 0..n /\ i - 1 \notin Bad
    <3>1. i \in 0..n
      BY <2>1
    <3> HIDE DEF Bad, At
    <3>2. i \in 1..n /\ i - 1 \in 0..n /\ ~(i <= i - 1)
      BY <2>2, <3>1
    <3> QED
      BY <2>1, <3>2
  <2>4. PICK k \in 0..(n - (i - 1)) : At(i - 1, k)
    BY <2>3
  <2>5. \E l \in 0..(n - i) : At(i, l)
    <3> HIDE DEF At
    <3> QED
      BY <1>4, <2>3, <2>4
  <2> QED
    BY <2>1, <2>5
<1>6. PICK k \in 0..(n - n) : At(n, k)
  <2>1. n \in 0..n /\ n \notin Bad
    BY <1>5
  <2> QED
    BY <2>1
<1>7. k = 0 /\ f[n].block = up[b][n + 1]
  BY <1>6
<1> QED
  BY <1>1, <1>7

\* The powers of two are in order.
LEMMA PowerOrder ==
    \A i, j \in Nat : i <= j => 2^i <= 2^j
<1> DEFINE Bad == {d \in Nat : \E i \in Nat : ~(2^i <= 2^(i + d))}
<1>1. Bad = {}
  <2> SUFFICES ASSUME Bad # {} PROVE FALSE
    OBVIOUS
  <2>1. PICK d \in Bad : \A c \in Bad : d <= c
    BY NatMin
  <2>2. PICK i \in Nat : ~(2^i <= 2^(i + d))
    BY <2>1
  <2>3. d # 0
    <3>1. i + 0 = i /\ 2^i \in Nat
      BY TwoPower
    <3> QED
      BY <2>2, <3>1
  <2>4. d - 1 \in Nat /\ d - 1 \notin Bad /\ i + (d - 1) \in Nat /\ i + (d - 1) + 1 = i + d
    <3>1. d \in Nat
      OBVIOUS
    <3> HIDE DEF Bad
    <3> QED
      BY <2>1, <2>3, <3>1
  <2>5. 2^i <= 2^(i + (d - 1))
    BY <2>4
  <2>6. /\ 2^(i + d) = 2^(i + (d - 1)) + 2^(i + (d - 1)) /\ 2^(i + (d - 1)) \in Nat
        /\ 2^i \in Nat
    BY <2>4, TwoPower
  <2> QED
    BY <2>2, <2>5, <2>6
<1>2. ASSUME NEW i \in Nat, NEW j \in Nat, i <= j PROVE 2^i <= 2^j
  <2>1. j - i \in Nat /\ i + (j - i) = j
    BY <1>2
  <2>2. j - i \notin Bad
    BY <1>1
  <2>3. 2^i <= 2^(i + (j - i))
    BY <2>1, <2>2
  <2> QED
    BY <2>1, <2>3
<1> QED
  BY <1>2

IsVector(v, e, parent, block, height) ==
    v = [i \in 1..Log2(height) |->
            IF i = 1 THEN NthIn(e, parent, parent[block], 1)
            ELSE NthIn(e, parent, v[i - 1], 2^(i - 1))]

\* What a turn of the loop of put_header finds.
LEMMA VectorStep ==
    ASSUME NEW S, NEW parent, NEW up, NEW e, Lineage(S, parent, up), Vectors(S, e, up),
           NEW p \in S, NEW i \in Nat \ {0}, 2^i <= Len(up[p])
    PROVE  /\ i = 1 => NthIn(e, parent, p, 1) = up[p][2^i]
           /\ i # 1 => NthIn(e, parent, up[p][2^(i - 1)], 2^(i - 1)) = up[p][2^i]
<1>1. Len(up[p]) \in Nat \ {0} /\ up[p][1] = p /\ up[p] \in Seq(S)
  BY UpLen
<1> DEFINE q == 2^(i - 1)
           r == 2^i
<1>2. i - 1 \in Nat /\ (i - 1) + 1 = i
  OBVIOUS
<1>3. q \in Nat /\ r = q + q /\ q >= 1
  <2>1. 2^(i - 1) \in Nat /\ 2^((i - 1) + 1) = 2^(i - 1) + 2^(i - 1) /\ 2^(i - 1) >= (i - 1) + 1
    BY <1>2, TwoPower, PowerGrows
  <2> QED
    BY <1>2, <2>1
<1>4. i = 1 => q = 1
  BY <1>2, TwoPower
<1>5. i = 1 => NthIn(e, parent, p, 1) = up[p][r]
  <2> SUFFICES ASSUME i = 1 PROVE NthIn(e, parent, p, 1) = up[p][r]
    OBVIOUS
  <2>1. r = 2
    BY <1>3, <1>4
  <2>2. 1 < Len(up[p])
    BY <1>1, <2>1
  <2>3. NthIn(e, parent, p, 1) = up[p][1 + 1]
    BY <2>2, NthIs
  <2> QED
    BY <2>1, <2>3
<1>6. NthIn(e, parent, up[p][q], q) = up[p][r]
  <2> HIDE DEF q
  <2>1. q - 1 \in Nat /\ q - 1 < Len(up[p]) /\ (q - 1) + 1 = q /\ (q - 1) + q + 1 = r /\ (q - 1) + q < Len(up[p])
    BY <1>1, <1>3
  <2>2. Rest(S, up, p, q - 1)
    BY <2>1, RestIs
  <2> DEFINE x == up[p][q]
  <2>3. x \in S /\ Len(up[x]) = Len(up[p]) - (q - 1) /\ up[x][q + 1] = up[p][r]
    BY <1>3, <2>1, <2>2 DEF Rest
  <2>4. q < Len(up[x])
    BY <1>1, <1>3, <2>1, <2>3
  <2> HIDE DEF x
  <2>5. NthIn(e, parent, x, q) = up[x][q + 1]
    BY <1>3, <2>3, <2>4, NthIs
  <2> QED
    BY <2>3, <2>5 DEF x
<1> QED
  BY <1>5, <1>6

\* The vector of a new block has the ancestors of its parent.
LEMMA VectorIs ==
    ASSUME NEW S, NEW parent, NEW up, NEW e, Lineage(S, parent, up), Vectors(S, e, up),
           NEW block, parent[block] \in S, NEW height, height = Len(up[parent[block]]),
           NEW i \in Nat \ {0}, 2^i <= height
    PROVE  Exponentials(e, parent, block, height)[i] = up[parent[block]][2^i]
<1> DEFINE p == parent[block]
           L == Log2(height)
           w == [j \in 1..L |-> up[p][2^j]]
           v == CHOOSE v : IsVector(v, e, parent, block, height)
<1>1. height \in Nat \ {0}
  BY UpLen
<1>2. L \in Nat /\ 2^L \in Nat /\ 2^L <= height /\ height < 2^(L + 1)
  BY <1>1, LogIs
<1>3. ASSUME NEW j \in 1..L PROVE j \in Nat \ {0} /\ 2^j <= height /\ 2^j \in Nat
  <2>1. j \in Nat \ {0} /\ j <= L
    BY <1>2
  <2>2. 2^j \in Nat /\ 2^j <= 2^L
    BY <1>2, <2>1, TwoPower, PowerOrder
  <2> QED
    BY <1>1, <1>2, <2>1, <2>2
<1> HIDE DEF L
<1>4. IsVector(w, e, parent, block, height)
  <2> DEFINE rhs == [j \in 1..L |-> IF j = 1 THEN NthIn(e, parent, p, 1)
                                    ELSE NthIn(e, parent, w[j - 1], 2^(j - 1))]
  <2>1. ASSUME NEW j \in 1..L PROVE w[j] = rhs[j]
    <3>1. /\ j = 1 => NthIn(e, parent, p, 1) = up[p][2^j]
          /\ j # 1 => NthIn(e, parent, up[p][2^(j - 1)], 2^(j - 1)) = up[p][2^j]
      BY <1>3, VectorStep
    <3>2. j # 1 => j - 1 \in 1..L
      BY <1>2
    <3> QED
      BY <3>1, <3>2
  <2>2. w = rhs
    BY <2>1
  <2> QED
    BY <2>2 DEF IsVector, L
<1>5. IsVector(v, e, parent, block, height)
  BY <1>4
<1> HIDE DEF v
<1>6. \A j \in 1..L : v[j] = IF j = 1 THEN NthIn(e, parent, p, 1)
                             ELSE NthIn(e, parent, v[j - 1], 2^(j - 1))
  BY <1>5 DEF IsVector, L
<1>7. \A j \in 1..L : v[j] = up[p][2^j]
  <2> DEFINE Bad == {j \in 1..L : v[j] # up[p][2^j]}
  <2> SUFFICES ASSUME Bad # {} PROVE FALSE
    OBVIOUS
  <2>1. PICK j \in Bad : \A k \in Bad : j <= k
    <3>1. Bad \in SUBSET Nat
      BY <1>2
    <3> HIDE DEF Bad
    <3> QED
      BY <3>1, NatMin
  <2>2. j \in 1..L
    OBVIOUS
  <2>3. /\ j = 1 => NthIn(e, parent, p, 1) = up[p][2^j]
        /\ j # 1 => NthIn(e, parent, up[p][2^(j - 1)], 2^(j - 1)) = up[p][2^j]
    BY <1>3, <2>2, VectorStep
  <2>4. j # 1
    BY <1>6, <2>1, <2>3
  <2>5. j - 1 \in 1..L /\ j - 1 \notin Bad
    BY <1>2, <2>1, <2>4
  <2>6. v[j - 1] = up[p][2^(j - 1)]
    BY <2>5
  <2> QED
    BY <1>6, <2>1, <2>2, <2>3, <2>4, <2>6
<1>8. height >= 2
  <2>1. 2^i >= i + 1
    BY PowerGrows
  <2>2. 2^i \in Nat
    BY TwoPower
  <2> QED
    BY <1>1, <2>1, <2>2
<1>9. Exponentials(e, parent, block, height) = v
  BY <1>1, <1>8 DEF Exponentials, IsVector, v
<1>10. i \in 1..L
  <2> SUFFICES ASSUME i > L PROVE FALSE
    BY <1>2
  <2>1. L + 1 \in Nat /\ L + 1 <= i
    BY <1>2
  <2>2. 2^(L + 1) <= 2^i /\ 2^(L + 1) \in Nat /\ 2^i \in Nat
    BY <2>1, PowerOrder, TwoPower
  <2> QED
    BY <1>1, <1>2, <2>2
<1> QED
  BY <1>7, <1>9, <1>10

-----------------------------------------------------------------------------
(***************************************************************************)
(* The binary search.                                                      *)
(***************************************************************************)
IsSearch(f, agree, height, j) ==
    f = [i \in 0..j |-> IF i = 0 THEN [lo |-> 1, hi |-> height] ELSE Halve(agree, f[i - 1])]

LEMMA SearchExists ==
    ASSUME NEW agree, NEW height
    PROVE  \A j \in Nat : \E f : IsSearch(f, agree, height, j)
<1> DEFINE Bad == {j \in Nat : ~\E f : IsSearch(f, agree, height, j)}
<1>1. SUFFICES ASSUME Bad # {} PROVE FALSE
  OBVIOUS
<1>2. PICK j \in Bad : \A i \in Bad : j <= i
  BY <1>1, NatMin
<1>3. CASE j = 0
  <2> DEFINE f == [i \in 0..j |-> [lo |-> 1, hi |-> height]]
  <2>1. IsSearch(f, agree, height, j)
    BY <1>3 DEF IsSearch
  <2> QED
    BY <1>2, <2>1
<1>4. CASE j # 0
  <2>1. j \in Nat /\ j - 1 \in Nat /\ j - 1 \notin Bad
    BY <1>2, <1>4
  <2>2. PICK g : IsSearch(g, agree, height, j - 1)
    BY <2>1
  <2> DEFINE f == [i \in 0..j |-> IF i = j THEN Halve(agree, g[j - 1]) ELSE g[i]]
             rhs == [i \in 0..j |-> IF i = 0 THEN [lo |-> 1, hi |-> height] ELSE Halve(agree, f[i - 1])]
  <2>3. \A i \in 0..(j - 1) : g[i] = IF i = 0 THEN [lo |-> 1, hi |-> height] ELSE Halve(agree, g[i - 1])
    BY <2>2 DEF IsSearch
  <2>4. \A i \in 0..(j - 1) : f[i] = g[i]
    BY <2>1
  <2>5. ASSUME NEW i \in 0..j PROVE f[i] = rhs[i]
    <3>1. CASE i = j
      <4>1. i # 0 /\ i - 1 = j - 1 /\ j - 1 \in 0..(j - 1) /\ f[i - 1] = g[j - 1]
        BY <2>1, <2>4, <3>1
      <4> QED
        BY <3>1, <4>1
    <3>2. CASE i # j
      <4>1. i \in 0..(j - 1) /\ (i # 0 => i - 1 \in 0..(j - 1))
        BY <2>1, <3>2
      <4>2. f[i] = g[i] /\ (i # 0 => f[i - 1] = g[i - 1])
        BY <2>4, <4>1
      <4> HIDE DEF f
      <4> QED
        BY <2>3, <4>1, <4>2
    <3> QED
      BY <3>1, <3>2
  <2>6. f = rhs
    BY <2>5
  <2>7. IsSearch(f, agree, height, j)
    BY <2>6 DEF IsSearch
  <2> QED
    BY <1>2, <2>7
<1> QED
  BY <1>3, <1>4

\* It finds the least depth that agrees, if all after it do.
LEMMA SearchIs ==
    ASSUME NEW h \in Nat \ {0}, NEW agree, h \in agree,
           \A i, j \in 0..h : i \in agree /\ i <= j => j \in agree
    PROVE  /\ Search(agree, h) \in 1..h /\ Search(agree, h) \in agree
           /\ \A j \in 1..h : j \in agree => Search(agree, h) <= j
<1> DEFINE f == CHOOSE f : IsSearch(f, agree, h, h)
<1>1. IsSearch(f, agree, h, h)
  BY SearchExists
<1>2. Search(agree, h) = f[h].hi
  BY DEF Search, IsSearch
<1> HIDE DEF f
<1>3. /\ f[0] = [lo |-> 1, hi |-> h]
      /\ \A i \in 1..h : f[i] = Halve(agree, f[i - 1])
  BY <1>1 DEF IsSearch
<1> DEFINE At(i, lo, hi) ==
               /\ f[i] = [lo |-> lo, hi |-> hi]
               /\ lo <= hi /\ hi \in agree /\ \A j \in 1..(lo - 1) : j \notin agree
               /\ lo = hi \/ hi - lo < h - i
           Bad == {i \in 0..h : ~\E lo, hi \in 1..h : At(i, lo, hi)}
<1>4. ASSUME NEW i \in 1..h, NEW lo \in 1..h, NEW hi \in 1..h, At(i - 1, lo, hi)
      PROVE  \E lo2, hi2 \in 1..h : At(i, lo2, hi2)
  <2>1. f[i] = Halve(agree, [lo |-> lo, hi |-> hi])
    BY <1>3, <1>4
  <2>2. CASE lo = hi
    <3>1. f[i] = [lo |-> lo, hi |-> hi]
      BY <2>1, <2>2 DEF Halve
    <3>2. At(i, lo, hi)
      BY <1>4, <2>2, <3>1
    <3> QED
      BY <3>2
  <2>3. CASE lo # hi
    <3> DEFINE mid == (lo + hi) \div 2
    <3>1. lo < hi /\ hi - lo < h - (i - 1) /\ hi \in agree /\ \A j \in 1..(lo - 1) : j \notin agree
      BY <1>4, <2>3
    <3>2. mid \in 1..h /\ mid + 1 \in 1..h /\ lo <= mid /\ mid < hi
      BY <3>1
    <3>3. f[i] = IF mid \in agree THEN [lo |-> lo, hi |-> mid] ELSE [lo |-> mid + 1, hi |-> hi]
      BY <2>1, <3>1 DEF Halve
    <3> HIDE DEF mid
    <3>4. CASE mid \in agree
      <4>1. mid - lo < h - i
        BY <3>1, <3>2
      <4>2. At(i, lo, mid)
        BY <3>1, <3>2, <3>3, <3>4, <4>1
      <4> QED
        BY <3>2, <4>2
    <3>5. CASE mid \notin agree
      <4>1. hi - (mid + 1) < h - i /\ mid + 1 <= hi
        BY <3>1, <3>2
      <4>2. \A j \in 1..mid : j \notin agree
        <5>1. \A j \in 1..mid : j \in 0..h /\ mid \in 0..h /\ j <= mid
          BY <3>2
        <5> QED
          BY <3>5, <5>1
      <4>3. (mid + 1) - 1 = mid
        BY <3>2
      <4>4. At(i, mid + 1, hi)
        BY <3>1, <3>3, <3>5, <4>1, <4>2, <4>3
      <4> QED
        BY <3>2, <4>4
    <3> QED
      BY <3>4, <3>5
  <2> QED
    BY <2>2, <2>3
<1>5. Bad = {}
  <2> SUFFICES ASSUME Bad # {} PROVE FALSE
    OBVIOUS
  <2>1. PICK i \in Bad : \A j \in Bad : i <= j
    <3>1. Bad \in SUBSET Nat
      OBVIOUS
    <3> HIDE DEF Bad
    <3> QED
      BY <3>1, NatMin
  <2>2. i # 0
    <3>1. At(0, 1, h) /\ 1 \in 1..h /\ h \in 1..h /\ 0 \in 0..h
      BY <1>3
    <3> QED
      BY <2>1, <3>1
  <2>3. i \in 1..h /\ i - 1 \in 0..h /\ i - 1 \notin Bad
    <3>1. i \in 0..h
      OBVIOUS
    <3> HIDE DEF Bad
    <3> QED
      BY <2>1, <2>2, <3>1
  <2>4. PICK lo \in 1..h, hi \in 1..h : At(i - 1, lo, hi)
    BY <2>3
  <2>5. \E lo2, hi2 \in 1..h : At(i, lo2, hi2)
    <3> HIDE DEF At
    <3> QED
      BY <1>4, <2>3, <2>4
  <2> QED
    BY <2>1, <2>5
<1>6. PICK lo \in 1..h, hi \in 1..h : At(h, lo, hi)
  <2>1. h \in 0..h /\ h \notin Bad
    BY <1>5
  <2> QED
    BY <2>1
<1>7. lo = hi /\ Search(agree, h) = hi /\ hi \in agree /\ \A j \in 1..(hi - 1) : j \notin agree
  BY <1>2, <1>6
<1>8. ASSUME NEW j \in 1..h, j \in agree PROVE hi <= j
  BY <1>7, <1>8
<1> QED
  BY <1>7, <1>8

-----------------------------------------------------------------------------
(***************************************************************************)
(* Common ancestors.                                                       *)
(***************************************************************************)
FromIth(S, up, b, i) ==
    /\ up[b][i] \in S
    /\ Len(up[up[b][i]]) = Len(up[b]) - i + 1
    /\ \A k \in Nat : i + k <= Len(up[b]) => up[up[b][i]][k + 1] = up[b][i + k]

LEMMA RestAt ==
    ASSUME NEW S, NEW parent, NEW up, Lineage(S, parent, up), NEW b \in S, NEW i \in 1..Len(up[b])
    PROVE  FromIth(S, up, b, i)
<1>1. Len(up[b]) \in Nat
  BY UpLen
<1>2. PICK j \in Nat : i = j + 1
  <2>1. i - 1 \in Nat /\ i = (i - 1) + 1
    BY <1>1
  <2> QED
    BY <2>1
<1>3. j < Len(up[b]) /\ Rest(S, up, b, j)
  BY <1>1, <1>2, RestIs
<1>4. /\ up[b][i] \in S /\ Len(up[up[b][i]]) = Len(up[b]) - j
      /\ \A k \in Nat : j + k < Len(up[b]) => up[up[b][i]][k + 1] = up[b][j + k + 1]
  BY <1>2, <1>3 DEF Rest
<1>5. ASSUME NEW k \in Nat, i + k <= Len(up[b]) PROVE up[up[b][i]][k + 1] = up[b][i + k]
  <2>1. j + k < Len(up[b]) /\ j + k + 1 = i + k
    BY <1>1, <1>2, <1>5
  <2> QED
    BY <1>4, <2>1
<1>6. Len(up[b]) - j = Len(up[b]) - i + 1
  BY <1>1, <1>2
<1> QED
  BY <1>4, <1>5, <1>6 DEF FromIth

\* Where two ancestries meet they are equally far from the oldest block, and
\* stay together.
Together(up, b0, b1, i, j) ==
    /\ Len(up[b0]) - i = Len(up[b1]) - j
    /\ \A k \in Nat : i + k <= Len(up[b0]) => up[b0][i + k] = up[b1][j + k]

LEMMA Meet ==
    ASSUME NEW S, NEW parent, NEW up, Lineage(S, parent, up), NEW b0 \in S, NEW b1 \in S,
           NEW i \in 1..Len(up[b0]), NEW j \in 1..Len(up[b1]), up[b0][i] = up[b1][j]
    PROVE  Together(up, b0, b1, i, j)
<1> DEFINE l0 == Len(up[b0])
           l1 == Len(up[b1])
<1>1. l0 \in Nat /\ l1 \in Nat /\ i \in 1..l0 /\ j \in 1..l1
  BY UpLen
<1>2. FromIth(S, up, b0, i) /\ FromIth(S, up, b1, j)
  BY RestAt
<1> DEFINE x == up[b0][i]
<1>3. /\ Len(up[x]) = l0 - i + 1
      /\ \A k \in Nat : i + k <= l0 => up[x][k + 1] = up[b0][i + k]
  BY <1>2 DEF FromIth
<1>4. /\ Len(up[x]) = l1 - j + 1
      /\ \A k \in Nat : j + k <= l1 => up[x][k + 1] = up[b1][j + k]
  BY <1>2 DEF FromIth
<1> HIDE DEF x, l0, l1
<1>5. l0 - i = l1 - j
  <2>1. l0 - i + 1 = l1 - j + 1
    BY <1>3, <1>4
  <2>2. l0 - i \in Int /\ l1 - j \in Int
    BY <1>1
  <2> QED
    BY <2>1, <2>2
<1>6. ASSUME NEW k \in Nat, i + k <= l0 PROVE up[b0][i + k] = up[b1][j + k]
  <2>1. j + k <= l1
    BY <1>1, <1>5, <1>6
  <2> QED
    BY <1>3, <1>4, <1>6, <2>1
<1> QED
  BY <1>5, <1>6 DEF Together, l0, l1

\* The i-th block of the ancestry of b0 is shared, and no newer one.
IsNewest(up, b0, b1, i) ==
    /\ i \in 1..Len(up[b0])
    /\ \E j \in 1..Len(up[b1]) : up[b0][i] = up[b1][j]
    /\ \A k \in 1..(i - 1) : \A j \in 1..Len(up[b1]) : up[b0][k] # up[b1][j]

\* It is the same in whatever order the two are looked at.
LEMMA NewestSymmetric ==
    ASSUME NEW S, NEW parent, NEW up, Lineage(S, parent, up), NEW b0 \in S, NEW b1 \in S,
           NEW i, NEW j, IsNewest(up, b0, b1, i), IsNewest(up, b1, b0, j)
    PROVE  up[b0][i] = up[b1][j]
<1>1. Len(up[b0]) \in Nat /\ Len(up[b1]) \in Nat
  BY UpLen
<1>2. i \in 1..Len(up[b0]) /\ j \in 1..Len(up[b1])
  BY DEF IsNewest
<1>3. PICK i1 \in 1..Len(up[b1]) : up[b0][i] = up[b1][i1]
  BY DEF IsNewest
<1>4. PICK j0 \in 1..Len(up[b0]) : up[b1][j] = up[b0][j0]
  BY DEF IsNewest
<1>5. Len(up[b0]) - i = Len(up[b1]) - i1
  BY <1>2, <1>3, Meet DEF Together
<1>6. Len(up[b1]) - j = Len(up[b0]) - j0
  BY <1>2, <1>4, Meet DEF Together
<1>7. ~(i1 < j)
  <2>1. i1 < j => i1 \in 1..(j - 1)
    BY <1>1, <1>2
  <2> QED
    BY <1>2, <1>3, <2>1 DEF IsNewest
<1>8. ~(j0 < i)
  <2>1. j0 < i => j0 \in 1..(i - 1)
    BY <1>1, <1>2
  <2> QED
    BY <1>2, <1>4, <2>1 DEF IsNewest
<1>9. i1 = j
  BY <1>1, <1>2, <1>5, <1>6, <1>7, <1>8
<1> QED
  BY <1>3, <1>9

\* What the functions for the last common ancestor look at: the two blocks at
\* the lower of the two heights, and the depths from there at which they agree.
Level(up, b, h) == up[b][Len(up[b]) - h]
Agree(up, x0, x1, h) == {n \in 0..h : up[x0][n + 1] = up[x1][n + 1]}

LEMMA LevelIs ==
    ASSUME NEW S, NEW parent, NEW up, Lineage(S, parent, up), NEW b \in S,
           NEW h \in Nat, h < Len(up[b])
    PROVE  /\ Level(up, b, h) \in S /\ Len(up[Level(up, b, h)]) = h + 1
           /\ \A n \in 0..h : up[Level(up, b, h)][n + 1] = up[b][Len(up[b]) - h + n]
<1> DEFINE i == Len(up[b]) - h
           x == up[b][i]
<1>1. Len(up[b]) \in Nat /\ i \in 1..Len(up[b])
  BY UpLen
<1>2. /\ x \in S /\ Len(up[x]) = Len(up[b]) - i + 1
      /\ \A n \in Nat : i + n <= Len(up[b]) => up[x][n + 1] = up[b][i + n]
  <2> HIDE DEF i
  <2>1. FromIth(S, up, b, i)
    BY <1>1, RestAt
  <2> QED
    BY <2>1 DEF FromIth
<1>3. Level(up, b, h) = x
  BY DEF Level
<1> HIDE DEF x
<1>4. Len(up[b]) - i + 1 = h + 1
  BY <1>1
<1>5. ASSUME NEW n \in 0..h PROVE up[x][n + 1] = up[b][i + n]
  <2>1. n \in Nat /\ i + n <= Len(up[b])
    BY <1>1
  <2> HIDE DEF i
  <2> QED
    BY <1>2, <2>1
<1> QED
  BY <1>2, <1>3, <1>4, <1>5

\* Depths agree from one on.
LEMMA AgreeUp ==
    ASSUME NEW S, NEW parent, NEW up, Lineage(S, parent, up), NEW x0 \in S, NEW x1 \in S,
           NEW h \in Nat, Len(up[x0]) = h + 1, Len(up[x1]) = h + 1
    PROVE  \A i, j \in 0..h : i \in Agree(up, x0, x1, h) /\ i <= j => j \in Agree(up, x0, x1, h)
<1> SUFFICES ASSUME NEW i \in 0..h, NEW j \in 0..h, i \in Agree(up, x0, x1, h), i <= j
             PROVE  j \in Agree(up, x0, x1, h)
  OBVIOUS
<1>1. i + 1 \in 1..Len(up[x0]) /\ i + 1 \in 1..Len(up[x1]) /\ up[x0][i + 1] = up[x1][i + 1]
  BY DEF Agree
<1>2. j - i \in Nat /\ (i + 1) + (j - i) <= Len(up[x0]) /\ (i + 1) + (j - i) = j + 1
  OBVIOUS
<1> DEFINE k == j - i
<1>3. up[x0][(i + 1) + k] = up[x1][(i + 1) + k]
  <2>1. \A l \in Nat : (i + 1) + l <= Len(up[x0]) => up[x0][(i + 1) + l] = up[x1][(i + 1) + l]
    <3>1. Together(up, x0, x1, i + 1, i + 1)
      BY <1>1, Meet
    <3> QED
      BY <3>1 DEF Together
  <2>2. k \in Nat /\ (i + 1) + k <= Len(up[x0])
    BY <1>2
  <2> HIDE DEF k
  <2> QED
    BY <2>1, <2>2
<1> QED
  BY <1>2, <1>3 DEF Agree

\* The depths at which two ancestries agree, those of the higher block from
\* the height of the lower, are those of the blocks that they share.
SharedDepths(up, b0, b1, h, agree) ==
    /\ \A n \in agree : /\ Len(up[b0]) - h + n \in 1..Len(up[b0])
                        /\ Len(up[b1]) - h + n \in 1..Len(up[b1])
                        /\ up[b0][Len(up[b0]) - h + n] = up[b1][Len(up[b1]) - h + n]
    /\ \A i \in 1..Len(up[b0]), j \in 1..Len(up[b1]) :
          up[b0][i] = up[b1][j] => i - (Len(up[b0]) - h) \in agree

\* The blocks that agree are those that are shared.
LEMMA SharedAgree ==
    ASSUME NEW S, NEW parent, NEW up, Lineage(S, parent, up), NEW b0 \in S, NEW b1 \in S,
           NEW h \in Nat, h < Len(up[b0]), h < Len(up[b1]),
           h + 1 = Len(up[b0]) \/ h + 1 = Len(up[b1])
    PROVE  SharedDepths(up, b0, b1, h, Agree(up, Level(up, b0, h), Level(up, b1, h), h))
<1> DEFINE x0 == Level(up, b0, h)
           x1 == Level(up, b1, h)
           l0 == Len(up[b0])
           l1 == Len(up[b1])
<1>1. l0 \in Nat /\ l1 \in Nat
  BY UpLen
<1>2. /\ \A n \in 0..h : up[x0][n + 1] = up[b0][l0 - h + n]
      /\ \A n \in 0..h : up[x1][n + 1] = up[b1][l1 - h + n]
  BY LevelIs
<1> HIDE DEF x0, x1
<1>3. ASSUME NEW n \in Agree(up, x0, x1, h)
      PROVE  l0 - h + n \in 1..l0 /\ l1 - h + n \in 1..l1 /\ up[b0][l0 - h + n] = up[b1][l1 - h + n]
  <2>1. n \in 0..h /\ up[x0][n + 1] = up[x1][n + 1]
    BY DEF Agree
  <2> QED
    BY <1>1, <1>2, <2>1
<1>4. ASSUME NEW i \in 1..l0, NEW j \in 1..l1, up[b0][i] = up[b1][j]
      PROVE  i - (l0 - h) \in Agree(up, x0, x1, h)
  <2>1. l0 - i = l1 - j
    <3>1. Together(up, b0, b1, i, j)
      BY <1>4, Meet
    <3> QED
      BY <3>1 DEF Together
  <2> DEFINE n == i - (l0 - h)
  <2>2. n \in 0..h /\ l0 - h + n = i /\ l1 - h + n = j
    <3> HIDE DEF l0, l1
    <3>1. h + 1 = l0 \/ h + 1 = l1
      BY DEF l0, l1
    <3>2. i \in 1..l0 /\ j \in 1..l1 /\ h < l0 /\ h < l1
      BY DEF l0, l1
    <3> QED
      BY <1>1, <2>1, <3>1, <3>2
  <2> HIDE DEF n
  <2>3. up[x0][n + 1] = up[x1][n + 1]
    BY <1>2, <1>4, <2>2
  <2> QED
    BY <2>2, <2>3 DEF Agree, n
<1> QED
  BY <1>3, <1>4 DEF x0, x1, SharedDepths

\* What is found is the newest block that is shared.
NewestFound(up, b0, b1, h, x0, x1, agree) ==
    /\ x0 = x1 => IsNewest(up, b0, b1, Len(up[b0]) - h)
    /\ x0 # x1 /\ h \in agree =>
          /\ h # 0 /\ Search(agree, h) \in 1..h
          /\ up[x0][Search(agree, h) + 1] = up[b0][Len(up[b0]) - h + Search(agree, h)]
          /\ IsNewest(up, b0, b1, Len(up[b0]) - h + Search(agree, h))
    /\ h \notin agree => \A i \in 1..Len(up[b0]), j \in 1..Len(up[b1]) : up[b0][i] # up[b1][j]

LEMMA NewestIs ==
    ASSUME NEW S, NEW parent, NEW up, Lineage(S, parent, up), NEW b0 \in S, NEW b1 \in S,
           NEW h \in Nat, h < Len(up[b0]), h < Len(up[b1]),
           h + 1 = Len(up[b0]) \/ h + 1 = Len(up[b1]),
           NEW x0, NEW x1, x0 = Level(up, b0, h), x1 = Level(up, b1, h),
           NEW agree, agree = Agree(up, x0, x1, h)
    PROVE  NewestFound(up, b0, b1, h, x0, x1, agree)
<1> DEFINE l0 == Len(up[b0])
           l1 == Len(up[b1])
<1>1. /\ l0 \in Nat \ {0} /\ l1 \in Nat \ {0}
      /\ h < l0 /\ h < l1 /\ (h + 1 = l0 \/ h + 1 = l1)
  BY UpLen
<1>2. /\ x0 \in S /\ x1 \in S /\ Len(up[x0]) = h + 1 /\ Len(up[x1]) = h + 1
      /\ \A n \in 0..h : up[x0][n + 1] = up[b0][l0 - h + n]
  BY LevelIs
<1>3. \A i, j \in 0..h : i \in agree /\ i <= j => j \in agree
  BY <1>2, AgreeUp
<1>4. /\ \A n \in agree : /\ l0 - h + n \in 1..l0 /\ l1 - h + n \in 1..l1
                          /\ up[b0][l0 - h + n] = up[b1][l1 - h + n]
      /\ \A i \in 1..l0, j \in 1..l1 : up[b0][i] = up[b1][j] => i - (l0 - h) \in agree
  <2>1. SharedDepths(up, b0, b1, h, agree)
    BY SharedAgree
  <2> QED
    BY <2>1 DEF SharedDepths
<1>5. agree \subseteq 0..h
  BY DEF Agree
<1>6. 0 \in agree <=> x0 = x1
  <2>1. up[x0][1] = x0 /\ up[x1][1] = x1
    BY <1>2, UpLen
  <2>2. 0 \in 0..h /\ 0 + 1 = 1
    OBVIOUS
  <2> QED
    BY <2>1, <2>2 DEF Agree
<1>7. ASSUME NEW n \in agree, \A k \in agree : n <= k
      PROVE  IsNewest(up, b0, b1, l0 - h + n)
  <2>1. l0 - h + n \in 1..l0 /\ l1 - h + n \in 1..l1 /\ up[b0][l0 - h + n] = up[b1][l1 - h + n]
    BY <1>4
  <2> DEFINE i == l0 - h + n
             j0 == l1 - h + n
  <2>2. i \in 1..l0 /\ j0 \in 1..l1 /\ up[b0][i] = up[b1][j0] /\ i = l0 - h + n /\ n \in Nat
    BY <1>5, <2>1
  <2> HIDE DEF i, j0
  <2>3. ASSUME NEW k \in 1..(i - 1), NEW j \in 1..l1, up[b0][k] = up[b1][j] PROVE FALSE
    <3>1. k \in 1..l0
      BY <1>1, <2>2
    <3>2. k - (l0 - h) \in agree
      BY <1>4, <2>3, <3>1
    <3>3. n <= k - (l0 - h)
      BY <1>7, <3>2
    <3> HIDE DEF l0
    <3> QED
      BY <1>1, <2>2, <3>1, <3>3
  <2>4. IsNewest(up, b0, b1, i)
    BY <2>2, <2>3 DEF IsNewest
  <2> QED
    BY <2>4 DEF i
<1>8. x0 = x1 => IsNewest(up, b0, b1, l0 - h)
  <2> SUFFICES ASSUME x0 = x1 PROVE IsNewest(up, b0, b1, l0 - h)
    OBVIOUS
  <2>1. 0 \in agree /\ \A k \in agree : 0 <= k
    BY <1>5, <1>6
  <2>2. IsNewest(up, b0, b1, l0 - h + 0)
    <3> HIDE DEF l0
    <3> QED
      BY <1>7, <2>1
  <2>3. l0 - h + 0 = l0 - h
    BY <1>1
  <2> QED
    BY <2>2, <2>3
<1>9. ASSUME x0 # x1, h \in agree
      PROVE  /\ h # 0 /\ Search(agree, h) \in 1..h
             /\ up[x0][Search(agree, h) + 1] = up[b0][l0 - h + Search(agree, h)]
             /\ IsNewest(up, b0, b1, l0 - h + Search(agree, h))
  <2>1. h # 0
    BY <1>6, <1>9
  <2> DEFINE n == Search(agree, h)
  <2>2. n \in 1..h /\ n \in agree /\ \A j \in 1..h : j \in agree => n <= j
    BY <1>3, <1>9, <2>1, SearchIs
  <2> HIDE DEF n
  <2>3. \A k \in agree : n <= k
    <3>1. \A k \in agree : k \in 1..h
      BY <1>5, <1>6, <1>9
    <3> QED
      BY <2>2, <3>1
  <2>4. IsNewest(up, b0, b1, l0 - h + n)
    <3> HIDE DEF l0
    <3> QED
      BY <1>7, <2>2, <2>3
  <2>5. n \in 0..h
    BY <2>2
  <2> QED
    BY <1>2, <2>1, <2>2, <2>4, <2>5 DEF n
<1>10. ASSUME h \notin agree, NEW i \in 1..l0, NEW j \in 1..l1, up[b0][i] = up[b1][j] PROVE FALSE
  <2>1. i - (l0 - h) \in agree
    BY <1>4, <1>10
  <2> DEFINE n == i - (l0 - h)
  <2>2. n \in agree
    BY <2>1
  <2> HIDE DEF n
  <2>3. n \in 0..h /\ h \in 0..h /\ n <= h
    BY <1>5, <2>2
  <2> QED
    BY <1>3, <1>10, <2>2, <2>3
<1> QED
  BY <1>8, <1>9, <1>10 DEF NewestFound

-----------------------------------------------------------------------------
(***************************************************************************)
(* The two chains.                                                         *)
(***************************************************************************)
\* A mainchain block and all before it, with the all-zeros hash.
MainUp == [m \in MainBlock \cup {Zero} |-> Append(MainAncestors[m], Zero)]

\* Sets of blocks that have the ancestors of their blocks.
MainClosed(M) == M \subseteq MainBlock /\ \A m \in M : MainAncestors[m] \in Seq(M)
SideClosed(H) == H \subseteq SideBlock /\ \A b \in H : Ancestors[b] \in Seq(H)

\* The ancestors of a block are those of its parent, after the block.
LEMMA MainLine ==
    ASSUME NEW m \in MainBlock
    PROVE  LET p == MainParent[m]
           IN  /\ p \in MainBlock \cup {Zero} /\ MainAncestors[p] \in Seq(MainBlock)
               /\ MainAncestors[m] \in Seq(MainBlock)
               /\ Len(MainAncestors[p]) \in Nat
               /\ Len(MainAncestors[m]) = Len(MainAncestors[p]) + 1
               /\ MainAncestors[m][1] = m
               /\ \A i \in 1..Len(MainAncestors[p]) : MainAncestors[m][i + 1] = MainAncestors[p][i]
<1> DEFINE p == MainParent[m]
<1>1. p \in MainBlock \cup {Zero}
  BY BlockAssumption
<1>2. MainAncestors[p] \in Seq(MainBlock) /\ MainAncestors[m] = <<m>> \o MainAncestors[p]
  BY <1>1, LineageAssumption
<1> QED
  BY <1>1, <1>2

LEMMA SideLine ==
    ASSUME NEW b \in SideBlock
    PROVE  LET p == PrevSide[b]
           IN  /\ p \in SideBlock \cup {NoBlock} /\ Ancestors[p] \in Seq(SideBlock)
               /\ Ancestors[b] \in Seq(SideBlock)
               /\ Len(Ancestors[p]) \in Nat
               /\ Len(Ancestors[b]) = Len(Ancestors[p]) + 1
               /\ Ancestors[b][1] = b
               /\ \A i \in 1..Len(Ancestors[p]) : Ancestors[b][i + 1] = Ancestors[p][i]
<1> DEFINE p == PrevSide[b]
<1>1. p \in SideBlock \cup {NoBlock}
  BY BlockAssumption
<1>2. Ancestors[p] \in Seq(SideBlock) /\ Ancestors[b] = <<b>> \o Ancestors[p]
  BY <1>1, LineageAssumption
<1> QED
  BY <1>1, <1>2

\* The parent of a block of a closed set is in it.
LEMMA ClosedParent ==
    /\ \A M : MainClosed(M) => \A m \in M : MainParent[m] \in M \cup {Zero}
    /\ \A H : SideClosed(H) => \A b \in H : PrevSide[b] \in H \cup {NoBlock}
<1>1. ASSUME NEW M, MainClosed(M), NEW m \in M, MainParent[m] # Zero PROVE MainParent[m] \in M
  <2> DEFINE p == MainParent[m]
  <2>1. m \in MainBlock /\ MainAncestors[m] \in Seq(M)
    BY <1>1 DEF MainClosed
  <2>2. p \in MainBlock
    BY <1>1, <2>1, BlockAssumption
  <2>3. Len(MainAncestors[p]) \in Nat /\ Len(MainAncestors[p]) >= 1 /\ MainAncestors[p][1] = p
    BY <2>2, MainLine
  <2>4. MainAncestors[m][1 + 1] = p /\ Len(MainAncestors[m]) >= 2
    BY <2>1, <2>3, MainLine
  <2> HIDE DEF p
  <2>5. MainAncestors[m][2] \in M
    BY <2>1, <2>4
  <2> QED
    BY <2>4, <2>5 DEF p
<1>2. ASSUME NEW H, SideClosed(H), NEW b \in H, PrevSide[b] # NoBlock PROVE PrevSide[b] \in H
  <2> DEFINE p == PrevSide[b]
  <2>1. b \in SideBlock /\ Ancestors[b] \in Seq(H)
    BY <1>2 DEF SideClosed
  <2>2. p \in SideBlock
    BY <1>2, <2>1, BlockAssumption
  <2>3. Len(Ancestors[p]) \in Nat /\ Len(Ancestors[p]) >= 1 /\ Ancestors[p][1] = p
    BY <2>2, SideLine
  <2>4. Ancestors[b][1 + 1] = p /\ Len(Ancestors[b]) >= 2
    BY <2>1, <2>3, SideLine
  <2> HIDE DEF p
  <2>5. Ancestors[b][2] \in H
    BY <2>1, <2>4
  <2> QED
    BY <2>4, <2>5 DEF p
<1> QED
  BY <1>1, <1>2

LEMMA MainLineage ==
    ASSUME NEW M, MainClosed(M)
    PROVE  /\ Lineage(M \cup {Zero}, MainParent, MainUp)
           /\ \A m \in M \cup {Zero} : Len(MainUp[m]) = Len(MainAncestors[m]) + 1
           /\ \A m \in M \cup {Zero} : Len(MainAncestors[m]) \in Nat
<1> DEFINE S == M \cup {Zero}
<1>1. ASSUME NEW m \in S
      PROVE  /\ MainAncestors[m] \in Seq(M) /\ MainUp[m] = Append(MainAncestors[m], Zero)
             /\ m \in MainBlock \cup {Zero}
  <2>1. m \in MainBlock \cup {Zero}
    BY DEF MainClosed
  <2>2. MainAncestors[m] \in Seq(M)
    BY LineageAssumption DEF MainClosed
  <2> QED
    BY <2>1, <2>2 DEF MainUp
<1>2. ASSUME NEW m \in S
      PROVE  /\ MainUp[m] \in Seq(S) /\ Len(MainUp[m]) = Len(MainAncestors[m]) + 1
             /\ Len(MainAncestors[m]) \in Nat
             /\ \A i \in 1..Len(MainAncestors[m]) : MainUp[m][i] = MainAncestors[m][i]
             /\ MainUp[m][Len(MainAncestors[m]) + 1] = Zero
  <2> DEFINE s == MainAncestors[m]
  <2>1. s \in Seq(S) /\ Zero \in S /\ MainUp[m] = Append(s, Zero)
    BY <1>1
  <2> HIDE DEF s, S
  <2>2. /\ Append(s, Zero) \in Seq(S) /\ Len(Append(s, Zero)) = Len(s) + 1 /\ Len(s) \in Nat
        /\ \A i \in 1..Len(s) : Append(s, Zero)[i] = s[i]
        /\ Append(s, Zero)[Len(s) + 1] = Zero
    BY <2>1, AppendProperties
  <2> QED
    BY <2>1, <2>2 DEF s
<1>3. ASSUME NEW m \in S
      PROVE  /\ MainUp[m][1] = m
             /\ Len(MainUp[m]) > 1 =>
                   /\ MainParent[m] \in S /\ Len(MainUp[m]) = Len(MainUp[MainParent[m]]) + 1
                   /\ \A i \in 1..Len(MainUp[MainParent[m]]) :
                         MainUp[m][i + 1] = MainUp[MainParent[m]][i]
  <2>1. CASE m = Zero
    <3>1. Len(MainAncestors[m]) = 0
      BY <2>1, LineageAssumption
    <3> QED
      BY <1>2, <2>1, <3>1
  <2>2. CASE m # Zero
    <3> DEFINE p == MainParent[m]
    <3>1. m \in M /\ m \in MainBlock /\ p \in S
      BY <2>2, ClosedParent DEF MainClosed
    <3>2. /\ Len(MainAncestors[p]) \in Nat
          /\ Len(MainAncestors[m]) = Len(MainAncestors[p]) + 1 /\ MainAncestors[m][1] = m
          /\ \A i \in 1..Len(MainAncestors[p]) : MainAncestors[m][i + 1] = MainAncestors[p][i]
      BY <3>1, MainLine
    <3> HIDE DEF p
    <3>3. /\ Len(MainUp[p]) = Len(MainAncestors[p]) + 1
          /\ \A i \in 1..Len(MainAncestors[p]) : MainUp[p][i] = MainAncestors[p][i]
          /\ MainUp[p][Len(MainAncestors[p]) + 1] = Zero
      BY <1>2, <3>1
    <3>4. MainUp[m][1] = m
      BY <1>2, <3>2
    <3>5. ASSUME NEW i \in 1..Len(MainUp[p]) PROVE MainUp[m][i + 1] = MainUp[p][i]
      <4>1. CASE i \in 1..Len(MainAncestors[p])
        BY <1>2, <3>2, <3>3, <4>1
      <4>2. CASE i = Len(MainAncestors[p]) + 1
        BY <1>2, <3>2, <3>3, <4>2
      <4> QED
        BY <3>2, <3>3, <4>1, <4>2
    <3>6. Len(MainUp[m]) = Len(MainUp[p]) + 1
      BY <1>2, <3>2, <3>3
    <3> QED
      BY <3>1, <3>4, <3>5, <3>6 DEF p
  <2> QED
    BY <2>1, <2>2
<1>4. \A m \in S : Len(MainUp[m]) >= 1
  BY <1>2
<1> HIDE DEF S
<1> QED
  BY <1>2, <1>3, <1>4 DEF Lineage, S

LEMMA SideLineage ==
    ASSUME NEW H, SideClosed(H)
    PROVE  Lineage(H, PrevSide, Ancestors)
<1>1. ASSUME NEW b \in H
      PROVE  /\ Ancestors[b] \in Seq(H) /\ Len(Ancestors[b]) >= 1 /\ Ancestors[b][1] = b
             /\ Len(Ancestors[b]) > 1 =>
                   /\ PrevSide[b] \in H /\ Len(Ancestors[b]) = Len(Ancestors[PrevSide[b]]) + 1
                   /\ \A i \in 1..Len(Ancestors[PrevSide[b]]) :
                         Ancestors[b][i + 1] = Ancestors[PrevSide[b]][i]
  <2> DEFINE p == PrevSide[b]
  <2>1. b \in SideBlock /\ Ancestors[b] \in Seq(H) /\ p \in H \cup {NoBlock}
    BY ClosedParent DEF SideClosed
  <2>2. /\ Len(Ancestors[p]) \in Nat
        /\ Len(Ancestors[b]) = Len(Ancestors[p]) + 1 /\ Ancestors[b][1] = b
        /\ \A i \in 1..Len(Ancestors[p]) : Ancestors[b][i + 1] = Ancestors[p][i]
    BY <2>1, SideLine
  <2>3. p = NoBlock => Len(Ancestors[p]) = 0
    BY LineageAssumption
  <2> HIDE DEF p
  <2>4. Len(Ancestors[b]) >= 1 /\ (Len(Ancestors[b]) > 1 => p \in H)
    BY <2>1, <2>2, <2>3
  <2> QED
    BY <2>1, <2>2, <2>4 DEF p
<1> QED
  BY <1>1 DEF Lineage

-----------------------------------------------------------------------------
(***************************************************************************)
(* The two forests, and what a new block adds to them.                     *)
(***************************************************************************)
\* What put_main_header_info keeps of the mainchain blocks that are stored.
MainForest(M, height, work, successors, exponential) ==
    /\ MainClosed(M)
    /\ height = [m \in M |-> Len(MainAncestors[m])]
    /\ work \in [M -> Nat]
    /\ \A m \in M : work[m] = Work[m] + IF MainParent[m] = Zero THEN 0 ELSE work[MainParent[m]]
    /\ successors = [m \in M \cup {Zero} |-> {c \in M : MainParent[c] = m}]
    /\ DOMAIN exponential = M
    /\ Vectors(M \cup {Zero}, exponential, MainUp)

\* What put_header keeps of the sidechain blocks that are stored.
SideForest(H, height, successors, exponential) ==
    /\ SideClosed(H)
    /\ height = [b \in H |-> Len(Ancestors[b]) - 1]
    /\ successors = [b \in H \cup {NoBlock} |-> {c \in H : PrevSide[c] = b}]
    /\ DOMAIN exponential = H
    /\ Vectors(H, exponential, Ancestors)

\* A block whose parent is stored has its ancestors stored.
LEMMA ClosedPut ==
    /\ \A M : \A m \in MainBlock :
          MainClosed(M) /\ MainParent[m] \in M \cup {Zero} => MainClosed(M \cup {m})
    /\ \A H : \A b \in SideBlock :
          SideClosed(H) /\ PrevSide[b] \in H \cup {NoBlock} => SideClosed(H \cup {b})
<1>1. ASSUME NEW M, NEW m \in MainBlock, MainClosed(M), MainParent[m] \in M \cup {Zero}
      PROVE  MainClosed(M \cup {m})
  <2> DEFINE s == MainAncestors[MainParent[m]]
             N == M \cup {m}
  <2>1. s \in Seq(M)
    BY <1>1, LineageAssumption DEF MainClosed
  <2>2. MainAncestors[m] = <<m>> \o s
    BY LineageAssumption
  <2>3. s \in Seq(N) /\ <<m>> \in Seq(N) /\ M \subseteq N /\ N \subseteq MainBlock
    BY <1>1, <2>1 DEF MainClosed
  <2>4. \A x \in M : MainAncestors[x] \in Seq(N)
    BY <1>1, <2>3 DEF MainClosed
  <2> HIDE DEF s, N
  <2>5. MainAncestors[m] \in Seq(N)
    BY <2>2, <2>3
  <2> QED
    BY <2>3, <2>4, <2>5 DEF MainClosed, N
<1>2. ASSUME NEW H, NEW b \in SideBlock, SideClosed(H), PrevSide[b] \in H \cup {NoBlock}
      PROVE  SideClosed(H \cup {b})
  <2> DEFINE s == Ancestors[PrevSide[b]]
             N == H \cup {b}
  <2>1. s \in Seq(H)
    BY <1>2, LineageAssumption DEF SideClosed
  <2>2. Ancestors[b] = <<b>> \o s
    BY LineageAssumption
  <2>3. s \in Seq(N) /\ <<b>> \in Seq(N) /\ H \subseteq N /\ N \subseteq SideBlock
    BY <1>2, <2>1 DEF SideClosed
  <2>4. \A x \in H : Ancestors[x] \in Seq(N)
    BY <1>2, <2>3 DEF SideClosed
  <2> HIDE DEF s, N
  <2>5. Ancestors[b] \in Seq(N)
    BY <2>2, <2>3
  <2> QED
    BY <2>3, <2>4, <2>5 DEF SideClosed, N
<1> QED
  BY <1>1, <1>2

\* The vector of a block that is put has its ancestors.
LEMMA VectorsPut ==
    ASSUME NEW S, NEW parent, NEW up, NEW e, Lineage(S, parent, up), Vectors(S, e, up),
           NEW b, Lineage(S \cup {b}, parent, up), Len(up[b]) > 1 => parent[b] \in S,
           \A x \in S : x \in DOMAIN e \/ Len(up[x]) = 1,
           NEW height, height = Len(up[b]) - 1
    PROVE  Vectors(S \cup {b}, PutEntry(e, b, Exponentials(e, parent, b, height)), up)
<1> DEFINE v == Exponentials(e, parent, b, height)
           f == PutEntry(e, b, v)
<1> SUFFICES ASSUME NEW x \in S \cup {b}, NEW i \in Nat \ {0}, 2^i < Len(up[x])
             PROVE  f[x][i] = up[x][2^i + 1]
  BY DEF Vectors
<1> DEFINE r == 2^i
<1>1. r \in Nat /\ r >= 1 /\ Len(up[x]) \in Nat /\ Len(up[b]) \in Nat
  <2>1. r \in Nat /\ r >= 1
    BY PowerGrows, TwoPower
  <2> QED
    BY <2>1, UpLen
<1>2. CASE x = b
  <2> DEFINE p == parent[b]
  <2>1. Len(up[b]) > 1 /\ p \in S
    BY <1>1, <1>2
  <2>2. /\ Len(up[b]) = Len(up[p]) + 1
        /\ \A k \in 1..Len(up[p]) : up[b][k + 1] = up[p][k]
    BY <2>1 DEF Lineage
  <2>3. Len(up[p]) \in Nat
    BY <2>1, UpLen
  <2>4. height = Len(up[p]) /\ r <= height /\ r \in 1..Len(up[p])
    BY <1>1, <1>2, <2>2, <2>3
  <2>5. v[i] = up[p][2^i]
    BY <2>1, <2>4, VectorIs
  <2>6. f[b] = v
    BY DEF PutEntry
  <2> QED
    BY <1>2, <2>2, <2>4, <2>5, <2>6
<1>3. CASE x # b
  <2>1. r < Len(up[x])
    OBVIOUS
  <2>2. Len(up[x]) # 1
    <3> DEFINE n == Len(up[x])
    <3>1. r \in Nat /\ n \in Nat /\ r >= 1 /\ r < n
      BY <1>1, <2>1
    <3> HIDE DEF r, n
    <3>2. n # 1
      BY <3>1
    <3> QED
      BY <3>2 DEF n
  <2>3. x \in S /\ x \in DOMAIN e
    BY <1>3, <2>2
  <2>4. f[x] = e[x]
    BY <1>3, <2>3 DEF PutEntry
  <2> QED
    BY <2>3, <2>4 DEF Vectors
<1> QED
  BY <1>2, <1>3

\* put_main_header_info keeps the mainchain's forest, with a block that is new
\* or that is stored.
LEMMA MainForestPut ==
    ASSUME NEW M, NEW height, NEW work, NEW successors, NEW e,
           MainForest(M, height, work, successors, e),
           NEW m \in MainBlock, MainParent[m] \in M \cup {Zero},
           NEW h, h = (IF MainParent[m] = Zero THEN 0 ELSE height[MainParent[m]]) + 1,
           NEW w, w = Work[m] + IF MainParent[m] = Zero THEN 0 ELSE work[MainParent[m]]
    PROVE  MainForest(M \cup {m}, PutEntry(height, m, h), PutEntry(work, m, w),
                      AddSuccessor(successors, MainParent[m], m),
                      PutEntry(e, m, Exponentials(e, MainParent, m, h)))
<1> DEFINE p == MainParent[m]
           N == M \cup {m}
<1>1. /\ MainClosed(M) /\ M \subseteq MainBlock /\ height = [x \in M |-> Len(MainAncestors[x])]
      /\ work \in [M -> Nat] /\ DOMAIN e = M /\ Vectors(M \cup {Zero}, e, MainUp)
      /\ \A x \in M : work[x] = Work[x] + IF MainParent[x] = Zero THEN 0 ELSE work[MainParent[x]]
      /\ successors = [x \in M \cup {Zero} |-> {c \in M : MainParent[c] = x}]
  BY DEF MainForest, MainClosed
<1>2. \A x \in M : MainParent[x] \in M \cup {Zero}
  BY <1>1, ClosedParent
<1>3. MainClosed(N)
  BY <1>1, ClosedPut
<1>4. /\ Len(MainAncestors[m]) = Len(MainAncestors[p]) + 1 /\ Len(MainAncestors[p]) \in Nat
      /\ Len(MainAncestors[Zero]) = 0
  BY MainLine, LineageAssumption
<1>5. h = Len(MainAncestors[m])
  BY <1>1, <1>4
<1>6. PutEntry(height, m, h) = [x \in N |-> Len(MainAncestors[x])]
  BY <1>1, <1>5 DEF PutEntry
<1>7. Zero \notin MainBlock /\ Work[m] \in Nat
  BY BlockAssumption
<1>8. w \in Nat
  BY <1>1, <1>7
<1>9. PutEntry(work, m, w) \in [N -> Nat]
  BY <1>1, <1>8 DEF PutEntry
<1>10. ASSUME NEW x \in N
       PROVE  PutEntry(work, m, w)[x] =
                 Work[x] + IF MainParent[x] = Zero THEN 0 ELSE PutEntry(work, m, w)[MainParent[x]]
  <2> DEFINE f == PutEntry(work, m, w)
  <2>1. DOMAIN work = M /\ f[m] = w /\ (m \in M => work[m] = w)
    BY <1>1 DEF PutEntry
  <2>2. \A y \in M : f[y] = work[y]
    BY <2>1 DEF PutEntry
  <2>3. MainParent[x] \in M \cup {Zero}
    BY <1>2
  <2> HIDE DEF f
  <2>4. f[x] = Work[x] + IF MainParent[x] = Zero THEN 0 ELSE f[MainParent[x]]
    <3>1. CASE x = m
      BY <2>1, <2>2, <2>3, <3>1
    <3>2. CASE x \in M
      BY <1>1, <2>2, <2>3, <3>2
    <3> QED
      BY <3>1, <3>2
  <2> QED
    BY <2>4 DEF f
<1>11. AddSuccessor(successors, p, m) = [x \in N \cup {Zero} |-> {c \in N : MainParent[c] = x}]
  <2> DEFINE g == [x \in N \cup {Zero} |-> {c \in N : MainParent[c] = x}]
             f == AddSuccessor(successors, p, m)
  <2>1. DOMAIN successors = M \cup {Zero}
    BY <1>1
  <2>2. f = [x \in N \cup {Zero} |->
               (IF x \in M \cup {Zero} THEN successors[x] ELSE {})
                  \cup (IF x = p THEN {m} ELSE {})]
    <3>1. DOMAIN successors \cup {p, m} = N \cup {Zero}
      BY <2>1
    <3> QED
      BY <2>1, <3>1 DEF AddSuccessor
  <2>3. ASSUME NEW x \in N \cup {Zero}
        PROVE  (IF x \in M \cup {Zero} THEN successors[x] ELSE {}) \cup (IF x = p THEN {m} ELSE {})
                  = {c \in N : MainParent[c] = x}
    <3>1. CASE x \in M \cup {Zero}
      BY <1>1, <3>1
    <3>2. CASE x \notin M \cup {Zero}
      <4>1. x # p /\ \A c \in N : MainParent[c] # x
        BY <1>2, <3>2
      <4> QED
        BY <3>2, <4>1
    <3> QED
      BY <3>1, <3>2
  <2> QED
    BY <2>2, <2>3
<1>12. Vectors(N \cup {Zero}, PutEntry(e, m, Exponentials(e, MainParent, m, h)), MainUp)
  <2>1. Lineage(M \cup {Zero}, MainParent, MainUp)
    BY <1>1, MainLineage
  <2>2. /\ Lineage(N \cup {Zero}, MainParent, MainUp)
        /\ \A x \in N \cup {Zero} : Len(MainUp[x]) = Len(MainAncestors[x]) + 1
        /\ \A x \in N \cup {Zero} : Len(MainAncestors[x]) \in Nat
    BY <1>3, MainLineage
  <2>3. N \cup {Zero} = (M \cup {Zero}) \cup {m}
    OBVIOUS
  <2>4. h = Len(MainUp[m]) - 1
    BY <1>5, <2>2
  <2>5. \A x \in M \cup {Zero} : x \in DOMAIN e \/ Len(MainUp[x]) = 1
    <3>1. Len(MainUp[Zero]) = Len(MainAncestors[Zero]) + 1
      BY <2>2
    <3>2. Len(MainUp[Zero]) = 1
      BY <1>4, <3>1
    <3> QED
      BY <1>1, <3>2
  <2>6. Lineage((M \cup {Zero}) \cup {m}, MainParent, MainUp)
    BY <2>2, <2>3
  <2> DEFINE S == M \cup {Zero}
  <2>7. p \in S /\ Vectors(S, e, MainUp)
    BY <1>1
  <2> HIDE DEF S, N
  <2>8. Vectors(S \cup {m}, PutEntry(e, m, Exponentials(e, MainParent, m, h)), MainUp)
    BY <2>1, <2>4, <2>5, <2>6, <2>7, VectorsPut DEF S
  <2> QED
    BY <2>3, <2>8 DEF S
<1>13. DOMAIN PutEntry(e, m, Exponentials(e, MainParent, m, h)) = N
  BY <1>1 DEF PutEntry
<1> QED
  BY <1>3, <1>6, <1>9, <1>10, <1>11, <1>12, <1>13 DEF MainForest

\* put_header keeps the sidechain's, likewise.
LEMMA SideForestPut ==
    ASSUME NEW H, NEW height, NEW successors, NEW e,
           SideForest(H, height, successors, e),
           NEW b \in SideBlock, PrevSide[b] \in H \cup {NoBlock},
           NEW h, h = IF PrevSide[b] = NoBlock THEN 0 ELSE height[PrevSide[b]] + 1
    PROVE  SideForest(H \cup {b}, PutEntry(height, b, h), AddSuccessor(successors, PrevSide[b], b),
                      PutEntry(e, b, Exponentials(e, PrevSide, b, h)))
<1> DEFINE p == PrevSide[b]
           N == H \cup {b}
<1>1. /\ SideClosed(H) /\ H \subseteq SideBlock /\ height = [x \in H |-> Len(Ancestors[x]) - 1]
      /\ DOMAIN e = H /\ Vectors(H, e, Ancestors)
      /\ successors = [x \in H \cup {NoBlock} |-> {c \in H : PrevSide[c] = x}]
  BY DEF SideForest, SideClosed
<1>2. \A x \in H : PrevSide[x] \in H \cup {NoBlock}
  BY <1>1, ClosedParent
<1>3. SideClosed(N)
  BY <1>1, ClosedPut
<1>4. /\ Len(Ancestors[b]) = Len(Ancestors[p]) + 1 /\ Len(Ancestors[p]) \in Nat
      /\ Len(Ancestors[NoBlock]) = 0
  BY SideLine, LineageAssumption
<1>5. h = Len(Ancestors[b]) - 1
  BY <1>1, <1>4
<1>6. PutEntry(height, b, h) = [x \in N |-> Len(Ancestors[x]) - 1]
  BY <1>1, <1>5 DEF PutEntry
<1>7. NoBlock \notin SideBlock
  BY BlockAssumption
<1>8. AddSuccessor(successors, p, b) = [x \in N \cup {NoBlock} |-> {c \in N : PrevSide[c] = x}]
  <2> DEFINE f == AddSuccessor(successors, p, b)
  <2>1. DOMAIN successors = H \cup {NoBlock}
    BY <1>1
  <2>2. f = [x \in N \cup {NoBlock} |->
               (IF x \in H \cup {NoBlock} THEN successors[x] ELSE {})
                  \cup (IF x = p THEN {b} ELSE {})]
    <3>1. DOMAIN successors \cup {p, b} = N \cup {NoBlock}
      BY <2>1
    <3> QED
      BY <2>1, <3>1 DEF AddSuccessor
  <2>3. ASSUME NEW x \in N \cup {NoBlock}
        PROVE  (IF x \in H \cup {NoBlock} THEN successors[x] ELSE {})
                  \cup (IF x = p THEN {b} ELSE {}) = {c \in N : PrevSide[c] = x}
    <3>1. CASE x \in H \cup {NoBlock}
      BY <1>1, <3>1
    <3>2. CASE x \notin H \cup {NoBlock}
      <4>1. x # p /\ \A c \in N : PrevSide[c] # x
        BY <1>2, <3>2
      <4> QED
        BY <3>2, <4>1
    <3> QED
      BY <3>1, <3>2
  <2> QED
    BY <2>2, <2>3
<1>9. Vectors(N, PutEntry(e, b, Exponentials(e, PrevSide, b, h)), Ancestors)
  <2>1. Lineage(H, PrevSide, Ancestors) /\ Lineage(N, PrevSide, Ancestors)
    BY <1>1, <1>3, SideLineage
  <2>2. Len(Ancestors[b]) > 1 => p \in H
    BY <1>4
  <2>3. \A x \in H : x \in DOMAIN e
    BY <1>1
  <2> QED
    BY <1>1, <1>5, <2>1, <2>2, <2>3, VectorsPut
<1>10. DOMAIN PutEntry(e, b, Exponentials(e, PrevSide, b, h)) = N
  BY <1>1 DEF PutEntry
<1> QED
  BY <1>3, <1>6, <1>8, <1>9, <1>10 DEF SideForest

-----------------------------------------------------------------------------
(***************************************************************************)
(* What the lookups return while the forests are kept.                     *)
(***************************************************************************)
MainOf(d) ==
    MainForest(d.main_header_infos, d.main_block_hash_to_height, d.total_work,
               d.main_successors, d.exponential_main_ancestors)
SideOf(d) ==
    SideForest(d.headers, d.block_hash_to_height, d.successors, d.exponential_ancestors)

\* x is an ancestor of b, or b.
InLine(up, x, b) == \E i \in 1..Len(up[b]) : up[b][i] = x

LEMMA NatMinus ==
    ASSUME NEW low \in Nat, NEW high \in Nat, NEW l \in Nat, low =< high, high < l
    PROVE  high - low \in Nat /\ high - low < l
  OBVIOUS

\* The comparison of is_descendant.
AtDepth(e, parent, x, b, low, high) == low =< high /\ x = NthIn(e, parent, b, high - low)

LEMMA DescendantAt ==
    ASSUME NEW S, NEW parent, NEW up, NEW e, Lineage(S, parent, up), Vectors(S, e, up),
           NEW x \in S, NEW b \in S, NEW low, NEW high, low = Len(up[x]) - 1, high = Len(up[b]) - 1
    PROVE  AtDepth(e, parent, x, b, low, high) <=> InLine(up, x, b)
<1>1. Len(up[x]) \in Nat \ {0} /\ Len(up[b]) \in Nat \ {0}
  BY UpLen
<1>2. low \in Nat /\ high \in Nat /\ high < Len(up[b])
  BY <1>1
<1> DEFINE n == high - low
<1>3. ASSUME low =< high PROVE n \in Nat /\ n < Len(up[b]) /\ NthIn(e, parent, b, n) = up[b][n + 1]
  <2>1. n \in Nat /\ n < Len(up[b])
    <3> DEFINE l == Len(up[b])
    <3>1. l \in Nat /\ high < l /\ low \in Nat /\ high \in Nat /\ low =< high
      BY <1>2, <1>1, <1>3
    <3> HIDE DEF l
    <3>2. n \in Nat /\ n < l
      BY <3>1, NatMinus
    <3> QED
      BY <3>2 DEF l
  <2> HIDE DEF n
  <2> QED
    BY <2>1, NthIs
<1>4. ASSUME low =< high, x = NthIn(e, parent, b, n) PROVE InLine(up, x, b)
  <2>1. n \in Nat /\ n < Len(up[b]) /\ up[b][n + 1] = x
    BY <1>3, <1>4
  <2> HIDE DEF n
  <2>2. n + 1 \in 1..Len(up[b])
    BY <1>1, <2>1
  <2> QED
    BY <2>1, <2>2 DEF InLine
<1>5. ASSUME InLine(up, x, b) PROVE low =< high /\ x = NthIn(e, parent, b, n)
  <2>1. PICK i \in 1..Len(up[b]) : up[b][i] = x
    BY <1>5 DEF InLine
  <2>2. Len(up[x]) = Len(up[b]) - i + 1
    <3>1. FromIth(S, up, b, i)
      BY RestAt
    <3> QED
      BY <2>1, <3>1 DEF FromIth
  <2>3. low =< high /\ n = i - 1 /\ n + 1 = i
    BY <1>1, <2>2
  <2> HIDE DEF n
  <2> QED
    BY <1>3, <2>1, <2>3 DEF n
<1> QED
  BY <1>4, <1>5 DEF AtDepth

\* The mainchain: heights, walks and is_main_descendant.
LEMMA MainLookup ==
    ASSUME NEW d, MainOf(d), NEW m \in d.main_header_infos \cup {Zero}
    PROVE  /\ MainHeight(d, m) = Len(MainUp[m]) - 1 /\ MainHeight(d, m) \in Nat
           /\ \A n \in Nat : n < Len(MainUp[m]) => NthMainAncestor(d, m, n) = MainUp[m][n + 1]
           /\ \A x \in d.main_header_infos \cup {Zero} :
                 IsMainDescendant(d, x, m) <=> InLine(MainUp, x, m)
<1> DEFINE S == d.main_header_infos \cup {Zero}
           e == d.exponential_main_ancestors
<1>1. /\ MainClosed(d.main_header_infos) /\ Vectors(S, e, MainUp)
      /\ d.main_block_hash_to_height = [x \in d.main_header_infos |-> Len(MainAncestors[x])]
  BY DEF MainOf, MainForest
<1>2. /\ Lineage(S, MainParent, MainUp)
      /\ \A x \in S : Len(MainUp[x]) = Len(MainAncestors[x]) + 1 /\ Len(MainAncestors[x]) \in Nat
  BY <1>1, MainLineage
<1>3. ASSUME NEW x \in S PROVE MainHeight(d, x) = Len(MainUp[x]) - 1 /\ MainHeight(d, x) \in Nat
  <2>1. Len(MainUp[x]) - 1 = Len(MainAncestors[x]) /\ Len(MainAncestors[x]) \in Nat
    BY <1>2
  <2>2. MainHeight(d, x) = Len(MainAncestors[x])
    <3>1. CASE x = Zero
      BY <3>1, LineageAssumption DEF MainHeight
    <3>2. CASE x # Zero
      BY <1>1, <3>2 DEF MainHeight
    <3> QED
      BY <3>1, <3>2
  <2> QED
    BY <2>1, <2>2
<1>4. ASSUME NEW n \in Nat, n < Len(MainUp[m]) PROVE NthMainAncestor(d, m, n) = MainUp[m][n + 1]
  BY <1>1, <1>2, <1>4, NthIs DEF NthMainAncestor
<1>5. ASSUME NEW x \in S PROVE IsMainDescendant(d, x, m) <=> InLine(MainUp, x, m)
  <2> DEFINE low == MainHeight(d, x)
             high == MainHeight(d, m)
  <2>1. low = Len(MainUp[x]) - 1 /\ high = Len(MainUp[m]) - 1
    BY <1>3
  <2>2. IsMainDescendant(d, x, m)
           <=> AtDepth(e, MainParent, x, m, low, high)
    BY DEF AtDepth, IsMainDescendant, NthMainAncestor
  <2> HIDE DEF low, high, S, e
  <2> QED
    BY <1>1, <1>2, <2>1, <2>2, DescendantAt DEF S
<1> QED
  BY <1>3, <1>4, <1>5

\* The sidechain, likewise.
LEMMA SideLookup ==
    ASSUME NEW d, SideOf(d), NEW b \in d.headers
    PROVE  /\ d.block_hash_to_height[b] = Len(Ancestors[b]) - 1 /\ d.block_hash_to_height[b] \in Nat
           /\ \A n \in Nat : n < Len(Ancestors[b]) => NthAncestor(d, b, n) = Ancestors[b][n + 1]
           /\ \A x \in d.headers : IsDescendant(d, x, b) <=> InLine(Ancestors, x, b)
<1> DEFINE S == d.headers
           e == d.exponential_ancestors
<1>1. /\ SideClosed(S) /\ Vectors(S, e, Ancestors)
      /\ d.block_hash_to_height = [x \in d.headers |-> Len(Ancestors[x]) - 1]
  BY DEF SideOf, SideForest
<1>2. Lineage(S, PrevSide, Ancestors)
  BY <1>1, SideLineage
<1>3. ASSUME NEW x \in S
      PROVE  d.block_hash_to_height[x] = Len(Ancestors[x]) - 1 /\ d.block_hash_to_height[x] \in Nat
  <2>1. Len(Ancestors[x]) \in Nat \ {0}
    BY <1>2, UpLen
  <2> QED
    BY <1>1, <2>1
<1>4. ASSUME NEW n \in Nat, n < Len(Ancestors[b]) PROVE NthAncestor(d, b, n) = Ancestors[b][n + 1]
  BY <1>1, <1>2, <1>4, NthIs DEF NthAncestor
<1>5. ASSUME NEW x \in S PROVE IsDescendant(d, x, b) <=> InLine(Ancestors, x, b)
  <2> DEFINE low == d.block_hash_to_height[x]
             high == d.block_hash_to_height[b]
  <2>1. low = Len(Ancestors[x]) - 1 /\ high = Len(Ancestors[b]) - 1
    BY <1>3
  <2>2. IsDescendant(d, x, b) <=> AtDepth(e, PrevSide, x, b, low, high)
    BY DEF AtDepth, IsDescendant, NthAncestor
  <2> HIDE DEF low, high, S, e
  <2> QED
    BY <1>1, <1>2, <2>1, <2>2, DescendantAt DEF S
<1> QED
  BY <1>3, <1>4, <1>5

\* The ancestors of a mainchain block are all before it but the all-zeros hash.
LEMMA MainRange ==
    ASSUME NEW m \in MainBlock \cup {Zero}, NEW x
    PROVE  x \in Range(MainAncestors[m]) <=> x # Zero /\ InLine(MainUp, x, m)
<1> DEFINE s == MainAncestors[m]
<1>1. s \in Seq(MainBlock) /\ MainUp[m] = Append(s, Zero) /\ Zero \notin MainBlock
  BY LineageAssumption, BlockAssumption DEF MainUp
<1> DEFINE t == MainUp[m]
<1> HIDE DEF s, t
<1>2. /\ Len(t) = Len(s) + 1 /\ Len(s) \in Nat /\ DOMAIN s = 1..Len(s)
      /\ \A i \in 1..Len(s) : t[i] = s[i] /\ s[i] # Zero
      /\ t[Len(s) + 1] = Zero
  BY <1>1, AppendProperties DEF t
<1>3. x \in Range(s) <=> \E i \in 1..Len(s) : s[i] = x
  BY <1>2 DEF Range
<1>4. (\E i \in 1..Len(s) : s[i] = x) <=> x # Zero /\ \E i \in 1..Len(t) : t[i] = x
  BY <1>2
<1> QED
  BY <1>3, <1>4 DEF InLine, s, t

-----------------------------------------------------------------------------
(***************************************************************************)
(* Blind merged mining: a block is verified where its parent is verified   *)
(* before, and so where the mainchain commits to it and to all before it.  *)
(***************************************************************************)
IsChain(at, b, m) ==
    at \in [1..Len(Ancestors[b]) -> MainBlock] /\ at[1] = m /\ Commits(at, b)

LEMMA CommittedAtIs ==
    \A b \in SideBlock, m \in MainBlock : m \in CommittedAt[b] <=> \E at : IsChain(at, b, m)
  BY DEF CommittedAt, IsChain

\* Taking away the newest block of a chain of commitments.
LEMMA ChainTail ==
    ASSUME NEW b \in SideBlock, NEW m \in MainBlock, PrevSide[b] # NoBlock, NEW at, IsChain(at, b, m)
    PROVE  \E x \in Range(MainAncestors[m]) : x \in CommittedAt[PrevSide[b]]
<1> DEFINE p == PrevSide[b]
           l == Len(Ancestors[p])
           cut == [i \in 1..l |-> at[i + 1]]
<1>1. /\ p \in SideBlock /\ l \in Nat /\ Len(Ancestors[b]) = l + 1
      /\ \A i \in 1..l : Ancestors[b][i + 1] = Ancestors[p][i]
  BY SideLine, BlockAssumption
<1>2. l >= 1
  BY <1>1, SideLine
<1> HIDE DEF p, l
<1>3. at \in [1..(l + 1) -> MainBlock] /\ at[1] = m
  BY <1>1 DEF IsChain
<1>4. \A i \in 1..(l + 1) :
        /\ Commitment[at[i]] = Ancestors[b][i] /\ PrevMain[Ancestors[b][i]] = MainParent[at[i]]
        /\ i < l + 1 => at[i + 1] \in Range(MainAncestors[at[i]])
  BY <1>1 DEF IsChain, Commits
<1>5. cut \in [1..l -> MainBlock] /\ cut[1] = at[2]
  BY <1>1, <1>2, <1>3
<1>6. ASSUME NEW i \in 1..l
      PROVE  /\ Commitment[cut[i]] = Ancestors[p][i] /\ PrevMain[Ancestors[p][i]] = MainParent[cut[i]]
             /\ i < l => cut[i + 1] \in Range(MainAncestors[cut[i]])
  <2>1. i + 1 \in 1..(l + 1) /\ cut[i] = at[i + 1] /\ Ancestors[b][i + 1] = Ancestors[p][i]
    BY <1>1
  <2>2. i < l => cut[i + 1] = at[(i + 1) + 1] /\ i + 1 < l + 1
    BY <1>1
  <2> HIDE DEF cut
  <2> QED
    BY <1>4, <2>1, <2>2
<1>7. at[2] \in Range(MainAncestors[m]) /\ at[2] \in MainBlock
  <2>1. 1 \in 1..(l + 1) /\ 1 < l + 1 /\ 1 + 1 = 2 /\ 2 \in 1..(l + 1)
    BY <1>1, <1>2
  <2> QED
    BY <1>3, <1>4, <2>1
<1> HIDE DEF cut
<1>8. IsChain(cut, p, at[2])
  BY <1>5, <1>6 DEF IsChain, Commits, l
<1>9. at[2] \in CommittedAt[p]
  BY <1>1, <1>7, <1>8, CommittedAtIs
<1> QED
  BY <1>7, <1>9 DEF p

\* Adding a block.
LEMMA ChainCons ==
    ASSUME NEW b \in SideBlock, NEW m \in MainBlock, PrevSide[b] # NoBlock,
           Commitment[m] = b, PrevMain[b] = MainParent[m],
           NEW x \in Range(MainAncestors[m]), x \in CommittedAt[PrevSide[b]]
    PROVE  m \in CommittedAt[b]
<1> DEFINE p == PrevSide[b]
           l == Len(Ancestors[p])
<1>1. /\ p \in SideBlock /\ l \in Nat /\ Len(Ancestors[b]) = l + 1 /\ Ancestors[b][1] = b
      /\ \A i \in 1..l : Ancestors[b][i + 1] = Ancestors[p][i]
  BY SideLine, BlockAssumption
<1>2. l >= 1
  BY <1>1, SideLine
<1>3. x \in MainBlock
  BY <1>1 DEF CommittedAt
<1>4. PICK at : IsChain(at, p, x)
  BY <1>1, <1>3, CommittedAtIs
<1> HIDE DEF p, l
<1> DEFINE long == [i \in 1..(l + 1) |-> IF i = 1 THEN m ELSE at[i - 1]]
<1>5. at \in [1..l -> MainBlock] /\ at[1] = x
  BY <1>4 DEF IsChain, l
<1>6. \A i \in 1..l :
        /\ Commitment[at[i]] = Ancestors[p][i] /\ PrevMain[Ancestors[p][i]] = MainParent[at[i]]
        /\ i < l => at[i + 1] \in Range(MainAncestors[at[i]])
  BY <1>4 DEF IsChain, Commits, l
<1>7. long \in [1..(l + 1) -> MainBlock] /\ long[1] = m
  BY <1>1, <1>5
<1>8. ASSUME NEW i \in 1..(l + 1)
      PROVE  /\ Commitment[long[i]] = Ancestors[b][i] /\ PrevMain[Ancestors[b][i]] = MainParent[long[i]]
             /\ i < l + 1 => long[i + 1] \in Range(MainAncestors[long[i]])
  <2>1. CASE i = 1
    <3>1. long[1] = m /\ long[1 + 1] = x /\ 1 < l + 1
      BY <1>1, <1>2, <1>5
    <3> HIDE DEF long
    <3> QED
      BY <1>1, <2>1, <3>1
  <2>2. CASE i # 1
    <3> DEFINE j == i - 1
    <3>1. j \in 1..l /\ i = j + 1 /\ long[i] = at[j] /\ (i < l + 1 => long[i + 1] = at[j + 1] /\ j < l)
      BY <1>1, <2>2
    <3> HIDE DEF long, j
    <3>2. Ancestors[b][i] = Ancestors[p][j]
      BY <1>1, <3>1
    <3> QED
      BY <1>6, <3>1, <3>2
  <2> QED
    BY <2>1, <2>2
<1> HIDE DEF long
<1>9. IsChain(long, b, m)
  BY <1>1, <1>7, <1>8 DEF IsChain, Commits
<1> QED
  BY <1>9, CommittedAtIs

\* The commitments to a block are those on top of commitments to its parent.
LEMMA CommittedIs ==
    ASSUME NEW b \in SideBlock, NEW m \in MainBlock
    PROVE  m \in CommittedAt[b] <=>
              /\ Commitment[m] = b
              /\ PrevMain[b] = MainParent[m]
              /\ \/ PrevSide[b] = NoBlock
                 \/ \E x \in Range(MainAncestors[m]) : x \in CommittedAt[PrevSide[b]]
<1>1. Len(Ancestors[b]) \in Nat /\ Len(Ancestors[b]) >= 1 /\ Ancestors[b][1] = b
  BY SideLine
<1>2. ASSUME m \in CommittedAt[b]
      PROVE  /\ Commitment[m] = b
             /\ PrevMain[b] = MainParent[m]
             /\ \/ PrevSide[b] = NoBlock
                \/ \E x \in Range(MainAncestors[m]) : x \in CommittedAt[PrevSide[b]]
  <2>1. PICK at : IsChain(at, b, m)
    BY <1>2, CommittedAtIs
  <2>2. 1 \in 1..Len(Ancestors[b])
    BY <1>1
  <2>3. Commitment[m] = b /\ PrevMain[b] = MainParent[m]
    BY <1>1, <2>1, <2>2 DEF IsChain, Commits
  <2> QED
    BY <2>1, <2>3, ChainTail
<1>3. ASSUME Commitment[m] = b, PrevMain[b] = MainParent[m], PrevSide[b] = NoBlock
      PROVE  m \in CommittedAt[b]
  <2> DEFINE at == [i \in 1..Len(Ancestors[b]) |-> m]
  <2>1. Len(Ancestors[b]) = 1
    <3>1. Len(Ancestors[PrevSide[b]]) = 0
      BY <1>3, LineageAssumption
    <3>2. Len(Ancestors[b]) = Len(Ancestors[PrevSide[b]]) + 1
      BY SideLine
    <3> QED
      BY <3>1, <3>2
  <2>2. at \in [1..Len(Ancestors[b]) -> MainBlock] /\ at[1] = m
    BY <2>1
  <2> HIDE DEF at
  <2>3. \A i \in 1..Len(Ancestors[b]) : i = 1 /\ ~(i < Len(Ancestors[b]))
    BY <2>1
  <2>4. IsChain(at, b, m)
    BY <1>1, <1>3, <2>2, <2>3 DEF IsChain, Commits
  <2> QED
    BY <2>4, CommittedAtIs
<1> QED
  BY <1>2, <1>3, ChainCons

\* The results that are stored for the blocks of H say where, of the mainchain
\* blocks of M, they are verified.
BmmExact(H, M, results) ==
    /\ DOMAIN results = H
    /\ \A b \in H :
          /\ DOMAIN results[b] \subseteq M
          /\ \A m \in DOMAIN results[b] : results[b][m] \in BmmResult
          /\ \A m \in M :
                m \in DOMAIN results[b] /\ results[b][m] = "Verified" <=> m \in CommittedAt[b]

\* What put_header and put_main_block_info find, if it is known where the
\* parent is verified.
LEMMA ResultExact ==
    ASSUME NEW d, MainOf(d), NEW b \in SideBlock, NEW m \in d.main_header_infos, NEW M,
           M \subseteq d.main_header_infos, d.main_header_infos \subseteq M \cup {m},
           NEW H, BmmExact(H, M, d.bmm_results), PrevSide[b] \in H \cup {NoBlock}
    PROVE  Result(d, b, m) = "Verified" <=> m \in CommittedAt[b]
<1> DEFINE p == PrevSide[b]
           I == d.main_header_infos
<1>1. MainClosed(I) /\ I \subseteq MainBlock /\ m \in MainBlock /\ Zero \notin MainBlock
  BY BlockAssumption DEF MainOf, MainForest, MainClosed
<1>2. Result(d, b, m) = "Verified" <=> BmmVerified(d, b, m)
  BY DEF Result
<1>3. \A x \in I : IsMainDescendant(d, x, m) <=> x \in Range(MainAncestors[m])
  <2>1. \A x \in I : IsMainDescendant(d, x, m) <=> InLine(MainUp, x, m)
    BY MainLookup
  <2>2. \A x \in I : x # Zero
    BY <1>1
  <2> QED
    BY <1>1, <2>1, <2>2, MainRange
<1>4. Range(MainAncestors[m]) \subseteq I
  <2> DEFINE s == MainAncestors[m]
  <2>1. s \in Seq(I)
    BY <1>1 DEF MainClosed
  <2> HIDE DEF s, I
  <2>2. Range(s) \subseteq I
    BY <2>1 DEF Range
  <2> QED
    BY <2>2 DEF s
<1>5. CASE p = NoBlock
  <2>1. BmmVerified(d, b, m) <=> Commitment[m] = b /\ PrevMain[b] = MainParent[m]
    BY <1>5 DEF BmmVerified
  <2> QED
    BY <1>1, <1>2, <1>5, <2>1, CommittedIs
<1>6. CASE p # NoBlock
  <2>1. p \in H /\ p \in DOMAIN d.bmm_results /\ p \in SideBlock
    BY <1>6, BlockAssumption DEF BmmExact
  <2>2. \A x : x \in Verifications(d, p) <=> x \in M /\ x \in CommittedAt[p]
    <3>1. \A x : x \in Verifications(d, p) <=>
            x \in DOMAIN d.bmm_results[p] /\ d.bmm_results[p][x] = "Verified"
      BY <2>1 DEF Verifications, BmmResults
    <3> QED
      BY <2>1, <3>1 DEF BmmExact
  <2>3. b # p
    <3>1. Len(Ancestors[b]) = Len(Ancestors[p]) + 1 /\ Len(Ancestors[p]) \in Nat
      BY SideLine
    <3> QED
      BY <3>1
  <2>4. Commitment[m] = b => m \notin CommittedAt[p]
    BY <1>1, <2>1, <2>3, CommittedIs
  <2>5. Commitment[m] = b =>
          ((\E x \in Verifications(d, p) : IsMainDescendant(d, x, m))
             <=> \E x \in Range(MainAncestors[m]) : x \in CommittedAt[p])
    BY <1>3, <1>4, <2>2, <2>4
  <2>6. BmmVerified(d, b, m) <=>
          /\ Commitment[m] = b /\ PrevMain[b] = MainParent[m]
          /\ \E x \in Verifications(d, p) : IsMainDescendant(d, x, m)
    BY <1>6 DEF BmmVerified
  <2>7. m \in CommittedAt[b] <=>
          /\ Commitment[m] = b /\ PrevMain[b] = MainParent[m]
          /\ \E x \in Range(MainAncestors[m]) : x \in CommittedAt[p]
    BY <1>1, <1>6, CommittedIs
  <2> QED
    BY <1>2, <2>5, <2>6, <2>7
<1> QED
  BY <1>5, <1>6

-----------------------------------------------------------------------------
(***************************************************************************)
(* The inductive invariant, kept by every put of a write transaction.      *)
(***************************************************************************)
Databases ==
    {"main_header_infos", "main_block_infos", "main_block_hash_to_height", "total_work",
     "main_successors", "exponential_main_ancestors", "headers", "bodies",
     "block_hash_to_height", "successors", "exponential_ancestors", "bmm_results"}

AInv(d) ==
    /\ DOMAIN d = Databases
    /\ MainOf(d)
    /\ SideOf(d)
    /\ d.main_block_infos = d.main_header_infos
    /\ d.bodies \subseteq d.headers
    /\ \A b \in d.headers : PrevMain[b] \in d.main_header_infos \cup {Zero}
    /\ BmmExact(d.headers, d.main_block_infos, d.bmm_results)

\* The databases that put_main_header_info writes.
LEMMA PutMainHeaderInfoIs ==
    ASSUME NEW d, DOMAIN d = Databases, NEW m, NEW h, h = MainHeight(d, MainParent[m]) + 1,
           NEW w, w = Work[m] + IF MainParent[m] = Zero THEN 0 ELSE d.total_work[MainParent[m]],
           NEW c, c = PutMainHeaderInfo(d, m)
    PROVE  /\ DOMAIN c = Databases
           /\ c.main_header_infos = d.main_header_infos \cup {m}
           /\ c.main_block_hash_to_height = PutEntry(d.main_block_hash_to_height, m, h)
           /\ c.total_work = PutEntry(d.total_work, m, w)
           /\ c.main_successors = AddSuccessor(d.main_successors, MainParent[m], m)
           /\ c.exponential_main_ancestors =
                 PutEntry(d.exponential_main_ancestors, m,
                     Exponentials(d.exponential_main_ancestors, MainParent, m, h))
           /\ c.main_block_infos = d.main_block_infos /\ c.headers = d.headers
           /\ c.bodies = d.bodies /\ c.block_hash_to_height = d.block_hash_to_height
           /\ c.successors = d.successors
           /\ c.exponential_ancestors = d.exponential_ancestors
           /\ c.bmm_results = d.bmm_results
  BY DEF PutMainHeaderInfo, Databases

\* Those that put_main_block_info writes.
LEMMA PutMainBlockInfoIs ==
    ASSUME NEW d, DOMAIN d = Databases, NEW m, NEW c, c = PutMainBlockInfo(d, m)
    PROVE  /\ DOMAIN c = Databases
           /\ c.main_block_infos = d.main_block_infos \cup {m}
           /\ c.bmm_results =
                 IF Commitment[m] \in d.headers
                 THEN PutEntry(d.bmm_results, Commitment[m],
                          PutEntry(BmmResults(d, Commitment[m]), m, Result(d, Commitment[m], m)))
                 ELSE d.bmm_results
           /\ c.main_header_infos = d.main_header_infos
           /\ c.main_block_hash_to_height = d.main_block_hash_to_height
           /\ c.total_work = d.total_work /\ c.main_successors = d.main_successors
           /\ c.exponential_main_ancestors = d.exponential_main_ancestors
           /\ c.headers = d.headers /\ c.bodies = d.bodies
           /\ c.block_hash_to_height = d.block_hash_to_height /\ c.successors = d.successors
           /\ c.exponential_ancestors = d.exponential_ancestors
  BY DEF PutMainBlockInfo, Databases

\* Those that put_header writes.
LEMMA PutHeaderIs ==
    ASSUME NEW d, DOMAIN d = Databases, NEW b, NEW h,
           h = IF PrevSide[b] = NoBlock THEN 0 ELSE d.block_hash_to_height[PrevSide[b]] + 1,
           NEW c, c = PutHeader(d, b)
    PROVE  /\ DOMAIN c = Databases
           /\ c.headers = d.headers \cup {b}
           /\ c.block_hash_to_height = PutEntry(d.block_hash_to_height, b, h)
           /\ c.successors = AddSuccessor(d.successors, PrevSide[b], b)
           /\ c.exponential_ancestors =
                 PutEntry(d.exponential_ancestors, b, Exponentials(d.exponential_ancestors, PrevSide, b, h))
           /\ c.bmm_results =
                 PutEntry(d.bmm_results, b,
                     PutAll(BmmResults(d, b),
                            [m \in d.main_successors[PrevMain[b]] |-> Result(d, b, m)]))
           /\ c.main_header_infos = d.main_header_infos /\ c.main_block_infos = d.main_block_infos
           /\ c.main_block_hash_to_height = d.main_block_hash_to_height
           /\ c.total_work = d.total_work /\ c.main_successors = d.main_successors
           /\ c.exponential_main_ancestors = d.exponential_main_ancestors
           /\ c.bodies = d.bodies
  BY DEF PutHeader, Databases

\* The result at a mainchain block that is put, with those before.
LEMMA BmmExactMain ==
    ASSUME NEW H, NEW M, NEW results, BmmExact(H, M, results), H \subseteq SideBlock,
           NEW m \in MainBlock, NEW result \in BmmResult,
           Commitment[m] \in H => (result = "Verified" <=> m \in CommittedAt[Commitment[m]])
    PROVE  BmmExact(H, M \cup {m},
                    IF Commitment[m] \in H
                    THEN PutEntry(results, Commitment[m], PutEntry(results[Commitment[m]], m, result))
                    ELSE results)
<1> DEFINE c == Commitment[m]
           new == IF c \in H THEN PutEntry(results, c, PutEntry(results[c], m, result)) ELSE results
<1>1. DOMAIN results = H
  BY DEF BmmExact
<1>2. DOMAIN new = H
  BY <1>1 DEF PutEntry
<1>3. ASSUME NEW b \in H
      PROVE  /\ DOMAIN new[b] \subseteq M \cup {m}
             /\ \A x \in DOMAIN new[b] : new[b][x] \in BmmResult
             /\ \A x \in M \cup {m} :
                   x \in DOMAIN new[b] /\ new[b][x] = "Verified" <=> x \in CommittedAt[b]
  <2>1. /\ DOMAIN results[b] \subseteq M
        /\ \A x \in DOMAIN results[b] : results[b][x] \in BmmResult
        /\ \A x \in M :
              x \in DOMAIN results[b] /\ results[b][x] = "Verified" <=> x \in CommittedAt[b]
    BY DEF BmmExact
  <2>2. CASE b = c
    <3> DEFINE r == PutEntry(results[b], m, result)
    <3>1. new[b] = r
      BY <1>1, <2>2 DEF PutEntry
    <3>2. DOMAIN r = DOMAIN results[b] \cup {m} /\ r[m] = result
          /\ \A x \in DOMAIN results[b] : x # m => r[x] = results[b][x]
      BY DEF PutEntry
    <3>3. result = "Verified" <=> m \in CommittedAt[b]
      BY <2>2
    <3> HIDE DEF r, new, c
    <3> QED
      BY <2>1, <3>1, <3>2, <3>3
  <2>3. CASE b # c
    <3>1. new[b] = results[b]
      BY <1>1, <2>3 DEF PutEntry
    <3>2. m \notin CommittedAt[b]
      BY <2>3, CommittedIs
    <3>3. m \in DOMAIN results[b] => m \in M
      BY <2>1
    <3> HIDE DEF new, c
    <3> QED
      BY <2>1, <3>1, <3>2, <3>3
  <2> QED
    BY <2>2, <2>3
<1> HIDE DEF new, c
<1>4. BmmExact(H, M \cup {m}, new)
  BY <1>2, <1>3 DEF BmmExact
<1> QED
  BY <1>4 DEF new, c

\* One round of request_ancestor_infos.
LEMMA PutMainKeeps ==
    ASSUME NEW d, AInv(d), NEW m \in MainBlock, MainParent[m] \in d.main_header_infos \cup {Zero}
    PROVE  AInv(PutMain(d, m))
           /\ PutMain(d, m).main_header_infos = d.main_header_infos \cup {m}
<1> DEFINE a == PutMainHeaderInfo(d, m)
           c == PutMainBlockInfo(a, m)
           p == MainParent[m]
           h == MainHeight(d, p) + 1
           w == Work[m] + IF p = Zero THEN 0 ELSE d.total_work[p]
           M == d.main_header_infos
           H == d.headers
           k == Commitment[m]
<1>1. /\ DOMAIN d = Databases /\ MainOf(d) /\ SideOf(d) /\ d.main_block_infos = M
      /\ d.bodies \subseteq H /\ \A b \in H : PrevMain[b] \in M \cup {Zero}
      /\ BmmExact(H, M, d.bmm_results)
  BY DEF AInv
<1>2. /\ DOMAIN a = Databases
      /\ a.main_header_infos = M \cup {m}
      /\ a.main_block_hash_to_height = PutEntry(d.main_block_hash_to_height, m, h)
      /\ a.total_work = PutEntry(d.total_work, m, w)
      /\ a.main_successors = AddSuccessor(d.main_successors, MainParent[m], m)
      /\ a.exponential_main_ancestors =
            PutEntry(d.exponential_main_ancestors, m,
                Exponentials(d.exponential_main_ancestors, MainParent, m, h))
      /\ a.main_block_infos = M /\ a.headers = H
      /\ a.bodies = d.bodies /\ a.block_hash_to_height = d.block_hash_to_height
      /\ a.successors = d.successors
      /\ a.exponential_ancestors = d.exponential_ancestors
      /\ a.bmm_results = d.bmm_results
  BY <1>1, PutMainHeaderInfoIs
<1>3. h = (IF p = Zero THEN 0 ELSE d.main_block_hash_to_height[p]) + 1
  BY DEF MainHeight
<1> HIDE DEF a, h, w
<1>4. MainOf(a)
  <2>1. MainForest(M, d.main_block_hash_to_height, d.total_work, d.main_successors,
                   d.exponential_main_ancestors)
    BY <1>1 DEF MainOf
  <2>2. MainForest(M \cup {m}, PutEntry(d.main_block_hash_to_height, m, h), PutEntry(d.total_work, m, w),
                   AddSuccessor(d.main_successors, MainParent[m], m),
                   PutEntry(d.exponential_main_ancestors, m,
                       Exponentials(d.exponential_main_ancestors, MainParent, m, h)))
    BY <1>3, <2>1, MainForestPut DEF w
  <2> QED
    BY <1>2, <2>2 DEF MainOf
<1>5. /\ DOMAIN c = Databases
      /\ c.main_block_infos = M \cup {m}
      /\ c.bmm_results = IF k \in H THEN PutEntry(d.bmm_results, k, PutEntry(BmmResults(a, k), m, Result(a, k, m)))
                         ELSE d.bmm_results
      /\ c.main_header_infos = a.main_header_infos
      /\ c.main_block_hash_to_height = a.main_block_hash_to_height
      /\ c.total_work = a.total_work /\ c.main_successors = a.main_successors
      /\ c.exponential_main_ancestors = a.exponential_main_ancestors
      /\ c.headers = H /\ c.bodies = d.bodies
      /\ c.block_hash_to_height = d.block_hash_to_height /\ c.successors = d.successors
      /\ c.exponential_ancestors = d.exponential_ancestors
  BY <1>2, PutMainBlockInfoIs
<1> HIDE DEF c, k
<1>6. MainOf(c) /\ SideOf(c)
  BY <1>1, <1>4, <1>5 DEF MainOf, SideOf
<1>7. H \subseteq SideBlock /\ SideClosed(H)
  BY <1>1 DEF SideOf, SideForest, SideClosed
<1>8. Result(a, k, m) \in BmmResult
  BY DEF Result, BmmResult
<1>9. k \in H => (Result(a, k, m) = "Verified" <=> m \in CommittedAt[k])
  <2> SUFFICES ASSUME k \in H PROVE Result(a, k, m) = "Verified" <=> m \in CommittedAt[k]
    OBVIOUS
  <2>1. PrevSide[k] \in H \cup {NoBlock} /\ k \in SideBlock
    BY <1>7, ClosedParent
  <2>2. BmmExact(H, M, a.bmm_results)
    BY <1>1, <1>2
  <2>3. m \in a.main_header_infos /\ M \subseteq a.main_header_infos
        /\ a.main_header_infos \subseteq M \cup {m}
    BY <1>2
  <2> QED
    BY <1>4, <2>1, <2>2, <2>3, ResultExact
<1>10. k \in H => BmmResults(a, k) = d.bmm_results[k]
  BY <1>1, <1>2 DEF BmmResults, BmmExact
<1>11. BmmExact(H, M \cup {m}, c.bmm_results)
  <2> DEFINE r == Result(a, k, m)
             new == IF k \in H THEN PutEntry(d.bmm_results, k, PutEntry(d.bmm_results[k], m, r)) ELSE d.bmm_results
  <2>1. c.bmm_results = new
    BY <1>5, <1>10
  <2>2. r \in BmmResult /\ (k \in H => (r = "Verified" <=> m \in CommittedAt[k]))
    BY <1>8, <1>9
  <2> HIDE DEF r
  <2>3. BmmExact(H, M \cup {m}, new)
    BY <1>1, <1>7, <2>2, BmmExactMain DEF k
  <2> QED
    BY <2>1, <2>3
<1>12. AInv(c)
  BY <1>1, <1>2, <1>5, <1>6, <1>11 DEF AInv
<1>13. PutMain(d, m) = c
  BY DEF PutMain, c, a
<1> QED
  BY <1>2, <1>5, <1>12, <1>13

\* The results of a header that is put: those at the blocks on its mainchain
\* parent, with those that are stored.
LEMMA BmmExactSide ==
    ASSUME NEW H, NEW M, M \subseteq MainBlock, NEW results, BmmExact(H, M, results),
           NEW b \in SideBlock, NEW added,
           DOMAIN added = {m \in M : MainParent[m] = PrevMain[b]},
           \A m \in DOMAIN added :
              added[m] \in BmmResult /\ (added[m] = "Verified" <=> m \in CommittedAt[b]),
           NEW old, old = IF b \in H THEN results[b] ELSE << >>
    PROVE  BmmExact(H \cup {b}, M, PutEntry(results, b, PutAll(old, added)))
<1> DEFINE r == PutAll(old, added)
           new == PutEntry(results, b, r)
<1>1. DOMAIN results = H
  BY DEF BmmExact
<1>2. /\ DOMAIN old \subseteq M
      /\ \A x \in DOMAIN old : old[x] \in BmmResult /\ (old[x] = "Verified" <=> x \in CommittedAt[b])
      /\ \A x \in M : b \in H /\ x \in CommittedAt[b] => x \in DOMAIN old
  <2>1. CASE b \in H
    BY <2>1 DEF BmmExact
  <2>2. CASE b \notin H
    <3>1. DOMAIN old = {}
      BY <2>2
    <3> QED
      BY <2>2, <3>1
  <2> QED
    BY <2>1, <2>2
<1>3. /\ DOMAIN r = DOMAIN old \cup DOMAIN added
      /\ \A x \in DOMAIN added : r[x] = added[x]
      /\ \A x \in DOMAIN old : x \notin DOMAIN added => r[x] = old[x]
  BY DEF PutAll
<1> HIDE DEF r
<1>4. DOMAIN new = H \cup {b} /\ new[b] = r /\ \A x \in H : x # b => new[x] = results[x]
  BY <1>1 DEF PutEntry
<1>5. \A x \in M : x \in CommittedAt[b] => x \in DOMAIN added
  BY CommittedIs
<1>6. /\ DOMAIN r \subseteq M
      /\ \A x \in DOMAIN r : r[x] \in BmmResult
      /\ \A x \in M : x \in DOMAIN r /\ r[x] = "Verified" <=> x \in CommittedAt[b]
  BY <1>2, <1>3, <1>5
<1> HIDE DEF new
<1>7. ASSUME NEW x \in H, x # b
      PROVE  /\ DOMAIN new[x] \subseteq M
             /\ \A m \in DOMAIN new[x] : new[x][m] \in BmmResult
             /\ \A m \in M : m \in DOMAIN new[x] /\ new[x][m] = "Verified" <=> m \in CommittedAt[x]
  BY <1>4, <1>7 DEF BmmExact
<1>8. BmmExact(H \cup {b}, M, new)
  BY <1>4, <1>6, <1>7 DEF BmmExact
<1> QED
  BY <1>8 DEF new, r

\* put_header, of a new header or of one that is stored.
LEMMA PutHeaderKeeps ==
    ASSUME NEW d, AInv(d), NEW b \in SideBlock, PrevSide[b] \in d.headers \cup {NoBlock},
           PrevMain[b] \in d.main_header_infos \cup {Zero}
    PROVE  /\ AInv(PutHeader(d, b))
           /\ PutHeader(d, b).headers = d.headers \cup {b}
           /\ PutHeader(d, b).main_header_infos = d.main_header_infos
<1> DEFINE c == PutHeader(d, b)
           p == PrevSide[b]
           h == IF p = NoBlock THEN 0 ELSE d.block_hash_to_height[p] + 1
           M == d.main_header_infos
           H == d.headers
           added == [m \in d.main_successors[PrevMain[b]] |-> Result(d, b, m)]
<1>1. /\ DOMAIN d = Databases /\ MainOf(d) /\ SideOf(d) /\ d.main_block_infos = M
      /\ d.bodies \subseteq H /\ \A x \in H : PrevMain[x] \in M \cup {Zero}
      /\ BmmExact(H, M, d.bmm_results)
  BY DEF AInv
<1>2. /\ DOMAIN c = Databases
      /\ c.headers = H \cup {b}
      /\ c.block_hash_to_height = PutEntry(d.block_hash_to_height, b, h)
      /\ c.successors = AddSuccessor(d.successors, PrevSide[b], b)
      /\ c.exponential_ancestors =
            PutEntry(d.exponential_ancestors, b, Exponentials(d.exponential_ancestors, PrevSide, b, h))
      /\ c.bmm_results = PutEntry(d.bmm_results, b, PutAll(BmmResults(d, b), added))
      /\ c.main_header_infos = M /\ c.main_block_infos = M
      /\ c.main_block_hash_to_height = d.main_block_hash_to_height
      /\ c.total_work = d.total_work /\ c.main_successors = d.main_successors
      /\ c.exponential_main_ancestors = d.exponential_main_ancestors
      /\ c.bodies = d.bodies
  BY <1>1, PutHeaderIs
<1> HIDE DEF c
<1>3. MainOf(c)
  BY <1>1, <1>2 DEF MainOf
<1>4. SideOf(c)
  <2>1. SideForest(H, d.block_hash_to_height, d.successors, d.exponential_ancestors)
    BY <1>1 DEF SideOf
  <2>2. SideForest(H \cup {b}, PutEntry(d.block_hash_to_height, b, h),
                   AddSuccessor(d.successors, PrevSide[b], b),
                   PutEntry(d.exponential_ancestors, b, Exponentials(d.exponential_ancestors, PrevSide, b, h)))
    BY <2>1, SideForestPut
  <2> QED
    BY <1>2, <2>2 DEF SideOf
<1>5. DOMAIN added = {m \in M : MainParent[m] = PrevMain[b]} /\ M \subseteq MainBlock
  BY <1>1 DEF MainOf, MainForest, MainClosed
<1>6. ASSUME NEW m \in DOMAIN added
      PROVE  added[m] \in BmmResult /\ (added[m] = "Verified" <=> m \in CommittedAt[b])
  <2>1. m \in M /\ added[m] = Result(d, b, m)
    BY <1>5
  <2>2. Result(d, b, m) \in BmmResult
    BY DEF Result, BmmResult
  <2>3. Result(d, b, m) = "Verified" <=> m \in CommittedAt[b]
    BY <1>1, <2>1, ResultExact
  <2> QED
    BY <2>1, <2>2, <2>3
<1>7. BmmResults(d, b) = IF b \in H THEN d.bmm_results[b] ELSE << >>
  BY <1>1 DEF BmmResults, BmmExact
<1> HIDE DEF added
<1>8. BmmExact(H \cup {b}, M, c.bmm_results)
  <2> DEFINE old == BmmResults(d, b)
  <2>1. old = IF b \in H THEN d.bmm_results[b] ELSE << >>
    BY <1>7
  <2> HIDE DEF old, M, H
  <2>2. BmmExact(H \cup {b}, M, PutEntry(d.bmm_results, b, PutAll(old, added)))
    BY <1>1, <1>5, <1>6, <2>1, BmmExactSide
  <2> QED
    BY <1>2, <2>2 DEF old
<1>9. AInv(c)
  BY <1>1, <1>2, <1>3, <1>4, <1>8 DEF AInv
<1> QED
  BY <1>2, <1>9 DEF c

\* put_body.
LEMMA PutBodyKeeps ==
    ASSUME NEW d, AInv(d), NEW b \in d.headers
    PROVE  AInv([d EXCEPT !.bodies = @ \cup {b}])
<1> DEFINE c == [d EXCEPT !.bodies = @ \cup {b}]
<1>1. DOMAIN d = Databases
  BY DEF AInv
<1>2. /\ DOMAIN c = Databases /\ c.bodies = d.bodies \cup {b}
      /\ c.main_header_infos = d.main_header_infos /\ c.main_block_infos = d.main_block_infos
      /\ c.main_block_hash_to_height = d.main_block_hash_to_height
      /\ c.total_work = d.total_work /\ c.main_successors = d.main_successors
      /\ c.exponential_main_ancestors = d.exponential_main_ancestors
      /\ c.headers = d.headers /\ c.block_hash_to_height = d.block_hash_to_height
      /\ c.successors = d.successors /\ c.exponential_ancestors = d.exponential_ancestors
      /\ c.bmm_results = d.bmm_results
  BY <1>1 DEF Databases
<1> HIDE DEF c
<1>3. AInv(c)
  BY <1>2 DEF AInv, MainOf, SideOf
<1> QED
  BY <1>3 DEF c

-----------------------------------------------------------------------------
(***************************************************************************)
(* The steps.                                                              *)
(***************************************************************************)
LEMMA MissingIs ==
    ASSUME NEW S, NEW s \in Seq(S), NEW stored
    PROVE  /\ Missing(s, stored) \in 0..Len(s)
           /\ Missing(s, stored) < Len(s) => s[Missing(s, stored) + 1] \in stored
<1> DEFINE I == {i \in 1..Len(s) : s[i] \in stored}
           first == SelectInSeq(s, LAMBDA a : a \in stored)
<1>1. first = IF I # {} THEN Min(I) ELSE 0
  BY DEF SelectInSeq
<1>2. Len(s) \in Nat
  OBVIOUS
<1>3. CASE I = {}
  <2>1. Missing(s, stored) = Len(s)
    BY <1>1, <1>3 DEF Missing
  <2> QED
    BY <1>2, <2>1
<1>4. CASE I # {}
  <2>1. \E n \in I : \A m \in I : n <= m
    <3>1. I \in SUBSET Nat
      OBVIOUS
    <3> HIDE DEF I
    <3> QED
      BY <1>4, <3>1, NatMin
  <2>2. first \in I
    BY <1>1, <1>4, <2>1 DEF Min
  <2>3. first \in 1..Len(s) /\ s[first] \in stored
    BY <2>2
  <2>4. Missing(s, stored) = first - 1
    BY <2>3 DEF Missing
  <2> HIDE DEF first
  <2> QED
    BY <1>2, <2>3, <2>4
<1> QED
  BY <1>3, <1>4

\* The rounds of request_ancestor_infos.
IsPutMain(f, d, s, missing, j) ==
    f = [i \in 0..j |-> IF i = 0 THEN d ELSE PutMain(f[i - 1], s[missing + 1 - i])]

\* The rounds of the net task's loop over the headers of a response.
IsPutHeader(f, d, s, missing, j) ==
    f = [i \in 0..j |-> IF i = 0 THEN d ELSE PutHeader(f[i - 1], s[missing + 1 - i])]

LEMMA PutMainExists ==
    ASSUME NEW d, NEW s, NEW missing
    PROVE  \A j \in Nat : \E f : IsPutMain(f, d, s, missing, j)
<1> DEFINE Bad == {j \in Nat : ~\E f : IsPutMain(f, d, s, missing, j)}
<1>1. SUFFICES ASSUME Bad # {} PROVE FALSE
  OBVIOUS
<1>2. PICK j \in Bad : \A i \in Bad : j <= i
  BY <1>1, NatMin
<1>3. CASE j = 0
  <2> DEFINE f == [i \in 0..j |-> d]
  <2>1. IsPutMain(f, d, s, missing, j)
    BY <1>3 DEF IsPutMain
  <2> QED
    BY <1>2, <2>1
<1>4. CASE j # 0
  <2>1. j \in Nat /\ j - 1 \in Nat /\ j - 1 \notin Bad
    BY <1>2, <1>4
  <2>2. PICK g : IsPutMain(g, d, s, missing, j - 1)
    BY <2>1
  <2> DEFINE f == [i \in 0..j |-> IF i = j THEN PutMain(g[j - 1], s[missing + 1 - j]) ELSE g[i]]
             rhs == [i \in 0..j |-> IF i = 0 THEN d
                                    ELSE PutMain(f[i - 1], s[missing + 1 - i])]
  <2>3. \A i \in 0..(j - 1) : g[i] = IF i = 0 THEN d
                                     ELSE PutMain(g[i - 1], s[missing + 1 - i])
    BY <2>2 DEF IsPutMain
  <2>4. \A i \in 0..(j - 1) : f[i] = g[i]
    BY <2>1
  <2>5. ASSUME NEW i \in 0..j PROVE f[i] = rhs[i]
    <3>1. CASE i = j
      <4>1. i # 0 /\ i - 1 = j - 1 /\ j - 1 \in 0..(j - 1) /\ f[i - 1] = g[j - 1]
        BY <2>1, <2>4, <3>1
      <4> QED
        BY <3>1, <4>1
    <3>2. CASE i # j
      <4>1. i \in 0..(j - 1) /\ (i # 0 => i - 1 \in 0..(j - 1))
        BY <2>1, <3>2
      <4>2. f[i] = g[i] /\ (i # 0 => f[i - 1] = g[i - 1])
        BY <2>4, <4>1
      <4> HIDE DEF f
      <4> QED
        BY <2>3, <4>1, <4>2
    <3> QED
      BY <3>1, <3>2
  <2>6. f = rhs
    BY <2>5
  <2>7. IsPutMain(f, d, s, missing, j)
    BY <2>6 DEF IsPutMain
  <2> QED
    BY <1>2, <2>7
<1> QED
  BY <1>3, <1>4

LEMMA PutHeaderExists ==
    ASSUME NEW d, NEW s, NEW missing
    PROVE  \A j \in Nat : \E f : IsPutHeader(f, d, s, missing, j)
<1> DEFINE Bad == {j \in Nat : ~\E f : IsPutHeader(f, d, s, missing, j)}
<1>1. SUFFICES ASSUME Bad # {} PROVE FALSE
  OBVIOUS
<1>2. PICK j \in Bad : \A i \in Bad : j <= i
  BY <1>1, NatMin
<1>3. CASE j = 0
  <2> DEFINE f == [i \in 0..j |-> d]
  <2>1. IsPutHeader(f, d, s, missing, j)
    BY <1>3 DEF IsPutHeader
  <2> QED
    BY <1>2, <2>1
<1>4. CASE j # 0
  <2>1. j \in Nat /\ j - 1 \in Nat /\ j - 1 \notin Bad
    BY <1>2, <1>4
  <2>2. PICK g : IsPutHeader(g, d, s, missing, j - 1)
    BY <2>1
  <2> DEFINE f == [i \in 0..j |-> IF i = j THEN PutHeader(g[j - 1], s[missing + 1 - j]) ELSE g[i]]
             rhs == [i \in 0..j |-> IF i = 0 THEN d
                                    ELSE PutHeader(f[i - 1], s[missing + 1 - i])]
  <2>3. \A i \in 0..(j - 1) : g[i] = IF i = 0 THEN d
                                     ELSE PutHeader(g[i - 1], s[missing + 1 - i])
    BY <2>2 DEF IsPutHeader
  <2>4. \A i \in 0..(j - 1) : f[i] = g[i]
    BY <2>1
  <2>5. ASSUME NEW i \in 0..j PROVE f[i] = rhs[i]
    <3>1. CASE i = j
      <4>1. i # 0 /\ i - 1 = j - 1 /\ j - 1 \in 0..(j - 1) /\ f[i - 1] = g[j - 1]
        BY <2>1, <2>4, <3>1
      <4> QED
        BY <3>1, <4>1
    <3>2. CASE i # j
      <4>1. i \in 0..(j - 1) /\ (i # 0 => i - 1 \in 0..(j - 1))
        BY <2>1, <3>2
      <4>2. f[i] = g[i] /\ (i # 0 => f[i - 1] = g[i - 1])
        BY <2>4, <4>1
      <4> HIDE DEF f
      <4> QED
        BY <2>3, <4>1, <4>2
    <3> QED
      BY <3>1, <3>2
  <2>6. f = rhs
    BY <2>5
  <2>7. IsPutHeader(f, d, s, missing, j)
    BY <2>6 DEF IsPutHeader
  <2> QED
    BY <1>2, <2>7
<1> QED
  BY <1>3, <1>4

\* The parent of an ancestor is the next ancestor.
LEMMA ParentAt ==
    ASSUME NEW S, NEW parent, NEW up, Lineage(S, parent, up), NEW b \in S,
           NEW i \in 1..Len(up[b]), i < Len(up[b])
    PROVE  parent[up[b][i]] = up[b][i + 1]
<1> DEFINE x == up[b][i]
           q == parent[x]
<1>1. /\ x \in S /\ Len(up[x]) = Len(up[b]) - i + 1
      /\ \A k \in Nat : i + k <= Len(up[b]) => up[x][k + 1] = up[b][i + k]
  <2>1. FromIth(S, up, b, i)
    BY RestAt
  <2> QED
    BY <2>1 DEF FromIth
<1>2. Len(up[b]) \in Nat
  BY UpLen
<1>3. Len(up[x]) > 1 /\ up[x][1 + 1] = up[b][i + 1]
  BY <1>1, <1>2
<1> HIDE DEF x
<1>4. q \in S /\ Len(up[x]) = Len(up[q]) + 1 /\ \A k \in 1..Len(up[q]) : up[x][k + 1] = up[q][k]
  BY <1>1, <1>3 DEF Lineage
<1>5. Len(up[q]) \in Nat \ {0} /\ up[q][1] = q
  BY <1>4, UpLen
<1>6. 1 \in 1..Len(up[q])
  BY <1>5
<1>7. up[x][1 + 1] = q
  BY <1>4, <1>5, <1>6
<1> QED
  BY <1>3, <1>7 DEF x

LEMMA MainNext ==
    ASSUME NEW m \in MainBlock, NEW i \in 1..Len(MainAncestors[m])
    PROVE  /\ MainAncestors[m][i] \in MainBlock
           /\ MainParent[MainAncestors[m][i]] =
                 IF i < Len(MainAncestors[m]) THEN MainAncestors[m][i + 1] ELSE Zero
<1> DEFINE s == MainAncestors[m]
           t == MainUp[m]
<1>1. MainClosed(MainBlock)
  BY LineageAssumption DEF MainClosed
<1>2. Lineage(MainBlock \cup {Zero}, MainParent, MainUp)
  BY <1>1, MainLineage
<1>3. s \in Seq(MainBlock) /\ MainUp[m] = Append(s, Zero)
  BY LineageAssumption DEF MainUp
<1>4. /\ Len(t) = Len(s) + 1 /\ Len(s) \in Nat
      /\ \A k \in 1..Len(s) : t[k] = s[k] /\ s[k] \in MainBlock
      /\ t[Len(s) + 1] = Zero
  <2> HIDE DEF s
  <2> QED
    BY <1>3, AppendProperties
<1>5. i \in 1..Len(MainUp[m]) /\ i < Len(MainUp[m])
  BY <1>4
<1>6. MainParent[MainUp[m][i]] = MainUp[m][i + 1]
  BY <1>2, <1>5, ParentAt
<1>7. i < Len(s) => i + 1 \in 1..Len(s)
  BY <1>4
<1>8. ~(i < Len(s)) => i = Len(s)
  BY <1>4
<1> QED
  BY <1>4, <1>6, <1>7, <1>8

LEMMA SideNext ==
    ASSUME NEW b \in SideBlock, NEW i \in 1..Len(Ancestors[b])
    PROVE  /\ Ancestors[b][i] \in SideBlock
           /\ PrevSide[Ancestors[b][i]] =
                 IF i < Len(Ancestors[b]) THEN Ancestors[b][i + 1] ELSE NoBlock
<1> DEFINE s == Ancestors[b]
<1>1. SideClosed(SideBlock)
  BY LineageAssumption DEF SideClosed
<1>2. Lineage(SideBlock, PrevSide, Ancestors)
  BY <1>1, SideLineage
<1>3. s \in Seq(SideBlock) /\ s[i] \in SideBlock
  BY LineageAssumption
<1>4. i < Len(s) => PrevSide[s[i]] = s[i + 1]
  BY <1>2, ParentAt
<1>5. ASSUME ~(i < Len(s)) PROVE PrevSide[s[i]] = NoBlock
  <2> DEFINE x == s[i]
  <2>1. i = Len(s)
    BY <1>3, <1>5
  <2>2. FromIth(SideBlock, Ancestors, b, i)
    BY <1>2, RestAt
  <2>3. Len(Ancestors[x]) = Len(s) - i + 1
    BY <2>2 DEF FromIth
  <2>4. Len(Ancestors[x]) = 1
    BY <1>3, <2>1, <2>3
  <2> HIDE DEF x
  <2>5. x \in SideBlock
    BY <1>3 DEF x
  <2>6. /\ PrevSide[x] \in SideBlock \cup {NoBlock} /\ Len(Ancestors[PrevSide[x]]) \in Nat
        /\ Len(Ancestors[x]) = Len(Ancestors[PrevSide[x]]) + 1
    BY <2>5, SideLine
  <2>7. PrevSide[x] \in SideBlock => Len(Ancestors[PrevSide[x]]) >= 1
    <3> SUFFICES ASSUME PrevSide[x] \in SideBlock PROVE Len(Ancestors[PrevSide[x]]) >= 1
      OBVIOUS
    <3> DEFINE y == PrevSide[x]
    <3>1. Len(Ancestors[y]) = Len(Ancestors[PrevSide[y]]) + 1 /\ Len(Ancestors[PrevSide[y]]) \in Nat
      BY SideLine
    <3> QED
      BY <3>1
  <2>8. Len(Ancestors[PrevSide[x]]) = 0
    <3> DEFINE l == Len(Ancestors[PrevSide[x]])
    <3>1. l \in Nat /\ 1 = l + 1
      BY <2>4, <2>6
    <3> HIDE DEF l
    <3>2. l = 0
      BY <3>1
    <3> QED
      BY <3>2 DEF l
  <2>9. PrevSide[x] = NoBlock
    BY <2>6, <2>7, <2>8
  <2> QED
    BY <2>9 DEF x
<1> QED
  BY <1>3, <1>4, <1>5

\* The missing ancestors, the oldest first, each have their parent stored.
LEMMA PutMainAll ==
    ASSUME NEW d, AInv(d), NEW m \in MainBlock, NEW missing \in Nat,
           missing <= Len(MainAncestors[m]),
           missing < Len(MainAncestors[m]) => MainAncestors[m][missing + 1] \in d.main_header_infos,
           NEW f, IsPutMain(f, d, MainAncestors[m], missing, missing)
    PROVE  AInv(f[missing])
<1> DEFINE s == MainAncestors[m]
           Good(i) == /\ AInv(f[i])
                      /\ i = 0 => f[i].main_header_infos = d.main_header_infos
                      /\ i # 0 => s[missing + 1 - i] \in f[i].main_header_infos
           Bad == {i \in 0..missing : ~Good(i)}
<1>1. f[0] = d /\ \A i \in 1..missing : f[i] = PutMain(f[i - 1], s[missing + 1 - i])
  BY DEF IsPutMain
<1>2. Len(s) \in Nat
  BY MainLine
<1>3. Good(0)
  BY <1>1
<1>4. ASSUME NEW i \in 1..missing, Good(i - 1) PROVE Good(i)
  <2> DEFINE k == missing + 1 - i
             c == f[i - 1]
  <2>1. k \in 1..Len(s) /\ i # 0 /\ k + 1 = missing + 1 - (i - 1) /\ (i = 1 => k = missing)
    BY <1>2
  <2>2. s[k] \in MainBlock /\ MainParent[s[k]] = IF k < Len(s) THEN s[k + 1] ELSE Zero
    BY <2>1, MainNext
  <2>3. k < Len(s) => s[k + 1] \in c.main_header_infos
    <3>1. CASE i = 1
      BY <1>1, <2>1, <3>1
    <3>2. CASE i # 1
      <4>1. i - 1 # 0
        BY <3>2
      <4> QED
        BY <1>4, <2>1, <4>1
    <3> QED
      BY <3>1, <3>2
  <2>4. f[i] = PutMain(c, s[k])
    BY <1>1
  <2>5. AInv(c) /\ MainParent[s[k]] \in c.main_header_infos \cup {Zero}
    BY <1>4, <2>2, <2>3
  <2> HIDE DEF k, c
  <2>6. AInv(PutMain(c, s[k])) /\ PutMain(c, s[k]).main_header_infos = c.main_header_infos \cup {s[k]}
    BY <2>2, <2>5, PutMainKeeps
  <2> QED
    BY <2>1, <2>4, <2>6 DEF k
<1> HIDE DEF Good
<1>5. Bad = {}
  <2> SUFFICES ASSUME Bad # {} PROVE FALSE
    OBVIOUS
  <2>1. PICK i \in Bad : \A j \in Bad : i <= j
    <3>1. Bad \in SUBSET Nat
      OBVIOUS
    <3> HIDE DEF Bad
    <3> QED
      BY <3>1, NatMin
  <2>2. i # 0 /\ i \in 1..missing
    BY <1>3, <2>1
  <2>3. i - 1 \in 0..missing /\ i - 1 \notin Bad
    BY <2>1, <2>2
  <2> QED
    BY <1>4, <2>1, <2>2, <2>3
<1>6. Good(missing)
  BY <1>5
<1> QED
  BY <1>6 DEF Good

LEMMA PutHeaderAll ==
    ASSUME NEW d, AInv(d), NEW b \in SideBlock, NEW missing \in Nat,
           missing <= Len(Ancestors[b]),
           missing < Len(Ancestors[b]) => Ancestors[b][missing + 1] \in d.headers,
           \A i \in 1..missing : PrevMain[Ancestors[b][i]] \in d.main_header_infos \cup {Zero},
           NEW f, IsPutHeader(f, d, Ancestors[b], missing, missing)
    PROVE  AInv(f[missing])
<1> DEFINE s == Ancestors[b]
           Good(i) == /\ AInv(f[i]) /\ f[i].main_header_infos = d.main_header_infos
                      /\ i = 0 => f[i].headers = d.headers
                      /\ i # 0 => s[missing + 1 - i] \in f[i].headers
           Bad == {i \in 0..missing : ~Good(i)}
<1>1. f[0] = d /\ \A i \in 1..missing : f[i] = PutHeader(f[i - 1], s[missing + 1 - i])
  BY DEF IsPutHeader
<1>2. Len(s) \in Nat
  BY SideLine
<1>3. Good(0)
  BY <1>1
<1>4. ASSUME NEW i \in 1..missing, Good(i - 1) PROVE Good(i)
  <2> DEFINE k == missing + 1 - i
             c == f[i - 1]
  <2>1. /\ k \in 1..Len(s) /\ k \in 1..missing /\ i # 0
        /\ k + 1 = missing + 1 - (i - 1) /\ (i = 1 => k = missing)
    BY <1>2
  <2>2. s[k] \in SideBlock /\ PrevSide[s[k]] = IF k < Len(s) THEN s[k + 1] ELSE NoBlock
    BY <2>1, SideNext
  <2>3. k < Len(s) => s[k + 1] \in c.headers
    <3>1. CASE i = 1
      BY <1>1, <2>1, <3>1
    <3>2. CASE i # 1
      <4>1. i - 1 # 0
        BY <3>2
      <4> QED
        BY <1>4, <2>1, <4>1
    <3> QED
      BY <3>1, <3>2
  <2>4. f[i] = PutHeader(c, s[k])
    BY <1>1
  <2>5. /\ AInv(c) /\ PrevSide[s[k]] \in c.headers \cup {NoBlock}
        /\ c.main_header_infos = d.main_header_infos
        /\ PrevMain[s[k]] \in c.main_header_infos \cup {Zero}
    BY <1>4, <2>1, <2>2, <2>3
  <2> HIDE DEF k, c
  <2>6. /\ AInv(PutHeader(c, s[k])) /\ PutHeader(c, s[k]).headers = c.headers \cup {s[k]}
        /\ PutHeader(c, s[k]).main_header_infos = c.main_header_infos
    BY <2>2, <2>5, PutHeaderKeeps
  <2> QED
    BY <2>1, <2>4, <2>5, <2>6 DEF k
<1> HIDE DEF Good
<1>5. Bad = {}
  <2> SUFFICES ASSUME Bad # {} PROVE FALSE
    OBVIOUS
  <2>1. PICK i \in Bad : \A j \in Bad : i <= j
    <3>1. Bad \in SUBSET Nat
      OBVIOUS
    <3> HIDE DEF Bad
    <3> QED
      BY <3>1, NatMin
  <2>2. i # 0 /\ i \in 1..missing
    BY <1>3, <2>1
  <2>3. i - 1 \in 0..missing /\ i - 1 \notin Bad
    BY <2>1, <2>2
  <2> QED
    BY <1>4, <2>1, <2>2, <2>3
<1>6. Good(missing)
  BY <1>5
<1> QED
  BY <1>6 DEF Good

LEMMA AInvInit ==
    ArchiveInit => AInv(archive)
<1> SUFFICES ASSUME ArchiveInit PROVE AInv(archive)
  OBVIOUS
<1> DEFINE d == archive
<1>1. /\ DOMAIN d = Databases
      /\ d.main_header_infos = {} /\ d.main_block_infos = {}
      /\ d.main_block_hash_to_height = << >> /\ d.total_work = << >>
      /\ d.main_successors = [m \in {Zero} |-> {}]
      /\ d.exponential_main_ancestors = << >>
      /\ d.headers = {} /\ d.bodies = {} /\ d.block_hash_to_height = << >>
      /\ d.successors = [b \in {NoBlock} |-> {}]
      /\ d.exponential_ancestors = << >> /\ d.bmm_results = << >>
  BY DEF ArchiveInit, Databases
<1>2. \A g : << >> = [x \in {} |-> g[x]] /\ DOMAIN << >> = {}
  OBVIOUS
<1>3. MainOf(d)
  <2>1. MainClosed({})
    BY DEF MainClosed
  <2>2. Len(MainUp[Zero]) = 1
    <3>1. MainUp[Zero] = Append(<< >>, Zero)
      BY LineageAssumption DEF MainUp
    <3> QED
      BY <3>1
  <2>3. \A i \in Nat \ {0} : ~(2^i < 1)
    <3> SUFFICES ASSUME NEW i \in Nat \ {0} PROVE ~(2^i < 1)
      OBVIOUS
    <3> DEFINE r == 2^i
    <3>1. r \in Nat /\ r >= i + 1
      BY TwoPower, PowerGrows
    <3> HIDE DEF r
    <3>2. ~(r < 1)
      BY <3>1
    <3> QED
      BY <3>2 DEF r
  <2>4. Vectors({} \cup {Zero}, << >>, MainUp)
    BY <2>2, <2>3 DEF Vectors
  <2>5. << >> \in [{} -> Nat]
    OBVIOUS
  <2>6. << >> = [m \in {} |-> Len(MainAncestors[m])]
    OBVIOUS
  <2>7. [m \in {Zero} |-> {}] = [m \in {} \cup {Zero} |-> {c \in {} : MainParent[c] = m}]
    OBVIOUS
  <2> QED
    BY <1>1, <1>2, <2>1, <2>4, <2>5, <2>6, <2>7 DEF MainOf, MainForest
<1>4. SideOf(d)
  <2>1. SideClosed({})
    BY DEF SideClosed
  <2>2. Vectors({}, << >>, Ancestors)
    BY DEF Vectors
  <2>3. << >> = [b \in {} |-> Len(Ancestors[b]) - 1]
    OBVIOUS
  <2>4. [b \in {NoBlock} |-> {}] = [b \in {} \cup {NoBlock} |-> {c \in {} : PrevSide[c] = b}]
    OBVIOUS
  <2> QED
    BY <1>1, <1>2, <2>1, <2>2, <2>3, <2>4 DEF SideOf, SideForest
<1>5. BmmExact({}, {}, << >>)
  BY <1>2 DEF BmmExact
<1> QED
  BY <1>1, <1>3, <1>4, <1>5 DEF AInv

\* The mainchain parent is known if it is stored.
LEMMA KnownIs ==
    ASSUME AInv(archive), NEW b \in SideBlock, MainParentKnown(b)
    PROVE  PrevMain[b] \in archive.main_header_infos \cup {Zero}
  BY DEF AInv, MainOf, MainForest, MainParentKnown

LEMMA AInvNext ==
    AInv(archive) /\ [ArchiveNext]_archive => AInv(archive)'
<1> SUFFICES ASSUME AInv(archive), [ArchiveNext]_archive PROVE AInv(archive')
  OBVIOUS
<1>1. ASSUME NEW m \in MainBlock, RequestAncestorInfos(m) PROVE AInv(archive')
  <2> DEFINE s == MainAncestors[m]
             missing == Missing(s, archive.main_header_infos)
             f == CHOOSE f : IsPutMain(f, archive, s, missing, missing)
  <2>1. archive' = f[missing]
    BY <1>1 DEF RequestAncestorInfos, IsPutMain
  <2>2. s \in Seq(MainBlock)
    BY LineageAssumption
  <2>3. missing \in 0..Len(s) /\ (missing < Len(s) => s[missing + 1] \in archive.main_header_infos)
    BY <2>2, MissingIs
  <2> HIDE DEF missing
  <2>4. missing \in Nat /\ missing <= Len(s)
    BY <2>2, <2>3
  <2>5. IsPutMain(f, archive, s, missing, missing)
    BY <2>4, PutMainExists
  <2> HIDE DEF f
  <2> QED
    BY <2>1, <2>3, <2>4, <2>5, PutMainAll
<1>2. ASSUME NEW b \in SideBlock, StoreHeaders(b) PROVE AInv(archive')
  <2> DEFINE s == Ancestors[b]
             missing == Missing(s, archive.headers)
             f == CHOOSE f : IsPutHeader(f, archive, s, missing, missing)
  <2>1. archive' = f[missing] /\ \A i \in 1..missing : MainParentKnown(s[i])
    BY <1>2 DEF StoreHeaders, IsPutHeader
  <2>2. s \in Seq(SideBlock)
    BY LineageAssumption
  <2>3. missing \in 0..Len(s) /\ (missing < Len(s) => s[missing + 1] \in archive.headers)
    BY <2>2, MissingIs
  <2> HIDE DEF missing
  <2>4. missing \in Nat /\ missing <= Len(s) /\ \A i \in 1..missing : s[i] \in SideBlock
    BY <2>2, <2>3
  <2>5. IsPutHeader(f, archive, s, missing, missing)
    BY <2>4, PutHeaderExists
  <2> HIDE DEF f
  <2>6. \A i \in 1..missing : PrevMain[s[i]] \in archive.main_header_infos \cup {Zero}
    BY <2>1, <2>4, KnownIs
  <2> QED
    BY <2>1, <2>3, <2>4, <2>5, <2>6, PutHeaderAll
<1>3. ASSUME NEW b \in SideBlock, SubmitHeader(b) PROVE AInv(archive')
  <2>1. PrevSide[b] \in archive.headers \cup {NoBlock} /\ archive' = PutHeader(archive, b)
    BY <1>3 DEF SubmitHeader
  <2>2. PrevMain[b] \in archive.main_header_infos \cup {Zero}
    BY <1>3, KnownIs DEF SubmitHeader
  <2> QED
    BY <2>1, <2>2, PutHeaderKeeps
<1>4. ASSUME NEW b \in SideBlock, StoreBody(b) PROVE AInv(archive')
  BY <1>4, PutBodyKeeps DEF StoreBody
<1>5. CASE UNCHANGED archive
  BY <1>5
<1> QED
  BY <1>1, <1>2, <1>3, <1>4, <1>5 DEF ArchiveNext

\* Every order of headers, bodies and mainchain blocks keeps the heights, the
\* work, the skip lists, the successors and the results of both forests exact.
THEOREM ArchiveInvariant ==
    ArchiveSpec => []AInv(archive)
<1>1. AInv(archive) /\ [ArchiveNext]_archive => AInv(archive)'
  BY AInvNext
<1> QED
  BY <1>1, AInvInit, PTL DEF ArchiveSpec

-----------------------------------------------------------------------------
(***************************************************************************)
(* The searches for the last common ancestor.                              *)
(***************************************************************************)
\* What the two searches have in common: the result of the search, if any.
IsCommon(e, parent, b0, b1, height0, height1, h, low0, low1, agree, result) ==
    /\ h = IF height0 < height1 THEN height0 ELSE height1
    /\ low0 = NthIn(e, parent, b0, height0 - h)
    /\ low1 = NthIn(e, parent, b1, height1 - h)
    /\ agree = {n \in 0..h : NthIn(e, parent, low0, n) = NthIn(e, parent, low1, n)}
    /\ result = IF low0 = low1 THEN low0 ELSE NthIn(e, parent, low0, Search(agree, h))

IsShared(up, b0, b1, x) == \E i : IsNewest(up, b0, b1, i) /\ x = up[b0][i]

CommonFound(up, b0, b1, h, low0, low1, agree, result) ==
    /\ low0 = low1 \/ h \in agree => IsShared(up, b0, b1, result)
    /\ ~(low0 = low1 \/ h \in agree) =>
          \A i \in 1..Len(up[b0]), j \in 1..Len(up[b1]) : up[b0][i] # up[b1][j]
    /\ up[b0][Len(up[b0])] = up[b1][Len(up[b1])] => h \in agree

\* The lower of two heights.
IsLower(l0, l1, height0, height1, h) ==
    /\ h \in Nat /\ h < l0 /\ h < l1 /\ (h + 1 = l0 \/ h + 1 = l1)
    /\ height0 - h \in Nat /\ height0 - h < l0 /\ (height0 - h) + 1 = l0 - h
    /\ height1 - h \in Nat /\ height1 - h < l1 /\ (height1 - h) + 1 = l1 - h

LEMMA LowerHeight ==
    ASSUME NEW l0 \in Nat \ {0}, NEW l1 \in Nat \ {0}, NEW height0, height0 = l0 - 1,
           NEW height1, height1 = l1 - 1, NEW h, h = IF height0 < height1 THEN height0 ELSE height1
    PROVE  IsLower(l0, l1, height0, height1, h)
  BY DEF IsLower

LEMMA CommonIs ==
    ASSUME NEW S, NEW parent, NEW up, NEW e, Lineage(S, parent, up), Vectors(S, e, up),
           NEW b0 \in S, NEW b1 \in S, NEW height0, height0 = Len(up[b0]) - 1,
           NEW height1, height1 = Len(up[b1]) - 1, NEW h, NEW low0, NEW low1, NEW agree, NEW result,
           IsCommon(e, parent, b0, b1, height0, height1, h, low0, low1, agree, result)
    PROVE  CommonFound(up, b0, b1, h, low0, low1, agree, result)
<1> DEFINE l0 == Len(up[b0])
           l1 == Len(up[b1])
<1>1. l0 \in Nat \ {0} /\ l1 \in Nat \ {0}
  BY UpLen
<1>2. /\ h = IF height0 < height1 THEN height0 ELSE height1
      /\ low0 = NthIn(e, parent, b0, height0 - h)
      /\ low1 = NthIn(e, parent, b1, height1 - h)
      /\ agree = {n \in 0..h : NthIn(e, parent, low0, n) = NthIn(e, parent, low1, n)}
      /\ result = IF low0 = low1 THEN low0 ELSE NthIn(e, parent, low0, Search(agree, h))
  BY DEF IsCommon
<1>3. /\ height0 = l0 - 1 /\ height1 = l1 - 1
  OBVIOUS
<1>4. /\ h \in Nat /\ h < l0 /\ h < l1 /\ (h + 1 = l0 \/ h + 1 = l1)
      /\ height0 - h \in Nat /\ height0 - h < l0 /\ (height0 - h) + 1 = l0 - h
      /\ height1 - h \in Nat /\ height1 - h < l1 /\ (height1 - h) + 1 = l1 - h
  <2>1. h = IF height0 < height1 THEN height0 ELSE height1
    BY <1>2
  <2> HIDE DEF l0, l1
  <2>2. IsLower(l0, l1, height0, height1, h)
    BY <1>1, <1>3, <2>1, LowerHeight
  <2> QED
    BY <2>2 DEF IsLower
<1>5. low0 = Level(up, b0, h)
  <2> DEFINE n == height0 - h
  <2>1. n \in Nat /\ n < Len(up[b0]) /\ n + 1 = Len(up[b0]) - h /\ low0 = NthIn(e, parent, b0, n)
    BY <1>2, <1>4
  <2> HIDE DEF n
  <2>2. low0 = up[b0][n + 1]
    BY <2>1, NthIs
  <2> QED
    BY <2>1, <2>2 DEF Level
<1>6. low1 = Level(up, b1, h)
  <2> DEFINE n == height1 - h
  <2>1. n \in Nat /\ n < Len(up[b1]) /\ n + 1 = Len(up[b1]) - h /\ low1 = NthIn(e, parent, b1, n)
    BY <1>2, <1>4
  <2> HIDE DEF n
  <2>2. low1 = up[b1][n + 1]
    BY <2>1, NthIs
  <2> QED
    BY <2>1, <2>2 DEF Level
<1>7. low0 \in S /\ low1 \in S /\ Len(up[low0]) = h + 1 /\ Len(up[low1]) = h + 1
  <2>1. h < Len(up[b0]) /\ h < Len(up[b1]) /\ h \in Nat
    BY <1>4
  <2>2. Level(up, b0, h) \in S /\ Len(up[Level(up, b0, h)]) = h + 1
    BY <2>1, LevelIs
  <2>3. Level(up, b1, h) \in S /\ Len(up[Level(up, b1, h)]) = h + 1
    BY <2>1, LevelIs
  <2> QED
    BY <1>5, <1>6, <2>2, <2>3
<1>8. ASSUME NEW n \in 0..h
      PROVE  NthIn(e, parent, low0, n) = up[low0][n + 1] /\ NthIn(e, parent, low1, n) = up[low1][n + 1]
  <2>1. n \in Nat /\ n < h + 1
    BY <1>4
  <2> QED
    BY <1>7, <2>1, NthIs
<1>9. agree = Agree(up, low0, low1, h)
  <2>1. \A n \in 0..h : NthIn(e, parent, low0, n) = NthIn(e, parent, low1, n)
                            <=> up[low0][n + 1] = up[low1][n + 1]
    BY <1>8
  <2>2. agree = {n \in 0..h : NthIn(e, parent, low0, n) = NthIn(e, parent, low1, n)}
    BY <1>2
  <2> QED
    BY <2>1, <2>2 DEF Agree
<1>10. /\ low0 = low1 => IsNewest(up, b0, b1, l0 - h)
       /\ low0 # low1 /\ h \in agree =>
             /\ h # 0 /\ Search(agree, h) \in 1..h
             /\ up[low0][Search(agree, h) + 1] = up[b0][l0 - h + Search(agree, h)]
             /\ IsNewest(up, b0, b1, l0 - h + Search(agree, h))
       /\ h \notin agree => \A i \in 1..l0, j \in 1..l1 : up[b0][i] # up[b1][j]
  <2>1. NewestFound(up, b0, b1, h, low0, low1, agree)
    BY <1>4, <1>5, <1>6, <1>9, NewestIs
  <2> QED
    BY <2>1 DEF NewestFound
<1>11. low0 = low1 => IsShared(up, b0, b1, result)
  <2> SUFFICES ASSUME low0 = low1 PROVE IsShared(up, b0, b1, result)
    OBVIOUS
  <2>1. result = up[b0][l0 - h]
    BY <1>2, <1>5 DEF Level
  <2> QED
    BY <1>10, <2>1 DEF IsShared
<1>12. low0 # low1 /\ h \in agree => IsShared(up, b0, b1, result)
  <2> SUFFICES ASSUME low0 # low1, h \in agree PROVE IsShared(up, b0, b1, result)
    OBVIOUS
  <2> DEFINE n == Search(agree, h)
             i == l0 - h + n
  <2>1. n \in 1..h /\ up[low0][n + 1] = up[b0][i] /\ IsNewest(up, b0, b1, i)
    BY <1>10
  <2> HIDE DEF i
  <2>2. result = NthIn(e, parent, low0, n)
    BY <1>2
  <2> HIDE DEF n
  <2>3. n \in 0..h
    BY <2>1
  <2>4. result = up[b0][i]
    BY <1>8, <2>1, <2>2, <2>3
  <2> QED
    BY <2>1, <2>4 DEF IsShared
<1>13. up[b0][l0] = up[b1][l1] => h \in agree
  <2> SUFFICES ASSUME up[b0][l0] = up[b1][l1] PROVE h \in agree
    OBVIOUS
  <2> HIDE DEF l0, l1
  <2>1. l0 \in 1..l0 /\ l1 \in 1..l1
    BY <1>1
  <2> QED
    BY <1>10, <2>1
<1> QED
  BY <1>10, <1>11, <1>12, <1>13 DEF CommonFound

\* The first element of a sequence that passes a test.
LEMMA NewestSelects ==
    ASSUME NEW S, NEW s \in Seq(S), NEW t, NEW none
    PROVE  /\ \A i \in 1..Len(s) : s[i] \in Range(t) /\ (\A k \in 1..(i - 1) : s[k] \notin Range(t))
                 => Newest(s, t, none) = s[i]
           /\ (\A i \in 1..Len(s) : s[i] \notin Range(t)) => Newest(s, t, none) = none
<1> DEFINE I == {i \in 1..Len(s) : s[i] \in Range(t)}
           first == SelectInSeq(s, LAMBDA a : a \in Range(t))
<1>1. first = IF I # {} THEN Min(I) ELSE 0
  BY DEF SelectInSeq
<1>2. Newest(s, t, none) = IF first = 0 THEN none ELSE s[first]
  BY DEF Newest
<1> HIDE DEF first
<1>3. ASSUME NEW i \in 1..Len(s), s[i] \in Range(t), \A k \in 1..(i - 1) : s[k] \notin Range(t)
      PROVE  Newest(s, t, none) = s[i]
  <2>1. i \in I /\ \A k \in I : i <= k
    BY <1>3
  <2>2. I \subseteq Nat
    OBVIOUS
  <2> HIDE DEF I
  <2>3. Min(I) = i
    <3>1. \A x \in I : (\A y \in I : x <= y) => x = i
      BY <2>1, <2>2
    <3> QED
      BY <2>1, <3>1 DEF Min
  <2> QED
    BY <1>1, <1>2, <2>1, <2>3
<1>4. (\A i \in 1..Len(s) : s[i] \notin Range(t)) => Newest(s, t, none) = none
  BY <1>1, <1>2
<1> QED
  BY <1>3, <1>4

LEMMA SideCommon ==
    ASSUME NEW d, SideOf(d), NEW b0 \in d.headers, NEW b1 \in d.headers
    PROVE  LastCommonAncestor(d, b0, b1) = Newest(Ancestors[b0], Ancestors[b1], NoBlock)
<1> DEFINE S == d.headers
           e == d.exponential_ancestors
           height0 == d.block_hash_to_height[b0]
           height1 == d.block_hash_to_height[b1]
           h == IF height0 < height1 THEN height0 ELSE height1
           low0 == NthIn(e, PrevSide, b0, height0 - h)
           low1 == NthIn(e, PrevSide, b1, height1 - h)
           agree == {n \in 0..h : NthIn(e, PrevSide, low0, n) = NthIn(e, PrevSide, low1, n)}
           result == IF low0 = low1 THEN low0 ELSE NthIn(e, PrevSide, low0, Search(agree, h))
           s0 == Ancestors[b0]
           s1 == Ancestors[b1]
<1>1. SideClosed(S) /\ Vectors(S, e, Ancestors)
  BY DEF SideOf, SideForest
<1>2. Lineage(S, PrevSide, Ancestors)
  BY <1>1, SideLineage
<1>3. height0 = Len(s0) - 1 /\ height1 = Len(s1) - 1
  BY SideLookup
<1>4. IsCommon(e, PrevSide, b0, b1, height0, height1, h, low0, low1, agree, result)
  BY DEF IsCommon
<1>5. LastCommonAncestor(d, b0, b1) = IF low0 = low1 \/ h \in agree THEN result ELSE NoBlock
  BY DEF LastCommonAncestor, NthAncestor
<1>6. s0 \in Seq(S) /\ s1 \in Seq(S)
  BY <1>1 DEF SideClosed
<1> HIDE DEF height0, height1, h, low0, low1, agree, result, S, e
<1>7. /\ low0 = low1 \/ h \in agree => IsShared(Ancestors, b0, b1, result)
      /\ ~(low0 = low1 \/ h \in agree) =>
            \A i \in 1..Len(s0), j \in 1..Len(s1) : s0[i] # s1[j]
  <2>1. CommonFound(Ancestors, b0, b1, h, low0, low1, agree, result)
    BY <1>1, <1>2, <1>3, <1>4, CommonIs DEF S
  <2> QED
    BY <2>1 DEF CommonFound
<1> HIDE DEF s0, s1
<1>8. \A x : x \in Range(s1) <=> \E j \in 1..Len(s1) : x = s1[j]
  BY <1>6 DEF Range
<1>9. CASE low0 = low1 \/ h \in agree
  <2>1. PICK i : IsNewest(Ancestors, b0, b1, i) /\ result = s0[i]
    BY <1>7, <1>9 DEF IsShared, s0
  <2>2. /\ i \in 1..Len(s0) /\ \E j \in 1..Len(s1) : s0[i] = s1[j]
        /\ \A k \in 1..(i - 1) : \A j \in 1..Len(s1) : s0[k] # s1[j]
    BY <2>1 DEF IsNewest, s0, s1
  <2>3. s0[i] \in Range(s1) /\ \A k \in 1..(i - 1) : s0[k] \notin Range(s1)
    BY <1>8, <2>2
  <2>4. Newest(s0, s1, NoBlock) = s0[i]
    BY <1>6, <2>2, <2>3, NewestSelects
  <2> QED
    BY <1>5, <1>9, <2>1, <2>4 DEF s0, s1
<1>10. CASE ~(low0 = low1 \/ h \in agree)
  <2>1. \A i \in 1..Len(s0) : s0[i] \notin Range(s1)
    BY <1>7, <1>8, <1>10
  <2>2. Newest(s0, s1, NoBlock) = NoBlock
    BY <1>6, <2>1, NewestSelects
  <2> QED
    BY <1>5, <1>10, <2>2 DEF s0, s1
<1> QED
  BY <1>9, <1>10

LEMMA MainCommon ==
    ASSUME NEW d, MainOf(d),
           NEW b0 \in d.main_header_infos \cup {Zero}, NEW b1 \in d.main_header_infos \cup {Zero}
    PROVE  /\ IsShared(MainUp, b0, b1, LastCommonMainAncestor(d, b0, b1))
           /\ LastCommonMainAncestor(d, b0, b1) = Newest(MainAncestors[b0], MainAncestors[b1], Zero)
<1> DEFINE M == d.main_header_infos
           S == M \cup {Zero}
           e == d.exponential_main_ancestors
           height0 == MainHeight(d, b0)
           height1 == MainHeight(d, b1)
           h == IF height0 < height1 THEN height0 ELSE height1
           low0 == NthIn(e, MainParent, b0, height0 - h)
           low1 == NthIn(e, MainParent, b1, height1 - h)
           agree == {n \in 0..h : NthIn(e, MainParent, low0, n) = NthIn(e, MainParent, low1, n)}
           result == IF low0 = low1 THEN low0 ELSE NthIn(e, MainParent, low0, Search(agree, h))
           s0 == MainAncestors[b0]
           s1 == MainAncestors[b1]
           t0 == MainUp[b0]
           t1 == MainUp[b1]
<1>1. MainClosed(M) /\ Vectors(S, e, MainUp)
  BY DEF MainOf, MainForest
<1>2. Lineage(S, MainParent, MainUp)
  BY <1>1, MainLineage
<1>3. height0 = Len(t0) - 1 /\ height1 = Len(t1) - 1
  BY MainLookup
<1>4. IsCommon(e, MainParent, b0, b1, height0, height1, h, low0, low1, agree, result)
  BY DEF IsCommon
<1>5. LastCommonMainAncestor(d, b0, b1) = result
  BY DEF LastCommonMainAncestor, NthMainAncestor
<1>6. /\ s0 \in Seq(MainBlock) /\ s1 \in Seq(MainBlock) /\ t0 = Append(s0, Zero)
      /\ t1 = Append(s1, Zero) /\ Zero \notin MainBlock
      /\ b0 \in MainBlock \cup {Zero} /\ b1 \in MainBlock \cup {Zero}
  BY <1>1, LineageAssumption, BlockAssumption DEF MainUp, MainClosed
<1> HIDE DEF height0, height1, h, low0, low1, agree, result, S, e, s0, s1
<1>7. /\ Len(t0) = Len(s0) + 1 /\ Len(s0) \in Nat
      /\ \A i \in 1..Len(s0) : t0[i] = s0[i] /\ s0[i] # Zero
      /\ t0[Len(s0) + 1] = Zero
      /\ Len(t1) = Len(s1) + 1 /\ t1[Len(s1) + 1] = Zero
  <2> HIDE DEF t0, t1
  <2> QED
    BY <1>6, AppendProperties
<1>8. IsShared(MainUp, b0, b1, result)
  <2>1. MainUp[b0][Len(MainUp[b0])] = MainUp[b1][Len(MainUp[b1])]
    BY <1>7
  <2>2. CommonFound(MainUp, b0, b1, h, low0, low1, agree, result)
    BY <1>1, <1>2, <1>3, <1>4, CommonIs DEF S
  <2> QED
    BY <2>1, <2>2 DEF CommonFound
<1>9. PICK i : IsNewest(MainUp, b0, b1, i) /\ result = t0[i]
  BY <1>8 DEF IsShared
<1>10. /\ i \in 1..Len(t0) /\ InLine(MainUp, t0[i], b1)
       /\ \A k \in 1..(i - 1) : ~InLine(MainUp, t0[k], b1)
  BY <1>9 DEF IsNewest, InLine
<1>11. \A x : x \in Range(s1) <=> x # Zero /\ InLine(MainUp, x, b1)
  BY <1>6, MainRange DEF s1
<1> HIDE DEF t0, t1
<1>12. \A k \in 1..(i - 1) : k \in 1..Len(s0) /\ s0[k] \notin Range(s1)
  <2>1. \A k \in 1..(i - 1) : k \in 1..Len(s0)
    BY <1>7, <1>10
  <2> QED
    BY <1>7, <1>10, <1>11, <2>1
<1>13. CASE i \in 1..Len(s0)
  <2>1. s0[i] \in Range(s1)
    BY <1>7, <1>10, <1>11, <1>13
  <2>2. Newest(s0, s1, Zero) = s0[i]
    BY <1>6, <1>12, <1>13, <2>1, NewestSelects
  <2> QED
    BY <1>5, <1>7, <1>8, <1>9, <1>13, <2>2 DEF s0, s1
<1>14. CASE i = Len(s0) + 1
  <2>1. \A k \in 1..Len(s0) : s0[k] \notin Range(s1)
    BY <1>7, <1>12, <1>14
  <2>2. Newest(s0, s1, Zero) = Zero
    BY <1>6, <2>1, NewestSelects
  <2> QED
    BY <1>5, <1>7, <1>8, <1>9, <1>14, <2>2 DEF s0, s1
<1> QED
  BY <1>7, <1>10, <1>13, <1>14

-----------------------------------------------------------------------------
(***************************************************************************)
(* The order of tips.                                                      *)
(***************************************************************************)
LEMMA CommonSymmetric ==
    ASSUME NEW d, MainOf(d), NEW m0 \in d.main_header_infos, NEW m1 \in d.main_header_infos
    PROVE  /\ LastCommonMainAncestor(d, m0, m1) = LastCommonMainAncestor(d, m1, m0)
           /\ LastCommonMainAncestor(d, m0, m1) \in d.main_header_infos \cup {Zero}
<1> DEFINE S == d.main_header_infos \cup {Zero}
<1>1. Lineage(S, MainParent, MainUp)
  <2>1. MainClosed(d.main_header_infos)
    BY DEF MainOf, MainForest
  <2> QED
    BY <2>1, MainLineage
<1>2. PICK i : IsNewest(MainUp, m0, m1, i) /\ LastCommonMainAncestor(d, m0, m1) = MainUp[m0][i]
  BY MainCommon DEF IsShared
<1>3. PICK j : IsNewest(MainUp, m1, m0, j) /\ LastCommonMainAncestor(d, m1, m0) = MainUp[m1][j]
  BY MainCommon DEF IsShared
<1>4. m0 \in S /\ m1 \in S
  OBVIOUS
<1> HIDE DEF S
<1>5. MainUp[m0][i] = MainUp[m1][j]
  BY <1>1, <1>2, <1>3, <1>4, NewestSymmetric
<1>6. i \in 1..Len(MainUp[m0]) /\ MainUp[m0] \in Seq(S)
  BY <1>1, <1>2, <1>4, UpLen DEF IsNewest
<1>7. MainUp[m0][i] \in S
  BY <1>6
<1> QED
  BY <1>2, <1>3, <1>5, <1>7 DEF S

\* What a block before a mainchain block is.
IsBefore(d, a, m) ==
    /\ a \in d.headers /\ PrevMain[a] # m
    /\ PrevMain[a] \in d.main_header_infos \cup {Zero} /\ InLine(MainUp, PrevMain[a], m)

LEMMA BeforeIs ==
    ASSUME NEW d, AInv(d), NEW b \in d.headers, NEW m \in d.main_header_infos \cup {Zero}
    PROVE  /\ AncestorBefore(d, b, m) = NoBlock \/ IsBefore(d, AncestorBefore(d, b, m), m)
           /\ IsBefore(d, b, m) => AncestorBefore(d, b, m) = b
<1> DEFINE s == Ancestors[b]
           I == {i \in 1..Len(s) : PrevMain[s[i]] # m /\ IsMainDescendant(d, PrevMain[s[i]], m)}
           found == SelectInSeq(s, LAMBDA a : PrevMain[a] # m /\ IsMainDescendant(d, PrevMain[a], m))
<1>1. found = IF I # {} THEN Min(I) ELSE 0
  BY DEF SelectInSeq
<1>2. AncestorBefore(d, b, m) = IF found = 0 THEN NoBlock ELSE s[found]
  BY DEF AncestorBefore
<1>3. /\ MainOf(d) /\ SideClosed(d.headers)
      /\ \A x \in d.headers : PrevMain[x] \in d.main_header_infos \cup {Zero}
  BY DEF AInv, SideOf, SideForest
<1>4. s \in Seq(d.headers) /\ Len(s) \in Nat /\ Len(s) >= 1 /\ s[1] = b
  BY <1>3, SideLine DEF SideClosed
<1> HIDE DEF found, s
<1>5. \A i \in 1..Len(s) : s[i] \in d.headers /\ (i \in I <=> IsBefore(d, s[i], m))
  <2>1. \A i \in 1..Len(s) : s[i] \in d.headers
    BY <1>4
  <2>2. \A x \in d.headers : IsMainDescendant(d, PrevMain[x], m) <=> InLine(MainUp, PrevMain[x], m)
    BY <1>3, MainLookup
  <2> QED
    BY <1>3, <2>1, <2>2 DEF IsBefore
<1>6. CASE I = {}
  <2>1. AncestorBefore(d, b, m) = NoBlock
    BY <1>1, <1>2, <1>6
  <2>2. 1 \in 1..Len(s)
    BY <1>4
  <2>3. ~IsBefore(d, b, m)
    BY <1>4, <1>5, <1>6, <2>2
  <2> QED
    BY <2>1, <2>3
<1>7. CASE I # {}
  <2>1. I \in SUBSET Nat /\ \A i \in I : i \in 1..Len(s) /\ i >= 1
    BY <1>4
  <2> HIDE DEF I
  <2>2. \E n \in I : \A k \in I : n <= k
    BY <1>7, <2>1, NatMin
  <2>3. found \in I /\ \A k \in I : found <= k
    BY <1>1, <1>7, <2>2 DEF Min
  <2>4. found \in 1..Len(s) /\ found # 0
    BY <2>1, <2>3
  <2>5. AncestorBefore(d, b, m) = s[found] /\ IsBefore(d, s[found], m)
    BY <1>2, <1>5, <2>3, <2>4
  <2>6. ASSUME IsBefore(d, b, m) PROVE s[found] = b
    <3>1. 1 \in 1..Len(s)
      BY <1>4
    <3>2. 1 \in I
      BY <1>4, <1>5, <2>6, <3>1
    <3>3. found <= 1
      BY <2>3, <3>2
    <3>4. found = 1
      BY <1>4, <2>4, <3>3
    <3> QED
      BY <1>4, <3>4
  <2> QED
    BY <2>5, <2>6
<1> QED
  BY <1>6, <1>7

\* The heights and the work that are compared are numbers.
LEMMA OptionsAre ==
    ASSUME NEW d, AInv(d), NEW m \in d.main_header_infos \cup {Zero}, NEW a,
           a = NoBlock \/ IsBefore(d, a, m)
    PROVE  HeightOption(d, a) \in Nat /\ WorkOption(d, a, m) \in Nat
<1>1. CASE a = NoBlock
  BY <1>1 DEF HeightOption, WorkOption
<1>2. CASE a # NoBlock
  <2> DEFINE x == PrevMain[a]
             S == d.main_header_infos \cup {Zero}
             l == Len(MainUp[m])
  <2>1. a \in d.headers /\ x # m /\ x \in S /\ InLine(MainUp, x, m)
    BY <1>2 DEF IsBefore
  <2>2. HeightOption(d, a) \in Nat
    <3>1. d.block_hash_to_height[a] \in Nat
      BY <2>1, SideLookup DEF AInv
    <3> QED
      BY <1>2, <3>1 DEF HeightOption
  <2>3. MainOf(d) /\ MainClosed(d.main_header_infos) /\ d.total_work \in [d.main_header_infos -> Nat]
    BY DEF AInv, MainOf, MainForest
  <2>4. Lineage(S, MainParent, MainUp)
    BY <2>3, MainLineage
  <2>5. PICK i \in 1..l : MainUp[m][i] = x
    BY <2>1 DEF InLine
  <2>6. l \in Nat \ {0} /\ MainUp[m][1] = m /\ MainUp[m] \in Seq(S)
    BY <2>4, UpLen
  <2>7. i # 1
    BY <2>1, <2>5, <2>6
  <2>8. Len(MainUp[x]) = l - i + 1
    <3>1. FromIth(S, MainUp, m, i)
      BY <2>4, RestAt
    <3> QED
      BY <2>5, <3>1 DEF FromIth
  <2>9. /\ MainHeight(d, x) = Len(MainUp[x]) - 1 /\ MainHeight(d, m) = l - 1
        /\ \A n \in Nat : n < l => NthMainAncestor(d, m, n) = MainUp[m][n + 1]
    BY <2>1, <2>3, MainLookup
  <2> DEFINE n == MainHeight(d, m) - (MainHeight(d, x) + 1)
             y == NthMainAncestor(d, m, n)
  <2>10. n = i - 2 /\ n \in Nat /\ n < l /\ n + 1 = i - 1 /\ i - 1 \in 1..l /\ i - 1 # l
    <3> DEFINE hx == MainHeight(d, x)
               hm == MainHeight(d, m)
    <3>1. hx = l - i /\ hm = l - 1
      BY <2>6, <2>8, <2>9
    <3>2. n = hm - (hx + 1)
      OBVIOUS
    <3> HIDE DEF l, hx, hm, n
    <3> QED
      BY <2>6, <2>7, <3>1, <3>2
  <2>11. y = MainUp[m][i - 1]
    <3> HIDE DEF n
    <3> QED
      BY <2>9, <2>10
  <2>12. y \in d.main_header_infos
    <3> DEFINE s == MainAncestors[m]
    <3>1. s \in Seq(d.main_header_infos) /\ MainUp[m] = Append(s, Zero)
      BY <2>3, LineageAssumption DEF MainUp, MainClosed
    <3> HIDE DEF s, y
    <3>2. l = Len(s) + 1 /\ Len(s) \in Nat /\ \A k \in 1..Len(s) : MainUp[m][k] = s[k]
      BY <3>1, AppendProperties
    <3>3. i - 1 \in 1..Len(s)
      BY <2>10, <3>2
    <3>4. s[i - 1] \in d.main_header_infos
      BY <3>1, <3>3
    <3> QED
      BY <2>11, <3>2, <3>3, <3>4
  <2>13. WorkOption(d, a, m) = d.total_work[y]
    BY <1>2 DEF WorkOption
  <2> HIDE DEF y
  <2> QED
    BY <2>2, <2>3, <2>12, <2>13
<1> QED
  BY <1>1, <1>2

\* Work only grows along the mainchain.
LEMMA WorkGrows ==
    ASSUME NEW d, MainOf(d), NEW m \in d.main_header_infos, NEW x \in d.main_header_infos,
           InLine(MainUp, x, m)
    PROVE  d.total_work[x] <= d.total_work[m]
<1> DEFINE M == d.main_header_infos
           s == MainAncestors[m]
           w == d.total_work
<1>1. /\ MainClosed(M) /\ M \subseteq MainBlock /\ w \in [M -> Nat] /\ Zero \notin MainBlock
      /\ \A y \in M : w[y] = Work[y] + IF MainParent[y] = Zero THEN 0 ELSE w[MainParent[y]]
  BY BlockAssumption DEF MainOf, MainForest, MainClosed
<1>2. s \in Seq(M) /\ Len(s) \in Nat /\ s[1] = m /\ m \in MainBlock
  BY <1>1, MainLine DEF MainClosed
<1>3. \A i \in 1..Len(s) : s[i] \in M
  BY <1>2
<1>4. ASSUME NEW i \in 1..Len(s), i < Len(s) PROVE w[s[i + 1]] <= w[s[i]]
  <2>1. s[i] \in M /\ s[i + 1] \in M /\ s[i + 1] # Zero
    <3>1. i + 1 \in 1..Len(s)
      BY <1>2, <1>4
    <3> QED
      BY <1>1, <1>3, <3>1
  <2>2. MainParent[s[i]] = s[i + 1]
    BY <1>2, <1>4, MainNext
  <2>3. w[s[i]] = Work[s[i]] + w[s[i + 1]]
    BY <1>1, <2>1, <2>2
  <2>4. Work[s[i]] \in Nat /\ w[s[i]] \in Nat /\ w[s[i + 1]] \in Nat
    BY <1>1, <2>1, BlockAssumption
  <2> HIDE DEF w, s
  <2> QED
    BY <2>3, <2>4
<1> DEFINE Bad == {i \in 1..Len(s) : ~(w[s[i]] <= w[m])}
<1>5. Bad = {}
  <2> SUFFICES ASSUME Bad # {} PROVE FALSE
    OBVIOUS
  <2>1. PICK i \in Bad : \A j \in Bad : i <= j
    <3>1. Bad \in SUBSET Nat
      OBVIOUS
    <3> HIDE DEF Bad
    <3> QED
      BY <3>1, NatMin
  <2>2. w[m] \in Nat /\ i \in 1..Len(s) /\ w[s[i]] \in Nat
    BY <1>1, <1>3
  <2>3. i # 1
    BY <1>2, <2>1, <2>2
  <2> DEFINE k == i - 1
  <2>4. k \in 1..Len(s) /\ k < Len(s) /\ k + 1 = i /\ k \notin Bad
    BY <1>2, <2>1, <2>2, <2>3
  <2>5. w[s[k]] <= w[m] /\ w[s[k]] \in Nat
    BY <1>1, <1>3, <2>4
  <2> HIDE DEF k
  <2>6. w[s[i]] <= w[s[k]]
    BY <1>4, <2>4
  <2>7. ~(w[s[i]] <= w[m])
    BY <2>1
  <2> HIDE DEF w, s
  <2> QED
    BY <2>2, <2>5, <2>6, <2>7
<1>6. x \in Range(s)
  <2>1. m \in MainBlock \cup {Zero} /\ x # Zero
    BY <1>1
  <2> QED
    BY <2>1, MainRange
<1>7. PICK i \in 1..Len(s) : s[i] = x
  BY <1>2, <1>6 DEF Range
<1> QED
  BY <1>5, <1>7

\* A tip is a block that is stored, verified where the tip says.
LEMMA TipIs ==
    ASSUME NEW d, AInv(d), NEW tip \in Tips(d)
    PROVE  /\ tip.block_hash \in d.headers /\ tip.main_block_hash \in d.main_header_infos
           /\ PrevMain[tip.block_hash] = MainParent[tip.main_block_hash]
           /\ Height(d, tip) \in Nat /\ d.total_work[tip.main_block_hash] \in Nat
           /\ tip = [block_hash |-> tip.block_hash, main_block_hash |-> tip.main_block_hash]
<1> DEFINE b == tip.block_hash
           m == tip.main_block_hash
<1>1. /\ tip \in [block_hash : d.headers, main_block_hash : d.main_block_infos]
      /\ m \in Verifications(d, b)
  BY DEF Tips
<1>2. b \in d.headers /\ m \in d.main_header_infos /\ tip = [block_hash |-> b, main_block_hash |-> m]
  BY <1>1 DEF AInv
<1>3. b \in SideBlock /\ m \in MainBlock /\ d.total_work[m] \in Nat
  BY <1>2 DEF AInv, MainOf, MainForest, MainClosed, SideOf, SideForest, SideClosed
<1>4. m \in CommittedAt[b]
  <2>1. BmmExact(d.headers, d.main_header_infos, d.bmm_results)
    BY DEF AInv
  <2>2. m \in DOMAIN d.bmm_results[b] /\ d.bmm_results[b][m] = "Verified"
    BY <1>1, <1>2, <2>1 DEF Verifications, BmmResults, BmmExact
  <2> QED
    BY <1>2, <2>1, <2>2 DEF BmmExact
<1>5. PrevMain[b] = MainParent[m]
  BY <1>3, <1>4, CommittedIs
<1>6. Height(d, tip) \in Nat
  BY <1>2, SideLookup DEF Height, AInv
<1> QED
  BY <1>2, <1>3, <1>5, <1>6

\* What is compared of two tips are numbers.
ComparesNumbers(d, tip0, tip1, common) ==
    /\ Height(d, tip0) \in Nat /\ Height(d, tip1) \in Nat
    /\ d.total_work[tip0.main_block_hash] \in Nat /\ d.total_work[tip1.main_block_hash] \in Nat
    /\ HeightOption(d, AncestorBefore(d, tip0.block_hash, common)) \in Nat
    /\ HeightOption(d, AncestorBefore(d, tip1.block_hash, common)) \in Nat
    /\ WorkOption(d, AncestorBefore(d, tip0.block_hash, common), common) \in Nat
    /\ WorkOption(d, AncestorBefore(d, tip1.block_hash, common), common) \in Nat

LEMMA NumbersCompared ==
    ASSUME NEW d, AInv(d), NEW tip0 \in Tips(d), NEW tip1 \in Tips(d), NEW common,
           common = LastCommonMainAncestor(d, tip0.main_block_hash, tip1.main_block_hash)
    PROVE  ComparesNumbers(d, tip0, tip1, common)
<1>1. common \in d.main_header_infos \cup {Zero}
  BY TipIs, CommonSymmetric DEF AInv
<1>2. \A b \in d.headers : /\ HeightOption(d, AncestorBefore(d, b, common)) \in Nat
                           /\ WorkOption(d, AncestorBefore(d, b, common), common) \in Nat
  BY <1>1, BeforeIs, OptionsAre
<1> QED
  BY <1>2, TipIs DEF ComparesNumbers

\* better_tip prefers at most one of two tips.
LEMMA BetterOnce ==
    ASSUME NEW d, AInv(d), NEW tip0 \in Tips(d), NEW tip1 \in Tips(d),
           Better(d, tip0, tip1), Better(d, tip1, tip0)
    PROVE  FALSE
<1> DEFINE m0 == tip0.main_block_hash
           m1 == tip1.main_block_hash
           work0 == d.total_work[m0]
           work1 == d.total_work[m1]
           h0 == Height(d, tip0)
           h1 == Height(d, tip1)
           shared == SharedMainchainLineage(d, m0, m1)
           common == LastCommonMainAncestor(d, m0, m1)
           before0 == AncestorBefore(d, tip0.block_hash, common)
           before1 == AncestorBefore(d, tip1.block_hash, common)
           wins0 == HeightWins(d, tip0, tip1, common)
           wins1 == HeightWins(d, tip1, tip0, common)
           first == SecondBefore(d, tip0, tip1, common)
           second == SecondBefore(d, tip1, tip0, common)
<1>1. LastCommonMainAncestor(d, m1, m0) = common
  BY TipIs, CommonSymmetric DEF AInv
<1>2. SharedMainchainLineage(d, m1, m0) <=> shared
  BY DEF SharedMainchainLineage
<1>3. ComparesNumbers(d, tip0, tip1, common)
  BY NumbersCompared
<1>4. h0 \in Nat /\ h1 \in Nat /\ work0 \in Nat /\ work1 \in Nat
  BY <1>3 DEF ComparesNumbers
<1>5. ~(first /\ second)
  <2> DEFINE x0 == HeightOption(d, before0)
             x1 == HeightOption(d, before1)
             y0 == WorkOption(d, before0, common)
             y1 == WorkOption(d, before1, common)
  <2>1. x0 \in Nat /\ x1 \in Nat /\ y0 \in Nat /\ y1 \in Nat
    BY <1>3 DEF ComparesNumbers
  <2>2. first <=> x0 < x1 \/ (x0 = x1 /\ y0 > y1)
    BY DEF SecondBefore
  <2>3. second <=> x1 < x0 \/ (x1 = x0 /\ y1 > y0)
    BY DEF SecondBefore
  <2> HIDE DEF x0, x1, y0, y1, first, second
  <2> QED
    BY <2>1, <2>2, <2>3
<1>6. /\ h1 # 0
      /\ \/ h0 = 0
         \/ h0 < h1 /\ (work0 > work1 => wins1)
         \/ h0 > h1 /\ work0 < work1 /\ ~wins0
         \/ /\ h0 = h1
            /\ \/ work0 < work1 /\ ~shared
               \/ work0 > work1 /\ shared
               \/ work0 = work1 /\ first
  BY DEF Better
<1>7. /\ h0 # 0
      /\ \/ h1 = 0
         \/ h1 < h0 /\ (work1 > work0 => wins0)
         \/ h1 > h0 /\ work1 < work0 /\ ~wins1
         \/ /\ h1 = h0
            /\ \/ work1 < work0 /\ ~shared
               \/ work1 > work0 /\ shared
               \/ work1 = work0 /\ second
  <2>1. Better(d, tip1, tip0)
    OBVIOUS
  <2> QED
    BY <1>1, <1>2, <2>1 DEF Better
<1> HIDE DEF h0, h1, work0, work1, shared, wins0, wins1, first, second
<1> QED
  BY <1>4, <1>5, <1>6, <1>7

\* The newest block that a block shares with one on top of it is itself.
LEMMA CommonBelow ==
    ASSUME NEW d, MainOf(d), NEW m0 \in d.main_header_infos, NEW m1 \in d.main_header_infos,
           InLine(MainUp, m1, m0)
    PROVE  LastCommonMainAncestor(d, m0, m1) = m1
<1>1. PICK i : IsNewest(MainUp, m1, m0, i) /\ LastCommonMainAncestor(d, m1, m0) = MainUp[m1][i]
  BY MainCommon DEF IsShared
<1>2. Len(MainUp[m1]) \in Nat \ {0} /\ MainUp[m1][1] = m1
  <2>1. MainClosed(d.main_header_infos)
    BY DEF MainOf, MainForest
  <2>2. Lineage(d.main_header_infos \cup {Zero}, MainParent, MainUp)
    BY <2>1, MainLineage
  <2> QED
    BY <2>2, UpLen
<1>3. i \in 1..Len(MainUp[m1])
      /\ \A k \in 1..(i - 1) : \A j \in 1..Len(MainUp[m0]) : MainUp[m1][k] # MainUp[m0][j]
  BY <1>1 DEF IsNewest
<1>4. i = 1
  <2> SUFFICES ASSUME i # 1 PROVE FALSE
    OBVIOUS
  <2>1. 1 \in 1..(i - 1)
    BY <1>2, <1>3
  <2>2. PICK j \in 1..Len(MainUp[m0]) : MainUp[m0][j] = m1
    BY DEF InLine
  <2> QED
    BY <1>2, <1>3, <2>1, <2>2
<1> QED
  BY <1>1, <1>2, <1>4, CommonSymmetric

\* On one mainchain the higher tip is better.
LEMMA HigherIsBetter ==
    ASSUME NEW d, AInv(d), NEW tip0 \in Tips(d), NEW tip1 \in Tips(d),
           SharedMainchainLineage(d, tip0.main_block_hash, tip1.main_block_hash),
           Height(d, tip0) < Height(d, tip1)
    PROVE  Better(d, tip0, tip1)
<1> DEFINE b1 == tip1.block_hash
           m0 == tip0.main_block_hash
           m1 == tip1.main_block_hash
           work0 == d.total_work[m0]
           work1 == d.total_work[m1]
           h0 == Height(d, tip0)
           h1 == Height(d, tip1)
           common == LastCommonMainAncestor(d, m0, m1)
<1>1. /\ h0 \in Nat /\ h1 \in Nat /\ work0 \in Nat /\ work1 \in Nat /\ b1 \in d.headers
      /\ m0 \in d.main_header_infos /\ m1 \in d.main_header_infos /\ PrevMain[b1] = MainParent[m1]
      /\ MainOf(d)
  BY TipIs DEF AInv
<1>2. tip0 # tip1 /\ h1 # 0
  <2>1. h0 < h1
    OBVIOUS
  <2>2. tip0 # tip1
    BY <1>1
  <2>3. h1 # 0
    <3> HIDE DEF h0, h1
    <3> QED
      BY <1>1, <2>1
  <2> QED
    BY <2>2, <2>3
<1>3. ASSUME work0 > work1 PROVE HeightWins(d, tip1, tip0, common)
  <2>1. InLine(MainUp, m0, m1) \/ InLine(MainUp, m1, m0)
    BY <1>1, MainLookup DEF SharedMainchainLineage
  <2>2. ~InLine(MainUp, m0, m1)
    <3> SUFFICES ASSUME InLine(MainUp, m0, m1) PROVE FALSE
      OBVIOUS
    <3>1. work0 <= work1
      BY <1>1, WorkGrows
    <3> HIDE DEF work0, work1
    <3> QED
      BY <1>1, <1>3, <3>1
  <2>3. common = m1
    BY <1>1, <2>1, <2>2, CommonBelow
  <2>4. IsBefore(d, b1, m1)
    <3> DEFINE S == d.main_header_infos \cup {Zero}
               p == MainParent[m1]
    <3>1. MainClosed(d.main_header_infos) /\ m1 \in MainBlock
      BY <1>1 DEF MainOf, MainForest, MainClosed
    <3>2. /\ Lineage(S, MainParent, MainUp)
          /\ Len(MainUp[m1]) = Len(MainAncestors[m1]) + 1
    <4>1. m1 \in S
      BY <1>1
    <4> QED
      BY <3>1, <4>1, MainLineage
    <3>3. /\ Len(MainAncestors[m1]) = Len(MainAncestors[p]) + 1 /\ Len(MainAncestors[p]) \in Nat
      BY <3>1, MainLine
    <3>4. Len(MainUp[m1]) \in Nat /\ 1 < Len(MainUp[m1]) /\ MainUp[m1][1] = m1
      BY <1>1, <3>2, <3>3, UpLen
    <3>5. 1 \in 1..Len(MainUp[m1]) /\ 2 \in 1..Len(MainUp[m1]) /\ 1 + 1 = 2
      BY <3>4
    <3>6. p = MainUp[m1][2]
      BY <1>1, <3>2, <3>4, <3>5, ParentAt
    <3>7. InLine(MainUp, p, m1)
      BY <3>5, <3>6 DEF InLine
    <3>8. p \in S
      BY <1>1, <3>1, ClosedParent
    <3>9. p # m1
      BY <3>3
    <3> QED
      BY <1>1, <3>7, <3>8, <3>9 DEF IsBefore
  <2>5. AncestorBefore(d, b1, common) = b1
    BY <1>1, <2>3, <2>4, BeforeIs
  <2>6. b1 # NoBlock
    BY <1>1, BlockAssumption DEF AInv, SideOf, SideForest, SideClosed
  <2>7. HeightOption(d, b1) = h1 + 1
    BY <2>6 DEF HeightOption, Height
  <2>8. h1 + 1 >= h0 + 1
    <3>1. h0 < h1
      OBVIOUS
    <3> HIDE DEF h0, h1
    <3> QED
      BY <1>1, <3>1
  <2> QED
    BY <2>5, <2>7, <2>8 DEF HeightWins
<1> QED
  BY <1>2, <1>3 DEF Better

\* The order of better_tip is one that two nodes agree on, whatever they have
\* stored besides the tips and in whatever order: at most one of two tips is
\* better, and on one mainchain it is the higher.
THEOREM TipsOrdered ==
    ArchiveSpec => []TipOrder
<1>1. AInv(archive) => TipOrder
  <2> SUFFICES ASSUME AInv(archive) PROVE TipOrder
    OBVIOUS
  <2>1. BetterAntisymmetric
    BY BetterOnce DEF BetterAntisymmetric
  <2>2. SharedLineageByHeight
    BY HigherIsBetter DEF SharedLineageByHeight
  <2> QED
    BY <2>1, <2>2 DEF TipOrder
<1> QED
  BY <1>1, ArchiveInvariant, PTL

\* What check_peer_tip_and_request_headers finds worse.
LEMMA CheckIs ==
    ASSUME NEW d, AInv(d), NEW tip \in Tips(d), NEW peer \in Tips(d),
           Height(d, tip) > 0, Height(d, peer) > 0
    PROVE  /\ CheckPeerTip(d, d.headers, tip, peer) = "Available" <=> Better(d, tip, peer)
           /\ Better(d, tip, peer) =>
                 CheckPeerTip(d, d.headers \ {peer.block_hash}, tip, peer) = "Requested"
<1> DEFINE m == tip.main_block_hash
           pm == peer.main_block_hash
           work == d.total_work[m]
           peer_work == d.total_work[pm]
           h == Height(d, tip)
           ph == Height(d, peer)
           shared == SharedMainchainLineage(d, m, pm)
           common == LastCommonMainAncestor(d, m, pm)
           same == peer.block_hash = tip.block_hash
           wins == HeightWins(d, tip, peer, common)
           peer_wins == HeightWins(d, peer, tip, common)
           first == SecondBefore(d, tip, peer, common)
           worse(has) == \/ work >= peer_work /\ ~(h < ph) /\ h # ph
                         \/ work < peer_work /\ h = ph /\ shared
                         \/ work > peer_work /\ h = ph /\ ~shared
                         \/ work < peer_work /\ ~(h < ph) /\ h # ph /\ wins
                         \/ work > peer_work /\ h < ph /\ has /\ ~peer_wins
                         \/ work = peer_work /\ h = ph /\ same
                         \/ work = peer_work /\ h = ph /\ has /\ ~first
<1>1. ComparesNumbers(d, tip, peer, common)
  BY NumbersCompared
<1>2. h \in Nat /\ ph \in Nat /\ work \in Nat /\ peer_work \in Nat /\ h > 0 /\ ph > 0
  BY <1>1 DEF ComparesNumbers
<1>3. LowerPeerTip(d, tip, peer, common) <=> ~wins
  BY DEF LowerPeerTip, HeightWins
<1>4. HigherPeerTip(d, tip, peer, common) <=> peer_wins
  <2> DEFINE x == HeightOption(d, AncestorBefore(d, peer.block_hash, common))
  <2>1. x \in Nat
    BY <1>1 DEF ComparesNumbers
  <2>2. /\ HigherPeerTip(d, tip, peer, common) <=> ~(x < h + 1)
        /\ peer_wins <=> x >= h + 1
    BY DEF HigherPeerTip, HeightWins
  <2> HIDE DEF x, h, peer_wins
  <2> QED
    BY <1>2, <2>1, <2>2
<1>5. EqualPeerTip(d, tip, peer, common) <=> first
  <2> DEFINE before0 == AncestorBefore(d, tip.block_hash, common)
             before1 == AncestorBefore(d, peer.block_hash, common)
             x0 == HeightOption(d, before0)
             x1 == HeightOption(d, before1)
             y0 == WorkOption(d, before0, common)
             y1 == WorkOption(d, before1, common)
  <2>1. x0 \in Nat /\ x1 \in Nat /\ y0 \in Nat /\ y1 \in Nat
    BY <1>1 DEF ComparesNumbers
  <2>2. EqualPeerTip(d, tip, peer, common) <=> ~((y0 <= y1 /\ x0 = x1) \/ x0 > x1)
    BY DEF EqualPeerTip
  <2>3. first <=> x0 < x1 \/ (x0 = x1 /\ y0 > y1)
    BY DEF SecondBefore
  <2> HIDE DEF x0, x1, y0, y1, first
  <2> QED
    BY <2>1, <2>2, <2>3
<1>6. peer.block_hash \in d.headers /\ tip.block_hash \in d.headers
  BY TipIs
<1>7. CheckPeerTip(d, d.headers, tip, peer) = IF worse(TRUE) THEN "None" ELSE "Available"
  BY <1>3, <1>4, <1>5, <1>6 DEF CheckPeerTip
<1>8. CheckPeerTip(d, d.headers \ {peer.block_hash}, tip, peer) =
        IF worse(FALSE) THEN "None" ELSE "Requested"
  BY <1>3, <1>4, <1>5, <1>6 DEF CheckPeerTip
<1>9. tip = peer => work = peer_work /\ h = ph /\ same
  OBVIOUS
<1>10. Better(d, tip, peer) <=>
         /\ tip # peer /\ ph # 0
         /\ \/ h = 0
            \/ h < ph /\ (work > peer_work => peer_wins)
            \/ h > ph /\ work < peer_work /\ ~wins
            \/ /\ h = ph
               /\ \/ work < peer_work /\ ~shared
                  \/ work > peer_work /\ shared
                  \/ work = peer_work /\ ~same /\ first
  BY DEF Better
<1>11. same \in BOOLEAN /\ shared \in BOOLEAN /\ wins \in BOOLEAN
       /\ peer_wins \in BOOLEAN /\ first \in BOOLEAN
  BY DEF SharedMainchainLineage, IsMainDescendant, HeightWins, SecondBefore
<1> HIDE DEF h, ph, work, peer_work, shared, wins, peer_wins, first, same
<1>12. worse(TRUE) <=> ~Better(d, tip, peer)
  BY <1>2, <1>9, <1>10, <1>11
<1>13. Better(d, tip, peer) => ~worse(FALSE)
  BY <1>2, <1>9, <1>10, <1>11
<1> HIDE DEF worse
<1> QED
  BY <1>7, <1>8, <1>12, <1>13

\* The check of a peer's tip turns down the tips that better_tip turns down and
\* no others: those that are better are answered "Available", or first have
\* their headers requested.
THEOREM PeerCheckIsBetterTip ==
    ArchiveSpec => []PeerCheckAgrees
<1>1. AInv(archive) => PeerCheckAgrees
  BY CheckIs DEF PeerCheckAgrees
<1> QED
  BY <1>1, ArchiveInvariant, PTL

-----------------------------------------------------------------------------
(***************************************************************************)
(* ArchiveExact, conjunct by conjunct.                                     *)
(***************************************************************************)
LEMMA TypeIs ==
    AInv(archive) => ArchiveTypeOK
<1> SUFFICES ASSUME AInv(archive) PROVE ArchiveTypeOK
  OBVIOUS
<1> DEFINE d == archive
           M == d.main_header_infos
           H == d.headers
<1>1. /\ M = d.main_block_infos /\ M \subseteq MainBlock /\ d.bodies \subseteq H /\ H \subseteq SideBlock
      /\ d.total_work \in [M -> Nat] /\ DOMAIN d.exponential_ancestors = H
      /\ DOMAIN d.exponential_main_ancestors = M /\ MainOf(d) /\ SideOf(d)
      /\ BmmExact(H, M, d.bmm_results)
  BY DEF AInv, MainOf, SideOf, MainForest, SideForest, MainClosed, SideClosed
<1>2. d.main_block_hash_to_height \in [M -> Nat \ {0}]
  <2>1. d.main_block_hash_to_height = [m \in M |-> Len(MainAncestors[m])]
    BY <1>1 DEF MainOf, MainForest
  <2>2. ASSUME NEW m \in M PROVE Len(MainAncestors[m]) \in Nat \ {0}
    <3>1. /\ Len(MainAncestors[MainParent[m]]) \in Nat
          /\ Len(MainAncestors[m]) = Len(MainAncestors[MainParent[m]]) + 1
      BY <1>1, MainLine
    <3> QED
      BY <3>1
  <2> QED
    BY <2>1, <2>2
<1>3. d.block_hash_to_height \in [H -> Nat]
  <2>1. d.block_hash_to_height = [b \in H |-> Len(Ancestors[b]) - 1]
    BY <1>1 DEF SideOf, SideForest
  <2>2. \A b \in H : d.block_hash_to_height[b] \in Nat
    BY <1>1, SideLookup
  <2> QED
    BY <2>1, <2>2
<1>4. /\ d.main_successors \in [M \cup {Zero} -> SUBSET M]
      /\ d.successors \in [H \cup {NoBlock} -> SUBSET H]
  BY <1>1 DEF MainOf, SideOf, MainForest, SideForest
<1>5. DOMAIN d.bmm_results = H
      /\ \A b \in H : /\ DOMAIN d.bmm_results[b] \subseteq M
                      /\ Range(d.bmm_results[b]) \subseteq BmmResult
  BY <1>1 DEF BmmExact, Range
<1> QED
  BY <1>1, <1>2, <1>3, <1>4, <1>5 DEF ArchiveTypeOK

LEMMA AncestorsAre ==
    AInv(archive) => AncestorsExact
<1> SUFFICES ASSUME AInv(archive) PROVE AncestorsExact
  OBVIOUS
<1>1. MainOf(archive) /\ SideOf(archive)
  BY DEF AInv
<1>2. ASSUME NEW b \in archive.headers, NEW n \in 0..archive.block_hash_to_height[b]
      PROVE  NthAncestor(archive, b, n) = Ancestors[b][n + 1]
  <2>1. /\ archive.block_hash_to_height[b] = Len(Ancestors[b]) - 1
        /\ archive.block_hash_to_height[b] \in Nat
        /\ \A k \in Nat : k < Len(Ancestors[b]) => NthAncestor(archive, b, k) = Ancestors[b][k + 1]
    BY <1>1, SideLookup
  <2>2. Len(Ancestors[b]) \in Nat
    BY <1>1, SideLine DEF SideOf, SideForest, SideClosed
  <2>3. n \in Nat /\ n < Len(Ancestors[b])
    BY <2>1, <2>2
  <2> QED
    BY <2>1, <2>3
<1>3. ASSUME NEW m \in archive.main_header_infos, NEW n \in 0..MainHeight(archive, m)
      PROVE  NthMainAncestor(archive, m, n) = Append(MainAncestors[m], Zero)[n + 1]
  <2>1. /\ MainHeight(archive, m) = Len(MainUp[m]) - 1 /\ MainHeight(archive, m) \in Nat
        /\ \A k \in Nat : k < Len(MainUp[m]) => NthMainAncestor(archive, m, k) = MainUp[m][k + 1]
    BY <1>1, MainLookup
  <2>2. MainUp[m] = Append(MainAncestors[m], Zero) /\ m \in MainBlock
    BY <1>1 DEF MainUp, MainOf, MainForest, MainClosed
  <2>3. Len(MainUp[m]) \in Nat
    <3>1. MainClosed(archive.main_header_infos)
      BY <1>1 DEF MainOf, MainForest
    <3>2. Lineage(archive.main_header_infos \cup {Zero}, MainParent, MainUp)
      BY <3>1, MainLineage
    <3> QED
      BY <3>2, UpLen
  <2>4. n \in Nat /\ n < Len(MainUp[m])
    BY <2>1, <2>3
  <2> QED
    BY <2>1, <2>2, <2>4
<1> QED
  BY <1>2, <1>3 DEF AncestorsExact

LEMMA CommonAre ==
    AInv(archive) => CommonAncestorsExact
<1> SUFFICES ASSUME AInv(archive) PROVE CommonAncestorsExact
  OBVIOUS
<1>1. /\ MainOf(archive) /\ SideOf(archive) /\ archive.main_header_infos \subseteq MainBlock
      /\ archive.headers \subseteq SideBlock /\ Zero \notin MainBlock
  BY BlockAssumption DEF AInv, MainOf, SideOf, MainForest, SideForest, MainClosed, SideClosed
<1>2. ASSUME NEW b0 \in archive.headers, NEW b1 \in archive.headers
      PROVE  IsDescendant(archive, b0, b1) <=> b0 \in Range(Ancestors[b1])
  <2>1. IsDescendant(archive, b0, b1) <=> InLine(Ancestors, b0, b1)
    BY <1>1, SideLookup
  <2>2. Ancestors[b1] \in Seq(SideBlock)
    BY <1>1, LineageAssumption
  <2>3. b0 \in Range(Ancestors[b1]) <=> \E i \in 1..Len(Ancestors[b1]) : Ancestors[b1][i] = b0
    BY <2>2 DEF Range
  <2> QED
    BY <2>1, <2>3 DEF InLine
<1>3. ASSUME NEW m0 \in archive.main_header_infos, NEW m1 \in archive.main_header_infos
      PROVE  IsMainDescendant(archive, m0, m1) <=> m0 \in Range(MainAncestors[m1])
  <2>1. IsMainDescendant(archive, m0, m1) <=> InLine(MainUp, m0, m1)
    BY <1>1, MainLookup
  <2>2. m0 # Zero /\ m1 \in MainBlock \cup {Zero}
    BY <1>1
  <2> QED
    BY <2>1, <2>2, MainRange
<1>4. \A b0, b1 \in archive.headers :
        LastCommonAncestor(archive, b0, b1) = Newest(Ancestors[b0], Ancestors[b1], NoBlock)
  BY <1>1, SideCommon
<1>5. \A m0, m1 \in archive.main_header_infos :
        LastCommonMainAncestor(archive, m0, m1) = Newest(MainAncestors[m0], MainAncestors[m1], Zero)
  BY <1>1, MainCommon
<1> QED
  BY <1>2, <1>3, <1>4, <1>5 DEF CommonAncestorsExact, SharedMainchainLineage

LEMMA ResultsAre ==
    AInv(archive) => VerifiedExact /\ SuccessorsExact
<1> SUFFICES ASSUME AInv(archive) PROVE VerifiedExact /\ SuccessorsExact
  OBVIOUS
<1>1. BmmExact(archive.headers, archive.main_header_infos, archive.bmm_results)
  BY DEF AInv
<1>2. ASSUME NEW b \in archive.headers, NEW m \in archive.main_header_infos
      PROVE  m \in Verifications(archive, b) <=> m \in CommittedAt[b]
  <2>1. b \in DOMAIN archive.bmm_results
    BY <1>1 DEF BmmExact
  <2>2. m \in Verifications(archive, b) <=>
          m \in DOMAIN archive.bmm_results[b] /\ archive.bmm_results[b][m] = "Verified"
    BY <2>1 DEF Verifications, BmmResults
  <2> QED
    BY <1>1, <2>2 DEF BmmExact
<1>3. SuccessorsExact
  BY DEF SuccessorsExact, AInv, MainOf, SideOf, MainForest, SideForest
<1> QED
  BY <1>2, <1>3 DEF VerifiedExact

-----------------------------------------------------------------------------
(***************************************************************************)
(* The bodies that are missing.                                            *)
(***************************************************************************)
\* A sequence that is given by its elements.
IsListed(f, S, n) == f \in Seq(S) /\ Len(f) = n

LEMMA ListIs ==
    ASSUME NEW n \in Nat, NEW S, NEW f \in [1..n -> S]
    PROVE  IsListed(f, S, n)
<1>1. f \in Seq(S)
  BY SeqDef
<1>2. DOMAIN f = 1..n /\ DOMAIN f = 1..Len(f) /\ Len(f) \in Nat
  BY <1>1, LenProperties
<1> DEFINE l == Len(f)
<1>3. l \in Nat /\ 1..n = 1..l
  BY <1>2
<1> HIDE DEF l
<1>4. l = n
  <2>1. n \in 1..l \/ n = 0
    BY <1>3
  <2>2. l \in 1..n \/ l = 0
    BY <1>3
  <2>3. 1 \in 1..n <=> 1 \in 1..l
    BY <1>3
  <2> QED
    BY <1>3, <2>1, <2>2, <2>3
<1> QED
  BY <1>1, <1>4 DEF IsListed, l

IsReverse(r, s, S) ==
    /\ r \in Seq(S) /\ Len(r) = Len(s)
    /\ \A i \in 1..Len(s) : r[i] = s[Len(s) - i + 1] /\ Len(s) - i + 1 \in 1..Len(s)

LEMMA ReverseIs ==
    ASSUME NEW S, NEW s \in Seq(S)
    PROVE  IsReverse(Reverse(s), s, S)
<1> DEFINE r == Reverse(s)
<1>1. Len(s) \in Nat /\ \A i \in 1..Len(s) : s[i] \in S
  OBVIOUS
<1>2. \A i \in 1..Len(s) : Len(s) - i + 1 \in 1..Len(s)
  BY <1>1
<1>3. r = [i \in 1..Len(s) |-> s[(Len(s) - i) + 1]]
  BY DEF Reverse
<1>4. r \in [1..Len(s) -> S]
  BY <1>1, <1>2, <1>3
<1>5. IsListed(r, S, Len(s))
  BY <1>1, <1>4, ListIs
<1> QED
  BY <1>2, <1>3, <1>5 DEF IsListed, IsReverse

\* The rounds of the filter.
Keep(k, x, bodies) == IF x \in bodies THEN k ELSE Append(k, x)

IsKept(f, d, s, j) ==
    f = [i \in 0..j |-> IF i = 0 THEN << >> ELSE Keep(f[i - 1], s[i], d.bodies)]

LEMMA KeptExists ==
    ASSUME NEW d, NEW s
    PROVE  \A j \in Nat : \E f : IsKept(f, d, s, j)
<1> DEFINE Bad == {j \in Nat : ~\E f : IsKept(f, d, s, j)}
<1>1. SUFFICES ASSUME Bad # {} PROVE FALSE
  OBVIOUS
<1>2. PICK j \in Bad : \A i \in Bad : j <= i
  BY <1>1, NatMin
<1>3. CASE j = 0
  <2> DEFINE f == [i \in 0..j |-> << >>]
  <2>1. IsKept(f, d, s, j)
    BY <1>3 DEF IsKept
  <2> QED
    BY <1>2, <2>1
<1>4. CASE j # 0
  <2>1. j \in Nat /\ j - 1 \in Nat /\ j - 1 \notin Bad
    BY <1>2, <1>4
  <2>2. PICK g : IsKept(g, d, s, j - 1)
    BY <2>1
  <2> DEFINE f == [i \in 0..j |-> IF i = j THEN Keep(g[j - 1], s[j], d.bodies) ELSE g[i]]
             rhs == [i \in 0..j |-> IF i = 0 THEN << >>
                                    ELSE Keep(f[i - 1], s[i], d.bodies)]
  <2>3. \A i \in 0..(j - 1) : g[i] = IF i = 0 THEN << >>
                                     ELSE Keep(g[i - 1], s[i], d.bodies)
    BY <2>2 DEF IsKept
  <2>4. \A i \in 0..(j - 1) : f[i] = g[i]
    BY <2>1
  <2>5. ASSUME NEW i \in 0..j PROVE f[i] = rhs[i]
    <3>1. CASE i = j
      <4>1. i # 0 /\ i - 1 = j - 1 /\ j - 1 \in 0..(j - 1) /\ f[i - 1] = g[j - 1]
        BY <2>1, <2>4, <3>1
      <4> QED
        BY <3>1, <4>1
    <3>2. CASE i # j
      <4>1. i \in 0..(j - 1) /\ (i # 0 => i - 1 \in 0..(j - 1))
        BY <2>1, <3>2
      <4>2. f[i] = g[i] /\ (i # 0 => f[i - 1] = g[i - 1])
        BY <2>4, <4>1
      <4> HIDE DEF f
      <4> QED
        BY <2>3, <4>1, <4>2
    <3> QED
      BY <3>1, <3>2
  <2>6. f = rhs
    BY <2>5
  <2>7. IsKept(f, d, s, j)
    BY <2>6 DEF IsKept
  <2> QED
    BY <1>2, <2>7
<1> QED
  BY <1>3, <1>4

\* k has those of the first i elements of s that are not in bodies, in their
\* order.
IsFiltered(k, s, bodies, i, S) ==
    /\ k \in Seq(S)
    /\ \A p \in 1..i : s[p] \notin bodies => \E q \in 1..Len(k) : k[q] = s[p]
    /\ \A q \in 1..Len(k) : \E p \in 1..i : k[q] = s[p] /\ s[p] \notin bodies
    /\ \A q, r \in 1..Len(k) :
          q < r => \E p, o \in 1..i : p < o /\ k[q] = s[p] /\ k[r] = s[o]

LEMMA FilterStep ==
    ASSUME NEW S, NEW s, NEW bodies, NEW i \in Nat \ {0}, s[i] \in S, NEW k,
           IsFiltered(k, s, bodies, i - 1, S)
    PROVE  IsFiltered(Keep(k, s[i], bodies), s, bodies, i, S)
<1>1. /\ k \in Seq(S) /\ Len(k) \in Nat
      /\ \A p \in 1..(i - 1) : s[p] \notin bodies => \E q \in 1..Len(k) : k[q] = s[p]
      /\ \A q \in 1..Len(k) : \E p \in 1..(i - 1) : k[q] = s[p] /\ s[p] \notin bodies
      /\ \A q, r \in 1..Len(k) :
            q < r => \E p, o \in 1..(i - 1) : p < o /\ k[q] = s[p] /\ k[r] = s[o]
  BY DEF IsFiltered
<1>2. \A p \in 1..i : p = i \/ p \in 1..(i - 1)
  OBVIOUS
<1>3. \A p \in 1..(i - 1) : p \in 1..i /\ p < i
  OBVIOUS
<1>4. CASE s[i] \in bodies
  <2>1. \A p \in 1..i : s[p] \notin bodies => \E q \in 1..Len(k) : k[q] = s[p]
    BY <1>1, <1>2, <1>4
  <2>2. \A q \in 1..Len(k) : \E p \in 1..i : k[q] = s[p] /\ s[p] \notin bodies
    BY <1>1, <1>3
  <2>3. \A q, r \in 1..Len(k) :
          q < r => \E p, o \in 1..i : p < o /\ k[q] = s[p] /\ k[r] = s[o]
    BY <1>1, <1>3
  <2> QED
    BY <1>1, <1>4, <2>1, <2>2, <2>3 DEF IsFiltered, Keep
<1>5. CASE s[i] \notin bodies
  <2> DEFINE a == Append(k, s[i])
             l == Len(k)
  <2>1. /\ a \in Seq(S) /\ Len(a) = l + 1 /\ l \in Nat
        /\ \A q \in 1..l : a[q] = k[q]
        /\ a[l + 1] = s[i]
    BY <1>1, AppendProperties
  <2> HIDE DEF a, l
  <2>2. /\ \A q \in 1..l : q \in 1..Len(a) /\ q < l + 1
        /\ \A q \in 1..Len(a) : q \in 1..l \/ q = l + 1
        /\ l + 1 \in 1..Len(a) /\ i \in 1..i
        /\ \A q, r \in 1..Len(a) : q < r => q \in 1..l
    BY <2>1
  <2>3. \A p \in 1..i : s[p] \notin bodies => \E q \in 1..Len(a) : a[q] = s[p]
    BY <1>1, <1>2, <2>1, <2>2 DEF l
  <2>4. \A q \in 1..Len(a) : \E p \in 1..i : a[q] = s[p] /\ s[p] \notin bodies
    <3> SUFFICES ASSUME NEW q \in 1..Len(a) PROVE \E p \in 1..i : a[q] = s[p] /\ s[p] \notin bodies
      OBVIOUS
    <3>1. CASE q \in 1..l
      <4>1. PICK p \in 1..(i - 1) : k[q] = s[p] /\ s[p] \notin bodies
        BY <1>1, <3>1 DEF l
      <4>2. p \in 1..i /\ a[q] = k[q]
        BY <1>3, <2>1, <3>1
      <4> QED
        BY <4>1, <4>2
    <3>2. CASE q = l + 1
      BY <1>5, <2>1, <2>2, <3>2
    <3> QED
      BY <2>2, <3>1, <3>2
  <2>5. \A q, r \in 1..Len(a) :
          q < r => \E p, o \in 1..i : p < o /\ a[q] = s[p] /\ a[r] = s[o]
    <3> SUFFICES ASSUME NEW q \in 1..Len(a), NEW r \in 1..Len(a), q < r
                 PROVE  \E p, o \in 1..i : p < o /\ a[q] = s[p] /\ a[r] = s[o]
      OBVIOUS
    <3>1. q \in 1..l /\ a[q] = k[q]
      BY <2>1, <2>2
    <3>2. CASE r \in 1..l
      <4>1. PICK p \in 1..(i - 1), o \in 1..(i - 1) : p < o /\ k[q] = s[p] /\ k[r] = s[o]
        BY <1>1, <3>1, <3>2 DEF l
      <4>2. p \in 1..i /\ o \in 1..i /\ a[r] = k[r]
        BY <1>3, <2>1, <3>2
      <4> QED
        BY <3>1, <4>1, <4>2
    <3>3. CASE r = l + 1
      <4>1. PICK p \in 1..(i - 1) : k[q] = s[p]
        BY <1>1, <3>1 DEF l
      <4>2. p \in 1..i /\ p < i /\ i \in 1..i
        BY <1>3, <2>2
      <4> QED
        BY <2>1, <3>1, <3>3, <4>1, <4>2
    <3> QED
      BY <2>2, <3>2, <3>3
  <2>6. IsFiltered(a, s, bodies, i, S)
    BY <2>1, <2>3, <2>4, <2>5 DEF IsFiltered
  <2> QED
    BY <1>5, <2>6 DEF a, Keep
<1> QED
  BY <1>4, <1>5

LEMMA WithoutBodyIs ==
    ASSUME NEW S, NEW s \in Seq(S), NEW d
    PROVE  IsFiltered(WithoutBody(d, s), s, d.bodies, Len(s), S)
<1> DEFINE l == Len(s)
           f == CHOOSE f : IsKept(f, d, s, l)
           Bad == {i \in 0..l : ~IsFiltered(f[i], s, d.bodies, i, S)}
<1>1. l \in Nat /\ \A i \in 1..l : s[i] \in S
  OBVIOUS
<1>2. IsKept(f, d, s, l)
  BY <1>1, KeptExists
<1>3. WithoutBody(d, s) = f[l]
  BY DEF WithoutBody, IsKept, Keep
<1> HIDE DEF f, l
<1>4. /\ f[0] = << >>
      /\ \A i \in 1..l : f[i] = Keep(f[i - 1], s[i], d.bodies)
  BY <1>1, <1>2 DEF IsKept
<1>5. IsFiltered(f[0], s, d.bodies, 0, S)
  <2>1. << >> \in Seq(S) /\ Len(<< >>) = 0 /\ 1..0 = {}
    OBVIOUS
  <2> QED
    BY <1>4, <2>1 DEF IsFiltered
<1>6. Bad = {}
  <2> SUFFICES ASSUME Bad # {} PROVE FALSE
    OBVIOUS
  <2>1. PICK i \in Bad : \A j \in Bad : i <= j
    <3>1. Bad \in SUBSET Nat
      OBVIOUS
    <3> HIDE DEF Bad
    <3> QED
      BY <3>1, NatMin
  <2>2. i # 0 /\ i \in 1..l /\ i \in Nat \ {0}
    BY <1>1, <1>5, <2>1
  <2>3. i - 1 \in 0..l /\ i - 1 \notin Bad
    BY <1>1, <2>1, <2>2
  <2>4. IsFiltered(f[i - 1], s, d.bodies, i - 1, S)
    BY <2>3
  <2>5. IsFiltered(f[i], s, d.bodies, i, S)
    BY <1>1, <1>4, <2>2, <2>4, FilterStep
  <2> QED
    BY <2>1, <2>5
<1>7. l \in 0..l
  BY <1>1
<1>8. IsFiltered(f[l], s, d.bodies, l, S)
  BY <1>6, <1>7
<1> QED
  BY <1>3, <1>8 DEF l

\* Two lists of the same blocks, each in the order of their heights, are equal.
Rising(u, height) == \A i, j \in 1..Len(u) : i < j => height[u[i]] < height[u[j]]

LEMMA NotBelow ==
    /\ \A x \in Nat : ~(x < x)
    /\ \A x, y \in Nat : ~(x < y /\ y < x)
  OBVIOUS

SameElements(u, v) ==
    /\ \A i \in 1..Len(u) : \E j \in 1..Len(v) : u[i] = v[j]
    /\ \A j \in 1..Len(v) : \E i \in 1..Len(u) : v[j] = u[i]

IsPrefixOf(u, v) == \A i \in 1..Len(u) : i \in 1..Len(v) /\ u[i] = v[i]

LEMMA RisingPrefix ==
    ASSUME NEW S, NEW height \in [S -> Nat], NEW u \in Seq(S), NEW v \in Seq(S),
           Rising(u, height), Rising(v, height), SameElements(u, v)
    PROVE  IsPrefixOf(u, v)
<1> DEFINE Bad == {i \in 1..Len(u) : ~(i \in 1..Len(v) /\ u[i] = v[i])}
<1>1. Len(u) \in Nat /\ Len(v) \in Nat
  OBVIOUS
<1>2. /\ \A i \in 1..Len(u) : height[u[i]] \in Nat
      /\ \A i \in 1..Len(v) : height[v[i]] \in Nat
  <2>1. /\ \A i \in 1..Len(u) : u[i] \in S
        /\ \A i \in 1..Len(v) : v[i] \in S
    BY ElementOfSeq
  <2>2. \A x \in S : height[x] \in Nat
    OBVIOUS
  <2> QED
    BY <2>1, <2>2
<1>3. SUFFICES ASSUME Bad # {} PROVE FALSE
  BY DEF IsPrefixOf
<1>4. PICK i \in Bad : \A k \in Bad : i <= k
  <2>1. Bad \in SUBSET Nat
    BY <1>1
  <2> HIDE DEF Bad
  <2> QED
    BY <1>3, <2>1, NatMin
<1>5. i \in 1..Len(u) /\ \A k \in 1..Len(u) : k < i => k \in 1..Len(v) /\ u[k] = v[k]
  BY <1>1, <1>4
<1>6. PICK j \in 1..Len(v) : u[i] = v[j]
  BY <1>5 DEF SameElements
<1>7. ~(j < i)
  <2> SUFFICES ASSUME j < i PROVE FALSE
    OBVIOUS
  <2>1. j \in 1..Len(u)
    BY <1>1, <1>5
  <2>2. u[j] = v[j] /\ height[u[j]] < height[u[i]]
    BY <1>5, <2>1 DEF Rising
  <2>3. u[j] = u[i]
    BY <1>6, <2>2
  <2>4. height[u[i]] < height[u[i]] /\ height[u[i]] \in Nat
    BY <1>2, <1>5, <2>2, <2>3
  <2> QED
    BY <2>4, NotBelow
<1>8. ~(i < j)
  <2> SUFFICES ASSUME i < j PROVE FALSE
    OBVIOUS
  <2>1. i \in 1..Len(v)
    BY <1>1, <1>5
  <2>2. PICK k \in 1..Len(u) : v[i] = u[k]
    BY <2>1 DEF SameElements
  <2>3. height[v[i]] < height[v[j]] /\ height[v[i]] \in Nat /\ height[v[j]] \in Nat
    BY <1>2, <2>1 DEF Rising
  <2>4. CASE k < i
    <3>1. u[k] = v[k] /\ k \in 1..Len(v)
      BY <1>5, <2>4
    <3>2. height[v[k]] < height[v[i]] /\ v[k] = v[i]
      BY <2>1, <2>2, <2>4, <3>1 DEF Rising
    <3>3. height[v[i]] < height[v[i]]
      BY <3>2
    <3> QED
      BY <2>3, <3>3, NotBelow
  <2>5. CASE k = i
    <3>1. v[i] = v[j]
      BY <1>6, <2>2, <2>5
    <3>2. height[v[i]] < height[v[i]]
      BY <2>3, <3>1
    <3> QED
      BY <2>3, <3>2, NotBelow
  <2>6. CASE i < k
    <3>1. height[u[i]] < height[u[k]]
      BY <1>5, <2>6 DEF Rising
    <3>2. height[v[j]] < height[v[i]]
      BY <1>6, <2>2, <3>1
    <3> QED
      BY <2>3, <3>2, NotBelow
  <2> QED
    BY <1>1, <1>5, <2>4, <2>5, <2>6
<1>9. j = i
  BY <1>1, <1>5, <1>7, <1>8
<1> QED
  BY <1>4, <1>6, <1>9

LEMMA RisingSame ==
    ASSUME NEW S, NEW height \in [S -> Nat], NEW u \in Seq(S), NEW v \in Seq(S),
           Rising(u, height), Rising(v, height), SameElements(u, v)
    PROVE  u = v
<1>1. IsPrefixOf(u, v)
  BY RisingPrefix
<1>2. SameElements(v, u)
  BY DEF SameElements
<1>3. IsPrefixOf(v, u)
  BY <1>2, RisingPrefix
<1>4. Len(u) = Len(v)
  <2> DEFINE a == Len(u)
             b == Len(v)
  <2>1. a \in Nat /\ b \in Nat /\ (\A i \in 1..a : i \in 1..b) /\ (\A i \in 1..b : i \in 1..a)
    BY <1>1, <1>3 DEF IsPrefixOf
  <2> HIDE DEF a, b
  <2>2. (a = 0 \/ a \in 1..a) /\ (b = 0 \/ b \in 1..b)
    BY <2>1
  <2>3. a <= b
    BY <2>1, <2>2
  <2>4. b <= a
    BY <2>1, <2>2
  <2>5. a = b
    BY <2>1, <2>3, <2>4
  <2> QED
    BY <2>5 DEF a, b
<1> QED
  BY <1>1, <1>4, SeqEqual DEF IsPrefixOf

\* The ancestors of a block from a height, oldest first.
OldestFirst(b, from) ==
    [i \in 1..(Len(Ancestors[b]) - from) |-> Ancestors[b][Len(Ancestors[b]) + 1 - from - i]]

IsOldestFirst(f, H, b, from) ==
    /\ f \in Seq(H) /\ Len(f) = Len(Ancestors[b]) - from
    /\ \A i \in 1..(Len(Ancestors[b]) - from) :
          /\ Len(Ancestors[b]) + 1 - from - i \in 1..Len(Ancestors[b])
          /\ f[i] = Ancestors[b][Len(Ancestors[b]) + 1 - from - i]

LEMMA OldestFirstIs ==
    ASSUME NEW H, SideClosed(H), NEW b \in H, NEW from \in Nat, from <= Len(Ancestors[b])
    PROVE  IsOldestFirst(OldestFirst(b, from), H, b, from)
<1> DEFINE s == Ancestors[b]
           l == Len(s)
           n == l - from
           f == OldestFirst(b, from)
<1>1. s \in Seq(H) /\ l \in Nat /\ \A i \in 1..l : s[i] \in H
  BY DEF SideClosed
<1>2. n \in Nat /\ \A i \in 1..n : l + 1 - from - i \in 1..l
  <2>1. from <= l
    OBVIOUS
  <2> HIDE DEF l
  <2> QED
    BY <1>1, <2>1
<1>3. f = [i \in 1..n |-> s[l + 1 - from - i]]
  BY DEF OldestFirst
<1>4. f \in [1..n -> H]
  <2> HIDE DEF s, l, n, f
  <2> QED
    BY <1>1, <1>2, <1>3
<1>5. IsListed(f, H, n)
  <2> HIDE DEF n, f
  <2> QED
    BY <1>2, <1>4, ListIs
<1>6. \A i \in 1..n : f[i] = s[l + 1 - from - i]
  BY <1>3
<1> HIDE DEF f
<1> QED
  BY <1>2, <1>5, <1>6 DEF IsListed, IsOldestFirst, f

IsTaken(c, t, n, S) == c \in Seq(S) /\ Len(c) = n /\ \A i \in 1..n : c[i] = t[i]

LEMMA TakenIs ==
    ASSUME NEW S, NEW t, NEW n \in Nat, \A i \in 1..n : t[i] \in S
    PROVE  IsTaken(SubSeq(t, 1, n), t, n, S)
<1> DEFINE c == SubSeq(t, 1, n)
           one == 1
<1>1. one \in Int /\ n \in Int /\ \A i \in one..n : t[i] \in S
  OBVIOUS
<1>2. /\ n - one + 1 = n /\ (IF one <= n THEN n - one + 1 ELSE 0) = n
      /\ \A i \in 1..n : one + i - 1 = i
  OBVIOUS
<1>3. c = SubSeq(t, one, n)
  OBVIOUS
<1> HIDE DEF c, one
<1>4. /\ c \in Seq(S)
      /\ Len(c) = IF one <= n THEN n - one + 1 ELSE 0
      /\ \A i \in 1..(n - one + 1) : c[i] = t[one + i - 1]
  BY <1>1, <1>3, SubSeqProperties
<1>5. Len(c) = n
  BY <1>2, <1>4
<1>6. \A i \in 1..n : c[i] = t[i]
  BY <1>2, <1>4
<1> QED
  BY <1>4, <1>5, <1>6 DEF IsTaken, c

\* A batch is a part of them.
LEMMA BatchIs ==
    ASSUME NEW d, SideOf(d), NEW b \in d.headers, NEW from \in Nat, NEW size \in Nat \ {0},
           from + size <= Len(Ancestors[b])
    PROVE  /\ IsListed(Batch(d, b, from, size), d.headers, size)
           /\ \A i \in 1..size :
                 Batch(d, b, from, size)[i] = Ancestors[b][Len(Ancestors[b]) + 1 - from - i]
<1> DEFINE H == d.headers
           s == Ancestors[b]
           l == Len(s)
           end == d.block_hash_to_height[b]
           n == end + 1 - from - size
           newest == NthAncestor(d, b, n)
           t == Ancestors[newest]
           c == SubSeq(t, 1, size)
           r == Reverse(c)
<1>1. SideClosed(H) /\ Lineage(H, PrevSide, Ancestors)
  BY SideLineage DEF SideOf, SideForest
<1>2. l \in Nat \ {0} /\ s \in Seq(H)
  BY <1>1, UpLen
<1>3. end = l - 1 /\ \A k \in Nat : k < l => NthAncestor(d, b, k) = s[k + 1]
  BY SideLookup
<1>4. n = l - from - size /\ n \in Nat /\ n < l /\ n + 1 \in 1..l /\ l - (n + 1) + 1 = from + size
  <2>1. from + size <= l
    OBVIOUS
  <2> HIDE DEF l, end
  <2> QED
    BY <1>2, <1>3, <2>1
<1> HIDE DEF n
<1>5. newest = s[n + 1]
  BY <1>3, <1>4
<1>6. /\ newest \in H /\ Len(t) = from + size
      /\ \A k \in Nat : (n + 1) + k <= l => t[k + 1] = s[(n + 1) + k]
  <2>1. FromIth(H, Ancestors, b, n + 1)
    BY <1>1, <1>4, RestAt
  <2> QED
    BY <1>4, <1>5, <2>1 DEF FromIth
<1>7. t \in Seq(H)
  BY <1>1, <1>6, UpLen
<1> HIDE DEF newest, t, l, s
<1>8. \A i \in 1..size : t[i] \in H
  <2>1. \A i \in 1..size : i \in 1..Len(t)
    BY <1>6
  <2> QED
    BY <1>7, <2>1
<1>9. c \in Seq(H) /\ Len(c) = size /\ \A i \in 1..size : c[i] = t[i]
  <2>1. IsTaken(c, t, size, H)
    BY <1>8, TakenIs
  <2> QED
    BY <2>1 DEF IsTaken
<1> HIDE DEF c
<1>10. IsReverse(r, c, H)
  BY <1>9, ReverseIs
<1>11. r \in Seq(H) /\ Len(r) = size /\ \A i \in 1..size : r[i] = c[size - i + 1] /\ size - i + 1 \in 1..size
  BY <1>9, <1>10 DEF IsReverse
<1>12. Batch(d, b, from, size) = r
  BY DEF Batch, r, c, t, newest, n
<1>13. ASSUME NEW i \in 1..size PROVE r[i] = s[l + 1 - from - i]
  <2> DEFINE k == size - i
  <2>1. k \in Nat /\ k + 1 = size - i + 1 /\ (n + 1) + k <= l /\ (n + 1) + k = l + 1 - from - i
    BY <1>2, <1>4
  <2>2. r[i] = t[k + 1]
    BY <1>9, <1>11, <2>1
  <2> HIDE DEF k
  <2>3. t[k + 1] = s[(n + 1) + k]
    BY <1>6, <2>1
  <2> QED
    BY <2>1, <2>2, <2>3
<1> HIDE DEF r
<1> QED
  BY <1>11, <1>12, <1>13 DEF IsListed, l, s

LEMMA ConcatIs ==
    ASSUME NEW S, NEW s1 \in Seq(S), NEW s2 \in Seq(S), NEW t \in Seq(S),
           Len(t) = Len(s1) + Len(s2),
           \A i \in 1..Len(s1) : t[i] = s1[i],
           \A i \in 1..Len(s2) : t[Len(s1) + i] = s2[i]
    PROVE  s1 \o s2 = t
<1> DEFINE c == s1 \o s2
           l1 == Len(s1)
           l2 == Len(s2)
<1>1. /\ c \in Seq(S) /\ Len(c) = l1 + l2
      /\ \A i \in 1..(l1 + l2) : c[i] = IF i <= l1 THEN s1[i] ELSE s2[i - l1]
  BY ConcatProperties
<1>2. l1 \in Nat /\ l2 \in Nat
  OBVIOUS
<1>3. /\ \A i \in 1..l1 : t[i] = s1[i]
      /\ \A i \in 1..l2 : t[l1 + i] = s2[i]
  OBVIOUS
<1>4. Len(c) = Len(t)
  BY <1>1
<1> HIDE DEF c, l1, l2
<1>5. ASSUME NEW i \in 1..(l1 + l2) PROVE c[i] = t[i]
  <2>1. CASE i <= l1
    <3>1. i \in 1..l1
      BY <1>2, <2>1
    <3> QED
      BY <1>1, <1>3, <2>1, <3>1
  <2>2. CASE ~(i <= l1)
    <3>1. i - l1 \in 1..l2 /\ l1 + (i - l1) = i
      BY <1>2, <2>2
    <3>2. t[l1 + (i - l1)] = s2[i - l1]
      BY <1>3, <3>1
    <3> QED
      BY <1>1, <2>2, <3>1, <3>2
  <2> QED
    BY <2>1, <2>2
<1>6. c = t
  BY <1>1, <1>4, <1>5, SeqEqual
<1> QED
  BY <1>6 DEF c

LEMMA BatchThen ==
    ASSUME NEW d, SideOf(d), NEW b \in d.headers, NEW from \in Nat, NEW size \in Nat \ {0},
           from + size <= Len(Ancestors[b])
    PROVE  Batch(d, b, from, size) \o OldestFirst(b, from + size) = OldestFirst(b, from)
<1> DEFINE H == d.headers
           s == Ancestors[b]
           l == Len(s)
           batch == Batch(d, b, from, size)
           rest == OldestFirst(b, from + size)
           t == OldestFirst(b, from)
<1>1. SideClosed(H) /\ Lineage(H, PrevSide, Ancestors)
  BY SideLineage DEF SideOf, SideForest
<1>2. l \in Nat
  BY <1>1, UpLen
<1>3. from + size \in Nat /\ from + size <= l /\ from <= l
  <2>1. from + size <= l
    OBVIOUS
  <2> HIDE DEF l
  <2> QED
    BY <1>2, <2>1
<1>4. IsOldestFirst(rest, H, b, from + size) /\ IsOldestFirst(t, H, b, from)
  BY <1>1, <1>3, OldestFirstIs
<1>5. IsListed(batch, H, size) /\ \A i \in 1..size : batch[i] = s[l + 1 - from - i]
  BY BatchIs
<1> HIDE DEF batch, rest, t
<1>6. /\ batch \in Seq(H) /\ Len(batch) = size
      /\ rest \in Seq(H) /\ Len(rest) = l - (from + size)
      /\ t \in Seq(H) /\ Len(t) = l - from
      /\ \A i \in 1..(l - from) : t[i] = s[l + 1 - from - i]
      /\ \A i \in 1..(l - (from + size)) : rest[i] = s[l + 1 - (from + size) - i]
  BY <1>4, <1>5 DEF IsListed, IsOldestFirst
<1> HIDE DEF l, s
<1>7. Len(t) = Len(batch) + Len(rest)
  BY <1>2, <1>3, <1>6
<1>8. \A i \in 1..Len(batch) : t[i] = batch[i]
  <2>1. \A i \in 1..size : i \in 1..(l - from)
    BY <1>2, <1>3
  <2> QED
    BY <1>5, <1>6, <2>1
<1>9. ASSUME NEW i \in 1..Len(rest) PROVE t[Len(batch) + i] = rest[i]
  <2>1. i \in 1..(l - (from + size)) /\ Len(batch) + i = size + i
    BY <1>6
  <2>2. size + i \in 1..(l - from) /\ l + 1 - from - (size + i) = l + 1 - (from + size) - i
    BY <1>2, <1>3, <2>1
  <2>3. t[size + i] = s[l + 1 - from - (size + i)]
    BY <1>6, <2>2
  <2>4. rest[i] = s[l + 1 - (from + size) - i]
    BY <1>6, <2>1
  <2> QED
    BY <2>1, <2>2, <2>3, <2>4
<1>10. batch \o rest = t
  BY <1>6, <1>7, <1>8, <1>9, ConcatIs
<1> QED
  BY <1>10 DEF batch, rest, t

\* The batches that follow a height, and the size of the one there.
SizeAt(end, from) == IF end + 1 - from < MAX_BATCH_SIZE THEN end + 1 - from ELSE MAX_BATCH_SIZE

IsBatches(f, d, b) ==
    f = [from \in Nat |->
            IF from > d.block_hash_to_height[b] THEN << >>
            ELSE Batch(d, b, from, SizeAt(d.block_hash_to_height[b], from))
                    \o f[from + SizeAt(d.block_hash_to_height[b], from)]]

LEMMA OldestFirstNone ==
    ASSUME NEW H, SideClosed(H), NEW b \in H
    PROVE  OldestFirst(b, Len(Ancestors[b])) = << >>
<1> DEFINE l == Len(Ancestors[b])
           t == OldestFirst(b, l)
<1>1. l \in Nat
  BY DEF SideClosed
<1>2. IsOldestFirst(t, H, b, l)
  <2>1. l <= l
    BY <1>1
  <2> QED
    BY <1>1, <2>1, OldestFirstIs
<1>3. t \in Seq(H) /\ Len(t) = l - l
  BY <1>2 DEF IsOldestFirst
<1> HIDE DEF t, l
<1>4. Len(t) = 0
  BY <1>1, <1>3
<1> QED
  BY <1>3, <1>4, EmptySeq DEF t, l

LEMMA SizeIs ==
    ASSUME NEW l \in Nat, NEW from \in Nat, from < l
    PROVE  SizeAt(l - 1, from) \in Nat \ {0} /\ from + SizeAt(l - 1, from) <= l
  BY BatchAssumption DEF SizeAt

LEMMA BatchesExist ==
    ASSUME NEW d, SideOf(d), NEW b \in d.headers
    PROVE  \E f : IsBatches(f, d, b)
<1> DEFINE H == d.headers
           l == Len(Ancestors[b])
           end == d.block_hash_to_height[b]
           f == [from \in Nat |-> IF from > end THEN << >> ELSE OldestFirst(b, from)]
           rhs == [from \in Nat |->
                      IF from > end THEN << >>
                      ELSE Batch(d, b, from, SizeAt(end, from)) \o f[from + SizeAt(end, from)]]
<1>1. SideClosed(H) /\ Lineage(H, PrevSide, Ancestors)
  BY SideLineage DEF SideOf, SideForest
<1>2. l \in Nat \ {0} /\ end = l - 1
  BY <1>1, UpLen, SideLookup
<1>3. ASSUME NEW from \in Nat PROVE f[from] = rhs[from]
  <2>1. CASE from > end
    BY <2>1
  <2>2. CASE ~(from > end)
    <3> DEFINE size == SizeAt(end, from)
               next == from + size
    <3>1. from < l
      <4> HIDE DEF l, end
      <4> QED
        BY <1>2, <2>2
    <3>2. size \in Nat \ {0} /\ next <= l /\ next \in Nat
      <4>1. SizeAt(l - 1, from) \in Nat \ {0} /\ from + SizeAt(l - 1, from) <= l
        BY <1>2, <3>1, SizeIs
      <4>2. size = SizeAt(l - 1, from)
        BY <1>2
      <4> HIDE DEF size, l
      <4> QED
        BY <4>1, <4>2
    <3> HIDE DEF size
    <3>3. f[next] = OldestFirst(b, next)
      <4>1. CASE next > end
        <5>1. next = l
          <6> HIDE DEF l, end, next
          <6> QED
            BY <1>2, <3>2, <4>1
        <5>2. f[next] = << >>
          BY <3>2, <4>1
        <5> QED
          BY <1>1, <5>1, <5>2, OldestFirstNone
      <4>2. CASE ~(next > end)
        BY <3>2, <4>2
      <4> QED
        BY <4>1, <4>2
    <3>4. Batch(d, b, from, size) \o OldestFirst(b, next) = OldestFirst(b, from)
      BY <3>2, BatchThen
    <3>5. f[from] = OldestFirst(b, from)
      BY <2>2
    <3>6. rhs[from] = Batch(d, b, from, size) \o f[next]
      BY <2>2 DEF size
    <3> HIDE DEF f, rhs
    <3> QED
      BY <3>3, <3>4, <3>5, <3>6
  <2> QED
    BY <2>1, <2>2
<1>4. f = rhs
  BY <1>3
<1>5. IsBatches(f, d, b)
  BY <1>4 DEF IsBatches
<1> QED
  BY <1>5

\* AncestorsRev walks the ancestors from the start height, oldest first.
LEMMA AncestorsRevIs ==
    ASSUME NEW d, SideOf(d), NEW b \in d.headers, NEW start \in Nat, start <= Len(Ancestors[b])
    PROVE  AncestorsRev(d, b, start) = OldestFirst(b, start)
<1> DEFINE H == d.headers
           l == Len(Ancestors[b])
           end == d.block_hash_to_height[b]
           f == CHOOSE f : IsBatches(f, d, b)
           Bad == {k \in 0..l : f[l - k] # OldestFirst(b, l - k)}
<1>1. SideClosed(H) /\ Lineage(H, PrevSide, Ancestors)
  BY SideLineage DEF SideOf, SideForest
<1>2. l \in Nat \ {0} /\ end = l - 1
  BY <1>1, UpLen, SideLookup
<1>3. IsBatches(f, d, b)
  BY BatchesExist
<1>4. AncestorsRev(d, b, start) = f[start]
  BY DEF AncestorsRev, IsBatches, SizeAt
<1> HIDE DEF f
<1>5. \A from \in Nat : f[from] = IF from > end THEN << >>
                                  ELSE Batch(d, b, from, SizeAt(end, from)) \o f[from + SizeAt(end, from)]
  BY <1>3 DEF IsBatches
<1>6. Bad = {}
  <2> SUFFICES ASSUME Bad # {} PROVE FALSE
    OBVIOUS
  <2>1. PICK k \in Bad : \A j \in Bad : k <= j
    <3>1. Bad \in SUBSET Nat
      BY <1>2
    <3> HIDE DEF Bad
    <3> QED
      BY <3>1, NatMin
  <2>2. k \in 0..l /\ f[l - k] # OldestFirst(b, l - k)
    BY <2>1
  <2>3. CASE k = 0
    <3>1. l - k = l /\ l > end
      <4> HIDE DEF l, end
      <4> QED
        BY <1>2, <2>3
    <3>2. f[l] = << >>
      BY <1>2, <1>5, <3>1
    <3>3. OldestFirst(b, l) = << >>
      BY <1>1, OldestFirstNone
    <3> HIDE DEF l
    <3> QED
      BY <2>2, <3>1, <3>2, <3>3
  <2>4. CASE k # 0
    <3> DEFINE from == l - k
               size == SizeAt(end, from)
               next == from + size
    <3>1. from \in Nat /\ from < l /\ ~(from > end)
      <4> HIDE DEF l, end
      <4> QED
        BY <1>2, <2>2, <2>4
    <3> HIDE DEF from
    <3>2. size \in Nat \ {0} /\ next <= l /\ next \in Nat
      <4>1. SizeAt(l - 1, from) \in Nat \ {0} /\ from + SizeAt(l - 1, from) <= l
        BY <1>2, <3>1, SizeIs
      <4>2. size = SizeAt(l - 1, from)
        BY <1>2
      <4> HIDE DEF size, l
      <4> QED
        BY <3>1, <4>1, <4>2
    <3>3. f[next] = OldestFirst(b, next)
      <4> DEFINE j == l - next
      <4>1. j \in 0..l /\ l - j = next /\ ~(k <= j)
        <5> HIDE DEF l, size, end
        <5> QED
          BY <1>2, <2>2, <3>1, <3>2 DEF from
      <4>2. j \notin Bad
        BY <2>1, <4>1
      <4> HIDE DEF next, j
      <4> QED
        BY <4>1, <4>2
    <3>4. Batch(d, b, from, size) \o OldestFirst(b, next) = OldestFirst(b, from)
      BY <3>1, <3>2, BatchThen
    <3>5. f[from] = Batch(d, b, from, size) \o f[next]
      BY <1>5, <3>1
    <3>6. f[from] = OldestFirst(b, from)
      <4> HIDE DEF size, next
      <4> QED
        BY <3>3, <3>4, <3>5
    <3> QED
      BY <2>2, <3>6 DEF from
  <2> QED
    BY <2>3, <2>4
<1>7. f[start] = OldestFirst(b, start)
  <2> DEFINE k == l - start
  <2>1. k \in 0..l /\ l - k = start
    <3>1. start <= l
      OBVIOUS
    <3> HIDE DEF l
    <3> QED
      BY <1>2, <3>1
  <2>2. f[l - k] = OldestFirst(b, l - k)
    BY <1>6, <2>1
  <2> HIDE DEF k
  <2> QED
    BY <2>1, <2>2
<1> QED
  BY <1>4, <1>7

\* u has the blocks without a body among the first k - 1 of b and its
\* ancestors, in the order of their heights.
IsMissing(u, d, b, k) ==
    /\ u \in Seq(d.headers)
    /\ Rising(u, d.block_hash_to_height)
    /\ \A p \in 1..(k - 1) :
          Ancestors[b][p] \notin d.bodies => \E q \in 1..Len(u) : u[q] = Ancestors[b][p]
    /\ \A q \in 1..Len(u) : \E p \in 1..(k - 1) :
          u[q] = Ancestors[b][p] /\ Ancestors[b][p] \notin d.bodies

\* Heights fall along the ancestors.
LEMMA HeightAt ==
    ASSUME NEW d, SideOf(d), NEW b \in d.headers, NEW p \in 1..Len(Ancestors[b])
    PROVE  /\ Ancestors[b][p] \in d.headers
           /\ d.block_hash_to_height[Ancestors[b][p]] = Len(Ancestors[b]) - p
<1> DEFINE H == d.headers
           l == Len(Ancestors[b])
           x == Ancestors[b][p]
<1>1. Lineage(H, PrevSide, Ancestors)
  BY SideLineage DEF SideOf, SideForest
<1>2. l \in Nat
  BY <1>1, UpLen
<1>3. x \in H /\ Len(Ancestors[x]) = l - p + 1
  BY <1>1, RestAt DEF FromIth
<1>4. d.block_hash_to_height[x] = Len(Ancestors[x]) - 1
  BY <1>3, SideLookup
<1>5. d.block_hash_to_height[x] = l - p
  <2> HIDE DEF l, x
  <2> QED
    BY <1>2, <1>3, <1>4
<1> QED
  BY <1>3, <1>5

\* iter_missing_bodies lists them from the oldest ...
LEMMA IterIs ==
    ASSUME NEW d, SideOf(d), NEW b \in d.headers, NEW k \in 1..Len(Ancestors[b])
    PROVE  IsMissing(IterMissingBodies(d, b, Len(Ancestors[b]) - k + 1), d, b, k)
<1> DEFINE H == d.headers
           height == d.block_hash_to_height
           s == Ancestors[b]
           l == Len(s)
           start == l - k + 1
           o == OldestFirst(b, start)
           u == WithoutBody(d, o)
<1>1. SideClosed(H) /\ Lineage(H, PrevSide, Ancestors)
  BY SideLineage DEF SideOf, SideForest
<1>2. l \in Nat /\ k \in 1..l
  BY <1>1, UpLen
<1>3. start \in Nat /\ start <= l /\ l - start = k - 1 /\ k - 1 \in Nat
  <2> HIDE DEF l
  <2> QED
    BY <1>2
<1>4. IterMissingBodies(d, b, start) = u
  BY <1>3, AncestorsRevIs DEF IterMissingBodies
<1>5. IsOldestFirst(o, H, b, start)
  BY <1>1, <1>3, OldestFirstIs
<1>6. o \in Seq(H) /\ Len(o) = k - 1 /\ \A i \in 1..(k - 1) : o[i] = s[l + 1 - start - i]
  BY <1>3, <1>5 DEF IsOldestFirst
<1>7. \A i \in 1..(k - 1) : l + 1 - start - i = k - i /\ k - i \in 1..(k - 1) /\ k - (k - i) = i
  <2> HIDE DEF l
  <2> QED
    BY <1>2
<1>8. \A i \in 1..(k - 1) : o[i] = s[k - i]
  BY <1>6, <1>7
<1>9. IsFiltered(u, o, d.bodies, k - 1, H)
  BY <1>6, WithoutBodyIs
<1> HIDE DEF u, o
<1>10. \A i \in 1..(k - 1) : height[o[i]] = l - (k - i)
  <2> SUFFICES ASSUME NEW i \in 1..(k - 1) PROVE height[o[i]] = l - (k - i)
    OBVIOUS
  <2> DEFINE p == k - i
  <2>1. p \in 1..l /\ o[i] = s[p]
    <3> HIDE DEF l
    <3> QED
      BY <1>2, <1>7, <1>8
  <2> HIDE DEF p
  <2>2. height[s[p]] = l - p
    BY <2>1, HeightAt
  <2> QED
    BY <2>1, <2>2 DEF p
<1>11. u \in Seq(H)
  BY <1>9 DEF IsFiltered
<1>12. Rising(u, height)
  <2> SUFFICES ASSUME NEW q \in 1..Len(u), NEW r \in 1..Len(u), q < r
               PROVE  height[u[q]] < height[u[r]]
    BY DEF Rising
  <2>1. PICK i \in 1..(k - 1), j \in 1..(k - 1) : i < j /\ u[q] = o[i] /\ u[r] = o[j]
    BY <1>9 DEF IsFiltered
  <2>2. l - (k - i) < l - (k - j)
    <3> HIDE DEF l
    <3> QED
      BY <1>2, <2>1
  <2>3. height[u[q]] = l - (k - i) /\ height[u[r]] = l - (k - j)
    BY <1>10, <2>1
  <2> HIDE DEF height, l
  <2> QED
    BY <2>2, <2>3
<1>13. ASSUME NEW p \in 1..(k - 1), s[p] \notin d.bodies PROVE \E q \in 1..Len(u) : u[q] = s[p]
  <2> DEFINE i == k - p
  <2>1. i \in 1..(k - 1) /\ k - i = p
    BY <1>2, <1>7
  <2> HIDE DEF i
  <2>2. o[i] = s[p]
    BY <1>8, <2>1
  <2> QED
    BY <1>9, <1>13, <2>1, <2>2 DEF IsFiltered
<1>14. ASSUME NEW q \in 1..Len(u) PROVE \E p \in 1..(k - 1) : u[q] = s[p] /\ s[p] \notin d.bodies
  <2>1. PICK i \in 1..(k - 1) : u[q] = o[i] /\ o[i] \notin d.bodies
    BY <1>9 DEF IsFiltered
  <2>2. k - i \in 1..(k - 1) /\ o[i] = s[k - i]
    BY <1>7, <1>8
  <2> QED
    BY <2>1, <2>2
<1>15. IsMissing(u, d, b, k)
  BY <1>11, <1>12, <1>13, <1>14 DEF IsMissing
<1> QED
  BY <1>4, <1>15

\* ... and get_missing_bodies reverses them.
LEMMA GetIs ==
    ASSUME NEW d, SideOf(d), NEW b \in d.headers, NEW k \in 1..Len(Ancestors[b])
    PROVE  IsMissing(Reverse(WithoutBody(d, SubSeq(Ancestors[b], 1, k - 1))), d, b, k)
<1> DEFINE H == d.headers
           height == d.block_hash_to_height
           s == Ancestors[b]
           l == Len(s)
           n == k - 1
           c == SubSeq(s, 1, n)
           w == WithoutBody(d, c)
           m == Len(w)
           u == Reverse(w)
<1>1. SideClosed(H) /\ Lineage(H, PrevSide, Ancestors)
  BY SideLineage DEF SideOf, SideForest
<1>2. l \in Nat /\ k \in 1..l
  BY <1>1, UpLen
<1>3. n \in Nat /\ \A i \in 1..n : i \in 1..l
  <2> HIDE DEF l
  <2> QED
    BY <1>2
<1> HIDE DEF n
<1>4. \A i \in 1..n : s[i] \in H /\ height[s[i]] = l - i
  BY <1>3, HeightAt
<1>5. IsTaken(c, s, n, H)
  BY <1>3, <1>4, TakenIs
<1>6. c \in Seq(H) /\ Len(c) = n /\ \A i \in 1..n : c[i] = s[i]
  BY <1>5 DEF IsTaken
<1>7. IsFiltered(w, c, d.bodies, n, H)
  BY <1>6, WithoutBodyIs
<1> HIDE DEF c
<1>8. w \in Seq(H) /\ m \in Nat
  BY <1>7 DEF IsFiltered
<1>9. IsReverse(u, w, H)
  BY <1>8, ReverseIs
<1> HIDE DEF w, u
<1>10. u \in Seq(H) /\ Len(u) = m /\ \A i \in 1..m : u[i] = w[m - i + 1] /\ m - i + 1 \in 1..m
  BY <1>9 DEF IsReverse
<1>11. Rising(u, height)
  <2> SUFFICES ASSUME NEW q \in 1..m, NEW r \in 1..m, q < r PROVE height[u[q]] < height[u[r]]
    BY <1>10 DEF Rising
  <2> DEFINE q1 == m - q + 1
             r1 == m - r + 1
  <2>1. r1 < q1 /\ r1 \in 1..m /\ q1 \in 1..m /\ u[q] = w[q1] /\ u[r] = w[r1]
    <3> HIDE DEF m
    <3> QED
      BY <1>8, <1>10
  <2> HIDE DEF q1, r1
  <2>2. PICK i \in 1..n, j \in 1..n : i < j /\ w[r1] = c[i] /\ w[q1] = c[j]
    BY <1>7, <2>1 DEF IsFiltered
  <2>3. height[u[q]] = l - j /\ height[u[r]] = l - i
    BY <1>4, <1>6, <2>1, <2>2
  <2>4. l - j < l - i
    <3> HIDE DEF l
    <3> QED
      BY <1>2, <1>3, <2>2
  <2> HIDE DEF height, l
  <2> QED
    BY <2>3, <2>4
<1>12. ASSUME NEW p \in 1..n, s[p] \notin d.bodies PROVE \E q \in 1..m : u[q] = s[p]
  <2>1. c[p] = s[p]
    BY <1>6
  <2>2. PICK i \in 1..m : w[i] = s[p]
    BY <1>7, <1>12, <2>1 DEF IsFiltered
  <2> DEFINE q == m - i + 1
  <2>3. q \in 1..m /\ m - q + 1 = i
    <3> HIDE DEF m
    <3> QED
      BY <1>8
  <2> HIDE DEF q
  <2>4. u[q] = w[i]
    BY <1>10, <2>3
  <2> QED
    BY <2>2, <2>3, <2>4
<1>13. ASSUME NEW q \in 1..m PROVE \E p \in 1..n : u[q] = s[p] /\ s[p] \notin d.bodies
  <2>1. PICK i \in 1..m : u[q] = w[i]
    BY <1>10
  <2>2. PICK p \in 1..n : w[i] = c[p] /\ c[p] \notin d.bodies
    BY <1>7, <2>1 DEF IsFiltered
  <2> QED
    BY <1>6, <2>1, <2>2
<1>14. IsMissing(u, d, b, k)
  BY <1>10, <1>11, <1>12, <1>13 DEF IsMissing, n
<1> QED
  BY <1>14 DEF u, w, c, n

LEMMA MissingAre ==
    AInv(archive) => MissingBodiesExact
<1> SUFFICES ASSUME AInv(archive), NEW b \in archive.headers, NEW a \in Range(Ancestors[b])
             PROVE  LET start == archive.block_hash_to_height[a] + 1
                        missing == {c \in Range(Ancestors[b]) \ archive.bodies :
                                        archive.block_hash_to_height[c] >= start}
                        listed == IterMissingBodies(archive, b, start)
                    IN  /\ listed = GetMissingBodies(archive, b, a)
                        /\ Range(listed) = missing
                        /\ \A i, j \in DOMAIN listed :
                              i < j => archive.block_hash_to_height[listed[i]]
                                          < archive.block_hash_to_height[listed[j]]
  BY DEF MissingBodiesExact
<1> DEFINE d == archive
           H == d.headers
           height == d.block_hash_to_height
           s == Ancestors[b]
           l == Len(s)
           k == CHOOSE i \in DOMAIN s : s[i] = a
           start == height[a] + 1
           u == IterMissingBodies(d, b, start)
           v == Reverse(WithoutBody(d, SubSeq(s, 1, k - 1)))
<1>1. SideOf(d)
  BY DEF AInv
<1>2. s \in Seq(H) /\ l \in Nat /\ DOMAIN s = 1..l
  BY <1>1 DEF SideOf, SideForest, SideClosed
<1>3. \E i \in DOMAIN s : s[i] = a
  BY DEF Range
<1>4. k \in 1..l /\ s[k] = a
  BY <1>2, <1>3
<1>5. GetMissingBodies(d, b, a) = v
  BY <1>3 DEF GetMissingBodies
<1> HIDE DEF k
<1>6. \A p \in 1..l : s[p] \in H /\ height[s[p]] = l - p
  BY <1>1, HeightAt
<1>7. start = l - k + 1
  BY <1>4, <1>6
<1>8. height \in [H -> Nat]
  <2>1. \A x \in H : height[x] \in Nat
    BY <1>1, SideLookup
  <2>2. height = [x \in H |-> Len(Ancestors[x]) - 1]
    BY <1>1 DEF SideOf, SideForest
  <2> HIDE DEF height, H
  <2> QED
    BY <2>1, <2>2
<1>9. IsMissing(u, d, b, k)
  BY <1>1, <1>4, <1>7, IterIs
<1>10. IsMissing(v, d, b, k)
  BY <1>1, <1>4, GetIs
<1> HIDE DEF u, v
<1>11. u = v
  <2>1. u \in Seq(H) /\ v \in Seq(H) /\ Rising(u, height) /\ Rising(v, height)
    BY <1>9, <1>10 DEF IsMissing
  <2>2. SameElements(u, v)
    BY <1>9, <1>10 DEF IsMissing, SameElements
  <2> HIDE DEF height, H
  <2> QED
    BY <1>8, <2>1, <2>2, RisingSame
<1>12. u \in Seq(H) /\ DOMAIN u = 1..Len(u)
  BY <1>9 DEF IsMissing
<1>13. ASSUME NEW x PROVE x \in Range(u) <=> x \in Range(s) \ d.bodies /\ height[x] >= start
  <2>1. x \in Range(u) <=> \E q \in 1..Len(u) : u[q] = x
    BY <1>12 DEF Range
  <2>2. x \in Range(s) <=> \E p \in 1..l : s[p] = x
    BY <1>2 DEF Range
  <2>3. \A p \in 1..(k - 1) : p \in 1..l /\ l - p >= l - k + 1
    <3> HIDE DEF l
    <3> QED
      BY <1>2, <1>4
  <2>4. \A p \in 1..l : l - p >= l - k + 1 => p \in 1..(k - 1)
    <3> HIDE DEF l
    <3> QED
      BY <1>2, <1>4
  <2>5. ASSUME x \in Range(u) PROVE x \in Range(s) \ d.bodies /\ height[x] >= start
    <3>1. PICK q \in 1..Len(u) : u[q] = x
      BY <2>1, <2>5
    <3>2. PICK p \in 1..(k - 1) : u[q] = s[p] /\ s[p] \notin d.bodies
      BY <1>9, <3>1 DEF IsMissing
    <3>3. p \in 1..l /\ l - p >= l - k + 1
      BY <2>3
    <3>4. x = s[p] /\ height[x] = l - p
      BY <1>6, <3>1, <3>2, <3>3
    <3> HIDE DEF height, start, l
    <3> QED
      BY <1>7, <2>2, <3>2, <3>3, <3>4
  <2>6. ASSUME x \in Range(s) \ d.bodies, height[x] >= start PROVE x \in Range(u)
    <3>1. PICK p \in 1..l : s[p] = x
      BY <2>2, <2>6
    <3>2. height[x] = l - p
      BY <1>6, <3>1
    <3>3. p \in 1..(k - 1)
      <4>1. l - p >= l - k + 1
        <5> HIDE DEF height, start, l
        <5> QED
          BY <1>7, <2>6, <3>2
      <4> QED
        BY <2>4, <4>1
    <3>4. \E q \in 1..Len(u) : u[q] = s[p]
      BY <1>9, <2>6, <3>1, <3>3 DEF IsMissing
    <3> QED
      BY <2>1, <3>1, <3>4
  <2> QED
    BY <2>5, <2>6
<1>14. Range(u) = {c \in Range(s) \ d.bodies : height[c] >= start}
  BY <1>13
<1>15. \A i, j \in DOMAIN u : i < j => height[u[i]] < height[u[j]]
  BY <1>9, <1>12 DEF IsMissing, Rising
<1> QED
  BY <1>5, <1>11, <1>14, <1>15 DEF u

\* Whatever the order in which headers, bodies and mainchain blocks arrive, the
\* skip lists lead to the n-th ancestor, the binary searches to the newest
\* shared block, the results of blind merged mining and the successors are
\* those of all that is stored, and both lists of missing bodies are complete
\* and in order: for every set of blocks and every MAX_BATCH_SIZE.
THEOREM ArchiveIsExact == ArchiveSpec => []ArchiveExact
<1>1. AInv(archive) => ArchiveExact
  BY TypeIs, AncestorsAre, CommonAre, ResultsAre, MissingAre DEF ArchiveExact
<1> QED
  BY <1>1, ArchiveInvariant, PTL

=============================================================================
