---------------------------- MODULE MinerProofs ----------------------------
(***************************************************************************)
(* Proofs about Miner, for any calls and bounds.                           *)
(*                                                                         *)
(* Both chains are trees whose blocks have larger numbers than their       *)
(* parents, and grow by blocks that are appended: the ancestors of a block *)
(* and what is verified there never change.  The functions that compute    *)
(* them are recursive; that they exist and what they compute is shown by   *)
(* looking at the least block for which it would not be so.                *)
(***************************************************************************)
EXTENDS Miner, FiniteSetTheorems, SequenceTheorems, WellFoundedInduction, TLAPS

\* A set of numbers has a least one.
LEMMA NatMin ==
    ASSUME NEW T \in SUBSET Nat, T # {}
    PROVE  \E n \in T : \A m \in T : n <= m
<1> DEFINE R == {ss \in Nat \X Nat : ss[1] < ss[2]}
<1>1. R = OpToRel(<, Nat)
  BY DEF OpToRel
<1>2. IsWellFoundedOn(R, Nat)
  BY <1>1, NatLessThanWellFounded
<1>3. PICK n \in T : \A m \in T : ~(<<m, n>> \in R)
  <2> HIDE DEF R
  <2> QED
    BY <1>2, WFMin
<1>4. ASSUME NEW m \in T
      PROVE  n <= m
  <2>1. <<m, n>> \notin R
    BY <1>3
  <2>2. m \in Nat /\ n \in Nat
    OBVIOUS
  <2> QED
    BY <2>1, <2>2
<1> QED
  BY <1>4

\* A set in which each number has a smaller one is empty.
LEMMA Descent ==
    ASSUME NEW Bad \in SUBSET Nat, \A a \in Bad : \E x \in Bad : x < a
    PROVE  Bad = {}
<1>1. SUFFICES ASSUME Bad # {} PROVE FALSE
  OBVIOUS
<1>2. PICK n \in Bad : \A m \in Bad : n <= m
  BY <1>1, NatMin
<1>3. PICK x \in Bad : x < n
  OBVIOUS
<1> QED
  BY <1>2, <1>3

\* A set of numbers up to n has a largest one.
LEMMA MaxOf ==
    ASSUME NEW n \in Nat, NEW S \in SUBSET (0..n), S # {}
    PROVE  Max(S) \in S /\ \A x \in S : x <= Max(S)
<1> DEFINE T == {k \in 0..n : n - k \in S}
<1>1. PICK s \in S : TRUE
  OBVIOUS
<1>2. n - s \in T
  <2>1. n - s \in 0..n /\ n - (n - s) = s
    BY <1>1
  <2> QED
    BY <2>1
<1>3. PICK k \in T : \A l \in T : k <= l
  <2>1. T \in SUBSET Nat
    OBVIOUS
  <2> HIDE DEF T
  <2> QED
    BY <1>2, <2>1, NatMin
<1>4. ASSUME NEW x \in S
      PROVE  n - k >= x
  <2>1. n - x \in 0..n /\ n - (n - x) = x
    OBVIOUS
  <2>2. k <= n - x
    BY <1>3, <2>1
  <2> QED
    BY <2>2
<1>5. \E y \in S : \A x \in S : y >= x
  BY <1>4
<1>6. Max(S) \in S /\ \A x \in S : Max(S) >= x
  BY <1>5 DEF Max
<1> QED
  BY <1>6

\* A function of 0..N that is z at 0 and at a what G makes of its value at p[a].
Computed(N, p, D, z, G) ==
    \E f \in [0..N -> D] : f[0] = z /\ \A a \in 1..N : f[a] = G[<<a, f[p[a]]>>]

\* A function is computed along a chain of parents, each with a smaller number.
LEMMA ChainRecursion ==
    ASSUME NEW N \in Nat, NEW p \in [1..N -> Nat], \A a \in 1..N : p[a] < a,
           NEW D, NEW z \in D, NEW G \in [(1..N) \X D -> D]
    PROVE  Computed(N, p, D, z, G)
<1> USE DEF Computed
<1> DEFINE Upto(n) ==
        \E f \in [0..n -> D] : f[0] = z /\ \A a \in 1..n : f[a] = G[<<a, f[p[a]]>>]
           Bad == {n \in 0..N : ~Upto(n)}
<1>1. SUFFICES Bad = {}
  <2>1. N \notin Bad
    BY <1>1
  <2> QED
    BY <2>1
<1>2. SUFFICES ASSUME Bad # {} PROVE FALSE
  OBVIOUS
<1>3. PICK n \in Bad : \A m \in Bad : n <= m
  <2>1. Bad \in SUBSET Nat
    OBVIOUS
  <2> HIDE DEF Bad
  <2> QED
    BY <1>2, <2>1, NatMin
<1>4. n \in 0..N /\ ~Upto(n)
  OBVIOUS
<1>5. CASE n = 0
  <2>1. [a \in 0..0 |-> z] \in [0..0 -> D] /\ [a \in 0..0 |-> z][0] = z
    OBVIOUS
  <2>2. Upto(0)
    <3> WITNESS [a \in 0..0 |-> z] \in [0..0 -> D]
    <3> QED
      BY <2>1
  <2> QED
    BY <1>4, <1>5, <2>2
<1>6. CASE n # 0
  <2>1. n - 1 \in 0..N /\ n - 1 < n /\ n \in 1..N
    BY <1>4, <1>6
  <2>2. n - 1 \notin Bad
    <3> HIDE DEF Bad
    <3>1. ~(n <= n - 1)
      BY <2>1
    <3> QED
      BY <1>3, <3>1
  <2>3. Upto(n - 1)
    BY <2>1, <2>2
  <2>4. PICK f \in [0..(n - 1) -> D] :
            f[0] = z /\ \A a \in 1..(n - 1) : f[a] = G[<<a, f[p[a]]>>]
    BY <2>3
  <2> DEFINE g == [a \in 0..n |-> IF a = n THEN G[<<n, f[p[n]]>>] ELSE f[a]]
  <2>5. p[n] \in 0..(n - 1)
    BY <2>1
  <2>6. G[<<n, f[p[n]]>>] \in D
    <3>1. f[p[n]] \in D
      BY <2>4, <2>5
    <3>2. <<n, f[p[n]]>> \in (1..N) \X D
      BY <2>1, <3>1
    <3> QED
      BY <3>2
  <2>7. g \in [0..n -> D]
    <3> SUFFICES ASSUME NEW a \in 0..n
                 PROVE  (IF a = n THEN G[<<n, f[p[n]]>>] ELSE f[a]) \in D
      OBVIOUS
    <3>1. a # n => a \in 0..(n - 1)
      BY <2>1
    <3> QED
      BY <2>4, <2>6, <3>1
  <2>8. \A a \in 0..(n - 1) : g[a] = f[a]
    BY <2>1
  <2>9. g[0] = z
    BY <2>1, <2>4, <2>8
  <2>10. ASSUME NEW a \in 1..n
         PROVE  g[a] = G[<<a, g[p[a]]>>]
    <3>1. a \in 1..N /\ p[a] \in 0..(n - 1)
      BY <2>1
    <3>2. g[p[a]] = f[p[a]]
      BY <2>8, <3>1
    <3>3. CASE a = n
      <4>1. g[a] = G[<<n, f[p[n]]>>]
        BY <2>1, <3>3
      <4> HIDE DEF g
      <4> QED
        BY <3>2, <3>3, <4>1
    <3>4. CASE a # n
      <4>1. a \in 1..(n - 1) /\ a \in 0..(n - 1)
        BY <2>1, <3>4
      <4> QED
        BY <2>4, <2>8, <3>2, <4>1
    <3> QED
      BY <3>3, <3>4
  <2>11. Upto(n)
    <3> HIDE DEF g
    <3> WITNESS g \in [0..n -> D]
    <3> QED
      BY <2>9, <2>10
  <2> QED
    BY <1>4, <2>11
<1> QED
  BY <1>5, <1>6

-----------------------------------------------------------------------------
(***************************************************************************)
(* The two chains, as values s of main and t of side.                      *)
(***************************************************************************)
MainRec == [parent : Nat, bmm_commitment : Nat]

SideRec == [prev_side_hash : Nat, prev_main_hash : Nat]

MainChain(s) == s \in Seq(MainRec) /\ \A a \in 1..Len(s) : s[a].parent < a

SideChain(t) == t \in Seq(SideRec) /\ \A b \in 1..Len(t) : t[b].prev_side_hash < b

\* A mainchain block commits to a block that has its parent in the header.
Committed(s, t) ==
    \A a \in 1..Len(s) :
        s[a].bmm_commitment # 0 =>
            /\ s[a].bmm_commitment \in 1..Len(t)
            /\ t[s[a].bmm_commitment].prev_main_hash = s[a].parent

\* MainAncestors, Ancestors and VerifiedAt, as functions of the chains.
MainUp(s) ==
    CHOOSE up : up = [a \in 0..Len(s) |-> IF a = 0 THEN {0} ELSE {a} \cup up[s[a].parent]]

SideUp(t) ==
    CHOOSE up : up = [a \in 0..Len(t) |-> IF a = 0 THEN {} ELSE {a} \cup up[t[a].prev_side_hash]]

VerifiedUp(s, t) ==
    CHOOSE at : at =
        [a \in 0..Len(s) |->
            IF a = 0 THEN {}
            ELSE LET before == at[s[a].parent]
                     b == s[a].bmm_commitment
                 IN  IF b # 0 /\ t[b].prev_side_hash \in before \cup {0}
                     THEN before \cup {b} ELSE before]

\* The functions are those of Miner.
LEMMA UpIsMiner ==
    /\ \A m : MainAncestors(m) = MainUp(main)[m]
    /\ \A b : Ancestors(b) = SideUp(side)[b]
    /\ \A m : VerifiedAt(m) = VerifiedUp(main, side)[m]
  BY DEF MainAncestors, Ancestors, VerifiedAt, MainUp, SideUp, VerifiedUp

\* The same in the next state.
LEMMA UpIsMinerNext ==
    /\ \A m : MainAncestors(m)' = MainUp(main')[m]
    /\ \A b : Ancestors(b)' = SideUp(side')[b]
    /\ \A m : VerifiedAt(m)' = VerifiedUp(main', side')[m]
  BY DEF MainAncestors, Ancestors, VerifiedAt, MainUp, SideUp, VerifiedUp

\* The fields of blocks.
LEMMA MainChainTypes ==
    ASSUME NEW s, MainChain(s)
    PROVE  /\ Len(s) \in Nat
           /\ \A a \in 1..Len(s) : /\ s[a] \in MainRec
                                   /\ s[a].parent \in Nat /\ s[a].parent < a
                                   /\ s[a].bmm_commitment \in Nat
<1>1. Len(s) \in Nat /\ \A a \in 1..Len(s) : s[a] \in MainRec
  BY LenProperties, ElementOfSeq DEF MainChain
<1> QED
  BY <1>1 DEF MainChain, MainRec

\* The fields of sidechain blocks.
LEMMA SideChainTypes ==
    ASSUME NEW t, SideChain(t)
    PROVE  /\ Len(t) \in Nat
           /\ \A b \in 1..Len(t) : /\ t[b] \in SideRec
                                   /\ t[b].prev_side_hash \in Nat /\ t[b].prev_side_hash < b
                                   /\ t[b].prev_main_hash \in Nat
<1>1. Len(t) \in Nat /\ \A b \in 1..Len(t) : t[b] \in SideRec
  BY LenProperties, ElementOfSeq DEF SideChain
<1> QED
  BY <1>1 DEF SideChain, SideRec

\* The ancestors of a mainchain block: itself and those of its parent.
LEMMA MainUpIs ==
    ASSUME NEW s, MainChain(s)
    PROVE  /\ MainUp(s) \in [0..Len(s) -> SUBSET (0..Len(s))]
           /\ MainUp(s)[0] = {0}
           /\ \A a \in 1..Len(s) : MainUp(s)[a] = {a} \cup MainUp(s)[s[a].parent]
<1> DEFINE N == Len(s)
           D == SUBSET (0..N)
           p == [a \in 1..N |-> s[a].parent]
           z == {0}
           G == [x \in (1..N) \X D |-> {x[1]} \cup x[2]]
<1>1. N \in Nat /\ \A a \in 1..N : s[a].parent \in Nat /\ s[a].parent < a
  BY MainChainTypes
<1>2. p \in [1..N -> Nat] /\ \A a \in 1..N : p[a] < a
  BY <1>1
<1>3. z \in D /\ G \in [(1..N) \X D -> D]
  BY <1>1
<1>4. PICK f \in [0..N -> D] : f[0] = z /\ \A a \in 1..N : f[a] = G[<<a, f[p[a]]>>]
  <2> HIDE DEF N, D, p, z, G
  <2>1. Computed(N, p, D, z, G)
    BY <1>1, <1>2, <1>3, ChainRecursion
  <2> QED
    BY <2>1 DEF Computed
<1>5. ASSUME NEW a \in 1..N
      PROVE  f[a] = {a} \cup f[s[a].parent]
  <2>1. s[a].parent \in 0..N /\ p[a] = s[a].parent
    BY <1>1
  <2>2. f[s[a].parent] \in D
    BY <1>4, <2>1
  <2>3. G[<<a, f[s[a].parent]>>] = {a} \cup f[s[a].parent]
    BY <2>2
  <2> HIDE DEF N, D, p, G
  <2> QED
    BY <1>4, <2>1, <2>3
<1> DEFINE Eq(up) == up = [a \in 0..N |-> IF a = 0 THEN {0} ELSE {a} \cup up[s[a].parent]]
<1>6. Eq(f)
  <2>1. ASSUME NEW a \in 0..N
        PROVE  f[a] = IF a = 0 THEN {0} ELSE {a} \cup f[s[a].parent]
    BY <1>1, <1>4, <1>5
  <2> QED
    BY <1>4, <2>1
<1>7. Eq(MainUp(s))
  <2>1. MainUp(s) = CHOOSE up : Eq(up)
    BY DEF MainUp
  <2> HIDE DEF Eq
  <2> QED
    BY <1>6, <2>1
<1>8. /\ DOMAIN MainUp(s) = 0..N
      /\ MainUp(s)[0] = {0}
      /\ \A a \in 1..N : MainUp(s)[a] = {a} \cup MainUp(s)[s[a].parent]
  BY <1>1, <1>7
<1> DEFINE Bad == {a \in 0..N : MainUp(s)[a] \notin D}
<1>9. Bad = {}
  <2>1. SUFFICES ASSUME Bad # {} PROVE FALSE
    OBVIOUS
  <2>2. PICK a \in Bad : \A x \in Bad : a <= x
    <3>1. Bad \in SUBSET Nat
      BY <1>1
    <3> HIDE DEF Bad
    <3> QED
      BY <2>1, <3>1, NatMin
  <2>3. a \in 1..N
    BY <1>3, <1>8
  <2>4. s[a].parent \in 0..N /\ ~(a <= s[a].parent)
    BY <1>1, <2>3
  <2>5. MainUp(s)[s[a].parent] \in D
    BY <2>2, <2>4
  <2> QED
    BY <1>8, <2>3, <2>5
<1> QED
  BY <1>7, <1>8, <1>9

\* The ancestors of a sidechain block, itself included.
LEMMA SideUpIs ==
    ASSUME NEW t, SideChain(t)
    PROVE  /\ SideUp(t) \in [0..Len(t) -> SUBSET (1..Len(t))]
           /\ SideUp(t)[0] = {}
           /\ \A a \in 1..Len(t) : SideUp(t)[a] = {a} \cup SideUp(t)[t[a].prev_side_hash]
<1> DEFINE N == Len(t)
           D == SUBSET (1..N)
           p == [a \in 1..N |-> t[a].prev_side_hash]
           z == {}
           G == [x \in (1..N) \X D |-> {x[1]} \cup x[2]]
<1>1. N \in Nat /\ \A a \in 1..N : t[a].prev_side_hash \in Nat /\ t[a].prev_side_hash < a
  BY SideChainTypes
<1>2. p \in [1..N -> Nat] /\ \A a \in 1..N : p[a] < a
  BY <1>1
<1>3. z \in D /\ G \in [(1..N) \X D -> D]
  BY <1>1
<1>4. PICK f \in [0..N -> D] : f[0] = z /\ \A a \in 1..N : f[a] = G[<<a, f[p[a]]>>]
  <2> HIDE DEF N, D, p, z, G
  <2>1. Computed(N, p, D, z, G)
    BY <1>1, <1>2, <1>3, ChainRecursion
  <2> QED
    BY <2>1 DEF Computed
<1>5. ASSUME NEW a \in 1..N
      PROVE  f[a] = {a} \cup f[t[a].prev_side_hash]
  <2>1. t[a].prev_side_hash \in 0..N /\ p[a] = t[a].prev_side_hash
    BY <1>1
  <2>2. f[t[a].prev_side_hash] \in D
    BY <1>4, <2>1
  <2>3. G[<<a, f[t[a].prev_side_hash]>>] = {a} \cup f[t[a].prev_side_hash]
    BY <2>2
  <2> HIDE DEF N, D, p, G
  <2> QED
    BY <1>4, <2>1, <2>3
<1> DEFINE Eq(up) == up = [a \in 0..N |-> IF a = 0 THEN {} ELSE {a} \cup up[t[a].prev_side_hash]]
<1>6. Eq(f)
  <2>1. ASSUME NEW a \in 0..N
        PROVE  f[a] = IF a = 0 THEN {} ELSE {a} \cup f[t[a].prev_side_hash]
    BY <1>1, <1>4, <1>5
  <2> QED
    BY <1>4, <2>1
<1>7. Eq(SideUp(t))
  <2>1. SideUp(t) = CHOOSE up : Eq(up)
    BY DEF SideUp
  <2> HIDE DEF Eq
  <2> QED
    BY <1>6, <2>1
<1>8. /\ DOMAIN SideUp(t) = 0..N
      /\ SideUp(t)[0] = {}
      /\ \A a \in 1..N : SideUp(t)[a] = {a} \cup SideUp(t)[t[a].prev_side_hash]
  BY <1>1, <1>7
<1> DEFINE Bad == {a \in 0..N : SideUp(t)[a] \notin D}
<1>9. Bad = {}
  <2>1. SUFFICES ASSUME Bad # {} PROVE FALSE
    OBVIOUS
  <2>2. PICK a \in Bad : \A x \in Bad : a <= x
    <3>1. Bad \in SUBSET Nat
      BY <1>1
    <3> HIDE DEF Bad
    <3> QED
      BY <2>1, <3>1, NatMin
  <2>3. a \in 1..N
    BY <1>3, <1>8
  <2>4. t[a].prev_side_hash \in 0..N /\ ~(a <= t[a].prev_side_hash)
    BY <1>1, <2>3
  <2>5. SideUp(t)[t[a].prev_side_hash] \in D
    BY <2>2, <2>4
  <2> QED
    BY <1>8, <2>3, <2>5
<1> QED
  BY <1>7, <1>8, <1>9

\* What is verified at a, if before is what is verified at its parent.
StepAt(s, t, a, before) ==
    IF s[a].bmm_commitment # 0 /\ t[s[a].bmm_commitment].prev_side_hash \in before \cup {0}
    THEN before \cup {s[a].bmm_commitment} ELSE before

\* What is verified at a mainchain block: what is at its parent, and the block to
\* which it commits, if the parent of that one is.
LEMMA VerifiedUpIs ==
    ASSUME NEW s, NEW t, MainChain(s), Committed(s, t)
    PROVE  /\ VerifiedUp(s, t) \in [0..Len(s) -> SUBSET (1..Len(t))]
           /\ VerifiedUp(s, t)[0] = {}
           /\ \A a \in 1..Len(s) :
                 VerifiedUp(s, t)[a] = StepAt(s, t, a, VerifiedUp(s, t)[s[a].parent])
<1> DEFINE N == Len(s)
           D == SUBSET (1..Len(t))
           p == [a \in 1..N |-> s[a].parent]
           z == {}
           G == [x \in (1..N) \X D |-> StepAt(s, t, x[1], x[2])]
<1>1. N \in Nat /\ \A a \in 1..N : s[a].parent \in Nat /\ s[a].parent < a
  BY MainChainTypes
<1>2. p \in [1..N -> Nat] /\ \A a \in 1..N : p[a] < a
  BY <1>1
<1>3. z \in D /\ G \in [(1..N) \X D -> D]
  <2>1. ASSUME NEW a \in 1..N, NEW before \in D
        PROVE  StepAt(s, t, a, before) \in D
    BY DEF Committed, StepAt
  <2> QED
    BY <2>1
<1>4. PICK f \in [0..N -> D] : f[0] = z /\ \A a \in 1..N : f[a] = G[<<a, f[p[a]]>>]
  <2> HIDE DEF N, D, p, z, G
  <2>1. Computed(N, p, D, z, G)
    BY <1>1, <1>2, <1>3, ChainRecursion
  <2> QED
    BY <2>1 DEF Computed
<1>5. ASSUME NEW a \in 1..N
      PROVE  f[a] = StepAt(s, t, a, f[s[a].parent])
  <2>1. s[a].parent \in 0..N /\ p[a] = s[a].parent
    BY <1>1
  <2>2. f[s[a].parent] \in D
    BY <1>4, <2>1
  <2>3. G[<<a, f[s[a].parent]>>] = StepAt(s, t, a, f[s[a].parent])
    BY <2>2
  <2> HIDE DEF N, D, p, G
  <2> QED
    BY <1>4, <2>1, <2>3
<1> DEFINE Eq(up) == up = [a \in 0..N |-> IF a = 0 THEN {} ELSE StepAt(s, t, a, up[s[a].parent])]
<1>6. Eq(f)
  <2>1. ASSUME NEW a \in 0..N
        PROVE  f[a] = IF a = 0 THEN {} ELSE StepAt(s, t, a, f[s[a].parent])
    BY <1>1, <1>4, <1>5
  <2> QED
    BY <1>4, <2>1
<1>7. Eq(VerifiedUp(s, t))
  <2>1. VerifiedUp(s, t) = CHOOSE up : Eq(up)
    BY DEF VerifiedUp, StepAt
  <2> HIDE DEF Eq
  <2> QED
    BY <1>6, <2>1
<1>8. /\ DOMAIN VerifiedUp(s, t) = 0..N
      /\ VerifiedUp(s, t)[0] = {}
      /\ \A a \in 1..N : VerifiedUp(s, t)[a] = StepAt(s, t, a, VerifiedUp(s, t)[s[a].parent])
  <2>1. ASSUME NEW up, Eq(up)
        PROVE  /\ DOMAIN up = 0..N
               /\ \A a \in 0..N : up[a] = IF a = 0 THEN {} ELSE StepAt(s, t, a, up[s[a].parent])
    BY <2>1
  <2>2. /\ DOMAIN VerifiedUp(s, t) = 0..N
        /\ \A a \in 0..N : VerifiedUp(s, t)[a] =
              IF a = 0 THEN {} ELSE StepAt(s, t, a, VerifiedUp(s, t)[s[a].parent])
    <3> HIDE DEF Eq
    <3> QED
      BY <1>7, <2>1
  <2> HIDE DEF Eq
  <2> QED
    BY <1>1, <2>2
<1> DEFINE Bad == {a \in 0..N : VerifiedUp(s, t)[a] \notin D}
<1>9. Bad = {}
  <2>1. SUFFICES ASSUME Bad # {} PROVE FALSE
    OBVIOUS
  <2>2. PICK a \in Bad : \A x \in Bad : a <= x
    <3>1. Bad \in SUBSET Nat
      BY <1>1
    <3> HIDE DEF Bad
    <3> QED
      BY <2>1, <3>1, NatMin
  <2>3. a \in 1..N
    BY <1>3, <1>8
  <2>4. s[a].parent \in 0..N /\ ~(a <= s[a].parent)
    BY <1>1, <2>3
  <2>5. VerifiedUp(s, t)[s[a].parent] \in D
    BY <2>2, <2>4
  <2> QED
    BY <1>8, <2>3, <2>5 DEF Committed, StepAt
<1> QED
  BY <1>7, <1>8, <1>9

-----------------------------------------------------------------------------
(***************************************************************************)
(* The mainchain is a tree.                                                *)
(***************************************************************************)
\* The ancestors of a block are not after it.
LEMMA MainUpBelow ==
    ASSUME NEW s, MainChain(s), NEW a \in 0..Len(s)
    PROVE  MainUp(s)[a] \in SUBSET (0..a) /\ 0 \in MainUp(s)[a] /\ a \in MainUp(s)[a]
<1> DEFINE Good(x) == MainUp(s)[x] \in SUBSET (0..x) /\ 0 \in MainUp(s)[x] /\ x \in MainUp(s)[x]
           Bad == {x \in 0..Len(s) : ~Good(x)}
<1>1. ASSUME NEW x \in Bad
      PROVE  \E y \in Bad : y < x
  <2>1. x \in 1..Len(s)
    BY MainUpIs, MainChainTypes
  <2>2. s[x].parent \in 0..Len(s) /\ s[x].parent < x
    BY <2>1, MainChainTypes
  <2>3. MainUp(s)[x] = {x} \cup MainUp(s)[s[x].parent]
    BY <2>1, MainUpIs
  <2>4. Good(s[x].parent) => Good(x)
    BY <2>1, <2>2, <2>3
  <2> QED
    BY <2>2, <2>4
<1>2. Bad = {}
  <2>1. Bad \in SUBSET Nat
    BY MainChainTypes
  <2> HIDE DEF Bad
  <2> QED
    BY <1>1, <2>1, Descent
<1> QED
  BY <1>2

\* The ancestors of an ancestor are ancestors.
LEMMA MainUpTransitive ==
    ASSUME NEW s, MainChain(s), NEW a \in 0..Len(s), NEW x \in MainUp(s)[a]
    PROVE  x \in 0..Len(s) /\ MainUp(s)[x] \subseteq MainUp(s)[a]
<1> DEFINE Good(y) == \A w \in MainUp(s)[y] : MainUp(s)[w] \subseteq MainUp(s)[y]
           Bad == {y \in 0..Len(s) : ~Good(y)}
<1>1. ASSUME NEW y \in Bad
      PROVE  \E w \in Bad : w < y
  <2>1. y \in 1..Len(s)
    BY MainUpIs, MainChainTypes
  <2>2. s[y].parent \in 0..Len(s) /\ s[y].parent < y
    BY <2>1, MainChainTypes
  <2>3. MainUp(s)[y] = {y} \cup MainUp(s)[s[y].parent]
    BY <2>1, MainUpIs
  <2>4. Good(s[y].parent) => Good(y)
    BY <2>3
  <2> QED
    BY <2>2, <2>4
<1>2. Bad = {}
  <2>1. Bad \in SUBSET Nat
    BY MainChainTypes
  <2> HIDE DEF Bad
  <2> QED
    BY <1>1, <2>1, Descent
<1>3. Good(a)
  BY <1>2
<1>4. x \in 0..Len(s)
  BY MainUpIs
<1> QED
  BY <1>3, <1>4

\* Of two ancestors of a block, one is an ancestor of the other.
LEMMA MainUpLinear ==
    ASSUME NEW s, MainChain(s), NEW a \in 0..Len(s),
           NEW x \in MainUp(s)[a], NEW y \in MainUp(s)[a], x <= y
    PROVE  x \in MainUp(s)[y]
<1> DEFINE Good(b) == \A v, w \in MainUp(s)[b] : v <= w => v \in MainUp(s)[w]
           Bad == {b \in 0..Len(s) : ~Good(b)}
<1>1. ASSUME NEW b \in Bad
      PROVE  \E c \in Bad : c < b
  <2>1. b \in 0..Len(s) /\ ~Good(b)
    OBVIOUS
  <2>2. b # 0
    <3> SUFFICES ASSUME b = 0 PROVE FALSE
      OBVIOUS
    <3> QED
      BY <2>1, MainUpIs
  <2>3. b \in 1..Len(s)
    BY <2>1, <2>2, MainChainTypes
  <2>4. s[b].parent \in 0..Len(s) /\ s[b].parent < b
    BY <2>3, MainChainTypes
  <2>5. MainUp(s)[b] = {b} \cup MainUp(s)[s[b].parent]
    BY <2>3, MainUpIs
  <2>6. MainUp(s)[s[b].parent] \in SUBSET (0..s[b].parent)
    BY <2>4, MainUpBelow
  <2>7. ASSUME Good(s[b].parent), NEW v \in MainUp(s)[b], NEW w \in MainUp(s)[b], v <= w
        PROVE  v \in MainUp(s)[w]
    <3>1. CASE w = b
      BY <3>1
    <3>2. CASE w # b
      <4>1. w \in MainUp(s)[s[b].parent] /\ w \in 0..s[b].parent
        BY <2>5, <2>6, <3>2
      <4>2. v # b
        BY <2>4, <2>7, <4>1
      <4> QED
        BY <2>5, <2>7, <4>1, <4>2
    <3> QED
      BY <3>1, <3>2
  <2>8. Good(s[b].parent) => Good(b)
    BY <2>7
  <2> QED
    BY <2>1, <2>4, <2>8
<1>2. Bad = {}
  <2>1. Bad \in SUBSET Nat
    BY MainChainTypes
  <2> HIDE DEF Bad
  <2> QED
    BY <1>1, <2>1, Descent
<1>3. Good(a)
  BY <1>2
<1> QED
  BY <1>3

\* LastCommonMainAncestor, as a function of the chain.
LastCommon(s, m, n) == Max(MainUp(s)[m] \cap MainUp(s)[n])

\* The last common ancestor has all common ancestors.
LEMMA LastCommonIs ==
    ASSUME NEW s, MainChain(s), NEW m \in 0..Len(s), NEW n \in 0..Len(s)
    PROVE  /\ LastCommon(s, m, n) \in 0..Len(s)
           /\ LastCommon(s, m, n) \in MainUp(s)[m] /\ LastCommon(s, m, n) \in MainUp(s)[n]
           /\ \A x \in MainUp(s)[m] \cap MainUp(s)[n] : x \in MainUp(s)[LastCommon(s, m, n)]
<1> DEFINE c == LastCommon(s, m, n)
           S == MainUp(s)[m] \cap MainUp(s)[n]
<1>1. S \in SUBSET (0..Len(s)) /\ 0 \in S /\ Len(s) \in Nat
  BY MainUpIs, MainUpBelow, MainChainTypes
<1>2. c \in S /\ \A x \in S : x <= c
  <2> HIDE DEF S
  <2>1. c = Max(S)
    BY DEF S, LastCommon
  <2> QED
    BY <1>1, <2>1, MaxOf
<1>3. ASSUME NEW x \in S
      PROVE  x \in MainUp(s)[c]
  <2>1. x <= c /\ x \in MainUp(s)[m] /\ c \in MainUp(s)[m]
    BY <1>2
  <2> QED
    BY <2>1, MainUpLinear
<1> QED
  BY <1>1, <1>2, <1>3

\* An ancestor that comes after another one, which is not after c, is not
\* after c: the child of a block below c, on the chain of c, is below c or c.
LEMMA ChildBelow ==
    ASSUME NEW s, MainChain(s), NEW a \in 0..Len(s), NEW c \in MainUp(s)[a],
           NEW m \in MainUp(s)[a], m # 0, s[m].parent \in MainUp(s)[c], s[m].parent # c
    PROVE  m \in MainUp(s)[c]
<1>1. m \in 1..Len(s) /\ c \in 0..Len(s) /\ Len(s) \in Nat
  BY MainUpIs, MainChainTypes
<1>2. CASE m <= c
  BY <1>2, MainUpLinear
<1>3. CASE ~(m <= c)
  <2>1. c \in MainUp(s)[m]
    <3>1. c <= m
      BY <1>1, <1>3
    <3> QED
      BY <3>1, MainUpLinear
  <2>2. c \in MainUp(s)[s[m].parent]
    BY <1>1, <1>3, <2>1, MainUpIs
  <2>3. s[m].parent \in 0..Len(s)
    BY <1>1, MainChainTypes
  <2>4. c <= s[m].parent
    BY <2>2, <2>3, MainUpBelow
  <2>5. s[m].parent <= c
    BY <1>1, MainUpBelow
  <2> QED
    BY <1>1, <2>3, <2>4, <2>5
<1> QED
  BY <1>2, <1>3

-----------------------------------------------------------------------------
(***************************************************************************)
(* What is verified.                                                       *)
(***************************************************************************)
\* The ancestors of a sidechain block are not after it.
LEMMA SideUpBelow ==
    ASSUME NEW t, SideChain(t), NEW b \in 0..Len(t)
    PROVE  SideUp(t)[b] \in SUBSET (1..b) /\ (b # 0 => b \in SideUp(t)[b])
<1> DEFINE Good(x) == SideUp(t)[x] \in SUBSET (1..x)
           Bad == {x \in 0..Len(t) : ~Good(x)}
<1>1. ASSUME NEW x \in Bad
      PROVE  \E y \in Bad : y < x
  <2>1. x \in 1..Len(t)
    BY SideUpIs, SideChainTypes
  <2>2. t[x].prev_side_hash \in 0..Len(t) /\ t[x].prev_side_hash < x
    BY <2>1, SideChainTypes
  <2>3. SideUp(t)[x] = {x} \cup SideUp(t)[t[x].prev_side_hash]
    BY <2>1, SideUpIs
  <2>4. Good(t[x].prev_side_hash) => Good(x)
    BY <2>1, <2>2, <2>3
  <2> QED
    BY <2>2, <2>4
<1>2. Bad = {}
  <2>1. Bad \in SUBSET Nat
    BY SideChainTypes
  <2> HIDE DEF Bad
  <2> QED
    BY <1>1, <2>1, Descent
<1>3. b # 0 => b \in SideUp(t)[b]
  BY SideUpIs, SideChainTypes
<1> QED
  BY <1>2, <1>3

\* What is verified at an ancestor is verified.
LEMMA VerifiedGrows ==
    ASSUME NEW s, NEW t, MainChain(s), Committed(s, t),
           NEW a \in 0..Len(s), NEW x \in MainUp(s)[a]
    PROVE  VerifiedUp(s, t)[x] \subseteq VerifiedUp(s, t)[a]
<1> DEFINE Good(y) == \A w \in MainUp(s)[y] : VerifiedUp(s, t)[w] \subseteq VerifiedUp(s, t)[y]
           Bad == {y \in 0..Len(s) : ~Good(y)}
<1>1. ASSUME NEW y \in Bad
      PROVE  \E w \in Bad : w < y
  <2>1. y \in 1..Len(s)
    BY MainUpIs, MainChainTypes
  <2>2. s[y].parent \in 0..Len(s) /\ s[y].parent < y
    BY <2>1, MainChainTypes
  <2>3. MainUp(s)[y] = {y} \cup MainUp(s)[s[y].parent]
    BY <2>1, MainUpIs
  <2>4. VerifiedUp(s, t)[s[y].parent] \subseteq VerifiedUp(s, t)[y]
    <3>1. VerifiedUp(s, t)[y] = StepAt(s, t, y, VerifiedUp(s, t)[s[y].parent])
      BY <2>1, VerifiedUpIs
    <3> QED
      BY <3>1 DEF StepAt
  <2>5. Good(s[y].parent) => Good(y)
    BY <2>3, <2>4
  <2> QED
    BY <2>2, <2>5
<1>2. Bad = {}
  <2>1. Bad \in SUBSET Nat
    BY MainChainTypes
  <2> HIDE DEF Bad
  <2> QED
    BY <1>1, <2>1, Descent
<1> QED
  BY <1>2

\* A verified block has a mainchain block that commits to it, after the one in
\* its header, where its parent is verified.
LEMMA VerifiedBy ==
    ASSUME NEW s, NEW t, MainChain(s), Committed(s, t),
           NEW a \in 0..Len(s), NEW b \in VerifiedUp(s, t)[a]
    PROVE  /\ b \in 1..Len(t)
           /\ \E m \in MainUp(s)[a] \ {0} :
                 /\ s[m].bmm_commitment = b
                 /\ s[m].parent = t[b].prev_main_hash
                 /\ t[b].prev_side_hash \in VerifiedUp(s, t)[s[m].parent] \cup {0}
                 /\ b \in VerifiedUp(s, t)[m]
<1> DEFINE By(m, y, v) ==
              /\ s[m].bmm_commitment = v
              /\ s[m].parent = t[v].prev_main_hash
              /\ t[v].prev_side_hash \in VerifiedUp(s, t)[s[m].parent] \cup {0}
              /\ v \in VerifiedUp(s, t)[m]
           Good(y) == \A v \in VerifiedUp(s, t)[y] : \E m \in MainUp(s)[y] \ {0} : By(m, y, v)
           Bad == {y \in 0..Len(s) : ~Good(y)}
<1>1. ASSUME NEW y \in Bad
      PROVE  \E w \in Bad : w < y
  <2>1. y \in 1..Len(s)
    BY VerifiedUpIs, MainChainTypes
  <2>2. s[y].parent \in 0..Len(s) /\ s[y].parent < y
    BY <2>1, MainChainTypes
  <2>3. MainUp(s)[y] = {y} \cup MainUp(s)[s[y].parent]
    BY <2>1, MainUpIs
  <2>4. VerifiedUp(s, t)[y] = StepAt(s, t, y, VerifiedUp(s, t)[s[y].parent])
    BY <2>1, VerifiedUpIs
  <2>5. ASSUME Good(s[y].parent), NEW v \in VerifiedUp(s, t)[y]
        PROVE  \E m \in MainUp(s)[y] \ {0} : By(m, y, v)
    <3>1. CASE v \in VerifiedUp(s, t)[s[y].parent]
      BY <2>3, <2>5, <3>1
    <3>2. CASE v \notin VerifiedUp(s, t)[s[y].parent]
      <4>1. /\ s[y].bmm_commitment = v /\ v # 0
            /\ t[v].prev_side_hash \in VerifiedUp(s, t)[s[y].parent] \cup {0}
        BY <2>4, <3>2 DEF StepAt
      <4>2. s[y].parent = t[v].prev_main_hash
        BY <2>1, <4>1 DEF Committed
      <4>3. By(y, y, v) /\ y \in MainUp(s)[y] \ {0}
        BY <2>1, <2>3, <4>1, <4>2
      <4> QED
        BY <4>3
    <3> QED
      BY <3>1, <3>2
  <2>6. Good(s[y].parent) => Good(y)
    BY <2>5
  <2> QED
    BY <2>2, <2>6
<1>2. Bad = {}
  <2>1. Bad \in SUBSET Nat
    BY MainChainTypes
  <2> HIDE DEF Bad
  <2> QED
    BY <1>1, <2>1, Descent
<1>3. Good(a)
  BY <1>2
<1>4. b \in 1..Len(t)
  BY VerifiedUpIs
<1> QED
  BY <1>3, <1>4

\* The ancestors of a verified block are verified.
LEMMA VerifiedAncestors ==
    ASSUME NEW s, NEW t, MainChain(s), SideChain(t), Committed(s, t),
           NEW a \in 0..Len(s), NEW b \in VerifiedUp(s, t)[a]
    PROVE  SideUp(t)[b] \subseteq VerifiedUp(s, t)[a]
<1> DEFINE Good(y) == \A v \in VerifiedUp(s, t)[y] : SideUp(t)[v] \subseteq VerifiedUp(s, t)[y]
           Bad == {y \in 0..Len(s) : ~Good(y)}
<1>1. ASSUME NEW y \in Bad
      PROVE  \E w \in Bad : w < y
  <2>1. y \in 1..Len(s)
    BY VerifiedUpIs, MainChainTypes
  <2>2. s[y].parent \in 0..Len(s) /\ s[y].parent < y
    BY <2>1, MainChainTypes
  <2>3. VerifiedUp(s, t)[y] = StepAt(s, t, y, VerifiedUp(s, t)[s[y].parent])
    BY <2>1, VerifiedUpIs
  <2>4. ASSUME Good(s[y].parent), NEW v \in VerifiedUp(s, t)[y]
        PROVE  SideUp(t)[v] \subseteq VerifiedUp(s, t)[y]
    <3>1. CASE v \in VerifiedUp(s, t)[s[y].parent]
      BY <2>3, <2>4, <3>1 DEF StepAt
    <3>2. CASE v \notin VerifiedUp(s, t)[s[y].parent]
      <4>1. /\ s[y].bmm_commitment = v /\ v # 0
            /\ t[v].prev_side_hash \in VerifiedUp(s, t)[s[y].parent] \cup {0}
            /\ VerifiedUp(s, t)[y] = VerifiedUp(s, t)[s[y].parent] \cup {v}
        BY <2>3, <3>2 DEF StepAt
      <4>2. v \in 1..Len(t)
        BY <2>1, <4>1 DEF Committed
      <4>3. SideUp(t)[v] = {v} \cup SideUp(t)[t[v].prev_side_hash] /\ SideUp(t)[0] = {}
        BY <4>2, SideUpIs
      <4> QED
        BY <2>4, <4>1, <4>3
    <3> QED
      BY <3>1, <3>2
  <2>5. Good(s[y].parent) => Good(y)
    BY <2>4
  <2> QED
    BY <2>2, <2>5
<1>2. Bad = {}
  <2>1. Bad \in SUBSET Nat
    BY MainChainTypes
  <2> HIDE DEF Bad
  <2> QED
    BY <1>1, <2>1, Descent
<1> QED
  BY <1>2

-----------------------------------------------------------------------------
(***************************************************************************)
(* The choice of a parent.                                                 *)
(***************************************************************************)
\* PrevSideHash, as a function of the chains.
Common(s, t, tip, m) == LastCommon(s, m, t[tip].prev_main_hash)

Before(s, t, tip, m) ==
    {b \in SideUp(t)[tip] : /\ t[b].prev_main_hash # Common(s, t, tip, m)
                            /\ t[b].prev_main_hash \in MainUp(s)[Common(s, t, tip, m)]}

Chosen(s, t, tip, m) ==
    IF tip = 0 \/ Common(s, t, tip, m) = t[tip].prev_main_hash THEN tip
    ELSE Max(Before(s, t, tip, m) \cup {0})

\* What MinesOnVerified says of a call.
MinedOn(s, t, tip, m, prev) ==
    LET verified == SideUp(t)[tip] \cap VerifiedUp(s, t)[m]
    IN  \/ /\ prev \in verified \cup {0}
           /\ \A b \in verified : b > prev => t[b].prev_main_hash = Common(s, t, tip, m)
        \/ /\ prev = tip
           /\ t[tip].prev_main_hash \in MainUp(s)[m]
           /\ t[tip].prev_side_hash \in verified \cup {0}

\* The parent of a block is verified on the mainchain block in its header.
ParentVerified(s, t, b) ==
    t[b].prev_side_hash \in VerifiedUp(s, t)[t[b].prev_main_hash] \cup {0}

\* Headers name mainchain blocks.
Headers(s, t) == \A b \in 1..Len(t) : t[b].prev_main_hash \in 0..Len(s)

\* An ancestor of a tip, or the tip, is asked for on the mainchain of the tip;
\* if it is not the tip, that chain commits to it.
LEMMA AncestorCommitted ==
    ASSUME NEW s, NEW t, MainChain(s), SideChain(t), Committed(s, t), Headers(s, t),
           NEW tip \in 1..Len(t), ParentVerified(s, t, tip),
           NEW b \in SideUp(t)[tip], b # tip
    PROVE  \E m \in MainUp(s)[t[tip].prev_main_hash] \ {0} :
              s[m].parent = t[b].prev_main_hash /\ b \in VerifiedUp(s, t)[m]
<1> DEFINE P == t[tip].prev_main_hash
           prev == t[tip].prev_side_hash
<1>1. P \in 0..Len(s)
  BY DEF Headers
<1>2. b \in SideUp(t)[prev] /\ prev # 0
  BY SideUpIs
<1>3. prev \in VerifiedUp(s, t)[P]
  BY <1>2 DEF ParentVerified
<1>4. b \in VerifiedUp(s, t)[P]
  <2> HIDE DEF P, prev
  <2> QED
    BY <1>1, <1>2, <1>3, VerifiedAncestors
<1> HIDE DEF P
<1>5. \E m \in MainUp(s)[P] \ {0} :
         s[m].parent = t[b].prev_main_hash /\ b \in VerifiedUp(s, t)[m]
  BY <1>1, <1>4, VerifiedBy
<1> QED
  BY <1>5 DEF P

\* Whatever tip and mainchain block are taken, the choice is good.
LEMMA ChosenIsGood ==
    ASSUME NEW s, NEW t, MainChain(s), SideChain(t), Committed(s, t), Headers(s, t),
           NEW tip \in 0..Len(t), tip # 0 => ParentVerified(s, t, tip), NEW m \in 0..Len(s)
    PROVE  /\ Chosen(s, t, tip, m) \in 0..tip
           /\ MinedOn(s, t, tip, m, Chosen(s, t, tip, m))
<1> DEFINE prev == Chosen(s, t, tip, m)
           c == Common(s, t, tip, m)
           P == t[tip].prev_main_hash
           before == Before(s, t, tip, m)
           verified == SideUp(t)[tip] \cap VerifiedUp(s, t)[m]
<1>1. CASE tip = 0
  <2>1. prev = 0 /\ verified = {}
    BY <1>1, SideUpIs DEF Chosen
  <2> QED
    BY <1>1, <2>1 DEF MinedOn
<1>2. CASE tip # 0
  <2>1. tip \in 1..Len(t) /\ P \in 0..Len(s)
    BY <1>2, SideChainTypes DEF Headers
  <2>2. /\ c \in 0..Len(s) /\ c \in MainUp(s)[m] /\ c \in MainUp(s)[P]
        /\ \A x \in MainUp(s)[m] \cap MainUp(s)[P] : x \in MainUp(s)[c]
    <3> HIDE DEF P
    <3>1. c = LastCommon(s, m, P)
      BY DEF Common, P
    <3> HIDE DEF c
    <3> QED
      BY <2>1, <3>1, LastCommonIs
  <2>3. tip \in SideUp(t)[tip] /\ SideUp(t)[tip] \in SUBSET (1..tip)
    BY <1>2, SideUpBelow
  <2>4. CASE c = P
    <3>1. prev = tip
      BY <2>4 DEF Chosen
    <3>2. VerifiedUp(s, t)[P] \subseteq VerifiedUp(s, t)[m]
      BY <2>2, <2>4, VerifiedGrows
    <3>3. ParentVerified(s, t, tip)
      BY <1>2
    <3>4. t[tip].prev_side_hash \in VerifiedUp(s, t)[m] \cup {0}
      BY <3>2, <3>3 DEF ParentVerified
    <3>5. t[tip].prev_side_hash # 0 => t[tip].prev_side_hash \in SideUp(t)[tip]
      <4>1. t[tip].prev_side_hash \in 0..Len(t)
        BY <2>1, SideChainTypes
      <4>2. t[tip].prev_side_hash # 0 => t[tip].prev_side_hash \in SideUp(t)[t[tip].prev_side_hash]
        BY <4>1, SideUpBelow
      <4> QED
        BY <2>1, <4>2, SideUpIs
    <3>6. P \in MainUp(s)[m]
      BY <2>2, <2>4
    <3> QED
      BY <3>1, <3>4, <3>5, <3>6 DEF MinedOn
  <2>5. CASE c # P
    <3>1. prev = Max(before \cup {0})
      BY <1>2, <2>5 DEF Chosen
    <3>2. prev \in before \cup {0} /\ \A x \in before : x <= prev
      <4> DEFINE S == before \cup {0}
      <4>1. S \in SUBSET (0..tip) /\ S # {} /\ tip \in Nat
        BY <2>1, <2>3, SideChainTypes DEF Before
      <4>2. Max(S) \in S /\ \A x \in S : x <= Max(S)
        <5> HIDE DEF S
        <5> QED
          BY <4>1, MaxOf
      <4> QED
        BY <3>1, <4>2
    <3>3. ASSUME NEW b \in before
          PROVE  b \in verified
      <4>1. b \in SideUp(t)[tip] /\ t[b].prev_main_hash # c /\ t[b].prev_main_hash \in MainUp(s)[c]
        BY DEF Before
      <4>2. b # tip
        <5> SUFFICES ASSUME b = tip PROVE FALSE
          OBVIOUS
        <5>1. P <= c
          BY <2>2, <4>1, MainUpBelow
        <5>2. c <= P
          BY <2>1, <2>2, MainUpBelow
        <5> HIDE DEF c, P
        <5> QED
          BY <2>1, <2>2, <2>5, <5>1, <5>2
      <4>3. PICK k \in MainUp(s)[P] \ {0} :
                s[k].parent = t[b].prev_main_hash /\ b \in VerifiedUp(s, t)[k]
        BY <1>2, <2>1, <4>1, <4>2, AncestorCommitted
      <4>4. k \in MainUp(s)[c]
        <5>1. s[k].parent \in MainUp(s)[c] /\ s[k].parent # c
          BY <4>1, <4>3
        <5> HIDE DEF c, P
        <5> QED
          BY <2>1, <2>2, <4>3, <5>1, ChildBelow
      <4>5. VerifiedUp(s, t)[k] \subseteq VerifiedUp(s, t)[c]
        BY <2>2, <4>4, VerifiedGrows
      <4>6. VerifiedUp(s, t)[c] \subseteq VerifiedUp(s, t)[m]
        BY <2>2, VerifiedGrows
      <4> QED
        BY <4>1, <4>3, <4>5, <4>6
    <3>4. ASSUME NEW b \in verified, t[b].prev_main_hash # c
          PROVE  b \in before
      <4>1. b \in SideUp(t)[tip] /\ b \in VerifiedUp(s, t)[m]
        OBVIOUS
      <4>2. t[b].prev_main_hash \in MainUp(s)[m]
        <5>1. PICK k \in MainUp(s)[m] \ {0} : s[k].parent = t[b].prev_main_hash
          BY <4>1, VerifiedBy
        <5>2. k \in 1..Len(s)
          BY <5>1, MainUpIs, MainChainTypes
        <5>3. s[k].parent \in 0..Len(s) /\ MainUp(s)[k] = {k} \cup MainUp(s)[s[k].parent]
          BY <5>2, MainChainTypes, MainUpIs
        <5>4. s[k].parent \in MainUp(s)[k]
          BY <5>3, MainUpBelow
        <5> QED
          BY <5>1, <5>4, MainUpTransitive
      <4>3. t[b].prev_main_hash \in MainUp(s)[P]
        <5>1. CASE b = tip
          BY <2>1, <5>1, MainUpBelow
        <5>2. CASE b # tip
          <6>1. PICK k \in MainUp(s)[P] \ {0} : s[k].parent = t[b].prev_main_hash
            BY <1>2, <2>1, <4>1, <5>2, AncestorCommitted
          <6>2. k \in 1..Len(s)
            BY <2>1, <6>1, MainUpIs, MainChainTypes
          <6>3. s[k].parent \in 0..Len(s) /\ MainUp(s)[k] = {k} \cup MainUp(s)[s[k].parent]
            BY <6>2, MainChainTypes, MainUpIs
          <6>4. s[k].parent \in MainUp(s)[k]
            BY <6>3, MainUpBelow
          <6>5. MainUp(s)[k] \subseteq MainUp(s)[P]
            <7> HIDE DEF P
            <7> QED
              BY <2>1, <6>1, MainUpTransitive
          <6> QED
            BY <6>1, <6>4, <6>5
        <5> QED
          BY <5>1, <5>2
      <4>4. t[b].prev_main_hash \in MainUp(s)[c]
        BY <2>2, <4>2, <4>3
      <4> QED
        BY <3>4, <4>1, <4>4 DEF Before
    <3>5. prev \in verified \cup {0}
      BY <3>2, <3>3
    <3>6. \A b \in verified : b > prev => t[b].prev_main_hash = c
      <4>1. SUFFICES ASSUME NEW b \in verified, b > prev, t[b].prev_main_hash # c PROVE FALSE
        OBVIOUS
      <4>2. b <= prev
        BY <3>2, <3>4, <4>1
      <4>3. b \in Nat /\ prev \in Nat
        BY <2>1, <2>3, <3>5, SideChainTypes
      <4> HIDE DEF prev
      <4> QED
        BY <4>1, <4>2, <4>3
    <3>7. prev \in 0..tip
      BY <2>1, <2>3, <3>5, SideChainTypes
    <3> HIDE DEF prev
    <3>8. MinedOn(s, t, tip, m, prev)
      BY <3>5, <3>6 DEF MinedOn
    <3> QED
      BY <3>7, <3>8 DEF prev
  <2> QED
    BY <2>4, <2>5
<1> QED
  BY <1>1, <1>2

-----------------------------------------------------------------------------
(***************************************************************************)
(* The chains grow.                                                        *)
(***************************************************************************)
Longer(s, s2) == Len(s) <= Len(s2) /\ \A a \in 1..Len(s) : s2[a] = s[a]

\* The ancestors of a mainchain block stay.
LEMMA MainUpStays ==
    ASSUME NEW s, NEW s2, MainChain(s), MainChain(s2), Longer(s, s2), NEW a \in 0..Len(s)
    PROVE  MainUp(s2)[a] = MainUp(s)[a]
<1> DEFINE Good(x) == MainUp(s2)[x] = MainUp(s)[x]
           Bad == {x \in 0..Len(s) : ~Good(x)}
<1>1. ASSUME NEW x \in Bad
      PROVE  \E y \in Bad : y < x
  <2>1. x \in 1..Len(s)
    BY MainUpIs, MainChainTypes
  <2>2. s[x].parent \in 0..Len(s) /\ s[x].parent < x
    BY <2>1, MainChainTypes
  <2>3. MainUp(s)[x] = {x} \cup MainUp(s)[s[x].parent]
    BY <2>1, MainUpIs
  <2>4. x \in 1..Len(s2) /\ s2[x] = s[x]
    BY <2>1, MainChainTypes DEF Longer
  <2>5. MainUp(s2)[x] = {x} \cup MainUp(s2)[s[x].parent]
    BY <2>4, MainUpIs
  <2>6. Good(s[x].parent) => Good(x)
    BY <2>3, <2>5
  <2> QED
    BY <2>2, <2>6
<1>2. Bad = {}
  <2>1. Bad \in SUBSET Nat
    BY MainChainTypes
  <2> HIDE DEF Bad
  <2> QED
    BY <1>1, <2>1, Descent
<1> QED
  BY <1>2

\* The ancestors of a sidechain block stay.
LEMMA SideUpStays ==
    ASSUME NEW t, NEW t2, SideChain(t), SideChain(t2), Longer(t, t2), NEW a \in 0..Len(t)
    PROVE  SideUp(t2)[a] = SideUp(t)[a]
<1> DEFINE Good(x) == SideUp(t2)[x] = SideUp(t)[x]
           Bad == {x \in 0..Len(t) : ~Good(x)}
<1>1. ASSUME NEW x \in Bad
      PROVE  \E y \in Bad : y < x
  <2>1. x \in 1..Len(t)
    BY SideUpIs, SideChainTypes
  <2>2. t[x].prev_side_hash \in 0..Len(t) /\ t[x].prev_side_hash < x
    BY <2>1, SideChainTypes
  <2>3. SideUp(t)[x] = {x} \cup SideUp(t)[t[x].prev_side_hash]
    BY <2>1, SideUpIs
  <2>4. x \in 1..Len(t2) /\ t2[x] = t[x]
    BY <2>1, SideChainTypes DEF Longer
  <2>5. SideUp(t2)[x] = {x} \cup SideUp(t2)[t[x].prev_side_hash]
    BY <2>4, SideUpIs
  <2>6. Good(t[x].prev_side_hash) => Good(x)
    BY <2>3, <2>5
  <2> QED
    BY <2>2, <2>6
<1>2. Bad = {}
  <2>1. Bad \in SUBSET Nat
    BY SideChainTypes
  <2> HIDE DEF Bad
  <2> QED
    BY <1>1, <2>1, Descent
<1> QED
  BY <1>2

\* What is verified at a mainchain block stays.
LEMMA VerifiedStays ==
    ASSUME NEW s, NEW s2, NEW t, NEW t2, MainChain(s), MainChain(s2), SideChain(t),
           Committed(s, t), Committed(s2, t2), Longer(s, s2), Longer(t, t2), NEW a \in 0..Len(s)
    PROVE  VerifiedUp(s2, t2)[a] = VerifiedUp(s, t)[a]
<1> DEFINE Good(x) == VerifiedUp(s2, t2)[x] = VerifiedUp(s, t)[x]
           Bad == {x \in 0..Len(s) : ~Good(x)}
<1>1. ASSUME NEW x \in Bad
      PROVE  \E y \in Bad : y < x
  <2>1. x \in 1..Len(s)
    BY VerifiedUpIs, MainChainTypes
  <2>2. s[x].parent \in 0..Len(s) /\ s[x].parent < x
    BY <2>1, MainChainTypes
  <2>3. VerifiedUp(s, t)[x] = StepAt(s, t, x, VerifiedUp(s, t)[s[x].parent])
    BY <2>1, VerifiedUpIs
  <2>4. x \in 1..Len(s2) /\ s2[x] = s[x]
    BY <2>1, MainChainTypes DEF Longer
  <2>5. VerifiedUp(s2, t2)[x] = StepAt(s2, t2, x, VerifiedUp(s2, t2)[s[x].parent])
    BY <2>4, VerifiedUpIs
  <2>6. s[x].bmm_commitment # 0 => t2[s[x].bmm_commitment] = t[s[x].bmm_commitment]
    BY <2>1 DEF Committed, Longer
  <2>7. Good(s[x].parent) => Good(x)
    BY <2>3, <2>4, <2>5, <2>6 DEF StepAt
  <2> QED
    BY <2>2, <2>7
<1>2. Bad = {}
  <2>1. Bad \in SUBSET Nat
    BY MainChainTypes
  <2> HIDE DEF Bad
  <2> QED
    BY <1>1, <2>1, Descent
<1> QED
  BY <1>2

\* The chains of a state.
Chains(s, t) == MainChain(s) /\ SideChain(t) /\ Committed(s, t) /\ Headers(s, t)

\* The choice of a parent stays good.
LEMMA MinedOnStays ==
    ASSUME NEW s, NEW s2, NEW t, NEW t2, Chains(s, t), Chains(s2, t2),
           Longer(s, s2), Longer(t, t2),
           NEW tip \in 0..Len(t), NEW m \in 0..Len(s), NEW prev, MinedOn(s, t, tip, m, prev)
    PROVE  MinedOn(s2, t2, tip, m, prev)
<1> USE DEF Chains
<1>1. SideUp(t2)[tip] = SideUp(t)[tip] /\ VerifiedUp(s2, t2)[m] = VerifiedUp(s, t)[m]
  BY SideUpStays, VerifiedStays
<1>2. CASE tip = 0
  <2>1. SideUp(t)[tip] = {}
    BY <1>2, SideUpIs
  <2> QED
    BY <1>1, <1>2, <2>1 DEF MinedOn
<1>3. CASE tip # 0
  <2>1. tip \in 1..Len(t) /\ t2[tip] = t[tip] /\ t[tip].prev_main_hash \in 0..Len(s)
    BY <1>3, SideChainTypes DEF Longer, Headers
  <2>2. /\ MainUp(s2)[m] = MainUp(s)[m]
        /\ MainUp(s2)[t[tip].prev_main_hash] = MainUp(s)[t[tip].prev_main_hash]
    BY <2>1, MainUpStays
  <2>3. Common(s2, t2, tip, m) = Common(s, t, tip, m)
    BY <2>1, <2>2 DEF Common, LastCommon
  <2>4. \A b \in SideUp(t)[tip] : t2[b] = t[b]
    BY SideUpIs DEF Longer
  <2> QED
    BY <1>1, <2>1, <2>2, <2>3, <2>4 DEF MinedOn
<1> QED
  BY <1>2, <1>3

\* A parent that is verified stays verified.
LEMMA ParentStays ==
    ASSUME NEW s, NEW s2, NEW t, NEW t2, Chains(s, t), Chains(s2, t2),
           Longer(s, s2), Longer(t, t2), NEW b \in 1..Len(t), ParentVerified(s, t, b)
    PROVE  ParentVerified(s2, t2, b)
<1> USE DEF Chains
<1>1. t2[b] = t[b] /\ t[b].prev_main_hash \in 0..Len(s)
  BY DEF Longer, Headers
<1>2. VerifiedUp(s2, t2)[t[b].prev_main_hash] = VerifiedUp(s, t)[t[b].prev_main_hash]
  BY <1>1, VerifiedStays
<1> QED
  BY <1>1, <1>2 DEF ParentVerified

-----------------------------------------------------------------------------
(***************************************************************************)
(* The invariant.                                                          *)
(***************************************************************************)
Pc == {"idle", "best_hash", "infos", "attempt", "subscribe", "confirm", "submit"}

CallRec == [pc : Pc, prev_main_hash : Nat, tip_hash : Nat, prev_side_hash : Nat,
            asked : Nat, event : Nat, confirmed : Nat]

\* What a call has read or made is there, and is good.
CallOK(s, t, pub, r) ==
    /\ r \in CallRec
    /\ r.prev_main_hash \in 0..Len(s) /\ r.event \in 0..Len(s)
    /\ r.tip_hash \in pub \cup {0}
    /\ r.prev_side_hash \in 0..Len(t) /\ r.asked \in 0..Len(t) /\ r.confirmed \in 0..Len(t)
    /\ r.pc = "attempt" => MinedOn(s, t, r.tip_hash, r.prev_main_hash, r.prev_side_hash)
    /\ r.pc = "submit" => /\ r.event # 0 /\ r.asked # 0 /\ r.confirmed = r.asked
                          /\ s[r.event].bmm_commitment = r.asked

\* The node has verified blocks.
NodeOK(s, t, pub, n) ==
    /\ pub \subseteq 1..Len(t)
    /\ \A b \in pub : ParentVerified(s, t, b)
    /\ n \in [tip : pub \cup {0}, main : SUBSET (0..Len(s))]

\* The call that has the lock is the one that Miner::block is of.
Locked ==
    /\ lock \in SUBSET Call
    /\ \A c, d \in lock : c = d
    /\ block \in 0..Len(side)
    /\ \A c \in Call :
          /\ call[c].pc \in {"subscribe", "confirm", "submit"} => c \in lock
          /\ call[c].pc \in {"subscribe", "confirm"} => block = call[c].asked /\ block # 0

MainOK == best \in 0..Len(main) /\ reorgs \in 0..MaxReorgs

IInv ==
    /\ Chains(main, side)
    /\ NodeOK(main, side, published, node)
    /\ call \in [Call -> CallRec]
    /\ \A c \in Call : CallOK(main, side, published, call[c])
    /\ Locked
    /\ MainOK

\* A chain to which a block is appended.
LEMMA Appended ==
    ASSUME NEW S, NEW s \in Seq(S), NEW x \in S
    PROVE  /\ Append(s, x) \in Seq(S) /\ Len(Append(s, x)) = Len(s) + 1
           /\ Longer(s, Append(s, x)) /\ Append(s, x)[Len(s) + 1] = x
           /\ \A a \in 1..Len(Append(s, x)) : a \in 1..Len(s) \/ a = Len(s) + 1
<1>1. Len(s) \in Nat
  BY LenProperties
<1>2. /\ Append(s, x) \in Seq(S) /\ Len(Append(s, x)) = Len(s) + 1
      /\ \A i \in 1..Len(s) : Append(s, x)[i] = s[i]
      /\ Append(s, x)[Len(s) + 1] = x
  BY AppendProperties
<1> QED
  BY <1>1, <1>2 DEF Longer

\* A call stays good when the chains grow.
LEMMA CallStays ==
    ASSUME NEW s, NEW s2, NEW t, NEW t2, Chains(s, t), Chains(s2, t2),
           Longer(s, s2), Longer(t, t2),
           NEW pub, NEW pub2, pub \subseteq 1..Len(t), pub \subseteq pub2,
           NEW r, CallOK(s, t, pub, r)
    PROVE  CallOK(s2, t2, pub2, r)
<1>1. Len(s) \in Nat /\ Len(s2) \in Nat /\ Len(t) \in Nat /\ Len(t2) \in Nat
  BY MainChainTypes, SideChainTypes DEF Chains
<1>2. Len(s) <= Len(s2) /\ Len(t) <= Len(t2)
  BY DEF Longer
<1>3. r.tip_hash \in 0..Len(t) /\ r.prev_main_hash \in 0..Len(s)
  <2>1. r.tip_hash \in pub \cup {0} /\ r.prev_main_hash \in 0..Len(s)
    BY DEF CallOK
  <2>2. pub \cup {0} \subseteq 0..Len(t)
    BY <1>1
  <2> QED
    BY <2>1, <2>2
<1>4. r.pc = "attempt" => MinedOn(s2, t2, r.tip_hash, r.prev_main_hash, r.prev_side_hash)
  BY <1>3, MinedOnStays DEF CallOK
<1>5. r.pc = "submit" => s2[r.event].bmm_commitment = r.asked
  BY <1>1 DEF CallOK, Longer
<1>6. /\ r.prev_main_hash \in 0..Len(s2) /\ r.event \in 0..Len(s2)
      /\ r.prev_side_hash \in 0..Len(t2) /\ r.asked \in 0..Len(t2) /\ r.confirmed \in 0..Len(t2)
  <2>1. /\ r.prev_main_hash \in 0..Len(s) /\ r.event \in 0..Len(s)
        /\ r.prev_side_hash \in 0..Len(t) /\ r.asked \in 0..Len(t) /\ r.confirmed \in 0..Len(t)
    BY DEF CallOK
  <2> QED
    BY <1>1, <1>2, <2>1
<1>7. r.tip_hash \in pub2 \cup {0}
  BY DEF CallOK
<1> QED
  BY <1>4, <1>5, <1>6, <1>7 DEF CallOK

\* So does the node.
LEMMA NodeStays ==
    ASSUME NEW s, NEW s2, NEW t, NEW t2, Chains(s, t), Chains(s2, t2),
           Longer(s, s2), Longer(t, t2), NEW pub, NEW n, NodeOK(s, t, pub, n),
           NEW pub2, pub \subseteq pub2, pub2 \subseteq 1..Len(t2),
           \A b \in pub2 \ pub : ParentVerified(s2, t2, b)
    PROVE  NodeOK(s2, t2, pub2, n)
<1>1. Len(s) \in Nat /\ Len(s2) \in Nat /\ Len(s) <= Len(s2)
  BY MainChainTypes DEF Chains, Longer
<1>2. \A b \in pub : ParentVerified(s2, t2, b)
  BY ParentStays DEF NodeOK
<1>3. n \in [tip : pub2 \cup {0}, main : SUBSET (0..Len(s2))]
  <2>1. n \in [tip : pub \cup {0}, main : SUBSET (0..Len(s))]
    BY DEF NodeOK
  <2>2. 0..Len(s) \subseteq 0..Len(s2)
    BY <1>1
  <2> QED
    BY <2>1, <2>2
<1> QED
  BY <1>2, <1>3 DEF NodeOK

\* The initial states.
LEMMA InitInvariant == Init => IInv
<1> SUFFICES ASSUME Init PROVE IInv
  OBVIOUS
<1>1. main = << >> /\ side = << >> /\ Len(main) = 0 /\ Len(side) = 0
  BY EmptySeq DEF Init
<1>2. Chains(main, side)
  BY <1>1, EmptySeq DEF Chains, MainChain, SideChain, Committed, Headers
<1>3. NodeOK(main, side, published, node)
  BY <1>1 DEF NodeOK, Init
<1>4. Idle \in CallRec
  BY DEF Idle, CallRec, Pc
<1>5. CallOK(main, side, published, Idle)
  BY <1>1, <1>4 DEF CallOK, Idle
<1>6. call \in [Call -> CallRec] /\ \A c \in Call : call[c] = Idle
  BY <1>4 DEF Init
<1>7. Locked
  BY <1>1, <1>6 DEF Locked, Init, Idle
<1>8. MainOK
  BY <1>1, BoundAssumption DEF MainOK, Init
<1> QED
  BY <1>2, <1>3, <1>5, <1>6, <1>7, <1>8 DEF IInv

\* Idle is good for any chains.
LEMMA IdleOK ==
    ASSUME NEW s, NEW t, NEW pub, Chains(s, t)
    PROVE  Idle \in CallRec /\ CallOK(s, t, pub, Idle)
<1>1. Len(s) \in Nat /\ Len(t) \in Nat
  BY MainChainTypes, SideChainTypes DEF Chains
<1>2. Idle \in CallRec
  BY DEF Idle, CallRec, Pc
<1> QED
  BY <1>1, <1>2 DEF CallOK, Idle

\* A call that changes, the chains and the node's blocks as they are.
LEMMA CallStep ==
    ASSUME IInv, NEW c \in Call, NEW r \in CallRec, CallOK(main, side, published, r),
           call' = [call EXCEPT ![c] = r]
    PROVE  call' \in [Call -> CallRec] /\ \A d \in Call : CallOK(main, side, published, call'[d])
  BY DEF IInv

-----------------------------------------------------------------------------
(***************************************************************************)
(* The steps.                                                              *)
(***************************************************************************)
\* A mainchain block is connected: any commitment, and side as it is or with the
\* block to which it commits.
LEMMA ConnectedInvariant ==
    ASSUME IInv, NEW parent \in 0..Len(main), NEW k, Connected(parent, k),
           parent # best => reorgs < MaxReorgs,
           SideChain(side'), Longer(side, side'), Headers(main, side'),
           k # 0 => k \in 1..Len(side') /\ side'[k].prev_main_hash = parent,
           k \in Nat, published \subseteq published', published' \subseteq 1..Len(side'),
           \A b \in published' \ published :
               /\ side'[b].prev_main_hash = parent
               /\ side'[b].prev_side_hash \in VerifiedUp(main, side)[parent] \cup {0}
    PROVE  IInv'
<1> DEFINE m == [parent |-> parent, bmm_commitment |-> k]
<1>1. MainChain(main) /\ SideChain(side) /\ Committed(main, side) /\ Headers(main, side)
  BY DEF IInv, Chains
<1>2. main \in Seq(MainRec) /\ Len(main) \in Nat
  BY <1>1, MainChainTypes DEF MainChain
<1>3. main' = Append(main, m) /\ m \in MainRec
  BY <1>2 DEF Connected, MainRec
<1>4. /\ main' \in Seq(MainRec) /\ Len(main') = Len(main) + 1
      /\ Longer(main, main') /\ main'[Len(main) + 1] = m
      /\ \A a \in 1..Len(main') : a \in 1..Len(main) \/ a = Len(main) + 1
  <2> HIDE DEF m
  <2> QED
    BY <1>2, <1>3, Appended
<1>5. \A a \in 1..Len(main) : main'[a] = main[a]
  BY <1>4 DEF Longer
<1>6. MainChain(main')
  BY <1>1, <1>2, <1>4, <1>5 DEF MainChain
<1>7. Committed(main', side')
  <2> SUFFICES ASSUME NEW a \in 1..Len(main'), main'[a].bmm_commitment # 0
               PROVE  /\ main'[a].bmm_commitment \in 1..Len(side')
                      /\ side'[main'[a].bmm_commitment].prev_main_hash = main'[a].parent
    BY DEF Committed
  <2>1. CASE a \in 1..Len(main)
    <3>1. /\ main[a].bmm_commitment \in 1..Len(side)
          /\ side[main[a].bmm_commitment].prev_main_hash = main[a].parent
      BY <1>1, <1>5, <2>1 DEF Committed
    <3>2. Len(side) \in Nat /\ Len(side') \in Nat /\ Len(side) <= Len(side')
      BY <1>1, SideChainTypes DEF Longer
    <3>3. side'[main[a].bmm_commitment] = side[main[a].bmm_commitment]
      BY <3>1 DEF Longer
    <3> QED
      BY <1>5, <2>1, <3>1, <3>2, <3>3
  <2>2. CASE a = Len(main) + 1
    BY <1>4, <2>2
  <2> QED
    BY <1>4, <2>1, <2>2
<1>8. Headers(main', side')
  BY <1>2, <1>4 DEF Headers
<1>9. Chains(main, side) /\ Chains(main', side')
  BY <1>1, <1>6, <1>7, <1>8 DEF Chains
<1>10. NodeOK(main', side', published', node')
  <2>1. ASSUME NEW b \in published' \ published
        PROVE  ParentVerified(main', side', b)
    <3>1. VerifiedUp(main', side')[parent] = VerifiedUp(main, side)[parent]
      BY <1>1, <1>4, <1>6, <1>7, VerifiedStays
    <3> QED
      BY <3>1 DEF ParentVerified
  <2>2. node' = node /\ NodeOK(main, side, published, node)
    BY DEF Connected, IInv
  <2> QED
    BY <1>4, <1>9, <2>1, <2>2, NodeStays
<1>11. ASSUME NEW c \in Call
       PROVE  /\ call'[c] \in CallRec /\ CallOK(main', side', published', call'[c])
              /\ call'[c].pc = call[c].pc /\ call'[c].asked = call[c].asked
  <2>1. call[c] \in CallRec /\ CallOK(main', side', published', call[c])
    <3>1. published \subseteq 1..Len(side) /\ CallOK(main, side, published, call[c])
      BY DEF IInv, NodeOK
    <3> QED
      BY <1>4, <1>9, <3>1, CallStays DEF IInv
  <2>2. CASE call[c].pc = "confirm" /\ call[c].event = 0
    <3>1. call'[c] = [call[c] EXCEPT !.event = Len(main')]
      BY <2>2 DEF Connected
    <3>2. Len(main') \in Nat /\ Len(main') \in 0..Len(main')
      BY <1>2, <1>4
    <3>3. /\ call'[c] \in CallRec /\ call'[c].event = Len(main') /\ call'[c].pc = "confirm"
          /\ call'[c].prev_main_hash = call[c].prev_main_hash
          /\ call'[c].tip_hash = call[c].tip_hash
          /\ call'[c].prev_side_hash = call[c].prev_side_hash
          /\ call'[c].asked = call[c].asked /\ call'[c].confirmed = call[c].confirmed
      BY <2>1, <2>2, <3>1, <3>2 DEF CallRec
    <3> QED
      BY <2>1, <2>2, <3>2, <3>3 DEF CallOK
  <2>3. CASE ~(call[c].pc = "confirm" /\ call[c].event = 0)
    <3>1. call'[c] = call[c]
      BY <2>3 DEF Connected
    <3> QED
      BY <2>1, <3>1
  <2> QED
    BY <2>2, <2>3
<1>12. call' \in [Call -> CallRec]
  BY <1>11 DEF Connected
<1>13. Locked'
  <2>1. lock' = lock /\ block' = block
    BY DEF Connected
  <2>2. block' \in 0..Len(side')
    <3>1. Len(side) \in Nat /\ Len(side') \in Nat /\ Len(side) <= Len(side')
      BY <1>1, SideChainTypes DEF Longer
    <3> QED
      BY <2>1, <3>1 DEF IInv, Locked
  <2> QED
    BY <1>11, <2>1, <2>2 DEF IInv, Locked
<1>14. MainOK'
  BY <1>2, <1>4, BoundAssumption DEF IInv, MainOK, Connected
<1> QED
  BY <1>9, <1>10, <1>11, <1>12, <1>13, <1>14 DEF IInv

\* A sidechain block is appended.
LEMMA SideAppended ==
    ASSUME IInv, NEW x \in SideRec, side' = Append(side, x),
           x.prev_side_hash \in 0..Len(side), x.prev_main_hash \in 0..Len(main)
    PROVE  /\ SideChain(side') /\ Longer(side, side') /\ Headers(main, side')
           /\ Len(side') = Len(side) + 1 /\ side'[Len(side')] = x
           /\ Len(side) \in Nat /\ Len(main) \in Nat
<1>1. SideChain(side) /\ side \in Seq(SideRec) /\ Len(side) \in Nat /\ Len(main) \in Nat
  BY MainChainTypes, SideChainTypes DEF IInv, Chains, SideChain
<1>2. /\ side' \in Seq(SideRec) /\ Len(side') = Len(side) + 1
      /\ Longer(side, side') /\ side'[Len(side) + 1] = x
      /\ \A a \in 1..Len(side') : a \in 1..Len(side) \/ a = Len(side) + 1
  BY <1>1, Appended
<1>3. \A a \in 1..Len(side) : side'[a] = side[a]
  BY <1>2 DEF Longer
<1>4. SideChain(side')
  BY <1>1, <1>2, <1>3 DEF SideChain
<1>5. Headers(main, side')
  BY <1>2, <1>3 DEF IInv, Chains, Headers
<1> QED
  BY <1>1, <1>2, <1>4, <1>5

\* The mainchain connects a block.
LEMMA MainBlockInvariant ==
    ASSUME IInv, NEW parent \in 0..Len(main), MainBlock(parent)
    PROVE  IInv'
<1>1. SideChain(side) /\ Headers(main, side) /\ Len(side) \in Nat /\ published \subseteq 1..Len(side)
  BY SideChainTypes DEF IInv, Chains, NodeOK
<1>2. Longer(side, side)
  BY <1>1 DEF Longer
<1>3. parent # best => reorgs < MaxReorgs
  BY DEF MainBlock
<1>4. CASE Connected(parent, 0) /\ UNCHANGED <<side, published>>
  BY <1>1, <1>2, <1>3, <1>4, ConnectedInvariant
<1>5. ASSUME NEW b \in DOMAIN side \ published, side[b].prev_main_hash = parent,
             Connected(parent, b), UNCHANGED <<side, published>>
      PROVE  IInv'
  <2>1. b \in 1..Len(side) /\ b \in Nat
    BY <1>1, LenProperties DEF SideChain
  <2> QED
    BY <1>1, <1>2, <1>3, <1>5, <2>1, ConnectedInvariant
<1>6. ASSUME NEW prev \in (VerifiedAt(parent) \cap published) \cup {0},
             side' = Append(side, [prev_side_hash |-> prev, prev_main_hash |-> parent]),
             published' = published \cup {Len(side')},
             Connected(parent, Len(side'))
      PROVE  IInv'
  <2> DEFINE x == [prev_side_hash |-> prev, prev_main_hash |-> parent]
  <2>1. prev \in VerifiedUp(main, side)[parent] \cup {0}
    BY UpIsMiner
  <2>2. prev \in 0..Len(side)
    <3>1. published \cup {0} \subseteq 0..Len(side)
      BY <1>1
    <3> QED
      BY <3>1
  <2>3. parent \in Nat /\ prev \in Nat
    BY <1>1, <2>2, MainChainTypes DEF IInv, Chains
  <2>4. x \in SideRec /\ x.prev_side_hash = prev /\ x.prev_main_hash = parent
    BY <2>3 DEF SideRec
  <2>5. /\ SideChain(side') /\ Longer(side, side') /\ Headers(main, side')
        /\ Len(side') = Len(side) + 1 /\ side'[Len(side')] = x
    <3> HIDE DEF x
    <3>1. side' = Append(side, x)
      BY <1>6 DEF x
    <3> QED
      BY <2>2, <2>4, <3>1, SideAppended
  <2>6. side'[Len(side')].prev_main_hash = parent /\ side'[Len(side')].prev_side_hash = prev
    BY <2>4, <2>5
  <2>7. published' \subseteq 1..Len(side') /\ Len(side') \in Nat /\ Len(side') \in 1..Len(side')
    <3>1. Len(side') \in Nat /\ Len(side') \in 1..Len(side') /\ 1..Len(side) \subseteq 1..Len(side')
      BY <1>1, <2>5
    <3> QED
      BY <1>1, <1>6, <3>1
  <2>8. \A b \in published' \ published :
            /\ side'[b].prev_main_hash = parent
            /\ side'[b].prev_side_hash \in VerifiedUp(main, side)[parent] \cup {0}
    BY <1>6, <2>1, <2>6
  <2> QED
    BY <1>3, <1>6, <2>5, <2>6, <2>7, <2>8, ConnectedInvariant
<1> QED
  BY <1>4, <1>5, <1>6 DEF MainBlock

\* The ancestors of a mainchain block are in the archive after a request.
LEMMA AncestorsAreBlocks ==
    ASSUME IInv, NEW m \in 0..Len(main)
    PROVE  MainAncestors(m) \subseteq 0..Len(main)
<1>1. MainUp(main)[m] \subseteq 0..Len(main)
  BY MainUpIs DEF IInv, Chains
<1> QED
  BY <1>1, UpIsMiner

\* The node gets a tip from its peers.
LEMMA NodeTipInvariant ==
    ASSUME IInv, NEW b \in published, NEW m \in 0..Len(main), NodeTip(b, m)
    PROVE  IInv'
<1>1. MainAncestors(m) \subseteq 0..Len(main)
  BY AncestorsAreBlocks
<1>2. UNCHANGED <<main, best, reorgs, side, published, lock, block, call>>
  BY DEF NodeTip
<1>3. NodeOK(main, side, published, node')
  <2>1. NodeOK(main, side, published, node)
    BY DEF IInv
  <2> QED
    BY <1>1, <2>1 DEF NodeOK, NodeTip
<1> QED
  BY <1>2, <1>3 DEF IInv, Locked, MainOK

\* The parent is chosen as the lemmas say.
LEMMA ChooseParentOK ==
    ASSUME IInv, NEW c \in Call, NEW tip \in published \cup {0}
    PROVE  /\ ChooseParent(call[c], tip) \in CallRec
           /\ CallOK(main, side, published, ChooseParent(call[c], tip))
           /\ ChooseParent(call[c], tip).pc = "attempt"
<1> DEFINE r == call[c]
           prev == PrevSideHash(tip, r.prev_main_hash)
           q == ChooseParent(r, tip)
<1>1. /\ MainChain(main) /\ SideChain(side) /\ Committed(main, side) /\ Headers(main, side)
      /\ Len(side) \in Nat
  BY SideChainTypes DEF IInv, Chains
<1>2. tip \in 0..Len(side) /\ (tip # 0 => ParentVerified(main, side, tip))
  <2>1. published \subseteq 1..Len(side) /\ \A b \in published : ParentVerified(main, side, b)
    BY DEF IInv, NodeOK
  <2>2. published \cup {0} \subseteq 0..Len(side)
    BY <1>1, <2>1
  <2> QED
    BY <2>1, <2>2
<1>3. r \in CallRec /\ CallOK(main, side, published, r)
  BY DEF IInv
<1>4. r.prev_main_hash \in 0..Len(main)
  BY <1>3 DEF CallOK
<1>5. prev = Chosen(main, side, tip, r.prev_main_hash)
  BY UpIsMiner DEF PrevSideHash, Chosen, Before, Common, LastCommon, LastCommonMainAncestor
<1>6. prev \in 0..tip /\ MinedOn(main, side, tip, r.prev_main_hash, prev)
  <2> HIDE DEF prev, r
  <2> QED
    BY <1>1, <1>2, <1>4, <1>5, ChosenIsGood
<1>7. prev \in 0..Len(side) /\ prev \in Nat /\ tip \in Nat
  BY <1>1, <1>2, <1>6
<1>8. q = [r EXCEPT !.tip_hash = tip, !.pc = "attempt", !.prev_side_hash = prev]
  BY DEF ChooseParent
<1> HIDE DEF prev, r
<1>9. /\ q \in CallRec /\ q.pc = "attempt" /\ q.tip_hash = tip /\ q.prev_side_hash = prev
      /\ q.prev_main_hash = r.prev_main_hash /\ q.event = r.event
      /\ q.asked = r.asked /\ q.confirmed = r.confirmed
  BY <1>3, <1>7, <1>8 DEF CallRec, Pc
<1> HIDE DEF q
<1>10. CallOK(main, side, published, q)
  BY <1>3, <1>6, <1>7, <1>9 DEF CallOK
<1> QED
  BY <1>9, <1>10 DEF q, r

\* A step of a call that has not the lock and does not take it.
LEMMA FreeStep ==
    ASSUME IInv, NEW c \in Call, NEW r \in CallRec, CallOK(main, side, published, r),
           r.pc \notin {"subscribe", "confirm", "submit"},
           call' = [call EXCEPT ![c] = r], lock' \in {lock, lock \ {c}},
           call[c].pc \notin {"subscribe", "confirm", "submit"} \/ lock' = lock \ {c},
           UNCHANGED <<main, best, reorgs, side, published, block>>,
           NodeOK(main, side, published, node')
    PROVE  IInv'
<1>1. call' \in [Call -> CallRec] /\ \A d \in Call : CallOK(main, side, published, call'[d])
  BY CallStep
<1>2. \A d \in Call : d # c => call'[d] = call[d]
  BY DEF IInv
<1>3. call'[c] = r
  BY DEF IInv
<1>4. Locked'
  <2>1. lock' \in SUBSET Call /\ \A d, e \in lock' : d = e
    BY DEF IInv, Locked
  <2>2. ASSUME NEW d \in Call
        PROVE  /\ call'[d].pc \in {"subscribe", "confirm", "submit"} => d \in lock'
               /\ call'[d].pc \in {"subscribe", "confirm"} => block = call'[d].asked /\ block # 0
    BY <1>2, <1>3 DEF IInv, Locked
  <2> QED
    BY <2>1, <2>2 DEF IInv, Locked
<1> QED
  BY <1>1, <1>4 DEF IInv, MainOK

\* mine reads the mainchain's tip.
LEMMA GetChainTipInvariant ==
    ASSUME IInv, NEW c \in Call, GetChainTip(c)
    PROVE  IInv'
<1> DEFINE r == [call[c] EXCEPT !.pc = "best_hash", !.prev_main_hash = best]
<1>1. call[c] \in CallRec /\ CallOK(main, side, published, call[c]) /\ best \in 0..Len(main)
  BY DEF IInv, MainOK
<1>2. best \in Nat
  BY <1>1, MainChainTypes DEF IInv, Chains
<1>3. /\ r \in CallRec /\ r.pc = "best_hash" /\ r.tip_hash = call[c].tip_hash
      /\ r.prev_side_hash = call[c].prev_side_hash /\ r.prev_main_hash = best
      /\ r.event = call[c].event /\ r.asked = call[c].asked /\ r.confirmed = call[c].confirmed
  BY <1>1, <1>2 DEF CallRec, Pc
<1>4. call' = [call EXCEPT ![c] = r]
  BY DEF GetChainTip, IInv
<1>5. lock' = lock /\ call[c].pc = "idle" /\ NodeOK(main, side, published, node')
      /\ UNCHANGED <<main, best, reorgs, side, published, block>>
  BY DEF GetChainTip, IInv
<1> HIDE DEF r
<1>6. CallOK(main, side, published, r)
  BY <1>1, <1>3 DEF CallOK
<1> QED
  BY <1>3, <1>4, <1>5, <1>6, FreeStep

\* mine reads the tip of the node.
LEMMA TryGetBestHashInvariant ==
    ASSUME IInv, NEW c \in Call, TryGetBestHash(c)
    PROVE  IInv'
<1>1. call[c] \in CallRec /\ CallOK(main, side, published, call[c])
  BY DEF IInv
<1>2. node.tip \in published \cup {0} /\ node.tip \in Nat
  <2>1. node.tip \in published \cup {0} /\ published \subseteq 1..Len(side)
    BY DEF IInv, NodeOK
  <2>2. published \cup {0} \subseteq Nat
    BY <2>1
  <2> QED
    BY <2>1, <2>2
<1>3. /\ lock' = lock /\ call[c].pc = "best_hash" /\ NodeOK(main, side, published, node')
      /\ UNCHANGED <<main, best, reorgs, side, published, block>>
  BY DEF TryGetBestHash, IInv
<1>4. CASE node.tip = 0 \/ call[c].prev_main_hash \in node.main
  <2> DEFINE r == ChooseParent(call[c], node.tip)
  <2>1. r \in CallRec /\ r.pc = "attempt" /\ CallOK(main, side, published, r)
    BY <1>2, ChooseParentOK
  <2>2. call' = [call EXCEPT ![c] = r]
    BY <1>4 DEF TryGetBestHash, IInv
  <2> HIDE DEF r
  <2> QED
    BY <1>3, <2>1, <2>2, FreeStep
<1>5. CASE ~(node.tip = 0 \/ call[c].prev_main_hash \in node.main)
  <2> DEFINE r == [call[c] EXCEPT !.tip_hash = node.tip, !.pc = "infos"]
  <2>1. /\ r \in CallRec /\ r.pc = "infos" /\ r.tip_hash = node.tip
        /\ r.prev_side_hash = call[c].prev_side_hash /\ r.prev_main_hash = call[c].prev_main_hash
        /\ r.event = call[c].event /\ r.asked = call[c].asked /\ r.confirmed = call[c].confirmed
    BY <1>1, <1>2 DEF CallRec, Pc
  <2>2. call' = [call EXCEPT ![c] = r]
    BY <1>5 DEF TryGetBestHash, IInv
  <2> HIDE DEF r
  <2>3. CallOK(main, side, published, r)
    BY <1>1, <1>2, <2>1 DEF CallOK
  <2> QED
    BY <1>3, <2>1, <2>2, <2>3, FreeStep
<1> QED
  BY <1>4, <1>5

\* mine asks for the mainchain infos.
LEMMA RequestInfosInvariant ==
    ASSUME IInv, NEW c \in Call, RequestInfos(c)
    PROVE  IInv'
<1> DEFINE r == ChooseParent(call[c], call[c].tip_hash)
<1>1. call[c].tip_hash \in published \cup {0} /\ call[c].prev_main_hash \in 0..Len(main)
  BY DEF IInv, CallOK
<1>2. r \in CallRec /\ r.pc = "attempt" /\ CallOK(main, side, published, r)
  BY <1>1, ChooseParentOK
<1>3. call' = [call EXCEPT ![c] = r]
  BY DEF RequestInfos, IInv
<1>4. NodeOK(main, side, published, node')
  <2>1. MainAncestors(call[c].prev_main_hash) \subseteq 0..Len(main)
    BY <1>1, AncestorsAreBlocks
  <2>2. NodeOK(main, side, published, node)
    BY DEF IInv
  <2> QED
    BY <2>1, <2>2 DEF NodeOK, RequestInfos
<1>5. lock' = lock /\ call[c].pc = "infos" /\ UNCHANGED <<main, best, reorgs, side, published, block>>
  BY DEF RequestInfos
<1> HIDE DEF r
<1> QED
  BY <1>2, <1>3, <1>4, <1>5, FreeStep

\* A call returns with an error.
LEMMA FailsInvariant ==
    ASSUME IInv, NEW c \in Call, Fails(c)
    PROVE  IInv'
<1>1. Idle \in CallRec /\ CallOK(main, side, published, Idle) /\ Idle.pc = "idle"
  BY IdleOK DEF IInv, Idle
<1>2. /\ call' = [call EXCEPT ![c] = Idle] /\ lock' = lock \ {c}
      /\ UNCHANGED <<main, best, reorgs, side, published, block>>
      /\ NodeOK(main, side, published, node')
  BY DEF Fails, IInv
<1> QED
  BY <1>1, <1>2, FreeStep

\* A step of the call that has the lock, or takes it.
LEMMA LockedStep ==
    ASSUME IInv, NEW c \in Call, NEW r \in CallRec, CallOK(main, side, published, r),
           call' = [call EXCEPT ![c] = r], c \in lock, lock' = lock,
           r.pc = "submit" \/ (r.pc = "confirm" /\ block' = r.asked /\ block' # 0),
           block' \in 0..Len(side),
           UNCHANGED <<main, best, reorgs, side, published>>,
           NodeOK(main, side, published, node')
    PROVE  IInv'
<1>1. call' \in [Call -> CallRec] /\ \A d \in Call : CallOK(main, side, published, call'[d])
  BY CallStep
<1>2. call'[c] = r
  BY DEF IInv
<1>3. ASSUME NEW d \in Call, d # c
      PROVE  call'[d] = call[d] /\ d \notin lock
  BY <1>3 DEF IInv, Locked
<1>4. Locked'
  <2>1. ASSUME NEW d \in Call
        PROVE  /\ call'[d].pc \in {"subscribe", "confirm", "submit"} => d \in lock'
               /\ call'[d].pc \in {"subscribe", "confirm"} => block' = call'[d].asked /\ block' # 0
    <3>1. CASE d = c
      BY <1>2, <3>1
    <3>2. CASE d # c
      BY <1>3, <3>2 DEF IInv, Locked
    <3> QED
      BY <3>1, <3>2
  <2> QED
    BY <2>1 DEF IInv, Locked
<1> QED
  BY <1>1, <1>4 DEF IInv, MainOK

\* attempt_bmm takes the lock.
LEMMA AttemptBmmInvariant ==
    ASSUME IInv, NEW c \in Call, AttemptBmm(c)
    PROVE  IInv'
<1> DEFINE x == [prev_side_hash |-> call[c].prev_side_hash, prev_main_hash |-> call[c].prev_main_hash]
           r == [Idle EXCEPT !.asked = Len(side'), !.pc = "subscribe"]
<1>1. /\ call[c] \in CallRec
      /\ call[c].prev_side_hash \in 0..Len(side) /\ call[c].prev_main_hash \in 0..Len(main)
  BY DEF IInv, CallOK
<1>2. x \in SideRec /\ x.prev_side_hash \in 0..Len(side) /\ x.prev_main_hash \in 0..Len(main)
  BY <1>1 DEF SideRec, CallRec
<1>3. /\ SideChain(side') /\ Longer(side, side') /\ Headers(main, side')
      /\ Len(side') = Len(side) + 1 /\ Len(side) \in Nat /\ Len(main) \in Nat
  <2>1. side' = Append(side, x)
    BY DEF AttemptBmm
  <2> HIDE DEF x
  <2> QED
    BY <1>2, <2>1, SideAppended
<1>4. /\ UNCHANGED <<main, best, reorgs, published, node>>
      /\ lock = {} /\ lock' = {c} /\ block' = Len(side') /\ call' = [call EXCEPT ![c] = r]
  BY DEF AttemptBmm
<1>5. Chains(main, side) /\ Chains(main', side')
  <2>1. Chains(main, side)
    BY DEF IInv
  <2>2. Committed(main, side')
    BY <1>3, <2>1 DEF Chains, Committed, Longer
  <2> QED
    BY <1>3, <1>4, <2>1, <2>2 DEF Chains
<1>6. Longer(main, main')
  BY <1>3, <1>4 DEF Longer
<1>7. published \subseteq 1..Len(side) /\ 1..Len(side) \subseteq 1..Len(side')
  <2>1. 1..Len(side) \subseteq 1..Len(side')
    BY <1>3
  <2> QED
    BY <2>1 DEF IInv, NodeOK
<1>8. NodeOK(main', side', published', node')
  <2>1. NodeOK(main, side, published, node) /\ published' \ published = {}
    BY <1>4 DEF IInv
  <2> QED
    BY <1>3, <1>4, <1>5, <1>6, <1>7, <2>1, NodeStays
<1>9. \A d \in Call : CallOK(main', side', published', call[d])
  BY <1>3, <1>4, <1>5, <1>6, <1>7, CallStays DEF IInv
<1>10. Len(side') \in Nat /\ Len(side') # 0 /\ Len(side') \in 0..Len(side')
  BY <1>3
<1>11. r \in CallRec /\ CallOK(main', side', published', r)
  <2>1. Idle \in CallRec /\ CallOK(main', side', published', Idle)
    BY <1>5, IdleOK
  <2>2. /\ r \in CallRec /\ r.pc = "subscribe" /\ r.tip_hash = Idle.tip_hash
        /\ r.prev_side_hash = Idle.prev_side_hash /\ r.prev_main_hash = Idle.prev_main_hash
        /\ r.event = Idle.event /\ r.asked = Len(side') /\ r.confirmed = Idle.confirmed
    BY <1>10, <2>1 DEF CallRec, Pc
  <2> HIDE DEF r
  <2> QED
    BY <1>10, <2>1, <2>2 DEF CallOK
<1>12. r.pc = "subscribe" /\ r.asked = Len(side')
  BY DEF Idle
<1> HIDE DEF r
<1>13. call' \in [Call -> CallRec] /\ \A d \in Call : CallOK(main', side', published', call'[d])
  BY <1>4, <1>9, <1>11 DEF IInv
<1>14. Locked'
  <2>1. ASSUME NEW d \in Call
        PROVE  /\ call'[d].pc \in {"subscribe", "confirm", "submit"} => d \in lock'
               /\ call'[d].pc \in {"subscribe", "confirm"} => block' = call'[d].asked /\ block' # 0
    <3>1. CASE d = c
      <4>1. call'[d] = r
        BY <1>4, <3>1 DEF IInv
      <4> QED
        BY <1>4, <1>10, <1>12, <3>1, <4>1
    <3>2. CASE d # c
      <4>1. call'[d] = call[d]
        BY <1>4, <3>2 DEF IInv
      <4> QED
        BY <1>4, <4>1 DEF IInv, Locked
    <3> QED
      BY <3>1, <3>2
  <2>2. lock' \in SUBSET Call /\ \A d, e \in lock' : d = e
    BY <1>4
  <2> QED
    BY <1>4, <1>10, <2>1, <2>2 DEF Locked
<1> QED
  BY <1>4, <1>5, <1>8, <1>13, <1>14 DEF IInv, MainOK

\* confirm_bmm subscribes to events.
LEMMA SubscribeEventsInvariant ==
    ASSUME IInv, NEW c \in Call, SubscribeEvents(c)
    PROVE  IInv'
<1> DEFINE r == [call[c] EXCEPT !.pc = "confirm"]
<1>1. call[c] \in CallRec /\ CallOK(main, side, published, call[c])
  BY DEF IInv
<1>2. /\ r \in CallRec /\ r.pc = "confirm" /\ r.tip_hash = call[c].tip_hash
      /\ r.prev_side_hash = call[c].prev_side_hash /\ r.prev_main_hash = call[c].prev_main_hash
      /\ r.event = call[c].event /\ r.asked = call[c].asked /\ r.confirmed = call[c].confirmed
  BY <1>1 DEF CallRec, Pc
<1>3. call' = [call EXCEPT ![c] = r]
  BY DEF SubscribeEvents, IInv
<1>4. /\ UNCHANGED <<main, best, reorgs, side, published, node, lock, block>>
      /\ NodeOK(main, side, published, node') /\ call[c].pc = "subscribe"
  BY DEF SubscribeEvents, IInv
<1>5. c \in lock /\ block' = call[c].asked /\ block' # 0 /\ block' \in 0..Len(side)
  BY <1>4 DEF IInv, Locked
<1> HIDE DEF r
<1>6. CallOK(main, side, published, r)
  BY <1>1, <1>2 DEF CallOK
<1> QED
  BY <1>2, <1>3, <1>4, <1>5, <1>6, LockedStep

\* confirm_bmm returns None: the block is cleared, and the lock is dropped.
LEMMA GivesUp ==
    ASSUME IInv, NEW c \in Call, call[c].pc = "confirm", block' = 0,
           lock' = lock \ {c}, call' = [call EXCEPT ![c] = Idle],
           UNCHANGED <<main, best, reorgs, side, published, node>>
    PROVE  IInv'
<1>1. Idle \in CallRec /\ CallOK(main, side, published, Idle) /\ Idle.pc = "idle"
  BY IdleOK DEF IInv, Idle
<1>2. c \in lock /\ Len(side) \in Nat
  BY SideChainTypes DEF IInv, Locked, Chains
<1>3. call' \in [Call -> CallRec] /\ \A d \in Call : CallOK(main, side, published, call'[d])
  BY <1>1, CallStep
<1>4. Locked'
  <2>1. ASSUME NEW d \in Call
        PROVE  call'[d].pc \notin {"subscribe", "confirm", "submit"}
    <3>1. CASE d = c
      BY <1>1, <3>1 DEF IInv
    <3>2. CASE d # c
      BY <1>2, <3>2 DEF IInv, Locked
    <3> QED
      BY <3>1, <3>2
  <2>2. lock' \in SUBSET Call /\ \A d, e \in lock' : d = e
    BY DEF IInv, Locked
  <2>3. block' \in 0..Len(side')
    BY <1>2
  <2> QED
    BY <2>1, <2>2, <2>3 DEF Locked
<1>5. NodeOK(main, side, published, node')
  BY DEF IInv
<1> QED
  BY <1>3, <1>4, <1>5 DEF IInv, MainOK

\* confirm_bmm gets no block from its stream of events.
LEMMA EventsEndInvariant ==
    ASSUME IInv, NEW c \in Call, EventsEnd(c)
    PROVE  IInv'
  BY GivesUp DEF EventsEnd

\* confirm_bmm gets its event.
LEMMA ConfirmBmmInvariant ==
    ASSUME IInv, NEW c \in Call, ConfirmBmm(c)
    PROVE  IInv'
<1>1. call[c] \in CallRec /\ CallOK(main, side, published, call[c])
  BY DEF IInv
<1>2. /\ call[c].pc = "confirm" /\ call[c].event # 0 /\ block' = 0
      /\ UNCHANGED <<main, best, reorgs, side, published, node>>
      /\ NodeOK(main, side, published, node')
  BY DEF ConfirmBmm, IInv
<1>3. c \in lock /\ block = call[c].asked /\ block # 0 /\ Len(side) \in Nat
  BY <1>2, SideChainTypes DEF IInv, Locked, Chains
<1>4. CASE main[call[c].event].bmm_commitment = block
  <2> DEFINE r == [call[c] EXCEPT !.pc = "submit", !.confirmed = block]
  <2>1. block \in Nat
    BY <1>1, <1>3 DEF CallRec
  <2>2. /\ r \in CallRec /\ r.pc = "submit" /\ r.tip_hash = call[c].tip_hash
        /\ r.prev_side_hash = call[c].prev_side_hash /\ r.prev_main_hash = call[c].prev_main_hash
        /\ r.event = call[c].event /\ r.asked = call[c].asked /\ r.confirmed = block
    BY <1>1, <2>1 DEF CallRec, Pc
  <2>3. call' = [call EXCEPT ![c] = r] /\ lock' = lock
    BY <1>4 DEF ConfirmBmm, IInv
  <2> HIDE DEF r
  <2>4. CallOK(main, side, published, r)
    BY <1>1, <1>2, <1>3, <1>4, <2>2 DEF CallOK
  <2>5. block' \in 0..Len(side)
    BY <1>2, <1>3
  <2> QED
    BY <1>2, <1>3, <2>2, <2>3, <2>4, <2>5, LockedStep
<1>5. CASE main[call[c].event].bmm_commitment # block
  <2>1. call' = [call EXCEPT ![c] = Idle] /\ lock' = lock \ {c}
    BY <1>5 DEF ConfirmBmm, IInv
  <2> QED
    BY <1>2, <2>1, GivesUp
<1> QED
  BY <1>4, <1>5

\* submit_block gives the node a block that the mainchain commits to.
LEMMA SubmitBlockInvariant ==
    ASSUME IInv, NEW c \in Call, SubmitBlock(c)
    PROVE  IInv'
<1> DEFINE b == call[c].confirmed
           m == call[c].event
<1>1. /\ call[c].pc = "submit" /\ lock' = lock \ {c} /\ call' = [call EXCEPT ![c] = Idle]
      /\ UNCHANGED <<main, best, reorgs, side, block>>
  BY DEF SubmitBlock
<1>2. b \in 1..Len(side) /\ m \in 0..Len(main)
  <2>1. b \in 0..Len(side) /\ b # 0 /\ m \in 0..Len(main) /\ Len(side) \in Nat
    BY <1>1, SideChainTypes DEF IInv, CallOK, Chains
  <2> QED
    BY <2>1
<1>3. b \in VerifiedAt(m) => ParentVerified(main, side, b)
  <2> HIDE DEF b, m
  <2>1. SUFFICES ASSUME b \in VerifiedUp(main, side)[m] PROVE ParentVerified(main, side, b)
    BY UpIsMiner
  <2>2. PICK k \in MainUp(main)[m] \ {0} :
            /\ main[k].parent = side[b].prev_main_hash
            /\ side[b].prev_side_hash \in VerifiedUp(main, side)[main[k].parent] \cup {0}
    BY <1>2, <2>1, VerifiedBy DEF IInv, Chains
  <2> QED
    BY <2>2 DEF ParentVerified
<1>4. NodeOK(main, side, published', node') /\ published \subseteq published'
  <2>1. NodeOK(main, side, published, node)
    BY DEF IInv
  <2>2. MainAncestors(m) \subseteq 0..Len(main)
    BY <1>2, AncestorsAreBlocks
  <2>3. published' = IF b \in VerifiedAt(m) THEN published \cup {b} ELSE published
    BY DEF SubmitBlock
  <2>4. published \subseteq published' /\ published' \subseteq 1..Len(side)
        /\ \A x \in published' : ParentVerified(main, side, x)
    <3> HIDE DEF b, m
    <3> QED
      BY <1>2, <1>3, <2>1, <2>3 DEF NodeOK
  <2>5. PICK tip \in BetterTip(b, m) :
            node' = [tip |-> tip, main |-> node.main \cup MainAncestors(m)]
    BY DEF SubmitBlock
  <2>6. tip = node.tip \/ (tip = b /\ b \in published')
    <3> HIDE DEF b, m
    <3> QED
      BY <2>3 DEF BetterTip
  <2>7. node.tip \in published' \cup {0} /\ node.main \subseteq 0..Len(main)
    BY <2>1, <2>4 DEF NodeOK
  <2> HIDE DEF b, m
  <2>8. node' \in [tip : published' \cup {0}, main : SUBSET (0..Len(main))]
    BY <2>2, <2>5, <2>6, <2>7
  <2> QED
    BY <2>4, <2>8 DEF NodeOK
<1>5. Idle \in CallRec /\ CallOK(main, side, published', Idle) /\ Idle.pc = "idle"
  BY IdleOK DEF IInv, Idle
<1>6. ASSUME NEW d \in Call
      PROVE  CallOK(main, side, published', call[d])
  <2>1. CallOK(main, side, published, call[d])
    BY DEF IInv
  <2> QED
    BY <1>4, <2>1 DEF CallOK
<1>7. call' \in [Call -> CallRec] /\ \A d \in Call : CallOK(main, side, published', call'[d])
  BY <1>1, <1>5, <1>6 DEF IInv
<1>8. Locked'
  <2>1. ASSUME NEW d \in Call
        PROVE  /\ call'[d].pc \in {"subscribe", "confirm", "submit"} => d \in lock'
               /\ call'[d].pc \in {"subscribe", "confirm"} => block' = call'[d].asked /\ block' # 0
    <3>1. CASE d = c
      BY <1>1, <1>5, <3>1 DEF IInv
    <3>2. CASE d # c
      BY <1>1, <3>2 DEF IInv, Locked
    <3> QED
      BY <3>1, <3>2
  <2>2. lock' \in SUBSET Call /\ \A d, e \in lock' : d = e
    BY <1>1 DEF IInv, Locked
  <2> QED
    BY <1>1, <2>1, <2>2 DEF IInv, Locked
<1> QED
  BY <1>1, <1>4, <1>7, <1>8 DEF IInv, MainOK

\* Every step of the mainchain, the node and the calls.
LEMMA NextInvariant == IInv /\ [Next]_vars => IInv'
<1> SUFFICES ASSUME IInv, [Next]_vars PROVE IInv'
  OBVIOUS
<1>1. CASE UNCHANGED vars
  BY <1>1 DEF vars, IInv, Locked, MainOK
<1>2. ASSUME NEW parent \in 0..Len(main), MainBlock(parent)
      PROVE  IInv'
  BY <1>2, MainBlockInvariant
<1>3. ASSUME NEW b \in published, NEW m \in 0..Len(main), NodeTip(b, m)
      PROVE  IInv'
  BY <1>3, NodeTipInvariant
<1>4. ASSUME NEW c \in Call, Mine(c) \/ EventsEnd(c) \/ Fails(c)
      PROVE  IInv'
  BY <1>4, GetChainTipInvariant, TryGetBestHashInvariant, RequestInfosInvariant,
     AttemptBmmInvariant, SubscribeEventsInvariant, ConfirmBmmInvariant,
     SubmitBlockInvariant, EventsEndInvariant, FailsInvariant DEF Mine
<1> QED
  BY <1>1, <1>2, <1>3, <1>4 DEF Next

\* The invariant says what MinerSafe does.
LEMMA InvariantSafe == IInv => MinerSafe
<1> SUFFICES ASSUME IInv PROVE MinerSafe
  OBVIOUS
<1>1. /\ MainChain(main) /\ SideChain(side) /\ Committed(main, side) /\ Headers(main, side)
      /\ Len(main) \in Nat /\ Len(side) \in Nat
      /\ DOMAIN main = 1..Len(main) /\ DOMAIN side = 1..Len(side)
  BY MainChainTypes, SideChainTypes, LenProperties DEF IInv, Chains, MainChain, SideChain
<1>2. TypeOK
  <2>1. \A m \in DOMAIN main : main[m].parent \in 0..(m - 1)
    BY <1>1, MainChainTypes
  <2>2. \A m \in DOMAIN main : main[m].bmm_commitment \in 0..Len(side)
    BY <1>1, MainChainTypes DEF Committed
  <2>3. \A b \in DOMAIN side : side[b].prev_side_hash \in 0..(b - 1)
    BY <1>1, SideChainTypes
  <2>4. \A b \in DOMAIN side : side[b].prev_main_hash \in 0..Len(main)
    BY <1>1 DEF Headers
  <2>5. Cardinality(lock) <= 1
    <3>1. CASE lock = {}
      BY <3>1, FS_EmptySet
    <3>2. CASE lock # {}
      <4>1. PICK c \in lock : TRUE
        BY <3>2
      <4>2. lock = {c}
        BY <4>1 DEF IInv, Locked
      <4>3. Cardinality({c}) = 1
        BY FS_Singleton
      <4> QED
        BY <4>2, <4>3
    <3> QED
      BY <3>1, <3>2
  <2>6. published \subseteq DOMAIN side /\ node.tip \in published \cup {0} /\ node.main \subseteq 0..Len(main)
    BY <1>1 DEF IInv, NodeOK
  <2> QED
    BY <2>1, <2>2, <2>3, <2>4, <2>5, <2>6 DEF TypeOK, IInv, MainOK, Locked
<1>3. OwnBlockConfirmed
  <2> SUFFICES ASSUME NEW c \in Call, call[c].pc = "submit"
               PROVE  /\ call[c].confirmed = call[c].asked
                      /\ main[call[c].event].bmm_commitment = call[c].asked
                      /\ main[call[c].event].parent = side[call[c].asked].prev_main_hash
    BY DEF OwnBlockConfirmed
  <2>1. /\ call[c].event \in 0..Len(main) /\ call[c].event # 0 /\ call[c].asked # 0
        /\ call[c].confirmed = call[c].asked
        /\ main[call[c].event].bmm_commitment = call[c].asked
    BY DEF IInv, CallOK
  <2>2. call[c].event \in 1..Len(main)
    BY <1>1, <2>1
  <2> QED
    BY <1>1, <2>1, <2>2 DEF Committed
<1> QED
  BY <1>2, <1>3 DEF MinerSafe

\* The invariant says what MinesOnVerified does.
LEMMA InvariantMines == IInv => MinesOnVerified
<1> SUFFICES ASSUME IInv, NEW c \in Call, call[c].pc = "attempt"
             PROVE  LET tip == call[c].tip_hash
                        prev == call[c].prev_side_hash
                        verified == Ancestors(tip) \cap VerifiedAt(call[c].prev_main_hash)
                        common == LastCommonMainAncestor(call[c].prev_main_hash,
                                                         side[tip].prev_main_hash)
                    IN  \/ /\ prev \in verified \cup {0}
                           /\ \A b \in verified : b > prev => side[b].prev_main_hash = common
                        \/ /\ prev = tip
                           /\ side[tip].prev_main_hash \in MainAncestors(call[c].prev_main_hash)
                           /\ side[tip].prev_side_hash \in verified \cup {0}
  BY DEF MinesOnVerified
<1>1. MinedOn(main, side, call[c].tip_hash, call[c].prev_main_hash, call[c].prev_side_hash)
  BY DEF IInv, CallOK
<1> QED
  BY <1>1, UpIsMiner DEF MinedOn, Common, LastCommon, LastCommonMainAncestor

\* Any number of calls, on mainchains that fork as they like: one call at most
\* has the lock of the miner, and a call that submits a block submits its own.
THEOREM CallsConfirmTheirOwn == Spec => []MinerSafe
<1>1. Spec => []IInv
  BY InitInvariant, NextInvariant, PTL DEF Spec
<1> QED
  BY <1>1, InvariantSafe, PTL

\* However old the tips are that a call of mine has read, the block that it is
\* about to ask for extends an ancestor of the node's tip to which the mainchain
\* below it commits, or the tip itself if just the mainchain block that commits
\* to the tip is gone.  The ancestor is the newest such one, but for blocks asked
\* for where the two mainchains part.
THEOREM CallsMineOnVerified == Spec => []MinesOnVerified
<1>1. Spec => []IInv
  BY InitInvariant, NextInvariant, PTL DEF Spec
<1> QED
  BY <1>1, InvariantMines, PTL

=============================================================================
