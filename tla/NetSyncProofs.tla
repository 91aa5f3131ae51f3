---------------------------- MODULE NetSyncProofs ----------------------------
(***************************************************************************)
(* Proofs about NetSync, for any peers, blocks, tips and scenarios.        *)
(*                                                                         *)
(* Whoever sends a tip to the net task looked for bodies only after the    *)
(* last ancestor in common with some tip that the node had.  The bodies    *)
(* below are there since no tip is committed without them, and none is     *)
(* ever removed.  So it does not matter which tip it was.                  *)
(***************************************************************************)
EXTENDS NetSync, FunctionTheorems, FiniteSetTheorems, SequenceTheorems, WellFoundedInduction, TLAPS

\* A set of numbers has a least one.
LEMMA NatMin ==
    ASSUME NEW T \in SUBSET Nat, T # {}
    PROVE  \E n \in T : \A m \in T : n <= m
<1> DEFINE R == {ss \in Nat \X Nat : ss[1] < ss[2]}
<1>1. R = OpToRel(<, Nat)
  BY DEF OpToRel
<1>2. IsWellFoundedOn(R, Nat)
  BY <1>1, NatLessThanWellFounded
<1>3. PICK n \in T : \A m \in T : ~(<<m, n>> \in R)
  <2> HIDE DEF R
  <2> QED
    BY <1>2, WFMin
<1>4. ASSUME NEW m \in T
      PROVE  n <= m
  <2>1. <<m, n>> \notin R
    BY <1>3
  <2>2. m \in Nat /\ n \in Nat
    OBVIOUS
  <2> QED
    BY <2>1, <2>2
<1> QED
  BY <1>4

-----------------------------------------------------------------------------
(***************************************************************************)
(* The tree of blocks.                                                     *)
(***************************************************************************)
Tip == Block \cup {NoBlock}

Height(b) == Len(Chain[b])

\* The chain of a block is that of its parent, and the block.
LEMMA ChainIs ==
    /\ Height(NoBlock) = 0 /\ Ancestors[NoBlock] = {}
    /\ \A b \in Tip : /\ Chain[b] \in Seq(Block) /\ Height(b) \in Nat
                      /\ Ancestors[b] = {Chain[b][i] : i \in 1..Height(b)}
                      /\ Ancestors[b] \subseteq Block
    /\ \A b \in Block :
          /\ Parent[b] \in Tip
          /\ Height(b) = Height(Parent[b]) + 1
          /\ Chain[b][Height(b)] = b
          /\ \A i \in 1..Height(Parent[b]) : Chain[b][i] = Chain[Parent[b]][i]
<1>1. ASSUME NEW b \in Tip
      PROVE  /\ Chain[b] \in Seq(Block) /\ Height(b) \in Nat
             /\ Ancestors[b] = {Chain[b][i] : i \in 1..Height(b)}
             /\ Ancestors[b] \subseteq Block
  <2>1. Chain[b] \in Seq(Block)
    BY ChainAssumption DEF Tip
  <2>2. Len(Chain[b]) \in Nat /\ DOMAIN Chain[b] = 1..Len(Chain[b])
    BY <2>1, LenProperties
  <2>3. Ancestors[b] = {Chain[b][i] : i \in 1..Height(b)}
    BY <2>2 DEF Ancestors, Range, Tip, Height
  <2>4. \A i \in 1..Height(b) : Chain[b][i] \in Block
    BY <2>1, ElementOfSeq DEF Height
  <2> QED
    BY <2>1, <2>2, <2>3, <2>4 DEF Height
<1>2. Height(NoBlock) = 0 /\ Ancestors[NoBlock] = {}
  <2>1. Height(NoBlock) = 0
    BY ChainAssumption, EmptySeq DEF Height
  <2> QED
    BY <1>1, <2>1 DEF Tip
<1>3. ASSUME NEW b \in Block
      PROVE  /\ Parent[b] \in Tip
             /\ Height(b) = Height(Parent[b]) + 1
             /\ Chain[b][Height(b)] = b
             /\ \A i \in 1..Height(Parent[b]) : Chain[b][i] = Chain[Parent[b]][i]
  <2>1. Parent[b] \in Tip
    BY BlockAssumption DEF Tip
  <2>2. Chain[b] = Append(Chain[Parent[b]], b)
    BY ChainAssumption
  <2>3. Chain[Parent[b]] \in Seq(Block)
    BY <1>1, <2>1
  <2> QED
    BY <2>1, <2>2, <2>3, AppendProperties DEF Height
<1> QED
  BY <1>1, <1>2, <1>3

\* A block's ancestors: itself and those of its parent.
LEMMA AncestorsAre ==
    ASSUME NEW b \in Block
    PROVE  Ancestors[b] = Ancestors[Parent[b]] \cup {b} /\ Parent[b] \in Tip
<1> DEFINE h == Height(b)
           q == Parent[b]
<1>1. /\ h \in Nat /\ Height(q) \in Nat /\ h = Height(q) + 1 /\ Chain[b][h] = b /\ q \in Tip
      /\ \A i \in 1..Height(q) : Chain[b][i] = Chain[q][i]
      /\ Ancestors[b] = {Chain[b][i] : i \in 1..h}
      /\ Ancestors[q] = {Chain[q][i] : i \in 1..Height(q)}
  BY ChainIs DEF Tip
<1> HIDE DEF h, q
<1>2. 1..h = 1..Height(q) \cup {h}
  BY <1>1
<1>3. Ancestors[b] = {Chain[b][i] : i \in 1..Height(q)} \cup {Chain[b][h]}
  BY <1>1, <1>2
<1>4. {Chain[b][i] : i \in 1..Height(q)} = {Chain[q][i] : i \in 1..Height(q)}
  BY <1>1
<1> QED
  BY <1>1, <1>3, <1>4 DEF q

\* There is no endless line of parents.
LEMMA BlockInduction ==
    ASSUME NEW Bad \in SUBSET Block, \A b \in Bad : Parent[b] \in Bad
    PROVE  Bad = {}
<1> DEFINE T == {Height(b) : b \in Bad}
<1>1. SUFFICES ASSUME Bad # {} PROVE FALSE
  OBVIOUS
<1>2. T \in SUBSET Nat /\ T # {}
  BY <1>1, ChainIs DEF Tip
<1>3. PICK n \in T : \A m \in T : n <= m
  <2> HIDE DEF T
  <2> QED
    BY <1>2, NatMin
<1>4. PICK b \in Bad : n = Height(b)
  OBVIOUS
<1>5. Height(b) = Height(Parent[b]) + 1 /\ Height(Parent[b]) \in Nat
  BY ChainIs DEF Tip
<1>6. n <= Height(Parent[b])
  BY <1>3
<1> QED
  BY <1>4, <1>5, <1>6

\* The ancestors of an ancestor are ancestors; only a block itself is as high.
LEMMA AncestorsBelow ==
    ASSUME NEW b \in Block
    PROVE  /\ b \in Ancestors[b]
           /\ \A a \in Ancestors[b] : /\ a \in Block /\ Ancestors[a] \subseteq Ancestors[b]
                                      /\ Height(a) <= Height(b)
                                      /\ Height(a) = Height(b) => a = b
<1> DEFINE Good(c) == \A a \in Ancestors[c] : /\ Ancestors[a] \subseteq Ancestors[c]
                                              /\ Height(a) <= Height(c)
                                              /\ Height(a) = Height(c) => a = c
           Bad == {c \in Block : ~Good(c)}
<1>1. ASSUME NEW c \in Bad
      PROVE  Parent[c] \in Bad
  <2>1. c \in Block /\ ~Good(c)
    OBVIOUS
  <2>2. /\ Ancestors[c] = Ancestors[Parent[c]] \cup {c} /\ Parent[c] \in Tip
        /\ Height(c) = Height(Parent[c]) + 1 /\ Height(Parent[c]) \in Nat
    BY AncestorsAre, ChainIs
  <2>3. \A a \in Ancestors[Parent[c]] : Height(a) \in Nat
    BY <2>2, ChainIs DEF Tip
  <2>4. CASE Parent[c] = NoBlock
    <3>1. Ancestors[c] = {c} /\ Height(c) \in Nat
      BY <2>2, <2>4, ChainIs
    <3>2. Good(c)
      BY <3>1
    <3> QED
      BY <2>1, <3>2
  <2>5. CASE Parent[c] # NoBlock
    <3>1. Parent[c] \in Block
      BY <2>2, <2>5 DEF Tip
    <3>2. ASSUME Good(Parent[c]), NEW a \in Ancestors[c]
          PROVE  /\ Ancestors[a] \subseteq Ancestors[c]
                 /\ Height(a) <= Height(c)
                 /\ Height(a) = Height(c) => a = c
      <4>1. CASE a = c
        BY <2>2, <4>1
      <4>2. CASE a # c
        <5>1. a \in Ancestors[Parent[c]]
          BY <2>2, <4>2
        <5>2. Ancestors[a] \subseteq Ancestors[Parent[c]] /\ Height(a) <= Height(Parent[c])
          BY <3>2, <5>1
        <5> QED
          BY <2>2, <2>3, <5>1, <5>2
      <4> QED
        BY <4>1, <4>2
    <3>3. Good(Parent[c]) => Good(c)
      BY <3>2
    <3> QED
      BY <2>1, <3>1, <3>3
  <2> QED
    BY <2>4, <2>5
<1>2. Bad = {}
  <2>1. Bad \in SUBSET Block
    OBVIOUS
  <2> HIDE DEF Bad
  <2> QED
    BY <1>1, <2>1, BlockInduction
<1>3. Good(b)
  BY <1>2
<1>4. b \in Ancestors[b] /\ \A a \in Ancestors[b] : a \in Block
  BY AncestorsAre, ChainIs DEF Tip
<1> QED
  BY <1>3, <1>4

\* Of two ancestors of a block, the lower one is an ancestor of the other.
LEMMA AncestorsLinear ==
    ASSUME NEW b \in Block, NEW a \in Ancestors[b], NEW c \in Ancestors[b], Height(a) <= Height(c)
    PROVE  a \in Ancestors[c]
<1> DEFINE Good(d) == \A x, y \in Ancestors[d] : Height(x) <= Height(y) => x \in Ancestors[y]
           Bad == {d \in Block : ~Good(d)}
<1>1. ASSUME NEW d \in Bad
      PROVE  Parent[d] \in Bad
  <2>1. d \in Block /\ ~Good(d)
    OBVIOUS
  <2>2. Ancestors[d] = Ancestors[Parent[d]] \cup {d} /\ Parent[d] \in Tip
    BY AncestorsAre
  <2>3. ASSUME Parent[d] \in Block => Good(Parent[d]),
               NEW x \in Ancestors[d], NEW y \in Ancestors[d], Height(x) <= Height(y)
        PROVE  x \in Ancestors[y]
    <3>1. CASE y = d
      BY <3>1
    <3>2. CASE y # d
      <4>1. y \in Ancestors[Parent[d]] /\ Parent[d] \in Block
        BY <2>2, <3>2, ChainIs DEF Tip
      <4>2. x # d
        <5> SUFFICES ASSUME x = d PROVE FALSE
          OBVIOUS
        <5>1. Height(y) <= Height(Parent[d])
          BY <4>1, AncestorsBelow
        <5>2. Height(d) = Height(Parent[d]) + 1 /\ Height(Parent[d]) \in Nat /\ Height(y) \in Nat
          BY <2>2, <4>1, ChainIs DEF Tip
        <5> QED
          BY <2>3, <5>1, <5>2
      <4> QED
        BY <2>2, <2>3, <4>1, <4>2
    <3> QED
      BY <3>1, <3>2
  <2> QED
    BY <2>1, <2>3
<1>2. Bad = {}
  <2>1. Bad \in SUBSET Block
    OBVIOUS
  <2> HIDE DEF Bad
  <2> QED
    BY <1>1, <2>1, BlockInduction
<1>3. Good(b)
  BY <1>2
<1> QED
  BY <1>3

\* Each block of a chain is the child of the one before.
LEMMA ChainSteps ==
    ASSUME NEW b \in Block, NEW i \in 1..Height(b), i # 1
    PROVE  i - 1 \in 1..Height(b) /\ Parent[Chain[b][i]] = Chain[b][i - 1]
<1> DEFINE Good(c) == \A j \in 1..Height(c) : j # 1 => Parent[Chain[c][j]] = Chain[c][j - 1]
           Bad == {c \in Block : ~Good(c)}
<1>1. ASSUME NEW c \in Bad
      PROVE  Parent[c] \in Bad
  <2>1. c \in Block /\ ~Good(c)
    OBVIOUS
  <2>2. PICK j \in 1..Height(c) : j # 1 /\ Parent[Chain[c][j]] # Chain[c][j - 1]
    BY <2>1
  <2> DEFINE q == Parent[c]
  <2>3. /\ q \in Tip /\ Height(q) \in Nat /\ Height(c) = Height(q) + 1 /\ Chain[c][Height(c)] = c
        /\ \A k \in 1..Height(q) : Chain[c][k] = Chain[q][k]
    BY ChainIs DEF Tip
  <2>4. j \in Nat /\ j - 1 \in 1..Height(q)
    BY <2>2, <2>3
  <2>5. Chain[c][j - 1] = Chain[q][j - 1]
    BY <2>3, <2>4
  <2>6. q # NoBlock
    <3> HIDE DEF q
    <3> QED
      BY <2>3, <2>4, ChainIs
  <2>7. CASE j = Height(c)
    <3>1. Chain[q][Height(q)] = q
      BY <2>3, <2>6, ChainIs DEF Tip
    <3>2. j - 1 = Height(q)
      BY <2>3, <2>7
    <3> QED
      BY <2>2, <2>3, <2>5, <2>7, <3>1, <3>2
  <2>8. CASE j # Height(c)
    <3>1. j \in 1..Height(q)
      BY <2>3, <2>4, <2>8
    <3>2. Chain[c][j] = Chain[q][j]
      BY <2>3, <3>1
    <3>3. ~Good(q)
      BY <2>2, <2>5, <3>1, <3>2
    <3> QED
      BY <2>3, <2>6, <3>3 DEF Tip
  <2> QED
    BY <2>7, <2>8
<1>2. Bad = {}
  <2>1. Bad \in SUBSET Block
    OBVIOUS
  <2> HIDE DEF Bad
  <2> QED
    BY <1>1, <2>1, BlockInduction
<1>3. Good(b)
  BY <1>2
<1>4. Height(b) \in Nat
  BY ChainIs DEF Tip
<1> QED
  BY <1>3, <1>4

\* The oldest of some blocks of a chain.
LEMMA EarliestIs ==
    ASSUME NEW b \in Tip, NEW S \in SUBSET Ancestors[b], S # {}
    PROVE  Earliest(S) \in S /\ Ancestors[Earliest(S)] \cap S = {Earliest(S)}
<1> DEFINE T == {Height(c) : c \in S}
<1>1. b \in Block
  BY ChainIs DEF Tip
<1>2. \A c \in S : c \in Block /\ Height(c) \in Nat
  BY <1>1, AncestorsBelow, ChainIs DEF Tip
<1>3. PICK n \in T : \A m \in T : n <= m
  <2>1. T \in SUBSET Nat /\ T # {}
    BY <1>2
  <2> HIDE DEF T
  <2> QED
    BY <2>1, NatMin
<1>4. PICK e \in S : n = Height(e)
  OBVIOUS
<1>5. \A c \in S : Height(e) <= Height(c)
  BY <1>3, <1>4
<1>6. Ancestors[e] \cap S = {e}
  <2>1. e \in Ancestors[e]
    BY <1>2, AncestorsBelow
  <2>2. ASSUME NEW c \in Ancestors[e] \cap S
        PROVE  c = e
    <3>1. Height(c) <= Height(e) /\ (Height(c) = Height(e) => c = e)
      BY <1>2, AncestorsBelow
    <3>2. Height(e) <= Height(c) /\ Height(c) \in Nat /\ Height(e) \in Nat
      BY <1>2, <1>5
    <3> QED
      BY <3>1, <3>2
  <2> QED
    BY <2>1, <2>2
<1>7. \E x \in S : Ancestors[x] \cap S = {x}
  BY <1>6
<1> QED
  BY <1>7 DEF Earliest

\* The last common ancestor is an ancestor of both, and has all common ones.
LEMMA LastCommonIs ==
    ASSUME NEW a \in Tip, NEW b \in Tip
    PROVE  /\ LastCommonAncestor(a, b) \in Tip
           /\ Ancestors[LastCommonAncestor(a, b)] = Ancestors[a] \cap Ancestors[b]
<1> DEFINE S == Ancestors[a] \cap Ancestors[b]
           T == {Height(b) - Height(c) : c \in S}
<1>1. CASE S = {}
  BY <1>1, ChainIs DEF LastCommonAncestor, Tip
<1>2. CASE S # {}
  <2>1. a \in Block /\ b \in Block
    BY <1>2, ChainIs DEF Tip
  <2>2. \A c \in S : c \in Block /\ Height(c) \in Nat /\ Height(b) \in Nat /\ Height(c) <= Height(b)
    BY <2>1, AncestorsBelow, ChainIs DEF Tip
  <2>3. PICK n \in T : \A m \in T : n <= m
    <3>1. T \in SUBSET Nat /\ T # {}
      <4>1. ASSUME NEW c \in S
            PROVE  Height(b) - Height(c) \in Nat
        BY <2>2
      <4> QED
        BY <1>2, <4>1
    <3> HIDE DEF T
    <3> QED
      BY <3>1, NatMin
  <2>4. PICK l \in S : n = Height(b) - Height(l)
    OBVIOUS
  <2>5. ASSUME NEW c \in S
        PROVE  Height(c) <= Height(l)
    <3>1. Height(b) - Height(l) <= Height(b) - Height(c)
      BY <2>3, <2>4
    <3> QED
      BY <2>2, <3>1
  <2>6. S \subseteq Ancestors[l]
    BY <2>1, <2>5, AncestorsLinear
  <2>7. \E x \in S : S \subseteq Ancestors[x]
    BY <2>6
  <2>8. Latest(S) \in S /\ S \subseteq Ancestors[Latest(S)]
    <3> HIDE DEF S
    <3> QED
      BY <2>7 DEF Latest
  <2>9. Ancestors[Latest(S)] \subseteq S
    BY <2>1, <2>8, AncestorsBelow
  <2> QED
    BY <1>2, <2>2, <2>8, <2>9 DEF LastCommonAncestor, Tip
<1> QED
  BY <1>1, <1>2

\* What is missing after an ancestor of a complete tip is all that is missing.
LEMMA MissingIs ==
    ASSUME NEW a \in Tip, NEW b \in Tip, NEW bodies, Ancestors[a] \subseteq bodies
    PROVE  MissingBodies(bodies, b, LastCommonAncestor(a, b)) = Ancestors[b] \ bodies
  BY LastCommonIs DEF MissingBodies

\* Below the first body that is missing, all are there.
LEMMA ParentOfEarliest ==
    ASSUME NEW b \in Tip, NEW bodies, Ancestors[b] \ bodies # {}
    PROVE  LET e == Earliest(Ancestors[b] \ bodies)
           IN  e \in Block /\ Parent[e] \in Tip /\ Ancestors[Parent[e]] \subseteq bodies
<1> DEFINE S == Ancestors[b] \ bodies
           e == Earliest(S)
<1>1. e \in S /\ Ancestors[e] \cap S = {e}
  BY EarliestIs
<1>2. b \in Block /\ e \in Block /\ Ancestors[e] \subseteq Ancestors[b]
  BY <1>1, AncestorsBelow, ChainIs DEF Tip
<1> HIDE DEF e
<1>3. Ancestors[e] = Ancestors[Parent[e]] \cup {e} /\ Parent[e] \in Tip
  BY <1>2, AncestorsAre
<1>4. e \notin Ancestors[Parent[e]]
  <2> SUFFICES ASSUME e \in Ancestors[Parent[e]] PROVE FALSE
    OBVIOUS
  <2>1. Parent[e] \in Block
    BY <1>3, ChainIs DEF Tip
  <2>2. Height(e) <= Height(Parent[e])
    BY <2>1, AncestorsBelow
  <2>3. Height(e) = Height(Parent[e]) + 1 /\ Height(Parent[e]) \in Nat
    BY <1>2, <1>3, ChainIs
  <2> QED
    BY <2>2, <2>3
<1>5. Ancestors[Parent[e]] \subseteq bodies
  BY <1>1, <1>2, <1>3, <1>4
<1> QED
  BY <1>2, <1>3, <1>5 DEF e

\* Blocks up to b, each the child of the one before.
Line(s, b) ==
    /\ s \in Seq(Block) /\ Len(s) \in Nat \ {0}
    /\ s[Len(s)] = b
    /\ \A j \in 1..Len(s) : s[j] \in Ancestors[b]
    /\ \A j \in 1..Len(s) : j # 1 => Parent[s[j]] = s[j - 1]

\* The blocks that reorg_to_tip applies.
ToApply(own, new) ==
    SubSeq(Chain[new], Len(Chain[LastCommonAncestor(own, new)]) + 1, Len(Chain[new]))

\* A tip that is better is not an ancestor, and so there are blocks to apply:
\* each the child of the one before, and the tip the last.
LEMMA ApplyIs ==
    ASSUME NEW own \in Tip, NEW new \in Block, BetterTip(own, new)
    PROVE  Line(ToApply(own, new), new)
<1> DEFINE apply == ToApply(own, new)
           c == LastCommonAncestor(own, new)
           k == Height(c)
           n == Height(new)
<1>1. c \in Tip /\ Ancestors[c] = Ancestors[own] \cap Ancestors[new]
  BY LastCommonIs DEF Tip
<1>2. k \in Nat /\ n \in Nat /\ Chain[new] \in Seq(Block) /\ n # 0
  <2>1. n = Height(Parent[new]) + 1 /\ Parent[new] \in Tip
    BY ChainIs
  <2>2. k \in Nat /\ n \in Nat /\ Chain[new] \in Seq(Block) /\ Height(Parent[new]) \in Nat
    BY <1>1, <2>1, ChainIs DEF Tip
  <2> QED
    BY <2>1, <2>2
<1>3. new \notin Ancestors[own]
  <2> SUFFICES ASSUME new \in Ancestors[own] PROVE FALSE
    OBVIOUS
  <2>1. own \in Block /\ own # NoBlock
    BY BlockAssumption, ChainIs DEF Tip
  <2>2. <<own, new>> \in Better
    BY <2>1 DEF BetterTip
  <2>3. new = own \/ new \in Ancestors[Parent[own]]
    BY <2>1, AncestorsAre
  <2>4. <<new, own>> \notin Better
    BY <2>1, <2>2, BlockAssumption
  <2> QED
    BY <2>1, <2>2, <2>3, <2>4, ChainAssumption
<1>4. k < n
  <2>1. CASE c = NoBlock
    BY <1>2, <2>1, ChainIs
  <2>2. CASE c # NoBlock
    <3>1. c \in Block /\ c \in Ancestors[c]
      BY <1>1, <2>2, AncestorsBelow DEF Tip
    <3>2. c \in Ancestors[new] /\ c # new
      BY <1>1, <1>3, <3>1
    <3>3. k <= n /\ k # n
      BY <3>2, AncestorsBelow
    <3> QED
      BY <1>2, <3>3
  <2> QED
    BY <2>1, <2>2
<1>5. \A i \in 1..n : Chain[new][i] \in Ancestors[new]
  BY ChainIs DEF Tip
<1>6. apply = SubSeq(Chain[new], k + 1, n)
  BY DEF Height, ToApply
<1> HIDE DEF apply, c, k, n
<1>7. \A i \in (k + 1)..n : Chain[new][i] \in Block
  <2>1. \A i \in (k + 1)..n : i \in 1..n
    BY <1>2
  <2> QED
    BY <1>5, <2>1, AncestorsBelow
<1>8. /\ apply \in Seq(Block) /\ Len(apply) = n - k
      /\ \A j \in 1..(n - k) : apply[j] = Chain[new][k + j]
  <2>1. k + 1 \in Int /\ n \in Int /\ k + 1 <= n /\ n - (k + 1) + 1 = n - k
    BY <1>2, <1>4
  <2>2. /\ SubSeq(Chain[new], k + 1, n) \in Seq(Block)
        /\ Len(SubSeq(Chain[new], k + 1, n)) = n - (k + 1) + 1
        /\ \A j \in 1..(n - (k + 1) + 1) : SubSeq(Chain[new], k + 1, n)[j] = Chain[new][k + 1 + j - 1]
    BY <1>7, <2>1, SubSeqProperties
  <2>3. \A j \in 1..(n - k) : k + 1 + j - 1 = k + j
    BY <1>2
  <2> QED
    BY <1>6, <2>1, <2>2, <2>3
<1>9. \A j \in 1..(n - k) : k + j \in 1..n
  BY <1>2, <1>4
<1>10. apply[Len(apply)] = new
  <2>1. n - k \in 1..(n - k) /\ k + (n - k) = n
    BY <1>2, <1>4
  <2>2. Chain[new][n] = new
    BY ChainIs DEF n
  <2> QED
    BY <1>8, <2>1, <2>2
<1>11. ASSUME NEW j \in 1..(n - k), j # 1
       PROVE  Parent[apply[j]] = apply[j - 1]
  <2>1. j - 1 \in 1..(n - k) /\ k + j \in 1..n /\ k + j # 1 /\ k + (j - 1) = (k + j) - 1
    BY <1>2, <1>4, <1>11
  <2>2. Parent[Chain[new][k + j]] = Chain[new][(k + j) - 1]
    BY <2>1, ChainSteps DEF n
  <2> QED
    BY <1>8, <2>1, <2>2
<1>12. n - k \in Nat \ {0}
  BY <1>2, <1>4
<1> QED
  BY <1>5, <1>8, <1>9, <1>10, <1>11, <1>12 DEF Line, apply

\* If nothing is requested, nothing is missing.
LEMMA NothingToRequest ==
    ASSUME NEW own \in Tip, NEW state \in Tip, Ancestors[own] \subseteq archive.bodies,
           BodiesToRequest(own, state) = {}
    PROVE  Ancestors[state] \subseteq archive.bodies
<1> DEFINE S == Ancestors[state] \ archive.bodies
<1>1. SUFFICES ASSUME S # {} PROVE FALSE
  OBVIOUS
<1>2. Earliest(S) \in S /\ Ancestors[Earliest(S)] \cap S = {Earliest(S)}
  BY <1>1, EarliestIs
<1>3. MissingBodies(archive.bodies, state, LastCommonAncestor(own, state)) = S
  BY MissingIs
<1>4. Cardinality({Earliest(S)}) = 1
  BY FS_Singleton
<1>5. 1 <= MAX_BLOCK_REQUESTS
  BY ScenarioAssumption
<1> HIDE DEF S
<1>6. Earliest(S) \in BodiesToRequest(own, state)
  BY <1>2, <1>3, <1>4, <1>5 DEF BodiesToRequest
<1> QED
  BY <1>6

-----------------------------------------------------------------------------
(***************************************************************************)
(* The invariant.  What is in a queue or under way refers to blocks of the *)
(* archive, which only grows.                                              *)
(***************************************************************************)
Archives == [headers : SUBSET Block, bodies : SUBSET Block, mains : SUBSET Block]

\* Headers and mainchain infos are stored with all that is below them.
ArchiveOK(a) ==
    /\ a \in Archives
    /\ a.bodies \subseteq a.headers /\ a.headers \subseteq a.mains
    /\ \A b \in a.headers : Ancestors[b] \subseteq a.headers
    /\ \A b \in a.mains : Ancestors[b] \subseteq a.mains
    /\ Ancestors[StartTip] \subseteq a.bodies

Grows(a, a2) ==
    a.headers \subseteq a2.headers /\ a.bodies \subseteq a2.bodies /\ a.mains \subseteq a2.mains

Request == [type : {"GetHeaders", "GetBlock"}, start : Tip, block : Block, tip : Block]

RequestOK(r, a) ==
    r \in Request /\ r.block \in a.mains /\ (r.type = "GetBlock" => r.block \in a.headers)

Hashes == {RequestHash(r) : r \in Request}

ConnRec == [up : BOOLEAN, connects : Nat, current : Tip, peer_states : SUBSET Block,
            tasks : Seq(Block), work : Seq([state : Block, tip : Tip]), mail : Seq(Block),
            sent : SUBSET Hashes, inflight : SUBSET Request]

ConnOK(c, a) ==
    /\ c \in ConnRec
    /\ \A r \in c.inflight : RequestOK(r, a) /\ RequestHash(r) \in c.sent
    /\ Len(c.work) <= 1
    /\ \A i \in 1..Len(c.work) : Ancestors[c.work[i].tip] \subseteq a.bodies

Item == [type : {"NeedMainchainAncestors", "NewTipReady"}, tip : Block]
            \cup [type : {"Response"}, request : Request]

ItemOK(i, a) ==
    /\ i.type = "NewTipReady" => Ancestors[i.tip] \subseteq a.bodies
    /\ i.type = "Response" => RequestOK(i.request, a)

Ready == [tip : Block, confirm : BOOLEAN]

Waiting == [missing : Block, tip : Block, peer : Peer]

Source == [main : Block, peer : Peer]

Reorg == [old : Tip, item : Ready, apply : Seq(Block)]

NetRec == [run : {"running", "invalid block"}, ready : Seq(Ready), descendant_tips : SUBSET Waiting,
           forward : Seq(Source), sources : SUBSET Source, reorg : Seq(Reorg)]

\* Of a reorganisation: the blocks to connect lead to a complete tip that is better
\* than the old one; what was committed by now is below them.
ReorgOK(r, own, a) ==
    /\ Ancestors[r.item.tip] \subseteq a.bodies
    /\ Line(r.apply, r.item.tip)
    /\ BetterTip(r.old, r.item.tip)
    /\ own = r.old \/ own \in Ancestors[Parent[r.apply[1]]]

NetOK(n, own, a) ==
    /\ n \in NetRec
    /\ IsFiniteSet(n.descendant_tips)
    /\ \A i \in 1..Len(n.ready) : Ancestors[n.ready[i].tip] \subseteq a.bodies
    /\ Len(n.reorg) <= 1
    /\ \A i \in 1..Len(n.reorg) : ReorgOK(n.reorg[i], own, a)

MainRec == [requests : Seq([main : Block, oneshot : BOOLEAN]),
            responses : Seq([main : Block, available : BOOLEAN])]

SubmitRec == [pc : {"idle", "main", "header", "body", "wait"}, block : Tip, accepted : SUBSET Block]

SubmitOK(s, a) ==
    /\ s \in SubmitRec
    /\ s.pc \in {"main", "header", "body"} =>
          s.block \in Block /\ Ancestors[Parent[s.block]] \subseteq a.headers
    /\ s.pc = "header" => s.block \in a.mains
    /\ s.pc = "body" => s.block \in a.headers

\* submit_block has one request with the mainchain task, of its block, and then
\* one tip with the net task.
Asked(s, m) ==
    /\ \A i \in 1..Len(m.requests) : m.requests[i].oneshot => s.pc = "main" /\ m.requests[i].main = s.block
    /\ \A i, j \in 1..Len(m.requests) : m.requests[i].oneshot /\ m.requests[j].oneshot => i = j

Confirms(s, n) ==
    /\ \A i \in 1..Len(n.ready) : n.ready[i].confirm => s.pc = "wait"
    /\ \A i, j \in 1..Len(n.ready) : n.ready[i].confirm /\ n.ready[j].confirm => i = j
    /\ \A k \in 1..Len(n.reorg) :
          n.reorg[k].item.confirm =>
              s.pc = "wait" /\ \A i \in 1..Len(n.ready) : ~n.ready[i].confirm

WorldOK ==
    /\ world \in Scenarios
    /\ peer \in [Peer -> Nat]
    /\ \A p \in Peer : peer[p] \in 1..Len(world.announced[p])

TipOK(own, a) == own \in Tip /\ Ancestors[own] \subseteq a.bodies

ConnsOK(cs, a) == cs \in [Peer -> ConnRec] /\ \A p \in Peer : ConnOK(cs[p], a)

InfosOK(is, a) ==
    is \in [Peer -> Seq(Item)] /\ \A p \in Peer : \A i \in 1..Len(is[p]) : ItemOK(is[p][i], a)

IInv ==
    /\ WorldOK
    /\ ArchiveOK(archive)
    /\ TipOK(tip, archive)
    /\ ConnsOK(conn, archive)
    /\ InfosOK(info, archive)
    /\ NetOK(net, tip, archive)
    /\ mainchain \in MainRec
    /\ SubmitOK(submit, archive)
    /\ Asked(submit, mainchain)
    /\ Confirms(submit, net)

-----------------------------------------------------------------------------
\* What refers to an archive refers to a larger one.
LEMMA GrowsOK ==
    ASSUME NEW a, NEW a2, Grows(a, a2)
    PROVE  /\ \A own : TipOK(own, a) => TipOK(own, a2)
           /\ \A c : ConnOK(c, a) => ConnOK(c, a2)
           /\ \A cs : ConnsOK(cs, a) => ConnsOK(cs, a2)
           /\ \A is : InfosOK(is, a) => InfosOK(is, a2)
           /\ \A n, own : NetOK(n, own, a) => NetOK(n, own, a2)
           /\ \A s : SubmitOK(s, a) => SubmitOK(s, a2)
<1> USE DEF Grows
<1>1. \A r : RequestOK(r, a) => RequestOK(r, a2)
  BY DEF RequestOK
<1>2. \A c : ConnOK(c, a) => ConnOK(c, a2)
  BY <1>1 DEF ConnOK
<1>3. \A i : ItemOK(i, a) => ItemOK(i, a2)
  BY <1>1 DEF ItemOK
<1>4. \A r, own : ReorgOK(r, own, a) => ReorgOK(r, own, a2)
  BY DEF ReorgOK
<1>5. \A own : TipOK(own, a) => TipOK(own, a2)
  BY DEF TipOK
<1>6. \A n, own : NetOK(n, own, a) => NetOK(n, own, a2)
  BY <1>4 DEF NetOK
<1>7. \A s : SubmitOK(s, a) => SubmitOK(s, a2)
  BY DEF SubmitOK
<1>8. \A cs : ConnsOK(cs, a) => ConnsOK(cs, a2)
  BY <1>2 DEF ConnsOK
<1>9. \A is : InfosOK(is, a) => InfosOK(is, a2)
  BY <1>3 DEF InfosOK
<1> QED
  BY <1>2, <1>5, <1>6, <1>7, <1>8, <1>9

\* The head of a queue, and what is left.
LEMMA TailIs ==
    ASSUME NEW S, NEW s \in Seq(S), s # << >>
    PROVE  /\ Len(s) \in Nat /\ 1 \in 1..Len(s) /\ Head(s) = s[1] /\ s[1] \in S
           /\ Tail(s) \in Seq(S) /\ Len(Tail(s)) \in Nat /\ Len(Tail(s)) = Len(s) - 1
           /\ \A i \in 1..Len(Tail(s)) : i + 1 \in 1..Len(s) /\ Tail(s)[i] = s[i + 1]
<1>1. Len(s) \in Nat /\ Len(s) # 0
  BY EmptySeq, LenProperties
<1>2. Head(s) \in S /\ Tail(s) \in Seq(S) /\ Len(Tail(s)) = Len(s) - 1
      /\ \A i \in 1..Len(Tail(s)) : Tail(s)[i] = s[i + 1]
  BY HeadTailProperties
<1>3. Head(s) = s[1]
  OBVIOUS
<1> QED
  BY <1>1, <1>2, <1>3

\* A queue with one more.
LEMMA AppendIs ==
    ASSUME NEW S, NEW s \in Seq(S), NEW x \in S
    PROVE  /\ Append(s, x) \in Seq(S) /\ Len(s) \in Nat /\ Len(Append(s, x)) = Len(s) + 1
           /\ \A i \in 1..Len(Append(s, x)) :
                 \/ i \in 1..Len(s) /\ Append(s, x)[i] = s[i]
                 \/ i = Len(s) + 1 /\ Append(s, x)[i] = x
<1>1. Len(s) \in Nat
  BY LenProperties
<1>2. /\ Append(s, x) \in Seq(S) /\ Len(Append(s, x)) = Len(s) + 1
      /\ \A i \in 1..Len(s) : Append(s, x)[i] = s[i]
      /\ Append(s, x)[Len(s) + 1] = x
  BY AppendProperties
<1> QED
  BY <1>1, <1>2

\* Two queues, one after the other.
LEMMA ConcatIs ==
    ASSUME NEW S, NEW s \in Seq(S), NEW t \in Seq(S)
    PROVE  /\ s \o t \in Seq(S)
           /\ \A i \in 1..Len(s \o t) : \/ i \in 1..Len(s) /\ (s \o t)[i] = s[i]
                                        \/ \E j \in 1..Len(t) : (s \o t)[i] = t[j]
<1>1. Len(s) \in Nat /\ Len(t) \in Nat
  BY LenProperties
<1>2. /\ s \o t \in Seq(S) /\ Len(s \o t) = Len(s) + Len(t)
      /\ \A i \in 1 .. Len(s) + Len(t) :
            (s \o t)[i] = IF i <= Len(s) THEN s[i] ELSE t[i - Len(s)]
  BY ConcatProperties
<1>3. ASSUME NEW i \in 1..Len(s \o t)
      PROVE  \/ i \in 1..Len(s) /\ (s \o t)[i] = s[i]
             \/ \E j \in 1..Len(t) : (s \o t)[i] = t[j]
  <2>1. CASE i <= Len(s)
    BY <1>1, <1>2, <2>1
  <2>2. CASE ~(i <= Len(s))
    <3>1. i - Len(s) \in 1..Len(t) /\ (s \o t)[i] = t[i - Len(s)]
      BY <1>1, <1>2, <2>2
    <3> QED
      BY <3>1
  <2> QED
    BY <2>1, <2>2
<1> QED
  BY <1>2, <1>3

\* One connection changes.
LEMMA ConnIs ==
    ASSUME NEW cs, NEW a, ConnsOK(cs, a), NEW p \in Peer, NEW c, ConnOK(c, a)
    PROVE  ConnsOK([cs EXCEPT ![p] = c], a)
  BY DEF ConnsOK, ConnOK

\* The infos of one peer change.
LEMMA InfoIs ==
    ASSUME NEW is, NEW a, InfosOK(is, a), NEW p \in Peer, NEW q \in Seq(Item),
           \A i \in 1..Len(q) : ItemOK(q[i], a)
    PROVE  InfosOK([is EXCEPT ![p] = q], a)
  BY DEF InfosOK

\* One more info, from a connection to a peer.
LEMMA InfoAppended ==
    ASSUME NEW is, NEW a, InfosOK(is, a), NEW p \in Peer, NEW x \in Item, ItemOK(x, a)
    PROVE  InfosOK([is EXCEPT ![p] = Append(@, x)], a)
<1>1. is[p] \in Seq(Item) /\ \A i \in 1..Len(is[p]) : ItemOK(is[p][i], a)
  BY DEF InfosOK
<1>2. Append(is[p], x) \in Seq(Item)
  BY <1>1, AppendIs
<1>3. \A i \in 1..Len(Append(is[p], x)) : ItemOK(Append(is[p], x)[i], a)
  BY <1>1, AppendIs
<1> QED
  BY <1>2, <1>3, InfoIs

\* The net task takes an info.
LEMMA InfoTaken ==
    ASSUME NEW is, NEW a, InfosOK(is, a), NEW p \in Peer, is[p] # << >>
    PROVE  /\ InfosOK([is EXCEPT ![p] = Tail(@)], a)
           /\ Head(is[p]) \in Item /\ ItemOK(Head(is[p]), a)
<1>1. is[p] \in Seq(Item) /\ \A i \in 1..Len(is[p]) : ItemOK(is[p][i], a)
  BY DEF InfosOK
<1>2. Tail(is[p]) \in Seq(Item) /\ Head(is[p]) \in Item /\ ItemOK(Head(is[p]), a)
  BY <1>1, TailIs
<1>3. \A i \in 1..Len(Tail(is[p])) : ItemOK(Tail(is[p])[i], a)
  BY <1>1, TailIs
<1> QED
  BY <1>2, <1>3, InfoIs

\* A connection with its type, by its fields.
LEMMA ConnFields ==
    ASSUME NEW a, NEW c, ConnOK(c, a)
    PROVE  /\ c \in ConnRec
           /\ c.up \in BOOLEAN /\ c.connects \in Nat /\ c.current \in Tip
           /\ c.peer_states \in SUBSET Block /\ c.tasks \in Seq(Block)
           /\ c.work \in Seq([state : Block, tip : Tip]) /\ c.mail \in Seq(Block)
           /\ c.sent \in SUBSET Hashes /\ c.inflight \in SUBSET Request
  BY DEF ConnOK, ConnRec

\* A new connection has nothing yet.
LEMMA NoConnOK ==
    ASSUME NEW a, NEW n \in Nat, NEW up \in BOOLEAN
    PROVE  /\ ConnOK(NoConn, a)
           /\ ConnOK([NoConn EXCEPT !.connects = n], a)
           /\ ConnOK([NoConn EXCEPT !.up = up, !.connects = n], a)
<1>1. Len(<< >>) = 0 /\ 1..0 = {} /\ \A S : << >> \in Seq(S)
  OBVIOUS
<1>2. ASSUME NEW c, c \in ConnRec, c.work = << >>, c.inflight = {}
      PROVE  ConnOK(c, a)
  BY <1>1, <1>2 DEF ConnOK
<1>3. ASSUME NEW v \in BOOLEAN, NEW m \in Nat
      PROVE  [NoConn EXCEPT !.up = v, !.connects = m] \in ConnRec
  BY <1>1 DEF ConnRec, NoConn, Tip
<1>4. NoConn \in ConnRec /\ [NoConn EXCEPT !.connects = n] \in ConnRec
  BY <1>1 DEF ConnRec, NoConn, Tip
<1>5. ConnOK(NoConn, a) /\ ConnOK([NoConn EXCEPT !.connects = n], a)
  BY <1>2, <1>4 DEF NoConn
<1>6. ConnOK([NoConn EXCEPT !.up = up, !.connects = n], a)
  BY <1>2, <1>3 DEF NoConn
<1> QED
  BY <1>5, <1>6

\* The first state: the archive is that of the start tip.
LEMMA InitIInv == Init => IInv
<1> SUFFICES ASSUME Init PROVE IInv
  OBVIOUS
<1> USE DEF Init
<1>1. StartTip \in Tip
  BY BlockAssumption DEF Tip
<1>2. /\ Ancestors[StartTip] \subseteq Block
      /\ \A b \in Ancestors[StartTip] : Ancestors[b] \subseteq Ancestors[StartTip]
  BY <1>1, ChainIs, AncestorsBelow DEF Tip
<1>3. ArchiveOK(archive)
  BY <1>2 DEF ArchiveOK, Archives
<1>4. TipOK(tip, archive)
  BY <1>1 DEF TipOK
<1>5. ConnsOK(conn, archive)
  <2>1. ConnOK(NoConn, archive)
    BY NoConnOK
  <2> QED
    BY <2>1 DEF ConnsOK, ConnOK
<1>6. Len(<< >>) = 0 /\ 1..0 = {} /\ \A S : << >> \in Seq(S)
  OBVIOUS
<1>7. InfosOK(info, archive)
  BY <1>6 DEF InfosOK
<1>8. NetOK(net, tip, archive)
  <2>1. IsFiniteSet({})
    BY FS_EmptySet
  <2> QED
    BY <1>6, <2>1 DEF NetOK, NetRec
<1>9. mainchain \in MainRec
  BY <1>6 DEF MainRec
<1>10. SubmitOK(submit, archive) /\ Asked(submit, mainchain) /\ Confirms(submit, net)
  BY <1>6 DEF SubmitOK, SubmitRec, Tip, Asked, Confirms
<1>11. WorldOK
  <2>1. ASSUME NEW p \in Peer
        PROVE  1 \in 1..Len(world.announced[p])
    <3>1. world.announced[p] \in Seq(Block) /\ world.announced[p] # << >>
      BY ScenarioAssumption
    <3> QED
      BY <3>1, TailIs
  <2> QED
    BY <2>1 DEF WorldOK
<1> QED
  BY <1>3, <1>4, <1>5, <1>7, <1>8, <1>9, <1>10, <1>11 DEF IInv

-----------------------------------------------------------------------------
(***************************************************************************)
(* The invariant is kept: the environment and the connection tasks.        *)
(***************************************************************************)
\* Steps of connections change connections and infos.
LEMMA ConnStep ==
    ASSUME IInv, ConnsOK(conn', archive), InfosOK(info', archive),
           UNCHANGED <<world, archive, tip, peer, net, mainchain, submit>>
    PROVE  IInv'
  BY DEF IInv, WorldOK

\* A connection that the program makes.
LEMMA ConnectKeeps ==
    ASSUME IInv, NEW p \in Peer, Connect(p)
    PROVE  IInv'
<1>1. ConnOK(conn[p], archive)
  BY DEF IInv, ConnsOK
<1>2. conn[p].connects + 1 \in Nat
  BY <1>1, ConnFields
<1>3. ConnOK([NoConn EXCEPT !.up = TRUE, !.connects = conn[p].connects + 1], archive)
  BY <1>2, NoConnOK
<1>4. ConnsOK(conn', archive)
  BY <1>3, ConnIs DEF Connect, IInv
<1> QED
  BY <1>4, ConnStep DEF Connect, IInv

\* A connection that ends.
LEMMA ClosedOK ==
    ASSUME IInv, NEW p \in Peer
    PROVE  ConnOK(Closed(p), archive)
<1>1. ConnOK(conn[p], archive)
  BY DEF IInv, ConnsOK
<1>2. conn[p].connects \in Nat
  BY <1>1, ConnFields
<1> QED
  BY <1>2, NoConnOK DEF Closed

\* The connection to a peer is lost.
LEMMA DisconnectKeeps ==
    ASSUME IInv, NEW p \in Peer, Disconnect(p)
    PROVE  IInv'
<1>1. ConnsOK(conn', archive)
  BY ClosedOK, ConnIs DEF Disconnect, IInv
<1> QED
  BY <1>1, ConnStep DEF Disconnect, IInv

\* A peer has another tip.
LEMMA PeerAdvancesKeeps ==
    ASSUME IInv, NEW p \in Peer, PeerAdvances(p)
    PROVE  IInv'
<1>1. WorldOK'
  <2>1. world.announced[p] \in Seq(Block)
    BY ScenarioAssumption DEF IInv, WorldOK
  <2>2. Len(world.announced[p]) \in Nat
    BY <2>1, LenProperties
  <2>3. peer[p] + 1 \in Nat /\ peer[p] + 1 \in 1..Len(world.announced[p])
    BY <2>2 DEF IInv, WorldOK, PeerAdvances
  <2> QED
    BY <2>3 DEF IInv, WorldOK, PeerAdvances
<1> QED
  BY <1>1 DEF IInv, PeerAdvances

\* The mainchain node learns of a block.
LEMMA MainBlockArrivesKeeps ==
    ASSUME IInv, NEW b \in Block, MainBlockArrives(b)
    PROVE  IInv'
  BY DEF IInv, WorldOK, MainBlockArrives

\* A tip that a peer announces is handled.
LEMMA HeartbeatKeeps ==
    ASSUME IInv, NEW p \in Peer, Heartbeat(p)
    PROVE  IInv'
<1> DEFINE c == conn[p]
           t == PeerTip(p)
           d == [c EXCEPT !.current = t, !.peer_states = @ \cup {t}, !.tasks = Append(@, t)]
<1>1. ConnOK(c, archive)
  BY DEF IInv, ConnsOK
<1>2. t \in Block
  <2>1. world.announced[p] \in Seq(Block) /\ peer[p] \in 1..Len(world.announced[p])
    BY ScenarioAssumption DEF IInv, WorldOK
  <2> QED
    BY <2>1, ElementOfSeq DEF PeerTip
<1>3. conn' = [conn EXCEPT ![p] = d]
  BY DEF Heartbeat, IInv, ConnsOK
<1> HIDE DEF c, t
<1>4. Append(c.tasks, t) \in Seq(Block) /\ t \in Tip
  BY <1>1, <1>2, ConnFields, AppendIs DEF Tip
<1>5. d \in ConnRec /\ d.work = c.work /\ d.inflight = c.inflight /\ d.sent = c.sent
  <2>1. c \in ConnRec
    BY <1>1, ConnFields
  <2>2. d \in ConnRec
    BY <1>2, <1>4, <2>1 DEF ConnRec
  <2>3. d.work = c.work /\ d.inflight = c.inflight /\ d.sent = c.sent
    BY <2>1 DEF ConnRec
  <2> QED
    BY <2>2, <2>3
<1>6. ConnOK(d, archive)
  BY <1>1, <1>5 DEF ConnOK
<1>7. ConnsOK(conn', archive)
  BY <1>3, <1>6, ConnIs DEF IInv
<1> QED
  BY <1>7, ConnStep DEF Heartbeat, IInv

\* A peer state is handled again.
LEMMA InternalMessageKeeps ==
    ASSUME IInv, NEW p \in Peer, InternalMessage(p)
    PROVE  IInv'
<1> DEFINE c == conn[p]
           state == Head(c.mail)
           d == [c EXCEPT !.mail = Tail(@), !.tasks = Append(@, state)]
<1>1. ConnOK(c, archive)
  BY DEF IInv, ConnsOK
<1>2. conn' = [conn EXCEPT ![p] = IF state \in c.peer_states THEN d ELSE Closed(p)] /\ c.mail # << >>
  BY DEF InternalMessage
<1> HIDE DEF c
<1>3. state \in Block /\ Tail(c.mail) \in Seq(Block)
  BY <1>1, <1>2, ConnFields, TailIs
<1> HIDE DEF state
<1>4. Append(c.tasks, state) \in Seq(Block)
  BY <1>1, <1>3, ConnFields, AppendIs
<1>5. d \in ConnRec /\ d.work = c.work /\ d.inflight = c.inflight /\ d.sent = c.sent
  <2>1. c \in ConnRec
    BY <1>1, ConnFields
  <2>2. d \in ConnRec
    BY <1>3, <1>4, <2>1 DEF ConnRec
  <2>3. d.work = c.work /\ d.inflight = c.inflight /\ d.sent = c.sent
    BY <2>1 DEF ConnRec
  <2> QED
    BY <2>2, <2>3
<1>6. ConnOK(d, archive)
  BY <1>1, <1>5 DEF ConnOK
<1> HIDE DEF d
<1>7. ConnsOK(conn', archive)
  BY <1>2, <1>6, ClosedOK, ConnIs DEF IInv
<1> QED
  BY <1>7, ConnStep DEF InternalMessage, IInv

\* The tip that is read is complete.
LEMMA HandlePeerStateKeeps ==
    ASSUME IInv, NEW p \in Peer, HandlePeerState(p)
    PROVE  IInv'
<1> DEFINE c == conn[p]
           w == [state |-> Head(c.tasks), tip |-> tip]
           d == [c EXCEPT !.tasks = Tail(@), !.work = <<w>>]
<1>1. ConnOK(c, archive)
  BY DEF IInv, ConnsOK
<1>2. conn' = [conn EXCEPT ![p] = d] /\ c.tasks # << >>
  BY DEF HandlePeerState, IInv, ConnsOK
<1> HIDE DEF c
<1>3. Head(c.tasks) \in Block /\ Tail(c.tasks) \in Seq(Block) /\ TipOK(tip, archive)
  BY <1>1, <1>2, ConnFields, TailIs DEF IInv
<1>4. w \in [state : Block, tip : Tip] /\ w.tip = tip /\ TipOK(w.tip, archive)
  BY <1>3 DEF TipOK
<1> HIDE DEF w
<1>5. <<w>> \in Seq([state : Block, tip : Tip]) /\ Len(<<w>>) = 1 /\ <<w>>[1] = w
  BY <1>4
<1>6. d \in ConnRec /\ d.work = <<w>> /\ d.inflight = c.inflight /\ d.sent = c.sent
  <2>1. c \in ConnRec
    BY <1>1, ConnFields
  <2>2. d \in ConnRec
    BY <1>3, <1>5, <2>1 DEF ConnRec
  <2>3. d.work = <<w>> /\ d.inflight = c.inflight /\ d.sent = c.sent
    BY <2>1 DEF ConnRec
  <2> QED
    BY <2>2, <2>3
<1>7. ConnOK(d, archive)
  <2>1. \A i \in 1..Len(d.work) : d.work[i] = w
    BY <1>5, <1>6
  <2> QED
    BY <1>1, <1>4, <1>5, <1>6, <2>1 DEF ConnOK, TipOK
<1>8. ConnsOK(conn', archive)
  BY <1>2, <1>7, ConnIs DEF IInv
<1> QED
  BY <1>8, ConnStep DEF HandlePeerState, IInv

\* Requests that are sent have their hashes among those sent.
LEMMA SendOK ==
    ASSUME NEW a, NEW c, ConnOK(c, a), NEW requests, \A r \in requests : RequestOK(r, a)
    PROVE  ConnOK(SendRequests(c, requests), a)
<1> DEFINE sent == c.sent \cup {RequestHash(r) : r \in requests}
           inflight == c.inflight \cup {r \in requests : RequestHash(r) \notin c.sent}
           d == [c EXCEPT !.sent = sent, !.inflight = inflight]
<1>1. c \in ConnRec /\ c.sent \in SUBSET Hashes /\ c.inflight \in SUBSET Request
  BY ConnFields
<1>2. requests \in SUBSET Request
  BY DEF RequestOK
<1>3. SendRequests(c, requests) = d
  BY <1>1 DEF SendRequests, ConnRec
<1>4. sent \in SUBSET Hashes /\ inflight \in SUBSET Request
  BY <1>1, <1>2 DEF Hashes
<1>5. \A r \in inflight : RequestOK(r, a) /\ RequestHash(r) \in sent
  BY DEF ConnOK
<1> HIDE DEF sent, inflight
<1>6. d \in ConnRec
  BY <1>1, <1>4 DEF ConnRec
<1>7. d.sent = sent /\ d.inflight = inflight /\ d.work = c.work
  BY <1>1 DEF ConnRec
<1> HIDE DEF d
<1>8. ConnOK(d, a)
  BY <1>5, <1>6, <1>7 DEF ConnOK
<1> QED
  BY <1>3, <1>8

\* What a peer state leads to: a tip that is ready is complete, and a block that
\* is requested has its header in the archive.
LEMMA FinishPeerStateKeeps ==
    ASSUME IInv, NEW p \in Peer, FinishPeerState(p)
    PROVE  IInv'
<1> DEFINE c == conn[p]
           own == c.work[1].tip
           state == c.work[1].state
           done == [c EXCEPT !.work = << >>]
           missing == BodiesToRequest(own, state)
           Tell(item) == info' = [info EXCEPT ![p] = Append(@, item)]
           Ask(requests) == conn' = [conn EXCEPT ![p] = SendRequests(done, requests)]
           lca == LastCommonAncestor(own, state)
<1>1. ConnOK(c, archive) /\ c.work # << >>
  BY DEF IInv, ConnsOK, FinishPeerState
<1>2. state \in Block /\ own \in Tip /\ Ancestors[own] \subseteq archive.bodies
  <2>1. c.work \in Seq([state : Block, tip : Tip]) /\ 1 \in 1..Len(c.work)
    BY <1>1, ConnFields, TailIs
  <2>2. c.work[1] \in [state : Block, tip : Tip]
    BY <2>1, ElementOfSeq
  <2>3. Ancestors[own] \subseteq archive.bodies
    BY <1>1, <2>1 DEF ConnOK
  <2> QED
    BY <2>2, <2>3
<1>3. ConnOK(done, archive)
  <2>1. c \in ConnRec
    BY <1>1, ConnFields
  <2>2. Len(<< >>) = 0 /\ << >> \in Seq([state : Block, tip : Tip])
    OBVIOUS
  <2>3. done \in ConnRec
    BY <2>1, <2>2 DEF ConnRec
  <2>4. done.work = << >> /\ done.inflight = c.inflight /\ done.sent = c.sent
    BY <2>1 DEF ConnRec
  <2> HIDE DEF done
  <2> QED
    BY <1>1, <2>2, <2>3, <2>4 DEF ConnOK
<1>4. \/ /\ Tell([type |-> "NeedMainchainAncestors", tip |-> state]) /\ Ask({})
      \/ Ask({}) /\ UNCHANGED info
      \/ state \in archive.mains /\ Ask({GetHeaders(own, state)}) /\ UNCHANGED info
      \/ /\ missing = {}
         /\ Tell([type |-> "NewTipReady", tip |-> state]) /\ Ask({})
      \/ /\ state \in archive.headers
         /\ Ask({GetBlock(b, state, lca) : b \in missing})
         /\ UNCHANGED info
  <2>1. CheckPeerTip(own, state) = "better" => state \in archive.headers
    BY DEF CheckPeerTip
  <2> QED
    BY <2>1 DEF FinishPeerState
<1>5. UNCHANGED <<world, archive, tip, peer, net, mainchain, submit>>
  BY DEF FinishPeerState
<1>6. ConnsOK(conn, archive) /\ InfosOK(info, archive) /\ ArchiveOK(archive)
  BY DEF IInv
<1> HIDE DEF c, own, state, done, missing, lca, Ask, Tell
<1>7. ASSUME NEW requests, Ask(requests), \A r \in requests : RequestOK(r, archive)
      PROVE  ConnsOK(conn', archive)
  <2>1. ConnOK(SendRequests(done, requests), archive)
    BY <1>3, <1>7, SendOK
  <2> QED
    BY <1>6, <1>7, <2>1, ConnIs DEF Ask, c
<1>8. ASSUME NEW x \in Item, Tell(x), ItemOK(x, archive)
      PROVE  InfosOK(info', archive)
  BY <1>6, <1>8, InfoAppended DEF Tell
<1>9. ASSUME Ask({})
      PROVE  ConnsOK(conn', archive)
  BY <1>7, <1>9
<1>10. CASE Tell([type |-> "NeedMainchainAncestors", tip |-> state]) /\ Ask({})
  <2>1. [type |-> "NeedMainchainAncestors", tip |-> state] \in Item
    BY <1>2 DEF Item
  <2>2. ItemOK([type |-> "NeedMainchainAncestors", tip |-> state], archive)
    BY DEF ItemOK
  <2>3. InfosOK(info', archive)
    BY <1>8, <1>10, <2>1, <2>2
  <2> QED
    BY <1>5, <1>9, <1>10, <2>3, ConnStep
<1>11. CASE Ask({}) /\ UNCHANGED info
  BY <1>5, <1>6, <1>9, <1>11, ConnStep
<1>12. CASE state \in archive.mains /\ Ask({GetHeaders(own, state)}) /\ UNCHANGED info
  <2>1. RequestOK(GetHeaders(own, state), archive)
    BY <1>2, <1>12 DEF RequestOK, GetHeaders, Request
  <2>2. ConnsOK(conn', archive)
    BY <1>7, <1>12, <2>1
  <2> QED
    BY <1>5, <1>6, <1>12, <2>2, ConnStep
<1>13. CASE missing = {} /\ Tell([type |-> "NewTipReady", tip |-> state]) /\ Ask({})
  <2>1. [type |-> "NewTipReady", tip |-> state] \in Item
    BY <1>2 DEF Item
  <2>2. state \in Tip
    BY <1>2 DEF Tip
  <2>3. Ancestors[state] \subseteq archive.bodies
    BY <1>2, <1>13, <2>2, NothingToRequest DEF missing
  <2>4. ItemOK([type |-> "NewTipReady", tip |-> state], archive)
    BY <2>3 DEF ItemOK
  <2>5. InfosOK(info', archive)
    BY <1>8, <1>13, <2>1, <2>4
  <2> QED
    BY <1>5, <1>9, <1>13, <2>5, ConnStep
<1>14. CASE /\ state \in archive.headers
            /\ Ask({GetBlock(b, state, lca) : b \in missing})
            /\ UNCHANGED info
  <2>1. missing \subseteq Ancestors[state] /\ lca \in Tip
    BY <1>2, LastCommonIs DEF missing, BodiesToRequest, MissingBodies, lca, Tip
  <2>2. ASSUME NEW b \in missing
        PROVE  RequestOK(GetBlock(b, state, lca), archive)
    <3>1. b \in archive.headers /\ b \in archive.mains /\ b \in Block
      BY <1>6, <1>14, <2>1 DEF ArchiveOK, Archives
    <3> QED
      BY <1>2, <2>1, <3>1 DEF RequestOK, GetBlock, Request
  <2>3. ConnsOK(conn', archive)
    BY <1>7, <1>14, <2>2
  <2> QED
    BY <1>5, <1>6, <1>14, <2>3, ConnStep
<1> QED
  BY <1>4, <1>10, <1>11, <1>12, <1>13, <1>14

\* The answer to a request that is in flight.
LEMMA PeerResponseKeeps ==
    ASSUME IInv, NEW p \in Peer, NEW request, PeerResponse(p, request)
    PROVE  IInv'
<1> DEFINE c == conn[p]
           d == [c EXCEPT !.inflight = @ \ {request}]
           x == [type |-> "Response", request |-> request]
<1>1. ConnOK(c, archive) /\ ConnsOK(conn, archive) /\ InfosOK(info, archive)
  BY DEF IInv, ConnsOK
<1>2. /\ request \in c.inflight /\ conn' = [conn EXCEPT ![p] = d]
      /\ info' = [info EXCEPT ![p] = Append(@, x)]
  BY DEF PeerResponse, IInv, ConnsOK
<1>3. UNCHANGED <<world, archive, tip, peer, net, mainchain, submit>>
  BY DEF PeerResponse
<1> HIDE DEF c
<1>4. RequestOK(request, archive) /\ request \in Request
  BY <1>1, <1>2 DEF ConnOK, RequestOK
<1>5. ConnOK(d, archive)
  <2>1. c \in ConnRec /\ c.inflight \ {request} \in SUBSET Request
    BY <1>1, ConnFields
  <2>2. d \in ConnRec
    BY <2>1 DEF ConnRec
  <2>3. d.work = c.work /\ d.inflight = c.inflight \ {request} /\ d.sent = c.sent
    BY <2>1 DEF ConnRec
  <2> HIDE DEF d
  <2> QED
    BY <1>1, <2>2, <2>3 DEF ConnOK
<1>6. x \in Item /\ ItemOK(x, archive)
  BY <1>4 DEF Item, ItemOK
<1> HIDE DEF d, x
<1>7. ConnsOK(conn', archive) /\ InfosOK(info', archive)
  BY <1>1, <1>2, <1>5, <1>6, ConnIs, InfoAppended
<1> QED
  BY <1>3, <1>7, ConnStep

-----------------------------------------------------------------------------
(***************************************************************************)
(* The invariant is kept: the net task.                                    *)
(***************************************************************************)
\* The net task with its type, by its fields.
LEMMA NetFields ==
    ASSUME NEW a, NEW own, NEW n, NetOK(n, own, a)
    PROVE  /\ n \in NetRec /\ n.ready \in Seq(Ready) /\ n.descendant_tips \in SUBSET Waiting
           /\ n.forward \in Seq(Source) /\ n.sources \in SUBSET Source /\ n.reorg \in Seq(Reorg)
           /\ IsFiniteSet(n.descendant_tips)
  BY DEF NetOK, NetRec

\* Messages to connections.
LEMMA PushOK ==
    ASSUME NEW a, ConnsOK(conn, a), NEW states, \A q \in Peer : states[q] \in Seq(Block)
    PROVE  ConnsOK(PushMessages(states), a)
<1>1. ASSUME NEW q \in Peer
      PROVE  ConnOK([conn[q] EXCEPT !.mail = @ \o states[q]], a) /\ ConnOK(conn[q], a)
  <2> DEFINE c == conn[q]
             mail == c.mail \o states[q]
             d == [c EXCEPT !.mail = mail]
  <2>1. ConnOK(c, a)
    BY DEF ConnsOK
  <2> HIDE DEF c
  <2>2. c \in ConnRec /\ c.mail \in Seq(Block)
    BY <2>1, ConnFields
  <2>3. mail \in Seq(Block)
    BY <2>2, ConcatProperties
  <2> HIDE DEF mail
  <2>4. d \in ConnRec
    BY <2>2, <2>3 DEF ConnRec
  <2>5. d.work = c.work /\ d.inflight = c.inflight /\ d.sent = c.sent
    BY <2>2 DEF ConnRec
  <2> HIDE DEF d
  <2>6. ConnOK(d, a)
    BY <2>1, <2>4, <2>5 DEF ConnOK
  <2> QED
    BY <2>1, <2>6 DEF c, d, mail
<1>2. ASSUME NEW q \in Peer
      PROVE  ConnOK(PushMessages(states)[q], a)
  BY <1>1 DEF PushMessages
<1>3. PushMessages(states) \in [Peer -> ConnRec]
  <2>1. \A q \in Peer : PushMessages(states)[q] \in ConnRec
    BY <1>2 DEF ConnOK
  <2> QED
    BY <2>1 DEF PushMessages
<1> QED
  BY <1>2, <1>3 DEF ConnsOK

\* The net task has other tips that are ready, or that wait for bodies.
LEMMA NetTipsOK ==
    ASSUME NEW a, NEW own, NEW n, NetOK(n, own, a), NEW ready \in Seq(Ready),
           \A i \in 1..Len(ready) : Ancestors[ready[i].tip] \subseteq a.bodies,
           NEW tips \in SUBSET Waiting, IsFiniteSet(tips)
    PROVE  NetOK([n EXCEPT !.ready = ready, !.descendant_tips = tips], own, a)
<1> DEFINE m == [n EXCEPT !.ready = ready, !.descendant_tips = tips]
<1>1. n \in NetRec
  BY NetFields
<1>2. m \in NetRec
  BY <1>1 DEF NetRec
<1>3. m.ready = ready /\ m.descendant_tips = tips /\ m.reorg = n.reorg
  BY <1>1 DEF NetRec
<1> HIDE DEF m
<1>4. NetOK(m, own, a)
  BY <1>2, <1>3 DEF NetOK
<1> QED
  BY <1>4 DEF m

\* The net task has other requests for mainchain blocks.
LEMMA NetSourcesOK ==
    ASSUME NEW a, NEW own, NEW n, NetOK(n, own, a), NEW forward \in Seq(Source),
           NEW sources \in SUBSET Source
    PROVE  /\ NetOK([n EXCEPT !.forward = forward, !.sources = sources], own, a)
           /\ \A s : Confirms(s, n) =>
                        Confirms(s, [n EXCEPT !.forward = forward, !.sources = sources])
<1> DEFINE m == [n EXCEPT !.forward = forward, !.sources = sources]
<1>1. n \in NetRec
  BY NetFields
<1>2. m \in NetRec
  BY <1>1 DEF NetRec
<1>3. m.ready = n.ready /\ m.descendant_tips = n.descendant_tips /\ m.reorg = n.reorg
  BY <1>1 DEF NetRec
<1> HIDE DEF m
<1>4. NetOK(m, own, a)
  BY <1>2, <1>3 DEF NetOK
<1>5. \A s : Confirms(s, n) => Confirms(s, m)
  BY <1>3 DEF Confirms
<1> QED
  BY <1>4, <1>5 DEF m

\* Only tips for which no call waits are added.
LEMMA ConfirmsMore ==
    ASSUME NEW s, NEW n, NEW m, Confirms(s, n), m.reorg = n.reorg,
           \A i \in 1..Len(m.ready) : m.ready[i].confirm => i \in 1..Len(n.ready) /\ n.ready[i].confirm
    PROVE  Confirms(s, m)
<1>1. \A i \in 1..Len(m.ready) : m.ready[i].confirm => s.pc = "wait"
  BY DEF Confirms
<1>2. \A i, j \in 1..Len(m.ready) : m.ready[i].confirm /\ m.ready[j].confirm => i = j
  BY DEF Confirms
<1>3. \A k \in 1..Len(m.reorg) :
          m.reorg[k].item.confirm => s.pc = "wait" /\ \A i \in 1..Len(m.ready) : ~m.ready[i].confirm
  BY DEF Confirms
<1> QED
  BY <1>1, <1>2, <1>3 DEF Confirms

\* The ancestors of a mainchain block are asked for.
LEMMA NeedMainchainAncestorsKeeps ==
    ASSUME IInv, NEW p \in Peer, NeedMainchainAncestors(p)
    PROVE  IInv'
<1> DEFINE state == Head(info[p]).tip
           x == [main |-> state, peer |-> p]
           forward == Append(net.forward, x)
<1>1. InfosOK(info, archive) /\ NetOK(net, tip, archive) /\ Confirms(submit, net)
  BY DEF IInv
<1>2. info[p] # << >> /\ Head(info[p]).type = "NeedMainchainAncestors"
  BY DEF NeedMainchainAncestors, NextInfo
<1>3. InfosOK(info', archive) /\ Head(info[p]) \in Item
  BY <1>1, <1>2, InfoTaken DEF NeedMainchainAncestors, TakeInfo
<1>4. state \in Block
  BY <1>2, <1>3 DEF Item
<1> HIDE DEF state
<1>5. x \in Source
  BY <1>4 DEF Source
<1> HIDE DEF x
<1>6. forward \in Seq(Source) /\ net.sources \in SUBSET Source /\ net \in NetRec
  BY <1>1, <1>5, NetFields, AppendIs
<1> HIDE DEF forward
<1>7. net' = [net EXCEPT !.forward = forward, !.sources = net.sources]
  <2>1. net' = [net EXCEPT !.forward = forward]
    BY DEF NeedMainchainAncestors, forward, x, state
  <2> QED
    BY <1>6, <2>1 DEF NetRec
<1>8. NetOK(net', tip, archive) /\ Confirms(submit, net')
  BY <1>1, <1>6, <1>7, NetSourcesOK
<1> QED
  BY <1>3, <1>8 DEF NeedMainchainAncestors, IInv, WorldOK

\* One of them is forwarded to the mainchain task.
LEMMA ForwardKeeps ==
    ASSUME IInv, ForwardMainchainTaskRequest
    PROVE  IInv'
<1> DEFINE item == Head(net.forward)
           x == [main |-> item.main, oneshot |-> FALSE]
           requests == Append(mainchain.requests, x)
<1>1. NetOK(net, tip, archive) /\ Confirms(submit, net) /\ mainchain \in MainRec
  BY DEF IInv
<1>2. net.forward # << >>
  BY DEF ForwardMainchainTaskRequest
<1>3. net.forward \in Seq(Source) /\ net.sources \in SUBSET Source
  BY <1>1, NetFields
<1>4. item \in Source /\ Tail(net.forward) \in Seq(Source) /\ net.sources \cup {item} \in SUBSET Source
  BY <1>2, <1>3, TailIs
<1>5. NetOK(net', tip, archive) /\ Confirms(submit, net')
  BY <1>1, <1>4, NetSourcesOK DEF ForwardMainchainTaskRequest
<1>6. x \in [main : Block, oneshot : BOOLEAN] /\ x.oneshot = FALSE
  BY <1>4 DEF Source
<1>7. mainchain.requests \in Seq([main : Block, oneshot : BOOLEAN])
  BY <1>1 DEF MainRec
<1>8. mainchain' = [mainchain EXCEPT !.requests = requests]
  BY DEF ForwardMainchainTaskRequest
<1> HIDE DEF x, item
<1>9. /\ requests \in Seq([main : Block, oneshot : BOOLEAN]) /\ Len(mainchain.requests) \in Nat
      /\ \A i \in 1..Len(requests) :
            requests[i].oneshot => i \in 1..Len(mainchain.requests) /\ requests[i] = mainchain.requests[i]
  BY <1>6, <1>7, AppendIs
<1> HIDE DEF requests
<1>10. mainchain' \in MainRec /\ mainchain'.requests = requests
  BY <1>1, <1>8, <1>9 DEF MainRec
<1>11. Asked(submit, mainchain')
  BY <1>9, <1>10 DEF IInv, Asked
<1> QED
  BY <1>5, <1>10, <1>11 DEF ForwardMainchainTaskRequest, IInv, WorldOK

\* The answer of the mainchain task goes to those that asked.
LEMMA MainchainTaskResponseKeeps ==
    ASSUME IInv, MainchainTaskResponse
    PROVE  IInv'
<1> DEFINE response == Head(mainchain.responses)
           sources == {s \in net.sources : s.main = response.main}
           states == [p \in Peer |-> IF response.available /\ \E s \in sources : s.peer = p
                                     THEN <<response.main>> ELSE << >>]
<1>1. /\ NetOK(net, tip, archive) /\ Confirms(submit, net) /\ mainchain \in MainRec
      /\ ConnsOK(conn, archive)
  BY DEF IInv
<1>2. /\ mainchain.responses # << >> /\ conn' = PushMessages(states)
      /\ mainchain' = [mainchain EXCEPT !.responses = Tail(@)]
      /\ net' = [net EXCEPT !.sources = @ \ sources]
  BY DEF MainchainTaskResponse
<1>3. mainchain.responses \in Seq([main : Block, available : BOOLEAN])
  BY <1>1 DEF MainRec
<1>4. /\ response \in [main : Block, available : BOOLEAN]
      /\ Tail(mainchain.responses) \in Seq([main : Block, available : BOOLEAN])
  BY <1>2, <1>3, TailIs
<1>5. response.main \in Block
  BY <1>4
<1>6. mainchain' \in MainRec /\ mainchain'.requests = mainchain.requests
  BY <1>1, <1>2, <1>4 DEF MainRec
<1>7. Asked(submit, mainchain')
  BY <1>6 DEF IInv, Asked
<1>8. net.forward \in Seq(Source) /\ net.sources \ sources \in SUBSET Source /\ net \in NetRec
  BY <1>1, NetFields
<1> HIDE DEF response, sources
<1>9. net' = [net EXCEPT !.forward = net.forward, !.sources = net.sources \ sources]
  BY <1>2, <1>8 DEF NetRec
<1>10. NetOK(net', tip, archive) /\ Confirms(submit, net')
  BY <1>1, <1>8, <1>9, NetSourcesOK
<1>11. \A q \in Peer : states[q] \in Seq(Block)
  BY <1>5
<1> HIDE DEF states
<1>12. ConnsOK(conn', archive)
  BY <1>1, <1>2, <1>11, PushOK
<1> QED
  BY <1>6, <1>7, <1>10, <1>12 DEF MainchainTaskResponse, IInv, WorldOK

\* One more tip is ready.
LEMMA ReadyAppended ==
    ASSUME NEW a, NEW own, NEW n, NetOK(n, own, a), NEW x \in Ready,
           Ancestors[x.tip] \subseteq a.bodies
    PROVE  LET m == [n EXCEPT !.ready = Append(@, x)]
           IN  /\ NetOK(m, own, a) /\ m.reorg = n.reorg /\ m.ready = Append(n.ready, x)
               /\ \A s : Confirms(s, n) /\ ~x.confirm => Confirms(s, m)
<1> DEFINE ready == Append(n.ready, x)
           m == [n EXCEPT !.ready = ready]
<1>1. n \in NetRec /\ n.ready \in Seq(Ready)
  BY NetFields
<1>2. /\ ready \in Seq(Ready)
      /\ \A i \in 1..Len(ready) : \/ i \in 1..Len(n.ready) /\ ready[i] = n.ready[i]
                                  \/ ready[i] = x
  BY <1>1, AppendIs
<1>3. \A i \in 1..Len(ready) : Ancestors[ready[i].tip] \subseteq a.bodies
  BY <1>2 DEF NetOK
<1> HIDE DEF ready
<1>4. m \in NetRec
  BY <1>1, <1>2 DEF NetRec
<1>5. m.ready = ready /\ m.reorg = n.reorg /\ m.descendant_tips = n.descendant_tips
  BY <1>1 DEF NetRec
<1> HIDE DEF m
<1>6. NetOK(m, own, a)
  BY <1>3, <1>4, <1>5 DEF NetOK
<1>7. ASSUME NEW s, Confirms(s, n), ~x.confirm
      PROVE  Confirms(s, m)
  BY <1>2, <1>5, <1>7, ConfirmsMore
<1> QED
  BY <1>5, <1>6, <1>7 DEF m, ready

\* A tip of a peer is ready.
LEMMA PeerTipReadyKeeps ==
    ASSUME IInv, NEW p \in Peer, PeerTipReady(p)
    PROVE  IInv'
<1> DEFINE t == Head(info[p]).tip
           x == [tip |-> t, confirm |-> FALSE]
<1>1. InfosOK(info, archive) /\ NetOK(net, tip, archive) /\ Confirms(submit, net)
  BY DEF IInv
<1>2. info[p] # << >> /\ Head(info[p]).type = "NewTipReady"
  BY DEF PeerTipReady, NextInfo
<1>3. /\ InfosOK(info', archive) /\ Head(info[p]) \in Item /\ ItemOK(Head(info[p]), archive)
      /\ net' = [net EXCEPT !.ready = Append(@, x)]
  BY <1>1, <1>2, InfoTaken DEF PeerTipReady, TakeInfo
<1>4. t \in Block /\ Ancestors[t] \subseteq archive.bodies
  BY <1>2, <1>3 DEF Item, ItemOK
<1> HIDE DEF t
<1>5. x \in Ready /\ x.tip = t /\ ~x.confirm
  BY <1>4 DEF Ready
<1> HIDE DEF x
<1>6. NetOK(net', tip, archive) /\ Confirms(submit, net')
  BY <1>1, <1>3, <1>4, <1>5, ReadyAppended
<1> QED
  BY <1>3, <1>6 DEF PeerTipReady, IInv, WorldOK

\* A response of a peer, with its request.
LEMMA ResponseIs ==
    ASSUME IInv, NEW p \in Peer, NextInfo(p, "Response"), TakeInfo(p)
    PROVE  /\ InfosOK(info', archive)
           /\ Head(info[p]).request \in Request /\ RequestOK(Head(info[p]).request, archive)
<1>1. InfosOK(info, archive)
  BY DEF IInv
<1>2. info[p] # << >> /\ Head(info[p]).type = "Response"
  BY DEF NextInfo
<1>3. InfosOK(info', archive) /\ Head(info[p]) \in Item /\ ItemOK(Head(info[p]), archive)
  BY <1>1, <1>2, InfoTaken DEF TakeInfo
<1>4. RequestOK(Head(info[p]).request, archive)
  BY <1>2, <1>3 DEF ItemOK
<1> QED
  BY <1>3, <1>4 DEF RequestOK

\* Headers are stored with all that is below them.
LEMMA HeadersResponseKeeps ==
    ASSUME IInv, NEW p \in Peer, HeadersResponse(p)
    PROVE  IInv'
<1> DEFINE request == Head(info[p]).request
           states == [q \in Peer |-> IF q = p THEN <<request.tip>> ELSE << >>]
<1>1. NextInfo(p, "Response") /\ TakeInfo(p)
  BY DEF HeadersResponse
<1>2. InfosOK(info', archive) /\ request \in Request /\ RequestOK(request, archive)
  BY <1>1, ResponseIs
<1>3. /\ archive' = [archive EXCEPT !.headers = @ \cup Ancestors[request.block]]
      /\ conn' = PushMessages(states)
      /\ UNCHANGED <<world, tip, late, peer, net, mainchain, submit>>
  BY DEF HeadersResponse
<1> HIDE DEF request
<1>4. request.block \in archive.mains /\ request.block \in Block /\ request.tip \in Block
  BY <1>2 DEF RequestOK, Request
<1>5. /\ Ancestors[request.block] \subseteq Block
      /\ \A b \in Ancestors[request.block] : Ancestors[b] \subseteq Ancestors[request.block]
  BY <1>4, AncestorsBelow
<1>6. ArchiveOK(archive)
  BY DEF IInv
<1>7. /\ archive' \in Archives /\ archive'.headers = archive.headers \cup Ancestors[request.block]
      /\ archive'.bodies = archive.bodies /\ archive'.mains = archive.mains
  BY <1>3, <1>5, <1>6 DEF ArchiveOK, Archives
<1>8. ArchiveOK(archive') /\ Grows(archive, archive')
  BY <1>4, <1>5, <1>6, <1>7 DEF ArchiveOK, Grows
<1>9. \A q \in Peer : states[q] \in Seq(Block)
  BY <1>4
<1> HIDE DEF states
<1>10. ConnsOK(conn', archive)
  BY <1>3, <1>9, PushOK DEF IInv
<1>11. /\ TipOK(tip, archive') /\ ConnsOK(conn', archive') /\ InfosOK(info', archive')
       /\ NetOK(net, tip, archive') /\ SubmitOK(submit, archive')
  BY <1>2, <1>8, <1>10, GrowsOK DEF IInv
<1> QED
  BY <1>3, <1>8, <1>11 DEF IInv, WorldOK

\* A finite set in some order.
LEMMA SetToSeqIs ==
    ASSUME NEW S, IsFiniteSet(S)
    PROVE  Cardinality(S) \in Nat /\ SetToSeq(S) \in [1..Cardinality(S) -> S]
<1> DEFINE n == Cardinality(S)
<1>1. n \in Nat /\ ExistsBijection(1..n, S)
  BY FS_CardinalityType
<1>2. PICK f : f \in Bijection(1..n, S)
  BY <1>1, Fun_ExistsBij
<1>3. f \in [1..n -> S] /\ \A i, j \in 1..n : f[i] = f[j] => i = j
  <2>1. f \in Injection(1..n, S)
    BY <1>2, Fun_BijectionProperties
  <2> HIDE DEF n
  <2> QED
    BY <2>1 DEF Injection, IsInjective
<1>4. IsInjective(f)
  BY <1>3 DEF IsInjective
<1> QED
  BY <1>1, <1>3, <1>4 DEF SetToSeq

\* A set given by the elements of a finite one is finite.
LEMMA ImageFinite ==
    ASSUME NEW S, IsFiniteSet(S), NEW T, NEW f \in [S -> T], T = {f[x] : x \in S}
    PROVE  IsFiniteSet(T)
<1>1. f \in Surjection(S, T)
  BY DEF Surjection
<1> QED
  BY <1>1, FS_Surjection

\* Of the tips that waited for a body, those that are ready are complete: either
\* nothing is missing, or the tip is the parent of the oldest body that is.
LEMMA ResumedOK ==
    ASSUME IInv, NEW bodies, archive.bodies \subseteq bodies, NEW block
    PROVE  LET r == ResumedTips(bodies, block)
           IN  /\ r.descendant_tips \in SUBSET Waiting /\ IsFiniteSet(r.descendant_tips)
               /\ r.ready \in Seq(Ready)
               /\ \A i \in 1..Len(r.ready) :
                     ~r.ready[i].confirm /\ Ancestors[r.ready[i].tip] \subseteq bodies
<1> DEFINE waiting == {w \in net.descendant_tips : w.missing = block}
           Missing(w) == MissingBodies(bodies, w.tip, LastCommonAncestor(tip, w.tip))
           Again(w) == [w EXCEPT !.missing = Earliest(Missing(w))]
           NextTip(w) == IF Missing(w) = {} THEN w.tip ELSE Parent[Earliest(Missing(w))]
           chosen == {w \in waiting : NextTip(w) # NoBlock /\ BetterTip(tip, NextTip(w))}
           better == SetToSeq(chosen)
           incomplete == {w \in waiting : Missing(w) # {}}
           again == {Again(w) : w \in incomplete}
           tips == (net.descendant_tips \ waiting) \cup again
           ready == [i \in DOMAIN better |-> [tip |-> NextTip(better[i]), confirm |-> FALSE]]
           r == ResumedTips(bodies, block)
<1>1. r.descendant_tips = tips /\ r.ready = ready
  BY DEF ResumedTips
<1>2. net.descendant_tips \in SUBSET Waiting /\ IsFiniteSet(net.descendant_tips)
  BY NetFields DEF IInv
<1>3. tip \in Tip /\ Ancestors[tip] \subseteq bodies
  BY DEF IInv, TipOK
<1>4. ASSUME NEW w \in waiting
      PROVE  /\ w \in Waiting /\ w.tip \in Tip /\ w.tip \in Block
             /\ Missing(w) = Ancestors[w.tip] \ bodies
  <2>1. w \in Waiting
    BY <1>2
  <2>2. w.tip \in Block /\ w.tip \in Tip
    BY <2>1 DEF Waiting, Tip
  <2> QED
    BY <1>3, <2>1, <2>2, MissingIs
<1>5. ASSUME NEW w \in waiting, NextTip(w) # NoBlock
      PROVE  NextTip(w) \in Block /\ Ancestors[NextTip(w)] \subseteq bodies
  <2>1. CASE Missing(w) = {}
    BY <1>4, <2>1
  <2>2. CASE Missing(w) # {}
    <3>1. /\ Parent[Earliest(Missing(w))] \in Tip
          /\ Ancestors[Parent[Earliest(Missing(w))]] \subseteq bodies
      BY <1>4, <2>2, ParentOfEarliest
    <3> QED
      BY <1>5, <2>2, <3>1 DEF Tip
  <2> QED
    BY <2>1, <2>2
<1>6. ASSUME NEW w \in incomplete
      PROVE  Again(w) \in Waiting
  <2>1. Earliest(Missing(w)) \in Block
    BY <1>4, ParentOfEarliest
  <2>2. w \in Waiting
    BY <1>4
  <2> HIDE DEF Missing
  <2> QED
    BY <2>1, <2>2 DEF Waiting
<1>7. IsFiniteSet(again)
  <2>1. IsFiniteSet(incomplete)
    <3>1. incomplete \in SUBSET net.descendant_tips
      OBVIOUS
    <3> HIDE DEF incomplete
    <3> QED
      BY <1>2, <3>1, FS_Subset
  <2> HIDE DEF incomplete, Again
  <2> DEFINE f == [w \in incomplete |-> Again(w)]
  <2>2. f \in [incomplete -> again] /\ again = {f[w] : w \in incomplete}
    OBVIOUS
  <2> HIDE DEF again, f
  <2> QED
    BY <2>1, <2>2, ImageFinite
<1>8. tips \in SUBSET Waiting /\ IsFiniteSet(tips)
  <2>1. again \in SUBSET Waiting
    BY <1>6
  <2>2. IsFiniteSet(net.descendant_tips \ waiting)
    BY <1>2, FS_Difference
  <2> HIDE DEF again, waiting
  <2> QED
    BY <1>2, <1>7, <2>1, <2>2, FS_Union
<1>9. Cardinality(chosen) \in Nat /\ better \in [1..Cardinality(chosen) -> chosen]
  <2>1. chosen \in SUBSET net.descendant_tips
    OBVIOUS
  <2> HIDE DEF chosen
  <2>2. IsFiniteSet(chosen)
    BY <1>2, <2>1, FS_Subset
  <2> QED
    BY <2>2, SetToSeqIs
<1>10. \A w \in chosen : w \in waiting /\ NextTip(w) # NoBlock
  OBVIOUS
<1> DEFINE k == Cardinality(chosen)
<1> HIDE DEF chosen, better, NextTip, waiting, k
<1>11. ASSUME NEW i \in 1..k
       PROVE  /\ ready[i] \in Ready /\ ~ready[i].confirm
              /\ Ancestors[ready[i].tip] \subseteq bodies
  <2>1. better[i] \in chosen /\ DOMAIN better = 1..k
    BY <1>9 DEF k
  <2>2. ready[i] = [tip |-> NextTip(better[i]), confirm |-> FALSE]
    BY <2>1
  <2>3. NextTip(better[i]) \in Block /\ Ancestors[NextTip(better[i])] \subseteq bodies
    BY <1>5, <1>10, <2>1
  <2> DEFINE x == ready[i]
  <2>4. x = [tip |-> NextTip(better[i]), confirm |-> FALSE]
    BY <2>2
  <2> HIDE DEF x
  <2>5. x \in Ready /\ ~x.confirm /\ x.tip = NextTip(better[i])
    BY <2>3, <2>4 DEF Ready
  <2>6. x \in Ready /\ ~x.confirm /\ Ancestors[x.tip] \subseteq bodies
    BY <2>3, <2>5
  <2> QED
    BY <2>6 DEF x
<1>12. ready \in Seq(Ready) /\ Len(ready) = k
  <2>1. DOMAIN ready = 1..k /\ ready = [i \in 1..k |-> ready[i]]
    BY <1>9 DEF k
  <2>2. ready \in [1..k -> Ready]
    BY <1>11, <2>1
  <2>3. k \in Nat
    BY <1>9 DEF k
  <2> HIDE DEF ready
  <2> QED
    BY <2>2, <2>3, LenProperties
<1> HIDE DEF ready, tips, r
<1>13. /\ r.descendant_tips \in SUBSET Waiting /\ IsFiniteSet(r.descendant_tips)
       /\ r.ready \in Seq(Ready)
       /\ \A i \in 1..Len(r.ready) :
             ~r.ready[i].confirm /\ Ancestors[r.ready[i].tip] \subseteq bodies
  BY <1>1, <1>8, <1>11, <1>12
<1> QED
  BY <1>13 DEF r

\* A body is stored; the tips that are ready by it are complete.
LEMMA BlockResponseKeeps ==
    ASSUME IInv, NEW p \in Peer, BlockResponse(p)
    PROVE  IInv'
<1> DEFINE request == Head(info[p]).request
           block == request.block
           bodies == archive.bodies \cup {block}
           missing == MissingBodies(bodies, block, request.start)
           resumed == ResumedTips(bodies, block)
           waits == IF missing = {} THEN {}
                    ELSE {[missing |-> Earliest(missing), tip |-> request.tip, peer |-> p]}
           child == IF Parent[block] = tip
                    THEN <<[tip |-> block, confirm |-> FALSE]>> ELSE << >>
           states == [q \in Peer |-> IF q = p /\ missing = {} THEN <<request.tip>> ELSE << >>]
           tips == resumed.descendant_tips \cup waits
           ready == net.ready \o child \o resumed.ready
<1>1. NextInfo(p, "Response") /\ TakeInfo(p) /\ request.type = "GetBlock"
  BY DEF BlockResponse
<1>2. InfosOK(info', archive) /\ request \in Request /\ RequestOK(request, archive)
  BY <1>1, ResponseIs
<1>3. /\ archive' = [archive EXCEPT !.bodies = bodies]
      /\ conn' = PushMessages(states)
      /\ net' = [net EXCEPT !.descendant_tips = tips, !.ready = ready]
      /\ UNCHANGED <<world, tip, late, peer, mainchain, submit>>
  BY DEF BlockResponse
<1> HIDE DEF request
<1>4. /\ block \in archive.headers /\ block \in Block /\ request.tip \in Block
      /\ request.start \in Tip
  BY <1>1, <1>2 DEF RequestOK, Request
<1>5. ArchiveOK(archive) /\ NetOK(net, tip, archive)
  BY DEF IInv
<1>6. /\ archive' \in Archives /\ archive'.headers = archive.headers
      /\ archive'.bodies = bodies /\ archive'.mains = archive.mains
  BY <1>3, <1>4, <1>5 DEF ArchiveOK, Archives
<1>7. ArchiveOK(archive') /\ Grows(archive, archive')
  BY <1>4, <1>5, <1>6 DEF ArchiveOK, Grows
<1>8. \A q \in Peer : states[q] \in Seq(Block)
  BY <1>4
<1>9. ConnsOK(conn', archive)
  <2> HIDE DEF states
  <2> QED
    BY <1>3, <1>8, PushOK DEF IInv
<1>10. /\ TipOK(tip, archive') /\ ConnsOK(conn', archive') /\ InfosOK(info', archive')
       /\ NetOK(net, tip, archive') /\ SubmitOK(submit, archive')
  BY <1>2, <1>5, <1>7, <1>9, GrowsOK DEF IInv
<1>11. /\ resumed.descendant_tips \in SUBSET Waiting /\ IsFiniteSet(resumed.descendant_tips)
       /\ resumed.ready \in Seq(Ready)
       /\ \A i \in 1..Len(resumed.ready) :
             ~resumed.ready[i].confirm /\ Ancestors[resumed.ready[i].tip] \subseteq bodies
  <2>1. archive.bodies \subseteq bodies
    OBVIOUS
  <2> HIDE DEF bodies, block
  <2> QED
    BY <2>1, ResumedOK
<1>12. waits \in SUBSET Waiting /\ IsFiniteSet(waits)
  <2>1. CASE missing = {}
    BY <2>1, FS_EmptySet
  <2>2. CASE missing # {}
    <3>1. missing \in SUBSET Ancestors[block] /\ block \in Tip
      BY <1>4 DEF MissingBodies, Tip
    <3>2. Earliest(missing) \in Ancestors[block]
      <4> HIDE DEF missing, block
      <4> QED
        BY <2>2, <3>1, EarliestIs
    <3>3. Earliest(missing) \in Block
      BY <1>4, <3>2, AncestorsBelow
    <3> HIDE DEF missing
    <3>4. waits = {[missing |-> Earliest(missing), tip |-> request.tip, peer |-> p]}
      BY <2>2
    <3>5. [missing |-> Earliest(missing), tip |-> request.tip, peer |-> p] \in Waiting
      BY <1>4, <3>3 DEF Waiting
    <3> QED
      BY <3>4, <3>5, FS_Singleton
  <2> QED
    BY <2>1, <2>2
<1>13. /\ child \in Seq(Ready)
       /\ \A i \in 1..Len(child) : ~child[i].confirm /\ Ancestors[child[i].tip] \subseteq bodies
  <2>1. CASE Parent[block] # tip
    <3>1. child = << >> /\ Len(<< >>) = 0 /\ << >> \in Seq(Ready)
      BY <2>1
    <3> HIDE DEF child
    <3> QED
      BY <3>1
  <2>2. CASE Parent[block] = tip
    <3> DEFINE x == [tip |-> block, confirm |-> FALSE]
    <3>1. child = <<x>>
      BY <2>2
    <3>2. x \in Ready /\ ~x.confirm /\ x.tip = block
      BY <1>4 DEF Ready
    <3>3. Ancestors[block] \subseteq bodies
      BY <1>4, <2>2, AncestorsAre DEF IInv, TipOK
    <3> HIDE DEF child, x, bodies, block
    <3>4. <<x>> \in Seq(Ready) /\ Len(<<x>>) = 1 /\ <<x>>[1] = x
      BY <3>2
    <3> QED
      BY <3>1, <3>2, <3>3, <3>4
  <2> QED
    BY <2>1, <2>2
<1>14. net \in NetRec /\ net.ready \in Seq(Ready) /\ Len(net.ready) \in Nat
  BY <1>5, NetFields, LenProperties
<1> HIDE DEF child, resumed, waits, bodies
<1>15. /\ ready \in Seq(Ready)
       /\ \A i \in 1..Len(ready) :
             \/ i \in 1..Len(net.ready) /\ ready[i] = net.ready[i]
             \/ ~ready[i].confirm /\ Ancestors[ready[i].tip] \subseteq bodies
  <2> DEFINE first == net.ready \o child
  <2>1. /\ first \in Seq(Ready)
        /\ \A i \in 1..Len(first) : \/ i \in 1..Len(net.ready) /\ first[i] = net.ready[i]
                                    \/ \E j \in 1..Len(child) : first[i] = child[j]
    BY <1>13, <1>14, ConcatIs
  <2>2. ready = first \o resumed.ready
    OBVIOUS
  <2> HIDE DEF first, ready
  <2>3. /\ ready \in Seq(Ready)
        /\ \A i \in 1..Len(ready) : \/ i \in 1..Len(first) /\ ready[i] = first[i]
                                    \/ \E j \in 1..Len(resumed.ready) : ready[i] = resumed.ready[j]
    BY <1>11, <2>1, <2>2, ConcatIs
  <2> QED
    BY <1>11, <1>13, <2>1, <2>3
<1>16. tips \in SUBSET Waiting /\ IsFiniteSet(tips)
  BY <1>11, <1>12, FS_Union
<1> HIDE DEF ready, tips
<1>17. \A i \in 1..Len(ready) : Ancestors[ready[i].tip] \subseteq archive'.bodies
  <2>1. \A i \in 1..Len(net.ready) : Ancestors[net.ready[i].tip] \subseteq archive'.bodies
    BY <1>10 DEF NetOK
  <2> QED
    BY <1>6, <1>15, <2>1
<1>18. net' = [net EXCEPT !.ready = ready, !.descendant_tips = tips]
  BY <1>3, <1>14 DEF NetRec
<1>19. NetOK(net', tip, archive')
  BY <1>10, <1>15, <1>16, <1>17, <1>18, NetTipsOK
<1>20. Confirms(submit, net')
  <2>1. net'.ready = ready /\ net'.reorg = net.reorg
    BY <1>14, <1>18 DEF NetRec
  <2> QED
    BY <1>15, <2>1, ConfirmsMore DEF IInv
<1> QED
  BY <1>3, <1>7, <1>10, <1>19, <1>20 DEF IInv, WorldOK

\* The answer to submit_block, which waits for it.
LEMMA AnswerOK ==
    ASSUME IInv, NEW item \in Ready, NEW applied \in BOOLEAN, item.confirm => submit.pc = "wait"
    PROVE  LET s == Answer(item, applied)
           IN  /\ SubmitOK(s, archive) /\ Asked(s, mainchain)
               /\ item.confirm => s.pc = "idle"
               /\ ~item.confirm => s = submit
<1> DEFINE s == Answer(item, applied)
<1>1. SubmitOK(submit, archive) /\ Asked(submit, mainchain)
  BY DEF IInv
<1>2. CASE ~item.confirm
  <2>1. s = submit
    BY <1>2 DEF Answer
  <2> QED
    BY <1>1, <1>2, <2>1
<1>3. CASE item.confirm
  <2> DEFINE accepted == IF applied THEN submit.accepted \cup {item.tip} ELSE submit.accepted
  <2>1. submit \in SubmitRec /\ accepted \in SUBSET Block
    BY <1>1 DEF SubmitOK, SubmitRec, Ready
  <2>2. s = [submit EXCEPT !.pc = "idle", !.accepted = accepted]
    BY <1>3, <2>1 DEF Answer, SubmitRec
  <2> HIDE DEF s, accepted
  <2>3. s \in SubmitRec /\ s.pc = "idle"
    BY <2>1, <2>2 DEF SubmitRec
  <2>4. SubmitOK(s, archive)
    BY <2>3 DEF SubmitOK
  <2>5. \A i \in 1..Len(mainchain.requests) : ~mainchain.requests[i].oneshot
    BY <1>1, <1>3 DEF Asked
  <2>6. Asked(s, mainchain)
    BY <2>5 DEF Asked
  <2> QED
    BY <1>3, <2>3, <2>4, <2>6 DEF s
<1> QED
  BY <1>2, <1>3

\* The first tip that is ready is taken.
LEMMA ReadyTaken ==
    ASSUME NEW a, NEW own, NEW n, NetOK(n, own, a), n.ready # << >>, n.reorg = << >>
    PROVE  LET m == [n EXCEPT !.ready = Tail(@)]
               x == Head(n.ready)
           IN  /\ x \in Ready /\ Ancestors[x.tip] \subseteq a.bodies
               /\ m \in NetRec /\ NetOK(m, own, a) /\ m.reorg = << >>
               /\ m.run = n.run /\ m.descendant_tips = n.descendant_tips
               /\ \A s : Confirms(s, n) =>
                     /\ Confirms(s, m)
                     /\ x.confirm => s.pc = "wait" /\ \A i \in 1..Len(m.ready) : ~m.ready[i].confirm
<1> DEFINE x == Head(n.ready)
           left == Tail(n.ready)
           m == [n EXCEPT !.ready = left]
<1>1. n \in NetRec /\ n.ready \in Seq(Ready)
  BY NetFields
<1>2. /\ x = n.ready[1] /\ x \in Ready /\ 1 \in 1..Len(n.ready) /\ left \in Seq(Ready)
      /\ \A i \in 1..Len(left) : i + 1 \in 1..Len(n.ready) /\ left[i] = n.ready[i + 1]
      /\ Len(left) \in Nat
  BY <1>1, TailIs
<1> HIDE DEF x, left
<1>3. m \in NetRec
  BY <1>1, <1>2 DEF NetRec
<1>4. /\ m.ready = left /\ m.reorg = n.reorg /\ m.descendant_tips = n.descendant_tips
      /\ m.run = n.run
  BY <1>1 DEF NetRec
<1> HIDE DEF m
<1>5. \A i \in 1..Len(left) : Ancestors[left[i].tip] \subseteq a.bodies
  BY <1>2 DEF NetOK
<1>6. NetOK(m, own, a) /\ Ancestors[x.tip] \subseteq a.bodies
  BY <1>2, <1>3, <1>4, <1>5 DEF NetOK
<1>7. ASSUME NEW s, Confirms(s, n)
      PROVE  /\ Confirms(s, m)
             /\ x.confirm => s.pc = "wait" /\ \A i \in 1..Len(m.ready) : ~m.ready[i].confirm
  <2>1. x.confirm => s.pc = "wait"
    BY <1>2, <1>7 DEF Confirms
  <2>2. ASSUME x.confirm, NEW i \in 1..Len(left)
        PROVE  ~left[i].confirm
    <3>1. n.ready[1].confirm /\ i + 1 # 1
      BY <1>2, <2>2
    <3> QED
      BY <1>2, <1>7, <3>1 DEF Confirms
  <2>3. Len(m.reorg) = 0
    BY <1>4
  <2>4. ASSUME NEW i \in 1..Len(left), NEW j \in 1..Len(left), left[i].confirm, left[j].confirm
        PROVE  i = j
    <3>1. i + 1 = j + 1
      BY <1>2, <1>7, <2>4 DEF Confirms
    <3> QED
      BY <1>2, <3>1
  <2>5. \A i \in 1..Len(left) : left[i].confirm => s.pc = "wait"
    BY <1>2, <1>7 DEF Confirms
  <2>6. Confirms(s, m)
    BY <1>4, <2>3, <2>4, <2>5 DEF Confirms
  <2> QED
    BY <1>4, <2>1, <2>2, <2>6
<1> QED
  BY <1>2, <1>3, <1>4, <1>6, <1>7 DEF m, x, left

\* The bodies that reorg_to_tip needs are there.
LEMMA NewTipReadyKeeps ==
    ASSUME IInv, NewTipReady
    PROVE  IInv'
<1> DEFINE item == Head(net.ready)
           new == item.tip
           apply == ToApply(tip, new)
           taken == [net EXCEPT !.ready = Tail(@)]
           r == [old |-> tip, item |-> item, apply |-> apply]
<1>1. /\ NetOK(net, tip, archive) /\ Confirms(submit, net) /\ net.ready # << >> /\ net.reorg = << >>
      /\ UNCHANGED <<world, archive, tip, late, peer, conn, info, mainchain>>
  BY DEF IInv, NewTipReady, Running
<1>2. /\ item \in Ready /\ Ancestors[new] \subseteq archive.bodies
      /\ taken \in NetRec /\ NetOK(taken, tip, archive) /\ taken.reorg = << >>
      /\ Confirms(submit, taken)
      /\ item.confirm => /\ submit.pc = "wait"
                         /\ \A i \in 1..Len(taken.ready) : ~taken.ready[i].confirm
  BY <1>1, ReadyTaken
<1>3. new \in Block /\ tip \in Tip
  BY <1>2 DEF Ready, IInv, TipOK
<1>4. \/ ~BetterTip(tip, new) /\ net' = taken /\ submit' = Answer(item, FALSE)
      \/ /\ BetterTip(tip, new)
         /\ net' = IF Range(apply) \subseteq archive.bodies
                   THEN [taken EXCEPT !.reorg = <<r>>]
                   ELSE [taken EXCEPT !.run = "missing body"]
         /\ submit' = IF Range(apply) \subseteq archive.bodies THEN submit ELSE Answer(item, FALSE)
  BY DEF NewTipReady, ToApply
<1> HIDE DEF taken, item
<1>5. CASE net' = taken /\ submit' = Answer(item, FALSE)
  <2>1. SubmitOK(submit', archive) /\ Asked(submit', mainchain)
    BY <1>2, <1>5, AnswerOK
  <2>2. Confirms(submit', net')
    <3>1. CASE item.confirm
      <4>1. \A i \in 1..Len(net'.ready) : ~net'.ready[i].confirm
        BY <1>2, <1>5, <3>1
      <4>2. Len(net'.reorg) = 0
        BY <1>2, <1>5
      <4> QED
        BY <4>1, <4>2 DEF Confirms
    <3>2. CASE ~item.confirm
      BY <1>2, <1>5, <3>2, AnswerOK
    <3> QED
      BY <3>1, <3>2
  <2> QED
    BY <1>1, <1>2, <1>5, <2>1, <2>2 DEF IInv, WorldOK
<1>6. CASE BetterTip(tip, new) /\ ~(net' = taken /\ submit' = Answer(item, FALSE))
  <2>1. Line(apply, new)
    BY <1>3, <1>6, ApplyIs
  <2>2. \A j \in 1..Len(apply) : apply[j] \in archive.bodies
    BY <1>2, <2>1 DEF Line
  <2>3. apply \in Seq(Block)
    BY <2>1 DEF Line
  <2> HIDE DEF apply
  <2>4. Range(apply) \subseteq archive.bodies
    <3>1. DOMAIN apply = 1..Len(apply)
      BY <2>3, LenProperties
    <3> QED
      BY <2>2, <3>1 DEF Range
  <2>5. net' = [taken EXCEPT !.reorg = <<r>>] /\ submit' = submit
    BY <1>4, <1>6, <2>4
  <2>6. r \in Reorg
    BY <1>2, <1>3, <2>3 DEF Reorg
  <2>7. r.item = item /\ r.old = tip /\ r.apply = apply
    OBVIOUS
  <2> HIDE DEF r
  <2>8. ReorgOK(r, tip, archive)
    BY <1>2, <1>6, <2>1, <2>7 DEF ReorgOK
  <2>9. <<r>> \in Seq(Reorg) /\ Len(<<r>>) = 1 /\ <<r>>[1] = r
    BY <2>6
  <2>10. net' \in NetRec
    BY <1>2, <2>5, <2>9 DEF NetRec
  <2>11. /\ net'.reorg = <<r>> /\ net'.ready = taken.ready
         /\ net'.descendant_tips = taken.descendant_tips
    BY <1>2, <2>5 DEF NetRec
  <2>12. NetOK(net', tip, archive)
    BY <1>2, <2>8, <2>9, <2>10, <2>11 DEF NetOK
  <2>13. Confirms(submit, net')
    BY <1>2, <2>7, <2>9, <2>11 DEF Confirms
  <2> QED
    BY <1>1, <2>5, <2>12, <2>13 DEF IInv, WorldOK
<1> QED
  BY <1>4, <1>5, <1>6

\* What is left of a line, once its first block is connected.
LEMMA LineTail ==
    ASSUME NEW b \in Block, NEW s, Line(s, b)
    PROVE  /\ s # << >> /\ Head(s) = s[1] /\ s[1] \in Ancestors[b]
           /\ Tail(s) \in Seq(Block)
           /\ Tail(s) = << >> => s[1] = b
           /\ Tail(s) # << >> => Line(Tail(s), b) /\ Parent[Tail(s)[1]] = s[1]
<1> DEFINE t == Tail(s)
<1>1. s \in Seq(Block) /\ Len(s) \in Nat \ {0} /\ s # << >>
  BY EmptySeq DEF Line
<1>2. /\ Head(s) = s[1] /\ 1 \in 1..Len(s) /\ t \in Seq(Block) /\ Len(t) \in Nat
      /\ Len(t) = Len(s) - 1
      /\ \A i \in 1..Len(t) : i + 1 \in 1..Len(s) /\ t[i] = s[i + 1]
  BY <1>1, TailIs
<1> HIDE DEF t
<1>3. s[1] \in Ancestors[b]
  BY <1>2 DEF Line
<1>4. ASSUME t = << >>
      PROVE  s[1] = b
  <2>1. Len(s) = 1
    BY <1>1, <1>2, <1>4, EmptySeq
  <2> QED
    BY <2>1 DEF Line
<1>5. ASSUME t # << >>
      PROVE  Line(t, b) /\ Parent[t[1]] = s[1]
  <2>1. Len(t) # 0
    BY <1>2, <1>5, EmptySeq
  <2>2. Len(t) \in 1..Len(t) /\ Len(t) + 1 = Len(s) /\ 1 \in 1..Len(t)
    BY <1>1, <1>2, <2>1
  <2>3. t[Len(t)] = b
    BY <1>2, <2>2 DEF Line
  <2>4. \A j \in 1..Len(t) : t[j] \in Ancestors[b]
    BY <1>2 DEF Line
  <2>5. ASSUME NEW j \in 1..Len(t)
        PROVE  Parent[t[j]] = s[j]
    <3>1. j + 1 \in 1..Len(s) /\ j + 1 # 1 /\ (j + 1) - 1 = j /\ t[j] = s[j + 1]
      BY <1>2
    <3> QED
      BY <3>1 DEF Line
  <2>6. ASSUME NEW j \in 1..Len(t), j # 1
        PROVE  Parent[t[j]] = t[j - 1]
    <3>1. j - 1 \in 1..Len(t) /\ (j - 1) + 1 = j
      BY <1>2, <2>6
    <3>2. t[j - 1] = s[j]
      BY <1>2, <3>1
    <3> QED
      BY <2>5, <3>2
  <2>7. Parent[t[1]] = s[1]
    BY <2>2, <2>5
  <2> QED
    BY <1>2, <2>1, <2>3, <2>4, <2>6, <2>7 DEF Line
<1> QED
  BY <1>1, <1>2, <1>3, <1>4, <1>5 DEF t

\* The reorganisation that is under way.
LEMMA ReorgIs ==
    ASSUME IInv, net.reorg # << >>
    PROVE  LET r == net.reorg[1]
           IN  /\ r \in Reorg /\ r.item \in Ready /\ r.item.tip \in Block /\ r.old \in Tip
               /\ ReorgOK(r, tip, archive)
               /\ r.item.confirm => submit.pc = "wait"
               /\ r.item.confirm => \A i \in 1..Len(net.ready) : ~net.ready[i].confirm
<1> DEFINE r == net.reorg[1]
<1>1. NetOK(net, tip, archive) /\ Confirms(submit, net)
  BY DEF IInv
<1>2. net.reorg \in Seq(Reorg)
  BY <1>1, NetFields
<1>3. r \in Reorg /\ 1 \in 1..Len(net.reorg)
  BY <1>2, TailIs
<1>4. ReorgOK(r, tip, archive)
  BY <1>1, <1>3 DEF NetOK
<1>5. r.item.confirm => submit.pc = "wait" /\ \A i \in 1..Len(net.ready) : ~net.ready[i].confirm
  BY <1>1, <1>3 DEF Confirms
<1> HIDE DEF r
<1>6. r.item \in Ready /\ r.old \in Tip
  BY <1>3 DEF Reorg
<1>7. r.item.tip \in Block
  BY <1>6 DEF Ready
<1> QED
  BY <1>3, <1>4, <1>5, <1>6, <1>7 DEF r

\* After a reorganisation no call waits for it.
LEMMA ReorgEnds ==
    ASSUME IInv, net.reorg # << >>, NEW applied \in BOOLEAN, NEW n, n.ready = net.ready,
           n.reorg = << >>
    PROVE  LET s == Answer(net.reorg[1].item, applied)
           IN  SubmitOK(s, archive) /\ Asked(s, mainchain) /\ Confirms(s, n)
<1> DEFINE item == net.reorg[1].item
           s == Answer(item, applied)
<1>1. /\ item \in Ready /\ (item.confirm => submit.pc = "wait")
      /\ item.confirm => \A i \in 1..Len(net.ready) : ~net.ready[i].confirm
  BY ReorgIs
<1> HIDE DEF item
<1>2. SubmitOK(s, archive) /\ Asked(s, mainchain) /\ (~item.confirm => s = submit)
  BY <1>1, AnswerOK
<1>3. Len(n.reorg) = 0
  OBVIOUS
<1>4. ASSUME item.confirm
      PROVE  Confirms(s, n)
  BY <1>1, <1>2, <1>3, <1>4 DEF Confirms
<1>5. ASSUME ~item.confirm
      PROVE  Confirms(s, n)
  <2>1. Confirms(submit, net)
    BY DEF IInv
  <2>2. Confirms(submit, n)
    BY <1>3, <2>1 DEF Confirms
  <2> QED
    BY <1>2, <1>5, <2>2
<1>6. SubmitOK(s, archive) /\ Asked(s, mainchain) /\ Confirms(s, n)
  BY <1>2, <1>4, <1>5
<1> QED
  BY <1>6 DEF item

\* A block is connected on the way to a tip, and perhaps committed.
LEMMA ConnectTipKeeps ==
    ASSUME IInv, ConnectTip
    PROVE  IInv'
<1> DEFINE r == net.reorg[1]
           block == Head(r.apply)
           left == Tail(r.apply)
           new == r.item.tip
<1>1. net.reorg # << >> /\ UNCHANGED <<world, archive, late, peer, conn, info, mainchain>>
  BY DEF ConnectTip
<1>2. r \in Reorg /\ r.item \in Ready /\ new \in Block /\ ReorgOK(r, tip, archive)
  BY <1>1, ReorgIs
<1>3. NetOK(net, tip, archive) /\ net \in NetRec /\ Confirms(submit, net)
  BY NetFields DEF IInv
<1>4. \/ /\ net' = [net EXCEPT !.run = "invalid block", !.reorg = << >>]
         /\ submit' = Answer(r.item, FALSE) /\ tip' = tip
      \/ /\ tip' = IF Commits(r.old, block, left) THEN block ELSE tip
         /\ net' = [net EXCEPT !.reorg = IF left = << >> THEN << >> ELSE <<[r EXCEPT !.apply = left]>>]
         /\ submit' = IF left = << >> THEN Answer(r.item, TRUE) ELSE submit
  BY DEF ConnectTip
<1>5. Len(<< >>) = 0 /\ << >> \in Seq(Reorg)
  OBVIOUS
<1>6. CASE /\ net' = [net EXCEPT !.run = "invalid block", !.reorg = << >>]
           /\ submit' = Answer(r.item, FALSE) /\ tip' = tip
  <2>1. net' \in NetRec
    BY <1>3, <1>5, <1>6 DEF NetRec
  <2>2. net'.ready = net.ready /\ net'.reorg = << >> /\ net'.descendant_tips = net.descendant_tips
    BY <1>3, <1>6 DEF NetRec
  <2>3. NetOK(net', tip, archive)
    BY <1>3, <1>5, <2>1, <2>2 DEF NetOK
  <2>4. SubmitOK(submit', archive) /\ Asked(submit', mainchain) /\ Confirms(submit', net')
    BY <1>1, <1>6, <2>2, ReorgEnds
  <2> QED
    BY <1>1, <1>6, <2>3, <2>4 DEF IInv, WorldOK
<1>7. CASE /\ tip' = IF Commits(r.old, block, left) THEN block ELSE tip
           /\ net' = [net EXCEPT !.reorg = IF left = << >> THEN << >> ELSE <<[r EXCEPT !.apply = left]>>]
           /\ submit' = IF left = << >> THEN Answer(r.item, TRUE) ELSE submit
  <2>1. /\ block = r.apply[1] /\ block \in Ancestors[new] /\ left \in Seq(Block)
        /\ left = << >> => block = new
        /\ left # << >> => Line(left, new) /\ Parent[left[1]] = block
    BY <1>2, LineTail DEF ReorgOK
  <2>2. block \in Block /\ Ancestors[block] \subseteq archive.bodies
    BY <1>2, <2>1, AncestorsBelow DEF ReorgOK
  <2> HIDE DEF block, left
  <2>3. TipOK(tip', archive)
    BY <1>7, <2>2 DEF IInv, TipOK, Tip
  <2>4. CASE left = << >>
    <3>1. net' = [net EXCEPT !.reorg = << >>] /\ submit' = Answer(r.item, TRUE)
      BY <1>7, <2>4
    <3>2. net' \in NetRec
      BY <1>3, <1>5, <3>1 DEF NetRec
    <3>3. net'.ready = net.ready /\ net'.reorg = << >> /\ net'.descendant_tips = net.descendant_tips
      BY <1>3, <3>1 DEF NetRec
    <3>4. NetOK(net', tip', archive)
      BY <1>3, <1>5, <3>2, <3>3 DEF NetOK
    <3>5. SubmitOK(submit', archive) /\ Asked(submit', mainchain) /\ Confirms(submit', net')
      BY <1>1, <3>1, <3>3, ReorgEnds
    <3> QED
      BY <1>1, <2>3, <3>4, <3>5 DEF IInv, WorldOK
  <2>5. CASE left # << >>
    <3> DEFINE q == [r EXCEPT !.apply = left]
    <3>1. net' = [net EXCEPT !.reorg = <<q>>] /\ submit' = submit
      BY <1>7, <2>5
    <3> HIDE DEF r
    <3>2. q \in Reorg /\ q.old = r.old /\ q.item = r.item /\ q.apply = left
      BY <1>2, <2>1 DEF Reorg
    <3>3. tip' = r.old \/ tip' \in Ancestors[block]
      <4>1. block \in Ancestors[block] /\ Ancestors[Parent[block]] \subseteq Ancestors[block]
        BY <2>2, AncestorsBelow, AncestorsAre
      <4>2. tip = r.old \/ tip \in Ancestors[Parent[block]]
        BY <1>2, <2>1 DEF ReorgOK
      <4> QED
        BY <1>7, <4>1, <4>2
    <3>4. ReorgOK(q, tip', archive)
      BY <1>2, <2>1, <2>5, <3>2, <3>3 DEF ReorgOK
    <3> HIDE DEF q
    <3>5. <<q>> \in Seq(Reorg) /\ Len(<<q>>) = 1 /\ <<q>>[1] = q
      BY <3>2
    <3>6. net' \in NetRec
      BY <1>3, <3>1, <3>5 DEF NetRec
    <3>7. net'.ready = net.ready /\ net'.reorg = <<q>> /\ net'.descendant_tips = net.descendant_tips
      BY <1>3, <3>1 DEF NetRec
    <3>8. NetOK(net', tip', archive)
      BY <1>3, <3>4, <3>5, <3>6, <3>7 DEF NetOK
    <3>9. Confirms(submit, net')
      <4>1. r.item.confirm => submit.pc = "wait" /\ \A i \in 1..Len(net.ready) : ~net.ready[i].confirm
        BY <1>1, ReorgIs DEF r
      <4> QED
        BY <1>3, <3>2, <3>5, <3>7, <4>1 DEF Confirms
    <3> QED
      BY <1>1, <2>3, <3>1, <3>8, <3>9 DEF IInv, WorldOK
  <2> QED
    BY <2>4, <2>5
<1> QED
  BY <1>4, <1>6, <1>7

\* What is committed is better than the tip.
LEMMA ConnectTipImproves ==
    ASSUME IInv, ConnectTip, tip' # tip
    PROVE  BetterTip(tip, tip')
<1> DEFINE r == net.reorg[1]
           block == Head(r.apply)
           left == Tail(r.apply)
           new == r.item.tip
<1>1. net.reorg # << >>
  BY DEF ConnectTip
<1>2. new \in Block /\ r.old \in Tip /\ ReorgOK(r, tip, archive)
  BY <1>1, ReorgIs
<1>3. tip' = block /\ Commits(r.old, block, left)
  BY DEF ConnectTip
<1>4. block = r.apply[1] /\ block \in Ancestors[new] /\ (left = << >> => block = new)
  BY <1>2, LineTail DEF ReorgOK
<1>5. BetterTip(r.old, block)
  BY <1>2, <1>3, <1>4 DEF Commits, ReorgOK
<1>6. block \in Block
  BY <1>2, <1>4, AncestorsBelow
<1>7. tip = r.old \/ tip \in Ancestors[Parent[block]]
  BY <1>2, <1>4 DEF ReorgOK
<1> HIDE DEF block, r
<1>8. tip \in Ancestors[Parent[block]] => <<tip, block>> \in Better
  BY <1>6, ChainAssumption
<1> QED
  BY <1>3, <1>5, <1>7, <1>8 DEF BetterTip

-----------------------------------------------------------------------------
(***************************************************************************)
(* The invariant is kept: the mainchain task and submit_block.             *)
(***************************************************************************)
\* The first request to the mainchain task is answered.
LEMMA AncestorInfosKeeps ==
    ASSUME IInv, AncestorInfos
    PROVE  IInv'
<1> DEFINE request == Head(mainchain.requests)
           b == request.main
           available == b \in archive.mains \/ Ancestors[b] \cap late = {}
           mains == IF available THEN archive.mains \cup Ancestors[b] ELSE archive.mains
           requests == Tail(mainchain.requests)
           pc == IF available THEN "header" ELSE "idle"
           Query == [main : Block, oneshot : BOOLEAN]
           Reply == [main : Block, available : BOOLEAN]
           reply == [main |-> b, available |-> available]
<1>1. /\ mainchain \in MainRec /\ ArchiveOK(archive) /\ SubmitOK(submit, archive)
      /\ Asked(submit, mainchain) /\ Confirms(submit, net)
  BY DEF IInv
<1>2. /\ mainchain.requests # << >>
      /\ archive' = [archive EXCEPT !.mains = mains]
      /\ mainchain' = [requests |-> requests,
                       responses |-> IF request.oneshot THEN mainchain.responses
                                     ELSE Append(mainchain.responses, reply)]
      /\ submit' = IF request.oneshot THEN [submit EXCEPT !.pc = pc] ELSE submit
      /\ UNCHANGED <<world, tip, late, peer, conn, info, net>>
  <2> HIDE DEF available
  <2>1. /\ mainchain.requests # << >>
        /\ archive' = [archive EXCEPT !.mains = IF available THEN @ \cup Ancestors[b] ELSE @]
        /\ mainchain' = [requests |-> requests,
                         responses |-> IF request.oneshot THEN mainchain.responses
                                       ELSE Append(mainchain.responses, reply)]
        /\ submit' = IF request.oneshot THEN [submit EXCEPT !.pc = pc] ELSE submit
        /\ UNCHANGED <<world, tip, late, peer, conn, info, net>>
    BY DEF AncestorInfos, available
  <2> QED
    BY <1>1, <2>1 DEF ArchiveOK, Archives
<1>3. mainchain.requests \in Seq(Query) /\ mainchain.responses \in Seq(Reply)
  BY <1>1 DEF MainRec
<1>4. /\ request \in Query /\ request = mainchain.requests[1] /\ 1 \in 1..Len(mainchain.requests)
      /\ requests \in Seq(Query) /\ Len(requests) \in Nat
      /\ \A i \in 1..Len(requests) : i + 1 \in 1..Len(mainchain.requests)
                                     /\ requests[i] = mainchain.requests[i + 1]
  <2> HIDE DEF Query
  <2> QED
    BY <1>2, <1>3, TailIs
<1>5. available \in BOOLEAN
  OBVIOUS
<1> HIDE DEF request, requests, available
<1>6. b \in Block /\ Ancestors[b] \subseteq Block
  BY <1>4, AncestorsBelow
<1>7. mains \in SUBSET Block /\ archive.mains \subseteq mains /\ (available => b \in mains)
  BY <1>1, <1>6, AncestorsBelow DEF ArchiveOK, Archives
<1>8. \A c \in mains : Ancestors[c] \subseteq mains
  BY <1>1, <1>6, AncestorsBelow DEF ArchiveOK
<1> HIDE DEF mains
<1>9. /\ archive' \in Archives /\ archive'.headers = archive.headers
      /\ archive'.bodies = archive.bodies /\ archive'.mains = mains
  BY <1>1, <1>2, <1>7 DEF ArchiveOK, Archives
<1>10. ArchiveOK(archive') /\ Grows(archive, archive')
  BY <1>1, <1>7, <1>8, <1>9 DEF ArchiveOK, Grows
<1>11. /\ TipOK(tip, archive') /\ ConnsOK(conn, archive') /\ InfosOK(info, archive')
       /\ NetOK(net, tip, archive') /\ SubmitOK(submit, archive')
  BY <1>10, GrowsOK DEF IInv
<1>12. mainchain' \in MainRec /\ mainchain'.requests = requests
  <2>1. reply \in Reply
    BY <1>5, <1>6
  <2> HIDE DEF reply, Query, Reply
  <2>2. Append(mainchain.responses, reply) \in Seq(Reply)
    BY <1>3, <2>1, AppendIs
  <2> QED
    BY <1>2, <1>3, <1>4, <2>2 DEF MainRec, Query, Reply
<1>13. CASE request.oneshot
  <2>1. submit.pc = "main" /\ b = submit.block
    BY <1>1, <1>4, <1>13 DEF Asked
  <2>2. submit' = [submit EXCEPT !.pc = pc] /\ submit \in SubmitRec
    BY <1>1, <1>2, <1>13 DEF SubmitOK
  <2>3. submit' \in SubmitRec /\ submit'.pc = pc /\ submit'.block = submit.block
    BY <2>2 DEF SubmitRec
  <2>4. SubmitOK(submit', archive')
    BY <1>7, <1>9, <1>11, <2>1, <2>3 DEF SubmitOK
  <2>5. \A i \in 1..Len(requests) : ~requests[i].oneshot
    <3> SUFFICES ASSUME NEW i \in 1..Len(requests), requests[i].oneshot PROVE FALSE
      OBVIOUS
    <3>1. i + 1 = 1
      BY <1>1, <1>4, <1>13 DEF Asked
    <3> QED
      BY <3>1
  <2>6. Asked(submit', mainchain')
    BY <1>12, <2>5 DEF Asked
  <2>7. Confirms(submit', net)
    BY <1>1, <2>1 DEF Confirms
  <2> QED
    BY <1>2, <1>10, <1>11, <1>12, <2>4, <2>6, <2>7 DEF IInv, WorldOK
<1>14. CASE ~request.oneshot
  <2>1. submit' = submit
    BY <1>2, <1>14
  <2>2. ASSUME NEW i \in 1..Len(requests), NEW j \in 1..Len(requests),
               requests[i].oneshot, requests[j].oneshot
        PROVE  i = j
    <3>1. i + 1 = j + 1
      BY <1>1, <1>4, <2>2 DEF Asked
    <3> QED
      BY <3>1
  <2>3. Asked(submit, mainchain')
    BY <1>1, <1>4, <1>12, <2>2 DEF Asked
  <2> QED
    BY <1>1, <1>2, <1>10, <1>11, <1>12, <2>1, <2>3 DEF IInv, WorldOK
<1> QED
  BY <1>13, <1>14

\* submit_block is called for a block whose parent is, or was, the tip.
LEMMA SubmitBlockKeeps ==
    ASSUME IInv, NEW b \in Block, SubmitBlock(b)
    PROVE  IInv'
<1> DEFINE x == [main |-> b, oneshot |-> TRUE]
           requests == Append(mainchain.requests, x)
           Query == [main : Block, oneshot : BOOLEAN]
<1>1. /\ mainchain \in MainRec /\ SubmitOK(submit, archive) /\ Asked(submit, mainchain)
      /\ Confirms(submit, net) /\ submit \in SubmitRec
  BY DEF IInv, SubmitOK
<1>2. /\ submit.pc = "idle" /\ Parent[b] \in {StartTip, tip}
      /\ submit' = [submit EXCEPT !.pc = "main", !.block = b]
      /\ mainchain' = [mainchain EXCEPT !.requests = requests]
      /\ UNCHANGED <<world, archive, tip, late, peer, conn, info, net>>
  BY DEF SubmitBlock
<1>3. Ancestors[Parent[b]] \subseteq archive.headers
  BY <1>2 DEF IInv, TipOK, ArchiveOK
<1>4. submit' \in SubmitRec /\ submit'.pc = "main" /\ submit'.block = b
  BY <1>1, <1>2 DEF SubmitRec, Tip
<1>5. SubmitOK(submit', archive)
  BY <1>3, <1>4 DEF SubmitOK
<1>6. Confirms(submit', net)
  BY <1>1, <1>2 DEF Confirms
<1>7. x \in Query /\ x.oneshot /\ x.main = b /\ mainchain.requests \in Seq(Query)
  BY <1>1 DEF MainRec
<1>8. \A i \in 1..Len(mainchain.requests) : ~mainchain.requests[i].oneshot
  BY <1>1, <1>2 DEF Asked
<1> HIDE DEF x, Query
<1>9. /\ requests \in Seq(Query) /\ Len(mainchain.requests) \in Nat
      /\ \A i \in 1..Len(requests) :
            \/ i \in 1..Len(mainchain.requests) /\ requests[i] = mainchain.requests[i]
            \/ i = Len(mainchain.requests) + 1 /\ requests[i] = x
  BY <1>7, AppendIs
<1> HIDE DEF requests
<1>10. mainchain' \in MainRec /\ mainchain'.requests = requests
  BY <1>1, <1>2, <1>9 DEF MainRec, Query
<1>11. Asked(submit', mainchain')
  BY <1>4, <1>7, <1>8, <1>9, <1>10 DEF Asked
<1> QED
  BY <1>2, <1>5, <1>6, <1>10, <1>11 DEF IInv, WorldOK

\* Its header is stored on those of its ancestors.
LEMMA SubmitHeaderKeeps ==
    ASSUME IInv, SubmitHeader
    PROVE  IInv'
<1> DEFINE b == submit.block
<1>1. /\ SubmitOK(submit, archive) /\ submit \in SubmitRec /\ ArchiveOK(archive)
      /\ Asked(submit, mainchain) /\ Confirms(submit, net)
  BY DEF IInv, SubmitOK
<1>2. /\ submit.pc = "header" /\ archive' = [archive EXCEPT !.headers = @ \cup {b}]
      /\ submit' = [submit EXCEPT !.pc = "body"]
      /\ UNCHANGED <<world, tip, late, peer, conn, info, net, mainchain>>
  BY DEF SubmitHeader
<1>3. b \in Block /\ b \in archive.mains /\ Ancestors[Parent[b]] \subseteq archive.headers
  BY <1>1, <1>2 DEF SubmitOK
<1>4. Ancestors[b] \subseteq archive.headers \cup {b}
  BY <1>3, AncestorsAre
<1>5. /\ archive' \in Archives /\ archive'.headers = archive.headers \cup {b}
      /\ archive'.bodies = archive.bodies /\ archive'.mains = archive.mains
  BY <1>1, <1>2, <1>3 DEF ArchiveOK, Archives
<1>6. ArchiveOK(archive') /\ Grows(archive, archive')
  BY <1>1, <1>3, <1>4, <1>5 DEF ArchiveOK, Grows
<1>7. /\ TipOK(tip, archive') /\ ConnsOK(conn, archive') /\ InfosOK(info, archive')
      /\ NetOK(net, tip, archive') /\ SubmitOK(submit, archive')
  BY <1>6, GrowsOK DEF IInv
<1>8. submit' \in SubmitRec /\ submit'.pc = "body" /\ submit'.block = b
  BY <1>1, <1>2 DEF SubmitRec
<1>9. SubmitOK(submit', archive')
  BY <1>3, <1>5, <1>8 DEF SubmitOK
<1>10. Asked(submit', mainchain) /\ Confirms(submit', net)
  BY <1>1, <1>2 DEF Asked, Confirms
<1> QED
  BY <1>2, <1>6, <1>7, <1>9, <1>10 DEF IInv, WorldOK

\* Its body is stored if it is the only one that is missing.
LEMMA SubmitBodyKeeps ==
    ASSUME IInv, SubmitBody
    PROVE  IInv'
<1> DEFINE b == submit.block
           missing == MissingBodies(archive.bodies, b, LastCommonAncestor(tip, b))
           x == [tip |-> b, confirm |-> TRUE]
<1>1. /\ SubmitOK(submit, archive) /\ submit \in SubmitRec /\ ArchiveOK(archive)
      /\ Asked(submit, mainchain) /\ Confirms(submit, net) /\ TipOK(tip, archive)
      /\ NetOK(net, tip, archive) /\ net \in NetRec
  BY NetFields DEF IInv, SubmitOK
<1>2. submit.pc = "body" /\ UNCHANGED <<world, tip, late, peer, conn, info, mainchain>>
  BY DEF SubmitBody
<1>3. b \in Block /\ b \in archive.headers
  BY <1>1, <1>2 DEF SubmitOK
<1>4. missing = Ancestors[b] \ archive.bodies
  BY <1>1, <1>3, MissingIs DEF TipOK, Tip
<1>5. \A i \in 1..Len(mainchain.requests) : ~mainchain.requests[i].oneshot
  BY <1>1, <1>2 DEF Asked
<1>6. /\ \A i \in 1..Len(net.ready) : ~net.ready[i].confirm
      /\ \A k \in 1..Len(net.reorg) : ~net.reorg[k].item.confirm
  BY <1>1, <1>2 DEF Confirms
<1>7. CASE missing \subseteq {b}
  <2>1. /\ archive' = [archive EXCEPT !.bodies = @ \cup {b}]
        /\ net' = [net EXCEPT !.ready = Append(@, x)]
        /\ submit' = [submit EXCEPT !.pc = "wait"]
    BY <1>7 DEF SubmitBody
  <2>2. /\ archive' \in Archives /\ archive'.headers = archive.headers
        /\ archive'.bodies = archive.bodies \cup {b} /\ archive'.mains = archive.mains
    BY <1>1, <1>3, <2>1 DEF ArchiveOK, Archives
  <2>3. ArchiveOK(archive') /\ Grows(archive, archive')
    BY <1>1, <1>3, <2>2 DEF ArchiveOK, Grows
  <2>4. /\ TipOK(tip, archive') /\ ConnsOK(conn, archive') /\ InfosOK(info, archive')
        /\ NetOK(net, tip, archive') /\ SubmitOK(submit, archive')
    BY <1>1, <2>3, GrowsOK DEF IInv
  <2>5. x \in Ready /\ x.tip = b /\ Ancestors[b] \subseteq archive'.bodies
    BY <1>3, <1>4, <1>7, <2>2 DEF Ready
  <2> HIDE DEF x
  <2>6. NetOK(net', tip, archive') /\ net'.reorg = net.reorg /\ net'.ready = Append(net.ready, x)
    <3>1. Ancestors[x.tip] \subseteq archive'.bodies
      BY <2>5
    <3> HIDE DEF b
    <3> DEFINE m == [net EXCEPT !.ready = Append(@, x)]
    <3>2. x \in Ready /\ NetOK(net, tip, archive')
      BY <2>4, <2>5
    <3>3. NetOK(m, tip, archive') /\ m.reorg = net.reorg /\ m.ready = Append(net.ready, x)
      BY <3>1, <3>2, ReadyAppended
    <3>4. net' = m
      BY <2>1
    <3> HIDE DEF m
    <3> QED
      BY <3>3, <3>4
  <2>7. submit' \in SubmitRec /\ submit'.pc = "wait" /\ submit'.block = b
    BY <1>1, <2>1 DEF SubmitRec
  <2>8. SubmitOK(submit', archive') /\ Asked(submit', mainchain)
    BY <1>5, <2>7 DEF SubmitOK, Asked
  <2>9. Confirms(submit', net')
    <3>1. net.ready \in Seq(Ready)
      BY <1>1, NetFields
    <3>2. /\ Len(net.ready) \in Nat
          /\ \A i \in 1..Len(net'.ready) :
                \/ i \in 1..Len(net.ready) /\ net'.ready[i] = net.ready[i]
                \/ i = Len(net.ready) + 1 /\ net'.ready[i] = x
      BY <2>5, <2>6, <3>1, AppendIs
    <3>3. \A i \in 1..Len(net'.ready) : net'.ready[i].confirm => i = Len(net.ready) + 1
      BY <1>6, <3>2
    <3> QED
      BY <1>6, <2>6, <2>7, <3>3 DEF Confirms
  <2> QED
    BY <1>2, <2>3, <2>4, <2>6, <2>8, <2>9 DEF IInv, WorldOK
<1>8. CASE ~(missing \subseteq {b})
  <2>1. archive' = archive /\ net' = net /\ submit' = [submit EXCEPT !.pc = "idle"]
    BY <1>8 DEF SubmitBody
  <2>2. submit' \in SubmitRec /\ submit'.pc = "idle" /\ submit'.block = b
    BY <1>1, <2>1 DEF SubmitRec
  <2>3. SubmitOK(submit', archive) /\ Asked(submit', mainchain) /\ Confirms(submit', net)
    BY <1>5, <1>6, <2>2 DEF SubmitOK, Asked, Confirms
  <2> QED
    BY <1>2, <2>1, <2>3 DEF IInv, WorldOK
<1> QED
  BY <1>7, <1>8

-----------------------------------------------------------------------------
\* Every step keeps the invariant.
LEMMA NextKeeps ==
    ASSUME IInv, [Next]_vars
    PROVE  IInv'
<1>1. CASE UNCHANGED vars
  BY <1>1 DEF vars, IInv, WorldOK
<1>2. ASSUME NEW p \in Peer,
             Connect(p) \/ Disconnect(p) \/ PeerAdvances(p) \/ ConnectionTask(p)
      PROVE  IInv'
  BY <1>2, ConnectKeeps, DisconnectKeeps, PeerAdvancesKeeps, HeartbeatKeeps, InternalMessageKeeps,
     HandlePeerStateKeeps, FinishPeerStateKeeps, PeerResponseKeeps DEF ConnectionTask
<1>3. ASSUME NEW b \in Block, MainBlockArrives(b) \/ SubmitBlock(b)
      PROVE  IInv'
  BY <1>3, MainBlockArrivesKeeps, SubmitBlockKeeps
<1>4. CASE NetTask
  BY <1>4, NeedMainchainAncestorsKeeps, PeerTipReadyKeeps, HeadersResponseKeeps, BlockResponseKeeps,
     ForwardKeeps, MainchainTaskResponseKeeps, NewTipReadyKeeps, ConnectTipKeeps DEF NetTask
<1>5. CASE AncestorInfos \/ Submit
  BY <1>5, AncestorInfosKeeps, SubmitHeaderKeeps, SubmitBodyKeeps DEF Submit
<1> QED
  BY <1>1, <1>2, <1>3, <1>4, <1>5 DEF Next

\* Tips that are ready are complete, and the types are right.
LEMMA InvariantIsSafe == IInv => SyncSafe
<1> SUFFICES ASSUME IInv PROVE SyncSafe
  OBVIOUS
<1>1. NetOK(net, tip, archive) /\ net \in NetRec /\ net.ready \in Seq(Ready)
  BY NetFields DEF IInv
<1>2. ReadyTipsComplete
  <2>1. net.run # "missing body"
    BY <1>1 DEF NetRec
  <2>2. DOMAIN net.ready = 1..Len(net.ready)
    BY <1>1, LenProperties
  <2> QED
    BY <1>1, <2>1, <2>2 DEF ReadyTipsComplete, NetOK
<1>3. ASSUME NEW p \in Peer
      PROVE  /\ conn[p].peer_states \subseteq Block
             /\ {RequestHash(r) : r \in conn[p].inflight} \subseteq conn[p].sent
             /\ Len(conn[p].work) =< 1
  <2>1. ConnOK(conn[p], archive)
    BY DEF IInv, ConnsOK
  <2>2. conn[p].peer_states \subseteq Block
    BY <2>1, ConnFields
  <2> QED
    BY <2>1, <2>2 DEF ConnOK
<1>4. /\ archive \in Archives /\ archive.bodies \subseteq archive.headers
      /\ archive.headers \subseteq archive.mains /\ tip \in Tip
  BY DEF IInv, ArchiveOK, TipOK
<1>5. net.run \in {"running", "missing body", "invalid block"}
  BY <1>1 DEF NetRec
<1>6. submit.pc \in {"idle", "main", "header", "body", "wait"}
  BY DEF IInv, SubmitOK, SubmitRec
<1>7. TypeOK
  BY <1>3, <1>4, <1>5, <1>6 DEF TypeOK, Archives, Tip
<1> QED
  BY <1>2, <1>7 DEF SyncSafe

\* The archive has every body that the net task, or a reorganisation, is to find:
\* no interleaving of connections, responses, reorganisations and submit_block ends
\* the net task for a missing body ("all ancestor blocks must exist").
THEOREM SyncIsSafe == Spec => []SyncSafe
<1>1. IInv /\ [Next]_vars => IInv'
  BY NextKeeps
<1> QED
  BY InitIInv, <1>1, InvariantIsSafe, PTL DEF Spec

\* Whatever a reorganisation commits on its way, and wherever it ends, the tip of
\* the state is only replaced by a better one (reorg_to_tip).
THEOREM TipOnlyImproves == Spec => TipImproves
<1>1. IInv /\ [Next]_vars => [tip' # tip => BetterTip(tip, tip')]_vars
  <2> SUFFICES ASSUME IInv, Next, tip' # tip PROVE BetterTip(tip, tip')
    BY DEF vars
  <2>1. ConnectTip
    BY DEF Next, ConnectionTask, NetTask, Submit, Connect, Disconnect, PeerAdvances, Heartbeat,
           InternalMessage, HandlePeerState, FinishPeerState, PeerResponse, MainBlockArrives,
           SubmitBlock, NeedMainchainAncestors, PeerTipReady, HeadersResponse, BlockResponse,
           ForwardMainchainTaskRequest, MainchainTaskResponse, NewTipReady, AncestorInfos,
           SubmitHeader, SubmitBody
  <2> QED
    BY <2>1, ConnectTipImproves
<1>2. IInv /\ [Next]_vars => IInv'
  BY NextKeeps
<1> QED
  BY InitIInv, <1>1, <1>2, PTL DEF Spec, TipImproves

=============================================================================
