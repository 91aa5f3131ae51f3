-------------------------- MODULE ShardTreeDbProofs --------------------------
(***************************************************************************)
(* Proofs about ShardTreeDb, for any blocks and any size of the shards.    *)
(*                                                                         *)
(* A sequence number that a reorg freed is used again, and blocks without  *)
(* leaves share a position.  Still the i-th block of the chain always has  *)
(* the number i, and so all that the tables say follows from the chain and *)
(* from the number of leaves up to each of its blocks.                     *)
(***************************************************************************)
EXTENDS ShardTreeDb, FunctionTheorems, FiniteSetTheorems, SequenceTheorems, TLAPS

(***************************************************************************)
(* Positions and shards.                                                   *)
(***************************************************************************)
\* The leaves before the shard after i others.
Base(i) == i * SHARD_SIZE

\* Shards follow each other.
LEMMA BaseIs ==
    /\ Base(0) = 0
    /\ \A i \in Nat : Base(i) \in Nat /\ Base(i + 1) = Base(i) + SHARD_SIZE
    /\ \A i, j \in Nat : i < j => Base(i) + SHARD_SIZE <= Base(j)
<1>1. SHARD_SIZE \in Nat /\ SHARD_SIZE > 0
  BY SizeAssumption
<1>2. Base(0) = 0
  BY <1>1 DEF Base
<1>3. ASSUME NEW i \in Nat
      PROVE  Base(i) \in Nat /\ Base(i + 1) = Base(i) + SHARD_SIZE
  BY <1>1 DEF Base
<1>4. ASSUME NEW i \in Nat, NEW j \in Nat, i < j
      PROVE  Base(i) + SHARD_SIZE <= Base(j)
  <2>1. PICK k \in Nat : j = i + 1 + k
    <3>1. j - i - 1 \in Nat /\ j = i + 1 + (j - i - 1)
      BY <1>4
    <3> QED
      BY <3>1
  <2>2. Base(j) = Base(i) + SHARD_SIZE + k * SHARD_SIZE
    BY <2>1, <1>1 DEF Base
  <2>3. k * SHARD_SIZE \in Nat
    BY <1>1
  <2> QED
    BY <2>2, <2>3, <1>3, <1>1
<1> QED
  BY <1>2, <1>3, <1>4

\* Division by the size finds the shard, the only one that holds the position.
LEMMA DivIs ==
    ASSUME NEW k \in Nat
    PROVE  /\ k \div SHARD_SIZE \in Nat
           /\ Base(k \div SHARD_SIZE) <= k
           /\ k < Base(k \div SHARD_SIZE) + SHARD_SIZE
           /\ \A i \in Nat : Base(i) <= k /\ k < Base(i) + SHARD_SIZE => i = k \div SHARD_SIZE
<1>1. SHARD_SIZE \in Nat /\ SHARD_SIZE > 0
  BY SizeAssumption
<1>2. /\ k \div SHARD_SIZE \in Nat
      /\ Base(k \div SHARD_SIZE) <= k
      /\ k < Base(k \div SHARD_SIZE) + SHARD_SIZE
  BY <1>1 DEF Base
<1>3. ASSUME NEW i \in Nat, Base(i) <= k, k < Base(i) + SHARD_SIZE
      PROVE  i = k \div SHARD_SIZE
  <2> DEFINE q == k \div SHARD_SIZE
  <2>1. q \in Nat /\ Base(q) \in Nat /\ Base(i) \in Nat
    BY <1>2, BaseIs
  <2> HIDE DEF q
  <2>2. Base(q) <= k /\ k < Base(q) + SHARD_SIZE
    BY <1>2 DEF q
  <2>3. ~(i < q)
    BY <2>1, <2>2, <1>3, BaseIs, <1>1
  <2>4. ~(q < i)
    BY <2>1, <2>2, <1>3, BaseIs, <1>1
  <2>5. i = q
    BY <2>1, <2>3, <2>4
  <2> QED
    BY <2>5 DEF q
<1> QED
  BY <1>2, <1>3

\* The shards that hold some leaves: all but the last are full.
Count(l) == (l + SHARD_SIZE - 1) \div SHARD_SIZE

\* The last of them is the shard of the last position.
LEMMA CountIs ==
    ASSUME NEW l \in Nat
    PROVE  /\ Count(l) \in Nat /\ l <= Base(Count(l))
           /\ l = 0 => Count(l) = 0
           /\ l > 0 => /\ Count(l) >= 1 /\ Base(Count(l) - 1) < l
                       /\ Count(l) - 1 = (l - 1) \div SHARD_SIZE
<1> DEFINE n == (l + SHARD_SIZE - 1) \div SHARD_SIZE
<1>1. SHARD_SIZE \in Nat /\ SHARD_SIZE > 0
  BY SizeAssumption
<1>2. l + SHARD_SIZE - 1 \in Nat
  BY <1>1
<1>3. /\ n \in Nat /\ Base(n) <= l + SHARD_SIZE - 1
      /\ l + SHARD_SIZE - 1 < Base(n) + SHARD_SIZE
  BY <1>2, DivIs
<1>4. \A i \in Nat : Base(i) <= l + SHARD_SIZE - 1 /\ l + SHARD_SIZE - 1 < Base(i) + SHARD_SIZE
                     => i = n
  BY <1>2, DivIs
<1> HIDE DEF n
<1>5. Base(n) \in Nat /\ l <= Base(n)
  BY <1>1, <1>3, BaseIs
<1>6. ASSUME l = 0
      PROVE  n = 0
  <2>0. Base(0) = 0
    BY BaseIs
  <2>1. 0 \in Nat /\ Base(0) <= l + SHARD_SIZE - 1 /\ l + SHARD_SIZE - 1 < Base(0) + SHARD_SIZE
    BY <1>1, <1>6, <2>0
  <2> QED
    BY <2>1, <1>4
<1>7. ASSUME l > 0
      PROVE  n >= 1 /\ Base(n - 1) < l /\ n - 1 = (l - 1) \div SHARD_SIZE
  <2>1. n >= 1
    <3>1. n # 0
      BY <1>5, <1>7, BaseIs
    <3> QED
      BY <3>1, <1>3
  <2>2. n - 1 \in Nat /\ (n - 1) + 1 = n
    BY <2>1, <1>3
  <2>3. Base(n - 1) \in Nat /\ Base(n) = Base(n - 1) + SHARD_SIZE
    BY <2>2, BaseIs
  <2>4. Base(n - 1) < l /\ l - 1 \in Nat /\ Base(n - 1) <= l - 1 /\ l - 1 < Base(n - 1) + SHARD_SIZE
    BY <2>3, <1>3, <1>5, <1>1, <1>7
  <2>5. n - 1 = (l - 1) \div SHARD_SIZE
    BY <2>2, <2>4, DivIs
  <2> QED
    BY <2>1, <2>4, <2>5
<1> QED
  BY <1>3, <1>5, <1>6, <1>7 DEF n, Count

\* What is in each shard.
LEMMA ShardIs ==
    ASSUME NEW A, NEW L \in Seq(A), NEW i \in 1..Count(Len(L))
    PROVE  /\ Shard(L, i) \in Seq(A)
           /\ Base(i - 1) \in Nat /\ Base(i) = Base(i - 1) + SHARD_SIZE
           /\ Base(i - 1) < Len(L)
           /\ Len(Shard(L, i)) = (IF Base(i) <= Len(L) THEN SHARD_SIZE ELSE Len(L) - Base(i - 1))
           /\ \A j \in 1..Len(Shard(L, i)) : Shard(L, i)[j] = L[Base(i - 1) + j]
<1> DEFINE m == Min({Base(i), Len(L)})
<1>1. SHARD_SIZE \in Nat /\ SHARD_SIZE > 0
  BY SizeAssumption
<1>2. Len(L) \in Nat /\ \A k \in 1..Len(L) : L[k] \in A
  BY LenProperties, ElementOfSeq
<1>3. Count(Len(L)) \in Nat /\ Len(L) > 0 /\ Base(Count(Len(L)) - 1) < Len(L)
  <2>1. /\ Count(Len(L)) \in Nat
        /\ Len(L) = 0 => Count(Len(L)) = 0
        /\ Len(L) > 0 => Base(Count(Len(L)) - 1) < Len(L)
    BY <1>2, CountIs
  <2>2. Count(Len(L)) # 0
    OBVIOUS
  <2> QED
    BY <2>1, <2>2, <1>2
<1>4. i \in Nat /\ i - 1 \in Nat /\ i >= 1 /\ i <= Count(Len(L)) /\ (i - 1) + 1 = i
  BY <1>3
<1>5. Base(i - 1) \in Nat /\ Base(i) \in Nat /\ Base(i) = Base(i - 1) + SHARD_SIZE
  BY <1>4, BaseIs
<1>6. Base(i - 1) < Len(L)
  <2>1. CASE i = Count(Len(L))
    BY <2>1, <1>3
  <2>2. CASE i < Count(Len(L))
    <3> DEFINE h == Count(Len(L)) - 1
    <3>1. h \in Nat /\ i - 1 < h /\ Base(h) < Len(L)
      BY <2>2, <1>3, <1>4
    <3> HIDE DEF h
    <3>2. Base(i - 1) + SHARD_SIZE <= Base(h) /\ Base(h) \in Nat
      BY <3>1, <1>4, BaseIs
    <3> QED
      BY <3>1, <3>2, <1>1, <1>2, <1>5
  <2> QED
    BY <2>1, <2>2, <1>3, <1>4
<1>7. m = IF Base(i) <= Len(L) THEN Base(i) ELSE Len(L)
  <2> DEFINE w == IF Base(i) <= Len(L) THEN Base(i) ELSE Len(L)
  <2>1. w \in {Base(i), Len(L)} /\ \A y \in {Base(i), Len(L)} : w <= y
    BY <1>2, <1>5
  <2>2. \A x \in {Base(i), Len(L)} : (\A y \in {Base(i), Len(L)} : x <= y) => x = w
    BY <1>2, <1>5
  <2>3. m \in {Base(i), Len(L)} /\ \A y \in {Base(i), Len(L)} : m <= y
    BY <2>1 DEF Min
  <2> QED
    BY <2>2, <2>3
<1> HIDE DEF m
<1>8. m \in Nat /\ m <= Len(L) /\ Base(i - 1) < m
  BY <1>1, <1>2, <1>5, <1>6, <1>7
<1>9. Shard(L, i) = SubSeq(L, Base(i - 1) + 1, m)
  BY DEF Shard, Base, m
<1>10. \A k \in Base(i - 1) + 1 .. m : L[k] \in A
  BY <1>2, <1>5, <1>8
<1>11. /\ SubSeq(L, Base(i - 1) + 1, m) \in Seq(A)
       /\ Len(SubSeq(L, Base(i - 1) + 1, m)) = IF Base(i - 1) + 1 <= m THEN m - (Base(i - 1) + 1) + 1 ELSE 0
       /\ \A j \in 1 .. m - (Base(i - 1) + 1) + 1 :
             SubSeq(L, Base(i - 1) + 1, m)[j] = L[(Base(i - 1) + 1) + j - 1]
  <2>1. Base(i - 1) + 1 \in Int /\ m \in Int
    BY <1>5, <1>8
  <2> QED
    BY <2>1, <1>10, SubSeqProperties
<1>12. Len(Shard(L, i)) = m - Base(i - 1)
  BY <1>5, <1>8, <1>9, <1>11
<1>13. ASSUME NEW j \in 1..Len(Shard(L, i))
       PROVE  Shard(L, i)[j] = L[Base(i - 1) + j]
  <2>1. j \in 1 .. m - (Base(i - 1) + 1) + 1 /\ (Base(i - 1) + 1) + j - 1 = Base(i - 1) + j
    BY <1>5, <1>8, <1>12
  <2> QED
    BY <2>1, <1>9, <1>11
<1>14. Len(Shard(L, i)) = IF Base(i) <= Len(L) THEN SHARD_SIZE ELSE Len(L) - Base(i - 1)
  BY <1>1, <1>2, <1>5, <1>7, <1>12
<1> QED
  BY <1>5, <1>6, <1>9, <1>11, <1>13, <1>14

\* The shards of a sequence of leaves.
LEMMA ShardsAre ==
    ASSUME NEW A, NEW L \in Seq(A)
    PROVE  /\ Shards(L) \in Seq(Seq(A))
           /\ Len(Shards(L)) = Count(Len(L)) /\ Count(Len(L)) \in Nat
           /\ \A i \in 1..Count(Len(L)) : Shards(L)[i] = Shard(L, i)
<1>1. Len(L) \in Nat
  BY LenProperties
<1>2. Count(Len(L)) \in Nat
  BY <1>1, CountIs
<1>3. Shards(L) = [i \in 1..Count(Len(L)) |-> Shard(L, i)]
  BY DEF Shards, Count
<1>4. \A i \in 1..Count(Len(L)) : Shard(L, i) \in Seq(A)
  BY ShardIs
<1> QED
  BY <1>2, <1>3, <1>4

\* Two sequences with the same shards, in the same number, are given by them.
LEMMA ShardsEqual ==
    ASSUME NEW A, NEW T \in Seq(Seq(A)), NEW L \in Seq(A),
           Len(T) = Count(Len(L)),
           \A i \in 1..Len(T) : T[i] = Shard(L, i)
    PROVE  T = Shards(L)
<1>1. Shards(L) \in Seq(Seq(A)) /\ Len(Shards(L)) = Len(T)
  BY ShardsAre
<1>2. \A i \in 1..Len(T) : T[i] = Shards(L)[i]
  BY ShardsAre
<1> QED
  BY <1>1, <1>2, SeqEqual

\* The position after the last leaf is the number of the leaves.
LEMMA TreeStateOfShards ==
    ASSUME NEW A, NEW L \in Seq(A)
    PROVE  TreeState(Shards(L)) = Len(L) /\ Len(L) \in Nat
<1> DEFINE n == Count(Len(L))
<1>1. Len(L) \in Nat
  BY LenProperties
<1>2. /\ n \in Nat /\ Len(L) <= Base(n)
      /\ Len(L) = 0 => n = 0
      /\ Len(L) > 0 => n >= 1 /\ Base(n - 1) < Len(L)
  BY <1>1, CountIs
<1>3. Shards(L) \in Seq(Seq(A)) /\ Len(Shards(L)) = n
  BY ShardsAre
<1>4. \A i \in 1..n : Shards(L)[i] = Shard(L, i)
  BY ShardsAre
<1>5. ASSUME NEW i \in 1..n
      PROVE  /\ Base(i - 1) \in Nat /\ Base(i) = Base(i - 1) + SHARD_SIZE
             /\ Len(Shard(L, i)) = (IF Base(i) <= Len(L) THEN SHARD_SIZE ELSE Len(L) - Base(i - 1))
  BY ShardIs
<1> HIDE DEF n
<1>6. CASE Len(L) = 0
  <2>1. Shards(L) = << >>
    BY <1>2, <1>3, <1>6
  <2> QED
    BY <2>1, <1>6 DEF TreeState
<1>7. CASE Len(L) > 0
  <2>1. n \in 1..n /\ Shards(L) # << >>
    BY <1>2, <1>3, <1>7
  <2>2. TreeState(Shards(L)) = Base(n - 1) + Len(Shard(L, n))
    BY <2>1, <1>3, <1>4 DEF TreeState, Last, Base
  <2>3. SHARD_SIZE \in Nat
    BY SizeAssumption
  <2>4. /\ Base(n - 1) \in Nat /\ Base(n) = Base(n - 1) + SHARD_SIZE
        /\ Len(Shard(L, n)) = (IF Base(n) <= Len(L) THEN SHARD_SIZE ELSE Len(L) - Base(n - 1))
    BY <2>1, <1>5
  <2> QED
    BY <2>2, <2>3, <2>4, <1>1, <1>2
<1> QED
  BY <1>1, <1>6, <1>7

\* Reading the leaves of the shards gives back what was put there.
LEMMA LeavesOfShards ==
    ASSUME NEW A, NEW L \in Seq(A)
    PROVE  LeavesOf(Shards(L)) = L
<1>1. Len(L) \in Nat /\ L = [k \in 1..Len(L) |-> L[k]]
  BY LenProperties
<1>2. TreeState(Shards(L)) = Len(L)
  BY TreeStateOfShards
<1>3. ASSUME NEW pos \in 1..Len(L)
      PROVE  LET index == (pos - 1) \div SHARD_SIZE
             IN  Shards(L)[index + 1][pos - index * SHARD_SIZE] = L[pos]
  <2> DEFINE q == (pos - 1) \div SHARD_SIZE
             n == Count(Len(L))
  <2>1. pos - 1 \in Nat /\ pos \in Nat /\ pos <= Len(L)
    BY <1>1
  <2>2. q \in Nat /\ Base(q) <= pos - 1 /\ pos - 1 < Base(q) + SHARD_SIZE
    BY <2>1, DivIs
  <2>3. n \in Nat /\ Len(L) <= Base(n)
    BY <1>1, CountIs
  <2>4. SHARD_SIZE \in Nat /\ SHARD_SIZE > 0
    BY SizeAssumption
  <2>h. q * SHARD_SIZE = Base(q)
    BY DEF Base
  <2>n. \A i \in 1..n : Shards(L)[i] = Shard(L, i)
    BY ShardsAre
  <2>s. \A i \in 1..n : 
           /\ Len(Shard(L, i)) = (IF Base(i) <= Len(L) THEN SHARD_SIZE ELSE Len(L) - Base(i - 1))
           /\ \A j \in 1..Len(Shard(L, i)) : Shard(L, i)[j] = L[Base(i - 1) + j]
    BY ShardIs
  <2> HIDE DEF q, n
  <2>5. Base(q) \in Nat /\ Base(n) \in Nat /\ Base(q + 1) = Base(q) + SHARD_SIZE
    BY <2>2, <2>3, BaseIs
  <2>6. q < n
    <3>1. CASE q = n
      BY <3>1, <2>1, <2>2, <2>3, <2>5, <1>1
    <3>2. CASE n < q
      <4>1. Base(n) + SHARD_SIZE <= Base(q)
        BY <3>2, <2>2, <2>3, BaseIs
      <4> QED
        BY <4>1, <2>1, <2>2, <2>3, <2>4, <2>5, <1>1
    <3> QED
      BY <3>1, <3>2, <2>2, <2>3
  <2>7. q + 1 \in 1..n /\ (q + 1) - 1 = q
    BY <2>2, <2>3, <2>6
  <2>8. Len(Shard(L, q + 1)) = IF Base(q + 1) <= Len(L) THEN SHARD_SIZE ELSE Len(L) - Base(q)
    BY <2>7, <2>s
  <2>9. pos - Base(q) \in 1..Len(Shard(L, q + 1))
    BY <2>8, <2>1, <2>2, <2>4, <2>5, <1>1
  <2>10. Shard(L, q + 1)[pos - Base(q)] = L[Base(q) + (pos - Base(q))]
    BY <2>7, <2>9, <2>s
  <2>11. Base(q) + (pos - Base(q)) = pos
    BY <2>1, <2>5
  <2>12. Shards(L)[q + 1][pos - q * SHARD_SIZE] = L[pos]
    BY <2>7, <2>10, <2>11, <2>n, <2>h
  <2> QED
    BY <2>12 DEF q
<1> QED
  <2>1. LeavesOf(Shards(L)) = [pos \in 1..Len(L) |-> L[pos]]
    BY <1>2, <1>3 DEF LeavesOf
  <2> QED
    BY <2>1, <1>1

\* A shard of the first leaves is the start of the shard of all.
LEMMA ShardOfPrefix ==
    ASSUME NEW A, NEW L \in Seq(A), NEW K \in Seq(A), Len(K) <= Len(L),
           \A k \in 1..Len(K) : K[k] = L[k],
           NEW i \in 1..Count(Len(K)), i \in 1..Count(Len(L))
    PROVE  /\ Len(Shard(K, i)) <= Len(Shard(L, i))
           /\ Shard(K, i) = SubSeq(Shard(L, i), 1, Len(Shard(K, i)))
<1> DEFINE X == Shard(K, i)
           Y == Shard(L, i)
<1>1. SHARD_SIZE \in Nat /\ Len(K) \in Nat /\ Len(L) \in Nat
  BY SizeAssumption, LenProperties
<1>2. /\ X \in Seq(A) /\ Base(i - 1) \in Nat /\ Base(i) = Base(i - 1) + SHARD_SIZE
      /\ Base(i - 1) < Len(K)
      /\ Len(X) = (IF Base(i) <= Len(K) THEN SHARD_SIZE ELSE Len(K) - Base(i - 1))
      /\ \A j \in 1..Len(X) : X[j] = K[Base(i - 1) + j]
  BY ShardIs
<1>3. /\ Y \in Seq(A)
      /\ Len(Y) = (IF Base(i) <= Len(L) THEN SHARD_SIZE ELSE Len(L) - Base(i - 1))
      /\ \A j \in 1..Len(Y) : Y[j] = L[Base(i - 1) + j]
  BY ShardIs
<1> HIDE DEF X, Y
<1>4. Len(X) \in Nat /\ Len(Y) \in Nat /\ Len(X) <= Len(Y) /\ Base(i - 1) + Len(X) <= Len(K)
  BY <1>1, <1>2, <1>3
<1>5. \A j \in 1..Len(X) : Y[j] \in A
  BY <1>3, <1>4, ElementOfSeq
<1>6. /\ SubSeq(Y, 1, Len(X)) \in Seq(A) /\ Len(SubSeq(Y, 1, Len(X))) = Len(X)
      /\ \A j \in 1..Len(X) : SubSeq(Y, 1, Len(X))[j] = Y[j]
  BY <1>4, <1>5, SubSeqProperties
<1>7. ASSUME NEW j \in 1..Len(X)
      PROVE  X[j] = SubSeq(Y, 1, Len(X))[j]
  <2>1. Base(i - 1) + j \in 1..Len(K) /\ j \in 1..Len(Y)
    BY <1>2, <1>4, <1>1
  <2> QED
    BY <2>1, <1>2, <1>3, <1>6
<1>8. X = SubSeq(Y, 1, Len(X))
  BY <1>2, <1>6, <1>7, SeqEqual
<1> QED
  BY <1>4, <1>8 DEF X, Y

\* What the tree does to the shards when it is truncated to a position.
CutIndex(pos) == IF pos = 0 THEN 0 ELSE (pos - 1) \div SHARD_SIZE
CutShards(shards, pos) ==
    TruncateShards(shards, CutIndex(pos)) \o
    IF pos = 0 THEN << >>
    ELSE <<SubSeq(shards[CutIndex(pos) + 1], 1, pos - CutIndex(pos) * SHARD_SIZE)>>

\* It leaves the shards of the leaves up to there.
LEMMA CutIs ==
    ASSUME NEW A, NEW L \in Seq(A), NEW pos \in 0..Len(L)
    PROVE  /\ CutShards(Shards(L), pos) = Shards(SubSeq(L, 1, pos))
           /\ CutIndex(pos) \in Nat /\ CutIndex(pos) <= Count(pos) /\ CutIndex(pos) <= Count(Len(L))
           /\ SubSeq(L, 1, pos) \in Seq(A) /\ Len(SubSeq(L, 1, pos)) = pos
           /\ \A k \in 1..pos : SubSeq(L, 1, pos)[k] = L[k]
<1> DEFINE K == SubSeq(L, 1, pos)
           S == Shards(L)
           q == CutIndex(pos)
           T == CutShards(S, pos)
<1>1. Len(L) \in Nat /\ pos \in Nat /\ pos <= Len(L) /\ \A k \in 1..Len(L) : L[k] \in A
  BY LenProperties, ElementOfSeq
<1>2. K \in Seq(A) /\ Len(K) = pos /\ \A k \in 1..pos : K[k] = L[k]
  <2>1. \A k \in 1..pos : L[k] \in A
    BY <1>1
  <2> QED
    BY <1>1, <2>1, SubSeqProperties
<1>3. S \in Seq(Seq(A)) /\ Len(S) = Count(Len(L)) /\ \A i \in 1..Count(Len(L)) : S[i] = Shard(L, i)
  BY ShardsAre
<1>4. /\ Count(pos) \in Nat /\ pos <= Base(Count(pos))
      /\ pos = 0 => Count(pos) = 0
      /\ pos > 0 => /\ Count(pos) >= 1 /\ Base(Count(pos) - 1) < pos
                    /\ Count(pos) - 1 = (pos - 1) \div SHARD_SIZE
  BY <1>1, CountIs
<1>5. q \in Nat /\ q <= Count(pos) /\ (pos = 0 => q = 0) /\ (pos > 0 => q = Count(pos) - 1)
  BY <1>1, <1>4 DEF CutIndex
<1>6. Count(Len(L)) \in Nat /\ Len(L) <= Base(Count(Len(L)))
  BY <1>1, CountIs
<1>7. SHARD_SIZE \in Nat /\ SHARD_SIZE > 0
  BY SizeAssumption
<1>8. Count(pos) <= Count(Len(L))
  <2>1. CASE pos = 0
    BY <2>1, <1>4, <1>6
  <2>2. CASE pos > 0
    <3> DEFINE m == Count(Len(L))
    <3>0. q = Count(pos) - 1
      BY <2>2, <1>5
    <3>1. q \in Nat /\ m \in Nat /\ Base(q) < pos /\ pos <= Base(m)
      <4>1. Base(q) < pos
        BY <3>0, <2>2, <1>4
      <4>2. Base(m) \in Nat /\ Len(L) <= Base(m)
        BY <1>6, BaseIs
      <4> QED
        BY <4>1, <4>2, <1>1, <1>5, <1>6
    <3>2. ~(m < q) /\ m # q
      <4> HIDE DEF m, q
      <4>1. Base(m) \in Nat /\ Base(q) \in Nat
        BY <3>1, BaseIs
      <4>2. m < q => Base(m) + SHARD_SIZE <= Base(q)
        BY <3>1, BaseIs
      <4> QED
        BY <3>1, <4>1, <4>2, <1>1, <1>7
    <3> QED
      BY <3>1, <3>2, <2>2, <1>4, <1>5
  <2> QED
    BY <2>1, <2>2, <1>1
<1>9. \A i \in 1..Count(pos) :
         /\ Len(Shard(K, i)) <= Len(Shard(L, i))
         /\ Shard(K, i) = SubSeq(Shard(L, i), 1, Len(Shard(K, i)))
  <2> TAKE i \in 1..Count(pos)
  <2>1. i \in 1..Count(Len(K)) /\ i \in 1..Count(Len(L))
    BY <1>2, <1>4, <1>6, <1>8
  <2>2. Len(K) <= Len(L) /\ \A k \in 1..Len(K) : K[k] = L[k]
    BY <1>1, <1>2
  <2> HIDE DEF K
  <2> QED
    BY <2>1, <2>2, <1>2, ShardOfPrefix
<1>10. \A i \in 1..Count(pos) :
          /\ Base(i - 1) \in Nat /\ Base(i) = Base(i - 1) + SHARD_SIZE
          /\ Shard(K, i) \in Seq(A)
          /\ Len(Shard(K, i)) = (IF Base(i) <= pos THEN SHARD_SIZE ELSE pos - Base(i - 1))
  <2> HIDE DEF K
  <2> QED
    BY <1>2, ShardIs
<1>11. \A i \in 1..Count(pos) : /\ Shard(L, i) \in Seq(A)
                                /\ Len(Shard(L, i)) \in Nat /\ Len(Shard(L, i)) <= SHARD_SIZE
  <2> TAKE i \in 1..Count(pos)
  <2>1. i \in 1..Count(Len(L))
    BY <1>4, <1>6, <1>8
  <2>2. /\ Shard(L, i) \in Seq(A)
        /\ Base(i - 1) \in Nat /\ Base(i) = Base(i - 1) + SHARD_SIZE
        /\ Len(Shard(L, i)) = (IF Base(i) <= Len(L) THEN SHARD_SIZE ELSE Len(L) - Base(i - 1))
    BY <2>1, ShardIs
  <2>3. Len(Shard(L, i)) \in Nat
    BY <2>2, LenProperties
  <2> QED
    BY <2>2, <2>3, <1>1, <1>7
<1> HIDE DEF K, S, q
<1>12. SubSeq(S, 1, q) \in Seq(Seq(A)) /\ Len(SubSeq(S, 1, q)) = q
       /\ \A i \in 1..q : SubSeq(S, 1, q)[i] = S[i]
  <2>1. \A i \in 1..q : S[i] \in Seq(A)
    BY <1>3, <1>4, <1>5, <1>6, <1>8, ElementOfSeq
  <2> QED
    BY <2>1, <1>5, SubSeqProperties
<1>13. \A i \in 1..q : S[i] = Shard(K, i)
  <2> TAKE i \in 1..q
  <2>1. i \in 1..Count(pos) /\ i \in 1..Count(Len(L)) /\ pos > 0 /\ i \in Nat /\ q = Count(pos) - 1
    BY <1>1, <1>4, <1>5, <1>6, <1>8
  <2>2. Base(i) <= pos
    <3>1. Base(q) < pos /\ Base(i) \in Nat /\ Base(q) \in Nat
      BY <2>1, <1>4, <1>5, BaseIs
    <3>2. i < q => Base(i) + SHARD_SIZE <= Base(q)
      BY <2>1, <1>5, BaseIs
    <3>3. i = q \/ i < q
      BY <2>1, <1>5
    <3> QED
      BY <3>1, <3>2, <3>3, <1>1, <1>7
  <2>3. Len(Shard(K, i)) = SHARD_SIZE /\ Len(Shard(L, i)) = SHARD_SIZE
    <3>1. Len(Shard(K, i)) = SHARD_SIZE
      BY <2>1, <2>2, <1>10
    <3>2. Len(Shard(K, i)) <= Len(Shard(L, i)) /\ Len(Shard(L, i)) \in Nat /\ Len(Shard(L, i)) <= SHARD_SIZE
      BY <2>1, <1>9, <1>11
    <3> QED
      BY <3>1, <3>2, <1>7
  <2>4. Shard(K, i) = SubSeq(Shard(L, i), 1, Len(Shard(L, i)))
    BY <2>1, <2>3, <1>9
  <2>5. Shard(K, i) = Shard(L, i)
    BY <2>1, <2>4, <1>11, SubSeqFull
  <2> QED
    BY <2>1, <2>5, <1>3
<1>14. CASE pos = 0
  <2>1. T = SubSeq(S, 1, q) \o << >>
    BY <1>14 DEF CutShards, TruncateShards, q
  <2>2. T = SubSeq(S, 1, q)
    BY <2>1, <1>12, ConcatEmptySeq
  <2>3. T = Shards(K)
    <3>1. T \in Seq(Seq(A)) /\ Len(T) = Count(Len(K))
      BY <2>2, <1>2, <1>4, <1>5, <1>12, <1>14
    <3>2. \A i \in 1..Len(T) : T[i] = Shard(K, i)
      BY <2>2, <1>12, <1>13
    <3> HIDE DEF T
    <3> QED
      BY <3>1, <3>2, <1>2, ShardsEqual
  <2> QED
    BY <2>3, <1>2, <1>4, <1>5, <1>6, <1>8 DEF K, S, q
<1>15. CASE pos > 0
  <2> DEFINE c == SubSeq(S[q + 1], 1, pos - q * SHARD_SIZE)
  <2>1. T = SubSeq(S, 1, q) \o <<c>>
    <3>1. pos # 0
      BY <1>15, <1>1
    <3>2. T = SubSeq(S, 1, q) \o (IF pos = 0 THEN << >> ELSE <<c>>)
      BY DEF CutShards, TruncateShards, q
    <3> HIDE DEF T, c
    <3> QED
      BY <3>1, <3>2
  <2>2. q + 1 = Count(pos) /\ q + 1 \in 1..Count(pos) /\ q + 1 \in 1..Count(Len(L)) /\ (q + 1) - 1 = q
    BY <1>4, <1>5, <1>6, <1>8, <1>15
  <2>3. Len(Shard(K, q + 1)) = pos - q * SHARD_SIZE
    <3>1. /\ Base(q) \in Nat /\ Base(q + 1) = Base(q) + SHARD_SIZE
          /\ Len(Shard(K, q + 1)) = (IF Base(q + 1) <= pos THEN SHARD_SIZE ELSE pos - Base(q))
      BY <2>2, <1>10
    <3>2. pos <= Base(q + 1)
      BY <2>2, <1>4
    <3>3. Len(Shard(K, q + 1)) = pos - Base(q)
      BY <3>1, <3>2, <1>1, <1>7
    <3> QED
      BY <3>3 DEF Base
  <2>4. c = Shard(K, q + 1)
    BY <2>2, <2>3, <1>3, <1>9
  <2>5. c \in Seq(A)
    BY <2>2, <2>4, <1>10
  <2> HIDE DEF c
  <2>6. <<c>> \in Seq(Seq(A)) /\ Len(<<c>>) = 1 /\ <<c>>[1] = c
    BY <2>5
  <2>7. /\ T \in Seq(Seq(A)) /\ Len(T) = q + 1
        /\ \A i \in 1 .. q + 1 : T[i] = IF i <= q THEN SubSeq(S, 1, q)[i] ELSE <<c>>[i - q]
    BY <2>1, <2>6, <1>12, ConcatProperties
  <2>8. \A i \in 1 .. q + 1 : T[i] = Shard(K, i)
    <3> TAKE i \in 1 .. q + 1
    <3>1. CASE i \in 1..q
      <4>1. i \in 1 .. q + 1 /\ i <= q
        BY <3>1, <1>5
      <4> HIDE DEF T
      <4>2. T[i] = SubSeq(S, 1, q)[i]
        BY <4>1, <2>7
      <4> QED
        BY <4>2, <3>1, <1>12, <1>13
    <3>2. CASE i = q + 1
      <4>1. T[i] = <<c>>[1]
        BY <3>2, <2>7, <1>5
      <4> QED
        BY <4>1, <3>2, <2>6, <2>4
    <3> QED
      BY <3>1, <3>2, <1>5
  <2>9. T = Shards(K)
    <3>1. Len(T) = Count(Len(K))
      BY <2>2, <2>7, <1>2
    <3> HIDE DEF T
    <3> QED
      BY <3>1, <2>7, <2>8, <1>2, ShardsEqual
  <2> QED
    BY <2>9, <1>2, <1>4, <1>5, <1>6, <1>8 DEF K, S, q
<1> QED
  BY <1>14, <1>15, <1>1

-----------------------------------------------------------------------------
(***************************************************************************)
(* The tables, from a chain c, its leaves L and the number P[i] of leaves  *)
(* up to its i-th block.                                                   *)
(***************************************************************************)
Leaf == WalletBlock \X Nat
Heights(c) == 0..Len(c)
TipAt(c, i) == IF i = 0 THEN NoWalletBlock ELSE c[i]
Tips(c) == {TipAt(c, i) : i \in Heights(c)}
HeightOf(c, t) == CHOOSE i \in Heights(c) : TipAt(c, i) = t

Checkpoints(c, P) == [t \in Tips(c) |-> [pos |-> P[HeightOf(c, t)], seq |-> HeightOf(c, t)]]
SeqToTip(c) == [i \in Heights(c) |-> TipAt(c, i)]
PosToSeq(c, P) == {<<P[i], i>> : i \in Heights(c)}
Store(c, L, P) ==
    [shards |-> Shards(L), checkpoints |-> Checkpoints(c, P),
     checkpoint_seq_to_tip |-> SeqToTip(c), position_to_checkpoint_seq |-> PosToSeq(c, P)]

IsChain(c) == c \in Seq(WalletBlock) /\ \A i, j \in 1..Len(c) : c[i] = c[j] => i = j
IsPositions(c, L, P) ==
    /\ P \in [Heights(c) -> Nat] /\ P[0] = 0 /\ P[Len(c)] = Len(L)
    /\ \A i, j \in Heights(c) : i <= j => P[i] <= P[j]
Good(c, L, P) == IsChain(c) /\ L \in Seq(Leaf) /\ IsPositions(c, L, P)

\* The leaves and positions, read from the database.
PositionsOf(c, d) == [i \in Heights(c) |-> d.checkpoints[TipAt(c, i)].pos]

\* The inductive invariant.
IInv ==
    LET L == LeavesOf(tree_db.shards)
        P == PositionsOf(synced, tree_db)
    IN  error = FALSE /\ Good(synced, L, P) /\ tree_db = Store(synced, L, P)

\* The blocks of a chain and the block before them are different.
LEMMA TipsDiffer ==
    ASSUME NEW c, IsChain(c)
    PROVE  /\ Len(c) \in Nat /\ Heights(c) \subseteq Nat
           /\ \A i \in Heights(c) : /\ TipAt(c, i) \in Tips(c) /\ HeightOf(c, TipAt(c, i)) = i
                                    /\ i > 0 => TipAt(c, i) = c[i] /\ c[i] \in WalletBlock
           /\ \A t \in Tips(c) : HeightOf(c, t) \in Heights(c) /\ TipAt(c, HeightOf(c, t)) = t
           /\ \A i, j \in Heights(c) : TipAt(c, i) = TipAt(c, j) => i = j
<1>1. Len(c) \in Nat /\ \A i \in 1..Len(c) : c[i] \in WalletBlock
  BY LenProperties, ElementOfSeq DEF IsChain
<1>2. Heights(c) \subseteq Nat /\ \A i \in Heights(c) : i # 0 => i \in 1..Len(c)
  BY <1>1 DEF Heights
<1>3. \A i, j \in Heights(c) : TipAt(c, i) = TipAt(c, j) => i = j
  BY <1>1, <1>2, WalletBlockAssumption DEF TipAt, IsChain
<1>4. ASSUME NEW t \in Tips(c)
      PROVE  HeightOf(c, t) \in Heights(c) /\ TipAt(c, HeightOf(c, t)) = t
  <2>1. \E i \in Heights(c) : TipAt(c, i) = t
    BY DEF Tips
  <2> QED
    BY <2>1 DEF HeightOf
<1>5. ASSUME NEW i \in Heights(c)
      PROVE  /\ TipAt(c, i) \in Tips(c) /\ HeightOf(c, TipAt(c, i)) = i
             /\ i > 0 => TipAt(c, i) = c[i] /\ c[i] \in WalletBlock
  <2>1. TipAt(c, i) \in Tips(c)
    BY DEF Tips
  <2>2. HeightOf(c, TipAt(c, i)) \in Heights(c) /\ TipAt(c, HeightOf(c, TipAt(c, i))) = TipAt(c, i)
    BY <2>1, <1>4
  <2>3. HeightOf(c, TipAt(c, i)) = i
    BY <2>2, <1>3
  <2>4. i > 0 => TipAt(c, i) = c[i] /\ c[i] \in WalletBlock
    BY <1>1, <1>2 DEF TipAt
  <2> QED
    BY <2>1, <2>3, <2>4
<1> QED
  BY <1>1, <1>2, <1>3, <1>4, <1>5

\* The tables of a chain.
LEMMA StoreIs ==
    ASSUME NEW c, NEW L, NEW P, Good(c, L, P), NEW d, d = Store(c, L, P)
    PROVE  /\ d.shards = Shards(L) /\ d.checkpoints = Checkpoints(c, P)
           /\ d.checkpoint_seq_to_tip = SeqToTip(c)
           /\ d.position_to_checkpoint_seq = PosToSeq(c, P)
           /\ DOMAIN d.checkpoints = Tips(c) /\ DOMAIN d.checkpoint_seq_to_tip = Heights(c)
           /\ \A i \in Heights(c) : /\ d.checkpoints[TipAt(c, i)].pos = P[i]
                                    /\ d.checkpoints[TipAt(c, i)].seq = i
                                    /\ d.checkpoint_seq_to_tip[i] = TipAt(c, i)
                                    /\ P[i] \in Nat /\ P[i] <= Len(L)
           /\ Len(L) \in Nat
<1>1. IsChain(c) /\ L \in Seq(Leaf) /\ IsPositions(c, L, P)
  BY DEF Good
<1>2. /\ d.shards = Shards(L) /\ d.checkpoints = Checkpoints(c, P)
      /\ d.checkpoint_seq_to_tip = SeqToTip(c)
      /\ d.position_to_checkpoint_seq = PosToSeq(c, P)
  BY DEF Store
<1>3. DOMAIN d.checkpoints = Tips(c) /\ DOMAIN d.checkpoint_seq_to_tip = Heights(c)
  BY <1>2 DEF Checkpoints, SeqToTip
<1>4. Len(L) \in Nat
  BY <1>1, LenProperties
<1>5. ASSUME NEW i \in Heights(c)
      PROVE  /\ d.checkpoints[TipAt(c, i)].pos = P[i]
             /\ d.checkpoints[TipAt(c, i)].seq = i
             /\ d.checkpoint_seq_to_tip[i] = TipAt(c, i)
             /\ P[i] \in Nat /\ P[i] <= Len(L)
  <2>1. TipAt(c, i) \in Tips(c) /\ HeightOf(c, TipAt(c, i)) = i
    BY <1>1, TipsDiffer
  <2>2. d.checkpoints[TipAt(c, i)] = [pos |-> P[i], seq |-> i]
    BY <2>1, <1>2 DEF Checkpoints
  <2>3. d.checkpoint_seq_to_tip[i] = TipAt(c, i)
    BY <1>2 DEF SeqToTip
  <2>4. i \in Nat /\ Len(c) \in Heights(c) /\ i <= Len(c)
    BY <1>1, TipsDiffer DEF Heights
  <2>5. P[i] \in Nat /\ P[i] <= P[Len(c)] /\ P[Len(c)] = Len(L)
    BY <2>4, <1>1 DEF IsPositions
  <2> QED
    BY <2>2, <2>3, <2>5
<1> QED
  BY <1>2, <1>3, <1>4, <1>5

\* The database gives back its leaves and positions.
LEMMA StoreReads ==
    ASSUME NEW c, NEW L, NEW P, Good(c, L, P), NEW d, d = Store(c, L, P)
    PROVE  LeavesOf(d.shards) = L /\ PositionsOf(c, d) = P
<1>1. d.shards = Shards(L) /\ \A i \in Heights(c) : d.checkpoints[TipAt(c, i)].pos = P[i]
  BY StoreIs
<1>2. LeavesOf(d.shards) = L
  BY <1>1, LeavesOfShards DEF Good
<1>3. P = [i \in Heights(c) |-> P[i]]
  BY DEF Good, IsPositions
<1>4. PositionsOf(c, d) = P
  BY <1>1, <1>3 DEF PositionsOf
<1> QED
  BY <1>2, <1>4

\* The ID of the checkpoint of a block.
IdAt(c, P, i) == CheckpointId(P[i], i, TipAt(c, i))

\* Those are the IDs, in the order of the heights.
LEMMA IdsAre ==
    ASSUME NEW c, NEW L, NEW P, Good(c, L, P), NEW d, d = Store(c, L, P)
    PROVE  /\ CheckpointIds(d) = {IdAt(c, P, i) : i \in Heights(c)}
           /\ \A i \in Heights(c) : GetCheckpointId(d, TipAt(c, i)) = IdAt(c, P, i)
           /\ \A i, j \in Heights(c) : CheckpointBefore(IdAt(c, P, i), IdAt(c, P, j)) <=> i < j
           /\ \A i, j \in Heights(c) : IdAt(c, P, i) = IdAt(c, P, j) => i = j
<1>1. /\ d.position_to_checkpoint_seq = PosToSeq(c, P)
      /\ \A i \in Heights(c) : /\ d.checkpoints[TipAt(c, i)].pos = P[i]
                               /\ d.checkpoints[TipAt(c, i)].seq = i
                               /\ d.checkpoint_seq_to_tip[i] = TipAt(c, i)
                               /\ P[i] \in Nat
  BY StoreIs
<1>2. CheckpointIds(d) = {IdAt(c, P, i) : i \in Heights(c)}
  <2>1. ASSUME NEW ps \in PosToSeq(c, P)
        PROVE  \E i \in Heights(c) :
                  CheckpointId(ps[1], ps[2], d.checkpoint_seq_to_tip[ps[2]]) = IdAt(c, P, i)
    <3>1. PICK i \in Heights(c) : ps = <<P[i], i>>
      BY DEF PosToSeq
    <3>2. ps[1] = P[i] /\ ps[2] = i
      BY <3>1
    <3> QED
      BY <3>2, <1>1 DEF IdAt
  <2>2. ASSUME NEW i \in Heights(c)
        PROVE  \E ps \in PosToSeq(c, P) :
                  IdAt(c, P, i) = CheckpointId(ps[1], ps[2], d.checkpoint_seq_to_tip[ps[2]])
    <3>1. <<P[i], i>> \in PosToSeq(c, P) /\ <<P[i], i>>[1] = P[i] /\ <<P[i], i>>[2] = i
      BY DEF PosToSeq
    <3>2. IdAt(c, P, i) = CheckpointId(P[i], i, d.checkpoint_seq_to_tip[i])
      BY <1>1 DEF IdAt
    <3> QED
      BY <3>1, <3>2
  <2>3. CheckpointIds(d) = {CheckpointId(ps[1], ps[2], d.checkpoint_seq_to_tip[ps[2]]) : ps \in PosToSeq(c, P)}
    BY <1>1 DEF CheckpointIds
  <2> QED
    BY <2>1, <2>2, <2>3
<1>3. \A i \in Heights(c) : GetCheckpointId(d, TipAt(c, i)) = IdAt(c, P, i)
  BY <1>1 DEF GetCheckpointId, IdAt
<1>4. Heights(c) \subseteq Nat
  BY TipsDiffer DEF Good
<1>5. \A i, j \in Heights(c) : i <= j => P[i] <= P[j]
  BY DEF Good, IsPositions
<1>6. ASSUME NEW i \in Heights(c), NEW j \in Heights(c)
      PROVE  /\ CheckpointBefore(IdAt(c, P, i), IdAt(c, P, j)) <=> i < j
             /\ IdAt(c, P, i) = IdAt(c, P, j) => i = j
  <2>1. /\ IdAt(c, P, i).pos = P[i] /\ IdAt(c, P, j).pos = P[j]
        /\ IdAt(c, P, i).seq = i /\ IdAt(c, P, j).seq = j
    BY DEF IdAt, CheckpointId
  <2>2. CheckpointBefore(IdAt(c, P, i), IdAt(c, P, j)) <=> P[i] < P[j] \/ (P[i] = P[j] /\ i < j)
    BY <2>1 DEF CheckpointBefore
  <2>3. P[i] \in Nat /\ P[j] \in Nat /\ i \in Nat /\ j \in Nat
    BY <1>1, <1>4
  <2>4. (i <= j => P[i] <= P[j]) /\ (j <= i => P[j] <= P[i])
    BY <1>5
  <2>5. CheckpointBefore(IdAt(c, P, i), IdAt(c, P, j)) <=> i < j
    BY <2>2, <2>3, <2>4
  <2> QED
    BY <2>1, <2>5
<1> QED
  BY <1>2, <1>3, <1>6

-----------------------------------------------------------------------------
(***************************************************************************)
(* What the operations of the store do to its tables.                      *)
(***************************************************************************)
Tables(sh, cp, st, ps) ==
    [shards |-> sh, checkpoints |-> cp,
     checkpoint_seq_to_tip |-> st, position_to_checkpoint_seq |-> ps]

TipEntry(tip, pos, seq) == [t \in {tip} |-> [pos |-> pos, seq |-> seq]]
SeqEntry(seq, tip) == [s \in {seq} |-> tip]

\* The fields of the tables.
LEMMA TablesAre ==
    ASSUME NEW sh, NEW cp, NEW st, NEW ps, NEW d, d = Tables(sh, cp, st, ps)
    PROVE  /\ d.shards = sh /\ d.checkpoints = cp
           /\ d.checkpoint_seq_to_tip = st /\ d.position_to_checkpoint_seq = ps
           /\ \A x : [d EXCEPT !.shards = x] = Tables(x, cp, st, ps)
<1>1. /\ d.shards = sh /\ d.checkpoints = cp
      /\ d.checkpoint_seq_to_tip = st /\ d.position_to_checkpoint_seq = ps
  BY DEF Tables
<1>2. ASSUME NEW x
      PROVE  [d EXCEPT !.shards = x] = Tables(x, cp, st, ps)
  BY DEF Tables
<1> QED
  BY <1>1, <1>2

OtherCheckpoints(d, x, y, z) ==
    [d EXCEPT !.checkpoints = x, !.checkpoint_seq_to_tip = y, !.position_to_checkpoint_seq = z]

\* The tables with other checkpoints.
LEMMA TablesExcept ==
    ASSUME NEW sh, NEW cp, NEW st, NEW ps, NEW d, d = Tables(sh, cp, st, ps),
           NEW x, NEW y, NEW z, NEW r, r = OtherCheckpoints(d, x, y, z)
    PROVE  r = Tables(sh, x, y, z)
<1>1. DOMAIN d = {"shards", "checkpoints", "checkpoint_seq_to_tip", "position_to_checkpoint_seq"}
  BY DEF Tables
<1>2. r = [i \in DOMAIN d |-> r[i]]
  BY DEF OtherCheckpoints
<1>3. /\ r.shards = sh /\ r.checkpoints = x
      /\ r.checkpoint_seq_to_tip = y /\ r.position_to_checkpoint_seq = z
  BY <1>1 DEF Tables, OtherCheckpoints
<1> QED
  BY <1>1, <1>2, <1>3 DEF Tables

\* Checkpoints that are there are kept.
LEMMA AddNone ==
    ASSUME NEW sh, NEW cp, NEW st, NEW ps, NEW ids,
           cp = [x \in DOMAIN cp |-> cp[x]], st = [x \in DOMAIN st |-> st[x]],
           \A id \in ids : id.tip \in DOMAIN cp
    PROVE  AddCheckpoints(Tables(sh, cp, st, ps), ids) = Tables(sh, cp, st, ps)
<1> DEFINE d == Tables(sh, cp, st, ps)
           new == {id \in ids : id.tip \notin DOMAIN d.checkpoints}
           OfTip(t) == CHOOSE id \in new : id.tip = t
           OfSeq(s) == CHOOSE id \in new : id.seq = s
           tips == [t \in {id.tip : id \in new} |-> [pos |-> OfTip(t).pos, seq |-> OfTip(t).seq]]
           seqs == [s \in {id.seq : id \in new} |-> OfSeq(s).tip]
           add == {<<id.pos, id.seq>> : id \in new}
<1>1. d.checkpoints = cp
  BY TablesAre
<1>2. new = {}
  BY <1>1
<1>3. DOMAIN tips = {} /\ DOMAIN seqs = {} /\ add = {}
  BY <1>2
<1>4. AddCheckpoints(d, ids) =
         [d EXCEPT !.checkpoints = With(@, tips), !.checkpoint_seq_to_tip = With(@, seqs),
                   !.position_to_checkpoint_seq = @ \cup add]
  BY DEF AddCheckpoints
<1> HIDE DEF tips, seqs, add, new
<1>5. With(cp, tips) = cp /\ With(st, seqs) = st /\ ps \cup add = ps
  BY <1>3 DEF With
<1>6. AddCheckpoints(d, ids) = Tables(sh, With(cp, tips), With(st, seqs), ps \cup add)
  BY <1>4 DEF Tables
<1> QED
  BY <1>5, <1>6

OnlyNew(cp, ids, one) == {id \in ids : id.tip \notin DOMAIN cp} = {one}
TablesWith(sh, cp, st, ps, one) ==
    Tables(sh, With(cp, TipEntry(one.tip, one.pos, one.seq)),
           With(st, SeqEntry(one.seq, one.tip)), ps \cup {<<one.pos, one.seq>>})

\* One that is not is put in all three.
LEMMA AddOne ==
    ASSUME NEW sh, NEW cp, NEW st, NEW ps, NEW ids, NEW one, OnlyNew(cp, ids, one)
    PROVE  AddCheckpoints(Tables(sh, cp, st, ps), ids) = TablesWith(sh, cp, st, ps, one)
<1> DEFINE d == Tables(sh, cp, st, ps)
           new == {id \in ids : id.tip \notin DOMAIN d.checkpoints}
           OfTip(t) == CHOOSE id \in new : id.tip = t
           OfSeq(s) == CHOOSE id \in new : id.seq = s
           tips == [t \in {id.tip : id \in new} |-> [pos |-> OfTip(t).pos, seq |-> OfTip(t).seq]]
           seqs == [s \in {id.seq : id \in new} |-> OfSeq(s).tip]
           add == {<<id.pos, id.seq>> : id \in new}
<1>1. d.checkpoints = cp
  BY TablesAre
<1>2. new = {one}
  BY <1>1 DEF OnlyNew
<1>3. AddCheckpoints(d, ids) =
         [d EXCEPT !.checkpoints = With(@, tips), !.checkpoint_seq_to_tip = With(@, seqs),
                   !.position_to_checkpoint_seq = @ \cup add]
  BY DEF AddCheckpoints
<1>4. AddCheckpoints(d, ids) = Tables(sh, With(cp, tips), With(st, seqs), ps \cup add)
  <2> HIDE DEF tips, seqs, add
  <2> QED
    BY <1>3 DEF Tables
<1> HIDE DEF new
<1>5. {id.tip : id \in new} = {one.tip} /\ {id.seq : id \in new} = {one.seq}
      /\ add = {<<one.pos, one.seq>>}
  BY <1>2
<1>6. OfTip(one.tip) = one /\ OfSeq(one.seq) = one
  BY <1>2
<1>7. tips = TipEntry(one.tip, one.pos, one.seq)
  BY <1>5, <1>6 DEF TipEntry
<1>8. seqs = SeqEntry(one.seq, one.tip)
  BY <1>5, <1>6 DEF SeqEntry
<1> QED
  BY <1>4, <1>5, <1>7, <1>8 DEF TablesWith

-----------------------------------------------------------------------------
(***************************************************************************)
(* A chain and the same with one more block.                               *)
(***************************************************************************)
OneMore(c, e) ==
    /\ IsChain(c) /\ IsChain(e) /\ Len(e) = Len(c) + 1
    /\ \A i \in 1..Len(c) : e[i] = c[i]
OneMorePosition(c, e, P, Q) ==
    /\ P = [i \in Heights(c) |-> P[i]] /\ Q = [i \in Heights(e) |-> Q[i]]
    /\ \A i \in Heights(c) : Q[i] = P[i]

\* Its tips are the others and the new one.
LEMMA TipsGrow ==
    ASSUME NEW c, NEW e, OneMore(c, e)
    PROVE  /\ Len(c) \in Nat /\ Len(e) = Len(c) + 1 /\ Len(e) \notin Heights(c)
           /\ Heights(e) = Heights(c) \cup {Len(e)}
           /\ \A i \in Heights(c) : TipAt(e, i) = TipAt(c, i)
           /\ TipAt(e, Len(e)) = e[Len(e)] /\ e[Len(e)] \in WalletBlock /\ e[Len(e)] \notin Tips(c)
           /\ Tips(e) = Tips(c) \cup {e[Len(e)]}
           /\ \A t \in Tips(c) : HeightOf(e, t) = HeightOf(c, t)
           /\ HeightOf(e, e[Len(e)]) = Len(e)
<1>1. IsChain(c) /\ IsChain(e) /\ Len(e) = Len(c) + 1 /\ \A i \in 1..Len(c) : e[i] = c[i]
  BY DEF OneMore
<1>2. Len(c) \in Nat
  BY <1>1, TipsDiffer
<1>3. Heights(e) = Heights(c) \cup {Len(e)} /\ Len(e) \notin Heights(c)
  BY <1>1, <1>2 DEF Heights
<1>4. \A i \in Heights(c) : TipAt(e, i) = TipAt(c, i)
  BY <1>1, <1>2 DEF Heights, TipAt
<1>5. Len(e) \in Heights(e) /\ Len(e) > 0
  BY <1>1, <1>2, <1>3
<1>6. TipAt(e, Len(e)) = e[Len(e)] /\ e[Len(e)] \in WalletBlock
  BY <1>1, <1>5, TipsDiffer
<1>7. Tips(e) = Tips(c) \cup {e[Len(e)]}
  BY <1>3, <1>4, <1>6 DEF Tips
<1>8. e[Len(e)] \notin Tips(c)
  <2>1. ASSUME NEW i \in Heights(c), TipAt(c, i) = e[Len(e)]
        PROVE  FALSE
    <3>1. TipAt(e, i) = TipAt(e, Len(e)) /\ i \in Heights(e)
      BY <2>1, <1>3, <1>4, <1>6
    <3>2. i = Len(e)
      BY <3>1, <1>1, <1>5, TipsDiffer
    <3> QED
      BY <3>2, <1>3
  <2> QED
    BY <2>1 DEF Tips
<1>9. ASSUME NEW t \in Tips(c)
      PROVE  HeightOf(e, t) = HeightOf(c, t)
  <2> DEFINE i == HeightOf(c, t)
  <2>1. i \in Heights(c) /\ TipAt(c, i) = t
    BY <1>1, TipsDiffer
  <2> HIDE DEF i
  <2>2. i \in Heights(e) /\ TipAt(e, i) = t
    BY <2>1, <1>3, <1>4
  <2>3. HeightOf(e, t) = i
    BY <2>2, <1>1, TipsDiffer
  <2> QED
    BY <2>3 DEF i
<1>10. HeightOf(e, e[Len(e)]) = Len(e)
  BY <1>1, <1>5, <1>6, TipsDiffer
<1> QED
  BY <1>1, <1>2, <1>3, <1>4, <1>6, <1>7, <1>8, <1>9, <1>10

TablesGrowBy(c, e, P, Q) ==
    LET n == Len(e)
        b == e[Len(e)]
    IN  /\ Checkpoints(e, Q) = With(Checkpoints(c, P), TipEntry(b, Q[n], n))
        /\ Checkpoints(c, P) = Without(Checkpoints(e, Q), {b})
        /\ SeqToTip(e) = With(SeqToTip(c), SeqEntry(n, b))
        /\ SeqToTip(c) = Without(SeqToTip(e), {n})
        /\ PosToSeq(e, Q) = PosToSeq(c, P) \cup {<<Q[n], n>>}
        /\ PosToSeq(c, P) = PosToSeq(e, Q) \ {<<Q[n], n>>}

\* Its tables are the others with one entry more.
LEMMA TablesGrow ==
    ASSUME NEW c, NEW e, NEW P, NEW Q, OneMore(c, e), OneMorePosition(c, e, P, Q)
    PROVE  TablesGrowBy(c, e, P, Q)
<1> DEFINE n == Len(e)
           b == e[Len(e)]
           one == [t \in {b} |-> [pos |-> Q[n], seq |-> n]]
           tip == [s \in {n} |-> b]
<1>1. /\ n \notin Heights(c) /\ Heights(e) = Heights(c) \cup {n}
      /\ \A i \in Heights(c) : TipAt(e, i) = TipAt(c, i)
      /\ TipAt(e, n) = b /\ b \notin Tips(c) /\ Tips(e) = Tips(c) \cup {b}
      /\ \A t \in Tips(c) : HeightOf(e, t) = HeightOf(c, t)
      /\ HeightOf(e, b) = n
  BY TipsGrow
<1>2. \A i \in Heights(c) : Q[i] = P[i]
  BY DEF OneMorePosition
<1>3. \A t \in Tips(c) : HeightOf(c, t) \in Heights(c)
  BY TipsDiffer DEF OneMore
<1> HIDE DEF n, b
<1>4. ASSUME NEW t \in Tips(c)
      PROVE  Checkpoints(e, Q)[t] = Checkpoints(c, P)[t]
  BY <1>1, <1>2, <1>3 DEF Checkpoints
<1>5. Checkpoints(e, Q)[b] = [pos |-> Q[n], seq |-> n]
  BY <1>1 DEF Checkpoints
<1>6. /\ DOMAIN Checkpoints(e, Q) = Tips(e) /\ DOMAIN Checkpoints(c, P) = Tips(c)
      /\ Checkpoints(e, Q) = [t \in Tips(e) |-> Checkpoints(e, Q)[t]]
      /\ Checkpoints(c, P) = [t \in Tips(c) |-> Checkpoints(c, P)[t]]
      /\ DOMAIN one = {b} /\ one[b] = [pos |-> Q[n], seq |-> n]
  BY DEF Checkpoints
<1>7. Checkpoints(e, Q) = With(Checkpoints(c, P), one)
  <2> DEFINE F == Checkpoints(e, Q)
             G == Checkpoints(c, P)
  <2> HIDE DEF F, G, one
  <2>1. F = [t \in Tips(e) |-> F[t]] /\ DOMAIN G = Tips(c) /\ DOMAIN one = {b}
    BY <1>6 DEF F, G
  <2>2. \A t \in Tips(e) : F[t] = IF t \in {b} THEN one[t] ELSE G[t]
    BY <1>1, <1>4, <1>5, <1>6 DEF F, G
  <2>3. With(G, one) = [t \in Tips(e) |-> IF t \in {b} THEN one[t] ELSE G[t]]
    BY <2>1, <1>1 DEF With
  <2>4. F = With(G, one)
    BY <2>1, <2>2, <2>3
  <2> QED
    BY <2>4 DEF F, G
<1>8. Checkpoints(c, P) = Without(Checkpoints(e, Q), {b})
  <2> DEFINE F == Checkpoints(e, Q)
             G == Checkpoints(c, P)
  <2> HIDE DEF F, G
  <2>1. G = [t \in Tips(c) |-> G[t]] /\ DOMAIN F = Tips(e)
    BY <1>6 DEF F, G
  <2>2. \A t \in Tips(c) : F[t] = G[t]
    BY <1>4 DEF F, G
  <2>3. Without(F, {b}) = [t \in Tips(c) |-> F[t]]
    BY <2>1, <1>1 DEF Without
  <2>4. G = Without(F, {b})
    BY <2>1, <2>2, <2>3
  <2> QED
    BY <2>4 DEF F, G
<1>9. SeqToTip(e) = With(SeqToTip(c), tip) /\ SeqToTip(c) = Without(SeqToTip(e), {n})
  BY <1>1 DEF SeqToTip, With, Without
<1>10. PosToSeq(e, Q) = PosToSeq(c, P) \cup {<<Q[n], n>>}
  BY <1>1, <1>2 DEF PosToSeq
<1>11. PosToSeq(c, P) = PosToSeq(e, Q) \ {<<Q[n], n>>}
  <2>1. <<Q[n], n>> \notin PosToSeq(c, P)
    <3>1. ASSUME NEW i \in Heights(c), <<Q[n], n>> = <<P[i], i>>
          PROVE  FALSE
      BY <3>1, <1>1
    <3> QED
      BY <3>1 DEF PosToSeq
  <2> QED
    BY <2>1, <1>10
<1> QED
  BY <1>7, <1>8, <1>9, <1>10, <1>11 DEF n, b, TipEntry, SeqEntry, TablesGrowBy

\* Without truncation, flush adds to the database what is new in the cache; no
\* shard is dropped.
LEMMA FlushAdds ==
    ASSUME NEW d, NEW cache, cache.deferred = << >>
    PROVE  /\ FlushFails(d, cache) <=> \E id \in cache.ids : AddFails(d, id)
           /\ Flush(d, cache) =
                 AddCheckpoints([d EXCEPT !.shards =
                     cache.shards \o SubSeq(d.shards, Len(cache.shards) + 1, Len(d.shards))],
                     cache.ids)
<1>1. Replay(d, cache) = d
  BY DEF Replay
<1> QED
  BY <1>1 DEF Flush, FlushFails

\* The shards that are put replace all that there are, if there are not more.
LEMMA NoneKept ==
    ASSUME NEW A, NEW new \in Seq(A), NEW old \in Seq(A), Len(old) <= Len(new)
    PROVE  new \o SubSeq(old, Len(new) + 1, Len(old)) = new
<1>1. Len(new) \in Nat /\ Len(old) \in Nat
  BY LenProperties
<1>2. Len(new) + 1 \in Int /\ Len(old) \in Int /\ Len(old) < Len(new) + 1
  BY <1>1
<1>3. SubSeq(old, Len(new) + 1, Len(old)) = << >>
  BY <1>2, SubSeqEmpty
<1> QED
  BY <1>3, ConcatEmptySeq

\* More leaves are not in fewer shards.
LEMMA CountGrows ==
    ASSUME NEW k \in Nat, NEW l \in Nat, k <= l
    PROVE  Count(k) \in Nat /\ Count(l) \in Nat /\ Count(k) <= Count(l)
<1>1. /\ Count(k) \in Nat /\ Count(l) \in Nat /\ l <= Base(Count(l))
      /\ k = 0 => Count(k) = 0
      /\ k > 0 => Count(k) >= 1 /\ Base(Count(k) - 1) < k
  BY CountIs
<1>2. CASE k = 0
  BY <1>1, <1>2
<1>3. CASE k > 0
  <2> DEFINE q == Count(k) - 1
             m == Count(l)
  <2>1. q \in Nat /\ m \in Nat /\ Base(q) < k /\ l <= Base(m)
    BY <1>1, <1>3
  <2> HIDE DEF q, m
  <2>2. Base(q) \in Nat /\ Base(m) \in Nat /\ (m < q => Base(m) + SHARD_SIZE <= Base(q))
    BY <2>1, BaseIs
  <2>3. SHARD_SIZE \in Nat
    BY SizeAssumption
  <2>4. q < m
    BY <2>1, <2>2, <2>3
  <2> QED
    BY <2>1, <2>4, <1>1 DEF q, m
<1> QED
  BY <1>2, <1>3

\* The chain, leaves and positions after a block is connected.
PositionsWith(c, P, l) == [i \in 0 .. Len(c) + 1 |-> IF i = Len(c) + 1 THEN l ELSE P[i]]

\* They are those of a chain with one more block.
LEMMA GoodGrows ==
    ASSUME NEW c, NEW L, NEW P, Good(c, L, P), NEW b \in WalletBlock, b \notin Range(c),
           NEW K \in Seq(Leaf)
    PROVE  LET e == Append(c, b)
               Q == PositionsWith(c, P, Len(L \o K))
           IN  /\ Good(e, L \o K, Q)
               /\ OneMore(c, e) /\ OneMorePosition(c, e, P, Q)
               /\ e[Len(e)] = b /\ Len(e) = Len(c) + 1 /\ Q[Len(e)] = Len(L \o K)
<1> DEFINE e == Append(c, b)
           M == L \o K
           Q == PositionsWith(c, P, Len(M))
           n == Len(c)
<1>1. /\ c \in Seq(WalletBlock) /\ \A i, j \in 1..n : c[i] = c[j] => i = j
      /\ L \in Seq(Leaf) /\ n \in Nat /\ Len(L) \in Nat
  BY LenProperties DEF Good, IsChain
<1>2. e \in Seq(WalletBlock) /\ Len(e) = n + 1 /\ e[n + 1] = b /\ \A i \in 1..n : e[i] = c[i]
  BY <1>1
<1>3. \A i \in 1..n : c[i] # b
  BY <1>1 DEF Range
<1>4. M \in Seq(Leaf) /\ Len(M) \in Nat /\ Len(L) <= Len(M)
  <2>1. M \in Seq(Leaf) /\ Len(M) = Len(L) + Len(K) /\ Len(K) \in Nat
    BY <1>1, ConcatProperties, LenProperties
  <2> QED
    BY <2>1, <1>1
<1> HIDE DEF e, M
<1>5. IsChain(e)
  <2>1. \A i \in 1..Len(e) : i \in 1..n \/ i = n + 1
    BY <1>1, <1>2
  <2>2. ASSUME NEW i \in 1..Len(e), NEW j \in 1..Len(e), e[i] = e[j]
        PROVE  i = j
    BY <2>1, <2>2, <1>1, <1>2, <1>3
  <2> QED
    BY <2>2, <1>2 DEF IsChain
<1>6. OneMore(c, e)
  BY <1>1, <1>2, <1>5 DEF OneMore, Good
<1>7. /\ P \in [0..n -> Nat] /\ P[0] = 0 /\ P[n] = Len(L)
      /\ \A i, j \in 0..n : i <= j => P[i] <= P[j]
  BY DEF Good, IsPositions, Heights
<1>8. Q = [i \in 0 .. n + 1 |-> IF i = n + 1 THEN Len(M) ELSE P[i]]
  BY DEF PositionsWith
<1> HIDE DEF n, Q
<1>9. /\ \A i \in 0..n : i \in 0 .. n + 1 /\ i # n + 1 /\ i <= n
      /\ \A i \in 0 .. n + 1 : i \in 0..n \/ i = n + 1
      /\ n \in 0..n /\ 0 \in 0..n /\ n + 1 \in 0 .. n + 1
  BY <1>1 DEF n
<1>10. Q[n + 1] = Len(M) /\ \A i \in 0..n : Q[i] = P[i]
  BY <1>8, <1>9
<1>11. Q \in [0 .. n + 1 -> Nat] /\ Q[0] = 0
  BY <1>4, <1>7, <1>8, <1>9, <1>10
<1>12. \A i \in 0..n : P[i] \in Nat /\ P[i] <= Len(M)
  BY <1>7, <1>9, <1>4, <1>1
<1>13. ASSUME NEW i \in 0 .. n + 1, NEW j \in 0 .. n + 1, i <= j
       PROVE  Q[i] <= Q[j]
  <2>1. CASE j = n + 1 /\ i = n + 1
    BY <2>1, <1>10, <1>4
  <2>2. CASE j = n + 1 /\ i \in 0..n
    BY <2>2, <1>10, <1>12
  <2>3. CASE j \in 0..n
    <3>1. i \in 0..n
      BY <2>3, <1>13, <1>1, <1>9 DEF n
    <3> QED
      BY <3>1, <2>3, <1>13, <1>10, <1>7
  <2> QED
    BY <2>1, <2>2, <2>3, <1>9
<1>14. Heights(e) = 0 .. n + 1 /\ Heights(c) = 0..n /\ Len(e) = n + 1
  BY <1>2 DEF Heights, n
<1>15. IsPositions(e, M, Q)
  BY <1>10, <1>11, <1>13, <1>14 DEF IsPositions
<1>16. OneMorePosition(c, e, P, Q)
  BY <1>7, <1>10, <1>11, <1>14 DEF OneMorePosition
<1>17. Good(e, M, Q)
  BY <1>4, <1>5, <1>15 DEF Good
<1>18. e[Len(e)] = b /\ Len(e) = Len(c) + 1 /\ Q[Len(e)] = Len(M)
  BY <1>2, <1>10, <1>14 DEF n
<1> QED
  BY <1>6, <1>16, <1>17, <1>18 DEF e, M, Q

\* The tables are those of the store.
LEMMA StoreTables ==
    ASSUME NEW c, NEW L, NEW P
    PROVE  Store(c, L, P) = Tables(Shards(L), Checkpoints(c, P), SeqToTip(c), PosToSeq(c, P))
BY DEF Store, Tables

\* A checkpoint that is in the tables can be added again.
LEMMA AddsAgain ==
    ASSUME NEW c, NEW L, NEW P, Good(c, L, P), NEW d, d.checkpoints = Checkpoints(c, P),
           NEW i \in Heights(c)
    PROVE  ~AddFails(d, IdAt(c, P, i)) /\ IdAt(c, P, i).tip = TipAt(c, i)
           /\ TipAt(c, i) \in DOMAIN d.checkpoints
<1> DEFINE s == Store(c, L, P)
<1>1. s = Store(c, L, P)
  OBVIOUS
<1> HIDE DEF s
<1>2. /\ s.checkpoints = Checkpoints(c, P) /\ DOMAIN s.checkpoints = Tips(c)
      /\ s.checkpoints[TipAt(c, i)].pos = P[i]
  BY <1>1, StoreIs
<1>3. IdAt(c, P, i).tip = TipAt(c, i) /\ IdAt(c, P, i).pos = P[i]
  BY DEF IdAt, CheckpointId
<1>4. TipAt(c, i) \in Tips(c)
  BY DEF Tips
<1> QED
  BY <1>2, <1>3, <1>4 DEF AddFails

\* The next number is the next height.
LEMMA NextSeqIs ==
    ASSUME NEW c, NEW L, NEW P, Good(c, L, P), NEW d, d = Store(c, L, P)
    PROVE  NextCheckpointSeq(d) = Len(c) + 1
<1>1. DOMAIN d.checkpoint_seq_to_tip = 0..Len(c)
  BY StoreIs DEF Heights
<1>2. Len(c) \in Nat
  BY TipsDiffer DEF Good
<1>3. /\ Len(c) \in 0..Len(c) /\ \A y \in 0..Len(c) : Len(c) >= y
      /\ \A x \in 0..Len(c) : (\A y \in 0..Len(c) : x >= y) => x = Len(c)
  BY <1>2
<1>4. Max(0..Len(c)) \in 0..Len(c) /\ \A y \in 0..Len(c) : Max(0..Len(c)) >= y
  BY <1>3 DEF Max
<1>5. Max(0..Len(c)) = Len(c)
  BY <1>3, <1>4
<1> QED
  BY <1>1, <1>5 DEF NextCheckpointSeq

\* What connect_orchard_block does to the database of a chain: nothing fails,
\* and it is the database of the chain with the block.
LEMMA ConnectStores ==
    ASSUME NEW c, NEW L, NEW P, Good(c, L, P), NEW d, d = Store(c, L, P),
           NEW b \in WalletBlock, b \notin Range(c), NEW K \in Seq(Leaf)
    PROVE  LET shards == AppendLeaves(Load(d).shards, K)
               id == CheckpointId(TreeState(shards), NextCheckpointSeq(d), b)
               cache == AddToCache([Load(d) EXCEPT !.shards = shards], id)
           IN  /\ ~FlushFails(d, cache)
               /\ Flush(d, cache) =
                     Store(Append(c, b), L \o K, PositionsWith(c, P, Len(L \o K)))
<1> DEFINE shards == AppendLeaves(Load(d).shards, K)
           id == CheckpointId(TreeState(shards), NextCheckpointSeq(d), b)
           loaded == [Load(d) EXCEPT !.shards = shards]
           cache == AddToCache(loaded, id)
           e == Append(c, b)
           M == L \o K
           Q == PositionsWith(c, P, Len(L \o K))
           old == {IdAt(c, P, i) : i \in Heights(c)}
<1>1. /\ Good(e, M, Q) /\ OneMore(c, e) /\ OneMorePosition(c, e, P, Q)
      /\ e[Len(e)] = b /\ Len(e) = Len(c) + 1 /\ Q[Len(e)] = Len(M)
  BY GoodGrows
<1>2. L \in Seq(Leaf) /\ M \in Seq(Leaf) /\ Len(L) \in Nat /\ Len(M) \in Nat /\ Len(L) <= Len(M)
  <2>1. L \in Seq(Leaf) /\ M \in Seq(Leaf)
    BY <1>1 DEF Good
  <2>2. Len(M) = Len(L) + Len(K) /\ Len(L) \in Nat /\ Len(K) \in Nat
    BY <2>1, ConcatProperties, LenProperties
  <2> QED
    BY <2>1, <2>2
<1>3. d.shards = Shards(L) /\ CheckpointIds(d) = old
  BY StoreIs, IdsAre
<1>4. Load(d) = [shards |-> Shards(L), ids |-> old, deferred |-> << >>]
  BY <1>3 DEF Load
<1>5. shards = Shards(M)
  <2>1. Load(d).shards = Shards(L)
    BY <1>4
  <2>2. LeavesOf(Shards(L)) = L
    BY <1>2, LeavesOfShards
  <2> QED
    BY <2>1, <2>2 DEF AppendLeaves
<1>6. id = CheckpointId(Len(M), Len(e), b)
  <2>1. TreeState(shards) = Len(M)
    BY <1>2, <1>5, TreeStateOfShards
  <2>2. NextCheckpointSeq(d) = Len(e)
    BY <1>1, NextSeqIs
  <2> QED
    BY <2>1, <2>2
<1> HIDE DEF shards, e, M, Q, id
<1>7. loaded = [shards |-> Shards(M), ids |-> old, deferred |-> << >>]
  <2> HIDE DEF old
  <2> QED
    BY <1>4, <1>5
<1>8. id.tip = b /\ id.pos = Len(M) /\ id.seq = Len(e)
  BY <1>6 DEF CheckpointId
<1>9. \A other \in old : CheckpointBefore(other, id)
  <2>1. ASSUME NEW i \in Heights(c)
        PROVE  CheckpointBefore(IdAt(c, P, i), id)
    <3>1. P[i] \in Nat /\ P[i] <= Len(L)
      BY StoreIs
    <3>2. i \in Nat /\ i < Len(e)
      BY <1>1, TipsGrow DEF Heights
    <3>3. IdAt(c, P, i).pos = P[i] /\ IdAt(c, P, i).seq = i
      BY DEF IdAt, CheckpointId
    <3>4. P[i] < Len(M) \/ P[i] = Len(M)
      BY <3>1, <1>2
    <3> QED
      BY <3>2, <3>3, <3>4, <1>8 DEF CheckpointBefore
  <2> QED
    BY <2>1
<1>10. cache = [shards |-> Shards(M), ids |-> old \cup {id}, deferred |-> << >>]
  <2> HIDE DEF old, loaded
  <2>1. loaded.ids = old
    BY <1>7
  <2>2. cache = [loaded EXCEPT !.ids = @ \cup {id}]
    BY <2>1, <1>9 DEF AddToCache
  <2> QED
    BY <2>2, <1>7
<1> HIDE DEF cache
<1>11. cache.shards = Shards(M) /\ cache.ids = old \cup {id} /\ cache.deferred = << >>
  <2> HIDE DEF old
  <2> QED
    BY <1>10
<1>12. DOMAIN d.checkpoints = Tips(c) /\ d.checkpoints = Checkpoints(c, P)
  BY StoreIs
<1>13. b \notin Tips(c)
  BY <1>1, TipsGrow
<1>14. ~FlushFails(d, cache)
  <2>1. ~AddFails(d, id)
    BY <1>8, <1>12, <1>13 DEF AddFails
  <2>2. \A i \in Heights(c) : ~AddFails(d, IdAt(c, P, i))
    BY <1>12, AddsAgain
  <2>3. \A x \in cache.ids : ~AddFails(d, x)
    BY <2>1, <2>2, <1>11
  <2> QED
    BY <2>3, <1>11, FlushAdds
<1>15. [d EXCEPT !.shards = cache.shards \o SubSeq(d.shards, Len(cache.shards) + 1, Len(d.shards))]
         = Tables(Shards(M), Checkpoints(c, P), SeqToTip(c), PosToSeq(c, P))
  <2> DEFINE X == cache.shards \o SubSeq(d.shards, Len(cache.shards) + 1, Len(d.shards))
  <2>1. /\ Shards(L) \in Seq(Seq(Leaf)) /\ Len(Shards(L)) = Count(Len(L))
        /\ Shards(M) \in Seq(Seq(Leaf)) /\ Len(Shards(M)) = Count(Len(M))
    BY <1>2, ShardsAre
  <2>2. Len(Shards(L)) <= Len(Shards(M))
    BY <2>1, <1>2, CountGrows
  <2>3. X = Shards(M)
    BY <2>1, <2>2, <1>3, <1>11, NoneKept
  <2> HIDE DEF X
  <2>4. [d EXCEPT !.shards = X] = Tables(X, Checkpoints(c, P), SeqToTip(c), PosToSeq(c, P))
    BY StoreTables, TablesAre
  <2> QED
    BY <2>3, <2>4 DEF X
<1>16. {x \in old \cup {id} : x.tip \notin DOMAIN Checkpoints(c, P)} = {id}
  <2>1. \A i \in Heights(c) : IdAt(c, P, i).tip \in DOMAIN Checkpoints(c, P)
    <3>1. \A i \in Heights(c) : IdAt(c, P, i).tip = TipAt(c, i)
      BY DEF IdAt, CheckpointId
    <3>2. \A i \in Heights(c) : TipAt(c, i) \in Tips(c)
      BY DEF Tips
    <3> QED
      BY <3>1, <3>2, <1>12
  <2> QED
    BY <2>1, <1>8, <1>12, <1>13
<1>17. Flush(d, cache) =
          Tables(Shards(M), With(Checkpoints(c, P), TipEntry(b, Len(M), Len(e))),
                 With(SeqToTip(c), SeqEntry(Len(e), b)), PosToSeq(c, P) \cup {<<Len(M), Len(e)>>})
  <2> HIDE DEF old
  <2>1. Flush(d, cache) =
           AddCheckpoints(Tables(Shards(M), Checkpoints(c, P), SeqToTip(c), PosToSeq(c, P)), old \cup {id})
    BY <1>11, <1>15, FlushAdds
  <2> DEFINE ids == old \cup {id}
             cp == Checkpoints(c, P)
             st == SeqToTip(c)
             ps == PosToSeq(c, P)
             sh == Shards(M)
  <2>2. OnlyNew(cp, ids, id)
    BY <1>16 DEF OnlyNew
  <2> HIDE DEF ids, cp, st, ps, sh
  <2>3. AddCheckpoints(Tables(sh, cp, st, ps), ids) = TablesWith(sh, cp, st, ps, id)
    BY <2>2, AddOne
  <2> QED
    BY <2>1, <2>3, <1>8 DEF ids, cp, st, ps, sh, TablesWith
<1>18. /\ Checkpoints(e, Q) = With(Checkpoints(c, P), TipEntry(b, Len(M), Len(e)))
       /\ SeqToTip(e) = With(SeqToTip(c), SeqEntry(Len(e), b))
       /\ PosToSeq(e, Q) = PosToSeq(c, P) \cup {<<Len(M), Len(e)>>}
  <2>1. /\ Checkpoints(e, Q) = With(Checkpoints(c, P), TipEntry(e[Len(e)], Q[Len(e)], Len(e)))
        /\ SeqToTip(e) = With(SeqToTip(c), SeqEntry(Len(e), e[Len(e)]))
        /\ PosToSeq(e, Q) = PosToSeq(c, P) \cup {<<Q[Len(e)], Len(e)>>}
    <3>1. OneMore(c, e) /\ OneMorePosition(c, e, P, Q)
      BY <1>1
    <3>2. TablesGrowBy(c, e, P, Q)
      BY <3>1, TablesGrow
    <3> QED
      BY <3>2 DEF TablesGrowBy
  <2> QED
    BY <2>1, <1>1
<1>19. Flush(d, cache) = Store(e, M, Q)
  BY <1>17, <1>18, StoreTables
<1> QED
  BY <1>14, <1>19 DEF cache, id, shards, e, M, Q

PositionsFront(c, Q) == [i \in Heights(c) |-> Q[i]]

\* The chain without its last block is a chain, with the leaves up to its tip.
LEMMA GoodShrinks ==
    ASSUME NEW e, NEW L, NEW Q, Good(e, L, Q), e # << >>
    PROVE  LET c == Front(e)
               P == PositionsFront(c, Q)
           IN  /\ Good(c, SubSeq(L, 1, Q[Len(c)]), P)
               /\ OneMore(c, e) /\ OneMorePosition(c, e, P, Q)
               /\ Len(c) \in Heights(e) /\ Len(c) \in Heights(c) /\ Q[Len(c)] \in 0..Len(L)
<1> DEFINE c == Front(e)
           P == PositionsFront(c, Q)
           n == Len(e)
           K == SubSeq(L, 1, Q[Len(c)])
<1>1. e \in Seq(WalletBlock) /\ n \in Nat /\ n > 0 /\ L \in Seq(Leaf) /\ Len(L) \in Nat
  <2>1. e \in Seq(WalletBlock) /\ L \in Seq(Leaf)
    BY DEF Good, IsChain
  <2>2. n \in Nat \ {0} /\ Len(L) \in Nat
    BY <2>1, EmptySeq, LenProperties
  <2> QED
    BY <2>1, <2>2
<1>2. \A i, j \in 1..n : e[i] = e[j] => i = j
  BY DEF Good, IsChain
<1>3. c \in Seq(WalletBlock) /\ Len(c) = n - 1 /\ \A i \in 1 .. n - 1 : c[i] = e[i]
  <2>1. \A i \in 1 .. n - 1 : e[i] \in WalletBlock
    BY <1>1, ElementOfSeq
  <2>2. n - 1 \in Int /\ 1 \in Int
    BY <1>1
  <2>3. /\ SubSeq(e, 1, n - 1) \in Seq(WalletBlock)
        /\ Len(SubSeq(e, 1, n - 1)) = IF 1 <= n - 1 THEN (n - 1) - 1 + 1 ELSE 0
        /\ \A i \in 1 .. (n - 1) - 1 + 1 : SubSeq(e, 1, n - 1)[i] = e[1 + i - 1]
    BY <2>1, <2>2, SubSeqProperties
  <2>4. \A i \in 1 .. n - 1 : i \in 1 .. (n - 1) - 1 + 1 /\ 1 + i - 1 = i
    BY <1>1
  <2>5. c = SubSeq(e, 1, n - 1)
    BY DEF Front
  <2> HIDE DEF c
  <2>6. c \in Seq(WalletBlock) /\ Len(c) = IF 1 <= n - 1 THEN (n - 1) - 1 + 1 ELSE 0
    BY <2>3, <2>5
  <2>7. Len(c) = n - 1
    <3> HIDE DEF n
    <3> QED
      BY <2>6, <1>1
  <2>8. \A i \in 1 .. n - 1 : c[i] = e[i]
    <3> TAKE i \in 1 .. n - 1
    <3>1. c[i] = e[1 + i - 1]
      BY <2>3, <2>4, <2>5
    <3> QED
      BY <3>1, <2>4
  <2> QED
    BY <2>6, <2>7, <2>8
<1> HIDE DEF c
<1>4. IsChain(c)
  <2>1. \A i \in 1..Len(c) : i \in 1..n /\ c[i] = e[i]
    BY <1>1, <1>3
  <2> QED
    BY <2>1, <1>2, <1>3 DEF IsChain
<1>5. OneMore(c, e)
  <2>1. Len(e) = Len(c) + 1 /\ \A i \in 1..Len(c) : e[i] = c[i]
    BY <1>1, <1>3
  <2> QED
    BY <2>1, <1>4 DEF OneMore, Good
<1>6. Len(c) \in Nat /\ Heights(e) = Heights(c) \cup {Len(e)} /\ 0 \in Heights(c) /\ Len(c) \in Heights(c)
  <2>1. Len(c) \in Nat /\ Heights(e) = Heights(c) \cup {Len(e)}
    BY <1>5, TipsGrow
  <2> QED
    BY <2>1 DEF Heights
<1>7. /\ Q \in [Heights(e) -> Nat] /\ Q[0] = 0 /\ Q[Len(e)] = Len(L)
      /\ \A i, j \in Heights(e) : i <= j => Q[i] <= Q[j]
  BY DEF Good, IsPositions
<1>8. OneMorePosition(c, e, P, Q)
  BY <1>6, <1>7 DEF OneMorePosition, PositionsFront
<1>9. Q[Len(c)] \in 0..Len(L)
  <2>1. Len(c) \in Heights(e) /\ Len(e) \in Heights(e) /\ Len(c) <= Len(e)
    BY <1>1, <1>3, <1>6
  <2>2. Q[Len(c)] \in Nat /\ Q[Len(c)] <= Len(L)
    BY <2>1, <1>7
  <2> QED
    BY <2>2, <1>1
<1>10. K \in Seq(Leaf) /\ Len(K) = Q[Len(c)]
  BY <1>1, <1>9, CutIs
<1> HIDE DEF K
<1>11. IsPositions(c, K, P)
  <2>1. \A i \in Heights(c) : i \in Heights(e) /\ P[i] = Q[i]
    BY <1>6 DEF PositionsFront
  <2>2. P \in [Heights(c) -> Nat]
    BY <2>1, <1>7 DEF PositionsFront
  <2>3. P[0] = 0 /\ P[Len(c)] = Len(K)
    BY <2>1, <1>6, <1>7, <1>10
  <2> HIDE DEF P
  <2> QED
    BY <2>1, <2>2, <2>3, <1>7 DEF IsPositions
<1>12. Good(c, K, P)
  BY <1>4, <1>10, <1>11 DEF Good
<1>13. Len(c) \in Heights(e)
  BY <1>6
<1> QED
  BY <1>5, <1>6, <1>8, <1>9, <1>12, <1>13 DEF c, K

\* After the checkpoint of the block before the tip there is that of the tip.
LEMMA TruncateDropsTip ==
    ASSUME NEW c, NEW e, NEW L, NEW Q, Good(e, L, Q), NEW d, d = Store(e, L, Q),
           NEW P, OneMore(c, e), OneMorePosition(c, e, P, Q)
    PROVE  TruncateCheckpointsRetaining(d, IdAt(e, Q, Len(c))) =
              Tables(Shards(L), Checkpoints(c, P), SeqToTip(c), PosToSeq(c, P))
<1> DEFINE id == IdAt(e, Q, Len(c))
           n == Len(e)
           after == AfterCheckpoint(d, id)
           seqs == {ps[2] : ps \in after}
           gone == {d.checkpoint_seq_to_tip[s] : s \in seqs}
<1>1. /\ Len(c) \in Nat /\ n = Len(c) + 1 /\ Heights(e) = Heights(c) \cup {n}
      /\ TipAt(e, n) = e[n]
  BY TipsGrow
<1>2. Len(c) \in Heights(e) /\ n \in Heights(e) /\ Heights(e) \subseteq Nat /\ \A i \in Heights(e) : i <= n
  BY <1>1 DEF Heights
<1>3. id.pos = Q[Len(c)] /\ id.seq = Len(c)
  BY DEF IdAt, CheckpointId
<1>4. /\ d.position_to_checkpoint_seq = PosToSeq(e, Q)
      /\ d.checkpoint_seq_to_tip[n] = e[n]
      /\ \A i \in Heights(e) : Q[i] \in Nat
  BY <1>1, <1>2, StoreIs
<1>5. \A i, j \in Heights(e) : i <= j => Q[i] <= Q[j]
  BY DEF Good, IsPositions
<1>6. ASSUME NEW i \in Heights(e)
      PROVE  (Q[i] > id.pos \/ (Q[i] = id.pos /\ i > id.seq)) <=> i = n
  <2>1. Q[i] \in Nat /\ Q[Len(c)] \in Nat /\ i \in Nat /\ i <= n
    BY <1>2, <1>4
  <2>2. (i <= Len(c) => Q[i] <= Q[Len(c)]) /\ (Len(c) <= i => Q[Len(c)] <= Q[i])
    BY <1>2, <1>5
  <2> QED
    BY <2>1, <2>2, <1>1, <1>3
<1>7. after = {<<Q[n], n>>}
  <2>1. ASSUME NEW ps \in PosToSeq(e, Q)
        PROVE  (ps[1] > id.pos \/ (ps[1] = id.pos /\ ps[2] > id.seq)) <=> ps = <<Q[n], n>>
    <3>1. PICK i \in Heights(e) : ps = <<Q[i], i>>
      BY DEF PosToSeq
    <3>2. ps[1] = Q[i] /\ ps[2] = i /\ (ps = <<Q[n], n>> <=> i = n)
      BY <3>1
    <3> HIDE DEF id
    <3> QED
      BY <3>2, <1>6
  <2>2. <<Q[n], n>> \in PosToSeq(e, Q)
    BY <1>2 DEF PosToSeq
  <2>3. after = {ps \in PosToSeq(e, Q) : ps[1] > id.pos \/ (ps[1] = id.pos /\ ps[2] > id.seq)}
    BY <1>4 DEF AfterCheckpoint
  <2> HIDE DEF after, id
  <2> QED
    BY <2>1, <2>2, <2>3
<1>8. TruncateCheckpointsRetaining(d, id) =
         [d EXCEPT !.checkpoints = Without(@, gone), !.checkpoint_seq_to_tip = Without(@, seqs),
                   !.position_to_checkpoint_seq = @ \ after]
  BY DEF TruncateCheckpointsRetaining
<1> HIDE DEF after, id
<1>9. seqs = {n}
  BY <1>7
<1> HIDE DEF seqs
<1>10. gone = {e[n]}
  BY <1>9, <1>4
<1> HIDE DEF gone
<1>11. TruncateCheckpointsRetaining(d, id) =
          Tables(Shards(L), Without(Checkpoints(e, Q), {e[n]}), Without(SeqToTip(e), {n}),
                 PosToSeq(e, Q) \ {<<Q[n], n>>})
  <2>1. d = Tables(Shards(L), Checkpoints(e, Q), SeqToTip(e), PosToSeq(e, Q))
    BY StoreTables
  <2>2. TruncateCheckpointsRetaining(d, id) =
           Tables(Shards(L), Without(Checkpoints(e, Q), gone), Without(SeqToTip(e), seqs),
                  PosToSeq(e, Q) \ after)
    <3> DEFINE sh == Shards(L)
               cp == Checkpoints(e, Q)
               st == SeqToTip(e)
               ps == PosToSeq(e, Q)
    <3>1. d = Tables(sh, cp, st, ps)
      BY <2>1
    <3> HIDE DEF sh, cp, st, ps
    <3> DEFINE x == Without(cp, gone)
               y == Without(st, seqs)
               z == ps \ after
               r == TruncateCheckpointsRetaining(d, id)
    <3>2. /\ x = Without(d.checkpoints, gone) /\ y = Without(d.checkpoint_seq_to_tip, seqs)
          /\ z = d.position_to_checkpoint_seq \ after
      BY <3>1, TablesAre
    <3> HIDE DEF x, y, z
    <3>3. r = OtherCheckpoints(d, x, y, z)
      BY <3>2, <1>8 DEF OtherCheckpoints
    <3> HIDE DEF r
    <3>4. r = Tables(sh, x, y, z)
      BY <3>1, <3>3, TablesExcept
    <3> QED
      BY <3>4 DEF sh, cp, st, ps, x, y, z, r
  <2> QED
    BY <2>2, <1>7, <1>9, <1>10
<1>12. TablesGrowBy(c, e, P, Q)
  BY TablesGrow
<1>13. /\ Checkpoints(c, P) = Without(Checkpoints(e, Q), {e[n]})
       /\ SeqToTip(c) = Without(SeqToTip(e), {n})
       /\ PosToSeq(c, P) = PosToSeq(e, Q) \ {<<Q[n], n>>}
  BY <1>12 DEF TablesGrowBy
<1> QED
  BY <1>11, <1>13 DEF id

\* What disconnect_orchard_block does to the database of a chain: nothing
\* fails, and it is the database of the chain without its tip.
LEMMA DisconnectStores ==
    ASSUME NEW e, NEW L, NEW Q, Good(e, L, Q), NEW d, d = Store(e, L, Q), e # << >>
    PROVE  LET c == Front(e)
               prev == TipAt(e, Len(c))
               cache == TruncateToCheckpoint(Load(d), GetCheckpointId(d, prev))
           IN  /\ prev \in DOMAIN d.checkpoints
               /\ ~FlushFails(d, cache)
               /\ Flush(d, cache) =
                     Store(c, SubSeq(L, 1, Q[Len(c)]), PositionsFront(c, Q))
<1> DEFINE c == Front(e)
           P == PositionsFront(c, Q)
           pos == Q[Len(c)]
           K == SubSeq(L, 1, pos)
           prev == TipAt(e, Len(c))
           id == IdAt(e, Q, Len(c))
           cache == TruncateToCheckpoint(Load(d), GetCheckpointId(d, prev))
           kept == {IdAt(c, P, i) : i \in Heights(c)}
           index == CutIndex(pos)
           cut == Tables(SubSeq(Shards(L), 1, index), Checkpoints(c, P), SeqToTip(c), PosToSeq(c, P))
<1>1. /\ Good(c, K, P) /\ OneMore(c, e) /\ OneMorePosition(c, e, P, Q)
      /\ Len(c) \in Heights(e) /\ Len(c) \in Heights(c) /\ pos \in 0..Len(L)
  BY GoodShrinks
<1> HIDE DEF c, P
<1>2. /\ L \in Seq(Leaf) /\ CutShards(Shards(L), pos) = Shards(K)
      /\ index \in Nat /\ index <= Count(pos) /\ index <= Count(Len(L))
      /\ K \in Seq(Leaf) /\ Len(K) = pos /\ pos \in Nat
  <2>1. L \in Seq(Leaf)
    BY DEF Good
  <2>2. pos \in Nat
    BY <1>1
  <2> QED
    BY <2>1, <2>2, <1>1, CutIs
<1> HIDE DEF index
<1>3. prev \in DOMAIN d.checkpoints
  <2>1. DOMAIN d.checkpoints = Tips(e)
    BY StoreIs
  <2> QED
    BY <2>1, <1>1 DEF Tips
<1>4. GetCheckpointId(d, prev) = id /\ d.shards = Shards(L)
      /\ CheckpointIds(d) = {IdAt(e, Q, i) : i \in Heights(e)}
  BY <1>1, IdsAre, StoreIs
<1>5. id.pos = pos /\ id.seq = Len(c) /\ id.tip = prev
  BY DEF IdAt, CheckpointId
<1>6. {other \in CheckpointIds(d) : ~CheckpointBefore(id, other)} = kept
  <2>1. \A i \in Heights(e) : CheckpointBefore(id, IdAt(e, Q, i)) <=> Len(c) < i
    BY <1>1, IdsAre
  <2>2. /\ Len(c) \in Nat /\ Len(e) = Len(c) + 1 /\ Heights(e) = Heights(c) \cup {Len(e)}
        /\ \A i \in Heights(c) : TipAt(e, i) = TipAt(c, i)
    BY <1>1, TipsGrow
  <2>3. \A i \in Heights(e) : ~(Len(c) < i) <=> i \in Heights(c)
    BY <2>2 DEF Heights
  <2>4. \A i \in Heights(c) : Q[i] = P[i]
    BY <1>1 DEF OneMorePosition
  <2>5. \A i \in Heights(c) : IdAt(e, Q, i) = IdAt(c, P, i)
    BY <2>2, <2>4 DEF IdAt
  <2> HIDE DEF id
  <2>6. {other \in CheckpointIds(d) : ~CheckpointBefore(id, other)} \subseteq kept
    BY <2>1, <2>3, <2>5, <1>4
  <2>7. kept \subseteq {other \in CheckpointIds(d) : ~CheckpointBefore(id, other)}
    BY <2>1, <2>2, <2>3, <2>5, <1>4
  <2> QED
    BY <2>6, <2>7
<1> HIDE DEF id
<1>7. cache = [shards |-> Shards(K), ids |-> kept, deferred |-> <<[index |-> index, id |-> id]>>]
  <2>1. Load(d).shards = Shards(L) /\ Load(d).ids = CheckpointIds(d)
    BY <1>4 DEF Load
  <2>2. cache = TruncateToCheckpoint(Load(d), id)
    BY <1>4
  <2>3. TruncateToCheckpoint(Load(d), id) =
           [shards |-> CutShards(Load(d).shards, pos),
            ids |-> {other \in Load(d).ids : ~CheckpointBefore(id, other)},
            deferred |-> <<[index |-> CutIndex(pos), id |-> id]>>]
    BY <1>5 DEF TruncateToCheckpoint, CutShards, CutIndex
  <2> HIDE DEF kept
  <2> QED
    BY <2>1, <2>2, <2>3, <1>2, <1>6 DEF index
<1> HIDE DEF cache, kept
<1>8. /\ cache.shards = Shards(K) /\ cache.ids = kept
      /\ cache.deferred # << >> /\ cache.deferred[1].id = id /\ cache.deferred[1].index = index
  BY <1>7
<1>9. Replay(d, cache) = cut
  <2> DEFINE t == TruncateCheckpointsRetaining(d, id)
  <2>1. t = Tables(Shards(L), Checkpoints(c, P), SeqToTip(c), PosToSeq(c, P))
    BY <1>1, TruncateDropsTip DEF id
  <2>2. Replay(d, cache) = [t EXCEPT !.shards = TruncateShards(t.shards, index)]
    BY <1>8 DEF Replay
  <2> HIDE DEF t
  <2>3. t.shards = Shards(L)
    BY <2>1, TablesAre
  <2>4. [t EXCEPT !.shards = SubSeq(Shards(L), 1, index)] = cut
    <3> DEFINE x == SubSeq(Shards(L), 1, index)
    <3> HIDE DEF x
    <3>1. [t EXCEPT !.shards = x] = Tables(x, Checkpoints(c, P), SeqToTip(c), PosToSeq(c, P))
      BY <2>1, TablesAre
    <3> QED
      BY <3>1 DEF x
  <2> QED
    BY <2>2, <2>3, <2>4 DEF TruncateShards
<1>10. cut.shards = SubSeq(Shards(L), 1, index) /\ cut.checkpoints = Checkpoints(c, P)
  BY DEF Tables
<1>11. ~FlushFails(d, cache)
  <2>1. ~TruncateFails(d, id)
    BY <1>3, <1>4, <1>5 DEF TruncateFails
  <2>2. \A i \in Heights(c) : ~AddFails(cut, IdAt(c, P, i))
    <3> HIDE DEF cut, K
    <3> QED
      BY <1>1, <1>10, AddsAgain
  <2>3. \A x \in cache.ids : ~AddFails(Replay(d, cache), x)
    <3> HIDE DEF cut
    <3> QED
      BY <2>2, <1>8, <1>9 DEF kept
  <2> QED
    BY <2>1, <2>3, <1>8 DEF FlushFails
<1>12. Shards(K) \o SubSeq(cut.shards, Len(Shards(K)) + 1, Len(cut.shards)) = Shards(K)
  <2>1. /\ Shards(L) \in Seq(Seq(Leaf)) /\ Len(Shards(L)) = Count(Len(L)) /\ Count(Len(L)) \in Nat
        /\ Shards(K) \in Seq(Seq(Leaf)) /\ Len(Shards(K)) = Count(pos)
    BY <1>2, ShardsAre
  <2>2. cut.shards \in Seq(Seq(Leaf)) /\ Len(cut.shards) = index
    <3>1. \A i \in 1..index : Shards(L)[i] \in Seq(Leaf)
      BY <2>1, <1>2, ElementOfSeq
    <3>2. /\ SubSeq(Shards(L), 1, index) \in Seq(Seq(Leaf))
          /\ Len(SubSeq(Shards(L), 1, index)) = index
      BY <3>1, <1>2, SubSeqProperties
    <3> QED
      BY <3>2, <1>10
  <2> HIDE DEF cut, K
  <2> QED
    BY <2>1, <2>2, <1>2, NoneKept
<1>13. Flush(d, cache) =
          AddCheckpoints(Tables(Shards(K), Checkpoints(c, P), SeqToTip(c), PosToSeq(c, P)), kept)
  <2>1. [cut EXCEPT !.shards = Shards(K)]
           = Tables(Shards(K), Checkpoints(c, P), SeqToTip(c), PosToSeq(c, P))
    BY TablesAre
  <2>2. Flush(d, cache) =
           AddCheckpoints([cut EXCEPT !.shards =
               Shards(K) \o SubSeq(cut.shards, Len(Shards(K)) + 1, Len(cut.shards))], kept)
    <3> HIDE DEF cut, K
    <3> QED
      BY <1>8, <1>9 DEF Flush
  <2> HIDE DEF cut, K
  <2> QED
    BY <2>1, <2>2, <1>12
<1>14. AddCheckpoints(Tables(Shards(K), Checkpoints(c, P), SeqToTip(c), PosToSeq(c, P)), kept)
         = Tables(Shards(K), Checkpoints(c, P), SeqToTip(c), PosToSeq(c, P))
  <2> DEFINE cp == Checkpoints(c, P)
             st == SeqToTip(c)
             ps == PosToSeq(c, P)
             sh == Shards(K)
  <2>1. cp = [x \in DOMAIN cp |-> cp[x]] /\ st = [x \in DOMAIN st |-> st[x]]
    BY DEF Checkpoints, SeqToTip
  <2>2. \A x \in kept : x.tip \in DOMAIN cp
    <3> HIDE DEF cut, K
    <3> QED
      BY <1>1, <1>10, AddsAgain DEF kept
  <2> HIDE DEF cp, st, ps, sh
  <2>3. AddCheckpoints(Tables(sh, cp, st, ps), kept) = Tables(sh, cp, st, ps)
    BY <2>1, <2>2, AddNone
  <2> QED
    BY <2>3 DEF cp, st, ps, sh
<1>15. Flush(d, cache) = Store(c, K, P)
  BY <1>13, <1>14, StoreTables
<1> QED
  BY <1>3, <1>11, <1>15 DEF c, P, cache

-----------------------------------------------------------------------------
(***************************************************************************)
(* The stack of trees.                                                     *)
(***************************************************************************)
\* As many IDs as heights.
LEMMA CountIds ==
    ASSUME NEW c, NEW L, NEW P, Good(c, L, P), NEW k \in 0 .. Len(c) + 1
    PROVE  Cardinality({IdAt(c, P, i) : i \in 0 .. k - 1}) = k
<1> DEFINE T == {IdAt(c, P, i) : i \in 0 .. k - 1}
           f == [i \in 1..k |-> IdAt(c, P, i - 1)]
<1>1. Len(c) \in Nat /\ k \in Nat
  BY TipsDiffer DEF Good
<1>2. \A i \in 1..k : i - 1 \in 0 .. k - 1 /\ i - 1 \in Heights(c)
  BY <1>1 DEF Heights
<1>3. \A i, j \in Heights(c) : IdAt(c, P, i) = IdAt(c, P, j) => i = j
  BY IdsAre
<1>4. f \in Injection(1..k, T)
  <2>1. f \in [1..k -> T]
    BY <1>2
  <2>2. ASSUME NEW i \in 1..k, NEW j \in 1..k, f[i] = f[j]
        PROVE  i = j
    <3>1. i - 1 = j - 1
      BY <2>2, <1>2, <1>3
    <3> QED
      BY <3>1, <1>1
  <2> QED
    BY <2>1, <2>2 DEF Injection, IsInjective
<1>5. f \in Surjection(1..k, T)
  <2>1. f \in [1..k -> T]
    BY <1>2
  <2>2. ASSUME NEW x \in T
        PROVE  \E i \in 1..k : f[i] = x
    <3>1. PICK i \in 0 .. k - 1 : x = IdAt(c, P, i)
      OBVIOUS
    <3>2. i + 1 \in 1..k /\ (i + 1) - 1 = i
      BY <1>1
    <3> QED
      BY <3>1, <3>2
  <2> QED
    BY <2>1, <2>2 DEF Surjection
<1>6. ExistsBijection(1..k, T)
  BY <1>4, <1>5 DEF ExistsBijection, Bijection
<1> HIDE DEF T
<1>7. Cardinality(T) = k
  BY <1>1, <1>6, FS_CountingElements
<1> QED
  BY <1>7 DEF T

\* for_each_checkpoint visits the blocks of the chain in their order.
LEMMA InOrder ==
    ASSUME NEW c, NEW L, NEW P, Good(c, L, P), NEW d, d = Store(c, L, P)
    PROVE  /\ ForEachCheckpoint(d) = [i \in 1 .. Len(c) + 1 |-> IdAt(c, P, i - 1)]
           /\ Len(c) \in Nat
<1> DEFINE ids == CheckpointIds(d)
           n == Len(c) + 1
           First(x) == {other \in ids : CheckpointBefore(other, x)}
<1>1. Len(c) \in Nat /\ Heights(c) = 0 .. n - 1 /\ n \in Nat /\ n \in 0..n
  <2>1. Len(c) \in Nat
    BY TipsDiffer DEF Good
  <2> QED
    BY <2>1 DEF Heights
<1>2. ids = {IdAt(c, P, i) : i \in Heights(c)}
  BY IdsAre
<1>3. Cardinality(ids) = n
  <2>1. Cardinality({IdAt(c, P, i) : i \in 0 .. n - 1}) = n
    BY <1>1, CountIds
  <2> QED
    BY <2>1, <1>1, <1>2
<1>4. ASSUME NEW k \in Heights(c)
      PROVE  Cardinality(First(IdAt(c, P, k))) = k
  <2>1. \A i \in Heights(c) : CheckpointBefore(IdAt(c, P, i), IdAt(c, P, k)) <=> i < k
    BY IdsAre
  <2>2. \A i \in Heights(c) : i < k <=> i \in 0 .. k - 1
    BY <1>1
  <2>3. \A i \in 0 .. k - 1 : i \in Heights(c)
    BY <1>1
  <2>4. First(IdAt(c, P, k)) = {IdAt(c, P, i) : i \in 0 .. k - 1}
    <3>1. ASSUME NEW x \in First(IdAt(c, P, k))
          PROVE  x \in {IdAt(c, P, i) : i \in 0 .. k - 1}
      <4>1. PICK i \in Heights(c) : x = IdAt(c, P, i)
        BY <3>1, <1>2
      <4> QED
        BY <4>1, <2>1, <2>2
    <3>2. ASSUME NEW i \in 0 .. k - 1
          PROVE  IdAt(c, P, i) \in First(IdAt(c, P, k))
      BY <2>1, <2>2, <2>3, <1>2
    <3> HIDE DEF First
    <3> QED
      BY <3>1, <3>2
  <2>5. k \in 0 .. Len(c) + 1
    BY <1>1
  <2> QED
    BY <2>4, <2>5, CountIds
<1> HIDE DEF First
<1>5. ASSUME NEW i \in 1..n
      PROVE  (CHOOSE id \in ids : Cardinality(First(id)) = i - 1) = IdAt(c, P, i - 1)
  <2>1. i - 1 \in Heights(c)
    BY <1>1
  <2>2. IdAt(c, P, i - 1) \in ids /\ Cardinality(First(IdAt(c, P, i - 1))) = i - 1
    BY <2>1, <1>2, <1>4
  <2>3. ASSUME NEW id \in ids, Cardinality(First(id)) = i - 1
        PROVE  id = IdAt(c, P, i - 1)
    <3>1. PICK k \in Heights(c) : id = IdAt(c, P, k)
      BY <1>2
    <3>2. k = i - 1
      BY <3>1, <2>3, <1>4
    <3> QED
      BY <3>1, <3>2
  <2> HIDE DEF ids
  <2> QED
    BY <2>2, <2>3
<1>6. ForEachCheckpoint(d) =
         [i \in 1..n |-> CHOOSE id \in ids : Cardinality(First(id)) = i - 1]
  BY <1>3 DEF ForEachCheckpoint, First
<1> QED
  BY <1>1, <1>5, <1>6

Stacked(c, L, P) ==
    [i \in 1 .. Len(c) + 1 |-> [tip |-> TipAt(c, i - 1), leaves |-> SubSeq(L, 1, P[i - 1])]]

\* The stack that the database implements: the leaves up to each block.
LEMMA StackIs ==
    ASSUME NEW c, NEW L, NEW P, Good(c, L, P), NEW d, d = Store(c, L, P)
    PROVE  StackOf(d) = Stacked(c, L, P)
<1> DEFINE ids == ForEachCheckpoint(d)
           n == Len(c) + 1
<1>1. ids = [i \in 1..n |-> IdAt(c, P, i - 1)] /\ n \in Nat /\ Len(c) \in Nat
  BY InOrder
<1>2. LeavesOf(d.shards) = L
  BY StoreReads
<1> HIDE DEF ids
<1>3. DOMAIN ids = 1..n /\ Len(ids) = n
  BY <1>1
<1>4. ASSUME NEW i \in 1..n
      PROVE  /\ ids[i].tip = TipAt(c, i - 1)
             /\ (IF i = Len(ids) THEN L ELSE SubSeq(L, 1, ids[i].pos)) = SubSeq(L, 1, P[i - 1])
  <2>1. ids[i].tip = TipAt(c, i - 1) /\ ids[i].pos = P[i - 1]
    BY <1>1 DEF IdAt, CheckpointId
  <2>2. CASE i = n
    <3>1. i - 1 = Len(c)
      BY <2>2, <1>1
    <3>2. P[i - 1] = Len(L) /\ L \in Seq(Leaf)
      BY <3>1 DEF Good, IsPositions
    <3>3. SubSeq(L, 1, P[i - 1]) = L
      BY <3>2, SubSeqFull
    <3> QED
      BY <3>3, <2>1, <2>2, <1>3
  <2>3. CASE i # n
    BY <2>1, <2>3, <1>3
  <2> QED
    BY <2>2, <2>3
<1>5. StackOf(d) =
         [i \in 1..n |-> [tip |-> ids[i].tip,
                          leaves |-> IF i = Len(ids) THEN L ELSE SubSeq(L, 1, ids[i].pos)]]
  BY <1>2, <1>3 DEF StackOf, ids
<1> QED
  BY <1>4, <1>5 DEF Stacked

\* The first leaves of the first leaves.
LEMMA SamePrefix ==
    ASSUME NEW A, NEW X \in Seq(A), NEW Y \in Seq(A), NEW p \in Nat, p <= Len(X), p <= Len(Y),
           \A k \in 1..p : X[k] = Y[k]
    PROVE  SubSeq(X, 1, p) = SubSeq(Y, 1, p)
<1>1. p \in 0..Len(X) /\ p \in 0..Len(Y)
  BY LenProperties
<1>2. /\ SubSeq(X, 1, p) \in Seq(A) /\ Len(SubSeq(X, 1, p)) = p
      /\ \A k \in 1..p : SubSeq(X, 1, p)[k] = X[k]
  BY <1>1, CutIs
<1>3. /\ SubSeq(Y, 1, p) \in Seq(A) /\ Len(SubSeq(Y, 1, p)) = p
      /\ \A k \in 1..p : SubSeq(Y, 1, p)[k] = Y[k]
  BY <1>1, CutIs
<1> QED
  BY <1>2, <1>3, SeqEqual

Tree == [tip : WalletBlock \cup {NoWalletBlock}, leaves : Seq(Leaf)]

IsStacked(c, L, P) ==
    /\ Stacked(c, L, P) \in Seq(Tree) /\ Len(Stacked(c, L, P)) = Len(c) + 1 /\ Len(c) \in Nat
    /\ \A i \in 1 .. Len(c) + 1 : /\ i - 1 \in Heights(c)
                                  /\ Stacked(c, L, P)[i].tip = TipAt(c, i - 1)
                                  /\ Stacked(c, L, P)[i].leaves = SubSeq(L, 1, P[i - 1])
                                  /\ Stacked(c, L, P)[i] \in Tree
    /\ Stacked(c, L, P)[Len(c) + 1] = [tip |-> TipAt(c, Len(c)), leaves |-> L]

\* The stack of a chain, and its top.
LEMMA StackedIs ==
    ASSUME NEW c, NEW L, NEW P, Good(c, L, P)
    PROVE  IsStacked(c, L, P)
<1>1. /\ Len(c) \in Nat /\ Heights(c) \subseteq Nat /\ L \in Seq(Leaf) /\ P[Len(c)] = Len(L)
      /\ \A i \in Heights(c) : TipAt(c, i) \in WalletBlock \cup {NoWalletBlock}
  <2>1. IsChain(c) /\ L \in Seq(Leaf) /\ P[Len(c)] = Len(L)
    BY DEF Good, IsPositions
  <2>2. ASSUME NEW i \in Heights(c)
        PROVE  TipAt(c, i) \in WalletBlock \cup {NoWalletBlock}
    <3>1. i \in Nat /\ (i > 0 => TipAt(c, i) \in WalletBlock)
      BY <2>1, TipsDiffer
    <3>2. i = 0 => TipAt(c, i) = NoWalletBlock
      BY DEF TipAt
    <3> QED
      BY <3>1, <3>2
  <2> QED
    BY <2>1, <2>2, TipsDiffer
<1>2. ASSUME NEW i \in 1 .. Len(c) + 1
      PROVE  /\ i - 1 \in Heights(c) /\ TipAt(c, i - 1) \in WalletBlock \cup {NoWalletBlock}
             /\ SubSeq(L, 1, P[i - 1]) \in Seq(Leaf)
  <2>1. i - 1 \in Heights(c)
    BY <1>1 DEF Heights
  <2>2. P[i - 1] \in 0..Len(L)
    <3>1. P[i - 1] \in Nat /\ P[i - 1] <= Len(L) /\ Len(L) \in Nat
      BY <2>1, StoreIs
    <3> QED
      BY <3>1
  <2> QED
    BY <2>1, <2>2, <1>1, CutIs
<1> DEFINE s == Stacked(c, L, P)
           At(i) == [tip |-> TipAt(c, i - 1), leaves |-> SubSeq(L, 1, P[i - 1])]
<1>3. \A i \in 1 .. Len(c) + 1 : /\ At(i) \in Tree /\ At(i).tip = TipAt(c, i - 1)
                                 /\ At(i).leaves = SubSeq(L, 1, P[i - 1])
  BY <1>2 DEF Tree
<1>4. s = [i \in 1 .. Len(c) + 1 |-> At(i)]
  BY DEF Stacked
<1>5. At(Len(c) + 1) = [tip |-> TipAt(c, Len(c)), leaves |-> L]
  <2>1. (Len(c) + 1) - 1 = Len(c)
    BY <1>1
  <2>2. SubSeq(L, 1, P[Len(c)]) = L
    BY <1>1, SubSeqFull
  <2> QED
    BY <2>1, <2>2
<1> HIDE DEF At
<1>6. s \in Seq(Tree) /\ Len(s) = Len(c) + 1 /\ \A i \in 1 .. Len(c) + 1 : s[i] = At(i)
  BY <1>1, <1>3, <1>4
<1>7. Len(c) + 1 \in 1 .. Len(c) + 1
  BY <1>1
<1> HIDE DEF s
<1>8. \A i \in 1 .. Len(c) + 1 : /\ s[i].tip = TipAt(c, i - 1) /\ s[i] \in Tree
                                 /\ s[i].leaves = SubSeq(L, 1, P[i - 1])
  BY <1>3, <1>6
<1>9. s[Len(c) + 1] = [tip |-> TipAt(c, Len(c)), leaves |-> L]
  BY <1>5, <1>6, <1>7
<1> QED
  BY <1>1, <1>2, <1>6, <1>8, <1>9 DEF s, IsStacked

OneTreeMore(s, t, tree) ==
    t = Append(s, tree) /\ s = SubSeq(t, 1, Len(t) - 1) /\ Len(t) > 1

\* The stack of a chain with one more block has one more tree.
LEMMA StackGrows ==
    ASSUME NEW c, NEW K, NEW P, Good(c, K, P), NEW e, NEW M, NEW Q, Good(e, M, Q),
           OneMore(c, e), OneMorePosition(c, e, P, Q), Len(K) <= Len(M),
           \A k \in 1..Len(K) : K[k] = M[k]
    PROVE  OneTreeMore(Stacked(c, K, P), Stacked(e, M, Q), [tip |-> e[Len(e)], leaves |-> M])
<1> DEFINE s == Stacked(c, K, P)
           t == Stacked(e, M, Q)
           n == Len(c) + 1
<1>1. /\ Len(c) \in Nat /\ Len(e) = n /\ TipAt(e, Len(e)) = e[Len(e)]
      /\ \A i \in Heights(c) : TipAt(e, i) = TipAt(c, i)
  BY TipsGrow
<1>2. /\ s \in Seq(Tree) /\ Len(s) = n
      /\ \A i \in 1..n : /\ i - 1 \in Heights(c) /\ s[i].tip = TipAt(c, i - 1)
                         /\ s[i].leaves = SubSeq(K, 1, P[i - 1]) /\ s[i] \in Tree
  <2>1. IsStacked(c, K, P)
    BY StackedIs
  <2> QED
    BY <2>1 DEF IsStacked
<1>3. /\ t \in Seq(Tree) /\ Len(t) = n + 1
      /\ \A i \in 1 .. n + 1 : /\ t[i].tip = TipAt(e, i - 1)
                               /\ t[i].leaves = SubSeq(M, 1, Q[i - 1]) /\ t[i] \in Tree
      /\ t[n + 1] = [tip |-> e[Len(e)], leaves |-> M]
  <2>1. IsStacked(e, M, Q)
    BY StackedIs
  <2> QED
    BY <2>1, <1>1 DEF IsStacked
<1> HIDE DEF s, t
<1>4. ASSUME NEW i \in 1..n
      PROVE  t[i] = s[i]
  <2>1. i \in 1 .. n + 1 /\ i - 1 \in Heights(c)
    BY <1>1, <1>2
  <2>2. t[i].tip = s[i].tip
    BY <2>1, <1>1, <1>2, <1>3
  <2>3. Q[i - 1] = P[i - 1] /\ P[i - 1] \in Nat /\ P[i - 1] <= Len(K) /\ Len(K) \in Nat
    BY <2>1, StoreIs DEF OneMorePosition
  <2>4. K \in Seq(Leaf) /\ M \in Seq(Leaf) /\ Len(M) \in Nat
    BY LenProperties DEF Good
  <2>5. SubSeq(K, 1, P[i - 1]) = SubSeq(M, 1, P[i - 1])
    <3> DEFINE p == P[i - 1]
    <3>1. p \in Nat /\ p <= Len(K) /\ p <= Len(M) /\ \A k \in 1..p : K[k] = M[k]
      BY <2>3, <2>4
    <3> HIDE DEF p
    <3>2. SubSeq(K, 1, p) = SubSeq(M, 1, p)
      BY <3>1, <2>4, SamePrefix
    <3> QED
      BY <3>2 DEF p
  <2>6. t[i].leaves = s[i].leaves
    BY <2>1, <2>3, <2>5, <1>2, <1>3
  <2>7. t[i] \in Tree /\ s[i] \in Tree
    BY <2>1, <1>2, <1>3
  <2> DEFINE x == t[i]
             y == s[i]
  <2>8. x \in Tree /\ y \in Tree /\ x.tip = y.tip /\ x.leaves = y.leaves
    BY <2>2, <2>6, <2>7
  <2> HIDE DEF x, y
  <2>9. x = y
    BY <2>8 DEF Tree
  <2> QED
    BY <2>9 DEF x, y
<1>5. t = Append(s, [tip |-> e[Len(e)], leaves |-> M])
  <2> DEFINE x == [tip |-> e[Len(e)], leaves |-> M]
  <2>1. x \in Tree
    <3>1. n + 1 \in 1 .. n + 1
      BY <1>1
    <3> QED
      BY <3>1, <1>3
  <2>2. t[n + 1] = x
    BY <1>3
  <2> HIDE DEF x
  <2>3. Append(s, x) \in Seq(Tree) /\ Len(Append(s, x)) = n + 1 /\ Append(s, x)[n + 1] = x
        /\ \A i \in 1..n : Append(s, x)[i] = s[i]
    BY <2>1, <1>2
  <2>4. \A i \in 1 .. n + 1 : t[i] = Append(s, x)[i]
    <3> TAKE i \in 1 .. n + 1
    <3>1. i \in 1..n \/ i = n + 1
      BY <1>1
    <3> QED
      BY <3>1, <2>2, <2>3, <1>4
  <2>5. t = Append(s, x)
    BY <2>3, <2>4, <1>3, SeqEqual
  <2> QED
    BY <2>5 DEF x
<1>6. s = SubSeq(t, 1, Len(t) - 1)
  <2>1. Len(t) - 1 = n /\ n \in 0..Len(t)
    BY <1>1, <1>3
  <2>2. /\ SubSeq(t, 1, n) \in Seq(Tree) /\ Len(SubSeq(t, 1, n)) = n
        /\ \A i \in 1..n : SubSeq(t, 1, n)[i] = t[i]
    BY <2>1, <1>3, CutIs
  <2>3. s = SubSeq(t, 1, n)
    BY <2>2, <1>2, <1>4, SeqEqual
  <2> QED
    BY <2>1, <2>3
<1>7. Len(t) > 1
  BY <1>1, <1>3
<1> QED
  BY <1>5, <1>6, <1>7 DEF s, t, OneTreeMore

-----------------------------------------------------------------------------
(***************************************************************************)
(* The behaviours.                                                         *)
(***************************************************************************)
\* The invariant holds if any leaves and positions give the database.
LEMMA IInvIs ==
    ASSUME NEW c, NEW d, NEW L, NEW P, Good(c, L, P), d = Store(c, L, P)
    PROVE  /\ Good(c, LeavesOf(d.shards), PositionsOf(c, d))
           /\ d = Store(c, LeavesOf(d.shards), PositionsOf(c, d))
<1>1. LeavesOf(d.shards) = L /\ PositionsOf(c, d) = P
  BY StoreReads
<1> QED
  BY <1>1

\* The leaves of a block.
LEMMA LeavesAre ==
    ASSUME NEW b \in WalletBlock, NEW n \in Nat
    PROVE  Leaves(b, n) \in Seq(Leaf)
BY DEF Leaves, Leaf

\* The empty tree.
LEMMA InitStore ==
    ASSUME StoreInit
    PROVE  /\ Good(synced, << >>, [i \in {0} |-> 0]) /\ error = FALSE
           /\ tree_db = Store(synced, << >>, [i \in {0} |-> 0])
<1> DEFINE P == [i \in {0} |-> 0]
<1>1. synced = << >> /\ error = FALSE
  BY DEF StoreInit
<1>2. Heights(synced) = {0}
  BY <1>1 DEF Heights
<1>3. IsChain(synced)
  BY <1>1 DEF IsChain
<1>4. IsPositions(synced, << >>, P)
  BY <1>1, <1>2 DEF IsPositions
<1>5. Good(synced, << >>, P)
  BY <1>3, <1>4 DEF Good
<1>6. Tips(synced) = {NoWalletBlock} /\ SeqToTip(synced) = [seq \in {0} |-> NoWalletBlock]
      /\ PosToSeq(synced, P) = {<<0, 0>>}
  BY <1>2 DEF Tips, TipAt, SeqToTip, PosToSeq
<1>7. Checkpoints(synced, P) = [tip \in {NoWalletBlock} |-> [pos |-> 0, seq |-> 0]]
  <2>1. HeightOf(synced, NoWalletBlock) = 0
    BY <1>2 DEF HeightOf, TipAt
  <2> QED
    BY <2>1, <1>6 DEF Checkpoints
<1>8. Shards(<< >>) = << >>
  <2>1. << >> \in Seq(Leaf) /\ Len(<< >>) = 0
    OBVIOUS
  <2>2. Shards(<< >>) \in Seq(Seq(Leaf)) /\ Len(Shards(<< >>)) = Count(0)
    BY <2>1, ShardsAre
  <2>3. Count(0) = 0
    BY CountIs
  <2> QED
    BY <2>2, <2>3
<1>9. tree_db = Store(synced, << >>, P)
  BY <1>6, <1>7, <1>8 DEF StoreInit, Store
<1> QED
  BY <1>1, <1>5, <1>9

\* A block is connected, and its tree is on top.
LEMMA ConnectStep ==
    ASSUME IInv, NEW b \in WalletBlock, NEW n \in 0..MaxLeaves, ConnectOrchardBlock(b, n)
    PROVE  /\ IInv' /\ Trees!Connect(b, n)
           /\ Len((StackOf(tree_db))') > Len(StackOf(tree_db))
<1> DEFINE L == LeavesOf(tree_db.shards)
           P == PositionsOf(synced, tree_db)
           K == Leaves(b, n)
           M == L \o K
           Q == PositionsWith(synced, P, Len(M))
           e == Append(synced, b)
<1>1. error = FALSE /\ Good(synced, L, P) /\ tree_db = Store(synced, L, P)
  BY DEF IInv
<1>2. K \in Seq(Leaf)
  <2>1. n \in Nat
    BY SizeAssumption
  <2> QED
    BY <2>1, LeavesAre
<1>3. b \notin Range(synced)
  BY DEF ConnectOrchardBlock
<1> HIDE DEF L, P, K
<1>4. synced' = e /\ error' = FALSE /\ tree_db' = Store(e, M, Q)
  <2> DEFINE shards == AppendLeaves(Load(tree_db).shards, K)
             id == CheckpointId(TreeState(shards), NextCheckpointSeq(tree_db), b)
             cache == AddToCache([Load(tree_db) EXCEPT !.shards = shards], id)
  <2>1. ~FlushFails(tree_db, cache) /\ Flush(tree_db, cache) = Store(e, M, Q)
    BY <1>1, <1>2, <1>3, ConnectStores
  <2>2. /\ error' = FlushFails(tree_db, cache)
        /\ tree_db' = IF FlushFails(tree_db, cache) THEN tree_db ELSE Flush(tree_db, cache)
        /\ synced' = IF FlushFails(tree_db, cache) THEN synced ELSE e
    BY DEF ConnectOrchardBlock, K
  <2> HIDE DEF cache
  <2>3. FlushFails(tree_db, cache) = FALSE
    BY <2>1 DEF FlushFails
  <2> QED
    BY <2>1, <2>2, <2>3
<1>5. /\ Good(e, M, Q) /\ OneMore(synced, e) /\ OneMorePosition(synced, e, P, Q) /\ e[Len(e)] = b
  BY <1>1, <1>2, <1>3, GoodGrows
<1>6. IInv'
  <2>1. Good(synced', M, Q) /\ tree_db' = Store(synced', M, Q)
    BY <1>4, <1>5
  <2> HIDE DEF M, Q, e
  <2>2. /\ Good(synced', LeavesOf(tree_db'.shards), PositionsOf(synced', tree_db'))
        /\ tree_db' = Store(synced', LeavesOf(tree_db'.shards), PositionsOf(synced', tree_db'))
    BY <2>1, IInvIs
  <2> QED
    BY <2>2, <1>4 DEF IInv
<1>7. StackOf(tree_db) = Stacked(synced, L, P)
  BY <1>1, StackIs
<1>8. StackOf(tree_db') = Stacked(e, M, Q)
  <2>1. Good(e, M, Q) /\ tree_db' = Store(e, M, Q)
    BY <1>4, <1>5
  <2> HIDE DEF e, M, Q
  <2> QED
    BY <2>1, StackIs
<1>9. Stacked(e, M, Q) = Append(Stacked(synced, L, P), [tip |-> b, leaves |-> M])
  <2>1. L \in Seq(Leaf)
    BY <1>1 DEF Good
  <2>2. /\ Len(M) = Len(L) + Len(K) /\ Len(L) \in Nat /\ Len(K) \in Nat
        /\ \A i \in 1 .. Len(L) + Len(K) : M[i] = IF i <= Len(L) THEN L[i] ELSE K[i - Len(L)]
    BY <2>1, <1>2, ConcatProperties, LenProperties
  <2>3. Len(L) <= Len(M) /\ \A k \in 1..Len(L) : L[k] = M[k]
    BY <2>2
  <2>4. e[Len(e)] = b
    BY <1>5
  <2> HIDE DEF e, M, Q
  <2>5. Stacked(e, M, Q) = Append(Stacked(synced, L, P), [tip |-> e[Len(e)], leaves |-> M])
    BY <2>3, <1>1, <1>5, StackGrows DEF OneTreeMore
  <2> QED
    BY <2>4, <2>5
<1> DEFINE s == StackOf(tree_db)
<1>10. /\ s[Len(s)].leaves = L
       /\ \A i \in DOMAIN s : s[i].tip # b
       /\ s \in Seq(Tree)
  <2>1. IsStacked(synced, L, P)
    BY <1>1, StackedIs
  <2> DEFINE u == Stacked(synced, L, P)
  <2>2. /\ u \in Seq(Tree) /\ Len(u) = Len(synced) + 1 /\ Len(synced) \in Nat
        /\ \A i \in 1 .. Len(synced) + 1 : i - 1 \in Heights(synced) /\ u[i].tip = TipAt(synced, i - 1)
        /\ u[Len(synced) + 1] = [tip |-> TipAt(synced, Len(synced)), leaves |-> L]
    BY <2>1 DEF IsStacked
  <2> HIDE DEF u
  <2>3. b \notin Tips(synced)
    <3>1. OneMore(synced, e) /\ e[Len(e)] = b
      BY <1>5
    <3> HIDE DEF e
    <3> QED
      BY <3>1, TipsGrow
  <2>4. DOMAIN u = 1 .. Len(synced) + 1
    BY <2>2, LenProperties
  <2>5. \A i \in DOMAIN u : u[i].tip # b
    BY <2>2, <2>3, <2>4 DEF Tips
  <2>6. u[Len(u)].leaves = L
    BY <2>2
  <2>7. s = u
    BY <1>7 DEF u
  <2> HIDE DEF s
  <2> QED
    BY <2>2, <2>5, <2>6, <2>7
<1>11. Trees!Connect(b, n) /\ Len((StackOf(tree_db))') > Len(StackOf(tree_db))
  <2>1. (StackOf(tree_db))' = Append(s, [tip |-> b, leaves |-> s[Len(s)].leaves \o Leaves(b, n)])
    <3>1. (StackOf(tree_db))' = StackOf(tree_db')
      OBVIOUS
    <3> HIDE DEF e, Q
    <3> QED
      BY <3>1, <1>7, <1>8, <1>9, <1>10 DEF K
  <2>2. Trees!Connect(b, n)
    BY <2>1, <1>10 DEF Trees!Connect, Trees!Top
  <2>3. Len((StackOf(tree_db))') = Len(s) + 1 /\ Len(s) \in Nat
    <3> DEFINE t == [tip |-> b, leaves |-> s[Len(s)].leaves \o Leaves(b, n)]
    <3> HIDE DEF s, t
    <3>1. Len(Append(s, t)) = Len(s) + 1 /\ Len(s) \in Nat
      BY <1>10
    <3> QED
      BY <2>1, <3>1 DEF t
  <2> QED
    BY <2>2, <2>3
<1> QED
  BY <1>6, <1>11

\* The tip is disconnected, and its tree dropped.
LEMMA DisconnectStep ==
    ASSUME IInv, DisconnectOrchardBlock
    PROVE  IInv' /\ Trees!Disconnect
<1> DEFINE L == LeavesOf(tree_db.shards)
           Q == PositionsOf(synced, tree_db)
           c == Front(synced)
           P == PositionsFront(c, Q)
           K == SubSeq(L, 1, Q[Len(c)])
<1>1. error = FALSE /\ Good(synced, L, Q) /\ tree_db = Store(synced, L, Q)
  BY DEF IInv
<1>2. synced # << >>
  BY DEF DisconnectOrchardBlock
<1> HIDE DEF L, Q
<1>3. /\ Good(c, K, P) /\ OneMore(c, synced) /\ OneMorePosition(c, synced, P, Q)
      /\ Len(c) \in Heights(synced) /\ Len(c) \in Heights(c) /\ Q[Len(c)] \in 0..Len(L)
  BY <1>1, <1>2, GoodShrinks
<1>4. synced' = c /\ error' = FALSE /\ tree_db' = Store(c, K, P)
  <2> DEFINE prev == TipAt(synced, Len(c))
             cache == TruncateToCheckpoint(Load(tree_db), GetCheckpointId(tree_db, prev))
             back == IF Len(synced) = 1 THEN NoWalletBlock ELSE synced[Len(synced) - 1]
  <2>1. prev \in DOMAIN tree_db.checkpoints /\ ~FlushFails(tree_db, cache) /\ Flush(tree_db, cache) = Store(c, K, P)
    BY <1>1, <1>2, DisconnectStores
  <2>2. back = prev
    <3> HIDE DEF c
    <3>1. Len(c) \in Nat /\ Len(synced) = Len(c) + 1
      BY <1>3, TipsGrow
    <3>2. Len(synced) - 1 = Len(c) /\ (Len(synced) = 1 <=> Len(c) = 0)
      BY <3>1
    <3> QED
      BY <3>2 DEF TipAt
  <2>3. LET m == TruncateToCheckpoint(Load(tree_db), GetCheckpointId(tree_db, back))
            fails == back \notin DOMAIN tree_db.checkpoints \/ FlushFails(tree_db, m)
        IN  /\ error' = fails
            /\ tree_db' = IF fails THEN tree_db ELSE Flush(tree_db, m)
            /\ synced' = IF fails THEN synced ELSE c
    BY DEF DisconnectOrchardBlock
  <2> HIDE DEF back, prev, c, P, K
  <2>4. (prev \notin DOMAIN tree_db.checkpoints \/ FlushFails(tree_db, cache)) = FALSE
    BY <2>1
  <2> QED
    BY <2>1, <2>2, <2>3, <2>4
<1> HIDE DEF c, P, K
<1>5. IInv'
  <2>1. Good(synced', K, P) /\ tree_db' = Store(synced', K, P)
    BY <1>3, <1>4
  <2>2. /\ Good(synced', LeavesOf(tree_db'.shards), PositionsOf(synced', tree_db'))
        /\ tree_db' = Store(synced', LeavesOf(tree_db'.shards), PositionsOf(synced', tree_db'))
    BY <2>1, IInvIs
  <2> QED
    BY <2>2, <1>4 DEF IInv
<1>6. StackOf(tree_db) = Stacked(synced, L, Q) /\ StackOf(tree_db') = Stacked(c, K, P)
  BY <1>1, <1>3, <1>4, StackIs
<1>7. Len(K) <= Len(L) /\ \A k \in 1..Len(K) : K[k] = L[k]
  <2>1. L \in Seq(Leaf) /\ Len(L) \in Nat
    BY <1>1, LenProperties DEF Good
  <2>2. Len(K) = Q[Len(c)] /\ \A k \in 1..Q[Len(c)] : K[k] = L[k]
    <3> DEFINE p == Q[Len(c)]
    <3>1. p \in 0..Len(L)
      BY <1>3
    <3> HIDE DEF p
    <3>2. Len(SubSeq(L, 1, p)) = p /\ \A k \in 1..p : SubSeq(L, 1, p)[k] = L[k]
      BY <3>1, <2>1, CutIs
    <3> QED
      BY <3>2 DEF p, K
  <2> QED
    BY <2>1, <2>2, <1>3
<1>8. /\ Stacked(c, K, P) = SubSeq(Stacked(synced, L, Q), 1, Len(Stacked(synced, L, Q)) - 1)
      /\ Len(Stacked(synced, L, Q)) > 1
  <2>1. OneTreeMore(Stacked(c, K, P), Stacked(synced, L, Q), [tip |-> synced[Len(synced)], leaves |-> L])
    BY <1>1, <1>3, <1>7, StackGrows
  <2> QED
    BY <2>1 DEF OneTreeMore
<1>9. Trees!Disconnect
  <2>1. (StackOf(tree_db))' = StackOf(tree_db')
    OBVIOUS
  <2> QED
    BY <2>1, <1>6, <1>8 DEF Trees!Disconnect
<1> QED
  BY <1>5, <1>9

\* The invariant implies that the tables agree.
LEMMA IInvStoreSound ==
    ASSUME IInv
    PROVE  StoreSound
<1> DEFINE L == LeavesOf(tree_db.shards)
           P == PositionsOf(synced, tree_db)
<1>1. error = FALSE /\ Good(synced, L, P) /\ tree_db = Store(synced, L, P)
  BY DEF IInv
<1> HIDE DEF L, P
<1>2. /\ DOMAIN tree_db.checkpoints = Tips(synced) /\ DOMAIN tree_db.checkpoint_seq_to_tip = Heights(synced)
      /\ \A i \in Heights(synced) : /\ tree_db.checkpoints[TipAt(synced, i)].pos = P[i]
                                   /\ tree_db.checkpoints[TipAt(synced, i)].seq = i
                                   /\ tree_db.checkpoint_seq_to_tip[i] = TipAt(synced, i)
      /\ tree_db.position_to_checkpoint_seq = PosToSeq(synced, P)
  BY <1>1, StoreIs
<1>3. Heights(synced) \subseteq Nat /\ synced \in Seq(WalletBlock)
  BY <1>1, TipsDiffer DEF Good, IsChain
<1>4. Range(tree_db.checkpoint_seq_to_tip) = DOMAIN tree_db.checkpoints
  BY <1>2 DEF Range, Tips
<1>5. tree_db.position_to_checkpoint_seq =
         {<<tree_db.checkpoints[t].pos, tree_db.checkpoints[t].seq>> : t \in DOMAIN tree_db.checkpoints}
  BY <1>2 DEF PosToSeq, Tips
<1>6. \A t \in DOMAIN tree_db.checkpoints : tree_db.checkpoint_seq_to_tip[tree_db.checkpoints[t].seq] = t
  BY <1>2 DEF Tips
<1>7. error \in BOOLEAN
  BY <1>1
<1> QED
  BY <1>1, <1>2, <1>3, <1>4, <1>5, <1>6, <1>7 DEF StoreSound, StoreTypeOK, NeverRefused

\* Every step keeps the invariant, and is a step of the stack of trees or none.
LEMMA StepIs ==
    ASSUME IInv, [StoreNext]_store_vars
    PROVE  IInv' /\ [Trees!Next]_(StackOf(tree_db))
<1>1. CASE DisconnectOrchardBlock
  BY <1>1, DisconnectStep DEF Trees!Next
<1>2. ASSUME NEW b \in WalletBlock, NEW n \in 0..MaxLeaves, ConnectOrchardBlock(b, n)
      PROVE  IInv' /\ [Trees!Next]_(StackOf(tree_db))
  BY <1>2, ConnectStep DEF Trees!Next
<1>3. CASE UNCHANGED store_vars
  <2>1. tree_db' = tree_db /\ synced' = synced /\ error' = error
    BY <1>3 DEF store_vars
  <2>2. IInv'
    BY <2>1 DEF IInv
  <2>3. (StackOf(tree_db))' = StackOf(tree_db)
    BY <2>1
  <2> QED
    BY <2>2, <2>3
<1> QED
  BY <1>1, <1>2, <1>3 DEF StoreNext

\* The invariant holds in every state.
LEMMA InvariantHolds == StoreSpec => []IInv
<1>1. StoreInit => IInv
  <2> SUFFICES ASSUME StoreInit PROVE IInv
    OBVIOUS
  <2>1. error = FALSE /\ Good(synced, << >>, [i \in {0} |-> 0]) /\ tree_db = Store(synced, << >>, [i \in {0} |-> 0])
    BY InitStore
  <2>2. /\ Good(synced, LeavesOf(tree_db.shards), PositionsOf(synced, tree_db))
        /\ tree_db = Store(synced, LeavesOf(tree_db.shards), PositionsOf(synced, tree_db))
    BY <2>1, IInvIs
  <2> QED
    BY <2>1, <2>2 DEF IInv
<1>2. IInv /\ [StoreNext]_store_vars => IInv'
  BY StepIs
<1> QED
  BY <1>1, <1>2, PTL DEF StoreSpec

\* The three checkpoint tables agree with each other, and add_checkpoint,
\* truncate_checkpoints_retaining and get_checkpoint_id never refuse what
\* connect_orchard_block and disconnect_orchard_block ask, for any reorgs.
THEOREM TablesAgree == StoreSpec => []StoreSound
<1>1. IInv => StoreSound
  BY IInvStoreSound
<1> QED
  BY <1>1, InvariantHolds, PTL

\* The shards and the tables implement a stack of the trees of the chain: a
\* block that is connected puts its tree on top, and disconnecting it drops
\* that tree alone and restores all others.
THEOREM StoreIsAStack == StoreSpec => ImplementsStack
<1>1. StoreInit => Trees!Init
  <2> SUFFICES ASSUME StoreInit PROVE Trees!Init
    OBVIOUS
  <2> DEFINE P == [i \in {0} |-> 0]
  <2>1. Good(synced, << >>, P) /\ tree_db = Store(synced, << >>, P) /\ synced = << >>
    BY InitStore DEF StoreInit
  <2> HIDE DEF P
  <2>2. StackOf(tree_db) = Stacked(synced, << >>, P)
    BY <2>1, StackIs
  <2>3. IsStacked(synced, << >>, P)
    BY <2>1, StackedIs
  <2> DEFINE u == Stacked(synced, << >>, P)
  <2>4. u \in Seq(Tree) /\ Len(u) = 1 /\ u[1] = [tip |-> NoWalletBlock, leaves |-> << >>]
    <3>1. Len(synced) = 0
      BY <2>1
    <3>2. TipAt(synced, 0) = NoWalletBlock
      BY DEF TipAt
    <3> QED
      BY <3>1, <3>2, <2>3 DEF IsStacked
  <2> HIDE DEF u
  <2>5. u = <<[tip |-> NoWalletBlock, leaves |-> << >>]>>
    BY <2>4
  <2> QED
    BY <2>2, <2>5 DEF Trees!Init, u
<1>2. IInv /\ [StoreNext]_store_vars => [Trees!Next]_(StackOf(tree_db))
  BY StepIs
<1> QED
  BY <1>1, <1>2, InvariantHolds, PTL DEF StoreSpec, ImplementsStack, Trees!Spec

=============================================================================
