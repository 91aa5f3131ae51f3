------------------------- MODULE ShieldedPoolProofs -------------------------
(***************************************************************************)
(* Proofs about ShieldedPool, for any actions, bodies and length of chain. *)
(*                                                                         *)
(* Undoing a block relies on what connecting it left, so the invariant     *)
(* links the databases that each block of the chain was connected to with  *)
(* those that the next one was connected to.                               *)
(***************************************************************************)
EXTENDS ShieldedPool, SequenceTheorems, TLAPS

Nullifier == {NullifierOf[a] : a \in Action}

\* A database: a partial map from K to V.
Maps(K, V) == UNION {[D -> V] : D \in SUBSET K}

Pools == [frontier : Frontier, nullifiers : SUBSET Nullifier,
          historical_roots : Maps(Frontier, BlockHash),
          block_hash_to_root : Maps(BlockHash, Frontier)]

\* Frontiers that fit in the tree.
Fitting == {f \in Frontier : Len(f) =< FrontierCapacity}

Block == [body : Bodies, before : Pools]

\* PoolTypeOK, with the type of the history that only properties read.
TInv ==
    /\ Pool \in Pools
    /\ Len(frontier) =< FrontierCapacity
    /\ orchard_frontiers \in Maps(BlockHash, Fitting)
    /\ orchard_chain \in Seq(Block)
    /\ Len(orchard_chain) =< MaxOrchardHeight
    /\ left_behind \in BOOLEAN

-----------------------------------------------------------------------------
\* Storing a value keeps the type of a database, whose keys are as expected.
LEMMA PutMap ==
    ASSUME NEW K, NEW V, NEW map \in Maps(K, V), NEW key \in K, NEW value \in V
    PROVE  /\ Put(map, key, value) \in Maps(K, V)
           /\ DOMAIN Put(map, key, value) = DOMAIN map \cup {key}
           /\ Put(map, key, value)[key] = value
           /\ \A k \in DOMAIN map : k # key => Put(map, key, value)[k] = map[k]
<1>1. DOMAIN map \subseteq K /\ map \in [DOMAIN map -> V]
  BY DEF Maps
<1>2. Put(map, key, value) \in [DOMAIN map \cup {key} -> V]
  BY <1>1 DEF Put
<1>3. DOMAIN map \cup {key} \in SUBSET K
  BY <1>1
<1>4. Put(map, key, value) \in Maps(K, V)
  BY <1>2, <1>3 DEF Maps
<1> QED
  BY <1>4 DEF Put

\* Deleting a key keeps the type of a database and every other entry.
LEMMA DeleteMap ==
    ASSUME NEW K, NEW V, NEW map \in Maps(K, V), NEW key
    PROVE  /\ Delete(map, key) \in Maps(K, V)
           /\ DOMAIN Delete(map, key) = DOMAIN map \ {key}
           /\ \A k \in DOMAIN map : k # key => Delete(map, key)[k] = map[k]
<1>1. DOMAIN map \subseteq K /\ map \in [DOMAIN map -> V]
  BY DEF Maps
<1>2. Delete(map, key) \in [DOMAIN map \ {key} -> V]
  BY <1>1 DEF Delete
<1>3. DOMAIN map \ {key} \in SUBSET K
  BY <1>1
<1>4. Delete(map, key) \in Maps(K, V)
  BY <1>2, <1>3 DEF Maps
<1> QED
  BY <1>4 DEF Delete

\* Deleting a key that was new when it was stored gives the database back.
LEMMA DeletePut ==
    ASSUME NEW K, NEW V, NEW map \in Maps(K, V), NEW key, NEW value,
           key \notin DOMAIN map
    PROVE  Delete(Put(map, key, value), key) = map
<1>1. map = [k \in DOMAIN map |-> map[k]]
  BY DEF Maps
<1>2. DOMAIN Put(map, key, value) \ {key} = DOMAIN map
  BY DEF Put
<1>3. \A k \in DOMAIN map : Put(map, key, value)[k] = map[k]
  BY DEF Put
<1> QED
  BY <1>1, <1>2, <1>3 DEF Delete

\* The hash of a block is the sequence of the bodies up to it.
LEMMA HashAtType ==
    ASSUME orchard_chain \in Seq(Block), NEW n \in 0..Len(orchard_chain)
    PROVE  /\ HashAt(n) \in BlockHash
           /\ Len(HashAt(n)) = n
           /\ DOMAIN HashAt(n) = 1..n
           /\ \A i \in 1..n : HashAt(n)[i] = orchard_chain[i].body
<1>1. \A i \in 1..n : orchard_chain[i] \in Block
  BY ElementOfSeq
<1>2. HashAt(n) \in [1..n -> Bodies]
  BY <1>1 DEF HashAt, Block
<1>3. n \in Nat
  BY LenProperties
<1>4. HashAt(n) \in Seq(Bodies)
  BY <1>2, <1>3, SeqDef
<1> QED
  BY <1>2, <1>3, <1>4 DEF HashAt, BlockHash

\* Connecting a block extends the chain and keeps the blocks below.
LEMMA AppendChain ==
    ASSUME orchard_chain \in Seq(Block), NEW block \in Block, orchard_chain' = Append(orchard_chain, block)
    PROVE  /\ orchard_chain' \in Seq(Block)
           /\ Len(orchard_chain') = Len(orchard_chain) + 1
           /\ Len(orchard_chain) \in Nat
           /\ orchard_chain'[Len(orchard_chain) + 1] = block
           /\ \A i \in 1..Len(orchard_chain) : orchard_chain'[i] = orchard_chain[i]
  BY AppendProperties, LenProperties

\* Disconnecting a block keeps the blocks below.
LEMMA FrontSeq ==
    ASSUME NEW S, NEW s \in Seq(S), NEW n \in 0..Len(s)
    PROVE  /\ SubSeq(s, 1, n) \in Seq(S)
           /\ Len(SubSeq(s, 1, n)) = n
           /\ \A i \in 1..n : SubSeq(s, 1, n)[i] = s[i]
<1>1. n \in Int /\ 1 \in Int /\ n >= 0 /\ Len(s) \in Nat
  BY LenProperties
<1>2. \A i \in 1..n : s[i] \in S
  BY <1>1, ElementOfSeq
<1>3. /\ SubSeq(s, 1, n) \in Seq(S)
      /\ Len(SubSeq(s, 1, n)) = IF 1 <= n THEN n - 1 + 1 ELSE 0
      /\ \A i \in 1..(n - 1 + 1) : SubSeq(s, 1, n)[i] = s[1 + i - 1]
  BY <1>1, <1>2, SubSeqProperties
<1>4. Len(SubSeq(s, 1, n)) = n
  BY <1>1, <1>3
<1>5. ASSUME NEW i \in 1..n PROVE SubSeq(s, 1, n)[i] = s[i]
  <2>1. i \in 1..(n - 1 + 1) /\ 1 + i - 1 = i
    BY <1>1
  <2> QED
    BY <1>3, <2>1
<1> QED
  BY <1>3, <1>4, <1>5

LEMMA FrontChain ==
    ASSUME orchard_chain \in Seq(Block), orchard_chain # << >>,
           orchard_chain' = SubSeq(orchard_chain, 1, Len(orchard_chain) - 1)
    PROVE  /\ orchard_chain' \in Seq(Block)
           /\ Len(orchard_chain') = Len(orchard_chain) - 1
           /\ Len(orchard_chain) \in Nat \ {0}
           /\ \A i \in 1..(Len(orchard_chain) - 1) : orchard_chain'[i] = orchard_chain[i]
<1>1. Len(orchard_chain) \in Nat \ {0}
  BY EmptySeq, LenProperties
<1>2. Len(orchard_chain) - 1 \in 0..Len(orchard_chain)
  BY <1>1
<1>3. /\ SubSeq(orchard_chain, 1, Len(orchard_chain) - 1) \in Seq(Block)
      /\ Len(SubSeq(orchard_chain, 1, Len(orchard_chain) - 1)) = Len(orchard_chain) - 1
      /\ \A i \in 1..(Len(orchard_chain) - 1) :
             SubSeq(orchard_chain, 1, Len(orchard_chain) - 1)[i] = orchard_chain[i]
  BY <1>2, FrontSeq
<1> QED
  BY <1>1, <1>3, Zenon

-----------------------------------------------------------------------------
LEMMA BodyType ==
    ASSUME NEW body \in Bodies
    PROVE  /\ body.actions \in Seq(Action)
           /\ Nullifiers(body) \subseteq Nullifier
           /\ \A bundle \in body.anchors : bundle.anchor \in Frontier
<1>1. body \in Body
  BY BodiesAssumption
<1>2. \A i \in DOMAIN body.actions : body.actions[i] \in Action
  BY <1>1, ElementOfSeq, LenProperties DEF Body
<1> QED
  BY <1>1, <1>2 DEF Body, Nullifiers, Nullifier

\* TInv is inductive.
LEMMA TypeInit == PoolInit => TInv
<1> SUFFICES ASSUME PoolInit PROVE TInv
  OBVIOUS
<1>1. EmptyFrontier \in Frontier /\ None \in BlockHash /\ Len(EmptyFrontier) = 0
  BY DEF EmptyFrontier, None, Frontier, BlockHash
<1>2. historical_roots \in Maps(Frontier, BlockHash)
  <2>1. historical_roots \in [{EmptyFrontier} -> BlockHash]
    BY <1>1 DEF PoolInit
  <2> QED
    BY <1>1, <2>1 DEF Maps
<1>3. /\ block_hash_to_root \in Maps(BlockHash, Frontier)
      /\ orchard_frontiers \in Maps(BlockHash, Fitting)
  <2>1. /\ block_hash_to_root \in [{None} -> Frontier]
        /\ orchard_frontiers \in [{None} -> Fitting]
    BY <1>1, BoundAssumption DEF PoolInit, Fitting
  <2> QED
    BY <1>1, <2>1 DEF Maps
<1>4. orchard_chain \in Seq(Block) /\ Len(orchard_chain) = 0
  BY DEF PoolInit
<1>5. left_behind \in BOOLEAN
  BY DEF PoolInit
<1> QED
  BY <1>1, <1>2, <1>3, <1>4, <1>5, BoundAssumption DEF PoolInit, TInv, Pool, Pools

LEMMA TypeConnect ==
    ASSUME TInv, NEW body \in Bodies, ConnectBlock(body)
    PROVE  TInv'
<1> DEFINE hash == Append(Tip, body)
           root == frontier \o body.actions
           block == [body |-> body, before |-> Pool]
<1>1. block \in Block /\ orchard_chain' = Append(orchard_chain, block)
  BY DEF TInv, Block, ConnectBlock
<1>2. /\ orchard_chain' \in Seq(Block) /\ Len(orchard_chain') = Len(orchard_chain) + 1
      /\ Len(orchard_chain) \in Nat
  BY <1>1, AppendChain DEF TInv
<1>3. hash \in BlockHash
  <2>1. Len(orchard_chain) \in 0..Len(orchard_chain)
    BY <1>2
  <2>2. Tip \in Seq(Bodies)
    BY <2>1, HashAtType DEF TInv, Tip, BlockHash
  <2> QED
    BY <2>2, AppendProperties DEF BlockHash
<1>4. /\ frontier \in Seq(Action) /\ nullifiers \subseteq Nullifier
      /\ historical_roots \in Maps(Frontier, BlockHash)
      /\ block_hash_to_root \in Maps(BlockHash, Frontier)
      /\ orchard_frontiers \in Maps(BlockHash, Fitting)
  BY DEF TInv, Pool, Pools, Frontier
<1>5. root \in Frontier /\ Len(root) = Len(frontier) + Len(body.actions)
  BY <1>4, BodyType, ConcatProperties DEF Frontier
<1>6. /\ frontier' = root /\ Len(root) =< FrontierCapacity
      /\ nullifiers' = nullifiers \cup Nullifiers(body)
      /\ Len(orchard_chain) < MaxOrchardHeight
  BY <1>5 DEF ConnectBlock, FrontierFits
<1>7. nullifiers' \subseteq Nullifier
  BY <1>4, <1>6, BodyType
<1>8. PutHistoricalRoot(hash, root) /\ ArchiveFrontier(hash, root)
  BY DEF ConnectBlock
<1>9. /\ historical_roots' \in Maps(Frontier, BlockHash)
      /\ block_hash_to_root' \in Maps(BlockHash, Frontier)
      /\ orchard_frontiers' \in Maps(BlockHash, Fitting)
  <2>0. root \in Fitting
    BY <1>5, <1>6 DEF Fitting
  <2> HIDE DEF hash, root
  <2>1. /\ Put(historical_roots, root, hash) \in Maps(Frontier, BlockHash)
        /\ Put(block_hash_to_root, hash, root) \in Maps(BlockHash, Frontier)
        /\ Put(orchard_frontiers, hash, root) \in Maps(BlockHash, Fitting)
    BY <1>3, <1>4, <1>5, <2>0, PutMap
  <2> QED
    BY <1>4, <1>8, <2>1 DEF PutHistoricalRoot, ArchiveFrontier
<1>10. Pool' \in Pools
  BY <1>5, <1>6, <1>7, <1>9 DEF Pool, Pools
<1>11. Len(orchard_chain') =< MaxOrchardHeight
  BY <1>2, <1>6, BoundAssumption
<1>12. left_behind' \in BOOLEAN
  BY DEF TInv, ConnectBlock
<1> QED
  BY <1>2, <1>6, <1>9, <1>10, <1>11, <1>12 DEF TInv

LEMMA TypeDisconnect ==
    ASSUME TInv, DisconnectTip
    PROVE  TInv'
<1> DEFINE parent == HashAt(Len(orchard_chain) - 1)
<1>1. orchard_chain \in Seq(Block) /\ orchard_chain # << >> /\ orchard_chain' = SubSeq(orchard_chain, 1, Len(orchard_chain) - 1)
  BY DEF TInv, DisconnectTip
<1>2. /\ orchard_chain' \in Seq(Block) /\ Len(orchard_chain') = Len(orchard_chain) - 1
      /\ Len(orchard_chain) \in Nat \ {0}
  BY <1>1, FrontChain
<1>3. Len(orchard_chain') =< MaxOrchardHeight
  BY <1>2, BoundAssumption DEF TInv
<1>4. /\ frontier \in Frontier /\ nullifiers \subseteq Nullifier
      /\ historical_roots \in Maps(Frontier, BlockHash)
      /\ block_hash_to_root \in Maps(BlockHash, Frontier)
      /\ orchard_frontiers \in Maps(BlockHash, Fitting)
      /\ Len(frontier) =< FrontierCapacity
  BY DEF TInv, Pool, Pools
<1>5. /\ historical_roots' \in Maps(Frontier, BlockHash)
      /\ block_hash_to_root' \in Maps(BlockHash, Frontier)
  <2>1. DeleteHistoricalRoot(Tip)
    BY DEF DisconnectTip
  <2>2. \A k : /\ Delete(historical_roots, k) \in Maps(Frontier, BlockHash)
              /\ Delete(block_hash_to_root, k) \in Maps(BlockHash, Frontier)
    BY <1>4, DeleteMap
  <2> QED
    BY <1>4, <2>1, <2>2 DEF DeleteHistoricalRoot
<1>6. orchard_frontiers' = orchard_frontiers /\ nullifiers' \subseteq nullifiers
  BY DEF DisconnectTip
<1>7. frontier' \in Fitting
  <2>1. RestoreFrontier(parent)
    BY DEF DisconnectTip
  <2>2. \A h \in DOMAIN orchard_frontiers : orchard_frontiers[h] \in Fitting
    BY <1>4 DEF Maps
  <2> QED
    BY <1>4, <2>1, <2>2 DEF RestoreFrontier, Fitting
<1>8. Pool' \in Pools
  BY <1>4, <1>5, <1>6, <1>7 DEF Pool, Pools, Fitting
<1>9. left_behind' \in BOOLEAN
  BY DEF DisconnectTip
<1> QED
  BY <1>2, <1>3, <1>4, <1>6, <1>7, <1>8, <1>9 DEF TInv, Fitting

LEMMA TInvPrime == TInv /\ UNCHANGED pool_vars => TInv'
  BY DEF TInv, Pool, pool_vars

LEMMA TypeStep == TInv /\ [PoolNext]_pool_vars => TInv'
  BY TypeConnect, TypeDisconnect, TInvPrime DEF PoolNext

LEMMA TInvTypeOK == TInv => PoolTypeOK
<1> SUFFICES ASSUME TInv PROVE PoolTypeOK
  OBVIOUS
<1>1. /\ frontier \in Frontier /\ nullifiers \subseteq Nullifier
      /\ historical_roots \in Maps(Frontier, BlockHash)
      /\ block_hash_to_root \in Maps(BlockHash, Frontier)
      /\ orchard_frontiers \in Maps(BlockHash, Fitting)
  BY DEF TInv, Pool, Pools
<1>2. /\ DOMAIN historical_roots \subseteq Frontier
      /\ historical_roots \in [DOMAIN historical_roots -> BlockHash]
      /\ DOMAIN block_hash_to_root \subseteq BlockHash
      /\ block_hash_to_root \in [DOMAIN block_hash_to_root -> Frontier]
  BY <1>1 DEF Maps
<1>3. /\ DOMAIN orchard_frontiers \subseteq BlockHash
      /\ orchard_frontiers \in [DOMAIN orchard_frontiers -> Frontier]
  BY <1>1 DEF Maps, Fitting
<1>4. \A i \in DOMAIN orchard_chain : orchard_chain[i].body \in Bodies
  <2>1. orchard_chain \in Seq(Block) /\ DOMAIN orchard_chain = 1..Len(orchard_chain)
    BY LenProperties DEF TInv
  <2>2. \A i \in DOMAIN orchard_chain : orchard_chain[i] \in Block
    BY <2>1, ElementOfSeq
  <2> QED
    BY <2>2 DEF Block
<1> QED
  BY <1>1, <1>2, <1>3, <1>4 DEF TInv, PoolTypeOK, Nullifier

\* The databases keep their types, and the frontier fits in its tree, however
\* blocks are connected and disconnected.
THEOREM PoolTypeCorrect == PoolSpec => []PoolTypeOK
<1>1. PoolSpec => []TInv
  BY TypeInit, TypeStep, PTL DEF PoolSpec
<1> QED
  BY <1>1, TInvTypeOK, PTL
-----------------------------------------------------------------------------
\* q is what connecting the block with this hash and body to p left: undoing
\* it leads back to p.
Undone(p, hash, body, q) ==
    /\ q.nullifiers \ Nullifiers(body) = p.nullifiers
    /\ \/ /\ hash \notin DOMAIN q.block_hash_to_root
          /\ q.historical_roots = p.historical_roots
          /\ q.block_hash_to_root = p.block_hash_to_root
       \/ /\ hash \in DOMAIN q.block_hash_to_root
          /\ Delete(q.historical_roots, q.block_hash_to_root[hash]) = p.historical_roots
          /\ Delete(q.block_hash_to_root, hash) = p.block_hash_to_root

\* The databases after the n-th block of the chain.
After(n) == IF n = Len(orchard_chain) THEN Pool ELSE orchard_chain[n + 1].before

Linked == \A n \in 1..Len(orchard_chain) :
              Undone(orchard_chain[n].before, HashAt(n), orchard_chain[n].body, After(n))

\* The inductive invariant.
PInv == TInv /\ RootsOfChain /\ Linked

LEMMA InitPInv == PoolInit => PInv
<1> SUFFICES ASSUME PoolInit PROVE PInv
  OBVIOUS
<1>1. TInv
  BY TypeInit
<1>2. RootsOfChain
  BY DEF PoolInit, RootsOfChain, EmptyFrontier, None
<1>3. Linked
  BY DEF PoolInit, Linked
<1> QED
  BY <1>1, <1>2, <1>3 DEF PInv

\* The hash of a block does not change when blocks above it come and go.
LEMMA HashKept ==
    ASSUME NEW m \in Nat, \A i \in 1..m : orchard_chain'[i] = orchard_chain[i]
    PROVE  \A n \in 0..m : HashAt(n)' = HashAt(n)
  BY DEF HashAt

LEMMA TipAppend ==
    ASSUME TInv, NEW body \in Bodies, ConnectBlock(body)
    PROVE  /\ Append(Tip, body) \in BlockHash
           /\ Len(Append(Tip, body)) = Len(orchard_chain) + 1
           /\ Append(Tip, body) = Tip'
<1> DEFINE block == [body |-> body, before |-> Pool]
           n == Len(orchard_chain)
<1>1. block \in Block /\ orchard_chain \in Seq(Block) /\ orchard_chain' = Append(orchard_chain, block)
  BY DEF TInv, Block, ConnectBlock
<1>2. /\ Len(orchard_chain') = n + 1 /\ n \in Nat
      /\ orchard_chain'[n + 1] = block /\ \A i \in 1..n : orchard_chain'[i] = orchard_chain[i]
  BY <1>1, AppendChain
<1>3. /\ Tip \in Seq(Bodies) /\ Len(Tip) = n
      /\ \A i \in 1..n : Tip[i] = orchard_chain[i].body
  BY <1>1, <1>2, HashAtType DEF Tip, BlockHash
<1>4. /\ Append(Tip, body) \in Seq(Bodies)
      /\ Len(Append(Tip, body)) = n + 1
      /\ Append(Tip, body)[n + 1] = body
      /\ \A i \in 1..n : Append(Tip, body)[i] = orchard_chain[i].body
  BY <1>3, AppendProperties
<1>5. Append(Tip, body) = [i \in 1..(n + 1) |-> Append(Tip, body)[i]]
  BY <1>4, SeqDef, LenProperties
<1>6. \A i \in 1..(n + 1) : Append(Tip, body)[i] = orchard_chain'[i].body
  <2> SUFFICES ASSUME NEW i \in 1..(n + 1)
               PROVE  Append(Tip, body)[i] = orchard_chain'[i].body
    OBVIOUS
  <2>1. CASE i = n + 1
    BY <1>2, <1>4, <2>1
  <2>2. CASE i \in 1..n
    BY <1>2, <1>4, <2>2
  <2>3. i = n + 1 \/ i \in 1..n
    BY <1>2
  <2> QED
    BY <2>1, <2>2, <2>3
<1>7. Append(Tip, body) = [i \in 1..(n + 1) |-> orchard_chain'[i].body]
  BY <1>5, <1>6
<1>8. Tip' = [i \in 1..(n + 1) |-> orchard_chain'[i].body]
  BY <1>2 DEF HashAt, Tip
<1> QED
  BY <1>4, <1>7, <1>8 DEF BlockHash

\* Connecting a block: the new root, if any, is that of the new tip.
LEMMA ConnectRoots ==
    ASSUME PInv, NEW body \in Bodies, ConnectBlock(body)
    PROVE  RootsOfChain'
<1> DEFINE hash == Append(Tip, body)
           root == frontier \o body.actions
           block == [body |-> body, before |-> Pool]
           n == Len(orchard_chain)
<1>1. block \in Block /\ orchard_chain \in Seq(Block) /\ orchard_chain' = Append(orchard_chain, block)
  BY DEF PInv, TInv, Block, ConnectBlock
<1>2. /\ Len(orchard_chain') = n + 1 /\ n \in Nat
      /\ \A i \in 1..n : orchard_chain'[i] = orchard_chain[i]
  BY <1>1, AppendChain
<1>3. hash \in BlockHash /\ Len(hash) = n + 1 /\ hash = Tip'
  BY TipAppend DEF PInv
<1>4. /\ historical_roots \in Maps(Frontier, BlockHash)
      /\ block_hash_to_root \in Maps(BlockHash, Frontier)
      /\ frontier' \in Frontier
  BY TypeConnect DEF PInv, TInv, Pool, Pools
<1>5. root \in Frontier
  BY <1>4 DEF ConnectBlock
<1>6. \A h \in DOMAIN block_hash_to_root :
          /\ Len(h) =< n + 1 /\ h # hash
          /\ \A i \in DOMAIN h : h[i] = orchard_chain'[i].body
  <2> SUFFICES ASSUME NEW h \in DOMAIN block_hash_to_root
               PROVE  /\ Len(h) =< n + 1 /\ h # hash
                      /\ \A i \in DOMAIN h : h[i] = orchard_chain'[i].body
    OBVIOUS
  <2>1. h \in Seq(Bodies)
    BY <1>4 DEF Maps, BlockHash
  <2>2. Len(h) \in Nat /\ DOMAIN h = 1..Len(h)
    BY <2>1, LenProperties
  <2>3. Len(h) =< n /\ \A i \in DOMAIN h : h[i] = orchard_chain[i].body
    BY DEF PInv, RootsOfChain
  <2>4. h # hash
    BY <1>2, <1>3, <2>2, <2>3
  <2>5. DOMAIN h \subseteq 1..n
    BY <1>2, <2>2, <2>3
  <2>6. Len(h) =< n + 1
    BY <1>2, <2>2, <2>3
  <2>7. \A i \in DOMAIN h : h[i] = orchard_chain'[i].body
    BY <1>2, <2>3, <2>5
  <2> QED
    BY <2>4, <2>6, <2>7
<1>7. \A i \in DOMAIN hash : hash[i] = orchard_chain'[i].body
  BY <1>3 DEF Tip, HashAt
<1>8. /\ PutHistoricalRoot(hash, root) /\ RootsOfChain
      /\ EmptyFrontier \in DOMAIN historical_roots
  BY DEF ConnectBlock, PInv, RootsOfChain
<1> HIDE DEF hash, root, n
<1>9. CASE root \in DOMAIN historical_roots
  <2>1. historical_roots' = historical_roots /\ block_hash_to_root' = block_hash_to_root
    BY <1>8, <1>9 DEF PutHistoricalRoot
  <2> QED
    BY <1>2, <1>6, <1>8, <2>1 DEF RootsOfChain
<1>10. CASE root \notin DOMAIN historical_roots
  <2>1. /\ historical_roots' = Put(historical_roots, root, hash)
        /\ block_hash_to_root' = Put(block_hash_to_root, hash, root)
    BY <1>8, <1>10 DEF PutHistoricalRoot
  <2>2. /\ DOMAIN historical_roots' = DOMAIN historical_roots \cup {root}
        /\ historical_roots'[root] = hash
        /\ \A r \in DOMAIN historical_roots : historical_roots'[r] = historical_roots[r]
    BY <1>10, <2>1 DEF Put
  <2>3. /\ DOMAIN block_hash_to_root' = DOMAIN block_hash_to_root \cup {hash}
        /\ block_hash_to_root'[hash] = root
        /\ \A h \in DOMAIN block_hash_to_root :
               block_hash_to_root'[h] = block_hash_to_root[h]
    BY <1>6, <2>1 DEF Put
  <2>4. None \in DOMAIN block_hash_to_root' /\ block_hash_to_root'[None] = EmptyFrontier
    BY <1>8, <2>3 DEF RootsOfChain
  <2>5. ASSUME NEW r \in DOMAIN historical_roots'
        PROVE  /\ historical_roots'[r] \in DOMAIN block_hash_to_root'
               /\ block_hash_to_root'[historical_roots'[r]] = r
    BY <1>8, <2>2, <2>3 DEF RootsOfChain
  <2>6. ASSUME NEW h \in DOMAIN block_hash_to_root'
        PROVE  /\ block_hash_to_root'[h] \in DOMAIN historical_roots'
               /\ historical_roots'[block_hash_to_root'[h]] = h
    BY <1>8, <2>2, <2>3 DEF RootsOfChain
  <2>7. ASSUME NEW h \in DOMAIN block_hash_to_root'
        PROVE  /\ Len(h) =< Len(orchard_chain')
               /\ \A i \in DOMAIN h : h[i] = orchard_chain'[i].body
    <3>1. CASE h = hash
      BY <1>2, <1>3, <1>7, <3>1
    <3>2. CASE h \in DOMAIN block_hash_to_root
      BY <1>2, <1>6, <3>2
    <3> QED
      BY <2>3, <3>1, <3>2
  <2> QED
    BY <2>4, <2>5, <2>6, <2>7 DEF RootsOfChain
<1> QED
  BY <1>9, <1>10

\* Disconnecting a block: no root of it is left, and the others stay.
LEMMA DisconnectRoots ==
    ASSUME PInv, DisconnectTip
    PROVE  RootsOfChain'
<1> DEFINE n == Len(orchard_chain)
<1>1. orchard_chain \in Seq(Block) /\ orchard_chain # << >> /\ orchard_chain' = SubSeq(orchard_chain, 1, Len(orchard_chain) - 1)
  BY DEF PInv, TInv, DisconnectTip
<1>2. /\ Len(orchard_chain') = n - 1 /\ n \in Nat \ {0}
      /\ \A i \in 1..(n - 1) : orchard_chain'[i] = orchard_chain[i]
  BY <1>1, FrontChain
<1>3. n \in 0..n
  BY <1>2
<1>4. /\ Tip \in BlockHash /\ Len(Tip) = n /\ DOMAIN Tip = 1..n
      /\ \A i \in 1..n : Tip[i] = orchard_chain[i].body
  BY <1>1, <1>3, HashAtType DEF Tip
<1>5. /\ historical_roots \in Maps(Frontier, BlockHash)
      /\ block_hash_to_root \in Maps(BlockHash, Frontier)
  BY DEF PInv, TInv, Pool, Pools
<1>6. ASSUME NEW h \in DOMAIN block_hash_to_root, h # Tip
      PROVE  /\ Len(h) =< n - 1
             /\ \A i \in DOMAIN h : h[i] = orchard_chain'[i].body
  <2>1. h \in Seq(Bodies) /\ Tip \in Seq(Bodies)
    BY <1>4, <1>5 DEF Maps, BlockHash
  <2>2. Len(h) \in Nat /\ DOMAIN h = 1..Len(h)
    BY <2>1, LenProperties
  <2>3. Len(h) =< n /\ \A i \in DOMAIN h : h[i] = orchard_chain[i].body
    BY DEF PInv, RootsOfChain
  <2>4. Len(h) # n
    <3> SUFFICES ASSUME Len(h) = n PROVE h = Tip
      BY <1>6
    <3>1. \A i \in 1..Len(h) : h[i] = Tip[i]
      BY <1>4, <2>2, <2>3
    <3> QED
      BY <1>4, <2>1, <3>1, SeqEqual
  <2>5. Len(h) =< n - 1
    <3>1. \A l, k \in Nat : l =< k /\ l # k => l =< k - 1
      OBVIOUS
    <3>2. Len(h) =< n
      BY <2>3
    <3> HIDE DEF n
    <3> QED
      BY <1>2, <2>2, <2>4, <3>1, <3>2
  <2>6. DOMAIN h \subseteq 1..(n - 1)
    BY <1>2, <2>2, <2>5
  <2> QED
    BY <1>2, <2>3, <2>5, <2>6
<1>7. Tip # None
  BY <1>2, <1>4 DEF None
<1>8. DeleteHistoricalRoot(Tip) /\ RootsOfChain
  BY DEF DisconnectTip, PInv
<1> HIDE DEF n
<1>9. CASE Tip \notin DOMAIN block_hash_to_root
  <2>1. historical_roots' = historical_roots /\ block_hash_to_root' = block_hash_to_root
    BY <1>8, <1>9 DEF DeleteHistoricalRoot
  <2>2. \A h \in DOMAIN block_hash_to_root :
            /\ Len(h) =< Len(orchard_chain')
            /\ \A i \in DOMAIN h : h[i] = orchard_chain'[i].body
    BY <1>2, <1>6, <1>9
  <2> QED
    BY <1>8, <2>1, <2>2 DEF RootsOfChain
<1>10. CASE Tip \in DOMAIN block_hash_to_root
  <2> DEFINE root == block_hash_to_root[Tip]
  <2>1. /\ historical_roots' = Delete(historical_roots, root)
        /\ block_hash_to_root' = Delete(block_hash_to_root, Tip)
    BY <1>8, <1>10 DEF DeleteHistoricalRoot
  <2>2. root \in DOMAIN historical_roots /\ historical_roots[root] = Tip
    BY <1>8, <1>10 DEF RootsOfChain
  <2>3. /\ DOMAIN historical_roots' = DOMAIN historical_roots \ {root}
        /\ \A r \in DOMAIN historical_roots' : historical_roots'[r] = historical_roots[r]
        /\ DOMAIN block_hash_to_root' = DOMAIN block_hash_to_root \ {Tip}
        /\ \A h \in DOMAIN block_hash_to_root' :
               block_hash_to_root'[h] = block_hash_to_root[h]
    BY <2>1 DEF Delete
  <2>4. None \in DOMAIN block_hash_to_root' /\ block_hash_to_root'[None] = EmptyFrontier
    BY <1>7, <1>8, <2>3 DEF RootsOfChain
  <2>5. ASSUME NEW r \in DOMAIN historical_roots'
        PROVE  /\ historical_roots'[r] \in DOMAIN block_hash_to_root'
               /\ block_hash_to_root'[historical_roots'[r]] = r
    BY <1>8, <2>2, <2>3 DEF RootsOfChain
  <2>6. ASSUME NEW h \in DOMAIN block_hash_to_root'
        PROVE  /\ block_hash_to_root'[h] \in DOMAIN historical_roots'
               /\ historical_roots'[block_hash_to_root'[h]] = h
    BY <1>8, <2>2, <2>3 DEF RootsOfChain
  <2>7. ASSUME NEW h \in DOMAIN block_hash_to_root'
        PROVE  /\ Len(h) =< Len(orchard_chain')
               /\ \A i \in DOMAIN h : h[i] = orchard_chain'[i].body
    BY <1>2, <1>6, <2>3
  <2> QED
    BY <2>4, <2>5, <2>6, <2>7 DEF RootsOfChain
<1> QED
  BY <1>9, <1>10

\* Connecting a block links the databases before and after it.
LEMMA ConnectLinked ==
    ASSUME PInv, NEW body \in Bodies, ConnectBlock(body)
    PROVE  Linked'
<1> DEFINE hash == Append(Tip, body)
           root == frontier \o body.actions
           block == [body |-> body, before |-> Pool]
           n == Len(orchard_chain)
<1>1. block \in Block /\ orchard_chain \in Seq(Block) /\ orchard_chain' = Append(orchard_chain, block)
  BY DEF PInv, TInv, Block, ConnectBlock
<1>2. /\ Len(orchard_chain') = n + 1 /\ n \in Nat /\ orchard_chain'[n + 1] = block
      /\ \A i \in 1..n : orchard_chain'[i] = orchard_chain[i]
  BY <1>1, AppendChain
<1>3. hash = Tip' /\ hash \in Seq(Bodies) /\ Len(hash) = n + 1
  BY TipAppend DEF PInv, BlockHash
<1>4. hash \notin DOMAIN block_hash_to_root
  BY <1>2, <1>3 DEF PInv, RootsOfChain
<1>5. Undone(Pool, hash, body, Pool')
  <2>1. /\ nullifiers' = nullifiers \cup Nullifiers(body)
        /\ Nullifiers(body) \cap nullifiers = {}
        /\ PutHistoricalRoot(hash, root)
    BY DEF ConnectBlock, NullifiersFresh
  <2>2. nullifiers' \ Nullifiers(body) = nullifiers
    BY <2>1
  <2> HIDE DEF hash, root
  <2>3. CASE root \in DOMAIN historical_roots
    BY <1>4, <2>1, <2>2, <2>3 DEF PutHistoricalRoot, Undone, Pool
  <2>4. CASE root \notin DOMAIN historical_roots
    <3>1. /\ historical_roots' = Put(historical_roots, root, hash)
          /\ block_hash_to_root' = Put(block_hash_to_root, hash, root)
      BY <2>1, <2>4 DEF PutHistoricalRoot
    <3>2. hash \in DOMAIN block_hash_to_root' /\ block_hash_to_root'[hash] = root
      BY <3>1 DEF Put
    <3>3. /\ historical_roots \in Maps(Frontier, BlockHash)
          /\ block_hash_to_root \in Maps(BlockHash, Frontier)
      BY DEF PInv, TInv, Pool, Pools
    <3>4. Delete(historical_roots', root) = historical_roots
      BY <2>4, <3>1, <3>3, DeletePut
    <3>5. Delete(block_hash_to_root', hash) = block_hash_to_root
      BY <1>4, <3>1, <3>3, DeletePut
    <3> QED
      BY <2>2, <3>2, <3>4, <3>5 DEF Undone, Pool
  <2> QED
    BY <2>3, <2>4
<1>6. ASSUME NEW m \in 1..n
      PROVE  Undone(orchard_chain'[m].before, HashAt(m)', orchard_chain'[m].body, After(m)')
  <2>1. HashAt(m)' = HashAt(m)
    BY <1>2 DEF HashAt
  <2>2. orchard_chain'[m] = orchard_chain[m]
    BY <1>2
  <2>3. After(m)' = orchard_chain'[m + 1].before
    BY <1>2 DEF After
  <2>4. orchard_chain'[m + 1].before = After(m)
    <3>1. CASE m = n
      BY <1>2, <3>1 DEF After
    <3>2. CASE m # n
      <4>1. m + 1 \in 1..n
        BY <1>2, <3>2
      <4> QED
        BY <1>2, <3>2, <4>1 DEF After
    <3> QED
      BY <3>1, <3>2
  <2> QED
    BY <2>1, <2>2, <2>3, <2>4 DEF PInv, Linked
<1>7. Undone(orchard_chain'[n + 1].before, HashAt(Len(orchard_chain))', orchard_chain'[n + 1].body, Pool')
  BY <1>2, <1>3, <1>5 DEF Tip
<1> SUFFICES ASSUME NEW m \in 1..Len(orchard_chain')
             PROVE  Undone(orchard_chain'[m].before, HashAt(m)', orchard_chain'[m].body, After(m)')
  BY DEF Linked
<1>8. CASE m = n + 1
  BY <1>2, <1>7, <1>8 DEF After
<1>9. m = n + 1 \/ m \in 1..n
  BY <1>2
<1> QED
  BY <1>6, <1>8, <1>9

\* What a disconnect leaves is what the block was connected to.
LEMMA DisconnectUndoes ==
    ASSUME PInv, DisconnectTip
    PROVE  /\ nullifiers' = orchard_chain[Len(orchard_chain)].before.nullifiers
           /\ historical_roots' = orchard_chain[Len(orchard_chain)].before.historical_roots
           /\ block_hash_to_root' = orchard_chain[Len(orchard_chain)].before.block_hash_to_root
<1> DEFINE block == orchard_chain[Len(orchard_chain)]
<1>1. orchard_chain \in Seq(Block) /\ orchard_chain # << >>
  BY DEF PInv, TInv, DisconnectTip
<1>2. Len(orchard_chain) \in 1..Len(orchard_chain)
  BY <1>1, EmptySeq, LenProperties
<1>3. Undone(block.before, Tip, block.body, Pool)
  BY <1>2 DEF PInv, Linked, After, Tip
<1>4. nullifiers' = nullifiers \ Nullifiers(block.body) /\ DeleteHistoricalRoot(Tip)
  BY DEF DisconnectTip
<1> QED
  BY <1>3, <1>4 DEF Undone, Pool, DeleteHistoricalRoot

LEMMA DisconnectLinked ==
    ASSUME PInv, DisconnectTip
    PROVE  Linked'
<1> DEFINE n == Len(orchard_chain)
<1>1. orchard_chain \in Seq(Block) /\ orchard_chain # << >> /\ orchard_chain' = SubSeq(orchard_chain, 1, Len(orchard_chain) - 1)
  BY DEF PInv, TInv, DisconnectTip
<1>2. /\ Len(orchard_chain') = n - 1 /\ n \in Nat \ {0}
      /\ \A i \in 1..(n - 1) : orchard_chain'[i] = orchard_chain[i]
  BY <1>1, FrontChain
<1> SUFFICES ASSUME NEW m \in 1..(n - 1)
             PROVE  Undone(orchard_chain'[m].before, HashAt(m)', orchard_chain'[m].body, After(m)')
  BY <1>2 DEF Linked
<1>3. HashAt(m)' = HashAt(m) /\ orchard_chain'[m] = orchard_chain[m]
  BY <1>2 DEF HashAt
<1>4. Undone(orchard_chain[m].before, HashAt(m), orchard_chain[m].body, orchard_chain[m + 1].before)
  BY <1>2 DEF PInv, Linked, After
<1>5. CASE m = n - 1
  <2>1. After(m)' = Pool' /\ m + 1 = n
    BY <1>2, <1>5 DEF After
  <2>2. /\ Pool'.nullifiers = orchard_chain[m + 1].before.nullifiers
        /\ Pool'.historical_roots = orchard_chain[m + 1].before.historical_roots
        /\ Pool'.block_hash_to_root = orchard_chain[m + 1].before.block_hash_to_root
    BY <2>1, DisconnectUndoes DEF Pool
  <2> QED
    BY <1>3, <1>4, <2>1, <2>2 DEF Undone
<1>6. CASE m # n - 1
  <2>1. m + 1 \in 1..(n - 1)
    BY <1>2, <1>6
  <2>2. After(m)' = orchard_chain[m + 1].before
    BY <1>2, <1>6, <2>1 DEF After
  <2> QED
    BY <1>3, <1>4, <2>2
<1> QED
  BY <1>5, <1>6

LEMMA PInvStep == PInv /\ [PoolNext]_pool_vars => PInv'
<1> SUFFICES ASSUME PInv, [PoolNext]_pool_vars PROVE PInv'
  OBVIOUS
<1>1. TInv'
  BY TypeStep DEF PInv
<1>2. ASSUME NEW body \in Bodies, ConnectBlock(body) PROVE PInv'
  BY <1>1, <1>2, ConnectRoots, ConnectLinked DEF PInv
<1>3. CASE DisconnectTip
  BY <1>1, <1>3, DisconnectRoots, DisconnectLinked DEF PInv
<1>4. CASE UNCHANGED pool_vars
  BY <1>1, <1>4 DEF PInv, RootsOfChain, Linked, After, Pool, HashAt, pool_vars
<1> QED
  BY <1>2, <1>3, <1>4 DEF PoolNext

LEMMA PInvAlways == PoolSpec => []PInv
  BY InitPInv, PInvStep, PTL DEF PoolSpec

\* The two maps of roots stay inverses of each other, and no root outlives the
\* block that it belongs to.
THEOREM RootsStayOfChain == PoolSpec => []RootsOfChain
<1>1. PInv => RootsOfChain
  BY DEF PInv
<1> QED
  BY <1>1, PInvAlways, PTL

\* Disconnecting a block restores the nullifiers and the roots to what they
\* were when it was connected, however many reorganisations came before.
THEOREM SetsRestored == PoolSpec => DisconnectRestoresSets
<1>1. PInv /\ [PoolNext]_pool_vars
        => [DisconnectTip =>
              LET before == orchard_chain[Len(orchard_chain)].before
              IN  /\ nullifiers' = before.nullifiers
                  /\ historical_roots' = before.historical_roots
                  /\ block_hash_to_root' = before.block_hash_to_root]_pool_vars
  BY DisconnectUndoes
<1> QED
  BY <1>1, PInvAlways, PTL DEF PoolSpec, DisconnectRestoresSets

-----------------------------------------------------------------------------
\* Nullifiers.
LEMMA BlockBody ==
    ASSUME TInv
    PROVE  /\ DOMAIN orchard_chain = 1..Len(orchard_chain) /\ Len(orchard_chain) \in Nat
           /\ \A i \in DOMAIN orchard_chain : orchard_chain[i].body \in Bodies
  BY TInvTypeOK, LenProperties DEF PoolTypeOK, TInv

LEMMA ConnectNullifiers ==
    ASSUME TInv, NullifiersRevealedOnce, NEW body \in Bodies, ConnectBlock(body)
    PROVE  NullifiersRevealedOnce'
<1> DEFINE block == [body |-> body, before |-> Pool]
           n == Len(orchard_chain)
<1>1. block \in Block /\ orchard_chain \in Seq(Block) /\ orchard_chain' = Append(orchard_chain, block)
  BY DEF TInv, Block, ConnectBlock
<1>2. /\ Len(orchard_chain') = n + 1 /\ n \in Nat /\ orchard_chain'[n + 1] = block
      /\ \A i \in 1..n : orchard_chain'[i] = orchard_chain[i]
      /\ DOMAIN orchard_chain' = 1..(n + 1) /\ DOMAIN orchard_chain = 1..n
  BY <1>1, AppendChain, LenProperties
<1>3. /\ nullifiers' = nullifiers \cup Nullifiers(body)
      /\ NullifiersFresh(body)
  BY DEF ConnectBlock
<1>4. DOMAIN orchard_chain' = DOMAIN orchard_chain \cup {n + 1}
  BY <1>2
<1>5. /\ orchard_chain'[n + 1].body = body
      /\ \A i \in DOMAIN orchard_chain : orchard_chain'[i].body = orchard_chain[i].body
  BY <1>2
<1> HIDE DEF n, block
<1>6. nullifiers' = UNION {Nullifiers(orchard_chain'[i].body) : i \in DOMAIN orchard_chain'}
  BY <1>3, <1>4, <1>5 DEF NullifiersRevealedOnce
<1>7. ASSUME NEW i \in DOMAIN orchard_chain, NEW k \in DOMAIN orchard_chain[i].body.actions
      PROVE  NullifierOf[orchard_chain[i].body.actions[k]] \in nullifiers
  BY DEF NullifiersRevealedOnce, Nullifiers
<1>8. ASSUME NEW k \in DOMAIN body.actions
      PROVE  NullifierOf[body.actions[k]] \notin nullifiers
  BY <1>3 DEF NullifiersFresh, Nullifiers
<1>9. ASSUME NEW i \in DOMAIN orchard_chain', NEW j \in DOMAIN orchard_chain',
             NEW k \in DOMAIN orchard_chain'[i].body.actions,
             NEW l \in DOMAIN orchard_chain'[j].body.actions,
             NullifierOf[orchard_chain'[i].body.actions[k]]
                 = NullifierOf[orchard_chain'[j].body.actions[l]]
      PROVE  i = j /\ k = l
  <2>1. CASE i = n + 1 /\ j = n + 1
    BY <1>3, <1>5, <1>9, <2>1 DEF NullifiersFresh
  <2>2. CASE i \in DOMAIN orchard_chain /\ j \in DOMAIN orchard_chain
    BY <1>5, <1>9, <2>2 DEF NullifiersRevealedOnce
  <2>3. CASE i = n + 1 /\ j \in DOMAIN orchard_chain
    BY <1>5, <1>7, <1>8, <1>9, <2>3
  <2>4. CASE i \in DOMAIN orchard_chain /\ j = n + 1
    BY <1>5, <1>7, <1>8, <1>9, <2>4
  <2> QED
    BY <1>4, <2>1, <2>2, <2>3, <2>4
<1> QED
  BY <1>6, <1>9 DEF NullifiersRevealedOnce

LEMMA DisconnectNullifiers ==
    ASSUME TInv, NullifiersRevealedOnce, DisconnectTip
    PROVE  NullifiersRevealedOnce'
<1> DEFINE n == Len(orchard_chain)
<1>1. orchard_chain \in Seq(Block) /\ orchard_chain # << >> /\ orchard_chain' = SubSeq(orchard_chain, 1, Len(orchard_chain) - 1)
  BY DEF TInv, DisconnectTip
<1>2. /\ Len(orchard_chain') = n - 1 /\ n \in Nat \ {0}
      /\ \A i \in 1..(n - 1) : orchard_chain'[i] = orchard_chain[i]
      /\ DOMAIN orchard_chain' = 1..(n - 1) /\ DOMAIN orchard_chain = 1..n
  BY <1>1, FrontChain, LenProperties
<1>3. /\ DOMAIN orchard_chain = DOMAIN orchard_chain' \cup {n} /\ n \notin DOMAIN orchard_chain'
      /\ \A i \in DOMAIN orchard_chain' : orchard_chain'[i].body = orchard_chain[i].body
  BY <1>2
<1>4. nullifiers' = nullifiers \ Nullifiers(orchard_chain[n].body)
  BY DEF DisconnectTip
<1> HIDE DEF n
<1>5. ASSUME NEW i \in DOMAIN orchard_chain'
      PROVE  Nullifiers(orchard_chain[i].body) \cap Nullifiers(orchard_chain[n].body) = {}
  BY <1>3 DEF NullifiersRevealedOnce, Nullifiers
<1>6. nullifiers' = UNION {Nullifiers(orchard_chain'[i].body) : i \in DOMAIN orchard_chain'}
  BY <1>3, <1>4, <1>5 DEF NullifiersRevealedOnce
<1> QED
  BY <1>3, <1>6 DEF NullifiersRevealedOnce

\* No note is spent twice on the chain, and the nullifiers are exactly those
\* that its blocks reveal, for any sequence of connects and disconnects.
THEOREM NoDoubleSpend == PoolSpec => []NullifiersRevealedOnce
<1>1. PoolInit => NullifiersRevealedOnce
  BY DEF PoolInit, NullifiersRevealedOnce
<1>2. TInv /\ NullifiersRevealedOnce /\ [PoolNext]_pool_vars => NullifiersRevealedOnce'
  <2> SUFFICES ASSUME TInv, NullifiersRevealedOnce, [PoolNext]_pool_vars
               PROVE  NullifiersRevealedOnce'
    OBVIOUS
  <2>1. CASE UNCHANGED pool_vars
    BY <2>1 DEF NullifiersRevealedOnce, pool_vars
  <2> QED
    BY <2>1, ConnectNullifiers, DisconnectNullifiers DEF PoolNext
<1>3. PInv => TInv
  BY DEF PInv
<1> QED
  BY <1>1, <1>2, <1>3, PInvAlways, PTL DEF PoolSpec

-----------------------------------------------------------------------------
\* Anchors.
LEMMA ConnectAnchors ==
    ASSUME PInv, AnchorsOfAncestors, NEW body \in Bodies, ConnectBlock(body)
    PROVE  AnchorsOfAncestors'
<1> DEFINE hash == Append(Tip, body)
           root == frontier \o body.actions
           block == [body |-> body, before |-> Pool]
           n == Len(orchard_chain)
<1>1. block \in Block /\ orchard_chain \in Seq(Block) /\ orchard_chain' = Append(orchard_chain, block)
  BY DEF PInv, TInv, Block, ConnectBlock
<1>2. /\ Len(orchard_chain') = n + 1 /\ n \in Nat /\ orchard_chain'[n + 1] = block
      /\ \A i \in 1..n : orchard_chain'[i] = orchard_chain[i]
      /\ DOMAIN orchard_chain' = 1..(n + 1) /\ DOMAIN orchard_chain = 1..n
  BY <1>1, AppendChain, LenProperties
<1>3. /\ DOMAIN orchard_chain' = DOMAIN orchard_chain \cup {n + 1} /\ orchard_chain'[n + 1].body = body
      /\ \A i \in DOMAIN orchard_chain : orchard_chain'[i].body = orchard_chain[i].body
  BY <1>2
<1>4. \A r \in DOMAIN historical_roots :
          r \in DOMAIN historical_roots' /\ historical_roots'[r] = historical_roots[r]
  <2>1. PutHistoricalRoot(hash, root)
    BY DEF ConnectBlock
  <2> HIDE DEF hash, root
  <2> QED
    BY <2>1 DEF PutHistoricalRoot, Put
<1>5. \A r \in DOMAIN historical_roots : Len(historical_roots[r]) =< n
  BY DEF PInv, RootsOfChain
<1>6. \A r \in DOMAIN historical_roots : Len(historical_roots[r]) \in Nat
  <2>1. \A r \in DOMAIN historical_roots : historical_roots[r] \in Seq(Bodies)
    BY DEF PInv, TInv, Pool, Pools, Maps, BlockHash
  <2> QED
    BY <2>1, LenProperties
<1>7. AnchorsValid(body)
  BY DEF ConnectBlock
<1> HIDE DEF n, block
<1>8. ASSUME NEW bundle \in body.anchors
      PROVE  /\ bundle.anchor \in DOMAIN historical_roots'
             /\ Len(historical_roots'[bundle.anchor]) < n + 1
  <2>1. bundle.anchor \in DOMAIN historical_roots
    BY <1>7 DEF AnchorsValid
  <2> QED
    BY <1>2, <1>4, <1>5, <1>6, <2>1
<1>9. ASSUME NEW i \in DOMAIN orchard_chain, NEW bundle \in orchard_chain'[i].body.anchors
      PROVE  /\ bundle.anchor \in DOMAIN historical_roots'
             /\ Len(historical_roots'[bundle.anchor]) < i
  BY <1>3, <1>4 DEF AnchorsOfAncestors
<1> QED
  BY <1>3, <1>8, <1>9 DEF AnchorsOfAncestors

LEMMA DisconnectAnchors ==
    ASSUME PInv, AnchorsOfAncestors, DisconnectTip
    PROVE  AnchorsOfAncestors'
<1> DEFINE n == Len(orchard_chain)
<1>1. orchard_chain \in Seq(Block) /\ orchard_chain # << >> /\ orchard_chain' = SubSeq(orchard_chain, 1, Len(orchard_chain) - 1)
  BY DEF PInv, TInv, DisconnectTip
<1>2. /\ Len(orchard_chain') = n - 1 /\ n \in Nat \ {0}
      /\ \A i \in 1..(n - 1) : orchard_chain'[i] = orchard_chain[i]
      /\ DOMAIN orchard_chain' = 1..(n - 1) /\ DOMAIN orchard_chain = 1..n
  BY <1>1, FrontChain, LenProperties
<1>3. n \in 0..n
  BY <1>2
<1>4. Len(Tip) = n
  BY <1>1, <1>3, HashAtType DEF Tip
<1>5. ASSUME NEW r \in DOMAIN historical_roots, historical_roots[r] # Tip
      PROVE  r \in DOMAIN historical_roots' /\ historical_roots'[r] = historical_roots[r]
  <2>1. DeleteHistoricalRoot(Tip) /\ RootsOfChain
    BY DEF DisconnectTip, PInv
  <2> QED
    BY <1>5, <2>1 DEF DeleteHistoricalRoot, Delete, RootsOfChain
<1> SUFFICES ASSUME NEW i \in DOMAIN orchard_chain', NEW bundle \in orchard_chain'[i].body.anchors
             PROVE  /\ bundle.anchor \in DOMAIN historical_roots'
                    /\ Len(historical_roots'[bundle.anchor]) < i
  BY DEF AnchorsOfAncestors
<1>6. i \in DOMAIN orchard_chain /\ i < n /\ orchard_chain'[i] = orchard_chain[i] /\ i \in Nat
  BY <1>2
<1>7. /\ bundle.anchor \in DOMAIN historical_roots
      /\ Len(historical_roots[bundle.anchor]) < i
  BY <1>6 DEF AnchorsOfAncestors
<1>8. Len(historical_roots[bundle.anchor]) \in Nat
  <2>1. historical_roots[bundle.anchor] \in Seq(Bodies)
    BY <1>7 DEF PInv, TInv, Pool, Pools, Maps, BlockHash
  <2> QED
    BY <2>1, LenProperties
<1>9. historical_roots[bundle.anchor] # Tip
  BY <1>2, <1>4, <1>6, <1>7, <1>8
<1> QED
  BY <1>5, <1>7, <1>9

\* Every anchor that a block of the chain relies on stays a historical root of
\* one of its proper ancestors.
THEOREM AnchorsStayKnown == PoolSpec => []AnchorsOfAncestors
<1>1. PoolInit => AnchorsOfAncestors
  BY DEF PoolInit, AnchorsOfAncestors
<1>2. PInv /\ AnchorsOfAncestors /\ [PoolNext]_pool_vars => AnchorsOfAncestors'
  <2> SUFFICES ASSUME PInv, AnchorsOfAncestors, [PoolNext]_pool_vars
               PROVE  AnchorsOfAncestors'
    OBVIOUS
  <2>1. CASE UNCHANGED pool_vars
    BY <2>1 DEF AnchorsOfAncestors, pool_vars
  <2> QED
    BY <2>1, ConnectAnchors, DisconnectAnchors DEF PoolNext
<1> QED
  BY <1>1, <1>2, PInvAlways, PTL DEF PoolSpec

-----------------------------------------------------------------------------
\* The frontier.

\* The frontier after the first i blocks is a root that they made, and no root
\* of theirs belongs to a larger tree.
LargestAt(i) ==
    /\ After(i).frontier \in DOMAIN After(i).historical_roots
    /\ \A root \in DOMAIN After(i).historical_roots :
           Len(root) =< Len(After(i).frontier)

\* Block i has a bundle; `None` counts, since Archive::new stores its frontier.
HasBundle(i) == i = 0 \/ orchard_chain[i].body.actions # << >>

\* The archive has the frontier after a block with a bundle, and a block without
\* one left the frontier as it was.
CheckpointAt(i) ==
    IF HasBundle(i)
    THEN /\ HashAt(i) \in DOMAIN orchard_frontiers
         /\ orchard_frontiers[HashAt(i)] = After(i).frontier
    ELSE After(i).frontier = orchard_chain[i].before.frontier

\* The archive has frontiers of blocks with a bundle only, on every branch.
OnlyBundlesArchived ==
    \A hash \in DOMAIN orchard_frontiers :
        hash # None => hash[Len(hash)].actions # << >>

Checkpointed ==
    /\ OnlyBundlesArchived
    /\ \A i \in 0..Len(orchard_chain) : LargestAt(i) /\ CheckpointAt(i)

\* It is so until a frontier is left behind.  From then on the frontier may be
\* of no block at all, and a block without a bundle may make a new root.
CInv == ~left_behind => Checkpointed

LEMMA CheckpointInit == PoolInit => CInv
<1> SUFFICES ASSUME PoolInit PROVE Checkpointed
  BY DEF CInv
<1>1. orchard_chain = << >> /\ Len(orchard_chain) = 0
  BY DEF PoolInit
<1>2. HashAt(0) = None /\ After(0) = Pool
  BY <1>1 DEF HashAt, None, After
<1>3. LargestAt(0) /\ CheckpointAt(0)
  BY <1>2 DEF PoolInit, LargestAt, CheckpointAt, HasBundle, Pool, EmptyFrontier
<1>4. OnlyBundlesArchived
  BY DEF PoolInit, OnlyBundlesArchived
<1>5. \A i \in 0..Len(orchard_chain) : i = 0
  BY <1>1
<1> QED
  BY <1>3, <1>4, <1>5 DEF Checkpointed

\* A bundle makes the tree larger than every tree before it.
LEMMA LargerRoot ==
    ASSUME PInv, LargestAt(Len(orchard_chain)), NEW body \in Bodies, body.actions # << >>
    PROVE  /\ Len(frontier \o body.actions) \in Nat
           /\ \A r \in DOMAIN historical_roots :
                 /\ Len(r) \in Nat /\ Len(r) < Len(frontier \o body.actions)
                 /\ r # frontier \o body.actions
<1> DEFINE root == frontier \o body.actions
<1>1. frontier \in Seq(Action) /\ body.actions \in Seq(Action)
  BY BodyType DEF PInv, TInv, Pool, Pools, Frontier
<1>2. /\ Len(root) > Len(frontier) /\ Len(frontier) \in Nat /\ Len(root) \in Nat
  BY <1>1, ConcatProperties, LenProperties, EmptySeq
<1>3. \A r \in DOMAIN historical_roots : Len(r) \in Nat
  <2>1. \A r \in DOMAIN historical_roots : r \in Seq(Action)
    BY DEF PInv, TInv, Pool, Pools, Maps, Frontier
  <2> QED
    BY <2>1, LenProperties
<1>4. \A r \in DOMAIN historical_roots : Len(r) =< Len(frontier)
  BY DEF LargestAt, After, Pool
<1> HIDE DEF root
<1>5. \A r \in DOMAIN historical_roots : Len(r) < Len(root) /\ r # root
  BY <1>2, <1>3, <1>4
<1> QED
  BY <1>2, <1>3, <1>5 DEF root

\* The new tip has its frontier archived under its own hash only if it has a
\* bundle.
LEMMA ConnectArchives ==
    ASSUME PInv, LargestAt(Len(orchard_chain)), NEW body \in Bodies, ConnectBlock(body)
    PROVE  /\ frontier' \in DOMAIN historical_roots'
           /\ \A r \in DOMAIN historical_roots' : Len(r) =< Len(frontier')
           /\ IF body.actions = << >>
              THEN frontier' = frontier /\ orchard_frontiers' = orchard_frontiers
              ELSE orchard_frontiers' = Put(orchard_frontiers, Append(Tip, body), frontier')
<1> DEFINE hash == Append(Tip, body)
           root == frontier \o body.actions
<1>1. PutHistoricalRoot(hash, root) /\ ArchiveFrontier(hash, root) /\ frontier' = root
  BY DEF ConnectBlock
<1>2. /\ frontier \in DOMAIN historical_roots
      /\ \A r \in DOMAIN historical_roots : Len(r) =< Len(frontier)
  BY DEF LargestAt, After, Pool
<1>3. CASE body.actions = << >>
  <2>1. frontier \in Seq(Action)
    BY DEF PInv, TInv, Pool, Pools, Frontier
  <2>2. root = frontier
    BY <1>3, <2>1, ConcatEmptySeq
  <2> HIDE DEF hash, root
  <2>3. historical_roots' = historical_roots /\ orchard_frontiers' = orchard_frontiers
    BY <1>1, <1>2, <2>2 DEF PutHistoricalRoot, ArchiveFrontier
  <2> QED
    BY <1>1, <1>2, <1>3, <2>2, <2>3
<1>4. CASE body.actions # << >>
  <2>1. /\ Len(root) \in Nat
        /\ \A r \in DOMAIN historical_roots :
              Len(r) \in Nat /\ Len(r) < Len(root) /\ r # root
    BY <1>4, LargerRoot
  <2> HIDE DEF root, hash
  <2>2. /\ historical_roots' = Put(historical_roots, root, hash)
        /\ orchard_frontiers' = Put(orchard_frontiers, hash, root)
    BY <1>1, <2>1 DEF PutHistoricalRoot, ArchiveFrontier
  <2>3. root \in DOMAIN historical_roots' /\ \A r \in DOMAIN historical_roots' : Len(r) =< Len(root)
    BY <2>1, <2>2 DEF Put
  <2> QED
    BY <1>1, <1>4, <2>2, <2>3 DEF hash
<1> QED
  BY <1>3, <1>4

LEMMA CheckpointConnect ==
    ASSUME PInv, Checkpointed, NEW body \in Bodies, ConnectBlock(body)
    PROVE  Checkpointed'
<1> DEFINE hash == Append(Tip, body)
           block == [body |-> body, before |-> Pool]
<1>0. PICK n \in Nat : n = Len(orchard_chain)
  BY LenProperties DEF PInv, TInv
<1>1. block \in Block /\ orchard_chain \in Seq(Block) /\ orchard_chain' = Append(orchard_chain, block)
  BY DEF PInv, TInv, Block, ConnectBlock
<1>2. /\ Len(orchard_chain') = n + 1 /\ n \in Nat /\ orchard_chain'[n + 1] = block
      /\ \A i \in 1..n : orchard_chain'[i] = orchard_chain[i]
  BY <1>0, <1>1, AppendChain
<1>3. /\ hash = Tip' /\ hash \in Seq(Bodies) /\ Len(hash) = n + 1
      /\ hash[n + 1] = body
  <2>1. hash = Tip' /\ hash \in Seq(Bodies) /\ Len(hash) = n + 1
    BY <1>0, TipAppend DEF PInv, BlockHash
  <2>2. Tip'[n + 1] = orchard_chain'[n + 1].body
    BY <1>2 DEF Tip, HashAt
  <2> QED
    BY <1>2, <2>1, <2>2
<1>4. n \in 0..n /\ LargestAt(n)
  BY <1>0, <1>2 DEF Checkpointed
<1>5. /\ frontier' \in DOMAIN historical_roots'
      /\ \A r \in DOMAIN historical_roots' : Len(r) =< Len(frontier')
      /\ IF body.actions = << >>
         THEN frontier' = frontier /\ orchard_frontiers' = orchard_frontiers
         ELSE orchard_frontiers' = Put(orchard_frontiers, hash, frontier')
  BY <1>0, <1>4, ConnectArchives
<1>6. ASSUME NEW i \in 0..n
      PROVE  After(i)' = After(i)
  <2>1. CASE i = n
    BY <1>0, <1>2, <2>1 DEF After
  <2>2. CASE i # n
    <3>1. i + 1 \in 1..n /\ i # n + 1
      BY <1>2, <2>2
    <3> QED
      BY <1>0, <1>2, <2>2, <3>1 DEF After
  <2> QED
    BY <2>1, <2>2
<1>7. After(n + 1)' = Pool'
  BY <1>2 DEF After
<1>8. ASSUME NEW i \in 0..n
      PROVE  HashAt(i)' = HashAt(i) /\ HashAt(i) # hash
  <2>1. HashAt(i)' = HashAt(i)
    BY <1>2 DEF HashAt
  <2>2. HashAt(i) # hash
    BY <1>0, <1>1, <1>2, <1>3, HashAtType
  <2> QED
    BY <2>1, <2>2
<1>9. OnlyBundlesArchived'
  <2>1. OnlyBundlesArchived
    BY DEF Checkpointed
  <2> HIDE DEF hash
  <2>2. \A h \in DOMAIN orchard_frontiers' :
            h \in DOMAIN orchard_frontiers \/ (h = hash /\ body.actions # << >>)
    BY <1>5 DEF Put
  <2> QED
    BY <1>2, <1>3, <2>1, <2>2 DEF OnlyBundlesArchived
<1>10. ASSUME NEW i \in 0..n
       PROVE  LargestAt(i)' /\ CheckpointAt(i)'
  <2>1. LargestAt(i) /\ CheckpointAt(i)
    BY <1>0 DEF Checkpointed
  <2>2. LargestAt(i)'
    BY <1>6, <2>1 DEF LargestAt
  <2>3. /\ HasBundle(i)' <=> HasBundle(i)
        /\ ~HasBundle(i) => orchard_chain'[i] = orchard_chain[i]
    BY <1>2 DEF HasBundle
  <2>4. HashAt(i) \in DOMAIN orchard_frontiers =>
            /\ HashAt(i) \in DOMAIN orchard_frontiers'
            /\ orchard_frontiers'[HashAt(i)] = orchard_frontiers[HashAt(i)]
    <3>1. HashAt(i) # hash
      BY <1>8
    <3> HIDE DEF hash
    <3> QED
      BY <1>5, <3>1 DEF Put
  <2>5. HashAt(i)' = HashAt(i) /\ After(i)' = After(i)
    BY <1>6, <1>8
  <2>6. CheckpointAt(i)'
    BY <2>1, <2>3, <2>4, <2>5 DEF CheckpointAt
  <2> QED
    BY <2>2, <2>6
<1>11. LargestAt(n + 1)'
  BY <1>5, <1>7 DEF LargestAt, Pool
<1>12. CheckpointAt(n + 1)'
  <2>1. HasBundle(n + 1)' <=> body.actions # << >>
    BY <1>2 DEF HasBundle
  <2>2. HashAt(n + 1)' = hash
    BY <1>2, <1>3 DEF Tip
  <2>3. CASE body.actions = << >>
    <3>1. After(n + 1)'.frontier = frontier /\ orchard_chain'[n + 1].before.frontier = frontier
      BY <1>2, <1>5, <1>7, <2>3 DEF Pool
    <3> QED
      BY <2>1, <2>3, <3>1 DEF CheckpointAt
  <2>4. CASE body.actions # << >>
    <3>1. hash \in DOMAIN orchard_frontiers' /\ orchard_frontiers'[hash] = frontier'
      <4> HIDE DEF hash
      <4> QED
        BY <1>5, <2>4 DEF Put
    <3>2. After(n + 1)'.frontier = frontier'
      BY <1>7 DEF Pool
    <3> QED
      BY <2>1, <2>2, <2>4, <3>1, <3>2 DEF CheckpointAt
  <2> QED
    BY <2>3, <2>4
<1>13. \A i \in 0..Len(orchard_chain') : i \in 0..n \/ i = n + 1
  BY <1>2
<1> QED
  BY <1>9, <1>10, <1>11, <1>12, <1>13 DEF Checkpointed

\* What a disconnect restores is the frontier that the block was connected to.
LEMMA CheckpointRestores ==
    ASSUME PInv, Checkpointed, DisconnectTip, ~LeavesBehind
    PROVE  frontier' = orchard_chain[Len(orchard_chain)].before.frontier
<1> DEFINE n == Len(orchard_chain)
           parent == HashAt(n - 1)
<1>1. orchard_chain \in Seq(Block) /\ n \in Nat \ {0}
  BY EmptySeq, LenProperties DEF PInv, TInv, DisconnectTip
<1>2. n - 1 \in 0..n /\ n \in 0..n /\ n - 1 # n /\ n # 0 /\ (n - 1) + 1 = n
  BY <1>1
<1>3. RestoreFrontier(parent)
  BY DEF DisconnectTip
<1>4. After(n - 1) = orchard_chain[n].before
  BY <1>2 DEF After
<1>5. CASE HasBundle(n - 1)
  <2>1. parent \in DOMAIN orchard_frontiers /\ orchard_frontiers[parent] = orchard_chain[n].before.frontier
    BY <1>2, <1>4, <1>5 DEF Checkpointed, CheckpointAt
  <2> QED
    BY <1>3, <2>1 DEF RestoreFrontier
<1>6. CASE ~HasBundle(n - 1)
  <2>1. n - 1 # 0 /\ orchard_chain[n - 1].body.actions = << >>
    BY <1>6 DEF HasBundle
  <2>2. n > 1
    <3>1. \A k \in Nat \ {0} : k - 1 # 0 => k > 1
      OBVIOUS
    <3> QED
      BY <1>1, <2>1, <3>1
  <2>3. orchard_chain[n].body.actions = << >>
    BY <2>1, <2>2 DEF LeavesBehind
  <2>4. frontier = orchard_chain[n].before.frontier
    <3>1. CheckpointAt(n) /\ ~HasBundle(n)
      BY <1>2, <2>3 DEF Checkpointed, HasBundle
    <3> QED
      BY <3>1 DEF CheckpointAt, After, Pool
  <2>5. Len(parent) = n - 1 /\ parent[n - 1] = orchard_chain[n - 1].body
    <3>1. n - 1 \in 1..(n - 1)
      BY <1>1, <2>2
    <3> QED
      BY <1>1, <1>2, <3>1, HashAtType
  <2>6. parent # None
    BY <2>1, <2>5 DEF None
  <2>7. parent \notin DOMAIN orchard_frontiers
    BY <2>1, <2>5, <2>6 DEF Checkpointed, OnlyBundlesArchived
  <2> QED
    BY <1>3, <2>4, <2>7 DEF RestoreFrontier
<1> QED
  BY <1>5, <1>6

LEMMA CheckpointDisconnect ==
    ASSUME PInv, Checkpointed, DisconnectTip, ~LeavesBehind
    PROVE  Checkpointed'
<1> DEFINE n == Len(orchard_chain)
<1>1. orchard_chain \in Seq(Block) /\ orchard_chain # << >> /\ orchard_chain' = SubSeq(orchard_chain, 1, Len(orchard_chain) - 1)
  BY DEF PInv, TInv, DisconnectTip
<1>2. /\ Len(orchard_chain') = n - 1 /\ n \in Nat \ {0}
      /\ \A i \in 1..(n - 1) : orchard_chain'[i] = orchard_chain[i]
  BY <1>1, FrontChain
<1>3. /\ orchard_frontiers' = orchard_frontiers
      /\ historical_roots' = orchard_chain[n].before.historical_roots
      /\ frontier' = orchard_chain[n].before.frontier
  BY DisconnectUndoes, CheckpointRestores DEF DisconnectTip
<1>4. ASSUME NEW i \in 0..(n - 1)
      PROVE  /\ After(i)'.frontier = After(i).frontier
             /\ After(i)'.historical_roots = After(i).historical_roots
  <2>0. i # n /\ i \in Nat
    BY <1>2
  <2>1. CASE i = n - 1
    <3>1. After(i)' = Pool' /\ After(i) = orchard_chain[n].before
      BY <1>2, <2>0, <2>1 DEF After
    <3> QED
      BY <1>3, <3>1 DEF Pool
  <2>2. CASE i # n - 1
    <3>1. i + 1 \in 1..(n - 1)
      BY <1>2, <2>2
    <3>2. After(i)' = orchard_chain'[i + 1].before /\ After(i) = orchard_chain[i + 1].before
      BY <1>2, <2>0, <2>2 DEF After
    <3> QED
      BY <1>2, <3>1, <3>2
  <2> QED
    BY <2>1, <2>2
<1>5. OnlyBundlesArchived'
  BY <1>3 DEF Checkpointed, OnlyBundlesArchived
<1>6. ASSUME NEW i \in 0..Len(orchard_chain')
      PROVE  LargestAt(i)' /\ CheckpointAt(i)'
  <2>1. i \in 0..(n - 1) /\ i \in 0..n
    BY <1>2
  <2>2. LargestAt(i) /\ CheckpointAt(i)
    BY <2>1 DEF Checkpointed
  <2>3. LargestAt(i)'
    BY <1>4, <2>1, <2>2 DEF LargestAt
  <2>4. HashAt(i)' = HashAt(i)
    BY <1>2, <2>1 DEF HashAt
  <2>5. /\ HasBundle(i)' <=> HasBundle(i)
        /\ ~HasBundle(i) => orchard_chain'[i] = orchard_chain[i]
    BY <1>2, <2>1 DEF HasBundle
  <2>6. CheckpointAt(i)'
    BY <1>3, <1>4, <2>1, <2>2, <2>4, <2>5 DEF CheckpointAt
  <2> QED
    BY <2>3, <2>6
<1> QED
  BY <1>5, <1>6 DEF Checkpointed

LEMMA CheckpointStep == PInv /\ CInv /\ [PoolNext]_pool_vars => CInv'
<1> SUFFICES ASSUME PInv, CInv, [PoolNext]_pool_vars PROVE CInv'
  OBVIOUS
<1>1. CASE UNCHANGED pool_vars
  BY <1>1 DEF CInv, Checkpointed, OnlyBundlesArchived, LargestAt, CheckpointAt,
              HasBundle, After, Pool, HashAt, pool_vars
<1>2. ASSUME NEW body \in Bodies, ConnectBlock(body) PROVE CInv'
  <2>1. left_behind' = left_behind
    BY <1>2 DEF ConnectBlock
  <2> QED
    BY <1>2, <2>1, CheckpointConnect DEF CInv
<1>3. CASE DisconnectTip
  <2>1. left_behind' = (left_behind \/ LeavesBehind)
    BY <1>3 DEF DisconnectTip
  <2> QED
    BY <1>3, <2>1, CheckpointDisconnect DEF CInv
<1> QED
  BY <1>1, <1>2, <1>3 DEF PoolNext

\* Until a block with a bundle is disconnected from one without, every
\* disconnect restores the frontier that the block was connected to, whatever
\* other branches the node was on before and wherever blocks without a bundle
\* are.
THEOREM FrontierRestored == PoolSpec => BundleFrontierRestored
<1>1. PInv /\ CInv /\ [PoolNext]_pool_vars
        => [DisconnectTip /\ ~left_behind'
              => frontier' = orchard_chain[Len(orchard_chain)].before.frontier]_pool_vars
  <2> SUFFICES ASSUME PInv, CInv, DisconnectTip, ~left_behind'
               PROVE  frontier' = orchard_chain[Len(orchard_chain)].before.frontier
    OBVIOUS
  <2>1. ~left_behind /\ ~LeavesBehind
    BY DEF DisconnectTip
  <2> QED
    BY <2>1, CheckpointRestores DEF CInv
<1> QED
  BY <1>1, CheckpointStep, CheckpointInit, PInvAlways, PTL DEF PoolSpec, BundleFrontierRestored
=============================================================================
