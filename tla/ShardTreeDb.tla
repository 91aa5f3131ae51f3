---------------------------- MODULE ShardTreeDb ----------------------------
(***************************************************************************)
(* The wallet's note commitment tree in the database                       *)
(* (lib/types/orchard/shardtree_db.rs): the shards, and the checkpoints of *)
(* the blocks in three tables.  Wallet::connect_orchard_block and          *)
(* disconnect_orchard_block load all of it into a CachingShardStore, append *)
(* leaves and add a checkpoint or truncate to one, and store it again, in  *)
(* one transaction.  The tree and the cache are of the crate shardtree.    *)
(*                                                                         *)
(* A position is given as the number of leaves up to it, 0 for none, which *)
(* orders as the keys do.  A leaf is its block and its index there.  The   *)
(* tree of hashes over the leaves, its cap and the pruning of leaves that  *)
(* are not marked are left out, and so are the marks that a checkpoint     *)
(* removed, which the wallet never does.                                   *)
(***************************************************************************)
EXTENDS Naturals, FiniteSetsExt, SequencesExt

CONSTANTS
    WalletBlock, NoWalletBlock,
    SHARD_SIZE,          \* leaves of a shard, 2^SHARD_HEIGHT
    MaxLeaves            \* a bound: leaves of a block

ASSUME WalletBlockAssumption == NoWalletBlock \notin WalletBlock
ASSUME SizeAssumption == SHARD_SIZE \in Nat \ {0} /\ MaxLeaves \in Nat

VARIABLES
    synced,               \* the blocks that the wallet is synced to, the tip last
    tree_db,                  \* the database
    error                \* whether an operation failed

store_vars == <<synced, tree_db, error>>

Leaves(b, n) == [i \in 1..n |-> <<b, i>>]

-----------------------------------------------------------------------------
\* The leaves in shards, of which only the last may be short; and all of them,
\* by their positions.
Shard(leaves, i) ==
    SubSeq(leaves, (i - 1) * SHARD_SIZE + 1, Min({i * SHARD_SIZE, Len(leaves)}))
Shards(leaves) ==
    [i \in 1 .. (Len(leaves) + SHARD_SIZE - 1) \div SHARD_SIZE |-> Shard(leaves, i)]

\* TreeState: 0 for Empty, the number of leaves for AtPosition.
TreeState(shards) ==
    IF shards = << >> THEN 0 ELSE (Len(shards) - 1) * SHARD_SIZE + Len(Last(shards))

LeavesOf(shards) ==
    [pos \in 1..TreeState(shards) |->
        LET index == (pos - 1) \div SHARD_SIZE
        IN  shards[index + 1][pos - index * SHARD_SIZE]]

\* CheckpointId, and its order, which is the order of the keys and duplicates
\* of position_to_checkpoint_seq.
CheckpointId(pos, seq, tip) == [pos |-> pos, seq |-> seq, tip |-> tip]
CheckpointBefore(a, b) == a.pos < b.pos \/ (a.pos = b.pos /\ a.seq < b.seq)

\* ShardTreeDb::new: there is a checkpoint of the empty tree.
StoreInit ==
    /\ synced = << >>
    /\ tree_db = [shards |-> << >>,                       \* by index
             checkpoints |-> [tip \in {NoWalletBlock} |-> [pos |-> 0, seq |-> 0]],
             checkpoint_seq_to_tip |-> [seq \in {0} |-> NoWalletBlock],
             position_to_checkpoint_seq |-> {<<0, 0>>}]
    /\ error = FALSE

\* Mutant: the highest number is used again.
NextCheckpointSeqHighest(d) == Max(DOMAIN d.checkpoint_seq_to_tip)

\* next_checkpoint_seq
NextCheckpointSeq(d) == Max(DOMAIN d.checkpoint_seq_to_tip) + 1

\* get_checkpoint_id
GetCheckpointId(d, tip) ==
    CheckpointId(d.checkpoints[tip].pos, d.checkpoints[tip].seq, tip)

With(f, g) == [x \in DOMAIN f \cup DOMAIN g |-> IF x \in DOMAIN g THEN g[x] ELSE f[x]]
Without(f, S) == [x \in DOMAIN f \ S |-> f[x]]

\* add_checkpoint, of checkpoints of different tips: one that is there is kept,
\* and must be at this position.
AddCheckpoints(d, ids) ==
    LET new == {id \in ids : id.tip \notin DOMAIN d.checkpoints}
        OfTip(t) == CHOOSE id \in new : id.tip = t
        OfSeq(s) == CHOOSE id \in new : id.seq = s
        tips == [t \in {id.tip : id \in new} |-> [pos |-> OfTip(t).pos, seq |-> OfTip(t).seq]]
        seqs == [s \in {id.seq : id \in new} |-> OfSeq(s).tip]
    IN  [d EXCEPT !.checkpoints = With(@, tips),
                  !.checkpoint_seq_to_tip = With(@, seqs),
                  !.position_to_checkpoint_seq = @ \cup {<<id.pos, id.seq>> : id \in new}]
AddFails(d, id) ==
    id.tip \in DOMAIN d.checkpoints /\ d.checkpoints[id.tip].pos # id.pos

AfterCheckpoint(d, id) ==
    {ps \in d.position_to_checkpoint_seq :
        ps[1] > id.pos \/ (ps[1] = id.pos /\ ps[2] > id.seq)}

\* truncate_checkpoints_retaining
TruncateCheckpointsRetaining(d, id) ==
    LET after == AfterCheckpoint(d, id)
        seqs == {ps[2] : ps \in after}
    IN  [d EXCEPT !.checkpoints = Without(@, {d.checkpoint_seq_to_tip[s] : s \in seqs}),
                  !.checkpoint_seq_to_tip = Without(@, seqs),
                  !.position_to_checkpoint_seq = @ \ after]
TruncateFails(d, id) == id.tip \notin DOMAIN d.checkpoints \/ GetCheckpointId(d, id.tip) # id

\* truncate_shards removes those from an index; put_shard
TruncateShards(shards, index) == SubSeq(shards, 1, index)

-----------------------------------------------------------------------------
\* for_each_checkpoint, with the tip of each sequence number: the checkpoints,
\* and in the order of their IDs.
CheckpointIds(d) ==
    {CheckpointId(ps[1], ps[2], d.checkpoint_seq_to_tip[ps[2]]) :
        ps \in d.position_to_checkpoint_seq}
ForEachCheckpoint(d) ==
    LET ids == CheckpointIds(d)
    IN  [i \in 1..Cardinality(ids) |->
            CHOOSE id \in ids : Cardinality({other \in ids : CheckpointBefore(other, id)}) = i - 1]

\* load_shard_tree: CachingShardStore::load reads all shards and checkpoints.
Load(d) == [shards |-> d.shards, ids |-> CheckpointIds(d), deferred |-> << >>]

\* connect_orchard_bundle appends a leaf for each action (ShardTree::append),
\* into the last shard or new ones.
AppendLeaves(shards, leaves) == Shards(LeavesOf(shards) \o leaves)

\* ShardTree::checkpoint, which refuses an ID that is not after all others.
AddToCache(cache, id) ==
    IF \A other \in cache.ids : CheckpointBefore(other, id)
    THEN [cache EXCEPT !.ids = @ \cup {id}] ELSE cache

\* Mutant: the last shard is kept whole.
TruncateToCheckpointWhole(cache, id) ==
    LET index == IF id.pos = 0 THEN 0 ELSE (id.pos - 1) \div SHARD_SIZE
    IN  [shards |-> IF id.pos = 0 THEN << >> ELSE TruncateShards(cache.shards, index + 1),
         ids |-> {other \in cache.ids : ~CheckpointBefore(id, other)},
         deferred |-> <<[index |-> index, id |-> id]>>]

\* ShardTree::truncate_to_checkpoint: the shard of its position is cut.
TruncateToCheckpoint(cache, id) ==
    LET index == IF id.pos = 0 THEN 0 ELSE (id.pos - 1) \div SHARD_SIZE
        cut == IF id.pos = 0 THEN << >>
               ELSE <<SubSeq(cache.shards[index + 1], 1, id.pos - index * SHARD_SIZE)>>
    IN  [shards |-> TruncateShards(cache.shards, index) \o cut,
         ids |-> {other \in cache.ids : ~CheckpointBefore(id, other)},
         deferred |-> <<[index |-> index, id |-> id]>>]

\* store_shard_tree: CachingShardStore::flush replays what was truncated on
\* the database, then puts every shard and adds every checkpoint of the cache.
Replay(d, cache) ==
    IF cache.deferred = << >> THEN d
    ELSE [TruncateCheckpointsRetaining(d, cache.deferred[1].id) EXCEPT
             !.shards = TruncateShards(@, cache.deferred[1].index)]

Flush(d, cache) ==
    LET replayed == Replay(d, cache)
        kept == SubSeq(replayed.shards, Len(cache.shards) + 1, Len(replayed.shards))
    IN  AddCheckpoints([replayed EXCEPT !.shards = cache.shards \o kept], cache.ids)
FlushFails(d, cache) ==
    \/ cache.deferred # << >> /\ TruncateFails(d, cache.deferred[1].id)
    \/ \E id \in cache.ids : AddFails(Replay(d, cache), id)

-----------------------------------------------------------------------------
\* connect_orchard_block, of a block with n actions.
ConnectOrchardBlock(b, n) ==
    LET loaded == Load(tree_db)
        shards == AppendLeaves(loaded.shards, Leaves(b, n))
        id == CheckpointId(TreeState(shards), NextCheckpointSeq(tree_db), b)
        cache == AddToCache([loaded EXCEPT !.shards = shards], id)
        fails == FlushFails(tree_db, cache)
    IN  /\ b \notin Range(synced)
        /\ ~error
        /\ error' = fails
        /\ tree_db' = IF fails THEN tree_db ELSE Flush(tree_db, cache)
        /\ synced' = IF fails THEN synced ELSE Append(synced, b)

\* disconnect_orchard_block, of the tip.
DisconnectOrchardBlock ==
    LET prev == IF Len(synced) = 1 THEN NoWalletBlock ELSE synced[Len(synced) - 1]
        cache == TruncateToCheckpoint(Load(tree_db), GetCheckpointId(tree_db, prev))
        fails == prev \notin DOMAIN tree_db.checkpoints \/ FlushFails(tree_db, cache)
    IN  /\ synced # << >>
        /\ ~error
        /\ error' = fails
        /\ tree_db' = IF fails THEN tree_db ELSE Flush(tree_db, cache)
        /\ synced' = IF fails THEN synced ELSE Front(synced)

StoreNext == DisconnectOrchardBlock \/ \E b \in WalletBlock, n \in 0..MaxLeaves : ConnectOrchardBlock(b, n)

StoreSpec == StoreInit /\ [][StoreNext]_store_vars

-----------------------------------------------------------------------------
\* Tables, shards and chain have their types; no table has an entry that the
\* others lack, which min_checkpoint_id and the others report as inconsistent.
StoreTypeOK ==
    /\ synced \in Seq(WalletBlock)
    /\ error \in BOOLEAN
    /\ DOMAIN tree_db.checkpoint_seq_to_tip \subseteq Nat
    /\ Range(tree_db.checkpoint_seq_to_tip) = DOMAIN tree_db.checkpoints
    /\ tree_db.position_to_checkpoint_seq =
          {<<tree_db.checkpoints[t].pos, tree_db.checkpoints[t].seq>> : t \in DOMAIN tree_db.checkpoints}
    /\ \A t \in DOMAIN tree_db.checkpoints : tree_db.checkpoint_seq_to_tip[tree_db.checkpoints[t].seq] = t

\* The store never refuses what the wallet does: each ID that the tree has in
\* its cache is the one in the tables, though IDs of other blocks had the same
\* positions and sequence numbers before.
NeverRefused == ~error

\* The tables agree, and nothing is refused (add_checkpoint,
\* truncate_checkpoints_retaining).
StoreSound == StoreTypeOK /\ NeverRefused

\* By depth, the checkpoints are the blocks of the chain, and the leaves up to
\* each are those of the chain up to that block: the shards implement a stack
\* of trees, across reorgs, empty blocks, and sequence numbers used again.  The
\* tree of the tip has no other leaves: max_leaf_position, where the next leaf
\* goes, is that of the last checkpoint.
StackOf(d) ==
    LET ids == ForEachCheckpoint(d)
        leaves == LeavesOf(d.shards)
    IN  [i \in DOMAIN ids |->
            [tip |-> ids[i].tip,
             leaves |-> IF i = Len(ids) THEN leaves ELSE SubSeq(leaves, 1, ids[i].pos)]]
Trees == INSTANCE TreeStack WITH
    Block <- WalletBlock, NoBlock <- NoWalletBlock, stack <- StackOf(tree_db)
ImplementsStack == Trees!Spec

=============================================================================
