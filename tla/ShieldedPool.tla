---------------------------- MODULE ShieldedPool ----------------------------
(***************************************************************************)
(* The Orchard state of a node, over blocks that are connected and         *)
(* disconnected: lib/state/orchard.rs, the Orchard parts of                *)
(* lib/state/block.rs, and the frontiers that lib/archive.rs keeps for     *)
(* lib/node/net_task.rs to restore.                                        *)
(*                                                                         *)
(* A body is what its Orchard bundles say: the actions of all of them in   *)
(* order, and the anchor and spends flag of each.  An action stands for    *)
(* its note commitment.  A frontier is the sequence of note commitments    *)
(* appended so far, and so is its root, since roots do not collide.  A     *)
(* block hash commits to all ancestors: it is the sequence of bodies up to *)
(* the block, and <<>> is the `None` of Option<BlockHash>.                 *)
(*                                                                         *)
(* Connecting or disconnecting a block is one step: it happens inside one  *)
(* database transaction, which an error drops.                             *)
(***************************************************************************)
EXTENDS Naturals, Sequences

CONSTANTS
    Action,            \* Orchard actions
    NullifierOf,       \* the nullifier that each of them reveals
    Bodies,            \* the bodies that may be proposed
    FrontierCapacity,  \* how many commitments a frontier holds: 2^32
    MaxOrchardHeight          \* a bound: how many blocks are connected at once

Frontier == Seq(Action)
BlockHash == Seq(Bodies)
None == << >>
EmptyFrontier == << >>

Body == [actions : Seq(Action),
         anchors : SUBSET [anchor : Frontier, spends_enabled : BOOLEAN]]

\* A bundle has at least one action, and an action is in a bundle.
ASSUME BodiesAssumption ==
    /\ Bodies \subseteq Body
    /\ \A body \in Bodies : body.anchors = {} <=> body.actions = << >>
ASSUME NullifierAssumption == DOMAIN NullifierOf = Action
ASSUME BoundAssumption == FrontierCapacity \in Nat /\ MaxOrchardHeight \in Nat

VARIABLES
    frontier,            \* Orchard::frontier
    nullifiers,          \* Orchard::nullifiers
    historical_roots,    \* Orchard::historical_roots: root to block
    block_hash_to_root,  \* Orchard::block_hash_to_root: block to root
    orchard_frontiers,   \* Archive::orchard_frontiers: block to frontier
    orchard_chain,       \* bodies of the chain, each with the databases it
                         \* was connected to, which only properties read
    left_behind          \* history, which only properties read: a block with
                         \* a bundle was disconnected from one without

pool_vars == <<frontier, nullifiers, historical_roots, block_hash_to_root,
          orchard_frontiers, orchard_chain, left_behind>>

-----------------------------------------------------------------------------
\* DatabaseUnique::put and delete.
Put(map, key, value) ==
    [k \in DOMAIN map \cup {key} |-> IF k = key THEN value ELSE map[k]]
Delete(map, key) == [k \in DOMAIN map \ {key} |-> map[k]]

\* The hash of the n-th block of the chain, and State::tip.
HashAt(n) == [i \in 1..n |-> orchard_chain[i].body]
Tip == HashAt(Len(orchard_chain))

\* bundle.nullifiers() of every bundle in the body.
Nullifiers(body) == {NullifierOf[body.actions[i]] : i \in DOMAIN body.actions}

Pool == [frontier |-> frontier, nullifiers |-> nullifiers,
         historical_roots |-> historical_roots,
         block_hash_to_root |-> block_hash_to_root]

-----------------------------------------------------------------------------
\* Orchard::new, and what Archive::new stores for `None`.
PoolInit ==
    /\ frontier = EmptyFrontier
    /\ nullifiers = {}
    /\ historical_roots = [root \in {EmptyFrontier} |-> None]
    /\ block_hash_to_root = [hash \in {None} |-> EmptyFrontier]
    /\ orchard_frontiers = [hash \in {None} |-> EmptyFrontier]
    /\ orchard_chain = << >>
    /\ left_behind = FALSE

\* Mutant: an anchor may be the root that the block itself produces.
AnchorsValidSelf(body) ==
    \A bundle \in body.anchors :
        bundle.anchor \in DOMAIN historical_roots \cup {frontier \o body.actions}

\* State::validate_orchard_anchor for every bundle, before any is connected.
AnchorsValid(body) ==
    \A bundle \in body.anchors :
        /\ ~ (bundle.anchor = EmptyFrontier /\ bundle.spends_enabled)
        /\ bundle.anchor \in DOMAIN historical_roots

\* Mutant: all nullifiers are looked up before any is stored.
NullifiersFreshAtStart(body) == Nullifiers(body) \cap nullifiers = {}

\* The nullifier checks of connect_orchard, where each nullifier is stored
\* before the next one is looked up.
NullifiersFresh(body) ==
    /\ Nullifiers(body) \cap nullifiers = {}
    /\ \A i, j \in DOMAIN body.actions :
           NullifierOf[body.actions[i]] = NullifierOf[body.actions[j]] => i = j

\* Mutant: one commitment too many.
FrontierFitsAlmost(body) ==
    Len(frontier) + Len(body.actions) =< FrontierCapacity + 1

\* Frontier::append fails for a full tree.
FrontierFits(body) == Len(frontier) + Len(body.actions) =< FrontierCapacity

\* Mutant: a known root is stored again, for the block that repeats it.
PutHistoricalRootAlways(hash, root) ==
    /\ historical_roots' = Put(historical_roots, root, hash)
    /\ block_hash_to_root' = Put(block_hash_to_root, hash, root)

\* Mutant: a known root moves to the block that repeats it.
PutHistoricalRootMoved(hash, root) ==
    IF root = EmptyFrontier
    THEN UNCHANGED <<historical_roots, block_hash_to_root>>
    ELSE /\ historical_roots' = Put(historical_roots, root, hash)
         /\ block_hash_to_root' =
                Put(IF root \in DOMAIN historical_roots
                    THEN Delete(block_hash_to_root, historical_roots[root])
                    ELSE block_hash_to_root, hash, root)

\* Orchard::put_historical_root, with root the frontier after the block: it
\* stores nothing for a known root.
PutHistoricalRoot(hash, root) ==
    IF root \in DOMAIN historical_roots
    THEN UNCHANGED <<historical_roots, block_hash_to_root>>
    ELSE /\ historical_roots' = Put(historical_roots, root, hash)
         /\ block_hash_to_root' = Put(block_hash_to_root, hash, root)

\* connect_tip_: put_orchard_frontier, only for a new root.
ArchiveFrontier(hash, root) ==
    orchard_frontiers' = IF root \in DOMAIN historical_roots
                         THEN orchard_frontiers
                         ELSE Put(orchard_frontiers, hash, root)

\* connect_tip_, with State::apply_block: prevalidate, connect_prevalidated
\* and connect_orchard for every bundle.
ConnectBlock(body) ==
    LET hash == Append(Tip, body)
        root == frontier \o body.actions
    IN  /\ Len(orchard_chain) < MaxOrchardHeight
        /\ AnchorsValid(body)
        /\ FrontierFits(body)
        /\ NullifiersFresh(body)
        /\ frontier' = root
        /\ nullifiers' = nullifiers \cup Nullifiers(body)
        /\ PutHistoricalRoot(hash, root)
        /\ ArchiveFrontier(hash, root)
        /\ orchard_chain' = Append(orchard_chain, [body |-> body, before |-> Pool])
        /\ UNCHANGED left_behind

\* Orchard::delete_historical_root.
DeleteHistoricalRoot(hash) ==
    IF hash \in DOMAIN block_hash_to_root
    THEN /\ historical_roots' = Delete(historical_roots, block_hash_to_root[hash])
         /\ block_hash_to_root' = Delete(block_hash_to_root, hash)
    ELSE UNCHANGED <<historical_roots, block_hash_to_root>>

\* Mutant: the frontier of the block that is disconnected is restored.
RestoreFrontierOfTip(parent) ==
    frontier' = IF Tip \in DOMAIN orchard_frontiers
                THEN orchard_frontiers[Tip]
                ELSE frontier

\* disconnect_tip's put_frontier, for what the archive has for the parent.
RestoreFrontier(parent) ==
    frontier' = IF parent \in DOMAIN orchard_frontiers
                THEN orchard_frontiers[parent]
                ELSE frontier

\* The tip has a bundle and its parent has none: the archive need not have the
\* parent's frontier, since connecting the parent made no new root.
LeavesBehind ==
    /\ orchard_chain[Len(orchard_chain)].body.actions # << >>
    /\ Len(orchard_chain) > 1
    /\ orchard_chain[Len(orchard_chain) - 1].body.actions = << >>

\* disconnect_tip_, with State::disconnect_tip and disconnect_orchard for
\* every bundle.
DisconnectTip ==
    /\ orchard_chain # << >>
    /\ nullifiers' = nullifiers \ Nullifiers(orchard_chain[Len(orchard_chain)].body)
    /\ RestoreFrontier(HashAt(Len(orchard_chain) - 1))
    /\ DeleteHistoricalRoot(Tip)
    /\ orchard_chain' = SubSeq(orchard_chain, 1, Len(orchard_chain) - 1)
    /\ left_behind' = (left_behind \/ LeavesBehind)
    /\ UNCHANGED orchard_frontiers

PoolNext ==
    \/ \E body \in Bodies : ConnectBlock(body)
    \/ DisconnectTip

PoolSpec == PoolInit /\ [][PoolNext]_pool_vars

-----------------------------------------------------------------------------
\* The databases hold what their declared types allow (struct Orchard, and
\* Archive::orchard_frontiers), and the frontier fits in its tree.
PoolTypeOK ==
    /\ frontier \in Frontier
    /\ Len(frontier) =< FrontierCapacity
    /\ nullifiers \subseteq {NullifierOf[a] : a \in Action}
    /\ DOMAIN historical_roots \subseteq Frontier
    /\ historical_roots \in [DOMAIN historical_roots -> BlockHash]
    /\ DOMAIN block_hash_to_root \subseteq BlockHash
    /\ block_hash_to_root \in [DOMAIN block_hash_to_root -> Frontier]
    /\ DOMAIN orchard_frontiers \subseteq BlockHash
    /\ orchard_frontiers \in [DOMAIN orchard_frontiers -> Frontier]
    /\ Len(orchard_chain) =< MaxOrchardHeight
    /\ \A i \in DOMAIN orchard_chain : orchard_chain[i].body \in Bodies
    /\ left_behind \in BOOLEAN

\* No note is spent twice on the chain, whatever was disconnected in between,
\* and the nullifiers are those of the chain: none is left behind by a
\* disconnected block, where it would refuse a spend for ever, and none of a
\* connected block is missing (connect_orchard, disconnect_orchard).
NullifiersRevealedOnce ==
    /\ nullifiers = UNION {Nullifiers(orchard_chain[i].body) : i \in DOMAIN orchard_chain}
    /\ \A i, j \in DOMAIN orchard_chain :
           \A k \in DOMAIN orchard_chain[i].body.actions, l \in DOMAIN orchard_chain[j].body.actions :
               NullifierOf[orchard_chain[i].body.actions[k]]
                   = NullifierOf[orchard_chain[j].body.actions[l]] => i = j /\ k = l

\* The two maps of roots are inverses, both have an entry for `None`, and no
\* root outlives its block: every other entry is of a block on the chain
\* (put_historical_root, delete_historical_root).
RootsOfChain ==
    /\ None \in DOMAIN block_hash_to_root
    /\ block_hash_to_root[None] = EmptyFrontier
    /\ \A root \in DOMAIN historical_roots :
           /\ historical_roots[root] \in DOMAIN block_hash_to_root
           /\ block_hash_to_root[historical_roots[root]] = root
    /\ \A hash \in DOMAIN block_hash_to_root :
           /\ block_hash_to_root[hash] \in DOMAIN historical_roots
           /\ historical_roots[block_hash_to_root[hash]] = hash
           /\ Len(hash) =< Len(orchard_chain)
           /\ \A i \in DOMAIN hash : hash[i] = orchard_chain[i].body

\* Every anchor that a block of the chain relies on is still a historical
\* root, and belongs to a proper ancestor of that block: no reorganisation
\* leaves a spend without the tree that it was proved against
\* (validate_orchard_anchor, delete_historical_root).
AnchorsOfAncestors ==
    \A i \in DOMAIN orchard_chain :
        \A bundle \in orchard_chain[i].body.anchors :
            /\ bundle.anchor \in DOMAIN historical_roots
            /\ Len(historical_roots[bundle.anchor]) < i

\* Disconnecting a block restores the nullifiers and both maps of roots to
\* what they were when it was connected (disconnect_tip).
DisconnectRestoresSets ==
    [][DisconnectTip =>
         LET before == orchard_chain[Len(orchard_chain)].before
         IN  /\ nullifiers' = before.nullifiers
             /\ historical_roots' = before.historical_roots
             /\ block_hash_to_root' = before.block_hash_to_root]_pool_vars

\* Disconnecting a block restores the note commitment frontier that it was
\* connected to, from the archive where connecting the parent made a new root
\* and by leaving it alone where the block has no bundle, whatever other
\* branches left in the archive.  One thing breaks it, and is excluded here: a
\* block with a bundle that was disconnected from one without
\* (disconnect_tip; FrontierAlwaysRestored drops the exclusion and fails).
BundleFrontierRestored ==
    [][DisconnectTip /\ ~left_behind'
         => frontier' = orchard_chain[Len(orchard_chain)].before.frontier]_pool_vars

\* "The note commitments merkle frontier is not reverted, and must be restored
\* from a checkpoint" (disconnect_orchard): disconnecting a block restores the
\* frontier that it was connected to.  It does not: put_historical_root returns
\* a frontier to archive only for a new root, so that a parent without a bundle
\* has no checkpoint, and disconnect_tip then keeps the frontier of the block
\* that it disconnects.
FrontierAlwaysRestored ==
    [][DisconnectTip => frontier' = orchard_chain[Len(orchard_chain)].before.frontier]_pool_vars

=============================================================================
