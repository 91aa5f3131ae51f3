# Thunder-Orchard: a verification project

Thunder-Orchard is a BIP300/BIP301 sidechain node: blocks are merge-mined
blindly on a mainchain (BMM), deposits come from the mainchain and withdrawals
go back to it in bundles, and next to the transparent utxo set there is an
Orchard shielded pool. This directory holds TLA+ models of the node, TLC
configurations that check them on small instances and TLAPS proofs.

## Inventory

| Component | State it keeps | Operations | Talks to |
| --- | --- | --- | --- |
| State, `lib/state/mod.rs` | tip, height, utxos, stxos, bundles, event-block logs, utreexo accumulator | validate, fill, connect, disconnect | everything |
| Two-way peg data, `lib/state/two_way_peg_data.rs` | pending bundle, bundle histories (`rollback.rs`), latest failed bundle, deposit and event-block logs | connect, disconnect: one handler per mainchain event and direction | net task |
| Blocks, `lib/state/block.rs`, `orchard.rs` | utxos, stxos, accumulator, frontier, roots, nullifiers | prevalidate, connect_prevalidated, disconnect_tip | net task |
| Archive, `lib/archive.rs` | headers, bodies, mainchain headers and infos, BMM results, accumulators, frontiers, skip lists | put_*, ancestry, better_tip | net task, peers, node |
| MemPool, `lib/mempool.rs` | transactions, spent utxos, used nullifiers | put, delete, connect_block, regenerate_proofs | node, net task |
| Net task, `lib/node/net_task.rs` | mailbox, descendant tips, request sources | reorg_to_tip, handle_response, run | archive, state, mempool, peers, mainchain task |
| Mainchain task, `lib/node/mainchain_task.rs` | request queue | request_ancestor_infos | enforcer, archive |
| Net, `lib/net/mod.rs` | active peers, known peers | connect_peer, accept_incoming, remove_active_peer, push_tx | net task, connections |
| Peer connection, `lib/net/peer/` | peer states, request queue, channel pool, mailbox | heartbeats, requests, responses, handle_peer_state | archive, state, net task |
| Node, `lib/node/mod.rs` | handles of the above | submit_transaction, get_transactions, submit_block | all |
| Wallet, `lib/wallet/mod.rs`, `types/orchard/shardtree_db.rs` | own utxos, notes, shard tree | connect and disconnect blocks, create transactions | app |
| Miner, `lib/miner.rs` | one block template | attempt_bmm, confirm_bmm | enforcer |
| App, CLI, RPC | none of their own that matters here | | node, wallet |

What is hard in it:

* *Undo.* Every connected block can be disconnected, and a mainchain event is
  undone by a handler of its own that must find exactly what the connecting
  handler left. Several databases describe the same thing (utxos and
  accumulator, pending bundle and bundle history, latest failure and its
  stamp) and must agree after any sequence of connects and disconnects.
* *Failure.* A handler that fails half-way must leave nothing behind: its
  database transaction is dropped, and the net task ends.
* *Concurrency.* Connection tasks, the net task, the mainchain task and RPC
  threads read and write the same databases, each in transactions of its own.
* *Ordering.* Heartbeats, responses, connection ends and reconnections reach
  the net task in any order.

## Plan

1. `RollBack`, `TwoWayPeg`: mainchain events, connect and disconnect, with
   `TwoWayPegProofs` (done).
2. `ShieldedPool`: frontier, roots and nullifiers over connects and
   disconnects, with `ShieldedPoolProofs` (done).
3. `MemPool`: the mempool together with a chain that grows and shrinks, with
   `MemPoolProofs` (done).
4. `Archive`: ancestry, skip lists, BMM results, the better tip, with
   `ArchiveProofs` (done).
5. `Peers`: active peers, connections, timeouts and reconnections (done).
6. `NetSync`: how a node follows its peers: connection tasks, request queues,
   net task, mainchain task, submit_block (done).
7. `TreeStack`, `ShardTreeDb`: the wallet's note commitment tree as a stack, and
   the database that implements it (done).
8. `Wallet`: the tables of the wallet next to a chain with reorgs, and the
   transactions it makes (done).
9. `Miner`: calls of `mine` that race each other and the mainchain (done).
10. Proofs about the safety of `Peers`, `Miner`, `NetSync` and `MemPool`, the
    restored frontier of `ShieldedPool`, that `ShardTreeDb` implements
    `TreeStack`, and that the lookups of `Archive` are exact (done).
11. Proofs that the databases of `TwoWayPeg` agree, that connecting does not
    panic and that disconnecting undoes a block (done).

How the modules fit together: `NetSync` takes the order of tips from `Archive`,
and says when blocks are connected and disconnected, which `TwoWayPeg`,
`ShieldedPool` and `MemPool` follow into the databases. `Peers` says which
connections there are. `Wallet` uses the tree that `TreeStack` specifies, and
`Miner` submits what `NetSync` and `Archive` then judge.

## Modules

Every component module states its constants and their assumptions, one action
per operation, and its properties. Operators marked "Mutant" are the code with
a plausible slip; each property is violated when one of them takes the place of
the operator after it. A property may be the conjunction of several named parts
about one subject. MC modules give constants their values.

Two runs check several modules that have no variable in common: `state_reorg`
(`MCState`) is about the two-way peg, the shielded pool and the wallet's tree,
`archive_mempool` (`MCArchiveMemPool`) about the archive and the memory pool. In
a behaviour of such a run one module moves, as the variable `part` says, and the
others stay in their initial states. Every behaviour of each module is one of
the run, each property reads the variables of one module, and none of them
depends on steps that leave those alone; so the run says of each module what a
run of its own would. Names that would clash carry the module in them
(`PoolInit`, `StoreNext`, `ArchiveSpec`).

### `RollBack`

`lib/state/rollback.rs`: a history of values with the height at which each was
set. A sequence of stamped values; the empty one stands for an absent entry.

### `TwoWayPeg`

The databases of `State` that mainchain events touch are the record `db`; what
was last committed is `committed`. `chain` holds what the archive keeps of each
connected block, and a copy of the databases from before it, which only
properties read (and the accumulator, which `disconnect_tip` restores from the
archive). `main` is the sequence of mainchain events that the active chain has
applied, each with the position of its mainchain block. `txn` holds the locals
of `connect` and `disconnect`. `defects` is a history that only properties read:
which of two cases, in which the code goes wrong, a behaviour has met.
`"reported_first"`: a block collected a bundle that the mainchain had reported
before (`CollectsReported`). `"genesis_wraps"`: a build without overflow checks
disconnected genesis and its events (`GenesisRecords`).

| Action | Code |
| --- | --- |
| `ConnectBody` | `State::apply_block`: the body's effect on utxos, stxos, accumulator |
| `ConnectDeposit` | `connect_event`, deposit |
| `ConnectSubmitted` | `connect_withdrawal_bundle_submitted`, all five ways out |
| `ConnectConfirmed`, `ConnectFailed` | their handlers, "already applied" included |
| `ConnectOutcomeUnexpected` | the assertions and errors of both |
| `FinishConnect` | the tail of `connect`: logs, collection, accumulator, commit |
| `BeginDisconnect` | `disconnect_tip_`: which events to undo |
| `DisconnectDeposit`, `DisconnectSubmitted`, `DisconnectConfirmed`, `DisconnectFailed` | the handlers of `disconnect_event` |
| `FinishDisconnect` | the tail of `disconnect`, then `disconnect_tip` and commit |
| `Restart` | the node is started after the net task ended |

Every `?` and every assertion is an `Abort`: the transaction is dropped and the
net task ends with `"error"` or `"panicked"`.

Abstractions: an m6id is the pair of the height at which the bundle was
collected and the utxos that it spends, which is what the bundle commits to.
Amounts are left out; which withdrawals fit in a bundle is the constant
`Selected`. A leaf of the accumulator is its outpoint. A mainchain block is its
position among the mainchain blocks with events. Outpoints commit to their
transaction, so a body never creates one that exists or existed on this chain.
The code may disconnect and connect several blocks in one transaction; the
model commits each block. That adds committed states and removes none, so
the invariants carry over; where the code really commits is modelled in
`MemPool`.

The mainchain (external) submits a bundle that is not in flight, reports the
outcome of one that is, and may report an outcome twice to the same sidechain
block, which the handlers expect ("already applied"). It submits bundles that
were collected on this chain or on one that was abandoned, and those of
`Proposed`, which other nodes collected, or nobody: they may be what a block of
this chain collects later.

Bounds: `MaxHeight` blocks above genesis, `MaxEvents` applied events, `MaxBody`
outpoints per body, `MaxLeftOver` times that a left-over bundle is collected
again (see below; each time makes its history longer). With three blocks and
four events, a bundle is collected, submitted and fails, the next one spends its
withdrawals again and is submitted and confirmed, with disconnects between any
two of these; two withdrawals let a block collect a second bundle next to the
first. A failure gap of 1 lets the next bundle be collected at once or one block
later. The two withdrawals are interchangeable (`MCSymmetry`). A behaviour ends
when it has more than `MaxReported` events about the bundle of `Proposed`: with 2
it is reported, and confirmed or failed, before or after it is collected.
Behaviours of a build without overflow checks end after genesis was
disconnected (`MCBeforeWrap`); nothing is claimed of what follows.

| Run | What it shows |
| --- | --- |
| `state_reorg` | one deposit, two withdrawals and a bundle that the mainchain may report before or after a block collects it, every order of events and reorgs: types, `UnspentOrSpent`, `PendingIsCollected`; and, until a defect is met, `SubmittedFundsLocked`, `DatabasesAgree` (the accumulator with the utxos, the bundle histories with what the mainchain awaits, the latest failure with its bundle), `ConnectNeverPanics`, and `DisconnectRestores`: a disconnect that commits restores every database, but for left-over bundles |
| `leftover` | **violated**: a block that applies the submission of the pending bundle and collects the next one is not undone: `DisconnectRoundTrips` |
| `parent_panic` | **violated**: disconnecting a block whose parent applied events panics |
| `collision` | **violated**: `OutcomeIsAwaited`, the assertion on the outcome of a bundle, fails if a block collected the bundle after the mainchain had reported it |

The run `leftover`: undoing the submission makes the first bundle the pending one
again, over the second, and the tail of `disconnect` only looks at the pending
bundle, which has an earlier height. So the second stays in
`withdrawal_bundles` with the status Pending, though nothing points to it. When
the block is connected again it collects the same bundle, and one more Pending
is pushed on its history. If the mainchain reports such a bundle as submitted
while it is not pending, the block is refused with an error, where a node that
never connected the block would take the bundle for an unknown one.
`DisconnectRestores` says that this is all that can be left: every other
database is restored exactly, and an entry that is not restored is that of a
bundle of this or a greater height to which nothing ever happened but being
collected (`LeftOver`).

The run `collision`: the mainchain reports the submission of a bundle that this
node does not know, and the bundle is recorded as unknown and
SubmittedUnexpected. Then a block collects the very same bundle (same height and
withdrawals, hence the same m6id). The tail of `connect` has a branch for an
entry that is there: the bundle becomes a known one, and Pending is pushed over
SubmittedUnexpected. The withdrawals stay utxos, and when the mainchain confirms
or fails the bundle, the assertion that its last status is Submitted or
SubmittedUnexpected fails. The net task ends, and does so whenever it connects
that block again. So from such a collection on `SubmittedFundsLocked`,
`DatabasesAgree`, `ConnectNeverPanics` and `DisconnectRestores` claim nothing,
which is their condition on `defects`. `UnspentOrSpent` and `PendingIsCollected`
are checked after it as well.

The passing run goes on where the violations above are: a panic aborts the
transaction, and the run continues from the committed databases. Two more
observations have no run of their own. A block that applied events of two
mainchain blocks cannot be disconnected either (it compares the recorded last
one with the first). In a build without overflow checks, disconnecting genesis
keeps its deposits: `height - 1` wraps around, so no event is undone. That is
the other case of `defects`; a build with overflow checks panics instead.

### `TwoWayPegProofs`

`TypeCorrect` proves `TypeOK`. `FundsInvariant` proves the inductive invariant
`FundsInv`, and from it follow `NeverUnspentAndSpent`, `FundsStayLocked` and
`PendingStaysCollected`, for any sets of deposits and withdrawals, any bundles
proposed on the mainchain, any selection of withdrawals, any failure gap, either
build and any length of chain. None of them has a hypothesis on what the
mainchain reports. `FundsInv` is the types, and `IInv` until a block collects a
bundle that was reported before; the three theorems hold until then, and the run
`collision` shows what happens after. `DefectsGrow`, that a defect met stays
recorded, makes this inductive.

None of the three properties is inductive: undoing an event relies on the status
before it. So `IInv` speaks of

* the whole history of a collected bundle with withdrawals (`History`): Pending,
  Submitted and SubmittedUnexpected never follow Submitted or Confirmed, and
  SubmittedUnexpected never follows Pending;
* what is locked: the utxos of a Submitted or Confirmed bundle are its stxos
  (`Locked`), and so are those that an unknown bundle took when it was
  confirmed (`UnknownLocked`);
* the bodies: what each block of the chain spent is still spent by a
  transaction, and no two blocks spent the same (`BodiesGood`);
* the committed databases, for the committed part of the chain, since every
  error falls back to them.

The proof has a lemma per update (`Spend`, `Unspend`, `PushStatus`,
`PopStatus`), a lemma per action and one step per conjunct that the action can
disturb.

`RecordsInvariant` proves a second invariant, `RecordsInv`, and from it follow
`DatabasesAlwaysAgree`, `ConnectDoesNotPanic` and `DisconnectIsUndo`, that is,
the rest of what `state_reorg` checks of the two-way peg. `RecordsInv` is
`FundsInv`, and `RInv` until one of the two defects is met: the theorems hold of
every behaviour up to the first of them, and no further.

What a disconnect finds is only known from what the connect of the same block
did, possibly many blocks ago, so `RInv` says how the databases came about:

* for every block of the chain, the databases after it are those kept from
  before it with its body applied and its events pushed (`Since`, `Progress`).
  There is a function from the statuses that the block pushed to the events that
  set them, increasing in every history, and the same for the latest failures
  (`Grown`, `FailedGrown`): so the event to undo next is the last status of its
  bundle, or changed nothing. At most one entry is that of a bundle the block
  collected, and left-over ones are the exception (`Extra`);
* the databases between two blocks are `Sound`: every history is one that the
  handlers can produce (`Shapes`), an stxo is of a bundle exactly if the
  bundle's entry says so (`Held`) and of a body exactly if a block of the chain
  spent it (`RegularIn`), there are the deposits of the applied events and no
  others, nothing is stamped with a height above the tip, and the three parts of
  `DatabasesAgree` hold;
* inside a connect the same holds of the events handled so far (`Connecting`),
  inside a disconnect of those not yet undone (`Disconnecting`), where also the
  records to be removed are bounded by the locals (`Met`, `Lowest`), which is why
  a disconnect that passes its assertions has undone the events of its own block
  and no others (`AllUndone`);
* the mainchain's events are in the order of its blocks and no deposit comes
  twice (`MainGood`).

The handlers enter through two lemmas: `ConnectEventHandled` (each one pushes a
status, changes nothing or aborts) and `DisconnectEventUndone` (each one pops it,
skips or aborts). The rest of the proof speaks of pushes and pops only.

### `ShieldedPool`

The four databases of `state/orchard.rs` and the archived frontiers are the
variables; `orchard_chain` has the bodies of the active chain, each with a copy
of the pool from before it, which only properties read. So is `left_behind`: a
block with a bundle was disconnected from a parent without one (`LeavesBehind`).

| Action | Code |
| --- | --- |
| `ConnectBlock` | `connect_tip_`: anchors validated against the roots before the block, nullifiers one by one, commitments appended, root and frontier stored |
| `DisconnectTip` | `disconnect_tip_`: nullifiers and root deleted, and the frontier restored from the archive if it has one for the parent |

Abstractions: a body is the actions of its bundles in order, and the anchor and
spends flag of each bundle. An action stands for its note commitment; a frontier
is the sequence of commitments and its own root; a block hash is the sequence of
bodies up to the block. Proofs, signatures and values are cryptography and
arithmetic that the pool does not depend on. One block is one step, because it
happens inside one database transaction.

Bounds: `FrontierCapacity` 3 instead of 2^32, so that a block overflows it;
`MaxOrchardHeight` 3 blocks, enough for a transparent block between two shielded
ones and a fork below it; `MaxArchived` 4 archived frontiers, the empty one and
those of three blocks on one chain or on two (the archive never forgets).

| Run | What it shows |
| --- | --- |
| `state_reorg` | blocks with and without bundles: no nullifier is revealed twice on a chain, the two maps of roots are inverses and hold the roots of the chain, every anchor is a root of a proper ancestor, and a disconnect restores nullifiers and roots, whatever happened before; the frontier too (`BundleFrontierRestored`), until `left_behind` |
| `frontier` | **violated**: `FrontierAlwaysRestored`, that a disconnect restores the frontier |

The run `frontier`: `connect_tip_` archives no frontier for a block without a new
root, and a block without a bundle has none. When a block with a bundle on top
of it is disconnected, `disconnect_tip` finds no frontier for the parent and
leaves the commitments of the disconnected block in the tree. The next shielded
block then has a root that no other node agrees with. Two blocks do it, the
first of them genesis. `BundleFrontierRestored` says that this is the only way
in which a frontier is not restored: chains of blocks with and without bundles
are restored, whatever other branches left in the archive, as long as no block
with a bundle is disconnected from a parent without one. After that nothing is
claimed of frontiers: once a tree with such leftovers has been archived, and its
block is connected again, the tree goes back to the leftovers.

### `ShieldedPoolProofs`

All properties of the run, for any bodies, any number of blocks and any
capacity. The inductive invariant is `PInv`: types (`TInv`), `RootsOfChain`, and
`Linked`, that undoing each block on what the pool was after it gives the copy
kept with the block, without which nothing says what a disconnect returns to.
`NullifiersRevealedOnce` and `AnchorsOfAncestors` are inductive on top of it.
`FrontierRestored` proves `BundleFrontierRestored` from one more invariant,
`Checkpointed`, which holds until `left_behind` (`CInv`): for every block of the
chain, with a bundle the archive has the frontier after it, and without one the
frontier is that before it (`CheckpointAt`); no historical root of the time
belongs to a larger tree (`LargestAt`); and on every branch, only blocks with a
bundle are archived (`OnlyBundlesArchived`). The second makes the first
inductive: it is why the root of the next block with a bundle is new and its
frontier is archived, over what a former visit of the same block may have left.
The third is why disconnecting a block without a bundle restores nothing wrong.

### `MemPool`

`db` is what the writer of the database sees and `committed` what readers see;
they differ during the write transaction of a reorg, whose progress is `phase`.
`accepted` has the transactions that connection tasks validated and sent to the
net task, which stores them later. `net_task` is `"running"` or what ended it.

| Action | Code |
| --- | --- |
| `SubmitTransaction`, `RemoveFromMempool`, `GetTransactions` | the functions of `Node` of these names |
| `AcceptTransaction` | `handle_push_tx`, in a connection task |
| `NewTransaction` | the net task stores what a connection task sent |
| `DisconnectTip` | `disconnect_tip_`: undo, put the transactions back, make all proofs again |
| `ConnectBlock` | `connect_tip_`: validate, apply, `MemPool::connect_block` |
| `Commit` | the commits of `reorg_to_tip`, between blocks or at the end |
| `Restart` | the node is started again |

Abstractions: a transaction is its inputs, outputs, nullifiers and anchor; an
anchor is the set of transactions with a bundle up to a block; the accumulator's
leaves are the utxos, and a proof can be made exactly for leaves (external).
`SigopsLimit` counts authorizations, `Number` is what a template takes. The
instance has conflicts by utxo (a, b) and by nullifier (b, n), a chain of
transactions (a, c) and a transaction whose anchor exists only after another
one (s); with `MaxHeight` 3 a reorg disconnects and connects several blocks,
`SigopsLimit` 1 makes some bodies too large, and with `MaxAccepted` 2 two
transactions that conflict are on their way to the net task together.

| Run | What it shows |
| --- | --- |
| `archive_mempool` | over every interleaving of pushes, submissions, removals, templates and reorgs: the indexes are exactly those of the pooled transactions, everything pooled spends existing utxos, a reorg loses no transaction, a block is refused for nothing in the pool but the conflicts below, and the two ways to connect a block agree |
| `mempool_conflict` | **violated**: `ConflictsRemoved`, "Remove conflicting txs and regenerate proofs after applying a block": a transaction that spends an input of the block stays, its proof cannot be made again, and the valid block is refused |

The pool can keep a valid block from being connected or disconnected, which
ends the net task: if a pooled transaction spends an input of another one in the
block (`connect_block` removes conflicts by nullifier only, and the proof cannot
be made again), and if one spends an output of the tip or reveals a nullifier of
it when the tip is disconnected. `RefusedForConflicts` says that there is no
other way; the run goes on from the dropped transaction. `ConnectAgrees`
compares `State::connect_block`, which applies one transaction after the other,
with `apply_block`, which collects all changes and sorts them, on every body
that `validate_block` lets through and in every order.

### `MemPoolProofs`

All properties of the run, for any transactions, conflicts and bounds. What
is assumed of transactions: an outpoint belongs to one transaction
(`OutPointAssumption`), and one that has outputs spends something
(`SpendAssumption`, as `validate_filled_transaction` refuses outputs that are
worth more than the inputs; a transaction whose outputs are all worth nothing is
left out). A body has finitely many transactions.

`MemPoolTypeCorrect`, `IndexesStayExact` and `PooledStaysUnspent` rest on `IInv`.
It asks `Sound` of both `db` and `committed`, because an error returns to the
latter: types, exact indexes, unspent inputs, and that the transactions of each
body on the chain do not conflict (`BodiesConsistent`), since `disconnect_tip_`
puts them back together.

`ReorgLosesNothing`, `RefusedOnlyForConflicts` and `ConnectWaysAgree` need in
addition that the utxos and nullifiers are those that the bodies of the chain
make and spend, in order (`ChainExact`), and what a write transaction has kept
so far of what was committed: all of it while it disconnects, and afterwards all
but what the new chain excludes by a nullifier (`KInv`). For `ConnectWaysAgree` a body of
any number of transactions is taken apart in any order: the databases after the
first k are those that `Expected` names, which is shown by looking at the least
k for which they would not be.

### `Archive`

The databases of `lib/archive.rs` are the record `archive`; the blocks are
constants, since what a header says never changes.

| Action | Code |
| --- | --- |
| `RequestAncestorInfos` | the mainchain task stores a mainchain block and the ancestors it lacks, headers and block infos, in one transaction |
| `StoreHeaders` | the net task stores the headers of a response, `put_header` for each one that is new |
| `SubmitHeader` | `submit_block`, and `connect_tip_`: `put_header`, again if the header is stored |
| `StoreBody` | `put_body` |

`PutHeader`, `PutMainHeaderInfo` and `PutMainBlockInfo` are the functions of the
archive of these names as functions on the record; `NthIn`, `Search`,
`AncestorsRev` and `Better` are its algorithms. A loop is a recursive function of
the number of its turns (`StepBack` and `Halve` are one turn), which is at most
the height. That no block is its own ancestor, a block having the hash of its
parent, is `LineageAssumption`: the lists of ancestors exist. `CommittedAt`, in
`VerifiedExact`, is the reference for BMM results: one mainchain block for each
ancestor, each before the last. `Better(d, tip0, tip1)` says that `better_tip` returns the second tip.
Work is a number, and an `Option` of a height is the height plus one. Bodies are
there or not; `MAX_BATCH_SIZE` is 2 instead of 32 so that chains of four blocks
have batches, `MaxBodies` 1 body is stored, which makes a gap at every place; it
arrives when at least `MinHeaders` 8 of the 10 headers are there. The
instance has a trunk of three mainchain blocks and two branches, with rival
sidechain blocks on the trunk, tips of equal height and equal work on the
branches, a block whose parent has no commitment, and a tip that goes back to
lower height.

| Run | What it shows |
| --- | --- |
| `archive_mempool` | in every order of arrival, `ArchiveExact`: walking the skip lists is walking the parents; the binary searches find the newest common ancestor; a block is verified where the mainchain has a chain of commitments to it, although two handlers each work out a half; successors are complete; the batched and the plain listing of missing bodies agree; `TipOrder`: two tips are not each better than the other, and on one mainchain lineage the higher tip wins; `PeerCheckAgrees`, below |

`CheckPeerTip` is the comparison that a connection task makes of its own tip
with a peer's (`handle_peer_state`), at times without the headers; its answer is
`"Requested"`, `"Available"` or none. `PeerCheckAgrees` compares it with
`better_tip`: between tips above genesis the answers are the same once the
headers are stored, and a tip that is better is never turned away before. It
claims nothing with our tip at genesis, because there it fails: with our tip at
genesis on a branch, the connection task may not ask for a tip that `better_tip`
prefers.

On one lineage and at equal height the documentation of `better_tip` prefers
more work, the code less.

The order of tips is not transitive. Let the mainchain branches p-q-r and s-t
have equal work per block but a heavier r, tip A height 2 at p, tip C height 2
at r, tip B height 3 at t, and the ancestor of B from before the branches
height 1. B beats A with more height and more work; C beats B with more work,
as B was lower than C before the branches; and A beats C, with less work on the
same lineage at equal height. TLC finds such a cycle in a larger instance; a node whose peers keep
offering these tips would go round. No line of the repository says that it
cannot happen, so this has no run.

### `ArchiveProofs`

All properties of the run, for any forests of blocks of any height, any work,
any commitments and any `MAX_BATCH_SIZE`. What is assumed of blocks is
`BlockAssumption` (types) and `LineageAssumption`.

The invariant `AInv` is about the record alone. Both forests contain the
ancestors of what they contain (`MainForest`, `SideForest`); heights are the
lengths of the lists of ancestors, the work adds up, successors are the children
that are stored; the i-th entry of every vector of exponential ancestors is the
ancestor 2^i blocks before (`Vectors`); and of the stored mainchain blocks, a
stored block is verified at exactly those of `CommittedAt` (`BmmExact`). The last
is about the whole lineage of a block, while `put_header` and
`put_main_block_info` look at one parent: `CommittedIs` shows that a chain of
commitments to a block is one to its parent and one more. The mainchain parent
of every stored header is stored, on which the comparison of tips relies.
`PutMainKeeps`, `PutHeaderKeeps` and `PutBodyKeeps` show that every put keeps the
invariant, of a header that is stored already too, within a write transaction of
any length (`ArchiveInvariant`).

The algorithms follow from it. `NthIs`: a turn of `get_nth_ancestor` keeps the
distance to the result, and each one makes `n` smaller. `VectorIs`: the vector of
a new block is right if those of its ancestors are. `SearchIs`: the binary search
keeps a depth at which the ancestries agree, and they agree at no depth before
`lo`; `Meet` says that where they agree they do at all greater depths. `AncestorsRevIs`: whatever
the size, the batches are the ancestors from a height, oldest first; with
`WithoutBodyIs`, two lists of the same blocks in the order of heights are one
(`RisingSame`). This is `ArchiveIsExact`.

`TipsOrdered` and `PeerCheckIsBetterTip` are about the case analyses of
`better_tip` and of the connection task. Total work grows along the mainchain
(`WorkGrows`), so on a shared lineage the tip with less work has its mainchain
block below the other's, and that is the common ancestor (`CommonBelow`); its
own block is then the one from before the branches. The rest is comparing
numbers (`ComparesNumbers`, `BetterOnce`), given that the last
common ancestor does not depend on which tip is named first
(`CommonSymmetric`).

In these proofs a recursive function is shown to exist by extending one of one
argument less, and what it computes is shown at the least argument for which it
would not (`NatMin`).

### `Peers`

The table of active peers of `lib/net/mod.rs`, with the handles and tasks of
connections and the part of the net task that hears of their ends. `conns` has
the connections of this run of the process, each with its task and the stream of
infos to the net task; `active_peers` has the handle for each address; `call`
has the handle that a caller has made and not yet inserted; `reconnect` has the
timers; `known_peers` is on disk.

| Action | Code |
| --- | --- |
| `Start`, `Crash` | `Net::new`, which connects to the known peers; the end of the process |
| `RpcConnectPeer`, `AcceptIncoming` | `connect_peer` and `accept_incoming` up to the spawned task |
| `AddActivePeer` | `add_active_peer`, which drops the handle if the address was taken meanwhile |
| `ForgetPeer` | `forget_peer` |
| `Connected`, `ReceiveMessage`, `TaskEnds` | the task of a connection, and the remote node |
| `ForwardInvalid`, `InvalidResponse` | an answer that does not fit its request, forwarded by the task, and `handle_response`, which removes the peer for it |
| `HeartbeatTimeout`, `PeerError`, `PeerClosed` | what the net task does with each end of a connection |
| `ReconnectPeer` | `connect_peer` after `RECONNECT_DELAY` |

Abstractions: what quinn can connect to depends on the address that the node is
bound to (`Connectable`, external). Time is left out: a timeout or a delay may
end at any moment. Bounds: `MaxConns` 3 connections of one run, so that an old
connection, its successor and a racing one meet; `MaxStarts` 2, a start with
what an earlier run stored; `MaxRejected` 1, the connections of a run that
forward answers to be rejected, one unread answer at a time.

| Run | What it shows |
| --- | --- |
| `peers` | `PeersSafe`: types, and every running task is owned by the table or by a call (`TasksAreOwned`); `KnownPeersStart`: what is stored never keeps the node from starting; `UnreadEndFreesAddress`: a dead handle goes from the table if its end is still to be read; `TimedOutReconnected`: a peer that was heard and timed out is connected to again |

`UnreadEndFreesAddress` is not that every dead handle goes, because one may stay.
`connect_peer` spawns the task and adds the handle afterwards; if the connection
fails in between, and the net task reads the end of its stream before
`add_active_peer`, there is nothing to remove yet. The handle is then added with
no info left to come, and nothing removes it: the address counts as connected
until the node is restarted, or an end of another connection with that address
is read. `TasksAreOwned` holds all the same, as it is about running tasks.

Two more things that the run does not forbid, since no line says that they cannot
happen. Infos of two connections with one address arrive in any order, and
`remove_active_peer` goes by the address: the late end of an old connection
removes, and so ends, its successor. And a timeout reads the flag
`received_msg_successfully` from whichever handle is in the table by then, so
that a connection whose handle is already gone is not made again; this is the
condition of `TimedOutReconnected`.

### `PeersProofs`

`TasksStayOwned` proves `PeersSafe` and `NodeStarts` proves `KnownPeersStart`,
for any addresses and any number of connections and starts. It is assumed that
the seed addresses are finitely many and none is unspecified (they are a
constant list), and that what can be connected to is one set per address that
the node binds. The inductive invariant adds whole types, that the stored
addresses are finitely many and none is unspecified (`KnownGood`: without it a
start need not end, or fails), and that the end of a process leaves no
connection behind (`DownIsEmpty`).

### `NetSync`

How a node follows tips. `conn` has the connection task of each peer (the peer
states it knows, its mailbox, its request queue), `info` what it has sent to the
net task, `net` the net task (tips that are ready, tips that wait for a body,
mainchain requests to forward and who asked for them, the reorganisation under
way), `mainchain` the mainchain task, `submit` a call of `submit_block`;
`archive` and `tip` are shared by all.

| Action | Code |
| --- | --- |
| `Heartbeat`, `InternalMessage` | `handle_heartbeat`, `handle_internal_message` |
| `HandlePeerState`, `FinishPeerState` | `handle_peer_state`, which reads the tip first and decides later |
| `PeerResponse` | the peer answers a request, in any order |
| `NeedMainchainAncestors`, `ForwardMainchainTaskRequest`, `MainchainTaskResponse` | these items of the net task's mailbox |
| `HeadersResponse`, `BlockResponse` | `handle_response` |
| `PeerTipReady`, `NewTipReady`, `ConnectTip` | a new tip, and `reorg_to_tip` block by block |
| `AncestorInfos` | the mainchain task |
| `SubmitBlock`, `SubmitHeader`, `SubmitBody` | `submit_block`, cut at its awaits |
| `Connect`, `Disconnect`, `PeerAdvances`, `MainBlockArrives` | the environment |

Abstractions: a block stands for its hash, header, body and tip. Which tip is
better is a constant relation, of which `Archive` shows that it is
antisymmetric and prefers a tip to those that it extends (`ChainAssumption`),
since its mainchain blocks extend theirs; `Unclear` are the pairs that the connection task cannot decide
without headers. A peer has all blocks that it announces and answers what it is
asked: `BlockResponse` and `HeadersResponse` are the branches of
`handle_response` for answers that fit their requests. Of the others, `NoBlock`
and `NoHeader` do nothing, and one that does not fit its request removes the
peer, which is `InvalidResponse` in `Peers` and looks like `Disconnect` here;
neither changes these databases. A block is valid or
not; what connecting it does is in `TwoWayPeg`, `ShieldedPool` and `MemPool`.

The instance has a node on `a` and a better branch x-y-z from below, of which
two bodies are requested at a time. It runs through four scenarios of what the
environment may do: a peer moves from `c`, whose mainchain block is late, to
`z`, while `m` is mined; a connection is lost and made again; a second peer has
an invalid block; the last block of the better branch is invalid and one is
mined. In each, all interleavings are explored.

| Run | What it shows |
| --- | --- |
| `netsync` | `SyncSafe`: types, and a tip that reaches the net task has all its bodies (`ReadyTipsComplete`), although it was checked against another tip; `TipImproves`: the committed tip changes only for a better one, also when an invalid block ends a reorg on the way; `FollowsPeers`: the node ends up with a tip not worse than the last one of each peer it stays connected to; `SubmitAnswered`: `submit_block` returns, unless the net task has ended |

Where following fails, by design or not, and which scenarios leave out:

* A connection never sends a request twice. If the peer moves to a descendant
  while the bodies of its former tip are on their way, those requests of the new
  tip are taken for duplicates; the answers are for the former tip, and the
  state of the new one is not handled again before the peer announces another.
* If the mainchain block of the peer's last tip arrives late, the answer "not
  available" is only logged, and the tip is not looked at again.
* With our tip at genesis on a heavier mainchain branch, the connection task may
  turn down a peer's tip that `better_tip` prefers.
* What a peer answered with `NoBlock` or `NoHeader` it is not asked for again, as
  long as the connection lasts.
* Any error of an item of the mailbox ends the net task for good.

### `NetSyncProofs`

`SyncIsSafe` proves `SyncSafe` and `TipOnlyImproves` proves `TipImproves`, for
any peers, tree of blocks, order of tips and scenario. A tip is checked for
missing bodies against the state's tip of that moment, and used when the state
may be elsewhere; so the invariant cannot speak of one tip. `IInv` says that the
archive has the bodies of all ancestors of whatever tip is ready, in a
reorganisation or waits in a channel (`ItemOK`, `ReorgOK`, `NetOK`, `SubmitOK`),
that it has those of the state's tip (`TipOK`), and that it only grows: a body
after the last common ancestor with any former tip is then enough. Of a reorg
under way it says that the blocks left to apply are a line up to the new tip,
which is better than the old one, and that the state is at the old tip or below
the first of them: where it is committed on the way, it has not gone back.

### `TreeStack` and `ShardTreeDb`

`TreeStack` is the abstract specification of the wallet's note commitment tree:
a stack of trees, one for each block of the chain that the wallet follows.
`ShardTreeDb` is the database behind it: shards, checkpoints by block, blocks by
sequence number, and sequence numbers by position.

| Action | Code |
| --- | --- |
| `ConnectOrchardBlock` | load all into the cache, append a leaf for each action, add a checkpoint, store |
| `DisconnectOrchardBlock` | load, truncate to the checkpoint of the parent, store |

`AddCheckpoints`, `TruncateCheckpointsRetaining`, `TruncateShards`,
`ForEachCheckpoint`, `NextCheckpointSeq` are the functions of these names, the
first for several checkpoints at once;
`AppendLeaves`, `AddToCache`, `TruncateToCheckpoint`, `Replay` and `Flush` are what
the crate shardtree does with them (external). The hashes, the cap and the
encodings are left out. `Next` of `TreeStack` asks that the stack grows before it
looks for the block that was connected, which follows from the latter and spares
TLC the search. The instance has four blocks of up to three leaves
in shards of two, so that blocks are empty, end within a shard and fill several,
and come back after a reorg in another order.

| Run | What it shows |
| --- | --- |
| `state_reorg` | `StoreSound`: the three tables of checkpoints agree (types) and the store never refuses what the wallet does (`NeverRefused`); `ImplementsStack`: under the refinement mapping `StackOf`, which reads blocks and leaves off checkpoints and shards, every behaviour is one of `TreeStack` |

### `ShardTreeDbProofs`

`TablesAgree` proves `StoreSound` and `StoreIsAStack` proves `ImplementsStack`,
for any blocks, leaves and size of the shards: the initial state is one of
`TreeStack`, and every step is a step of it. The invariant `IInv` says that the
database is a function of the chain, its leaves and the number of leaves up to
each block (`Store`), so that the i-th block has the sequence number i although
a reorg frees numbers and blocks without leaves share a position. Weaker
statements about one table are not inductive: `truncate_checkpoints_retaining`
finds what it deletes in a second table through a third. The lemmas about shards
say that cutting and appending leaves commute with cutting them into shards.

### `Wallet`

The tables of `lib/wallet/mod.rs` are the record `wallet`; `chain` is that of the
node's tip, `txs` all transactions, `sent` those that were submitted. Notes are
stored with the position of their leaf.

| Action | Code |
| --- | --- |
| `Create` | one of `create_shielded_transaction`, `create_unshield_transaction`, `create_shield_transaction`, `create_transaction`, `create_withdrawal`, with coin selection and anchor |
| `SignAndSend` | `App::sign_and_send`: authorize, submit, unconfirmed tables, update |
| `Task`, `Mined` | `update_wallet` by `App::task` and after `mine`: to the common ancestor, then to the node's tip, then the outputs |
| `SetSeed` | `set_seed` |
| `NodeTip` | a new tip of the node: `reorg_to_tip` with the checks that a block passes |

Abstractions: a note is the transaction and action that create it and stands for
its nullifier and commitment. The wallet decrypts what is its own. The tree is
that of `TreeStack`. `ANCHOR_CHECKPOINT_DEPTH` is 1, so that a chain of
`MaxHeight` 3 has anchors from before the last block; `MaxTx` 2 transactions of
the wallet compete for the same coins; `MaxReorgs` 1 reorg drops up to three
blocks and may mine their transactions again elsewhere. Reorgs after `App::task`
has ended are not explored (`MCTaskEnded`): from then on `mine` updates the wallet
as the task did, so the tables are the same as if it had not ended.

| Run | What it shows |
| --- | --- |
| `wallet` | `WalletSafe`: types, notes are unspent leaves at their positions (`NotesLocated`), no coin is lost (`CoinsKept`), no spent output is available (`OutputsUnspent`); `AmountsExact`: fees are those asked for (`FeeExact`) and a melt that the balance allows can be paid bill by bill (`MeltFunded`); `ShieldedSurvivesReorg`: a shielded transaction stays valid without the blocks after its anchor; `BalanceExact`: without reorgs the balance is that of the chain |
| `restore` | **violated**: `disconnect_orchard_block` stores for the nullifier of a spent note the note that the transaction created, with another value |

`BalanceExact` stops at a reorg because of what `restore` shows. The other
properties hold across it: `NotesLocated` is about nullifiers and positions, and
`AddSpend` refuses a note that is not the one at its leaf, unless it is worth
nothing. A wrongly restored note without value is spent as it is stored, which
moves no money. `App::task` ends if
the node's tip changes before the wallet has a seed; from then on only
`sign_and_send` and `mine` update the wallet.

### `Miner`

Calls of `App::mine` with the shared `Miner` (`lib/miner.rs`). `main` and `side`
are the blocks of both chains in the order in which they are made, `node` has
its tip and the mainchain blocks of its archive, `lock` is the write lock of the
miner, `block` is `Miner::block`, `call` has the locals of each call.

| Action | Code |
| --- | --- |
| `GetChainTip`, `TryGetBestHash`, `RequestInfos` | `mine`: the two tips, and the infos if the mainchain tip is new |
| `AttemptBmm` | `attempt_bmm`, with the lock from here on |
| `SubscribeEvents`, `ConfirmBmm` | `confirm_bmm`: the first event after the subscription decides |
| `EventsEnd` | `confirm_bmm`: the stream of events ends, or begins with a `DisconnectBlock`; `Miner::block` is cleared |
| `SubmitBlock` | `submit_block`, if the BMM is verified |
| `Fails` | any request that the mainchain does not answer; the lock is dropped and `block` stays |
| `MainBlock`, `NodeTip` | the mainchain, and `reorg_to_tip` for a tip of a peer on any mainchain block |

`BetterTip` is `better_tip` as far as `mine` can tell: of two tips on one mainchain
the higher one is better; between mainchains the work decides, which `Archive`
has and which is left open here, so that the node may adopt either.

Bounds: two calls, `MaxMain` 3 mainchain blocks, `MaxSide` 2 sidechain blocks,
`MaxReorgs` 2 mainchain reorgs: two blocks on two branches, and a stale template
of a call that failed.

| Run | What it shows |
| --- | --- |
| `miner` | `MinerSafe`: types, at most one call has the lock, and a call confirms its own block (`OwnBlockConfirmed`); `MinesOnVerified`: the parent is an ancestor of the node's tip to which the mainchain commits, the newest but for one case, or the tip itself; `MineReturns`: a call that waits returns after the next mainchain block |

`MinesOnVerified` has two cases besides the newest verified ancestor. If the
newest one was itself asked for on the mainchain block where the branches part,
both branches may commit to it; `mine` walks back to a block asked for before
that one, and mines on an older ancestor. This needs a mainchain that is
replaced twice, and came up in the proof. In the other case the parent is not
verified at all: after a reorg that replaces only the mainchain block that
commits to the node's tip, `mine` still builds on that tip, and the block is
never verified on the new branch. The property says that this takes a tip whose
own parent is verified, or first, and whose mainchain parent is still there.
And the events are
subscribed after the request is made, so that a mainchain block in between is
missed: the call then waits for the one after it, which cannot have the
commitment.

### `MinerProofs`

`CallsConfirmTheirOwn` proves `MinerSafe` and `CallsMineOnVerified` proves
`MinesOnVerified`, with its two exceptions, for any calls, any bounds and any forks
of the mainchain.
Blocks are numbered as they are made, so a parent has a smaller number; that the
recursive functions for ancestors and verified blocks exist and what they
compute follows by looking at the least block for which it would not
(`NatMin`, `Descent`). The invariant `IInv` has the form of both chains
(`Chains`), that the blocks which nodes have extend verified ones (`NodeOK`),
what a call has established when it is at each of its awaits (`CallOK`), and that
the call with the lock is the one whose block is `Miner::block` (`Locked`): a
block left behind by a failed call stays until the next one overwrites it under
the lock.

## What is assumed and what is left out

*Fairness.* Safety properties need none. `Peers`: a call goes on to
`add_active_peer` (weak), the net task handles an info that waits (weak, for each
connection), and a reconnection that is due again and again is made (strong, as
`select_all` polls every ready stream, and other items only delay it). `NetSync`:
weak, for each connection task with its peer, for the net task, the mainchain
task and `submit_block`: tokio polls each of them, and no more is assumed about
which of its items a task picks. Nothing is assumed of the environment: peers
need not connect or advance, late blocks need not arrive. `Miner`: weak for each
call, and for a mainchain that goes on at its tip. The other modules state no
fairness.

*Deadlock* is checked, except in `peers`, `netsync`, `wallet`, `restore` and
`miner`, where the bounds, or a node that is synchronised, leave nothing to do.

*Only model-checked.* Everything of `Wallet` (`WalletSafe`, `AmountsExact`,
`ShieldedSurvivesReorg`, `BalanceExact`) and liveness.
Liveness and `ENABLED` are out of the prover's reach. Induction over data with
the library's theorems is too; where a proof needs it, it takes the least
counterexample, and shows that a recursive function exists by giving it. For the
sums and folds of `Wallet` that was not done.

*Not modelled.* Signatures, zero-knowledge proofs, keys, addresses, memos and
encodings are pure functions, mostly of libraries. The mainchain client is
generated. The GUI, the CLI and the RPC declarations have no state that these
components depend on; what the RPC server calls is an action where it changes
state. Left out of modelled components: in the archive, the block locator, the
transaction inclusions and the storage of accumulators (their restoration is in
`TwoWayPeg`); in the network, QUIC and TLS; in the mainchain task, the batches of
the RPC; in the state, `sidechain_wealth` and the watches, which only read; in
the miner, the content of the body and the bribe; and the join set, a utility
without state of the program.
