------------------------------ MODULE MemPool ------------------------------
(***************************************************************************)
(* The mempool (lib/mempool.rs) next to a chain that grows and shrinks     *)
(* (connect_tip_, disconnect_tip_ and reorg_to_tip of                      *)
(* lib/node/net_task.rs), with the tasks that fill and empty it: RPC       *)
(* threads (lib/node/mod.rs), connection tasks that validate what a peer   *)
(* pushes (handle_push_tx of lib/net/peer/task.rs), and the net task,      *)
(* which stores it later.                                                  *)
(*                                                                         *)
(* The database has one writer at a time and readers that see what was     *)
(* last committed: db is what the writer sees, committed what readers see. *)
(* A reorg is one write transaction over several steps, which may commit   *)
(* after any block that it connects.  The accumulator's leaves are the     *)
(* utxos, and a proof can be made for leaves only (external: MemForest).   *)
(* An anchor is the note commitment tree after a block, taken here as the  *)
(* set of transactions with a bundle up to that block; how the tree itself *)
(* is kept is in ShieldedPool.  Signatures, values and the content of      *)
(* proofs are left out, and so are mainchain events (see TwoWayPeg).       *)
(***************************************************************************)
EXTENDS Naturals, Sequences, FiniteSets

CONSTANTS
    Tx,            \* transactions, each named by its txid
    OutPoint,
    Nullifier,
    Inputs,        \* per transaction: the outpoints that it spends,
    Outputs,       \* those that it creates,
    NullifiersOf,  \* the nullifiers that its bundle, if any, reveals,
    AnchorOf,      \* and the anchor of its bundle
    GenesisUtxos,  \* what there is to spend at first
    MaxHeight,     \* a bound: blocks on the chain
    SigopsLimit,   \* how many authorizations a body may hold
    Number         \* how many transactions a block template takes

ASSUME TxAssumption ==
    /\ Inputs \in [Tx -> SUBSET OutPoint]
    /\ Outputs \in [Tx -> SUBSET OutPoint]
    /\ NullifiersOf \in [Tx -> SUBSET Nullifier]
    /\ AnchorOf \in [Tx -> SUBSET Tx]
    /\ GenesisUtxos \subseteq OutPoint
\* An outpoint commits to the transaction that creates it.
ASSUME OutPointAssumption ==
    \A tx \in Tx :
        /\ Outputs[tx] \cap (Inputs[tx] \cup GenesisUtxos) = {}
        /\ \A other \in Tx \ {tx} : Outputs[tx] \cap Outputs[other] = {}
\* An output has a value, which the transaction has to have from what it spends
\* (validate_filled_transaction: NotEnoughValueIn).
ASSUME SpendAssumption ==
    \A tx \in Tx : Outputs[tx] # {} => Inputs[tx] # {} \/ NullifiersOf[tx] # {}
ASSUME BoundAssumption == MaxHeight \in Nat /\ SigopsLimit \in Nat /\ Number \in Nat

VARIABLES
    db,         \* the databases, as the writer sees them
    committed,  \* the databases, as readers see them
    phase,      \* of the write transaction of reorg_to_tip
    accepted,   \* transactions that connection tasks sent to the net task
    net_task    \* "running", or what ended it

vars == <<db, committed, phase, accepted, net_task>>

All(of, txs) == UNION {of[tx] : tx \in txs}

\* Bodies within the limit; there is one authorization for each input.
Body == {body \in SUBSET Tx :
             IsFiniteSet(body) /\ Cardinality(All(Inputs, body)) =< SigopsLimit}

Databases == [utxos : SUBSET OutPoint,
              nullifiers : SUBSET Nullifier,
              chain : Seq(Body),
              transactions : SUBSET Tx,
              spent_utxos : SUBSET (OutPoint \X Tx),
              used_nullifiers : SUBSET (Nullifier \X Tx)]

Phases == {"idle", "disconnecting", "connecting"}
Outcomes == {"running", "block_invalid", "connect_refused", "disconnect_refused",
             "transaction_refused"}

-----------------------------------------------------------------------------
OnChain(d) == UNION {d.chain[i] : i \in DOMAIN d.chain}

\* What transactions spend, with the spender: keys and values of an index.
Index(of, txs) == UNION {of[tx] \X {tx} : tx \in txs}
Keys(index) == {entry[1] : entry \in index}
Lookup(index, keys) == {entry[2] : entry \in {e \in index : e[1] \in keys}}

\* Orchard::historical_roots: the trees of the blocks of the chain, and the
\* empty one.
HistoricalRoots(d) ==
    {{tx \in UNION {d.chain[i] : i \in 1..height} : NullifiersOf[tx] # {}} :
        height \in 0..Len(d.chain)}

\* State::fill_transaction finds every utxo that it spends.
Filled(d, tx) == Inputs[tx] \subseteq d.utxos

\* State::validate_transaction: what it asks of the databases.
Valid(d, tx) ==
    /\ Filled(d, tx)
    /\ NullifiersOf[tx] # {} => AnchorOf[tx] \in HistoricalRoots(d)

\* regenerate_proofs: Accumulator::prove succeeds for all of these.
Provable(d, txs) == All(Inputs, txs) \subseteq d.utxos

-----------------------------------------------------------------------------
\* MemPool::put refuses a transaction that conflicts with one in the pool.
Conflicts(d, tx) ==
    \/ Inputs[tx] \cap Keys(d.spent_utxos) # {}
    \/ NullifiersOf[tx] \cap Keys(d.used_nullifiers) # {}

CanPut(d, tx) == tx \in d.transactions \/ ~Conflicts(d, tx)

\* MemPool::put of transactions that it does not refuse.
Put(d, txs) ==
    [d EXCEPT !.transactions = @ \cup txs,
              !.spent_utxos = @ \cup Index(Inputs, txs \ d.transactions),
              !.used_nullifiers = @ \cup Index(NullifiersOf, txs \ d.transactions)]

\* A set of pooled transactions that has the spenders of its outputs.
Closed(d, txs) == Lookup(d.spent_utxos, All(Outputs, txs)) \subseteq txs

\* The transactions that the queue of MemPool::delete reaches from these.
Reached(d, txs) ==
    {tx \in d.transactions :
        \A some \in SUBSET d.transactions :
            txs \cap d.transactions \subseteq some /\ Closed(d, some) => tx \in some}

\* Mutant: used_nullifiers keeps what a deleted transaction revealed.
DeleteInputsOnly(d, txs) ==
    LET gone == Reached(d, txs)
    IN  [d EXCEPT
            !.transactions = @ \ gone,
            !.spent_utxos = {e \in @ : e[1] \notin All(Inputs, gone)}]

\* MemPool::delete of every transaction in txs.
Delete(d, txs) ==
    LET gone == Reached(d, txs)
    IN  [d EXCEPT
            !.transactions = @ \ gone,
            !.spent_utxos = {e \in @ : e[1] \notin All(Inputs, gone)},
            !.used_nullifiers = {e \in @ : e[1] \notin All(NullifiersOf, gone)}]

-----------------------------------------------------------------------------
\* The writes of one write transaction that commits at once.
Write(d) == db' = d /\ committed' = d

\* An error in the net task: it ends, and its write transaction is dropped.
End(outcome) ==
    /\ net_task' = outcome
    /\ db' = committed
    /\ phase' = "idle"
    /\ UNCHANGED <<committed, accepted>>

Init ==
    /\ db = [utxos |-> GenesisUtxos, nullifiers |-> {}, chain |-> << >>,
             transactions |-> {}, spent_utxos |-> {}, used_nullifiers |-> {}]
    /\ committed = db
    /\ phase = "idle"
    /\ accepted = {}
    /\ net_task = "running"

\* Node::submit_transaction: validated and stored in one write transaction.
SubmitTransaction(tx) ==
    /\ phase = "idle"
    /\ Valid(db, tx)
    /\ CanPut(db, tx)
    /\ Write(Put(db, {tx}))
    /\ UNCHANGED <<phase, accepted, net_task>>

\* handle_push_tx: a connection task validates against what is committed and
\* leaves the rest to the net task.
AcceptTransaction(tx) ==
    /\ Valid(committed, tx)
    /\ accepted' = accepted \cup {tx}
    /\ UNCHANGED <<db, committed, phase, net_task>>

\* Mutant: the net task stores what the connection task found to be valid.
NewTransactionUnproved(tx) ==
    /\ net_task = "running" /\ phase = "idle"
    /\ tx \in accepted
    /\ CanPut(db, tx)
    /\ Write(Put(db, {tx}))
    /\ accepted' = accepted \ {tx}
    /\ UNCHANGED <<phase, net_task>>

\* The net task's NewTransaction: regenerate_proof and put.
NewTransaction(tx) ==
    /\ net_task = "running" /\ phase = "idle"
    /\ tx \in accepted
    /\ \/ /\ Provable(db, {tx}) /\ CanPut(db, tx)
          /\ Write(Put(db, {tx}))
          /\ accepted' = accepted \ {tx}
          /\ UNCHANGED <<phase, net_task>>
       \/ /\ ~ (Provable(db, {tx}) /\ CanPut(db, tx))
          /\ End("transaction_refused")

\* Node::remove_from_mempool.
RemoveFromMempool(tx) ==
    /\ phase = "idle"
    /\ tx \in db.transactions
    /\ Write(Delete(db, {tx}))
    /\ UNCHANGED <<phase, accepted, net_task>>

\* Node::get_transactions: of the first transactions in the pool, those that
\* are no longer valid or spend what one before them spends are deleted, and
\* the others returned.
GetTransactions ==
    /\ phase = "idle"
    /\ \E taken \in SUBSET db.transactions : \E returned \in SUBSET taken :
          /\ Cardinality(taken) =< Number
          /\ Cardinality(taken) < Number => taken = db.transactions
          /\ \A tx \in returned :
                 /\ Valid(db, tx)
                 /\ Inputs[tx] \cap All(Inputs, returned \ {tx}) = {}
          /\ \A tx \in taken \ returned :
                 ~Valid(db, tx) \/ Inputs[tx] \cap All(Inputs, returned) # {}
          /\ Write(Delete(db, taken \ returned))
    /\ UNCHANGED <<phase, accepted, net_task>>

-----------------------------------------------------------------------------
\* disconnect_tip: the body's effect on the state is undone.
Undo(d) ==
    LET body == d.chain[Len(d.chain)]
    IN  [d EXCEPT !.utxos = (@ \ All(Outputs, body)) \cup All(Inputs, body),
                  !.nullifiers = @ \ All(NullifiersOf, body),
                  !.chain = SubSeq(@, 1, Len(@) - 1)]

\* disconnect_tip_, in a reorg that has not connected a block yet: the body's
\* transactions go to the pool and all proofs are made again.
DisconnectTip ==
    /\ net_task = "running" /\ phase \in {"idle", "disconnecting"}
    /\ db.chain # << >>
    /\ LET body == db.chain[Len(db.chain)]
           undone == Put(Undo(db), body)
           possible == /\ \A tx \in body : CanPut(db, tx)
                       /\ Provable(undone, undone.transactions)
       IN  \/ /\ possible
              /\ db' = undone
              /\ phase' = "disconnecting"
              /\ UNCHANGED <<committed, accepted, net_task>>
           \/ ~possible /\ End("disconnect_refused")

\* Mutant: the limit on authorizations is not looked at.
BodyValidNoLimit(d, body) ==
    /\ \A tx \in body : /\ Valid(d, tx)
                        /\ NullifiersOf[tx] \cap d.nullifiers = {}
    /\ \A tx, other \in body :
           tx # other => /\ Inputs[tx] \cap Inputs[other] = {}
                         /\ NullifiersOf[tx] \cap NullifiersOf[other] = {}

\* prevalidate and connect_prevalidated accept the body.
BodyValid(d, body) ==
    /\ body \in Body
    /\ \A tx \in body : /\ Valid(d, tx)
                        /\ NullifiersOf[tx] \cap d.nullifiers = {}
    /\ \A tx, other \in body :
           tx # other => /\ Inputs[tx] \cap Inputs[other] = {}
                         /\ NullifiersOf[tx] \cap NullifiersOf[other] = {}

\* connect_prevalidated: the body's effect on the state.
Apply(d, body) ==
    [d EXCEPT !.utxos = (@ \ All(Inputs, body)) \cup All(Outputs, body),
              !.nullifiers = @ \cup All(NullifiersOf, body),
              !.chain = Append(@, body)]

\* State::validate_block: like prevalidate, it fills all transactions from the
\* state before the block, and it does not look at nullifiers.
Validate(d, body) ==
    /\ body \in Body
    /\ \A tx \in body : Valid(d, tx)
    /\ \A tx, other \in body : tx # other => Inputs[tx] \cap Inputs[other] = {}

\* Mutant: a nullifier that was revealed before is not refused.
ConnectTransactionAgain(d, tx) ==
    IF ~Filled(d, tx) THEN {}
    ELSE {[d EXCEPT !.utxos = (@ \ Inputs[tx]) \cup Outputs[tx],
                    !.nullifiers = @ \cup NullifiersOf[tx]]}

\* connect_transaction: the databases after it, or none if it is refused.
ConnectTransaction(d, tx) ==
    IF ~Filled(d, tx) \/ NullifiersOf[tx] \cap d.nullifiers # {} THEN {}
    ELSE {[d EXCEPT !.utxos = (@ \ Inputs[tx]) \cup Outputs[tx],
                    !.nullifiers = @ \cup NullifiersOf[tx]]}

\* State::connect_block: one transaction after the other, in their order.
After(d, order) ==
    LET after[i \in 0..Len(order)] ==
            IF i = 0 THEN {d}
            ELSE UNION {ConnectTransaction(before, order[i]) : before \in after[i - 1]}
    IN  after
Connect(d, order) ==
    {[done EXCEPT !.chain = Append(@, {order[i] : i \in DOMAIN order})] :
        done \in After(d, order)[Len(order)]}

\* Mutant: every transaction with a bundle is deleted.
DeleteConflictsAll(d, body) ==
    Delete(d, body \cup Lookup(d.used_nullifiers, Nullifier))

\* Mutant: what the block itself has stays in the pool.
DeleteConflictsOnly(d, body) ==
    Delete(d, Lookup(d.used_nullifiers, All(NullifiersOf, body)))

\* MemPool::connect_block, up to the regeneration of proofs.
DeleteConflicts(d, body) ==
    Delete(d, body \cup Lookup(d.used_nullifiers, All(NullifiersOf, body)))

\* connect_tip_
ConnectBlock(body) ==
    /\ net_task = "running"
    /\ Len(db.chain) < MaxHeight
    /\ LET applied == DeleteConflicts(Apply(db, body), body)
           possible == Provable(applied, applied.transactions)
       IN  \/ /\ BodyValid(db, body) /\ possible
              /\ db' = applied
              /\ phase' = "connecting"
              /\ UNCHANGED <<committed, accepted, net_task>>
           \/ ~BodyValid(db, body) /\ End("block_invalid")
           \/ BodyValid(db, body) /\ ~possible /\ End("connect_refused")

\* reorg_to_tip commits after a block that makes a better tip than before; if
\* there are more blocks to connect it goes on with a new write transaction.
Commit ==
    /\ phase = "connecting"
    /\ committed' = db
    /\ phase' = "idle"
    /\ UNCHANGED <<db, accepted, net_task>>

\* Node::new, when the node is started again.
Restart ==
    /\ net_task # "running"
    /\ net_task' = "running"
    /\ accepted' = {}
    /\ UNCHANGED <<db, committed, phase>>

Next ==
    \/ \E tx \in Tx : \/ SubmitTransaction(tx)
                      \/ AcceptTransaction(tx)
                      \/ NewTransaction(tx)
                      \/ RemoveFromMempool(tx)
    \/ GetTransactions
    \/ DisconnectTip
    \/ \E body \in SUBSET Tx : ConnectBlock(body)
    \/ Commit
    \/ Restart

Spec == Init /\ [][Next]_vars

-----------------------------------------------------------------------------
\* The databases hold what their declared types allow (struct MemPool), and a
\* chain of the bounded length.
TypeOK ==
    /\ db \in Databases /\ committed \in Databases
    /\ Len(db.chain) =< MaxHeight /\ Len(committed.chain) =< MaxHeight
    /\ phase \in Phases
    /\ accepted \subseteq Tx
    /\ net_task \in Outcomes

\* spent_utxos and used_nullifiers are exactly what the pooled transactions
\* spend, each under its spender: no entry is left behind that would refuse a
\* transaction for ever, and no two pooled transactions conflict
\* (MemPool::put, MemPool::delete).
IndexesExact ==
    \A d \in {db, committed} :
        /\ d.spent_utxos = Index(Inputs, d.transactions)
        /\ d.used_nullifiers = Index(NullifiersOf, d.transactions)
        /\ \A tx, other \in d.transactions :
               tx # other => /\ Inputs[tx] \cap Inputs[other] = {}
                             /\ NullifiersOf[tx] \cap NullifiersOf[other] = {}

\* Whatever the order of pushes, blocks and reorgs, every pooled transaction
\* spends utxos that exist: the next regenerate_proofs can succeed.
PooledUnspent ==
    \A d \in {db, committed} : All(Inputs, d.transactions) \subseteq d.utxos

\* A reorg loses no transaction: what was on the chain or in the pool is on the
\* new chain or in the pool, unless the new chain revealed one of its
\* nullifiers (disconnect_tip_ puts, connect_block deletes).
ReorgKeepsTransactions ==
    [][Commit =>
         \A tx \in committed.transactions \cup OnChain(committed) :
             \/ tx \in committed'.transactions \cup OnChain(committed')
             \/ NullifiersOf[tx] \cap committed'.nullifiers # {}]_vars

\* The pool stands in the way of a reorg for no other reasons than these, which
\* the code does have.  A valid block is refused only if a pooled transaction
\* spends what another one in the block spends: connect_block deletes the
\* conflicts of nullifiers and what the block itself has, but not the conflicts
\* of inputs (ConflictsRemoved is what its comment says of it, and fails).  A
\* block cannot be disconnected only if a pooled transaction spends one of its
\* outputs or reveals one of its nullifiers (disconnect_tip_'s put).
RefusedForConflicts ==
    [][/\ net_task' = "connect_refused" =>
             \A body \in SUBSET Tx :
                 ConnectBlock(body) => All(Inputs, db.transactions \ body) \cap All(Inputs, body) # {}
       /\ net_task' = "disconnect_refused" /\ DisconnectTip =>
             LET body == db.chain[Len(db.chain)]
             IN  \/ All(Inputs, db.transactions) \cap All(Outputs, body) # {}
                 \/ All(NullifiersOf, db.transactions) \cap All(NullifiersOf, body) # {}]_vars

\* "Remove conflicting txs and regenerate proofs after applying a block"
\* (connect_block): the pool has nothing left that the block conflicts with, so
\* that a valid block is never refused because of the pool.  It is: a pooled
\* transaction that spends an input of the block is kept, and regenerating its
\* proof fails for a utxo that is no longer in the accumulator.
ConflictsRemoved == net_task # "connect_refused"

\* The two ways to connect a block agree: what validate_block lets through,
\* connect_block accepts if and only if apply_block does (prevalidate and
\* connect_prevalidated, which collects all changes and sorts them), in every
\* order of the transactions and with the same result.
ConnectAgrees ==
    \A body \in {b \in SUBSET Tx : Validate(db, b)} :
        \A order \in [1..Cardinality(body) -> body] :
            {order[i] : i \in DOMAIN order} = body =>
                Connect(db, order) = IF BodyValid(db, body) THEN {Apply(db, body)} ELSE {}

=============================================================================
