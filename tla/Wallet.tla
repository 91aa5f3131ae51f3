------------------------------- MODULE Wallet -------------------------------
(***************************************************************************)
(* The wallet (lib/wallet/mod.rs), and App, which keeps it up to date      *)
(* (app/app.rs): its tables of notes and outputs follow the node's chain,  *)
(* also when it is reorganized, and its transactions spend from them.      *)
(*                                                                         *)
(* A transaction is known by its index in txs, a note by the transaction   *)
(* and the index of the action that creates it, which also stand for its   *)
(* nullifier and its commitment, and an output by transaction and index.   *)
(* A block is the sequence of its transactions; the hash of a tip commits  *)
(* to all blocks before, so that a tip is given as its chain.  The note    *)
(* commitment tree of the wallet is that of TreeStack, which ShardTreeDb   *)
(* implements: wallet.trees has the leaves after each block of the tip.    *)
(* Keys, memos and signatures are left out: the wallet decrypts what is    *)
(* its own, and it recovers the outputs, dummies included, of every        *)
(* transaction that it built.                                              *)
(***************************************************************************)
EXTENDS Integers, FiniteSetsExt, SequencesExt, TLC

CONSTANTS
    External,                    \* transactions of others, the first of txs
    ANCHOR_CHECKPOINT_DEPTH,
    Value, Fee, MainFee,         \* the amounts that the user asks for
    MaxTx, MaxHeight, MaxReorgs, MaxBody     \* bounds

ASSUME DepthAssumption == ANCHOR_CHECKPOINT_DEPTH \in Nat
ASSUME AmountAssumption == Value \in Nat /\ Fee \in Nat \ {0} /\ MainFee \in Nat

VARIABLES
    txs,        \* all transactions
    sent,       \* those that a node has had in its memory pool
    chain,      \* the chain of the node's tip
    reorgs,     \* how many reorgs there were
    wallet,     \* the database of the wallet
    seed,       \* whether the wallet has a seed
    task        \* whether App::task runs

vars == <<txs, sent, chain, reorgs, wallet, seed, task>>

-----------------------------------------------------------------------------
\* Values and transactions.
NoNote == <<0, 0>>           \* what a dummy spends
Output(mine, value, withdrawal) == [mine |-> mine, value |-> value, withdrawal |-> withdrawal]
Action(nf, mine, value) == [nf |-> nf, mine |-> mine, value |-> value]

Actions(t) == txs[t].actions
NoteValue(n) == Actions(n[1])[n[2]].value
OutputOf(o) == txs[o[1]].outputs[o[2]]
OutputValue(o) == OutputOf(o).value
Notes(t) == {<<t, i>> : i \in DOMAIN Actions(t)}
Outpoints(t) == {<<t, i>> : i \in DOMAIN txs[t].outputs}
Spends(tx) == {tx.actions[i].nf : i \in DOMAIN tx.actions} \ {NoNote}
SumOf(items) == FoldLeft(LAMBDA sum, item : sum + item.value, 0, items)

\* The value balance of a bundle, and the fee of a transaction with it as
\* validate_filled_transaction computes it.
ValueBalance(tx) == MapThenSumSet(NoteValue, Spends(tx)) - SumOf(tx.actions)
GetFee(tx) == MapThenSumSet(OutputValue, tx.inputs) + ValueBalance(tx) - SumOf(tx.outputs)

\* What the state of the node has at a tip.
TxsOf(c) == Range(FlattenSeq(c))
LeavesOfTx(t) == [i \in DOMAIN Actions(t) |-> <<t, i>>]
LeavesOfBlock(b) == FlattenSeq([i \in DOMAIN b |-> LeavesOfTx(b[i])])
TreeOf(c) == FlattenSeq([i \in DOMAIN c |-> LeavesOfBlock(c[i])])
Nullifiers(c) == UNION {Spends(txs[t]) : t \in TxsOf(c)}
Created(c) == UNION {Outpoints(t) : t \in TxsOf(c)}
Spent(c) == UNION {txs[t].inputs : t \in TxsOf(c)}
HistoricalRoots(c) == {TreeOf(SubSeq(c, 1, n)) : n \in 0..Len(c)}

\* State::validate_transaction: fill_transaction and validate_orchard_anchor.
\* Only the validation of a block looks up the nullifiers.
ValidateOrchardAnchor(tx, c) ==
    tx.anchor \in HistoricalRoots(c) /\ (Spends(tx) # {} => tx.anchor # << >>)
ValidateTransaction(tx, c) ==
    /\ tx.inputs \subseteq Created(c) \ Spent(c)
    /\ ValidateOrchardAnchor(tx, c)
    /\ GetFee(tx) >= 0
ValidInBlock(tx, c) == ValidateTransaction(tx, c) /\ Spends(tx) \cap Nullifiers(c) = {}

Conflict(tx, other) == tx.inputs \cap other.inputs # {} \/ Spends(tx) \cap Spends(other) # {}

\* What the node can include after a chain: what others send spends outputs
\* and notes that are left out.  The memory pool has at least these.
Includable(t, c) ==
    t \notin TxsOf(c) /\ (t <= Len(External) \/ ValidInBlock(txs[t], c))
Pool == {t \in sent : Includable(t, chain)}

-----------------------------------------------------------------------------
\* The tables.
Without(f, S) == [x \in DOMAIN f \ S |-> f[x]]
None == [x \in {} |-> 0]

\* Wallet::new
Init ==
    /\ txs = External
    /\ sent = DOMAIN External
    /\ chain = << >>
    /\ reorgs = 0
    /\ wallet = [tip |-> << >>, trees |-> <<<< >>>>,
                 notes |-> None, notes_unconfirmed |-> {},
                 spent_notes |-> None, spent_notes_unconfirmed |-> None,
                 utxos |-> {}, utxos_unconfirmed |-> {},
                 stxos |-> {}, stxos_unconfirmed |-> {}]
    /\ seed \in BOOLEAN
    /\ task = TRUE

\* connect_orchard_bundle: the notes that are received, which have a position
\* if the bundle is confirmed.
Received(t) == {n \in Notes(t) : Actions(t)[n[2]].mine /\ NoteValue(n) # 0}

ReceiveConfirmed(w, t, next_leaf_position) ==
    [w EXCEPT !.notes = [n \in Received(t) |->
                            [note |-> n, pos |-> next_leaf_position + n[2] - 1]] @@ @,
              !.notes_unconfirmed = @ \ Received(t)]
ReceiveUnconfirmed(w, t) == [w EXCEPT !.notes_unconfirmed = @ \cup Received(t)]

\* connect_orchard_bundle: the notes that are spent, among those available or
\* else those that this action was to spend, by transaction and action.
SpentNotes(w, t) ==
    LET nf(k) == Actions(t)[k[2]].nf
    IN  [k \in {k \in Notes(t) : nf(k) \in DOMAIN w.notes
                              \/ k \in DOMAIN w.spent_notes_unconfirmed} |->
            IF nf(k) \in DOMAIN w.notes THEN w.notes[nf(k)] ELSE w.spent_notes_unconfirmed[k]]
SpendConfirmed(w, t) ==
    [w EXCEPT !.notes = Without(@, Spends(txs[t])),
              !.spent_notes_unconfirmed = Without(@, DOMAIN SpentNotes(w, t)),
              !.spent_notes = SpentNotes(w, t) @@ @]
SpendUnconfirmed(w, t) ==
    [w EXCEPT !.notes = Without(@, Spends(txs[t])),
              !.spent_notes_unconfirmed = SpentNotes(w, t) @@ @]

\* connect_orchard_bundle_confirmed, whose leaves are appended.
ConnectOrchardBundle(w, t) ==
    LET connected == SpendConfirmed(ReceiveConfirmed(w, t, Len(Last(w.trees))), t)
    IN  [connected EXCEPT !.trees[Len(w.trees)] = @ \o LeavesOfTx(t)]
ConnectOrchardBundleUnconfirmed(w, t) == SpendUnconfirmed(ReceiveUnconfirmed(w, t), t)

\* connect_orchard_block, which begins with the tree of the last checkpoint.
ConnectOrchardBlock(w, b) ==
    FoldLeft(ConnectOrchardBundle,
             [w EXCEPT !.tip = Append(@, b), !.trees = Append(@, Last(@))], b)

\* disconnect_orchard_block: the notes that are received are deleted, the ones
\* that are spent are restored, with the note that the action creates if that
\* can be recovered.
Restored(w, t) ==
    LET keys == Notes(t) \cap DOMAIN w.spent_notes
        key(n) == CHOOSE k \in keys : Actions(t)[k[2]].nf = n
    IN  [n \in {Actions(t)[k[2]].nf : k \in keys} |->
            [note |-> IF t > Len(External) THEN key(n) ELSE w.spent_notes[key(n)].note,
             pos |-> w.spent_notes[key(n)].pos]]

\* Mutant: the spent notes are not restored.
DisconnectOrchardBundleLoses(w, t) ==
    [w EXCEPT !.notes = Without(@, Notes(t)), !.spent_notes = Without(@, Notes(t))]

DisconnectOrchardBundle(w, t) ==
    [w EXCEPT !.notes = Restored(w, t) @@ Without(@, Notes(t)),
              !.spent_notes = Without(@, Notes(t))]
DisconnectOrchardBlock(w, b) ==
    FoldLeft(DisconnectOrchardBundle,
             [w EXCEPT !.tip = Front(@), !.trees = Front(@)], Reverse(b))

-----------------------------------------------------------------------------
\* spend_utxos_unconfirmed, put_utxos_unconfirmed
SpendUtxosUnconfirmed(w, outpoints) ==
    [w EXCEPT !.utxos = @ \ outpoints,
              !.stxos_unconfirmed = @ \cup (w.utxos \cap outpoints)]
Mine(outpoints) == {o \in outpoints : OutputOf(o).mine}
PutUtxosUnconfirmed(w, outpoints) ==
    [w EXCEPT !.utxos_unconfirmed = @ \cup Mine(outpoints)]

\* Mutant: also if there is an unconfirmed spend.
PutUtxosConfirmedAlways(w, outpoints) ==
    [w EXCEPT !.utxos_unconfirmed = @ \ Mine(outpoints), !.utxos = @ \cup Mine(outpoints)]

\* put_utxos_confirmed, spend_utxos_confirmed
PutUtxosConfirmed(w, outpoints) ==
    [w EXCEPT !.utxos_unconfirmed = @ \ Mine(outpoints),
              !.utxos = @ \cup (Mine(outpoints) \ w.stxos_unconfirmed)]
SpendUtxosConfirmed(w, outpoints) ==
    LET spent == outpoints \cap (w.utxos \cup w.stxos_unconfirmed)
    IN  [w EXCEPT !.utxos = @ \ spent, !.stxos_unconfirmed = @ \ spent, !.stxos = @ \cup spent]

\* update_wallet: to the last common ancestor, then to the node's tip.
CommonAncestor(w) == Max({n \in 0..Len(w.tip) : n <= Len(chain) /\ SubSeq(w.tip, 1, n) = SubSeq(chain, 1, n)})
Follow(w) ==
    LET common == CommonAncestor(w)
        disconnected == FoldLeft(DisconnectOrchardBlock, w, Reverse(SubSeq(w.tip, common + 1, Len(w.tip))))
    IN  FoldLeft(ConnectOrchardBlock, disconnected, SubSeq(chain, common + 1, Len(chain)))

UpdateUtxos(w) ==
    LET spent == (w.utxos \cup w.stxos_unconfirmed) \cap Spent(chain)
    IN  SpendUtxosConfirmed(PutUtxosConfirmed(w, Created(chain) \ Spent(chain)), spent)

UpdateWallet(w) == UpdateUtxos(Follow(w))

-----------------------------------------------------------------------------
\* select_transparent_coins: the smallest first, until the total is above.
SelectTransparentCoins(value) ==
    LET coins == SetToSortSeq({o \in wallet.utxos : ~OutputOf(o).withdrawal},
                     LAMBDA o, p : \/ OutputValue(o) < OutputValue(p)
                                   \/ OutputValue(o) = OutputValue(p) /\ o[1] < p[1])
        total(n) == MapThenSumSet(OutputValue, Range(SubSeq(coins, 1, n)))
        n == Min({n \in 0..Len(coins) : n = Len(coins) \/ total(n) > value})
    IN  [total |-> total(n), coins |-> Range(SubSeq(coins, 1, n))]

\* Mutant: the anchor is that of the tip.
AnchorDepthTip == 0

\* deepest_available_anchor_depth, and the tree of the checkpoint there.
AnchorDepth == Max({d \in 0..ANCHOR_CHECKPOINT_DEPTH : d < Len(wallet.trees)})
Anchor == wallet.trees[Len(wallet.trees) - AnchorDepth]

\* witness_at_checkpoint_depth, and what Builder::add_spend checks: the note is
\* at its position, unless it is worth nothing.  The note that is stored is spent.
HeldValue(n) == NoteValue(wallet.notes[n].note)
Witnessable(n) == wallet.notes[n].pos < Len(Anchor)
AddSpend(n) ==
    Anchor[wallet.notes[n].pos + 1] = wallet.notes[n].note \/ HeldValue(n) = 0
Stored(S) == {wallet.notes[n].note : n \in S}

\* select_shielded_coins: in any order, until the total is enough.
SelectShieldedCoins(value) ==
    {S \in SUBSET {n \in DOMAIN wallet.notes : Witnessable(n)} :
        /\ MapThenSumSet(HeldValue, S) >= value
        /\ \E n \in S : MapThenSumSet(HeldValue, S \ {n}) < value}

\* Builder::build: as many actions as spends, at least two, the outputs that
\* miss are dummies, and spends and outputs are paired in any order.
Bundles(spends, outs) ==
    LET n == Max({2, Cardinality(spends), Len(outs)})
        nfs == SetToSeq(spends)
        padded == outs \o [i \in 1..(n - Len(outs)) |-> Action(NoNote, FALSE, 0)]
    IN  {[i \in 1..n |-> [order[i] EXCEPT !.nf = IF i <= Len(nfs) THEN nfs[i] ELSE NoNote]] :
            order \in {padded, Reverse(padded)}}

Transaction(inputs, outputs, actions, anchor) ==
    [inputs |-> inputs, outputs |-> outputs, actions |-> actions, anchor |-> anchor]

\* create_shielded_transaction
CreateShieldedTransaction ==
    {Transaction({}, << >>, actions, Anchor) :
        actions \in UNION {Bundles(Stored(S), <<Action(NoNote, FALSE, Value),
                                        Action(NoNote, TRUE, MapThenSumSet(HeldValue, S) - Value - Fee)>>) :
            S \in {S \in SelectShieldedCoins(Value + Fee) : \A n \in S : AddSpend(n)}}}

\* Mutant: the fee is not taken from the change.
CreateUnshieldTransactionFree ==
    {Transaction({}, <<Output(TRUE, Value, FALSE)>>, actions, Anchor) :
        actions \in UNION {Bundles(Stored(S), <<Action(NoNote, TRUE, MapThenSumSet(HeldValue, S) - Value)>>) :
            S \in {S \in SelectShieldedCoins(Value + Fee) : \A n \in S : AddSpend(n)}}}

\* create_unshield_transaction
CreateUnshieldTransaction ==
    {Transaction({}, <<Output(TRUE, Value, FALSE)>>, actions, Anchor) :
        actions \in UNION {Bundles(Stored(S), <<Action(NoNote, TRUE, MapThenSumSet(HeldValue, S) - Value - Fee)>>) :
            S \in {S \in SelectShieldedCoins(Value + Fee) : \A n \in S : AddSpend(n)}}}

\* create_shield_transaction: a note that is not newer than the anchor is
\* spent as well.
ShieldSpends(n) == IF n # NoNote /\ Witnessable(n) THEN {n} ELSE {}
CreateShieldTransaction ==
    LET selected == SelectTransparentCoins(Value + Fee)
        change == selected.total - Value - Fee
        outputs == IF change # 0 THEN <<Output(TRUE, change, FALSE)>> ELSE << >>
        chosen == IF DOMAIN wallet.notes = {} THEN {NoNote} ELSE DOMAIN wallet.notes
        bundles(n) == Bundles(Stored(ShieldSpends(n)), <<Action(NoNote, TRUE, Value + MapThenSumSet(HeldValue, ShieldSpends(n)))>>)
    IN  UNION {{Transaction(selected.coins, outputs, actions,
                            IF ShieldSpends(n) = {} THEN << >> ELSE Anchor) : actions \in bundles(n)} :
                  n \in {n \in chosen : change >= 0 /\ \A m \in ShieldSpends(n) : AddSpend(m)}}

\* create_transaction and create_withdrawal, whose output has the fee on the
\* mainchain in its value.
CreateTransparent(first) ==
    LET selected == SelectTransparentCoins(first.value + Fee)
        change == selected.total - first.value - Fee
    IN  {Transaction(selected.coins, <<first, Output(TRUE, change, FALSE)>>, << >>, << >>) :
            ok \in {x \in {TRUE} : change >= 0}}
CreateTransaction == CreateTransparent(Output(FALSE, Value, FALSE))
CreateWithdrawal == CreateTransparent(Output(TRUE, Value + MainFee, TRUE))

Creatable ==
    CreateShieldedTransaction \cup CreateUnshieldTransaction \cup CreateShieldTransaction
        \cup CreateTransaction \cup CreateWithdrawal

\* get_balance
TotalShielded ==
    LET value(k) == NoteValue(wallet.spent_notes_unconfirmed[k].note)
    IN  MapThenSumSet(HeldValue, DOMAIN wallet.notes)
            + MapThenSumSet(value, DOMAIN wallet.spent_notes_unconfirmed)
TotalTransparent ==
    MapThenSumSet(OutputValue, wallet.utxos) + MapThenSumSet(OutputValue, wallet.stxos_unconfirmed)
AvailableTransparent ==
    MapThenSumSet(OutputValue, {o \in wallet.utxos : ~OutputOf(o).withdrawal})

\* schedule_bills, without the times
ILog2(n) == CHOOSE e \in 0..n : 2^e <= n /\ n < 2^(e + 1)
BillExponents[amount \in Nat] ==
    IF amount = 0 THEN << >>
    ELSE <<ILog2(amount)>> \o BillExponents[amount - 2^ILog2(amount)]

-----------------------------------------------------------------------------
\* A transaction is created: Accumulator::prove refuses inputs that the node
\* does not have.
Create ==
    /\ seed
    /\ Len(txs) < Len(External) + MaxTx
    /\ \E tx \in Creatable :
        /\ tx.inputs \subseteq Created(chain) \ Spent(chain)
        /\ txs' = Append(txs, tx)
    /\ UNCHANGED <<sent, chain, reorgs, wallet, seed, task>>

\* App::sign_and_send.  authorize needs the inputs in the wallet; what
\* submit_transaction refuses leaves no trace.
SignAndSend(t) ==
    LET w == ConnectOrchardBundleUnconfirmed(
                 PutUtxosUnconfirmed(SpendUtxosUnconfirmed(wallet, txs[t].inputs), Outpoints(t)), t)
    IN  /\ t \notin sent
        /\ txs[t].inputs \subseteq wallet.utxos
        /\ ValidateTransaction(txs[t], chain)
        /\ \A u \in Pool : ~Conflict(txs[t], txs[u])
        /\ sent' = sent \cup {t}
        /\ wallet' = UpdateWallet(w)
        /\ UNCHANGED <<txs, chain, reorgs, seed, task>>

\* reorg_to_tip: the node has a new tip, on its last one or on an earlier block,
\* with what its memory pool and its rules allow.
NodeTip(fork, body) ==
    LET branch == SubSeq(chain, 1, fork)
    IN  /\ fork < MaxHeight
        /\ fork < Len(chain) => reorgs < MaxReorgs /\ chain[fork + 1] # body
        /\ \A i \in DOMAIN body : Includable(body[i], branch)
        /\ \A i, j \in DOMAIN body : i < j => body[i] < body[j] /\ ~Conflict(txs[body[i]], txs[body[j]])
        /\ chain' = Append(branch, body)
        /\ reorgs' = IF fork < Len(chain) THEN reorgs + 1 ELSE reorgs
        /\ UNCHANGED <<txs, sent, wallet, seed, task>>

\* App::task, after a change of the node's state: without a seed there are no
\* keys to connect a block with, and the task ends.
Task ==
    /\ task
    /\ wallet.tip # chain
    /\ task' = seed
    /\ wallet' = IF seed THEN UpdateWallet(wallet) ELSE wallet
    /\ UNCHANGED <<txs, sent, chain, reorgs, seed>>

\* App::mine ends with an update as well.
Mined ==
    /\ ~task
    /\ seed
    /\ wallet.tip # chain
    /\ wallet' = UpdateWallet(wallet)
    /\ UNCHANGED <<txs, sent, chain, reorgs, seed, task>>

\* set_seed
SetSeed == ~seed /\ seed' = TRUE /\ UNCHANGED <<txs, sent, chain, reorgs, wallet, task>>

Bodies == UNION {[1..n -> sent] : n \in 0..MaxBody}

Next ==
    \/ Create
    \/ \E t \in DOMAIN txs : SignAndSend(t)
    \/ \E fork \in 0..Len(chain), body \in Bodies : NodeTip(fork, body)
    \/ Task
    \/ Mined
    \/ SetSeed

Spec == Init /\ [][Next]_vars

-----------------------------------------------------------------------------
Pending == {Actions(k[1])[k[2]].nf : k \in DOMAIN wallet.spent_notes_unconfirmed}

\* Types; one tree for each block of the wallet's tip and one before them.
TypeOK ==
    /\ sent \subseteq DOMAIN txs
    /\ reorgs \in 0..MaxReorgs
    /\ seed \in BOOLEAN /\ task \in BOOLEAN
    /\ wallet.tip \in Seq(Seq(sent))
    /\ Len(wallet.trees) = Len(wallet.tip) + 1
    /\ DOMAIN wallet.spent_notes \subseteq UNION {Notes(t) : t \in TxsOf(wallet.tip)}
    /\ wallet.utxos \cup wallet.utxos_unconfirmed \cup wallet.stxos \cup wallet.stxos_unconfirmed
          \subseteq Mine(UNION {Outpoints(t) : t \in sent})

\* A note that coin selection may take is a leaf at its position in the tree
\* of the wallet's tip, and is not spent there: across reorgs that move it,
\* drop it, or drop its spend.
NotesLocated ==
    \A n \in DOMAIN wallet.notes :
        /\ n \notin Nullifiers(wallet.tip)
        /\ wallet.notes[n].pos < Len(TreeOf(wallet.tip))
        /\ TreeOf(wallet.tip)[wallet.notes[n].pos + 1] = n

\* No coin is lost: each of the wallet's notes and outputs that is unspent on
\* the chain of its tip is available, or its spend is under way.
CoinsKept ==
    /\ \A n \in UNION {Received(t) : t \in TxsOf(wallet.tip)} \ Nullifiers(wallet.tip) :
          n \in DOMAIN wallet.notes \cup Pending
    /\ Mine(Created(wallet.tip)) \ Spent(wallet.tip) \subseteq wallet.utxos \cup wallet.stxos_unconfirmed

\* An output that the chain of the wallet's tip spends, by this transaction or
\* another, is neither available nor counted as pending.
OutputsUnspent == (wallet.utxos \cup wallet.stxos_unconfirmed) \cap Spent(wallet.tip) = {}

\* Whatever the coins, the notes and their values in the tables, the fee of a
\* transaction that the wallet makes is what the user asked for.
FeeExact == \A t \in Len(External) + 1..Len(txs) : GetFee(txs[t]) = Fee

\* A shielded transaction made at the node's tip is valid there, and stays
\* valid if the blocks since its anchor are disconnected: the anchor "does not
\* pin the spend to the latest block".
ShieldedSurvivesReorg ==
    wallet.tip = chain =>
        \A tx \in CreateShieldedTransaction \cup CreateUnshieldTransaction,
           n \in 0..Min({ANCHOR_CHECKPOINT_DEPTH, Len(chain)}) :
            ValidInBlock(tx, SubSeq(chain, 1, Len(chain) - n))

\* get_balance: without reorgs, the totals are what the wallet has on the
\* chain, while its transactions are under way and after.
BalanceExact ==
    reorgs = 0 =>
        LET unspent == UNION {Received(t) : t \in TxsOf(wallet.tip)} \ Nullifiers(wallet.tip)
            outputs == Mine(Created(wallet.tip)) \ Spent(wallet.tip)
        IN  /\ TotalShielded = MapThenSumSet(NoteValue, unspent)
            /\ TotalTransparent = MapThenSumSet(OutputValue, outputs)

\* A melt that the balance allows, with the fee of each bill, is funded: coins
\* can be selected for any of its bills, whichever the times put first, and the
\* others are the bills of the rest, so that "any change re-enters the wallet
\* and funds later bills".
MeltFunded ==
    \A amount \in 1..AvailableTransparent :
        LET bills == BillExponents[amount]
            spend(x) == x + Fee * Len(BillExponents[x])
        IN  spend(amount) <= AvailableTransparent =>
                \A i \in DOMAIN bills :
                    /\ SelectTransparentCoins(2^bills[i] + Fee).total >= 2^bills[i] + Fee
                    /\ Range(BillExponents[amount - 2^bills[i]]) = Range(bills) \ {bills[i]}
                    /\ spend(amount - 2^bills[i]) <= AvailableTransparent - 2^bills[i] - Fee

\* disconnect_orchard_block: "Disconnects ONLY the orchard effects from a
\* block", so that what is stored for a nullifier is the note that has it.
NotesGenuine == \A n \in DOMAIN wallet.notes : wallet.notes[n].note = n

\* The tables say what the wallet has on the chain of its tip, across reorgs
\* and with transactions under way (connect_orchard_block,
\* disconnect_orchard_block, put_utxos_confirmed).
WalletSafe ==
    /\ TypeOK
    /\ NotesLocated
    /\ CoinsKept
    /\ OutputsUnspent

\* What a transaction pays is what was asked for, and so is what a melt pays.
AmountsExact == FeeExact /\ MeltFunded

=============================================================================
