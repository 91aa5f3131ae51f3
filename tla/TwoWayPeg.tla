------------------------------ MODULE TwoWayPeg ------------------------------
(***************************************************************************)
(* The two-way peg of a Thunder-Orchard node: deposits from the mainchain,  *)
(* withdrawal bundles back to it, and their undoing when a sidechain block  *)
(* is disconnected (lib/state/two_way_peg_data.rs, with the parts of        *)
(* lib/state/block.rs and lib/node/net_task.rs that call it).               *)
(*                                                                         *)
(* A transaction connects or disconnects one sidechain block, and every     *)
(* mainchain event is one step of it.  A step that fails drops the          *)
(* transaction and ends the net task, until the node is restarted.  A reorg *)
(* of several blocks shares one transaction in the code; here each block    *)
(* commits by itself, so an error may fall back to any block on the way.    *)
(***************************************************************************)
EXTENDS Integers, Sequences, FiniteSets, FiniteSetsExt, RollBack

CONSTANTS
    Deposit,        \* outpoints of mainchain deposits
    Withdrawal,     \* outpoints of outputs with Withdrawal content
    Proposed,       \* m6ids that mainchain miners propose on their own
    Selected,       \* of the withdrawals that wait, those that fit a bundle
    WITHDRAWAL_BUNDLE_FAILURE_GAP,
    Unspent,        \* no stxo with this outpoint
    Regular,        \* InPoint::Regular: spent by a transaction
    MaxHeight,      \* bound: height of the last sidechain block
    MaxEvents,      \* bound: mainchain events applied by the active chain
    MaxBody,        \* bound: outpoints spent and created by one block body
    MaxLeftOver     \* bound: statuses of a bundle before its block comes again

Outpoint == Deposit \cup Withdrawal

\* The m6id commits to the height at which the bundle was collected and to
\* the utxos that it spends.
M6id == [height : 0..MaxHeight, spend : SUBSET Withdrawal]

ASSUME ConstantsAssumption ==
    /\ Deposit \cap Withdrawal = {}
    /\ MaxHeight \in Nat
    /\ Proposed \subseteq M6id
    /\ Selected \in [SUBSET Withdrawal -> SUBSET Withdrawal]
    /\ \A ws \in SUBSET Withdrawal : Selected[ws] \subseteq ws
    /\ WITHDRAWAL_BUNDLE_FAILURE_GAP \in Nat
    /\ Unspent # Regular /\ Unspent \notin M6id /\ Regular \notin M6id

VARIABLES
    db,         \* State's databases, as the open transaction sees them
    committed,  \* the same databases as last committed
    txn,        \* locals of connect and disconnect
    chain,      \* the archived blocks of the active chain, genesis first
    main,       \* the mainchain events that the active chain applied
    net_task,   \* "running", or how it ended: "error" or "panicked"
    defects     \* history, for the properties: which of two rare cases were met

vars == << db, committed, txn, chain, main, net_task, defects >>

-----------------------------------------------------------------------------
(* Data *)

Status == {"Pending", "Submitted", "SubmittedUnexpected",
           "Confirmed", "Failed", "Dropped"}

\* An entry of withdrawal_bundles.  A Known bundle spends m6id.spend, an
\* UnknownConfirmed one spend_utxos.
Bundle == [info : {"Absent", "Known", "Unknown", "UnknownConfirmed"},
           spend_utxos : SUBSET Outpoint,
           status : RollBackOf(Status)]
NoBundle == [info |-> "Absent", spend_utxos |-> {}, status |-> << >>]

\* A record of deposit_blocks or withdrawal_bundle_event_blocks.
EventBlock == [block : Nat, height : Nat]

\* A mainchain event: the position of its block, and what it is about.
Event == [block : Nat, kind : {"Deposit"}, of : Deposit] \cup
         [block : Nat, kind : {"Submitted", "Confirmed", "Failed"}, of : M6id]

\* The databases of State.  The height is that of the tip of `chain`; a
\* singleton or empty set stands for an optional m6id.
Databases == [utxos : SUBSET Outpoint,
              stxos : [Outpoint -> M6id \cup {Regular, Unspent}],
              pending_withdrawal_bundle : SUBSET M6id,
              latest_failed_withdrawal_bundle : RollBackOf(M6id),
              withdrawal_bundles : [M6id -> Bundle],
              deposit_blocks : Seq(EventBlock),
              withdrawal_bundle_event_blocks : Seq(EventBlock),
              utreexo_accumulator : SUBSET Outpoint]

\* Locals: the AccumulatorDiff, the last event blocks met, and for disconnect
\* the number of events before the next one to undo and the mainchain block
\* at which to stop.
Transaction == [phase : {"idle", "connect", "disconnect"},
                inserted : SUBSET Outpoint, removed : SUBSET Outpoint,
                deposit_block : Nat, event_block : Nat,
                undo : Nat, start_block : Nat]
NoTransaction == [phase |-> "idle", inserted |-> {}, removed |-> {},
                  deposit_block |-> 0, event_block |-> 0,
                  undo |-> 0, start_block |-> 0]

\* Two cases in which the code goes wrong, told apart in `defects`: a block
\* collects a bundle that the mainchain reported before, and genesis with its
\* events is disconnected by a build without overflow checks.
Defect == {"reported_first", "genesis_wraps"}

\* What the archive keeps of a connected block, how many events were applied
\* before it, and the databases when its transaction began.
Block == [spent : SUBSET Outpoint, created : SUBSET Withdrawal,
          events : Nat, before : Databases]

\* state.height; -1 when there is no tip.
height == Len(chain) - 1
tip == chain[Len(chain)]

bundle(m) == db.withdrawal_bundles[m]
LatestStatus(m) == Latest(bundle(m).status).value
Awaiting(m) == LatestStatus(m) \in {"Submitted", "SubmittedUnexpected"}

Init ==
    /\ db = [utxos |-> {}, stxos |-> [o \in Outpoint |-> Unspent],
             pending_withdrawal_bundle |-> {},
             latest_failed_withdrawal_bundle |-> << >>,
             withdrawal_bundles |-> [m \in M6id |-> NoBundle],
             deposit_blocks |-> << >>,
             withdrawal_bundle_event_blocks |-> << >>,
             utreexo_accumulator |-> {}]
    /\ committed = db
    /\ txn = NoTransaction
    /\ chain = << >>
    /\ main = << >>
    /\ net_task = "running"
    /\ defects = {}

-----------------------------------------------------------------------------
(* Updates *)

\* AccumulatorDiff::insert and ::remove: they cancel out.
Insert(t, leaves) == [t EXCEPT !.inserted = @ \cup (leaves \ t.removed),
                               !.removed = @ \ leaves]
Erase(t, leaves) == [t EXCEPT !.inserted = @ \ leaves,
                               !.removed = @ \cup (leaves \ t.inserted)]

\* Accumulator::apply_diff.  It fails if a leaf to remove is not there.
ApplyDiff(leaves, t) == (leaves \ t.removed) \cup t.inserted

\* Mutant: the spent utxo is not deleted.
SpendKeepingUtxo(d, outpoints, inpoint) ==
    [d EXCEPT !.stxos = [o \in Outpoint |->
                            IF o \in outpoints THEN inpoint ELSE @[o]]]

\* utxos become stxos with the given inpoint, and back.
Spend(d, outpoints, inpoint) ==
    [d EXCEPT !.utxos = @ \ outpoints,
              !.stxos = [o \in Outpoint |->
                            IF o \in outpoints THEN inpoint ELSE @[o]]]
Unspend(d, outpoints) ==
    [d EXCEPT !.utxos = @ \cup outpoints,
              !.stxos = [o \in Outpoint |->
                            IF o \in outpoints THEN Unspent ELSE @[o]]]

\* A bundle gets a new status at the current height.
PushStatus(d, m, info, spend_utxos, status) ==
    [d EXCEPT !.withdrawal_bundles[m] =
        [info |-> info, spend_utxos |-> spend_utxos,
         status |-> Push(@.status, status, height)]]

\* Mutant: the latest status stays.
PopNothing(d, m, info, spend_utxos) == d

\* A bundle loses its latest status, and its entry with the last one.
PopStatus(d, m, info, spend_utxos) ==
    [d EXCEPT !.withdrawal_bundles[m] =
        IF Pop(@.status) = << >> THEN NoBundle
        ELSE [info |-> info, spend_utxos |-> spend_utxos,
              status |-> Pop(@.status)]]

\* The handler returned an error or panicked: the write transaction is
\* dropped and the net task ends.
Abort(outcome) ==
    /\ db' = committed
    /\ txn' = NoTransaction
    /\ IF txn.phase = "connect"
       THEN /\ chain' = SubSeq(chain, 1, Len(chain) - 1)
            /\ main' = SubSeq(main, 1, tip.events)
       ELSE UNCHANGED << chain, main >>
    /\ net_task' = outcome
    /\ UNCHANGED << committed, defects >>

\* The node is started again; it finds what was committed.
Restart ==
    /\ net_task # "running"
    /\ net_task' = "running"
    /\ UNCHANGED << db, committed, txn, chain, main, defects >>

-----------------------------------------------------------------------------
(* Connecting a block: its body, then the mainchain's events *)

\* apply_block: a valid body spends utxos, which it proves to be leaves of the
\* accumulator, and creates outputs whose outpoints are new, since they commit
\* to the transaction.
ConnectBody(spent, created) ==
    /\ net_task = "running"
    /\ txn.phase = "idle"
    /\ Len(chain) =< MaxHeight
    /\ \A m \in M6id :
          m.height = Len(chain) => Len(bundle(m).status) =< MaxLeftOver
    /\ spent \subseteq db.utxos \cap db.utreexo_accumulator
    /\ Cardinality(spent) + Cardinality(created) =< MaxBody
    /\ \A o \in created : o \notin db.utxos /\ db.stxos[o] = Unspent
    /\ db' = [Spend(db, spent, Regular) EXCEPT
                 !.utxos = @ \cup created,
                 !.utreexo_accumulator = (@ \ spent) \cup created]
    /\ chain' = Append(chain, [spent |-> spent, created |-> created,
                               events |-> Len(main), before |-> db])
    /\ txn' = [txn EXCEPT !.phase = "connect"]
    /\ UNCHANGED << committed, main, net_task, defects >>

\* The mainchain block of the n-th event; 0 before the first.
EventMainBlock(n) == IF n = 0 THEN 0 ELSE main[n].block

\* The next event is in the mainchain block of the last one, if this sidechain
\* block applies that, or in a later block.
NextMainBlocks ==
    {EventMainBlock(Len(main)), EventMainBlock(Len(main)) + 1}
        \ {EventMainBlock(tip.events)}

\* The last of the events from the n-th on that is about a bundle.
LastReport(n, kind, m) ==
    \E i \in n..Len(main) :
        /\ main[i].kind = kind /\ main[i].of = m
        /\ \A j \in (i + 1)..Len(main) : main[j].of # m

\* The bundle awaits its outcome on the mainchain.
Inflight(m) == LastReport(1, "Submitted", m)

\* What the mainchain may report: the submission of a bundle that is not in
\* flight, the outcome of one that is, and an outcome again to the sidechain
\* block that has just applied it.
Reported(kind, m) ==
    /\ txn.phase = "connect"
    /\ Len(main) < MaxEvents
    /\ IF kind = "Submitted"
       THEN ~Inflight(m) /\ (m \in Proposed \/ bundle(m).info # "Absent")
       ELSE Inflight(m) \/ LastReport(tip.events + 1, kind, m)

\* connect_event, once the handler succeeded.
Applied(b, kind, what, d, t) ==
    /\ db' = d
    /\ txn' = IF kind = "Deposit" THEN [t EXCEPT !.deposit_block = b]
              ELSE [t EXCEPT !.event_block = b]
    /\ main' = Append(main, [block |-> b, kind |-> kind, of |-> what])
    /\ UNCHANGED << committed, chain, net_task, defects >>

ConnectDeposit(b, o) ==
    /\ txn.phase = "connect"
    /\ Len(main) < MaxEvents
    /\ o \notin db.utxos /\ db.stxos[o] = Unspent
    /\ Applied(b, "Deposit", o, [db EXCEPT !.utxos = @ \cup {o}], Insert(txn, {o}))

\* connect_withdrawal_bundle_submitted.
IsPending(m) == db.pending_withdrawal_bundle = {m}
Pushable(m) == CanPush(bundle(m).status, height)
Spendable(m) == bundle(m).info = "Known" /\ m.spend \subseteq db.utxos
Resubmittable(m) ==
    \/ bundle(m).info \in {"Known", "Unknown"} /\ LatestStatus(m) = "Failed"
    \/ bundle(m).info = "Known" /\ LatestStatus(m) = "Dropped"

\* The pending bundle: its utxos are spent.
SubmitPending(b, m) ==
    /\ IsPending(m)
    /\ Spendable(m) /\ LatestStatus(m) = "Pending" /\ Pushable(m)
    /\ LET spent == PushStatus(Spend(db, m.spend, m), m, "Known", {}, "Submitted")
       IN  Applied(b, "Submitted", m,
                   [spent EXCEPT !.pending_withdrawal_bundle = {}],
                   Erase(txn, m.spend))

\* A bundle that failed or was dropped before: its utxos are not spent.
SubmitUnexpected(b, m) ==
    /\ ~IsPending(m) /\ bundle(m).info # "Absent"
    /\ Resubmittable(m) /\ Pushable(m)
    /\ Applied(b, "Submitted", m,
               PushStatus(db, m, bundle(m).info, bundle(m).spend_utxos,
                          "SubmittedUnexpected"), txn)

\* A bundle that this node did not collect.
SubmitUnknown(b, m) ==
    /\ ~IsPending(m) /\ bundle(m).info = "Absent"
    /\ Applied(b, "Submitted", m,
               PushStatus(db, m, "Unknown", {}, "Submitted"), txn)

SubmitRefused(m) ==
    /\ IF IsPending(m)
       THEN ~(Spendable(m) /\ LatestStatus(m) = "Pending" /\ Pushable(m))
       ELSE bundle(m).info # "Absent" /\ ~(Resubmittable(m) /\ Pushable(m))
    /\ Abort(IF IF IsPending(m) THEN Spendable(m) ELSE Resubmittable(m)
             THEN "panicked" ELSE "error")

ConnectSubmitted(b, m) ==
    /\ Reported("Submitted", m)
    /\ \/ SubmitPending(b, m)
       \/ SubmitUnexpected(b, m)
       \/ SubmitUnknown(b, m)
       \/ SubmitRefused(m)

\* Mutant: the utxos of a bundle whose submission was not expected stay.
ConfirmSpendsUnknown(m) ==
    IF bundle(m).info = "Unknown" THEN db.utxos ELSE {}

\* connect_withdrawal_bundle_confirmed.  The confirmation itself spends all
\* utxos for an unknown bundle, accepted at height 0 only, and the bundle's
\* utxos if its submission was not expected.
ConfirmSpends(m) ==
    CASE bundle(m).info = "Unknown" -> db.utxos
      [] bundle(m).info = "Known" /\ LatestStatus(m) = "SubmittedUnexpected" ->
            m.spend
      [] OTHER -> {}

ConfirmError(m) ==
    \/ bundle(m).info = "Unknown" /\ height # 0
    \/ bundle(m).info = "UnknownConfirmed"
    \/ ~(ConfirmSpends(m) \subseteq db.utxos)

\* A failed bundle's utxos come back if the submission spent them.
SpentBySubmission(m) ==
    bundle(m).info = "Known" /\ LatestStatus(m) = "Submitted"

FailPushable(m) ==
    /\ Pushable(m)
    /\ SpentBySubmission(m) =>
          CanPush(db.latest_failed_withdrawal_bundle, height)

\* Mutant: an outcome that was applied before is not let through.
OutcomeRepeatedRefused(kind, m) ==
    /\ bundle(m).info = "Absent" \/ ~Awaiting(m)
    /\ Abort(IF bundle(m).info = "Absent" THEN "error" ELSE "panicked")

\* The assertions that the confirmed and failed handlers make about a bundle
\* whose outcome is reported, and the error if there is no such bundle.
ConnectOutcomeUnexpected(kind, m) ==
    /\ \/ bundle(m).info = "Absent"
       \/ /\ LatestStatus(m) # kind
          /\ \/ ~Awaiting(m)
             \/ kind = "Confirmed" /\ ~ConfirmError(m) /\ ~Pushable(m)
             \/ kind = "Failed" /\ ~FailPushable(m)
    /\ Abort(IF bundle(m).info = "Absent" THEN "error" ELSE "panicked")

Confirm(b, m) ==
    /\ bundle(m).info # "Absent" /\ Awaiting(m) /\ Pushable(m)
    /\ ~ConfirmError(m)
    /\ LET info == IF bundle(m).info = "Known" THEN "Known"
                   ELSE "UnknownConfirmed"
           recorded == IF bundle(m).info = "Known" THEN {} ELSE db.utxos
       IN  Applied(b, "Confirmed", m,
                   PushStatus(Spend(db, ConfirmSpends(m), m), m, info, recorded,
                              "Confirmed"),
                   Erase(txn, ConfirmSpends(m)))

ConnectConfirmed(b, m) ==
    /\ Reported("Confirmed", m)
    /\ \/ Confirm(b, m)
       \/ /\ bundle(m).info # "Absent" /\ LatestStatus(m) = "Confirmed"
          /\ Applied(b, "Confirmed", m, db, txn)
       \/ /\ bundle(m).info # "Absent" /\ Awaiting(m) /\ ConfirmError(m)
          /\ Abort("error")
       \/ ConnectOutcomeUnexpected("Confirmed", m)

\* connect_withdrawal_bundle_failed.
Fail(b, m) ==
    /\ bundle(m).info # "Absent" /\ Awaiting(m) /\ FailPushable(m)
    /\ LET failed(d) == PushStatus(d, m, bundle(m).info, bundle(m).spend_utxos,
                                   "Failed")
       IN  IF SpentBySubmission(m)
           THEN Applied(b, "Failed", m,
                        [failed(Unspend(db, m.spend)) EXCEPT
                            !.latest_failed_withdrawal_bundle =
                                Push(@, m, height)],
                        Insert(txn, m.spend))
           ELSE Applied(b, "Failed", m, failed(db), txn)

ConnectFailed(b, m) ==
    /\ Reported("Failed", m)
    /\ \/ Fail(b, m)
       \/ /\ bundle(m).info # "Absent" /\ LatestStatus(m) = "Failed"
          /\ Applied(b, "Failed", m, db, txn)
       \/ ConnectOutcomeUnexpected("Failed", m)

-----------------------------------------------------------------------------
(* Connecting a block: the end of connect *)

\* get_latest_failed_withdrawal_bundle: the latest failure of the latest failed
\* bundle.  It panics if there is none.
FailureStamps(m) == {i \in DOMAIN bundle(m).status :
                        bundle(m).status[i].value = "Failed"}
FailureFound ==
    db.latest_failed_withdrawal_bundle # << >> =>
        FailureStamps(Latest(db.latest_failed_withdrawal_bundle).value) # {}
LastFailureHeight ==
    IF db.latest_failed_withdrawal_bundle = << >> THEN 0
    ELSE LET m == Latest(db.latest_failed_withdrawal_bundle).value
         IN  bundle(m).status[Max(FailureStamps(m))].height

GapElapsed == height - LastFailureHeight >= WITHDRAWAL_BUNDLE_FAILURE_GAP

\* collect_withdrawal_bundle: of the waiting withdrawals, those that fit.
Collected == [height |-> height, spend |-> Selected[db.utxos \cap Withdrawal]]
CollectDue == /\ GapElapsed
              /\ db.pending_withdrawal_bundle = {}
              /\ db.utxos \cap Withdrawal # {}

\* The bundle has an entry already, as one that this node does not know: the
\* mainchain reported it first (a miner proposed it, or it was collected on a
\* branch that is gone).  The entry becomes Known and keeps its history.
CollectsReported ==
    CollectDue /\ bundle(Collected).info \in {"Unknown", "UnknownConfirmed"}

Collect(d) ==
    IF CollectDue
    THEN [PushStatus(d, Collected, "Known", {}, "Pending") EXCEPT
             !.pending_withdrawal_bundle = {Collected}]
    ELSE d

\* Mutant: the parent's height is recorded.
RecordParentHeight(log, block) ==
    IF block = 0 THEN log
    ELSE Append(log, [block |-> block, height |-> height - 1])

\* The last mainchain block with events is recorded, if there was one.
Record(log, block) ==
    IF block = 0 THEN log
    ELSE Append(log, [block |-> block, height |-> height])

FinishConnect ==
    /\ txn.phase = "connect"
    /\ IF /\ FailureFound /\ (CollectDue => Pushable(Collected))
          /\ txn.removed \subseteq db.utreexo_accumulator
       THEN /\ db' = [Collect(db) EXCEPT
                         !.deposit_blocks = Record(@, txn.deposit_block),
                         !.withdrawal_bundle_event_blocks =
                             Record(@, txn.event_block),
                         !.utreexo_accumulator = ApplyDiff(@, txn)]
            /\ committed' = db'
            /\ txn' = NoTransaction
            /\ defects' = IF CollectsReported
                          THEN defects \cup {"reported_first"} ELSE defects
            /\ UNCHANGED << chain, main, net_task >>
       ELSE Abort(IF FailureFound /\ (CollectDue => Pushable(Collected))
                  THEN "error" ELSE "panicked")

-----------------------------------------------------------------------------
(* Disconnecting the tip: the mainchain's events, last to first *)

\* The last record that disconnect_tip_ takes for an earlier sidechain block.
\* At height 0 the bound `height - 1` wraps around, and every record is one.
LastEarlier(log) ==
    LET earlier == {i \in DOMAIN log : log[i].height < height - 1 \/ height = 0}
    IN  IF earlier = {} THEN [block |-> 0, height |-> 0] ELSE log[Max(earlier)]

\* The mainchain block after which events are undone; 0 for None.  Of two
\* blocks recorded at the same height it is the earlier one.
StartBlock ==
    LET d == LastEarlier(db.deposit_blocks)
        w == LastEarlier(db.withdrawal_bundle_event_blocks)
    IN  IF d.block = 0 \/ w.block = 0 THEN Max({d.block, w.block})
        ELSE IF d.height = w.height THEN Min({d.block, w.block})
        ELSE IF d.height < w.height THEN w.block ELSE d.block

\* The height below genesis: in a build with overflow checks it panics, in
\* one without them it wraps around.
GenesisRecords ==
    /\ height = 0
    /\ \/ db.deposit_blocks # << >>
       \/ db.withdrawal_bundle_event_blocks # << >>

BeginDisconnect ==
    /\ net_task = "running"
    /\ txn.phase = "idle"
    /\ chain # << >>
    /\ \/ GenesisRecords /\ Abort("panicked")
       \/ /\ txn' = [txn EXCEPT !.phase = "disconnect", !.undo = Len(main),
                                !.start_block = StartBlock]
          /\ defects' = IF GenesisRecords
                        THEN defects \cup {"genesis_wraps"} ELSE defects
          /\ UNCHANGED << db, committed, chain, main, net_task >>

ToUndo(kinds) ==
    /\ txn.phase = "disconnect"
    /\ txn.undo > 0
    /\ main[txn.undo].block > txn.start_block
    /\ main[txn.undo].kind \in kinds

\* disconnect_event, once the handler succeeded.
Undone(d, t) ==
    LET e == main[txn.undo]
    IN  /\ db' = d
        /\ txn' = IF e.kind = "Deposit"
                  THEN [t EXCEPT !.undo = @ - 1, !.deposit_block = e.block]
                  ELSE [t EXCEPT !.undo = @ - 1, !.event_block = e.block]
        /\ UNCHANGED << committed, chain, main, net_task, defects >>

DisconnectDeposit ==
    /\ ToUndo({"Deposit"})
    /\ LET o == main[txn.undo].of
       IN  \/ /\ o \in db.utxos
              /\ Undone([db EXCEPT !.utxos = @ \ {o}], Erase(txn, {o}))
           \/ o \notin db.utxos /\ Abort("error")

\* The status to undo was set by this block.
StampedNow(m, values) ==
    /\ LatestStatus(m) \in values
    /\ Latest(bundle(m).status).height = height
Before(m) == Pop(bundle(m).status)
PreviousIn(m, values) ==
    Before(m) # << >> /\ Latest(Before(m)).value \in values
AreSpent(outpoints) == \A o \in outpoints : db.stxos[o] # Unspent

\* disconnect_withdrawal_bundle_submitted.
UndoSubmitted(m) ==
    LET popped(d) == PopStatus(d, m, bundle(m).info, bundle(m).spend_utxos)
    IN  /\ bundle(m).info # "Absent"
        /\ StampedNow(m, {"Submitted", "SubmittedUnexpected"})
        /\ IF bundle(m).info = "Known" /\ PreviousIn(m, {"Pending"})
           THEN /\ AreSpent(m.spend)
                /\ Undone([popped(Unspend(db, m.spend)) EXCEPT
                              !.pending_withdrawal_bundle = {m}],
                          Insert(txn, m.spend))
           ELSE Undone(popped(db), txn)

DisconnectSubmitted ==
    /\ ToUndo({"Submitted"})
    /\ LET m == main[txn.undo].of
       IN  \/ UndoSubmitted(m)
           \/ IF bundle(m).info = "Absent"
              THEN IF IsPending(m) THEN Undone(db, txn) ELSE Abort("error")
              ELSE IF StampedNow(m, {"Submitted", "SubmittedUnexpected"})
              THEN /\ bundle(m).info = "Known" /\ PreviousIn(m, {"Pending"})
                   /\ ~AreSpent(m.spend)
                   /\ Abort("error")
              ELSE Abort("panicked")

\* disconnect_withdrawal_bundle_confirmed.
ConfirmSpent(m) ==
    CASE bundle(m).info = "UnknownConfirmed" -> bundle(m).spend_utxos
      [] bundle(m).info = "Known" /\ PreviousIn(m, {"SubmittedUnexpected"}) ->
            m.spend
      [] OTHER -> {}

OutcomeToUndo(m, kind) ==
    /\ StampedNow(m, {kind})
    /\ PreviousIn(m, {"Submitted", "SubmittedUnexpected"})

DisconnectConfirmed ==
    /\ ToUndo({"Confirmed"})
    /\ LET m == main[txn.undo].of
           info == IF bundle(m).info = "Known" THEN "Known" ELSE "Unknown"
       IN  \/ /\ bundle(m).info # "Absent" /\ OutcomeToUndo(m, "Confirmed")
              /\ AreSpent(ConfirmSpent(m))
              /\ Undone(PopStatus(Unspend(db, ConfirmSpent(m)), m, info, {}),
                        Insert(txn, ConfirmSpent(m)))
           \/ /\ bundle(m).info # "Absent" /\ Awaiting(m)
              /\ Undone(db, txn)
           \/ /\ bundle(m).info = "Absent" \/ ~Awaiting(m)
              /\ IF bundle(m).info # "Absent" /\ OutcomeToUndo(m, "Confirmed")
                 THEN ~AreSpent(ConfirmSpent(m)) /\ Abort("error")
                 ELSE Abort(IF bundle(m).info = "Absent" THEN "error"
                            ELSE "panicked")

\* disconnect_withdrawal_bundle_failed.  Unlike its sibling it takes only
\* Submitted for "already applied".
UnfailRefused(m) ==
    /\ bundle(m).info = "Known" /\ PreviousIn(m, {"Submitted"})
    /\ \/ ~(m.spend \subseteq db.utxos)
       \/ db.latest_failed_withdrawal_bundle = << >>
       \/ Latest(db.latest_failed_withdrawal_bundle) #
              [value |-> m, height |-> height]

\* Mutant: the latest failed bundle is not taken back.
UndoFailedKeepingLatest(m) ==
    /\ bundle(m).info # "Absent" /\ OutcomeToUndo(m, "Failed")
    /\ ~UnfailRefused(m)
    /\ LET popped(d) == PopStatus(d, m, bundle(m).info, bundle(m).spend_utxos)
       IN  IF bundle(m).info = "Known" /\ PreviousIn(m, {"Submitted"})
           THEN Undone(popped(Spend(db, m.spend, m)), Erase(txn, m.spend))
           ELSE Undone(popped(db), txn)

UndoFailed(m) ==
    LET popped(d) == PopStatus(d, m, bundle(m).info, bundle(m).spend_utxos)
    IN  /\ bundle(m).info # "Absent" /\ OutcomeToUndo(m, "Failed")
        /\ ~UnfailRefused(m)
        /\ IF bundle(m).info = "Known" /\ PreviousIn(m, {"Submitted"})
           THEN Undone([popped(Spend(db, m.spend, m)) EXCEPT
                           !.latest_failed_withdrawal_bundle = Pop(@)],
                       Erase(txn, m.spend))
           ELSE Undone(popped(db), txn)

DisconnectFailed ==
    /\ ToUndo({"Failed"})
    /\ LET m == main[txn.undo].of
       IN  \/ UndoFailed(m)
           \/ /\ bundle(m).info # "Absent" /\ LatestStatus(m) = "Submitted"
              /\ Undone(db, txn)
           \/ /\ bundle(m).info = "Absent" \/ LatestStatus(m) # "Submitted"
              /\ IF bundle(m).info # "Absent" /\ OutcomeToUndo(m, "Failed")
                 THEN UnfailRefused(m) /\
                      Abort(IF m.spend \subseteq db.utxos THEN "panicked"
                            ELSE "error")
                 ELSE Abort(IF bundle(m).info = "Absent" THEN "error"
                            ELSE "panicked")

-----------------------------------------------------------------------------
(* Disconnecting the tip: the end of disconnect, then disconnect_tip *)

\* The last record is the one that connect wrote for this block, if events
\* were undone.
RecordMatches(log, block) ==
    block # 0 => /\ log # << >>
                 /\ Latest(log) = [block |-> block, height |-> height]
RecordsMatch ==
    /\ RecordMatches(db.withdrawal_bundle_event_blocks, txn.event_block)
    /\ RecordMatches(db.deposit_blocks, txn.deposit_block)

\* Events were undone, and there is no record at all: an error, where a record
\* that differs fails an assertion.
RecordMissing ==
    \/ txn.event_block # 0 /\ db.withdrawal_bundle_event_blocks = << >>
    \/ /\ RecordMatches(db.withdrawal_bundle_event_blocks, txn.event_block)
       /\ FailureFound
       /\ txn.deposit_block # 0 /\ db.deposit_blocks = << >>

Unrecord(log, block) == IF block = 0 THEN log ELSE Pop(log)

\* Mutant: the bundle goes, but it stays the pending one.
UncollectKeepingPending(d) ==
    LET here == {m \in d.pending_withdrawal_bundle :
                    Latest(bundle(m).status).height = height}
    IN  IF ~GapElapsed \/ here = {} THEN d
        ELSE LET m == CHOOSE m \in here : TRUE
             IN  PopStatus(d, m, bundle(m).info, bundle(m).spend_utxos)

\* The pending bundle goes if this block collected it.
Uncollect(d) ==
    LET here == {m \in d.pending_withdrawal_bundle :
                    Latest(bundle(m).status).height = height}
    IN  IF ~GapElapsed \/ here = {} THEN d
        ELSE LET m == CHOOSE m \in here : TRUE
             IN  [PopStatus(d, m, bundle(m).info, bundle(m).spend_utxos) EXCEPT
                     !.pending_withdrawal_bundle = {}]

\* The diff of the undone events applies; the body's outputs are there to be
\* removed, its inputs to be restored.
BodyReversible ==
    /\ txn.removed \subseteq db.utreexo_accumulator
    /\ tip.created \subseteq db.utxos \cap ApplyDiff(db.utreexo_accumulator, txn)
    /\ AreSpent(tip.spent)

DisconnectBody(d) ==
    Unspend([d EXCEPT !.utxos = @ \ tip.created], tip.spent)

FinishDisconnect ==
    /\ txn.phase = "disconnect"
    /\ ~ToUndo({"Deposit", "Submitted", "Confirmed", "Failed"})
    /\ \/ /\ RecordsMatch /\ FailureFound /\ BodyReversible
          /\ db' = [DisconnectBody(Uncollect(db)) EXCEPT
                       !.deposit_blocks = Unrecord(@, txn.deposit_block),
                       !.withdrawal_bundle_event_blocks =
                           Unrecord(@, txn.event_block),
                       !.utreexo_accumulator = tip.before.utreexo_accumulator]
          /\ committed' = db'
          /\ txn' = NoTransaction
          /\ chain' = SubSeq(chain, 1, Len(chain) - 1)
          /\ main' = SubSeq(main, 1, tip.events)
          /\ UNCHANGED << net_task, defects >>
       \/ /\ ~(RecordsMatch /\ FailureFound /\ BodyReversible)
          /\ Abort(IF RecordMissing \/ (RecordsMatch /\ FailureFound)
                   THEN "error" ELSE "panicked")

-----------------------------------------------------------------------------
Next ==
    \/ \E spent \in SUBSET db.utxos, created \in SUBSET Withdrawal :
          ConnectBody(spent, created)
    \/ /\ txn.phase = "connect"
       /\ \E b \in NextMainBlocks :
             \/ \E o \in Deposit : ConnectDeposit(b, o)
             \/ \E m \in M6id : \/ ConnectSubmitted(b, m)
                                \/ ConnectConfirmed(b, m)
                                \/ ConnectFailed(b, m)
    \/ FinishConnect
    \/ BeginDisconnect
    \/ DisconnectDeposit
    \/ DisconnectSubmitted
    \/ DisconnectConfirmed
    \/ DisconnectFailed
    \/ FinishDisconnect
    \/ Restart

Spec == Init /\ [][Next]_vars

-----------------------------------------------------------------------------
(* Properties *)

\* Every database, local and archived block has its type.
TypeOK ==
    /\ db \in Databases
    /\ committed \in Databases
    /\ txn \in Transaction
    /\ chain \in Seq(Block)
    /\ main \in Seq(Event)
    /\ net_task \in {"running", "error", "panicked"}
    /\ defects \subseteq Defect

\* An outpoint is never both a utxo and an stxo: what sidechain_wealth adds
\* up on one side it does not add up on the other.
UnspentOrSpent == \A o \in db.utxos : db.stxos[o] = Unspent

\* Whenever no transaction is open, the utreexo accumulator commits to
\* exactly the utxo set: connect computes it from a diff, disconnect_tip
\* restores it from the archive, and the utxos are undone event by event.
AccumulatorMatchesUtxos ==
    txn.phase = "idle" => db.utreexo_accumulator = db.utxos

\* The utxos of a bundle that this node collected are out of reach from its
\* submission until it fails: each is an stxo with that bundle's m6id, so no
\* transaction and no other bundle pays them out a second time.  Unless a block
\* collected a bundle that the mainchain had reported before: the submission of
\* that one spent nothing.
SubmittedFundsLocked ==
    "reported_first" \notin defects =>
        \A m \in M6id :
            bundle(m).info = "Known" /\ LatestStatus(m) \in {"Submitted", "Confirmed"}
                => \A o \in m.spend : db.stxos[o] = m

\* "Pending withdrawal bundle. MUST exist in withdrawal_bundles": there is at
\* most one, it is a bundle that this node collected, and its status says so.
PendingIsCollected ==
    /\ \A m, n \in db.pending_withdrawal_bundle : m = n
    /\ \A m \in db.pending_withdrawal_bundle :
          bundle(m).info = "Known" /\ LatestStatus(m) = "Pending"

\* The node and the mainchain agree on which bundles await their outcome,
\* also after any number of reorgs.
InflightAwaited ==
    txn.phase # "disconnect" =>
        \A m \in M6id : Inflight(m) => bundle(m).info # "Absent" /\ Awaiting(m)

\* Every entry of latest_failed_withdrawal_bundle has its Failed stamp in the
\* history of that bundle: get_latest_failed_withdrawal_bundle finds it after
\* any sequence of connects and disconnects.
FailuresRecorded ==
    \A i \in DOMAIN db.latest_failed_withdrawal_bundle :
        LET failed == db.latest_failed_withdrawal_bundle[i]
        IN  \E j \in DOMAIN bundle(failed.value).status :
               bundle(failed.value).status[j] =
                   [value |-> "Failed", height |-> failed.height]

\* No assertion or `expect` fails while a block is connected, until a block
\* collects a bundle that the mainchain had reported before, or genesis and its
\* events are disconnected in a build without overflow checks.
ConnectNeverPanics ==
    [][defects = {} /\ txn.phase = "connect" => net_task' # "panicked"]_vars

\* "assert!(matches!(latest, Submitted | SubmittedUnexpected))": the outcome of
\* a bundle is reported to a node that awaits it.
OutcomeIsAwaited ==
    [][txn.phase = "connect" => net_task' # "panicked"]_vars

\* A bundle that a block of this or a greater height collected and that is not
\* pending: all that ever happened to it is that it was collected.
LeftOver(d, m, h) ==
    /\ m.height >= h
    /\ m \notin d.pending_withdrawal_bundle
    /\ d.withdrawal_bundles[m].info = "Known"
    /\ d.withdrawal_bundles[m].spend_utxos = {}
    /\ \A i \in DOMAIN d.withdrawal_bundles[m].status :
          d.withdrawal_bundles[m].status[i] =
              [value |-> "Pending", height |-> m.height]

\* A disconnect that commits restores every database to what it was when the
\* block's own transaction began, whatever its events and after any reorgs, as
\* long as neither of the two cases of `defects` was met.  The one exception:
\* the entry of a bundle that a disconnected block collected may stay, though
\* it is not the pending bundle (disconnect only looks there).
DisconnectRestores ==
    [][ defects = {} /\ txn.phase = "disconnect" /\ chain' # chain =>
          /\ db' = [tip.before EXCEPT
                       !.withdrawal_bundles = db'.withdrawal_bundles]
          /\ \A m \in M6id :
                \/ db'.withdrawal_bundles[m] = tip.before.withdrawal_bundles[m]
                \/ LeftOver(db', m, height) ]_vars

\* "Connecting then disconnecting on a reorg must round-trip": a disconnect that
\* commits restores every database exactly.
DisconnectRoundTrips ==
    [][ txn.phase = "disconnect" /\ chain' # chain => db' = tip.before ]_vars

\* Disconnecting a tip above genesis never panics.
DisconnectNeverPanics ==
    [][ txn.phase # "connect" /\ height > 0 => net_task' # "panicked" ]_vars

\* The databases that describe the same thing agree after any sequence of
\* events and reorgs, failed ones included, until one of the two cases of
\* `defects` is met: the accumulator with the utxos, the histories of bundles
\* with what the mainchain awaits, the latest failure with the history of its
\* bundle (connect and disconnect update each on its own).
DatabasesAgree ==
    defects = {} => AccumulatorMatchesUtxos /\ InflightAwaited /\ FailuresRecorded

=============================================================================
