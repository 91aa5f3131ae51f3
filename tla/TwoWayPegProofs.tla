-------------------------- MODULE TwoWayPegProofs --------------------------
(***************************************************************************)
(* Proofs about TwoWayPeg, for every set of outpoints and bundles and every *)
(* bound.  First its types, that no outpoint is both a utxo and an stxo, that *)
(* the pending bundle is one the node collected, and that the funds of a   *)
(* submitted bundle stay locked.  Then, from an invariant that ties the    *)
(* databases to the blocks of the chain and to the events of the mainchain: *)
(* that the databases agree with each other, that connecting a block does not *)
(* panic, and that disconnecting one restores what connecting it changed.  *)
(***************************************************************************)
EXTENDS TwoWayPeg, TLAPS, SequenceTheorems, WellFoundedInduction

-----------------------------------------------------------------------------
(* The inductive invariant *)

Entry(d, m) == d.withdrawal_bundles[m]
Last(d, m) == Latest(Entry(d, m).status).value

NotBoth(d) == \A o \in d.utxos : d.stxos[o] = Unspent

PendingGood(d) ==
    /\ \A m, n \in d.pending_withdrawal_bundle : m = n
    /\ \A m \in d.pending_withdrawal_bundle :
          Entry(d, m).info = "Known" /\ Last(d, m) = "Pending"

Locked(d, m) ==
    Entry(d, m).info = "Known" /\ Last(d, m) \in {"Submitted", "Confirmed"}
        => \A o \in m.spend : d.stxos[o] = m

\* All utxos of the time are stxos of an unknown bundle that was confirmed.
UnknownLocked(d, m) ==
    Entry(d, m).info = "UnknownConfirmed" =>
        \A o \in Entry(d, m).spend_utxos : d.stxos[o] = m

\* What may follow what in the status history of a bundle with withdrawals.
History(d, m) ==
    Entry(d, m).info = "Known" /\ m.spend # {} =>
        \A i \in 2..Len(Entry(d, m).status) :
            LET now == Entry(d, m).status[i].value
                was == Entry(d, m).status[i - 1].value
            IN  /\ now \in {"Pending", "Submitted", "SubmittedUnexpected"} =>
                      was \notin {"Submitted", "Confirmed"}
                /\ now = "SubmittedUnexpected" => was # "Pending"

BundleGood(d, m) ==
    /\ Entry(d, m).info = "Absent" <=> Entry(d, m).status = << >>
    /\ Locked(d, m) /\ UnknownLocked(d, m) /\ History(d, m)

DatabasesGood(d) ==
    /\ NotBoth(d) /\ PendingGood(d) /\ \A m \in M6id : BundleGood(d, m)

\* What the bodies of the chain's blocks spent is still spent by them.
BodiesGood(d, c) ==
    /\ \A i \in 1..Len(c) : \A o \in c[i].spent : d.stxos[o] = Regular
    /\ \A i, j \in 1..Len(c) : i # j => c[i].spent \cap c[j].spent = {}

CommittedChain ==
    IF txn.phase = "connect" THEN SubSeq(chain, 1, Len(chain) - 1) ELSE chain

ChainGood ==
    /\ Len(chain) =< MaxHeight + 1
    /\ txn.phase # "idle" => Len(chain) > 0
    /\ txn.phase = "disconnect" => txn.undo =< Len(main)
    /\ \A i \in 1..Len(chain) : chain[i].events =< Len(main)
    /\ \A i, j \in 1..Len(chain) : i =< j => chain[i].events =< chain[j].events

\* The types and the shape of the chain.
TInv == TypeOK /\ ChainGood

Funds(d, c) == DatabasesGood(d) /\ BodiesGood(d, c)

IInv ==
    /\ TInv /\ Funds(db, chain) /\ Funds(committed, CommittedChain)

-----------------------------------------------------------------------------
(* Lemmas about the operators of TwoWayPeg and RollBack *)

LEMMA PushType ==
  ASSUME NEW T, NEW rb \in RollBackOf(T), NEW v \in T, NEW h \in Nat
  PROVE  /\ Push(rb, v, h) \in RollBackOf(T) /\ Push(rb, v, h) # << >>
         /\ Latest(Push(rb, v, h)) = [value |-> v, height |-> h]
         /\ Len(Push(rb, v, h)) = Len(rb) + 1
         /\ \A i \in 1..Len(rb) : Push(rb, v, h)[i] = rb[i]
BY DEF Push, RollBackOf, HeightStamped, Latest

LEMMA PrefixType ==
  ASSUME NEW S, NEW s \in Seq(S), NEW n \in 0..Len(s)
  PROVE  /\ SubSeq(s, 1, n) \in Seq(S) /\ Len(SubSeq(s, 1, n)) = n
         /\ \A i \in 1..n : SubSeq(s, 1, n)[i] = s[i]
<1> QED BY SubSeqProperties, ElementOfSeq, LenProperties

LEMMA PopType ==
  ASSUME NEW T, NEW rb \in RollBackOf(T), rb # << >>
  PROVE  /\ Pop(rb) \in RollBackOf(T) /\ Len(Pop(rb)) = Len(rb) - 1
         /\ \A i \in 1..(Len(rb) - 1) : Pop(rb)[i] = rb[i]
         /\ Len(rb) \in Nat \ {0}
         /\ Pop(rb) # << >> => Latest(Pop(rb)) = rb[Len(rb) - 1]
         /\ Pop(rb) # << >> => Len(rb) >= 2
<1> DEFINE S == HeightStamped(T)
<1>1. rb \in Seq(S) BY DEF RollBackOf
<1> HIDE DEF S
<1>2. Len(rb) \in Nat \ {0} BY <1>1, EmptySeq
<1>3. /\ Pop(rb) \in Seq(S) /\ Len(Pop(rb)) = Len(rb) - 1
      /\ \A i \in 1..(Len(rb) - 1) : Pop(rb)[i] = rb[i]
  <2>1. Len(rb) - 1 \in 0..Len(rb) BY <1>2
  <2> QED BY <1>1, <2>1, PrefixType DEF Pop
<1> QED BY <1>2, <1>3, EmptySeq DEF RollBackOf, S, Latest

LEMMA EmptyPop ==
  Pop(<< >>) = << >> /\ \A T : << >> \in RollBackOf(T)
<1> QED BY SubSeqEmpty DEF RollBackOf, Pop

\* A non-empty set of indices has a greatest element.
LEMMA MaxIn ==
  ASSUME NEW n \in Nat, NEW S \in SUBSET (1..n), S # {}
  PROVE  Max(S) \in S /\ \A j \in S : Max(S) >= j
<1> DEFINE T == {x \in Nat : \E i \in S : x = n - i}
           R == {ss \in Nat \X Nat : ss[1] < ss[2]}
<1>1. PICK e \in S : e \in 1..n OBVIOUS
<1>2. T \subseteq Nat /\ n - e \in T BY <1>1
<1>3. IsWellFoundedOn(R, Nat) BY NatLessThanWellFounded DEF OpToRel
<1> HIDE DEF R
<1>4. \E x \in T : \A y \in T : ~(<< y, x >> \in R)
  <2> HIDE DEF T
  <2> QED BY <1>2, <1>3, WFMin
<1>5. PICK x \in T : \A y \in T : ~(<< y, x >> \in R) BY <1>4
<1>6. \A y \in T : x =< y
  <2> TAKE y \in T
  <2>1. x \in Nat /\ y \in Nat /\ ~(<< y, x >> \in R) BY <1>5
  <2>2. ~(y < x)
    <3> HIDE DEF T
    <3> QED BY <2>1 DEF R
  <2> QED BY <2>1, <2>2
<1>7. PICK i \in S : x = n - i OBVIOUS
<1>8. \A j \in S : i >= j
  <2> TAKE j \in S
  <2>1. j \in 1..n /\ i \in 1..n OBVIOUS
  <2> QED BY <1>6, <1>7, <2>1
<1> QED BY <1>8 DEF Max

LEMMA MaxMinOfTwo ==
  ASSUME NEW a \in Nat, NEW b \in Nat
  PROVE  /\ Max({a, b}) \in Nat /\ Min({a, b}) \in Nat
         /\ Max({a, b}) \in {a, b} /\ Min({a, b}) \in {a, b}
<1> QED BY DEF Max, Min

LEMMA HeightType ==
  ASSUME TInv, txn.phase # "idle"
  PROVE  /\ height \in 0..MaxHeight /\ height \in Nat /\ tip \in Block
         /\ Len(chain) \in Nat \ {0}
<1>1. chain \in Seq(Block) /\ Len(chain) > 0 /\ Len(chain) =< MaxHeight + 1
  BY DEF TInv, TypeOK, ChainGood
<1>2. Len(chain) \in Nat BY <1>1, LenProperties
<1>3. tip \in Block BY <1>1, <1>2, ElementOfSeq DEF tip
<1> QED BY <1>1, <1>2, <1>3, ConstantsAssumption DEF height

LEMMA DiffType ==
  ASSUME NEW t \in Transaction, NEW leaves \in SUBSET Outpoint
  PROVE  /\ Insert(t, leaves) \in Transaction /\ Insert(t, leaves).phase = t.phase
         /\ Insert(t, leaves).undo = t.undo /\ Erase(t, leaves) \in Transaction
         /\ Erase(t, leaves).phase = t.phase /\ Erase(t, leaves).undo = t.undo
BY DEF Insert, Erase, Transaction

\* What the updates do to the fields of the databases that the invariant is
\* about.
SpendOf(e, d, outs, inpoint) ==
    /\ e.utxos = d.utxos \ outs
    /\ \A o \in Outpoint : e.stxos[o] = IF o \in outs THEN inpoint ELSE d.stxos[o]
    /\ e.pending_withdrawal_bundle = d.pending_withdrawal_bundle
    /\ e.withdrawal_bundles = d.withdrawal_bundles

UnspendOf(e, d, outs) ==
    /\ e.utxos = d.utxos \cup outs
    /\ \A o \in Outpoint : e.stxos[o] = IF o \in outs THEN Unspent ELSE d.stxos[o]
    /\ e.pending_withdrawal_bundle = d.pending_withdrawal_bundle
    /\ e.withdrawal_bundles = d.withdrawal_bundles

EntryOf(e, d, m, new) ==
    /\ e.utxos = d.utxos /\ e.stxos = d.stxos
    /\ e.pending_withdrawal_bundle = d.pending_withdrawal_bundle
    /\ e.withdrawal_bundles[m] = new
    /\ \A n \in M6id : n # m => e.withdrawal_bundles[n] = d.withdrawal_bundles[n]

PendingOf(e, d, p) ==
    /\ e.utxos = d.utxos /\ e.stxos = d.stxos /\ e.pending_withdrawal_bundle = p
    /\ e.withdrawal_bundles = d.withdrawal_bundles

SameFunds(e, d) ==
    /\ e.utxos = d.utxos /\ e.stxos = d.stxos
    /\ e.pending_withdrawal_bundle = d.pending_withdrawal_bundle
    /\ e.withdrawal_bundles = d.withdrawal_bundles

Pushed(d, m, info, outs, status) ==
    [info |-> info, spend_utxos |-> outs,
     status |-> Push(d.withdrawal_bundles[m].status, status, height)]

Popped(d, m, info, outs) ==
    IF Pop(d.withdrawal_bundles[m].status) = << >> THEN NoBundle
    ELSE [info |-> info, spend_utxos |-> outs,
          status |-> Pop(d.withdrawal_bundles[m].status)]

LEMMA SpendType ==
  ASSUME NEW d \in Databases, NEW outs \in SUBSET Outpoint,
         NEW inpoint \in M6id \cup {Regular, Unspent}
  PROVE  /\ Spend(d, outs, inpoint) \in Databases
         /\ SpendOf(Spend(d, outs, inpoint), d, outs, inpoint)
BY DEF Spend, Databases, SpendOf

LEMMA UnspendType ==
  ASSUME NEW d \in Databases, NEW outs \in SUBSET Outpoint
  PROVE  /\ Unspend(d, outs) \in Databases /\ UnspendOf(Unspend(d, outs), d, outs)
BY DEF Unspend, Databases, UnspendOf

LEMMA BundleType ==
  ASSUME NEW d \in Databases, NEW m \in M6id
  PROVE  /\ d.withdrawal_bundles[m] \in Bundle
         /\ d.withdrawal_bundles[m].info \in
                {"Absent", "Known", "Unknown", "UnknownConfirmed"}
         /\ d.withdrawal_bundles[m].spend_utxos \in SUBSET Outpoint
         /\ d.withdrawal_bundles[m].status \in RollBackOf(Status)
BY DEF Databases, Bundle

LEMMA EntryType ==
  ASSUME NEW d \in Databases, NEW m \in M6id, NEW new \in Bundle
  PROVE  /\ [d EXCEPT !.withdrawal_bundles[m] = new] \in Databases
         /\ EntryOf([d EXCEPT !.withdrawal_bundles[m] = new], d, m, new)
<1> HIDE DEF Bundle
<1> QED BY DEF Databases, EntryOf

LEMMA PushStatusType ==
  ASSUME NEW d \in Databases, NEW m \in M6id,
         NEW info \in {"Absent", "Known", "Unknown", "UnknownConfirmed"},
         NEW outs \in SUBSET Outpoint, NEW status \in Status, height \in Nat
  PROVE  /\ PushStatus(d, m, info, outs, status) \in Databases
         /\ EntryOf(PushStatus(d, m, info, outs, status), d, m,
                    Pushed(d, m, info, outs, status))
<1> DEFINE new == Pushed(d, m, info, outs, status)
<1>2. new \in Bundle BY BundleType, PushType DEF Bundle, Pushed
<1>3. PushStatus(d, m, info, outs, status) =
          [d EXCEPT !.withdrawal_bundles[m] = new]
  BY DEF PushStatus, Pushed
<1> HIDE DEF new
<1>4. QED BY <1>2, <1>3, EntryType DEF new

LEMMA PopStatusType ==
  ASSUME NEW d \in Databases, NEW m \in M6id,
         NEW info \in {"Absent", "Known", "Unknown", "UnknownConfirmed"},
         NEW outs \in SUBSET Outpoint
  PROVE  /\ PopStatus(d, m, info, outs) \in Databases
         /\ EntryOf(PopStatus(d, m, info, outs), d, m, Popped(d, m, info, outs))
<1> DEFINE new == Popped(d, m, info, outs)
<1>1. Pop(d.withdrawal_bundles[m].status) \in RollBackOf(Status)
  BY PopType, EmptyPop, BundleType
<1>2. new \in Bundle BY <1>1 DEF Bundle, NoBundle, Popped
<1>3. PopStatus(d, m, info, outs) = [d EXCEPT !.withdrawal_bundles[m] = new]
  BY DEF PopStatus, Popped
<1> HIDE DEF new
<1> QED BY <1>2, <1>3, EntryType DEF new

LEMMA PendingType ==
  ASSUME NEW d \in Databases, NEW p \in SUBSET M6id
  PROVE  /\ [d EXCEPT !.pending_withdrawal_bundle = p] \in Databases
         /\ PendingOf([d EXCEPT !.pending_withdrawal_bundle = p], d, p)
BY DEF Databases, PendingOf

LEMMA LatestFailedType ==
  ASSUME NEW d \in Databases, NEW f \in RollBackOf(M6id)
  PROVE  /\ [d EXCEPT !.latest_failed_withdrawal_bundle = f] \in Databases
         /\ SameFunds([d EXCEPT !.latest_failed_withdrawal_bundle = f], d)
BY DEF Databases, SameFunds

LEMMA LogsType ==
  ASSUME NEW d \in Databases, NEW x \in Seq(EventBlock),
         NEW y \in Seq(EventBlock), NEW a \in SUBSET Outpoint
  PROVE  LET e == [d EXCEPT !.deposit_blocks = x,
                            !.withdrawal_bundle_event_blocks = y,
                            !.utreexo_accumulator = a]
         IN  e \in Databases /\ SameFunds(e, d)
BY DEF Databases, SameFunds

LEMMA SpendIsOutpoints ==
  \A m \in M6id : /\ m.spend \in SUBSET Withdrawal
                  /\ m.spend \in SUBSET Outpoint /\ m \in M6id \cup {Regular, Unspent}
BY DEF M6id, Outpoint

-----------------------------------------------------------------------------
(* Type correctness *)

LEMMA InitTInv == Init => TInv
<1> SUFFICES ASSUME Init PROVE TInv OBVIOUS
<1>2. chain = << >> /\ main = << >> /\ txn = NoTransaction /\ committed = db BY DEF Init
<1>3. txn \in Transaction BY <1>2 DEF NoTransaction, Transaction
<1>4. ChainGood BY <1>2, ConstantsAssumption DEF ChainGood, NoTransaction
<1> QED
  BY <1>2, <1>3, <1>4 DEF Init, TInv, TypeOK, Databases, Bundle, NoBundle, RollBackOf

\* The part of the invariant that a step that leaves chain and main alone
\* can disturb.
LEMMA SameChainTInv ==
  ASSUME TInv, chain' = chain, main' = main,
         db' \in Databases, committed' \in Databases, txn' \in Transaction,
         net_task' \in {"running", "error", "panicked"}, defects' \subseteq Defect,
         txn'.phase # "idle" => Len(chain) > 0,
         txn'.phase = "disconnect" => txn'.undo =< Len(main)
  PROVE  TInv'
BY DEF TInv, TypeOK, ChainGood

\* Taking back the last block of the chain and its events.
LEMMA PopChainTInv ==
  ASSUME TInv, txn.phase # "idle",
         chain' = SubSeq(chain, 1, Len(chain) - 1),
         main' = SubSeq(main, 1, tip.events),
         db' \in Databases, committed' \in Databases,
         txn' = NoTransaction, net_task' \in {"running", "error", "panicked"},
         defects' = defects
  PROVE  TInv'
<1>1. Len(chain) \in Nat \ {0} /\ tip \in Block /\ tip.events \in Nat
  BY HeightType DEF Block
<1>2. /\ chain' \in Seq(Block) /\ Len(chain') = Len(chain) - 1
      /\ \A i \in 1..Len(chain') : chain'[i] = chain[i]
  <2>1. Len(chain) - 1 \in 0..Len(chain) BY <1>1
  <2> QED BY <2>1, PrefixType DEF TInv, TypeOK
<1>6. main' \in Seq(Event) /\ Len(main') = tip.events
  BY <1>1, PrefixType, LenProperties DEF TInv, TypeOK, ChainGood, tip
<1>7. txn' \in Transaction /\ txn'.phase = "idle" BY DEF NoTransaction, Transaction
<1>8. \A i \in 1..Len(chain') : chain'[i].events =< Len(main')
  <2>1. \A i \in 1..Len(chain') : i \in 1..Len(chain) /\ i =< Len(chain)
    BY <1>1, <1>2
  <2>2. Len(chain) \in 1..Len(chain) BY <1>1
  <2> QED BY <1>2, <1>6, <2>1, <2>2 DEF TInv, ChainGood, tip
<1>9. ChainGood'
  <2>1. /\ Len(chain) =< MaxHeight + 1 /\ MaxHeight \in Nat
        /\ \A i, j \in 1..Len(chain) : i =< j => chain[i].events =< chain[j].events
    BY ConstantsAssumption DEF TInv, ChainGood
  <2>3. \A i \in 1..Len(chain') : i \in 1..Len(chain) BY <1>1, <1>2
  <2>4. \A i, j \in 1..Len(chain') : i =< j => chain'[i].events =< chain'[j].events
    BY <1>2, <2>1, <2>3
  <2> QED BY <1>1, <1>2, <1>7, <1>8, <2>1, <2>4 DEF ChainGood
<1> QED BY <1>2, <1>6, <1>7, <1>9 DEF TInv, TypeOK

LEMMA AbortTInv ==
  ASSUME TInv, NEW outcome \in {"error", "panicked"}, Abort(outcome)
  PROVE  TInv'
<1>1. /\ db' \in Databases /\ committed' \in Databases
      /\ net_task' \in {"running", "error", "panicked"} /\ txn' = NoTransaction
      /\ defects' = defects /\ defects \subseteq Defect
  BY DEF Abort, TInv, TypeOK
<1>2. CASE txn.phase = "connect" BY <1>1, <1>2, PopChainTInv DEF Abort
<1>3. CASE txn.phase # "connect"
  BY <1>1, <1>3, SameChainTInv DEF Abort, NoTransaction, Transaction
<1> QED BY <1>2, <1>3

LEMMA AppliedTInv ==
  ASSUME TInv, txn.phase = "connect", NEW b \in Nat,
         NEW kind, NEW what, [block |-> b, kind |-> kind, of |-> what] \in Event,
         NEW d \in Databases, NEW t \in Transaction, t.phase = "connect",
         Applied(b, kind, what, d, t)
  PROVE  TInv'
<1>1. /\ db' = d /\ committed' = committed /\ chain' = chain /\ net_task' = net_task
      /\ main' = Append(main, [block |-> b, kind |-> kind, of |-> what])
      /\ defects' = defects
  BY DEF Applied
<1>2. txn' \in Transaction /\ txn'.phase = "connect" BY DEF Applied, Transaction
<1> DEFINE e == [block |-> b, kind |-> kind, of |-> what]
<1> HIDE DEF e
<1>6. \A i \in 1..Len(chain) : chain[i].events \in Nat
  <2>2. \A i \in 1..Len(chain) : chain[i] \in Block BY ElementOfSeq DEF TInv, TypeOK
  <2> QED BY <2>2 DEF Block
<1> QED
  BY <1>1, <1>2, <1>6, AppendProperties, LenProperties DEF TInv, TypeOK, ChainGood, e

LEMMA UndoneTInv ==
  ASSUME TInv, txn.phase = "disconnect", txn.undo > 0,
         NEW d \in Databases, NEW t \in Transaction,
         t.phase = "disconnect", t.undo = txn.undo, Undone(d, t)
  PROVE  TInv'
<1>1. /\ db' = d /\ committed' = committed /\ chain' = chain /\ main' = main
      /\ net_task' = net_task /\ defects' = defects
  BY DEF Undone
<1>2. txn \in Transaction /\ txn.undo \in Nat \ {0} /\ txn.undo =< Len(main)
  BY DEF TInv, TypeOK, ChainGood, Transaction
<1>3. main[txn.undo].block \in Nat
  BY <1>2, ElementOfSeq, LenProperties DEF Event, TInv, TypeOK
<1>4. txn' \in Transaction /\ txn'.phase = "disconnect" /\ txn'.undo = txn.undo - 1
  <2> DEFINE b == main[txn.undo].block
             u == t.undo - 1
  <2>3. \/ txn' = [t EXCEPT !.undo = u, !.deposit_block = b]
        \/ txn' = [t EXCEPT !.undo = u, !.event_block = b]
    BY DEF Undone
  <2>4. b \in Nat /\ u \in Nat /\ u = txn.undo - 1 BY <1>2, <1>3
  <2> HIDE DEF b, u
  <2> QED BY <2>3, <2>4 DEF Transaction
<1>5. txn'.undo =< Len(main) /\ Len(chain) > 0
  BY <1>2, <1>4, LenProperties DEF TInv, ChainGood, TypeOK
<1> QED BY <1>1, <1>4, <1>5, SameChainTInv DEF TInv, TypeOK

-----------------------------------------------------------------------------
(* The databases that the handlers write *)

\* connect_withdrawal_bundle_submitted of the pending bundle.
LEMMA SubmittedDb ==
  ASSUME NEW d \in Databases, height \in Nat, NEW m \in M6id,
         NEW s, s = Spend(d, m.spend, m),
         NEW p, p = PushStatus(s, m, "Known", {}, "Submitted"),
         NEW e, e = [p EXCEPT !.pending_withdrawal_bundle = {}]
  PROVE  /\ e \in Databases /\ SpendOf(s, d, m.spend, m)
         /\ EntryOf(p, s, m, Pushed(s, m, "Known", {}, "Submitted"))
         /\ PendingOf(e, p, {})
<1> QED BY PendingType, PushStatusType, SpendIsOutpoints, SpendType DEF Status

\* connect_withdrawal_bundle_confirmed.
LEMMA ConfirmedDb ==
  ASSUME NEW d \in Databases, height \in Nat, NEW m \in M6id,
         NEW outs \in SUBSET Outpoint,
         NEW info \in {"Absent", "Known", "Unknown", "UnknownConfirmed"},
         NEW recorded \in SUBSET Outpoint,
         NEW s, s = Spend(d, outs, m),
         NEW e, e = PushStatus(s, m, info, recorded, "Confirmed")
  PROVE  /\ e \in Databases /\ SpendOf(s, d, outs, m)
         /\ EntryOf(e, s, m, Pushed(s, m, info, recorded, "Confirmed"))
<1> QED BY PushStatusType, SpendIsOutpoints, SpendType DEF Status

\* connect_withdrawal_bundle_failed of a bundle whose submission spent utxos.
FailsWith(d, m, info, recorded, s, p, f, e) ==
    /\ s = Unspend(d, m.spend)
    /\ p = PushStatus(s, m, info, recorded, "Failed")
    /\ f = Push(p.latest_failed_withdrawal_bundle, m, height)
    /\ e = [p EXCEPT !.latest_failed_withdrawal_bundle = f]

LEMMA FailedDb ==
  ASSUME NEW d \in Databases, height \in Nat, NEW m \in M6id,
         NEW info \in {"Absent", "Known", "Unknown", "UnknownConfirmed"},
         NEW recorded \in SUBSET Outpoint, NEW s, NEW p, NEW f, NEW e,
         FailsWith(d, m, info, recorded, s, p, f, e)
  PROVE  /\ e \in Databases /\ UnspendOf(s, d, m.spend)
         /\ EntryOf(p, s, m, Pushed(s, m, info, recorded, "Failed")) /\ SameFunds(e, p)
<1>2. /\ s = Unspend(d, m.spend) /\ p = PushStatus(s, m, info, recorded, "Failed")
      /\ f = Push(p.latest_failed_withdrawal_bundle, m, height)
      /\ e = [p EXCEPT !.latest_failed_withdrawal_bundle = f]
  BY DEF FailsWith
<1>1. s \in Databases /\ UnspendOf(s, d, m.spend) BY <1>2, SpendIsOutpoints, UnspendType
<1>3. p \in Databases /\ EntryOf(p, s, m, Pushed(s, m, info, recorded, "Failed"))
  BY <1>1, <1>2, PushStatusType DEF Status
<1>4. f \in RollBackOf(M6id) BY <1>2, <1>3, PushType DEF Databases
<1> QED BY <1>1, <1>2, <1>3, <1>4, LatestFailedType

\* disconnect_withdrawal_bundle_submitted of a bundle that becomes pending.
LEMMA UnsubmittedDb ==
  ASSUME NEW d \in Databases, NEW m \in M6id,
         NEW info \in {"Absent", "Known", "Unknown", "UnknownConfirmed"},
         NEW recorded \in SUBSET Outpoint,
         NEW s, s = Unspend(d, m.spend),
         NEW p, p = PopStatus(s, m, info, recorded),
         NEW e, e = [p EXCEPT !.pending_withdrawal_bundle = {m}]
  PROVE  /\ e \in Databases /\ UnspendOf(s, d, m.spend)
         /\ EntryOf(p, s, m, Popped(s, m, info, recorded)) /\ PendingOf(e, p, {m})
<1> QED BY PendingType, PopStatusType, SpendIsOutpoints, UnspendType

\* disconnect_withdrawal_bundle_confirmed.
LEMMA UnconfirmedDb ==
  ASSUME NEW d \in Databases, NEW m \in M6id, NEW outs \in SUBSET Outpoint,
         NEW info \in {"Absent", "Known", "Unknown", "UnknownConfirmed"},
         NEW recorded \in SUBSET Outpoint,
         NEW s, s = Unspend(d, outs),
         NEW e, e = PopStatus(s, m, info, recorded)
  PROVE  /\ e \in Databases /\ UnspendOf(s, d, outs)
         /\ EntryOf(e, s, m, Popped(s, m, info, recorded))
<1> QED BY PopStatusType, UnspendType

\* disconnect_withdrawal_bundle_failed of a bundle whose utxos it spends again.
LEMMA UnfailedDb ==
  ASSUME NEW d \in Databases, NEW m \in M6id,
         NEW info \in {"Absent", "Known", "Unknown", "UnknownConfirmed"},
         NEW recorded \in SUBSET Outpoint,
         NEW s, s = Spend(d, m.spend, m),
         NEW p, p = PopStatus(s, m, info, recorded),
         NEW f, f = Pop(p.latest_failed_withdrawal_bundle),
         NEW e, e = [p EXCEPT !.latest_failed_withdrawal_bundle = f]
  PROVE  /\ e \in Databases /\ SpendOf(s, d, m.spend, m)
         /\ EntryOf(p, s, m, Popped(s, m, info, recorded)) /\ SameFunds(e, p)
<1>1. s \in Databases /\ SpendOf(s, d, m.spend, m) BY SpendIsOutpoints, SpendType
<1>2. p \in Databases /\ EntryOf(p, s, m, Popped(s, m, info, recorded))
  BY <1>1, PopStatusType
<1>3. f \in RollBackOf(M6id) BY <1>2, PopType, EmptyPop DEF Databases
<1> QED BY <1>1, <1>2, <1>3, LatestFailedType

\* connect_event of a deposit, and disconnect_event.
LEMMA UtxosType ==
  ASSUME NEW d \in Databases, NEW u \in SUBSET Outpoint
  PROVE  LET e == [d EXCEPT !.utxos = u]
         IN  /\ e \in Databases
             /\ e.utxos = u /\ e.stxos = d.stxos
             /\ e.pending_withdrawal_bundle = d.pending_withdrawal_bundle
             /\ e.withdrawal_bundles = d.withdrawal_bundles
BY DEF Databases

\* apply_block of a body.
LEMMA BodyDb ==
  ASSUME NEW d \in Databases, NEW spent \in SUBSET Outpoint,
         NEW created \in SUBSET Withdrawal,
         NEW s, s = Spend(d, spent, Regular),
         NEW u, u = s.utxos \cup created,
         NEW a, a = (s.utreexo_accumulator \ spent) \cup created,
         NEW e, e = [s EXCEPT !.utxos = u, !.utreexo_accumulator = a]
  PROVE  /\ e \in Databases /\ SpendOf(s, d, spent, Regular)
         /\ e.utxos = s.utxos \cup created /\ e.stxos = s.stxos
         /\ e.pending_withdrawal_bundle = s.pending_withdrawal_bundle
         /\ e.withdrawal_bundles = s.withdrawal_bundles
<1>1. s \in Databases /\ SpendOf(s, d, spent, Regular) BY SpendType
<1> QED BY <1>1 DEF Databases, Outpoint

LEMMA CollectDb ==
  ASSUME TInv, txn.phase = "connect"
  PROVE  /\ Collected \in M6id /\ Collected.spend = Selected[db.utxos \cap Withdrawal]
         /\ Collected.spend \subseteq db.utxos /\ Collect(db) \in Databases
         /\ \/ Collect(db) = db
            \/ /\ CollectDue
               /\ \E p : /\ EntryOf(p, db, Collected,
                                    Pushed(db, Collected, "Known", {}, "Pending"))
                         /\ PendingOf(Collect(db), p, {Collected})
<1>1. db \in Databases /\ height \in 0..MaxHeight /\ height \in Nat
  BY HeightType DEF TInv, TypeOK
<1> DEFINE ws == db.utxos \cap Withdrawal
<1>3. Selected[ws] \in SUBSET Withdrawal /\ Selected[ws] \subseteq ws
  BY ConstantsAssumption
<1>5. Collected \in M6id /\ Collected.spend = Selected[ws]
  BY <1>1, <1>3 DEF M6id, Collected
<1>6. Collected.spend \subseteq db.utxos BY <1>3, <1>5
<1> HIDE DEF ws
<1>7. CASE CollectDue
  <2> DEFINE p == PushStatus(db, Collected, "Known", {}, "Pending")
  <2>2. /\ p \in Databases
        /\ EntryOf(p, db, Collected, Pushed(db, Collected, "Known", {}, "Pending"))
    BY <1>1, <1>5, PushStatusType DEF Status
  <2>3. {Collected} \in SUBSET M6id BY <1>5
  <2>4. Collect(db) = [p EXCEPT !.pending_withdrawal_bundle = {Collected}]
    BY <1>7 DEF Collect
  <2> HIDE DEF p
  <2>5. Collect(db) \in Databases /\ PendingOf(Collect(db), p, {Collected})
    BY <2>2, <2>3, <2>4, PendingType
  <2> QED BY <1>5, <1>6, <1>7, <2>2, <2>5 DEF ws
<1>8. CASE ~CollectDue BY <1>1, <1>5, <1>6, <1>8 DEF Collect, ws
<1> QED BY <1>7, <1>8

LEMMA UncollectDb ==
  ASSUME TInv
  PROVE  /\ Uncollect(db) \in Databases
         /\ \/ Uncollect(db) = db
            \/ \E m \in db.pending_withdrawal_bundle : \E p :
                  /\ m \in M6id
                  /\ EntryOf(p, db, m, Popped(db, m, bundle(m).info,
                                              bundle(m).spend_utxos))
                  /\ PendingOf(Uncollect(db), p, {})
<1>1. db \in Databases /\ db.pending_withdrawal_bundle \in SUBSET M6id
  BY DEF TInv, TypeOK, Databases
<1> DEFINE here == {m \in db.pending_withdrawal_bundle :
                       Latest(bundle(m).status).height = height}
<1>2. CASE ~GapElapsed \/ here = {} BY <1>1, <1>2 DEF Uncollect
<1>3. CASE GapElapsed /\ here # {}
  <2> DEFINE m == CHOOSE m \in here : TRUE
             p == PopStatus(db, m, bundle(m).info, bundle(m).spend_utxos)
  <2>1. m \in db.pending_withdrawal_bundle /\ m \in M6id BY <1>1, <1>3
  <2>2. Uncollect(db) = [p EXCEPT !.pending_withdrawal_bundle = {}]
    BY <1>3 DEF Uncollect
  <2> HIDE DEF m
  <2>4. /\ p \in Databases
        /\ EntryOf(p, db, m, Popped(db, m, bundle(m).info, bundle(m).spend_utxos))
    BY <1>1, <2>1, PopStatusType, BundleType DEF bundle
  <2> HIDE DEF p
  <2> QED BY <2>1, <2>2, <2>4, PendingType
<1> QED BY <1>2, <1>3

LEMMA RecordType ==
  ASSUME NEW log \in Seq(EventBlock), NEW block \in Nat, height \in Nat
  PROVE  /\ Record(log, block) \in Seq(EventBlock)
         /\ log # << >> => Pop(log) \in Seq(EventBlock)
<1>3. ASSUME log # << >> PROVE Pop(log) \in Seq(EventBlock)
  BY <1>3, PrefixType, EmptySeq DEF Pop
<1> QED BY <1>3, AppendProperties DEF Record, EventBlock

LEMMA StartBlockType ==
  ASSUME TInv
  PROVE  StartBlock \in Nat
<1>1. /\ db.deposit_blocks \in Seq(EventBlock)
      /\ db.withdrawal_bundle_event_blocks \in Seq(EventBlock)
  BY DEF TInv, TypeOK, Databases
<1>2. ASSUME NEW log \in Seq(EventBlock)
      PROVE  LastEarlier(log).block \in Nat
  <2> DEFINE earlier == {i \in DOMAIN log : log[i].height < height - 1 \/ height = 0}
  <2>1. CASE earlier = {} BY <2>1 DEF LastEarlier
  <2>2. CASE earlier # {}
    <3>1. DOMAIN log = 1..Len(log) /\ Len(log) \in Nat BY LenProperties
    <3>2. earlier \in SUBSET (1..Len(log)) BY <3>1
    <3>3. LastEarlier(log) = log[Max(earlier)] BY <2>2 DEF LastEarlier
    <3> HIDE DEF earlier
    <3>5. log[Max(earlier)] \in EventBlock BY <2>2, <3>1, <3>2, ElementOfSeq, MaxIn
    <3> QED BY <3>3, <3>5 DEF EventBlock
  <2> QED BY <2>1, <2>2
<1> DEFINE a == LastEarlier(db.deposit_blocks).block
           b == LastEarlier(db.withdrawal_bundle_event_blocks).block
<1>3. a \in Nat /\ b \in Nat BY <1>1, <1>2
<1>4. StartBlock \in {Max({a, b}), Min({a, b}), a, b} BY DEF StartBlock
<1> HIDE DEF a, b
<1> QED BY <1>3, <1>4, MaxMinOfTwo

-----------------------------------------------------------------------------
(* Every step preserves the types *)

LEMMA ConnectBodyTInv ==
  ASSUME TInv, NEW spent \in SUBSET db.utxos, NEW created \in SUBSET Withdrawal,
         ConnectBody(spent, created)
  PROVE  TInv'
<1>1. db \in Databases /\ spent \in SUBSET Outpoint BY DEF TInv, TypeOK, Databases
<1>2. db' \in Databases BY <1>1, BodyDb DEF ConnectBody
<1> DEFINE blk == [spent |-> spent, created |-> created,
                   events |-> Len(main), before |-> db]
<1>3. Len(main) \in Nat /\ main \in Seq(Event) BY LenProperties DEF TInv, TypeOK
<1>4. blk \in Block BY <1>1, <1>3 DEF Block
<1>5. chain' = Append(chain, blk) /\ blk.events = Len(main) BY DEF ConnectBody
<1> HIDE DEF blk
<1>6. /\ chain' \in Seq(Block) /\ Len(chain') = Len(chain) + 1 /\ Len(chain) \in Nat
      /\ \A i \in 1..Len(chain) : chain'[i] = chain[i]
      /\ chain'[Len(chain) + 1] = blk
  BY <1>4, <1>5, AppendProperties, LenProperties DEF TInv, TypeOK
<1>7. /\ committed' = committed /\ main' = main /\ net_task' = net_task
      /\ defects' = defects /\ Len(chain) =< MaxHeight /\ txn' = [txn EXCEPT !.phase = "connect"]
  BY DEF ConnectBody
<1>8. txn' \in Transaction /\ txn'.phase = "connect"
  BY <1>7 DEF TInv, TypeOK, Transaction
<1>9. ChainGood'
  <2>2. \A i \in 1..Len(chain') : i \in 1..Len(chain) \/ i = Len(chain) + 1 BY <1>6
  <2>3. \A i \in 1..Len(chain') : chain'[i].events =< Len(main)
    BY <1>3, <1>5, <1>6, <2>2 DEF TInv, ChainGood
  <2>4. \A i, j \in 1..Len(chain') : i =< j => chain'[i].events =< chain'[j].events
    <3> SUFFICES ASSUME NEW i \in 1..Len(chain'), NEW j \in 1..Len(chain'), i =< j
                 PROVE  chain'[i].events =< chain'[j].events
      OBVIOUS
    <3>1. CASE j \in 1..Len(chain) BY <1>6, <3>1 DEF TInv, ChainGood
    <3>2. CASE j = Len(chain) + 1 BY <1>5, <1>6, <2>3, <3>2
    <3> QED BY <2>2, <3>1, <3>2
  <2> QED BY <1>6, <1>7, <1>8, <2>3, <2>4, ConstantsAssumption DEF ChainGood
<1> QED BY <1>2, <1>6, <1>7, <1>8, <1>9 DEF TInv, TypeOK

LEMMA NextMainBlocksType ==
  ASSUME TInv, NEW b \in NextMainBlocks
  PROVE  b \in Nat
<1>2. EventMainBlock(Len(main)) \in Nat
  <2>1. CASE Len(main) = 0 BY <2>1 DEF EventMainBlock
  <2>2. CASE Len(main) # 0
    BY <2>2, ElementOfSeq, LenProperties DEF EventMainBlock, Event, TInv, TypeOK
  <2> QED BY <2>1, <2>2
<1> QED BY <1>2 DEF NextMainBlocks

LEMMA EventTypes ==
  ASSUME NEW b \in Nat
  PROVE  /\ \A o \in Deposit :
               [block |-> b, kind |-> "Deposit", of |-> o] \in Event
         /\ \A m \in M6id, kind \in {"Submitted", "Confirmed", "Failed"} :
               [block |-> b, kind |-> kind, of |-> m] \in Event
BY DEF Event

\* A handler of a bundle's event that writes databases of the right type.
LEMMA AppliedBundleTInv ==
  ASSUME TInv, txn.phase = "connect", NEW b \in Nat, NEW m \in M6id,
         NEW kind \in {"Submitted", "Confirmed", "Failed"},
         NEW d \in Databases, NEW t \in Transaction, t.phase = "connect",
         Applied(b, kind, m, d, t)
  PROVE  TInv'
<1> QED BY AppliedTInv, EventTypes

\* What every handler starts from.
LEMMA Typed ==
  ASSUME TInv, NEW m \in M6id
  PROVE  /\ db \in Databases /\ db.utxos \in SUBSET Outpoint /\ txn \in Transaction
         /\ bundle(m).info \in {"Absent", "Known", "Unknown", "UnknownConfirmed"}
         /\ bundle(m).spend_utxos \in SUBSET Outpoint
         /\ bundle(m).status \in RollBackOf(Status) /\ m.spend \in SUBSET Outpoint
         /\ Insert(txn, m.spend) \in Transaction
         /\ Insert(txn, m.spend).phase = txn.phase
         /\ Insert(txn, m.spend).undo = txn.undo /\ Erase(txn, m.spend) \in Transaction
         /\ Erase(txn, m.spend).phase = txn.phase
         /\ Erase(txn, m.spend).undo = txn.undo
<1>1. db \in Databases /\ txn \in Transaction BY DEF TInv, TypeOK
<1>2. db.utxos \in SUBSET Outpoint BY <1>1 DEF Databases
<1>3. m.spend \in SUBSET Outpoint BY SpendIsOutpoints
<1>4. /\ bundle(m).info \in {"Absent", "Known", "Unknown", "UnknownConfirmed"}
      /\ bundle(m).spend_utxos \in SUBSET Outpoint
      /\ bundle(m).status \in RollBackOf(Status)
  BY <1>1, BundleType DEF bundle
<1> DEFINE w == m.spend
<1>5. w \in SUBSET Outpoint BY <1>3
<1> HIDE DEF w
<1> QED BY <1>1, <1>2, <1>3, <1>4, <1>5, DiffType DEF w

LEMMA ConnectDepositTInv ==
  ASSUME TInv, NEW b \in NextMainBlocks, NEW o \in Deposit, ConnectDeposit(b, o)
  PROVE  TInv'
<1>1. /\ txn.phase = "connect" /\ b \in Nat
      /\ [block |-> b, kind |-> "Deposit", of |-> o] \in Event
  BY NextMainBlocksType, EventTypes DEF ConnectDeposit
<1> DEFINE u == db.utxos \cup {o}
           d == [db EXCEPT !.utxos = u]
           t == Insert(txn, {o})
<1>2. db \in Databases /\ u \in SUBSET Outpoint /\ {o} \in SUBSET Outpoint
  BY DEF TInv, TypeOK, Databases, Outpoint
<1>3. d \in Databases BY <1>2, UtxosType
<1>4. t \in Transaction /\ t.phase = "connect" BY <1>1, <1>2, DiffType DEF TInv, TypeOK
<1>5. Applied(b, "Deposit", o, d, t) BY DEF ConnectDeposit
<1> HIDE DEF d, t
<1> QED BY <1>1, <1>3, <1>4, <1>5, AppliedTInv

-----------------------------------------------------------------------------
(* What a step may do to the funds *)

\* A step that touches only unspent outpoints, and those spent by the bundles
\* in X, leaves the funds of every other bundle and of every body alone.
LEMMA FundsStep ==
  ASSUME NEW d \in Databases, NEW e \in Databases, NEW c \in Seq(Block),
         NEW X \in SUBSET M6id, Funds(d, c),
         \A o \in Outpoint : \/ e.stxos[o] = d.stxos[o]
                             \/ d.stxos[o] = Unspent
                             \/ d.stxos[o] \in X,
         \A m \in M6id : m \notin X =>
             e.withdrawal_bundles[m] = d.withdrawal_bundles[m],
         \A m \in X : BundleGood(e, m),
         PendingGood(e), NotBoth(e)
  PROVE  Funds(e, c)
<1>1. ASSUME NEW m \in M6id PROVE BundleGood(e, m)
  <2>1. CASE m \in X BY <2>1
  <2>2. CASE m \notin X
    <3>1. Entry(e, m) = Entry(d, m) /\ BundleGood(d, m) /\ Unspent # m
      BY <2>2, ConstantsAssumption DEF Entry, Funds, DatabasesGood
    <3>6. History(e, m) BY <3>1 DEF BundleGood, History
    <3> QED
      BY <2>2, <3>1, <3>6, SpendIsOutpoints, BundleType DEF BundleGood, Locked, Last,
         UnknownLocked, Entry
  <2> QED BY <2>1, <2>2
<1>2. BodiesGood(e, c)
  <2>1. ASSUME NEW i \in 1..Len(c), NEW o \in c[i].spent
        PROVE  e.stxos[o] = Regular
    <3>1. c[i] \in Block BY ElementOfSeq
    <3> QED BY <3>1, ConstantsAssumption DEF Funds, BodiesGood, Block
  <2> QED BY <2>1 DEF Funds, BodiesGood
<1> QED BY <1>1, <1>2 DEF Funds, DatabasesGood

\* A step inside an open transaction: it leaves what is committed alone, and
\* the funds are in order in what it writes if they were before.
Keeps ==
    /\ TInv' /\ committed' = committed /\ chain' = chain /\ txn'.phase = txn.phase
    /\ Funds(db, chain) => Funds(db', chain)

Aborts == \E outcome \in {"error", "panicked"} : Abort(outcome)

LEMMA AppliedKeeps ==
  ASSUME TInv, txn.phase = "connect", NEW b \in Nat, NEW m \in M6id,
         NEW kind \in {"Submitted", "Confirmed", "Failed"},
         NEW d \in Databases, NEW t \in Transaction, t.phase = "connect",
         Applied(b, kind, m, d, t),
         Funds(db, chain) => Funds(d, chain)
  PROVE  Keeps
<1>1. TInv' BY AppliedBundleTInv
<1> QED BY <1>1 DEF Keeps, Applied, Transaction

LEMMA UndoneKeeps ==
  ASSUME TInv, txn.phase = "disconnect", txn.undo > 0,
         NEW d \in Databases, NEW t \in Transaction,
         t.phase = "disconnect", t.undo = txn.undo, Undone(d, t),
         Funds(db, chain) => Funds(d, chain)
  PROVE  Keeps
<1>1. TInv' BY UndoneTInv
<1>2. db' = d /\ committed' = committed /\ chain' = chain BY DEF Undone
<1>3. txn'.phase = txn.phase
  <2> DEFINE b == main[txn.undo].block
             u == t.undo - 1
  <2>1. \/ txn' = [t EXCEPT !.undo = u, !.deposit_block = b]
        \/ txn' = [t EXCEPT !.undo = u, !.event_block = b]
    BY DEF Undone
  <2> HIDE DEF b, u
  <2> QED BY <2>1 DEF Transaction
<1> QED BY <1>1, <1>2, <1>3 DEF Keeps

\* The new entry of a bundle whose history got longer.
LEMMA PushedGood ==
  ASSUME NEW d \in Databases, NEW e \in Databases, NEW m \in M6id,
         height \in Nat, NEW info \in {"Known", "Unknown", "UnknownConfirmed"},
         NEW outs \in SUBSET Outpoint, NEW status \in Status,
         e.withdrawal_bundles[m] = Pushed(d, m, info, outs, status)
  PROVE  /\ Entry(e, m).info = info /\ Entry(e, m).spend_utxos = outs
         /\ Entry(e, m).status # << >> /\ Last(e, m) = status
         /\ History(d, m)
            /\ (m.spend # {} /\ info = "Known" =>
                  Entry(d, m).info = "Known" \/ Entry(d, m).status = << >>)
            /\ (m.spend # {} /\ info = "Known" /\ Entry(d, m).status # << >> =>
                  /\ status \in {"Pending", "Submitted", "SubmittedUnexpected"}
                        => Last(d, m) \notin {"Submitted", "Confirmed"}
                  /\ status = "SubmittedUnexpected" => Last(d, m) # "Pending")
            => History(e, m)
<1> DEFINE old == d.withdrawal_bundles[m].status
           new == Push(old, status, height)
<1>1. old \in RollBackOf(Status) BY BundleType
<1>2. /\ Entry(e, m).info = info /\ Entry(e, m).spend_utxos = outs
      /\ Entry(e, m).status = new
  BY DEF Entry, Pushed
<1>3. /\ new # << >> /\ Latest(new) = [value |-> status, height |-> height]
      /\ Len(new) = Len(old) + 1 /\ \A i \in 1..Len(old) : new[i] = old[i]
  BY <1>1, PushType
<1>4. Len(old) \in Nat /\ (old = << >> <=> Len(old) = 0)
  BY <1>1, LenProperties, EmptySeq DEF RollBackOf
<1>5. new[Len(new)].value = status BY <1>3 DEF Latest
<1> HIDE DEF new
<1>6. ASSUME History(d, m), info = "Known", m.spend # {},
             Entry(d, m).info = "Known" \/ old = << >>,
             old # << >> =>
                /\ status \in {"Pending", "Submitted", "SubmittedUnexpected"}
                      => Last(d, m) \notin {"Submitted", "Confirmed"}
                /\ status = "SubmittedUnexpected" => Last(d, m) # "Pending",
             NEW i \in 2..Len(new)
      PROVE  /\ new[i].value \in {"Pending", "Submitted", "SubmittedUnexpected"} =>
                    new[i - 1].value \notin {"Submitted", "Confirmed"}
             /\ new[i].value = "SubmittedUnexpected" => new[i - 1].value # "Pending"
  <2>1. CASE i = Len(new)
    <3>1. i - 1 = Len(old) /\ Len(old) \in 1..Len(old) /\ old # << >>
      BY <1>3, <1>4, <2>1
    <3> QED BY <1>3, <1>5, <1>6, <2>1, <3>1 DEF Last, Latest, Entry
  <2>2. CASE i # Len(new)
    <3>1. i \in 2..Len(old) /\ i \in 1..Len(old) /\ i - 1 \in 1..Len(old)
      BY <1>3, <1>4, <2>2
    <3>3. /\ old[i].value \in {"Pending", "Submitted", "SubmittedUnexpected"} =>
                 old[i - 1].value \notin {"Submitted", "Confirmed"}
          /\ old[i].value = "SubmittedUnexpected" => old[i - 1].value # "Pending"
      BY <1>4, <1>6, <3>1 DEF History, Entry
    <3> QED BY <1>3, <3>1, <3>3
  <2> QED BY <2>1, <2>2
<1>7. Last(e, m) = status BY <1>2, <1>3 DEF Last
<1> QED BY <1>2, <1>3, <1>6, <1>7 DEF History, Entry

\* The new entry of a bundle whose history got shorter.
LEMMA PoppedGood ==
  ASSUME NEW d \in Databases, NEW e \in Databases, NEW m \in M6id,
         NEW info \in {"Known", "Unknown", "UnknownConfirmed"},
         NEW outs \in SUBSET Outpoint, d.withdrawal_bundles[m].status # << >>,
         e.withdrawal_bundles[m] = Popped(d, m, info, outs)
  PROVE  LET rest == Pop(d.withdrawal_bundles[m].status)
         IN  /\ Entry(e, m).status = rest
             /\ rest = << >> => Entry(e, m).info = "Absent"
             /\ rest # << >> => /\ Entry(e, m).info = info
                                /\ Entry(e, m).spend_utxos = outs
                                /\ Last(e, m) = Latest(rest).value
             /\ History(d, m) /\ Entry(d, m).info = "Known" => History(e, m)
             /\ rest # << >> /\ History(d, m) /\ Entry(d, m).info = "Known"
                /\ m.spend # {} =>
                   /\ Last(d, m) \in {"Pending", "Submitted", "SubmittedUnexpected"}
                         => Latest(rest).value \notin {"Submitted", "Confirmed"}
                   /\ Last(d, m) = "SubmittedUnexpected"
                         => Latest(rest).value # "Pending"
<1> DEFINE old == d.withdrawal_bundles[m].status
           rest == Pop(old)
<1>2. /\ Len(rest) = Len(old) - 1 /\ \A i \in 1..(Len(old) - 1) : rest[i] = old[i]
      /\ Len(old) \in Nat \ {0}
      /\ rest # << >> => Latest(rest) = old[Len(old) - 1]
      /\ rest # << >> => Len(old) >= 2
  BY PopType, BundleType
<1>3. Entry(e, m) = IF rest = << >> THEN NoBundle
                    ELSE [info |-> info, spend_utxos |-> outs, status |-> rest]
  BY DEF Entry, Popped
<1> HIDE DEF rest
<1>6. ASSUME History(d, m), Entry(d, m).info = "Known", m.spend # {},
             NEW i \in 2..Len(rest)
      PROVE  /\ rest[i].value \in {"Pending", "Submitted", "SubmittedUnexpected"} =>
                    rest[i - 1].value \notin {"Submitted", "Confirmed"}
             /\ rest[i].value = "SubmittedUnexpected" => rest[i - 1].value # "Pending"
  <2>1. i \in 2..Len(old) /\ i \in 1..(Len(old) - 1) /\ i - 1 \in 1..(Len(old) - 1)
    BY <1>2
  <2> QED BY <1>2, <1>6, <2>1 DEF History, Entry
<1>8. ASSUME rest # << >>, History(d, m), Entry(d, m).info = "Known", m.spend # {}
      PROVE  /\ Last(d, m) \in {"Pending", "Submitted", "SubmittedUnexpected"}
                   => Latest(rest).value \notin {"Submitted", "Confirmed"}
             /\ Last(d, m) = "SubmittedUnexpected" => Latest(rest).value # "Pending"
  <2>1. Len(old) \in 2..Len(old) BY <1>2, <1>8
  <2> QED BY <1>2, <1>8, <2>1 DEF Last, Latest, Entry, History
<1> QED BY <1>3, <1>6, <1>8 DEF rest, Last, History, NoBundle

-----------------------------------------------------------------------------
(* The handlers of connect_event *)

\* What the invariant says of one bundle.
LEMMA FundsFacts ==
  ASSUME TInv, Funds(db, chain), NEW m \in M6id
  PROVE  /\ \A o \in db.utxos : db.stxos[o] = Unspent
         /\ PendingGood(db) /\ BundleGood(db, m) /\ chain \in Seq(Block)
         /\ {m} \in SUBSET M6id
BY DEF Funds, DatabasesGood, NotBoth, TInv, TypeOK

LEMMA SubmitPendingKeeps ==
  ASSUME TInv, txn.phase = "connect", NEW b \in Nat, NEW m \in M6id,
         SubmitPending(b, m)
  PROVE  Keeps
<1>1. height \in Nat BY HeightType
<1> DEFINE s == Spend(db, m.spend, m)
           p == PushStatus(s, m, "Known", {}, "Submitted")
           e == [p EXCEPT !.pending_withdrawal_bundle = {}]
           t == Erase(txn, m.spend)
<1>2. t \in Transaction /\ t.phase = "connect" /\ db \in Databases BY Typed
<1>3. /\ Applied(b, "Submitted", m, e, t)
      /\ IsPending(m) /\ bundle(m).info = "Known" /\ m.spend \subseteq db.utxos
      /\ LatestStatus(m) = "Pending"
  BY DEF SubmitPending, Spendable
<1>4. /\ e \in Databases /\ SpendOf(s, db, m.spend, m)
      /\ EntryOf(p, s, m, Pushed(s, m, "Known", {}, "Submitted")) /\ PendingOf(e, p, {})
  BY <1>1, <1>2, SubmittedDb
<1> HIDE DEF s, p, e, t
<1>5. /\ e.utxos = db.utxos \ m.spend
      /\ \A o \in Outpoint : e.stxos[o] = IF o \in m.spend THEN m ELSE db.stxos[o]
      /\ e.pending_withdrawal_bundle = {}
      /\ e.withdrawal_bundles[m] = Pushed(db, m, "Known", {}, "Submitted")
      /\ \A n \in M6id : n # m => e.withdrawal_bundles[n] = db.withdrawal_bundles[n]
  BY <1>4 DEF SpendOf, EntryOf, PendingOf, Pushed
<1>6. ASSUME Funds(db, chain) PROVE Funds(e, chain)
  <2>1. /\ \A o \in db.utxos : db.stxos[o] = Unspent
        /\ BundleGood(db, m) /\ chain \in Seq(Block) /\ {m} \in SUBSET M6id
        /\ m.spend \in SUBSET Outpoint /\ db.utxos \in SUBSET Outpoint
    BY <1>6, FundsFacts, Typed
  <2>3. /\ Entry(e, m).info = "Known" /\ Last(e, m) = "Submitted"
        /\ Entry(e, m).status # << >> /\ History(e, m)
    <3> QED
      BY <1>1, <1>2, <1>3, <1>4, <1>5, <2>1, PushedGood DEF Entry, Last, LatestStatus,
         bundle, BundleGood, Status
  <2>5. PendingGood(e) BY <1>5 DEF PendingGood
  <2>6. NotBoth(e) BY <1>5, <2>1 DEF NotBoth
  <2>7. \A o \in Outpoint : \/ e.stxos[o] = db.stxos[o]
                            \/ db.stxos[o] = Unspent
                            \/ db.stxos[o] \in {m}
    BY <1>3, <1>5, <2>1
  <2>8. \A n \in M6id : n \notin {m} =>
            e.withdrawal_bundles[n] = db.withdrawal_bundles[n]
    BY <1>5
  <2>9. \A n \in {m} : BundleGood(e, n)
    BY <1>5, <2>1, <2>3 DEF BundleGood, Locked, UnknownLocked
  <2> QED BY <1>2, <1>4, <1>6, <2>1, <2>5, <2>6, <2>7, <2>8, <2>9, FundsStep
<1> QED BY <1>2, <1>3, <1>4, <1>6, AppliedKeeps

\* A handler that only adds a status, one that locks no funds.
LEMMA PushOnlyFunds ==
  ASSUME TInv, Funds(db, chain), txn.phase = "connect", NEW m \in M6id,
         NEW info \in {"Known", "Unknown", "UnknownConfirmed"},
         NEW status \in Status, status \notin {"Pending", "Confirmed"},
         info = "Known" => /\ bundle(m).info = "Known" /\ status # "Submitted"
                           /\ LatestStatus(m) \notin {"Submitted", "Confirmed"},
         bundle(m).info # "Absent" => LatestStatus(m) # "Pending",
         NEW outs \in SUBSET Outpoint,
         info = "UnknownConfirmed" =>
             bundle(m).info = info /\ outs = bundle(m).spend_utxos,
         NEW e, e = PushStatus(db, m, info, outs, status)
  PROVE  Funds(e, chain)
<1>1. height \in Nat /\ db \in Databases BY HeightType, Typed
<1>2. info \in {"Known", "Unknown", "UnknownConfirmed"}
      /\ info \in {"Absent", "Known", "Unknown", "UnknownConfirmed"}
  OBVIOUS
<1>3. e \in Databases /\ EntryOf(e, db, m, Pushed(db, m, info, outs, status))
  BY <1>1, <1>2, PushStatusType
<1>4. /\ e.utxos = db.utxos /\ e.stxos = db.stxos
      /\ e.pending_withdrawal_bundle = db.pending_withdrawal_bundle
      /\ e.withdrawal_bundles[m] = Pushed(db, m, info, outs, status)
      /\ \A n \in M6id : n # m => e.withdrawal_bundles[n] = db.withdrawal_bundles[n]
  BY <1>3 DEF EntryOf
<1>5. /\ \A o \in db.utxos : db.stxos[o] = Unspent
      /\ PendingGood(db)
      /\ BundleGood(db, m) /\ chain \in Seq(Block) /\ {m} \in SUBSET M6id
  BY FundsFacts
<1>6. Entry(db, m) = bundle(m) /\ Last(db, m) = LatestStatus(m)
  BY DEF Entry, Last, LatestStatus, bundle
<1>7. /\ Entry(e, m).info = info /\ Last(e, m) = status
      /\ Entry(e, m).status # << >> /\ Entry(e, m).spend_utxos = outs
  BY <1>1, <1>2, <1>3, <1>4, PushedGood
<1>8. History(e, m)
  <2>1. CASE info = "Known"
    BY <1>1, <1>2, <1>3, <1>4, <1>5, <1>6, <2>1, PushedGood DEF BundleGood
  <2>2. CASE info # "Known" BY <1>7, <2>2 DEF History
  <2> QED BY <2>1, <2>2
<1>9. BundleGood(e, m)
  BY <1>4, <1>5, <1>6, <1>7, <1>8 DEF BundleGood, Locked, UnknownLocked
<1>11. PendingGood(e) BY <1>1, <1>4, <1>5, <1>6 DEF PendingGood, Entry, Last, Databases
<1>12. NotBoth(e) BY <1>4, <1>5 DEF NotBoth
<1>13. \A n \in M6id : n \notin {m} =>
          e.withdrawal_bundles[n] = db.withdrawal_bundles[n]
  BY <1>4
<1>14. \A n \in {m} : BundleGood(e, n) BY <1>9
<1>15. \A o \in Outpoint : \/ e.stxos[o] = db.stxos[o]
                           \/ db.stxos[o] = Unspent
                           \/ db.stxos[o] \in {m}
  BY <1>4
<1>16. /\ Funds(db, chain) /\ chain \in Seq(Block) /\ {m} \in SUBSET M6id
       /\ db \in Databases /\ e \in Databases
  BY <1>1, <1>3, <1>5
<1> QED BY ONLY <1>11, <1>12, <1>13, <1>14, <1>15, <1>16, FundsStep

LEMMA SubmitUnexpectedKeeps ==
  ASSUME TInv, txn.phase = "connect", NEW b \in Nat, NEW m \in M6id,
         SubmitUnexpected(b, m)
  PROVE  Keeps
<1> DEFINE e == PushStatus(db, m, bundle(m).info, bundle(m).spend_utxos,
                           "SubmittedUnexpected")
<1>2. /\ Applied(b, "Submitted", m, e, txn) /\ bundle(m).info \in {"Known", "Unknown"}
      /\ LatestStatus(m) \in {"Failed", "Dropped"}
  BY DEF SubmitUnexpected, Resubmittable
<1>3. /\ txn \in Transaction /\ db \in Databases
      /\ bundle(m).spend_utxos \in SUBSET Outpoint /\ "SubmittedUnexpected" \in Status
      /\ bundle(m).info \in {"Known", "Unknown", "UnknownConfirmed"}
      /\ bundle(m).info \in {"Absent", "Known", "Unknown", "UnknownConfirmed"}
  BY <1>2, Typed DEF Status
<1>4. e \in Databases BY <1>3, PushStatusType, HeightType
<1>5. ASSUME Funds(db, chain) PROVE Funds(e, chain)
  <2> QED
    BY <1>2, <1>3, <1>5, PushOnlyFunds, FundsFacts DEF BundleGood, UnknownLocked, Entry,
       bundle
<1> HIDE DEF e
<1> QED BY <1>2, <1>3, <1>4, <1>5, AppliedKeeps

LEMMA SubmitUnknownKeeps ==
  ASSUME TInv, txn.phase = "connect", NEW b \in Nat, NEW m \in M6id,
         SubmitUnknown(b, m), Reported("Submitted", m)
  PROVE  Keeps
<1> DEFINE e == PushStatus(db, m, "Unknown", {}, "Submitted")
<1>2. /\ Applied(b, "Submitted", m, e, txn)
      /\ bundle(m).info = "Absent"
  BY DEF SubmitUnknown
<1>3. /\ txn \in Transaction /\ db \in Databases
      /\ {} \in SUBSET Outpoint /\ "Submitted" \in Status
      /\ "Unknown" \in {"Known", "Unknown", "UnknownConfirmed"}
      /\ "Unknown" \in {"Absent", "Known", "Unknown", "UnknownConfirmed"}
  BY Typed DEF Status
<1>4. e \in Databases BY <1>3, PushStatusType, HeightType
<1>5. ASSUME Funds(db, chain) PROVE Funds(e, chain) BY <1>2, <1>3, <1>5, PushOnlyFunds
<1> HIDE DEF e
<1> QED BY <1>2, <1>3, <1>4, <1>5, AppliedKeeps

\* An outcome that was applied before.
LEMMA AgainKeeps ==
  ASSUME TInv, txn.phase = "connect", NEW b \in Nat, NEW m \in M6id,
         NEW kind \in {"Submitted", "Confirmed", "Failed"},
         Applied(b, kind, m, db, txn)
  PROVE  Keeps
<1> QED BY AppliedKeeps, Typed

LEMMA ConfirmKeeps ==
  ASSUME TInv, txn.phase = "connect", NEW b \in Nat, NEW m \in M6id,
         Confirm(b, m)
  PROVE  Keeps
<1>1. height \in Nat BY HeightType
<1> DEFINE info == IF bundle(m).info = "Known" THEN "Known" ELSE "UnknownConfirmed"
           recorded == IF bundle(m).info = "Known" THEN {} ELSE db.utxos
           outs == ConfirmSpends(m)
           s == Spend(db, outs, m)
           e == PushStatus(s, m, info, recorded, "Confirmed")
           t == Erase(txn, outs)
<1>2. /\ Applied(b, "Confirmed", m, e, t)
      /\ bundle(m).info \in {"Known", "Unknown"} /\ Awaiting(m)
      /\ outs \subseteq db.utxos
  BY Typed DEF Confirm, ConfirmError
<1>3. /\ bundle(m).info = "Unknown" => outs = db.utxos
      /\ bundle(m).info = "Known" =>
            outs = IF LatestStatus(m) = "SubmittedUnexpected" THEN m.spend ELSE {}
  BY DEF ConfirmSpends
<1>4. db \in Databases /\ db.utxos \in SUBSET Outpoint /\ txn \in Transaction BY Typed
<1>5. /\ outs \in SUBSET Outpoint /\ recorded \in SUBSET Outpoint
      /\ info \in {"Known", "Unknown", "UnknownConfirmed"}
      /\ info \in {"Absent", "Known", "Unknown", "UnknownConfirmed"}
      /\ "Confirmed" \in Status
  BY <1>2, <1>4 DEF Status
<1>6. bundle(m).info = "Known" => info = "Known" OBVIOUS
<1>7. bundle(m).info = "Unknown" => info = "UnknownConfirmed" /\ recorded = db.utxos
  OBVIOUS
<1> HIDE DEF info, recorded, outs
<1>8. t \in Transaction /\ t.phase = "connect" BY <1>4, <1>5, DiffType
<1>9. /\ e \in Databases /\ SpendOf(s, db, outs, m)
      /\ EntryOf(e, s, m, Pushed(s, m, info, recorded, "Confirmed"))
  BY <1>1, <1>4, <1>5, ConfirmedDb
<1> HIDE DEF s, e, t
<1>10. /\ e.utxos = db.utxos \ outs
       /\ \A o \in Outpoint : e.stxos[o] = IF o \in outs THEN m ELSE db.stxos[o]
       /\ e.pending_withdrawal_bundle = db.pending_withdrawal_bundle
       /\ e.withdrawal_bundles[m] = Pushed(db, m, info, recorded, "Confirmed")
       /\ \A n \in M6id : n # m => e.withdrawal_bundles[n] = db.withdrawal_bundles[n]
  BY <1>9 DEF SpendOf, EntryOf, Pushed
<1>11. ASSUME Funds(db, chain) PROVE Funds(e, chain)
  <2>1. /\ \A o \in db.utxos : db.stxos[o] = Unspent
        /\ PendingGood(db)
        /\ BundleGood(db, m) /\ chain \in Seq(Block) /\ {m} \in SUBSET M6id
        /\ m.spend \in SUBSET Outpoint
    BY <1>11, FundsFacts, Typed
  <2>2. Entry(db, m) = bundle(m) /\ Last(db, m) = LatestStatus(m)
    BY DEF Entry, Last, LatestStatus, bundle
  <2>3. /\ Entry(e, m).info = info /\ Last(e, m) = "Confirmed"
        /\ Entry(e, m).status # << >> /\ Entry(e, m).spend_utxos = recorded
    BY <1>1, <1>4, <1>5, <1>9, <1>10, PushedGood
  <2>4. History(e, m)
    <3>1. CASE bundle(m).info = "Known"
      <4>1. History(db, m) /\ Entry(db, m).info = "Known"
        BY <2>1, <2>2, <3>1 DEF BundleGood
      <4> QED BY <1>1, <1>4, <1>5, <1>9, <1>10, <4>1, PushedGood
    <3>2. CASE bundle(m).info = "Unknown" BY <1>7, <2>3, <3>2 DEF History
    <3> QED BY <1>2, <3>1, <3>2
  <2>5. Locked(e, m)
    <3>1. CASE bundle(m).info = "Known"
      BY <1>2, <1>3, <1>10, <2>1, <2>2, <3>1 DEF Locked, Awaiting, BundleGood
    <3>2. CASE bundle(m).info = "Unknown" BY <1>7, <2>3, <3>2 DEF Locked
    <3> QED BY <1>2, <3>1, <3>2
  <2>6. UnknownLocked(e, m)
    <3>1. CASE bundle(m).info = "Known" BY <1>6, <2>3, <3>1 DEF UnknownLocked
    <3>2. CASE bundle(m).info = "Unknown"
      <4> QED
        BY <1>3, <1>4, <1>7, <1>10, <2>1, <2>2, <2>3, <3>2 DEF UnknownLocked, BundleGood
    <3> QED BY <1>2, <3>1, <3>2
  <2>7. BundleGood(e, m) BY <1>2, <1>6, <1>7, <2>3, <2>4, <2>5, <2>6 DEF BundleGood
  <2>8. PendingGood(e)
    <3> QED
      BY <1>2, <1>4, <1>10, <2>1, <2>2 DEF PendingGood, Entry, Last, Databases, Awaiting
  <2>9. NotBoth(e) BY <1>4, <1>10, <2>1 DEF NotBoth
  <2>10. \A o \in Outpoint : \/ e.stxos[o] = db.stxos[o]
                             \/ db.stxos[o] = Unspent
                             \/ db.stxos[o] \in {m}
    BY <1>2, <1>10, <2>1
  <2>11. \A n \in M6id : n \notin {m} =>
             e.withdrawal_bundles[n] = db.withdrawal_bundles[n]
    BY <1>10
  <2>12. \A n \in {m} : BundleGood(e, n) BY <2>7
  <2> QED BY <1>4, <1>9, <1>11, <2>1, <2>8, <2>9, <2>10, <2>11, <2>12, FundsStep
<1> QED BY <1>2, <1>8, <1>9, <1>11, AppliedKeeps

LEMMA FailKeeps ==
  ASSUME TInv, txn.phase = "connect", NEW b \in Nat, NEW m \in M6id,
         Fail(b, m)
  PROVE  Keeps
<1>1. height \in Nat BY HeightType
<1> DEFINE info == bundle(m).info
           recorded == bundle(m).spend_utxos
<1>2. /\ db \in Databases /\ txn \in Transaction
      /\ recorded \in SUBSET Outpoint /\ "Failed" \in Status
      /\ info \in {"Known", "Unknown", "UnknownConfirmed"}
      /\ info \in {"Absent", "Known", "Unknown", "UnknownConfirmed"}
      /\ info = bundle(m).info /\ recorded = bundle(m).spend_utxos /\ Awaiting(m)
  BY Typed DEF Fail, Status
<1> HIDE DEF info, recorded
<1>3. CASE SpentBySubmission(m)
  <2> DEFINE s == Unspend(db, m.spend)
             p == PushStatus(s, m, info, recorded, "Failed")
             f == Push(p.latest_failed_withdrawal_bundle, m, height)
             e == [p EXCEPT !.latest_failed_withdrawal_bundle = f]
             t == Insert(txn, m.spend)
  <2>1. t \in Transaction /\ t.phase = "connect" BY Typed
  <2>2. Applied(b, "Failed", m, e, t) BY <1>3 DEF Fail, info, recorded
  <2>19. FailsWith(db, m, info, recorded, s, p, f, e) BY DEF FailsWith
  <2> HIDE DEF s, p, f, e, t
  <2>3. /\ e \in Databases /\ UnspendOf(s, db, m.spend)
        /\ EntryOf(p, s, m, Pushed(s, m, info, recorded, "Failed")) /\ SameFunds(e, p)
    <3>1. /\ db \in Databases /\ recorded \in SUBSET Outpoint
          /\ info \in {"Absent", "Known", "Unknown", "UnknownConfirmed"}
      BY <1>2
    <3> QED BY ONLY m \in M6id, <1>1, <2>19, <3>1, FailedDb
  <2>4. /\ e.utxos = db.utxos \cup m.spend
        /\ \A o \in Outpoint : e.stxos[o] =
               IF o \in m.spend THEN Unspent ELSE db.stxos[o]
        /\ e.pending_withdrawal_bundle = db.pending_withdrawal_bundle
        /\ e.withdrawal_bundles[m] = Pushed(db, m, info, recorded, "Failed")
        /\ \A n \in M6id : n # m => e.withdrawal_bundles[n] = db.withdrawal_bundles[n]
    BY <2>3 DEF UnspendOf, EntryOf, SameFunds, Pushed
  <2>5. ASSUME Funds(db, chain) PROVE Funds(e, chain)
    <3>1. /\ \A o \in db.utxos : db.stxos[o] = Unspent
          /\ PendingGood(db)
          /\ BundleGood(db, m) /\ chain \in Seq(Block) /\ {m} \in SUBSET M6id
          /\ m.spend \in SUBSET Outpoint /\ db.utxos \in SUBSET Outpoint
      BY <2>5, FundsFacts, Typed
    <3>2. Entry(db, m).info = "Known" /\ Last(db, m) = "Submitted" /\ info = "Known"
      BY <1>2, <1>3 DEF Entry, Last, LatestStatus, bundle, SpentBySubmission
    <3>4. History(e, m) BY <1>1, <1>2, <2>3, <2>4, <3>1, <3>2, PushedGood DEF BundleGood
    <3>6. PendingGood(e)
      BY <1>2, <2>4, <3>1, <3>2 DEF PendingGood, Entry, Last, Databases
    <3>7. NotBoth(e) BY <2>4, <3>1 DEF NotBoth
    <3>8. \A o \in Outpoint : \/ e.stxos[o] = db.stxos[o]
                              \/ db.stxos[o] = Unspent
                              \/ db.stxos[o] \in {m}
      BY <2>4, <3>1, <3>2 DEF BundleGood, Locked
    <3>9. \A n \in M6id : n \notin {m} =>
              e.withdrawal_bundles[n] = db.withdrawal_bundles[n]
      BY <2>4
    <3>10. \A n \in {m} : BundleGood(e, n)
      BY <1>1, <1>2, <2>3, <2>4, <3>2, <3>4, PushedGood DEF BundleGood, Locked,
         UnknownLocked
    <3> QED BY <1>2, <2>3, <2>5, <3>1, <3>6, <3>7, <3>8, <3>9, <3>10, FundsStep
  <2> QED BY <2>1, <2>2, <2>3, <2>5, AppliedKeeps
<1>4. CASE ~SpentBySubmission(m)
  <2> DEFINE e == PushStatus(db, m, info, recorded, "Failed")
  <2>1. Applied(b, "Failed", m, e, txn) BY <1>4 DEF Fail, info, recorded
  <2>2. e \in Databases BY <1>1, <1>2, PushStatusType
  <2>3. ASSUME Funds(db, chain) PROVE Funds(e, chain)
    <3> QED
      BY <1>2, <1>4, <2>3, PushOnlyFunds, FundsFacts DEF BundleGood, UnknownLocked,
         Entry, bundle, Awaiting, SpentBySubmission
  <2> HIDE DEF e
  <2> QED BY <1>2, <2>1, <2>2, <2>3, AppliedKeeps
<1> QED BY <1>3, <1>4

\* A step that changes only which outpoints are utxos.
LEMMA UtxosFunds ==
  ASSUME NEW d, NEW e, NEW c, Funds(d, c), NotBoth(e), e.stxos = d.stxos,
         e.pending_withdrawal_bundle = d.pending_withdrawal_bundle,
         e.withdrawal_bundles = d.withdrawal_bundles
  PROVE  Funds(e, c)
<1>1. \A m : Entry(e, m) = Entry(d, m) /\ Last(e, m) = Last(d, m) BY DEF Entry, Last
<1> QED
  BY <1>1 DEF Funds, DatabasesGood, PendingGood, BundleGood, Locked, UnknownLocked,
     History, BodiesGood

LEMMA ConnectDepositKeeps ==
  ASSUME TInv, NEW b \in NextMainBlocks, NEW o \in Deposit, ConnectDeposit(b, o)
  PROVE  Keeps
<1>1. TInv' BY ConnectDepositTInv
<1> DEFINE u == db.utxos \cup {o}
           e == [db EXCEPT !.utxos = u]
<1>3. db' = e /\ db.stxos[o] = Unspent /\ committed' = committed /\ chain' = chain
  BY DEF ConnectDeposit, Applied
<1>4. /\ e.utxos = u /\ e.stxos = db.stxos
      /\ e.pending_withdrawal_bundle = db.pending_withdrawal_bundle
      /\ e.withdrawal_bundles = db.withdrawal_bundles
  BY UtxosType DEF TInv, TypeOK, Databases, Outpoint
<1> HIDE DEF e
<1>5. ASSUME Funds(db, chain) PROVE Funds(e, chain)
  BY <1>3, <1>4, <1>5, UtxosFunds DEF Funds, DatabasesGood, NotBoth
<1> DEFINE t == Insert(txn, {o})
<1>6. txn.phase = "connect" /\ txn' = [t EXCEPT !.deposit_block = b]
  BY DEF ConnectDeposit, Applied
<1>7. t \in Transaction /\ t.phase = txn.phase BY DiffType DEF TInv, TypeOK, Outpoint
<1> HIDE DEF t
<1> QED BY <1>1, <1>3, <1>5, <1>6, <1>7 DEF Keeps, Transaction

\* Every handler of a bundle's event either succeeds or fails.
LEMMA ConnectEventKeeps ==
  ASSUME TInv, txn.phase = "connect", NEW b \in NextMainBlocks, NEW m \in M6id,
         \/ ConnectSubmitted(b, m)
         \/ ConnectConfirmed(b, m)
         \/ ConnectFailed(b, m)
  PROVE  Keeps \/ Aborts
<1>1. b \in Nat BY NextMainBlocksType
<1>2. CASE ConnectSubmitted(b, m)
  <2>1. CASE SubmitPending(b, m) BY <1>1, <2>1, SubmitPendingKeeps
  <2>2. CASE SubmitUnexpected(b, m) BY <1>1, <2>2, SubmitUnexpectedKeeps
  <2>3. CASE SubmitUnknown(b, m)
    BY <1>1, <1>2, <2>3, SubmitUnknownKeeps DEF ConnectSubmitted
  <2>4. CASE SubmitRefused(m) BY <2>4 DEF SubmitRefused, Aborts
  <2> QED BY <1>2, <2>1, <2>2, <2>3, <2>4 DEF ConnectSubmitted
<1>3. CASE ConnectConfirmed(b, m)
  <2>1. CASE Confirm(b, m) BY <1>1, <2>1, ConfirmKeeps
  <2>2. CASE Applied(b, "Confirmed", m, db, txn) BY <1>1, <2>2, AgainKeeps
  <2> QED BY <1>3, <2>1, <2>2 DEF ConnectConfirmed, ConnectOutcomeUnexpected, Aborts
<1>4. CASE ConnectFailed(b, m)
  <2>1. CASE Fail(b, m) BY <1>1, <2>1, FailKeeps
  <2>2. CASE Applied(b, "Failed", m, db, txn) BY <1>1, <2>2, AgainKeeps
  <2> QED BY <1>4, <2>1, <2>2 DEF ConnectFailed, ConnectOutcomeUnexpected, Aborts
<1> QED BY <1>2, <1>3, <1>4

-----------------------------------------------------------------------------
(* The handlers of disconnect_event *)

\* What an event to undo says of the transaction.
LEMMA ToUndoFacts ==
  ASSUME TInv, NEW kinds \in SUBSET {"Submitted", "Confirmed", "Failed"},
         ToUndo(kinds)
  PROVE  /\ txn.phase = "disconnect" /\ txn.undo > 0 /\ main[txn.undo].of \in M6id
<1> QED
  BY ElementOfSeq, LenProperties DEF Event, TInv, TypeOK, ChainGood, Transaction, ToUndo

\* A handler that only takes back a status.
LEMMA PopOnlyFunds ==
  ASSUME TInv, Funds(db, chain), NEW m \in M6id,
         bundle(m).info # "Absent", LatestStatus(m) # "Pending",
         bundle(m).info = "Known" /\ Before(m) # << >> /\ m.spend # {} =>
             Latest(Before(m)).value \notin {"Submitted", "Confirmed"},
         NEW e, e = PopStatus(db, m, bundle(m).info, bundle(m).spend_utxos)
  PROVE  Funds(e, chain)
<1> DEFINE info == bundle(m).info
           outs == bundle(m).spend_utxos
           rest == Before(m)
<1>1. /\ db \in Databases /\ outs \in SUBSET Outpoint
      /\ info \in {"Known", "Unknown", "UnknownConfirmed"}
      /\ info \in {"Absent", "Known", "Unknown", "UnknownConfirmed"}
      /\ e = PopStatus(db, m, info, outs)
  BY Typed
<1>2. /\ Entry(db, m) = bundle(m) /\ Last(db, m) = LatestStatus(m)
      /\ rest = Pop(db.withdrawal_bundles[m].status)
      /\ info = Entry(db, m).info /\ outs = Entry(db, m).spend_utxos
  BY DEF Entry, Last, LatestStatus, bundle, Before
<1>3. info = "Known" /\ rest # << >> /\ m.spend # {} =>
          Latest(rest).value \notin {"Submitted", "Confirmed"}
  OBVIOUS
<1> HIDE DEF info, outs, rest
<1>4. e \in Databases /\ EntryOf(e, db, m, Popped(db, m, info, outs))
  BY <1>1, PopStatusType
<1>5. /\ e.utxos = db.utxos /\ e.stxos = db.stxos
      /\ e.pending_withdrawal_bundle = db.pending_withdrawal_bundle
      /\ e.withdrawal_bundles[m] = Popped(db, m, info, outs)
      /\ \A n \in M6id : n # m => e.withdrawal_bundles[n] = db.withdrawal_bundles[n]
  BY <1>4 DEF EntryOf
<1>6. /\ \A o \in db.utxos : db.stxos[o] = Unspent
      /\ PendingGood(db)
      /\ BundleGood(db, m) /\ chain \in Seq(Block) /\ {m} \in SUBSET M6id
  BY FundsFacts
<1>7. db.withdrawal_bundles[m].status # << >> BY <1>2, <1>6 DEF BundleGood, Entry
<1>8. /\ Entry(e, m).status = rest
      /\ rest = << >> => Entry(e, m).info = "Absent"
      /\ rest # << >> => /\ Entry(e, m).info = info
                         /\ Entry(e, m).spend_utxos = outs
                         /\ Last(e, m) = Latest(rest).value
      /\ History(db, m) /\ Entry(db, m).info = "Known" => History(e, m)
  BY <1>1, <1>2, <1>4, <1>5, <1>7, PoppedGood
<1>9. History(e, m) BY <1>2, <1>6, <1>8 DEF History, BundleGood
<1>10. BundleGood(e, m)
  <2> QED
    BY <1>1, <1>2, <1>3, <1>5, <1>6, <1>8, <1>9 DEF BundleGood, Locked, UnknownLocked
<1>11. PendingGood(e)
  <2>2. m \notin db.pending_withdrawal_bundle BY <1>2, <1>6 DEF PendingGood
  <2> QED BY <1>1, <1>5, <1>6, <2>2 DEF PendingGood, Entry, Last, Databases
<1>12. NotBoth(e) BY <1>5, <1>6 DEF NotBoth
<1>14. \A n \in {m} : BundleGood(e, n) BY <1>10
<1> QED BY <1>1, <1>4, <1>5, <1>6, <1>11, <1>12, <1>14, FundsStep

LEMMA UndoSubmittedKeeps ==
  ASSUME TInv, txn.phase = "disconnect", txn.undo > 0, NEW m \in M6id,
         UndoSubmitted(m)
  PROVE  Keeps
<1> DEFINE info == bundle(m).info
           recorded == bundle(m).spend_utxos
<1>1. /\ db \in Databases /\ txn \in Transaction /\ recorded \in SUBSET Outpoint
      /\ info \in {"Known", "Unknown", "UnknownConfirmed"}
      /\ info \in {"Absent", "Known", "Unknown", "UnknownConfirmed"}
      /\ info = bundle(m).info /\ recorded = bundle(m).spend_utxos
      /\ LatestStatus(m) \in {"Submitted", "SubmittedUnexpected"}
  BY Typed DEF UndoSubmitted, StampedNow
<1>2. Entry(db, m) = bundle(m) /\ Last(db, m) = LatestStatus(m)
      /\ Before(m) = Pop(db.withdrawal_bundles[m].status)
  BY DEF Entry, Last, LatestStatus, bundle, Before
<1> HIDE DEF info, recorded
<1>3. CASE info = "Known" /\ PreviousIn(m, {"Pending"})
  <2> DEFINE s == Unspend(db, m.spend)
             p == PopStatus(s, m, info, recorded)
             e == [p EXCEPT !.pending_withdrawal_bundle = {m}]
             t == Insert(txn, m.spend)
  <2>1. t \in Transaction /\ t.phase = "disconnect" /\ t.undo = txn.undo BY Typed
  <2>2. Undone(e, t) BY <1>1, <1>3 DEF UndoSubmitted, info, recorded
  <2>3. /\ e \in Databases /\ UnspendOf(s, db, m.spend)
        /\ EntryOf(p, s, m, Popped(s, m, info, recorded)) /\ PendingOf(e, p, {m})
    BY <1>1, UnsubmittedDb
  <2> HIDE DEF s, p, e, t
  <2>4. /\ e.utxos = db.utxos \cup m.spend
        /\ \A o \in Outpoint : e.stxos[o] =
               IF o \in m.spend THEN Unspent ELSE db.stxos[o]
        /\ e.pending_withdrawal_bundle = {m}
        /\ e.withdrawal_bundles[m] = Popped(db, m, info, recorded)
        /\ \A n \in M6id : n # m => e.withdrawal_bundles[n] = db.withdrawal_bundles[n]
    BY <2>3 DEF UnspendOf, EntryOf, PendingOf, Popped
  <2>5. ASSUME Funds(db, chain) PROVE Funds(e, chain)
    <3>1. /\ \A o \in db.utxos : db.stxos[o] = Unspent
          /\ BundleGood(db, m) /\ chain \in Seq(Block) /\ {m} \in SUBSET M6id
          /\ m.spend \in SUBSET Outpoint /\ db.utxos \in SUBSET Outpoint
      BY <2>5, FundsFacts, Typed
    <3>2. /\ Entry(db, m).info = "Known" /\ History(db, m) /\ Locked(db, m)
          /\ db.withdrawal_bundles[m].status # << >>
      BY <1>1, <1>2, <1>3, <3>1 DEF BundleGood, Entry
    <3> DEFINE rest == Pop(db.withdrawal_bundles[m].status)
    <3>3. rest # << >> /\ Latest(rest).value = "Pending" BY <1>2, <1>3 DEF PreviousIn
    <3>4. /\ Entry(e, m).status = rest /\ Entry(e, m).info = info
          /\ Last(e, m) = "Pending" /\ History(e, m)
          /\ m.spend # {} => Last(db, m) # "SubmittedUnexpected"
      BY <1>1, <2>3, <2>4, <3>2, <3>3, PoppedGood
    <3> HIDE DEF rest
    <3>7. PendingGood(e) BY <1>3, <2>4, <3>4 DEF PendingGood
    <3>8. NotBoth(e) BY <2>4, <3>1 DEF NotBoth
    <3>9. \A o \in Outpoint : \/ e.stxos[o] = db.stxos[o]
                              \/ db.stxos[o] = Unspent
                              \/ db.stxos[o] \in {m}
      BY <1>1, <1>2, <2>4, <3>2, <3>4 DEF Locked
    <3>10. \A n \in M6id : n \notin {m} =>
               e.withdrawal_bundles[n] = db.withdrawal_bundles[n]
      BY <2>4
    <3>11. \A n \in {m} : BundleGood(e, n)
      BY <1>3, <3>3, <3>4 DEF BundleGood, Locked, UnknownLocked
    <3> QED BY <1>1, <2>3, <2>5, <3>1, <3>7, <3>8, <3>9, <3>10, <3>11, FundsStep
  <2> QED BY <2>1, <2>2, <2>3, <2>5, UndoneKeeps
<1>4. CASE ~(info = "Known" /\ PreviousIn(m, {"Pending"}))
  <2> DEFINE e == PopStatus(db, m, info, recorded)
  <2>1. Undone(e, txn) BY <1>1, <1>4 DEF UndoSubmitted, info, recorded
  <2>2. e \in Databases BY <1>1, PopStatusType
  <2>3. ASSUME Funds(db, chain) PROVE Funds(e, chain)
    <3>3. e.withdrawal_bundles[m] = Popped(db, m, info, recorded)
      BY <1>1, PopStatusType DEF EntryOf
    <3>4. db.withdrawal_bundles[m].status # << >> /\ History(db, m)
      BY <1>1, <1>2, <2>3, FundsFacts DEF BundleGood, Entry
    <3>6. info = "Known" /\ Before(m) # << >> /\ m.spend # {} =>
             Latest(Before(m)).value \notin {"Submitted", "Confirmed"}
      <4> SUFFICES ASSUME info = "Known", Before(m) # << >>, m.spend # {}
                   PROVE  Latest(Before(m)).value \notin {"Submitted", "Confirmed"}
        OBVIOUS
      <4> DEFINE rest == Pop(db.withdrawal_bundles[m].status)
      <4>1. /\ Last(db, m) \in {"Pending", "Submitted", "SubmittedUnexpected"}
            /\ rest # << >> /\ Entry(db, m).info = "Known"
        BY <1>1, <1>2
      <4> HIDE DEF e
      <4> QED BY <1>1, <1>2, <2>2, <3>3, <3>4, <4>1, PoppedGood
    <3> QED BY <1>1, <2>3, <3>6, PopOnlyFunds
  <2> HIDE DEF e
  <2> QED BY <1>1, <2>1, <2>2, <2>3, UndoneKeeps
<1> QED BY <1>3, <1>4

\* An event whose undoing finds nothing to undo.
LEMMA NothingUndoneKeeps ==
  ASSUME TInv, txn.phase = "disconnect", txn.undo > 0, Undone(db, txn)
  PROVE  Keeps
<1> QED BY UndoneKeeps DEF TInv, TypeOK

LEMMA DisconnectSubmittedKeeps ==
  ASSUME TInv, DisconnectSubmitted
  PROVE  Keeps \/ Aborts
<1> DEFINE m == main[txn.undo].of
<1>1. m \in M6id /\ txn.phase = "disconnect" /\ txn.undo > 0
  BY ToUndoFacts DEF DisconnectSubmitted
<1>2. UndoSubmitted(m) \/ Undone(db, txn) \/ Aborts BY DEF DisconnectSubmitted, Aborts
<1> HIDE DEF m
<1>3. CASE UndoSubmitted(m) BY <1>1, <1>3, UndoSubmittedKeeps
<1>4. CASE Undone(db, txn) BY <1>1, <1>4, NothingUndoneKeeps
<1> QED BY <1>2, <1>3, <1>4

\* disconnect_withdrawal_bundle_confirmed, when it takes the status back.
LEMMA UndoConfirmedKeeps ==
  ASSUME TInv, txn.phase = "disconnect", txn.undo > 0, NEW m \in M6id,
         bundle(m).info # "Absent", OutcomeToUndo(m, "Confirmed"),
         NEW info, info = IF bundle(m).info = "Known" THEN "Known" ELSE "Unknown",
         NEW outs, outs = ConfirmSpent(m),
         Undone(PopStatus(Unspend(db, outs), m, info, {}), Insert(txn, outs))
  PROVE  Keeps
<1>1. /\ db \in Databases /\ txn \in Transaction
      /\ bundle(m).spend_utxos \in SUBSET Outpoint /\ m.spend \in SUBSET Outpoint
      /\ bundle(m).info \in {"Known", "Unknown", "UnknownConfirmed"}
      /\ info \in {"Known", "Unknown", "UnknownConfirmed"}
      /\ info \in {"Absent", "Known", "Unknown", "UnknownConfirmed"}
      /\ {} \in SUBSET Outpoint
  BY Typed
<1>2. /\ Entry(db, m) = bundle(m) /\ Last(db, m) = LatestStatus(m)
      /\ Before(m) = Pop(db.withdrawal_bundles[m].status)
  BY DEF Entry, Last, LatestStatus, bundle, Before
<1>3. /\ LatestStatus(m) = "Confirmed" /\ Before(m) # << >>
      /\ Latest(Before(m)).value \in {"Submitted", "SubmittedUnexpected"}
  BY DEF OutcomeToUndo, StampedNow, PreviousIn
<1>4. /\ bundle(m).info = "UnknownConfirmed" => outs = bundle(m).spend_utxos
      /\ bundle(m).info = "Unknown" => outs = {}
      /\ bundle(m).info = "Known" =>
            outs = IF Latest(Before(m)).value = "SubmittedUnexpected"
                   THEN m.spend ELSE {}
  BY <1>3 DEF ConfirmSpent, PreviousIn
<1>5. outs \in SUBSET Outpoint BY <1>1, <1>4
<1> DEFINE s == Unspend(db, outs)
           e == PopStatus(s, m, info, {})
           t == Insert(txn, outs)
<1>6. t \in Transaction /\ t.phase = "disconnect" /\ t.undo = txn.undo
  BY <1>1, <1>5, DiffType
<1>7. /\ e \in Databases /\ UnspendOf(s, db, outs)
      /\ EntryOf(e, s, m, Popped(s, m, info, {}))
  BY <1>1, <1>5, UnconfirmedDb
<1>8. Undone(e, t) OBVIOUS
<1> HIDE DEF s, e, t
<1>9. /\ e.utxos = db.utxos \cup outs
      /\ \A o \in Outpoint : e.stxos[o] = IF o \in outs THEN Unspent ELSE db.stxos[o]
      /\ e.pending_withdrawal_bundle = db.pending_withdrawal_bundle
      /\ e.withdrawal_bundles[m] = Popped(db, m, info, {})
      /\ \A n \in M6id : n # m => e.withdrawal_bundles[n] = db.withdrawal_bundles[n]
  BY <1>7 DEF UnspendOf, EntryOf, Popped
<1>10. ASSUME Funds(db, chain) PROVE Funds(e, chain)
  <2>1. /\ \A o \in db.utxos : db.stxos[o] = Unspent
        /\ PendingGood(db)
        /\ BundleGood(db, m) /\ chain \in Seq(Block) /\ {m} \in SUBSET M6id
        /\ db.utxos \in SUBSET Outpoint
    BY <1>10, FundsFacts, Typed
  <2>2. /\ Locked(db, m) /\ UnknownLocked(db, m) /\ History(db, m)
        /\ db.withdrawal_bundles[m].status # << >>
    BY <1>1, <1>2, <2>1 DEF BundleGood, Entry
  <2> DEFINE rest == Pop(db.withdrawal_bundles[m].status)
  <2>3. rest # << >> /\ Latest(rest).value = Latest(Before(m)).value BY <1>2, <1>3
  <2>4. /\ Entry(e, m).status = rest /\ Entry(e, m).info = info
        /\ Last(e, m) = Latest(rest).value
        /\ Entry(db, m).info = "Known" => History(e, m)
    BY <1>1, <1>7, <1>9, <2>2, <2>3, PoppedGood
  <2> HIDE DEF rest
  <2>5. \A o \in outs : db.stxos[o] = m
    <3>1. CASE bundle(m).info = "UnknownConfirmed"
      BY <1>2, <1>4, <2>2, <3>1 DEF UnknownLocked
    <3>2. CASE bundle(m).info = "Unknown" BY <1>4, <3>2
    <3>3. CASE bundle(m).info = "Known" BY <1>2, <1>3, <1>4, <2>2, <3>3 DEF Locked
    <3> QED BY <1>1, <3>1, <3>2, <3>3
  <2>6. BundleGood(e, m)
    <3>1. CASE bundle(m).info = "Known"
      <4>1. info = "Known" /\ Entry(db, m).info = "Known" BY <1>2, <3>1
      <4>2. Locked(e, m)
        <5>1. \A o \in m.spend : db.stxos[o] = m BY <1>2, <1>3, <2>2, <4>1 DEF Locked
        <5>2. CASE Latest(Before(m)).value = "SubmittedUnexpected"
          BY <2>3, <2>4, <5>2 DEF Locked
        <5>3. CASE Latest(Before(m)).value = "Submitted"
          BY <1>1, <1>4, <1>9, <3>1, <5>1, <5>3 DEF Locked
        <5> QED BY <1>3, <5>2, <5>3
      <4> QED BY <2>3, <2>4, <4>1, <4>2 DEF BundleGood, UnknownLocked
    <3>2. CASE bundle(m).info # "Known"
      <4> QED
        BY <1>1, <1>2, <2>2, <2>3, <2>4, <3>2 DEF BundleGood, Locked, UnknownLocked,
           History
    <3> QED BY <3>1, <3>2
  <2>7. PendingGood(e)
    BY <1>1, <1>2, <1>3, <1>9, <2>1 DEF PendingGood, Entry, Last, Databases
  <2>8. NotBoth(e) BY <1>5, <1>9, <2>1 DEF NotBoth
  <2>9. \A o \in Outpoint : \/ e.stxos[o] = db.stxos[o]
                            \/ db.stxos[o] = Unspent
                            \/ db.stxos[o] \in {m}
    BY <1>9, <2>5
  <2>10. \A n \in M6id : n \notin {m} =>
             e.withdrawal_bundles[n] = db.withdrawal_bundles[n]
    BY <1>9
  <2>11. \A n \in {m} : BundleGood(e, n) BY <2>6
  <2> QED BY <1>1, <1>7, <1>10, <2>1, <2>7, <2>8, <2>9, <2>10, <2>11, FundsStep
<1> QED BY <1>6, <1>7, <1>8, <1>10, UndoneKeeps

LEMMA DisconnectConfirmedKeeps ==
  ASSUME TInv, DisconnectConfirmed
  PROVE  Keeps \/ Aborts
<1> DEFINE m == main[txn.undo].of
           info == IF bundle(m).info = "Known" THEN "Known" ELSE "Unknown"
           outs == ConfirmSpent(m)
<1>1. m \in M6id /\ txn.phase = "disconnect" /\ txn.undo > 0
  BY ToUndoFacts DEF DisconnectConfirmed
<1>2. \/ /\ bundle(m).info # "Absent" /\ OutcomeToUndo(m, "Confirmed")
         /\ Undone(PopStatus(Unspend(db, outs), m, info, {}), Insert(txn, outs))
      \/ Undone(db, txn)
      \/ Aborts
  BY DEF DisconnectConfirmed, Aborts
<1>3. info = IF bundle(m).info = "Known" THEN "Known" ELSE "Unknown" OBVIOUS
<1>4. outs = ConfirmSpent(m) OBVIOUS
<1> HIDE DEF m, info, outs
<1>5. CASE /\ bundle(m).info # "Absent" /\ OutcomeToUndo(m, "Confirmed")
           /\ Undone(PopStatus(Unspend(db, outs), m, info, {}), Insert(txn, outs))
  BY <1>1, <1>3, <1>4, <1>5, UndoConfirmedKeeps
<1>6. CASE Undone(db, txn) BY <1>1, <1>6, NothingUndoneKeeps
<1> QED BY <1>2, <1>5, <1>6

LEMMA UndoFailedKeeps ==
  ASSUME TInv, txn.phase = "disconnect", txn.undo > 0, NEW m \in M6id,
         UndoFailed(m)
  PROVE  Keeps
<1> DEFINE info == bundle(m).info
           recorded == bundle(m).spend_utxos
<1>1. /\ db \in Databases /\ txn \in Transaction /\ recorded \in SUBSET Outpoint
      /\ info \in {"Known", "Unknown", "UnknownConfirmed"}
      /\ info \in {"Absent", "Known", "Unknown", "UnknownConfirmed"}
      /\ info = bundle(m).info /\ recorded = bundle(m).spend_utxos
      /\ LatestStatus(m) = "Failed" /\ Before(m) # << >>
      /\ Latest(Before(m)).value \in {"Submitted", "SubmittedUnexpected"}
  BY Typed DEF UndoFailed, OutcomeToUndo, StampedNow, PreviousIn
<1>2. Entry(db, m) = bundle(m) /\ Last(db, m) = LatestStatus(m)
      /\ Before(m) = Pop(db.withdrawal_bundles[m].status)
  BY DEF Entry, Last, LatestStatus, bundle, Before
<1> HIDE DEF info, recorded
<1>3. CASE info = "Known" /\ PreviousIn(m, {"Submitted"})
  <2> DEFINE s == Spend(db, m.spend, m)
             p == PopStatus(s, m, info, recorded)
             f == Pop(p.latest_failed_withdrawal_bundle)
             e == [p EXCEPT !.latest_failed_withdrawal_bundle = f]
             t == Erase(txn, m.spend)
  <2>1. t \in Transaction /\ t.phase = "disconnect" /\ t.undo = txn.undo BY Typed
  <2>2. Undone(e, t) /\ m.spend \subseteq db.utxos
    BY <1>1, <1>3 DEF UndoFailed, UnfailRefused, info, recorded
  <2>3. /\ e \in Databases /\ SpendOf(s, db, m.spend, m)
        /\ EntryOf(p, s, m, Popped(s, m, info, recorded)) /\ SameFunds(e, p)
    <3>1. /\ s = Spend(db, m.spend, m) /\ p = PopStatus(s, m, info, recorded)
          /\ f = Pop(p.latest_failed_withdrawal_bundle)
          /\ e = [p EXCEPT !.latest_failed_withdrawal_bundle = f]
      OBVIOUS
    <3>2. /\ db \in Databases /\ recorded \in SUBSET Outpoint
          /\ info \in {"Absent", "Known", "Unknown", "UnknownConfirmed"}
      BY <1>1
    <3> HIDE DEF s, p, f, e, t
    <3> QED BY ONLY m \in M6id, <3>1, <3>2, UnfailedDb
  <2> HIDE DEF s, p, e, t
  <2>4. /\ e.utxos = db.utxos \ m.spend
        /\ \A o \in Outpoint : e.stxos[o] = IF o \in m.spend THEN m ELSE db.stxos[o]
        /\ e.pending_withdrawal_bundle = db.pending_withdrawal_bundle
        /\ e.withdrawal_bundles[m] = Popped(db, m, info, recorded)
        /\ \A n \in M6id : n # m => e.withdrawal_bundles[n] = db.withdrawal_bundles[n]
    BY <2>3 DEF SpendOf, EntryOf, SameFunds, Popped
  <2>5. ASSUME Funds(db, chain) PROVE Funds(e, chain)
    <3>1. /\ \A o \in db.utxos : db.stxos[o] = Unspent
          /\ PendingGood(db)
          /\ BundleGood(db, m) /\ chain \in Seq(Block) /\ {m} \in SUBSET M6id
          /\ m.spend \in SUBSET Outpoint /\ db.utxos \in SUBSET Outpoint
      BY <2>5, FundsFacts, Typed
    <3>2. /\ Entry(db, m).info = "Known" /\ History(db, m)
          /\ db.withdrawal_bundles[m].status # << >>
      BY <1>1, <1>2, <1>3, <3>1 DEF BundleGood, Entry
    <3> DEFINE rest == Pop(db.withdrawal_bundles[m].status)
    <3>3. rest # << >> BY <1>1, <1>2
    <3>4. Entry(e, m).status = rest /\ Entry(e, m).info = info /\ History(e, m)
      BY <1>1, <2>3, <2>4, <3>2, <3>3, PoppedGood
    <3> HIDE DEF rest
    <3>6. PendingGood(e)
      BY <1>1, <1>2, <2>4, <3>1 DEF PendingGood, Entry, Last, Databases
    <3>7. NotBoth(e) BY <2>4, <3>1 DEF NotBoth
    <3>8. \A o \in Outpoint : \/ e.stxos[o] = db.stxos[o]
                              \/ db.stxos[o] = Unspent
                              \/ db.stxos[o] \in {m}
      BY <2>2, <2>4, <3>1
    <3>9. \A n \in M6id : n \notin {m} =>
              e.withdrawal_bundles[n] = db.withdrawal_bundles[n]
      BY <2>4
    <3>10. \A n \in {m} : BundleGood(e, n)
      BY <1>3, <2>4, <3>1, <3>3, <3>4 DEF BundleGood, Locked, UnknownLocked
    <3> QED BY <1>1, <2>3, <2>5, <3>1, <3>6, <3>7, <3>8, <3>9, <3>10, FundsStep
  <2> QED BY <2>1, <2>2, <2>3, <2>5, UndoneKeeps
<1>4. CASE ~(info = "Known" /\ PreviousIn(m, {"Submitted"}))
  <2> DEFINE e == PopStatus(db, m, info, recorded)
  <2>1. Undone(e, txn) BY <1>1, <1>4 DEF UndoFailed, info, recorded
  <2>2. e \in Databases BY <1>1, PopStatusType
  <2>3. ASSUME Funds(db, chain) PROVE Funds(e, chain)
    BY <1>1, <1>4, <2>3, PopOnlyFunds DEF PreviousIn
  <2> HIDE DEF e
  <2> QED BY <1>1, <2>1, <2>2, <2>3, UndoneKeeps
<1> QED BY <1>3, <1>4

LEMMA DisconnectFailedKeeps ==
  ASSUME TInv, DisconnectFailed
  PROVE  Keeps \/ Aborts
<1> DEFINE m == main[txn.undo].of
<1>1. m \in M6id /\ txn.phase = "disconnect" /\ txn.undo > 0
  BY ToUndoFacts DEF DisconnectFailed
<1>2. UndoFailed(m) \/ Undone(db, txn) \/ Aborts BY DEF DisconnectFailed, Aborts
<1> HIDE DEF m
<1>3. CASE UndoFailed(m) BY <1>1, <1>3, UndoFailedKeeps
<1>4. CASE Undone(db, txn) BY <1>1, <1>4, NothingUndoneKeeps
<1> QED BY <1>2, <1>3, <1>4

LEMMA DisconnectDepositKeeps ==
  ASSUME TInv, DisconnectDeposit
  PROVE  Keeps \/ Aborts
<1> DEFINE o == main[txn.undo].of
           u == db.utxos \ {o}
           e == [db EXCEPT !.utxos = u]
           t == Erase(txn, {o})
<1>1. \/ o \in db.utxos /\ Undone(e, t)
      \/ Aborts
  BY DEF DisconnectDeposit, Aborts
<1>2. txn.phase = "disconnect" /\ txn.undo > 0 BY DEF DisconnectDeposit, ToUndo
<1>3. db \in Databases /\ db.utxos \in SUBSET Outpoint /\ txn \in Transaction
  BY DEF TInv, TypeOK, Databases
<1> HIDE DEF o
<1>4. CASE o \in db.utxos /\ Undone(e, t)
  <2>1. u \in SUBSET Outpoint /\ {o} \in SUBSET Outpoint BY <1>3, <1>4
  <2>2. /\ e \in Databases /\ e.utxos = u /\ e.stxos = db.stxos
        /\ e.pending_withdrawal_bundle = db.pending_withdrawal_bundle
        /\ e.withdrawal_bundles = db.withdrawal_bundles
    BY <1>3, <2>1, UtxosType
  <2>3. t \in Transaction /\ t.phase = "disconnect" /\ t.undo = txn.undo
    BY <1>2, <1>3, <2>1, DiffType
  <2> HIDE DEF e, t
  <2>4. ASSUME Funds(db, chain) PROVE Funds(e, chain)
    BY <2>2, <2>4, UtxosFunds DEF Funds, DatabasesGood, NotBoth
  <2> QED BY <1>2, <1>4, <2>2, <2>3, <2>4, UndoneKeeps
<1> QED BY <1>1, <1>4

-----------------------------------------------------------------------------
(* The steps that begin and end a transaction *)

LEMMA IInvPrime ==
  ASSUME TInv', Funds(db', chain'), NEW c, c = CommittedChain',
         Funds(committed', c)
  PROVE  IInv'
BY DEF IInv, Funds, DatabasesGood, BodiesGood

LEMMA KeepsIInv ==
  ASSUME IInv, Keeps
  PROVE  IInv'
<1> QED BY IInvPrime DEF CommittedChain, IInv, Keeps

LEMMA AbortIInv ==
  ASSUME IInv, Aborts
  PROVE  IInv'
<1>1. PICK outcome \in {"error", "panicked"} : Abort(outcome) BY DEF Aborts
<1> QED BY <1>1, IInvPrime, AbortTInv DEF IInv, CommittedChain, NoTransaction, Abort

LEMMA AppendFront ==
  ASSUME NEW S, NEW s \in Seq(S), NEW x \in S
  PROVE  SubSeq(Append(s, x), 1, Len(Append(s, x)) - 1) = s
<1> DEFINE t == Append(s, x)
<1>1. /\ t \in Seq(S) /\ Len(t) = Len(s) + 1 /\ Len(s) \in Nat
      /\ \A i \in 1..Len(s) : t[i] = s[i]
  BY AppendProperties, LenProperties
<1> HIDE DEF t
<1> QED BY <1>1, SeqEqual, PrefixType DEF t

\* apply_block spends utxos and creates new outpoints.
LEMMA BodyFunds ==
  ASSUME NEW d \in Databases, NEW e \in Databases, NEW c \in Seq(Block),
         Funds(d, c), NEW spent \in SUBSET d.utxos, NEW created,
         \A o \in created : o \notin d.utxos /\ d.stxos[o] = Unspent,
         NEW s, SpendOf(s, d, spent, Regular),
         e.utxos = s.utxos \cup created, e.stxos = s.stxos,
         e.pending_withdrawal_bundle = s.pending_withdrawal_bundle,
         e.withdrawal_bundles = s.withdrawal_bundles,
         NEW blk \in Block, blk.spent = spent
  PROVE  Funds(e, Append(c, blk))
<1>1. /\ e.utxos = (d.utxos \ spent) \cup created
      /\ \A o \in Outpoint : e.stxos[o] = IF o \in spent THEN Regular ELSE d.stxos[o]
      /\ e.pending_withdrawal_bundle = d.pending_withdrawal_bundle
      /\ e.withdrawal_bundles = d.withdrawal_bundles
  BY DEF SpendOf
<1>2. /\ \A o \in d.utxos : d.stxos[o] = Unspent
      /\ d.utxos \in SUBSET Outpoint /\ e.utxos \in SUBSET Outpoint
  BY DEF Funds, DatabasesGood, NotBoth, Databases
<1>3. NotBoth(e) BY <1>1, <1>2 DEF NotBoth
<1>4. PendingGood(e) BY <1>1 DEF Funds, DatabasesGood, PendingGood, Entry, Last
<1>5. Funds(e, c)
  <2> DEFINE X == {}
  <2>3. /\ \A o \in Outpoint : \/ e.stxos[o] = d.stxos[o]
                               \/ d.stxos[o] = Unspent
                               \/ d.stxos[o] \in X
        /\ \A m \in M6id : m \notin X =>
              e.withdrawal_bundles[m] = d.withdrawal_bundles[m]
        /\ \A m \in X : BundleGood(e, m)
        /\ X \in SUBSET M6id
    BY <1>1, <1>2
  <2> HIDE DEF X
  <2> QED BY <1>3, <1>4, <2>3, FundsStep
<1> DEFINE k == Append(c, blk)
<1>6. /\ Len(k) = Len(c) + 1 /\ Len(c) \in Nat /\ \A i \in 1..Len(c) : k[i] = c[i]
      /\ k[Len(c) + 1] = blk
  BY AppendProperties, LenProperties
<1> HIDE DEF k
<1>7. \A i \in 1..Len(k) : i \in 1..Len(c) \/ i = Len(c) + 1 BY <1>6
<1>8. \A i \in 1..Len(c) : c[i].spent \cap spent = {}
  BY <1>2, ConstantsAssumption DEF Funds, BodiesGood
<1>9. \A i \in 1..Len(k) : \A o \in k[i].spent : e.stxos[o] = Regular
  BY <1>1, <1>2, <1>5, <1>6, <1>7 DEF Funds, BodiesGood
<1>10. \A i, j \in 1..Len(k) : i # j => k[i].spent \cap k[j].spent = {}
  BY <1>6, <1>7, <1>8 DEF Funds, BodiesGood
<1> QED BY <1>5, <1>9, <1>10 DEF Funds, BodiesGood, k

LEMMA ConnectBodyIInv ==
  ASSUME IInv, NEW spent \in SUBSET db.utxos, NEW created \in SUBSET Withdrawal,
         ConnectBody(spent, created)
  PROVE  IInv'
<1>1. TInv /\ TInv' /\ Funds(db, chain) /\ Funds(committed, CommittedChain)
  BY ConnectBodyTInv DEF IInv
<1>2. db \in Databases /\ spent \in SUBSET Outpoint /\ chain \in Seq(Block)
  BY <1>1 DEF TInv, TypeOK, Databases
<1> DEFINE s == Spend(db, spent, Regular)
           e == [s EXCEPT !.utxos = @ \cup created,
                          !.utreexo_accumulator = (@ \ spent) \cup created]
           blk == [spent |-> spent, created |-> created,
                   events |-> Len(main), before |-> db]
<1>3. /\ db' = e /\ chain' = Append(chain, blk) /\ committed' = committed
      /\ txn.phase = "idle" /\ txn' = [txn EXCEPT !.phase = "connect"]
      /\ \A o \in created : o \notin db.utxos /\ db.stxos[o] = Unspent
  BY DEF ConnectBody
<1>4. blk \in Block /\ blk.spent = spent
  BY <1>1, <1>2, LenProperties DEF Block, TInv, TypeOK
<1>5. /\ e \in Databases /\ SpendOf(s, db, spent, Regular)
      /\ e.utxos = s.utxos \cup created /\ e.stxos = s.stxos
      /\ e.pending_withdrawal_bundle = s.pending_withdrawal_bundle
      /\ e.withdrawal_bundles = s.withdrawal_bundles
  <2> DEFINE u == s.utxos \cup created
             a == (s.utreexo_accumulator \ spent) \cup created
  <2>1. /\ s = Spend(db, spent, Regular) /\ u = s.utxos \cup created
        /\ a = (s.utreexo_accumulator \ spent) \cup created
        /\ e = [s EXCEPT !.utxos = u, !.utreexo_accumulator = a]
    OBVIOUS
  <2> HIDE DEF s, u, a, e, blk
  <2>2. s \in Databases /\ SpendOf(s, db, spent, Regular) BY <1>2, <2>1, SpendType
  <2>3. u \in SUBSET Outpoint /\ a \in SUBSET Outpoint
    BY <2>1, <2>2 DEF Databases, Outpoint
  <2>4. /\ e \in Databases /\ e.utxos = u /\ e.stxos = s.stxos
        /\ e.pending_withdrawal_bundle = s.pending_withdrawal_bundle
        /\ e.withdrawal_bundles = s.withdrawal_bundles
    BY ONLY <2>1, <2>2, <2>3 DEF Databases
  <2> QED BY <2>1, <2>2, <2>4
<1> HIDE DEF s, e, blk
<1>8. CommittedChain' = chain /\ CommittedChain = chain
  <2> QED
    BY <1>1, <1>2, <1>3, <1>4, AppendFront DEF CommittedChain, TInv, TypeOK, Transaction
<1> QED BY <1>1, <1>2, <1>3, <1>4, <1>5, <1>8, IInvPrime, BodyFunds

LEMMA CollectFunds ==
  ASSUME TInv, txn.phase = "connect", ~CollectsReported, Funds(db, chain)
  PROVE  Funds(Collect(db), chain)
<1> DEFINE m == Collected
           e == Collect(db)
<1>1. /\ m \in M6id /\ m.spend = Selected[db.utxos \cap Withdrawal]
      /\ m.spend \subseteq db.utxos /\ e \in Databases
      /\ \/ e = db
         \/ \E p : /\ EntryOf(p, db, m, Pushed(db, m, "Known", {}, "Pending"))
                   /\ PendingOf(e, p, {m})
  BY CollectDb
<1>10. Entry(db, m).info \notin {"Unknown", "UnknownConfirmed"} \/ e = db
  BY DEF Collect, CollectsReported, Entry, bundle
<1> HIDE DEF m, e
<1>2. CASE e = db BY <1>2 DEF e
<1>3. CASE /\ e # db
           /\ \E p : /\ EntryOf(p, db, m, Pushed(db, m, "Known", {}, "Pending"))
                     /\ PendingOf(e, p, {m})
  <2>1. /\ e.utxos = db.utxos /\ e.stxos = db.stxos /\ e.pending_withdrawal_bundle = {m}
        /\ e.withdrawal_bundles[m] = Pushed(db, m, "Known", {}, "Pending")
        /\ \A n \in M6id : n # m => e.withdrawal_bundles[n] = db.withdrawal_bundles[n]
    BY <1>3 DEF EntryOf, PendingOf
  <2>2. /\ \A o \in db.utxos : db.stxos[o] = Unspent
        /\ BundleGood(db, m) /\ chain \in Seq(Block) /\ {m} \in SUBSET M6id
    BY <1>1, FundsFacts
  <2>3. /\ db \in Databases /\ height \in Nat /\ {} \in SUBSET Outpoint
        /\ "Pending" \in Status /\ "Known" \in {"Known", "Unknown", "UnknownConfirmed"}
    BY HeightType DEF TInv, TypeOK, Status
  <2>5. m.spend # {} => Entry(db, m).info = "Known" \/ Entry(db, m).status = << >>
    <3> QED
      BY <1>1, <1>10, <1>3, <2>2, <2>3, BundleType DEF BundleGood, Entry
  <2>6. m.spend # {} /\ Entry(db, m).status # << >> =>
            Last(db, m) \notin {"Submitted", "Confirmed"}
    <3>1. \A o \in m.spend : db.stxos[o] # m BY <1>1, <2>2, ConstantsAssumption
    <3> QED BY <2>2, <2>5, <3>1 DEF BundleGood, Locked
  <2>8. /\ Entry(e, m).info = "Known" /\ Last(e, m) = "Pending"
        /\ Entry(e, m).status # << >>
    BY <1>1, <2>1, <2>3, PushedGood
  <2>9. History(e, m)
    <3>1. CASE m.spend # {}
      <4>1. /\ Entry(db, m).info = "Known" \/ Entry(db, m).status = << >>
            /\ Entry(db, m).status # << >> =>
                  Last(db, m) \notin {"Submitted", "Confirmed"}
        BY <2>5, <2>6, <3>1
      <4> QED BY <1>1, <2>1, <2>2, <2>3, <4>1, PushedGood DEF BundleGood
    <3>2. CASE m.spend = {} BY <3>2 DEF History
    <3> QED BY <3>1, <3>2
  <2>11. PendingGood(e) BY <2>1, <2>8 DEF PendingGood
  <2>12. NotBoth(e) BY <2>1, <2>2 DEF NotBoth
  <2>13. \A n \in M6id : n \notin {m} =>
             e.withdrawal_bundles[n] = db.withdrawal_bundles[n]
    BY <2>1
  <2>14. \A n \in {m} : BundleGood(e, n)
    BY <2>8, <2>9 DEF BundleGood, Locked, UnknownLocked
  <2>15. Funds(e, chain)
    BY <1>1, <2>1, <2>2, <2>3, <2>11, <2>12, <2>13, <2>14, FundsStep
  <2> QED BY <2>15 DEF e
<1> QED BY <1>1, <1>2, <1>3

LEMMA SameFundsGood ==
  ASSUME NEW d, NEW e, NEW c, Funds(d, c), SameFunds(e, d)
  PROVE  Funds(e, c)
<1> QED BY UtxosFunds DEF SameFunds, Funds, DatabasesGood, NotBoth

LEMMA FinishConnectIInv ==
  ASSUME TInv, FinishConnect
  PROVE  \/ /\ TInv'
            /\ IInv /\ "reported_first" \notin defects' => IInv'
         \/ Aborts
<1> DEFINE c == Collect(db)
           x == Record(c.deposit_blocks, txn.deposit_block)
           y == Record(c.withdrawal_bundle_event_blocks, txn.event_block)
           a == ApplyDiff(c.utreexo_accumulator, txn)
           e == [c EXCEPT !.deposit_blocks = x,
                          !.withdrawal_bundle_event_blocks = y,
                          !.utreexo_accumulator = a]
<1>1. txn.phase = "connect" BY DEF FinishConnect
<1>2. \/ /\ db' = e /\ committed' = db' /\ txn' = NoTransaction
         /\ chain' = chain /\ main' = main /\ net_task' = net_task
         /\ defects' = IF CollectsReported THEN defects \cup {"reported_first"}
                       ELSE defects
      \/ Aborts
  BY DEF FinishConnect, Aborts
<1>3. c \in Databases /\ txn \in Transaction /\ height \in Nat
  BY <1>1, CollectDb, HeightType DEF TInv, TypeOK
<1>4. ~CollectsReported /\ IInv => Funds(c, chain) BY <1>1, CollectFunds DEF IInv
<1> HIDE DEF c
<1>6. x \in Seq(EventBlock) /\ y \in Seq(EventBlock) /\ a \in SUBSET Outpoint
  BY <1>3, RecordType DEF ApplyDiff, Databases, Transaction
<1> HIDE DEF x, y, a
<1>7. e \in Databases /\ SameFunds(e, c) BY <1>3, <1>6, LogsType
<1> HIDE DEF e
<1>8. CASE /\ db' = e /\ committed' = db' /\ txn' = NoTransaction
           /\ chain' = chain /\ main' = main /\ net_task' = net_task
           /\ defects' = IF CollectsReported THEN defects \cup {"reported_first"}
                         ELSE defects
  <2>0. /\ defects' \subseteq Defect
        /\ "reported_first" \notin defects' => ~CollectsReported
    BY <1>8 DEF TInv, TypeOK, Defect
  <2>1. txn' \in Transaction /\ txn'.phase = "idle"
    BY <1>8 DEF NoTransaction, Transaction
  <2>2. TInv' BY <1>7, <1>8, <2>0, <2>1, SameChainTInv DEF TInv, TypeOK
  <2>3. ASSUME IInv, "reported_first" \notin defects' PROVE IInv'
    <3> QED
      BY <1>4, <2>0, <1>7, <1>8, <2>1, <2>2, <2>3, IInvPrime, SameFundsGood DEF CommittedChain
  <2> QED BY <2>2, <2>3
<1> QED BY <1>2, <1>8

LEMMA BeginDisconnectKeeps ==
  ASSUME TInv, BeginDisconnect
  PROVE  \/ TInv' /\ (IInv => IInv')
         \/ Aborts
<1>1. \/ /\ txn' = [txn EXCEPT !.phase = "disconnect", !.undo = Len(main),
                                !.start_block = StartBlock]
         /\ UNCHANGED << db, committed, chain, main, net_task >>
         /\ defects' \subseteq defects \cup {"genesis_wraps"}
      \/ Aborts
  BY DEF BeginDisconnect, Aborts
<1>2. txn.phase = "idle" /\ chain # << >> BY DEF BeginDisconnect
<1>3. CASE /\ txn' = [txn EXCEPT !.phase = "disconnect", !.undo = Len(main),
                                 !.start_block = StartBlock]
           /\ UNCHANGED << db, committed, chain, main, net_task >>
           /\ defects' \subseteq defects \cup {"genesis_wraps"}
  <2>1. defects' \subseteq Defect BY <1>3 DEF TInv, TypeOK, Defect
  <2> DEFINE sb == StartBlock
             ln == Len(main)
  <2>2. sb \in Nat /\ ln \in Nat /\ ln = Len(main)
        /\ txn' = [txn EXCEPT !.phase = "disconnect", !.undo = ln, !.start_block = sb]
    BY <1>3, StartBlockType, LenProperties DEF TInv, TypeOK
  <2> HIDE DEF sb, ln
  <2>3. txn' \in Transaction /\ txn'.phase = "disconnect" /\ txn'.undo = ln
    BY <2>2 DEF TInv, TypeOK, Transaction
  <2>4. Len(chain) > 0 BY <1>2, EmptySeq, LenProperties DEF TInv, TypeOK
  <2>5. TInv' BY <1>3, <2>1, <2>2, <2>3, <2>4, SameChainTInv DEF TInv, TypeOK
  <2>6. ASSUME IInv PROVE IInv'
    BY <1>2, <1>3, <2>3, <2>5, <2>6, IInvPrime DEF IInv, CommittedChain
  <2> QED BY <2>5, <2>6
<1> QED BY <1>1, <1>3

LEMMA UncollectFunds ==
  ASSUME TInv, Funds(db, chain)
  PROVE  Funds(Uncollect(db), chain)
<1> DEFINE e == Uncollect(db)
<1>1. /\ e \in Databases
      /\ \/ e = db
         \/ \E m \in db.pending_withdrawal_bundle : \E p :
               /\ m \in M6id
               /\ EntryOf(p, db, m, Popped(db, m, bundle(m).info,
                                           bundle(m).spend_utxos))
               /\ PendingOf(e, p, {})
  BY UncollectDb
<1> HIDE DEF e
<1>2. CASE e = db BY <1>2 DEF e
<1>3. CASE e # db
  <2>1. PICK m, p :
            /\ m \in db.pending_withdrawal_bundle /\ m \in M6id
            /\ EntryOf(p, db, m, Popped(db, m, bundle(m).info,
                                        bundle(m).spend_utxos))
            /\ PendingOf(e, p, {})
    BY <1>1, <1>3
  <2> DEFINE info == bundle(m).info
             outs == bundle(m).spend_utxos
  <2>2. /\ e.utxos = db.utxos /\ e.stxos = db.stxos /\ e.pending_withdrawal_bundle = {}
        /\ e.withdrawal_bundles[m] = Popped(db, m, info, outs)
        /\ \A n \in M6id : n # m => e.withdrawal_bundles[n] = db.withdrawal_bundles[n]
    BY <2>1 DEF EntryOf, PendingOf
  <2>3. /\ \A o \in db.utxos : db.stxos[o] = Unspent
        /\ PendingGood(db) /\ BundleGood(db, m)
        /\ chain \in Seq(Block) /\ {m} \in SUBSET M6id
        /\ outs \in SUBSET Outpoint /\ db \in Databases
    BY <2>1, FundsFacts, Typed
  <2>5. /\ info = "Known" /\ Last(db, m) = "Pending" /\ History(db, m)
        /\ Entry(db, m).info = "Known" /\ db.withdrawal_bundles[m].status # << >>
    BY <2>1, <2>3 DEF PendingGood, BundleGood, Entry, bundle
  <2>6. info \in {"Known", "Unknown", "UnknownConfirmed"} BY <2>5
  <2> HIDE DEF info, outs
  <2> DEFINE rest == Pop(db.withdrawal_bundles[m].status)
  <2>7. /\ Entry(e, m).status = rest
        /\ rest = << >> => Entry(e, m).info = "Absent"
        /\ rest # << >> => /\ Entry(e, m).info = info
                           /\ Last(e, m) = Latest(rest).value
        /\ History(e, m)
    BY <1>1, <2>1, <2>2, <2>3, <2>5, <2>6, PoppedGood
  <2>8. rest # << >> /\ m.spend # {} =>
            Latest(rest).value \notin {"Submitted", "Confirmed"}
    <3> SUFFICES ASSUME rest # << >>, m.spend # {}
                 PROVE  Latest(rest).value \notin {"Submitted", "Confirmed"}
      OBVIOUS
    <3> QED BY <1>1, <2>1, <2>2, <2>3, <2>5, <2>6, PoppedGood
  <2> HIDE DEF rest
  <2>9. BundleGood(e, m) BY <2>5, <2>7, <2>8 DEF BundleGood, Locked, UnknownLocked
  <2>11. NotBoth(e) BY <2>2, <2>3 DEF NotBoth
  <2>12. \A n \in M6id : n \notin {m} =>
             e.withdrawal_bundles[n] = db.withdrawal_bundles[n]
    BY <2>2
  <2>13. \A n \in {m} : BundleGood(e, n) BY <2>9
  <2>14. Funds(e, chain)
    BY <1>1, <2>2, <2>3, <2>11, <2>12, <2>13, FundsStep DEF PendingGood
  <2> QED BY <2>14 DEF e
<1> QED BY <1>2, <1>3

\* disconnect_tip gives back what the last body spent, and nothing else.
LEMMA UnbodyFunds ==
  ASSUME NEW d \in Databases, NEW e \in Databases, NEW c \in Seq(Block),
         Len(c) > 0, Funds(d, c), UnspendOf(e, d, c[Len(c)].spent)
  PROVE  Funds(e, SubSeq(c, 1, Len(c) - 1))
<1> DEFINE back == c[Len(c)].spent
<1>1. Len(c) \in Nat \ {0} BY LenProperties
<1>2. back \in SUBSET Outpoint
  <2>1. c[Len(c)] \in Block BY <1>1, ElementOfSeq
  <2> QED BY <2>1 DEF Block
<1>3. /\ \A i \in 1..Len(c) : \A o \in c[i].spent : d.stxos[o] = Regular
      /\ \A i, j \in 1..Len(c) : i # j => c[i].spent \cap c[j].spent = {}
  BY DEF Funds, BodiesGood
<1>4. \A o \in back : d.stxos[o] = Regular BY <1>1, <1>3
<1>5. \A i \in 1..(Len(c) - 1) : c[i].spent \cap back = {} BY <1>1, <1>3
<1>6. UnspendOf(e, d, back) OBVIOUS
<1> HIDE DEF back
<1>7. /\ e.utxos = d.utxos \cup back
      /\ \A o \in Outpoint : e.stxos[o] = IF o \in back THEN Unspent ELSE d.stxos[o]
      /\ e.pending_withdrawal_bundle = d.pending_withdrawal_bundle
      /\ e.withdrawal_bundles = d.withdrawal_bundles
  BY <1>6 DEF UnspendOf
<1>8. NotBoth(e) BY <1>2, <1>7 DEF NotBoth, Funds, DatabasesGood, Databases
<1>9. PendingGood(e) BY <1>7 DEF Funds, DatabasesGood, PendingGood, Entry, Last
<1>10. ASSUME NEW m \in M6id PROVE BundleGood(e, m)
  <2>1. Entry(e, m) = Entry(d, m) /\ BundleGood(d, m)
    BY <1>7 DEF Entry, Funds, DatabasesGood
  <2>6. History(e, m) BY <2>1 DEF BundleGood, History
  <2> QED
    BY <1>4, <1>7, <2>1, <2>6, ConstantsAssumption, SpendIsOutpoints, BundleType DEF
       BundleGood, Locked, Last, UnknownLocked, Entry
<1> DEFINE k == SubSeq(c, 1, Len(c) - 1)
<1>11. Len(k) = Len(c) - 1 /\ \A i \in 1..(Len(c) - 1) : k[i] = c[i]
  <2>1. Len(c) - 1 \in 0..Len(c) BY <1>1
  <2> QED BY <2>1, PrefixType
<1> HIDE DEF k
<1>12. ASSUME NEW i \in 1..Len(k), NEW o \in k[i].spent
       PROVE  e.stxos[o] = Regular
  <2>1. i \in 1..(Len(c) - 1) /\ i \in 1..Len(c) /\ k[i] = c[i] BY <1>1, <1>11
  <2>2. c[i] \in Block BY <2>1, ElementOfSeq
  <2> QED BY <1>3, <1>5, <1>7, <2>1, <2>2 DEF Block
<1>13. \A i, j \in 1..Len(k) : i # j => k[i].spent \cap k[j].spent = {}
  BY <1>1, <1>3, <1>11
<1> QED BY <1>8, <1>9, <1>10, <1>12, <1>13 DEF Funds, DatabasesGood, BodiesGood, k

LEMMA UnrecordType ==
  ASSUME NEW log \in Seq(EventBlock), NEW block
  PROVE  Unrecord(log, block) \in Seq(EventBlock)
<1>1. CASE log = << >> BY <1>1, EmptyPop DEF Unrecord
<1>2. CASE log # << >> BY <1>2, PrefixType, EmptySeq DEF Unrecord, Pop
<1> QED BY <1>1, <1>2

LEMMA FinishDisconnectIInv ==
  ASSUME TInv, FinishDisconnect
  PROVE  \/ TInv' /\ (IInv => IInv')
         \/ Aborts
<1> DEFINE c == Uncollect(db)
           r == [c EXCEPT !.utxos = @ \ tip.created]
           v == Unspend(r, tip.spent)
           x == Unrecord(v.deposit_blocks, txn.deposit_block)
           y == Unrecord(v.withdrawal_bundle_event_blocks, txn.event_block)
           a == tip.before.utreexo_accumulator
           e == [v EXCEPT !.deposit_blocks = x,
                          !.withdrawal_bundle_event_blocks = y,
                          !.utreexo_accumulator = a]
<1>1. txn.phase = "disconnect" BY DEF FinishDisconnect
<1>2. \/ /\ db' = e /\ committed' = db' /\ txn' = NoTransaction
         /\ chain' = SubSeq(chain, 1, Len(chain) - 1)
         /\ main' = SubSeq(main, 1, tip.events) /\ net_task' = net_task
         /\ defects' = defects
      \/ Aborts
  BY DEF FinishDisconnect, DisconnectBody, Aborts
<1>3. /\ c \in Databases /\ tip \in Block /\ tip.spent \in SUBSET Outpoint
      /\ a \in SUBSET Outpoint
      /\ chain \in Seq(Block) /\ Len(chain) > 0 /\ tip = chain[Len(chain)]
  <2>2. /\ tip \in Block /\ Len(chain) \in Nat \ {0}
        /\ chain \in Seq(Block) /\ tip = chain[Len(chain)]
    BY <1>1, HeightType DEF TInv, TypeOK, tip
  <2> QED BY <2>2, UncollectDb DEF Databases, Block
<1>4. IInv => Funds(c, chain) BY UncollectFunds DEF IInv
<1> HIDE DEF c, a
<1>5. /\ r \in Databases /\ r.utxos = c.utxos \ tip.created /\ r.stxos = c.stxos
      /\ r.pending_withdrawal_bundle = c.pending_withdrawal_bundle
      /\ r.withdrawal_bundles = c.withdrawal_bundles
  BY <1>3 DEF Databases
<1> HIDE DEF r
<1>6. v \in Databases /\ UnspendOf(v, r, tip.spent) BY <1>3, <1>5, UnspendType
<1> HIDE DEF v
<1>7. x \in Seq(EventBlock) /\ y \in Seq(EventBlock) BY <1>6, UnrecordType DEF Databases
<1> HIDE DEF x, y
<1>8. e \in Databases /\ SameFunds(e, v) BY <1>3, <1>6, <1>7, LogsType
<1> HIDE DEF e
<1>9. CASE /\ db' = e /\ committed' = db' /\ txn' = NoTransaction
           /\ chain' = SubSeq(chain, 1, Len(chain) - 1)
           /\ main' = SubSeq(main, 1, tip.events) /\ net_task' = net_task
           /\ defects' = defects
  <2>2. TInv' BY <1>1, <1>8, <1>9, PopChainTInv DEF TInv, TypeOK
  <2>3. ASSUME IInv PROVE IInv'
    <3>3. Funds(r, chain)
      BY <1>4, <1>5, <2>3, UtxosFunds DEF Funds, DatabasesGood, NotBoth
    <3>5. Funds(e, chain')
      BY <1>3, <1>5, <1>6, <1>8, <1>9, <3>3, SameFundsGood, UnbodyFunds
    <3> QED BY <1>9, <2>2, <3>5, IInvPrime DEF CommittedChain, NoTransaction
  <2> QED BY <2>2, <2>3
<1> QED BY <1>2, <1>9

-----------------------------------------------------------------------------
(* Every step, and the theorems *)

\* Every step of Next either keeps the invariants or drops the transaction.
LEMMA NextKeeps ==
  ASSUME TInv, [Next]_vars
  PROVE  /\ TInv'
         /\ IInv /\ "reported_first" \notin defects' => IInv'
<1>1. CASE Keeps BY <1>1, KeepsIInv DEF Keeps
<1>2. CASE Aborts BY <1>2, AbortIInv, AbortTInv DEF Aborts
<1>3. ASSUME NEW spent \in SUBSET db.utxos, NEW created \in SUBSET Withdrawal,
             ConnectBody(spent, created)
      PROVE  TInv' /\ (IInv /\ "reported_first" \notin defects' => IInv')
  BY <1>3, ConnectBodyTInv, ConnectBodyIInv
<1>4. ASSUME txn.phase = "connect", NEW b \in NextMainBlocks, NEW o \in Deposit,
             ConnectDeposit(b, o)
      PROVE  TInv' /\ (IInv /\ "reported_first" \notin defects' => IInv')
  BY <1>1, <1>4, ConnectDepositKeeps
<1>5. ASSUME txn.phase = "connect", NEW b \in NextMainBlocks, NEW m \in M6id,
             \/ ConnectSubmitted(b, m)
             \/ ConnectConfirmed(b, m)
             \/ ConnectFailed(b, m)
      PROVE  TInv' /\ (IInv /\ "reported_first" \notin defects' => IInv')
  BY <1>1, <1>2, <1>5, ConnectEventKeeps
<1>7. CASE FinishConnect BY <1>2, <1>7, FinishConnectIInv
<1>8. CASE BeginDisconnect BY <1>2, <1>8, BeginDisconnectKeeps
<1>9. CASE DisconnectDeposit BY <1>1, <1>2, <1>9, DisconnectDepositKeeps
<1>10. CASE DisconnectSubmitted BY <1>1, <1>2, <1>10, DisconnectSubmittedKeeps
<1>11. CASE DisconnectConfirmed BY <1>1, <1>2, <1>11, DisconnectConfirmedKeeps
<1>12. CASE DisconnectFailed BY <1>1, <1>2, <1>12, DisconnectFailedKeeps
<1>13. CASE FinishDisconnect BY <1>2, <1>13, FinishDisconnectIInv
<1>14. CASE Restart \/ UNCHANGED vars
  <2> QED
    BY <1>1, <1>14, SameChainTInv DEF Keeps, TInv, TypeOK, ChainGood, Restart, vars
<1> QED BY <1>2, <1>3, <1>4, <1>5, <1>7, <1>8, <1>9, <1>10, <1>11, <1>12,
     <1>13, <1>14 DEF Next

LEMMA InitIInv == Init => IInv
<1> SUFFICES ASSUME Init PROVE IInv OBVIOUS
<1>1. TInv BY InitTInv
<1>2. /\ db.utxos = {} /\ db.pending_withdrawal_bundle = {}
      /\ \A m \in M6id : db.withdrawal_bundles[m] = NoBundle
      /\ chain = << >> /\ committed = db /\ txn.phase = "idle"
  BY DEF Init, NoTransaction
<1>3. \A m \in M6id : BundleGood(db, m)
  BY <1>2 DEF BundleGood, Locked, UnknownLocked, History, Entry, NoBundle
<1> QED
  BY <1>1, <1>2, <1>3 DEF IInv, Funds, DatabasesGood, NotBoth, PendingGood, BodiesGood,
     CommittedChain

\* Every reachable database, local and archived block of the two-way peg has
\* its type, whatever the mainchain reports and in whatever order blocks are
\* connected, disconnected, aborted and retried.
THEOREM TypeCorrect == Spec => []TypeOK
<1>1. Init => TInv BY InitTInv
<1>2. TInv /\ [Next]_vars => TInv' BY NextKeeps
<1>3. TInv => TypeOK BY DEF TInv
<1> QED BY <1>1, <1>2, <1>3, PTL DEF Spec

\* What is remembered of the past stays remembered.
LEMMA DefectsGrow ==
  ASSUME [Next]_vars
  PROVE  defects \subseteq defects'
<1>1. CASE FinishConnect \/ BeginDisconnect \/ FinishDisconnect
  BY <1>1 DEF FinishConnect, BeginDisconnect, FinishDisconnect, Abort
<1>2. CASE Restart \/ UNCHANGED vars BY <1>2 DEF Restart, vars
<1>3. CASE DisconnectDeposit \/ DisconnectSubmitted BY <1>3 DEF DisconnectDeposit,
     DisconnectSubmitted, UndoSubmitted, Undone, Abort
<1>4. CASE DisconnectConfirmed BY <1>4 DEF DisconnectConfirmed, Undone, Abort
<1>5. CASE DisconnectFailed BY <1>5 DEF DisconnectFailed, UndoFailed, Undone, Abort
<1>6. ASSUME NEW b, NEW m, ConnectSubmitted(b, m)
      PROVE  defects' = defects
  BY <1>6 DEF ConnectSubmitted, SubmitPending, SubmitUnexpected, SubmitUnknown,
     SubmitRefused, Applied, Abort
<1>7. ASSUME NEW b, NEW m, ConnectConfirmed(b, m)
      PROVE  defects' = defects
  BY <1>7 DEF ConnectConfirmed, Confirm, ConnectOutcomeUnexpected, Applied, Abort
<1>8. ASSUME NEW b, NEW m, ConnectFailed(b, m)
      PROVE  defects' = defects
  BY <1>8 DEF ConnectFailed, Fail, ConnectOutcomeUnexpected, Applied, Abort
<1>9. ASSUME NEW b, NEW o, ConnectDeposit(b, o) PROVE defects' = defects
  BY <1>9 DEF ConnectDeposit, Applied
<1>10. ASSUME NEW spent, NEW created, ConnectBody(spent, created)
       PROVE  defects' = defects
  BY <1>10 DEF ConnectBody
<1> QED BY <1>1, <1>2, <1>3, <1>4, <1>5, <1>6, <1>7, <1>8, <1>9, <1>10 DEF Next

\* The funds are in order until a block collects a bundle that the mainchain had
\* reported before; the types always are.
FundsInv == TInv /\ ("reported_first" \notin defects => IInv)

\* The inductive invariant: until a block collects a bundle that the mainchain
\* had reported before, the outputs that bundles and bodies spent are spent by
\* them, in what is committed and in the open transaction.
THEOREM FundsInvariant == Spec => []FundsInv
<1>1. Init => FundsInv BY InitTInv, InitIInv DEF FundsInv
<1>2. FundsInv /\ [Next]_vars => FundsInv' BY NextKeeps, DefectsGrow DEF FundsInv
<1> QED BY <1>1, <1>2, PTL DEF Spec

\* No outpoint is ever both a utxo and an stxo (until a block collects a bundle
\* that the mainchain had reported before): connect and disconnect move every
\* deposit, withdrawal and bundle input as a whole.
THEOREM NeverUnspentAndSpent ==
  Spec => []("reported_first" \notin defects => UnspentOrSpent)
<1>1. FundsInv => ("reported_first" \notin defects => UnspentOrSpent)
  BY DEF FundsInv, IInv, Funds, DatabasesGood, NotBoth, UnspentOrSpent
<1> QED BY <1>1, FundsInvariant, PTL

\* The utxos of a bundle that this node collected stay spent by it from its
\* submission until it fails, over every sequence of connects, disconnects,
\* errors and restarts in which no block collects a bundle that the mainchain
\* had reported before: the handlers never release or pay them out twice.
THEOREM FundsStayLocked == Spec => []SubmittedFundsLocked
<1>1. FundsInv => SubmittedFundsLocked
  BY DEF FundsInv, IInv, Funds, DatabasesGood, BundleGood, Locked, Entry, Last,
     SubmittedFundsLocked, bundle, LatestStatus
<1> QED BY <1>1, FundsInvariant, PTL

\* There is at most one pending bundle, and the databases agree that this node
\* collected it and that it was not submitted since (until a block collects a
\* bundle that the mainchain had reported before).
THEOREM PendingStaysCollected ==
  Spec => []("reported_first" \notin defects => PendingIsCollected)
<1>1. FundsInv => ("reported_first" \notin defects => PendingIsCollected)
  BY DEF FundsInv, IInv, Funds, DatabasesGood, PendingGood, Entry, Last,
     PendingIsCollected, bundle, LatestStatus
<1> QED BY <1>1, FundsInvariant, PTL

-----------------------------------------------------------------------------
(* What connecting a block does to the databases, and what is left of it while
   the block is disconnected *)

Info(d, m) == Entry(d, m).info
Hist(d, m) == Entry(d, m).status
Size(d, m) == Len(Hist(d, m))
Failed(d) == d.latest_failed_withdrawal_bundle
Pend(d) == d.pending_withdrawal_bundle
Logs(d) == << d.deposit_blocks, d.withdrawal_bundle_event_blocks,
              d.utreexo_accumulator >>

\* Every output that there ever was on this chain.
Outputs(d) == d.utxos \cup {o \in Outpoint : d.stxos[o] # Unspent}

\* The outputs that a bundle holds are known from its entry alone.
HeldBy(x, m) ==
    IF x.info = "Known" /\ Latest(x.status).value \in {"Submitted", "Confirmed"}
    THEN m.spend
    ELSE IF x.info = "UnknownConfirmed" THEN x.spend_utxos ELSE {}

Held(d) ==
    \A m \in M6id : \A o \in Outpoint :
        d.stxos[o] = m <=> o \in HeldBy(Entry(d, m), m)

\* What may precede the i-th status of a bundle.
Follows(x, i) ==
    LET now == x.status[i].value
        was == x.status[i - 1].value
    IN  /\ now = "Pending" => x.info = "Known" /\ (i = 1 \/ was = "Pending")
        /\ now = "Submitted" =>
              IF x.info = "Known" THEN i > 1 /\ was = "Pending" ELSE i = 1
        /\ now = "SubmittedUnexpected" => i > 1 /\ was \in {"Failed", "Dropped"}
        /\ now \in {"Confirmed", "Failed"} =>
              i > 1 /\ was \in {"Submitted", "SubmittedUnexpected"}

\* The entries of withdrawal_bundles that there can be.
Shape(x, m) ==
    /\ x.info = "Absent" <=> x.status = << >>
    /\ x.info = "Absent" => x = NoBundle
    /\ x.info = "Known" =>
          x.status[1] = [value |-> "Pending", height |-> m.height]
    /\ x.info \in {"Known", "Unknown"} => x.spend_utxos = {}
    /\ x.info = "UnknownConfirmed" => Latest(x.status).value = "Confirmed"
    /\ \A i \in 1..Len(x.status) : Follows(x, i)

Shapes(d) == \A m \in M6id : Shape(Entry(d, m), m)

\* The stxos of bodies are those of the first k blocks.
RegularIn(d, c, k) ==
    \A o \in Outpoint : d.stxos[o] = Regular <=> \E i \in 1..k : o \in c[i].spent

\* The deposits among the first n events.
Deposited(mn, n) == {mn[i].of : i \in {j \in 1..n : mn[j].kind = "Deposit"}}

\* FailuresRecorded of any databases.
Failures(d) ==
    \A i \in 1..Len(Failed(d)) :
        \E j \in 1..Size(d, Failed(d)[i].value) :
            Hist(d, Failed(d)[i].value)[j] =
                [value |-> "Failed", height |-> Failed(d)[i].height]

\* The last of the events a..n that is about m is of this kind.
LastIn(mn, a, n, kind, m) ==
    \E i \in a..n : /\ mn[i].kind = kind /\ mn[i].of = m
                    /\ \A j \in (i + 1)..n : mn[j].of # m

\* InflightAwaited of any databases that applied n events.
Awaited(d, mn, n) ==
    \A m \in M6id : LastIn(mn, 1, n, "Submitted", m) =>
        /\ Info(d, m) # "Absent" /\ Last(d, m) \in {"Submitted", "SubmittedUnexpected"}

\* Databases that applied n events and the bodies of k blocks.
Whole(d, c, k, mn, n) ==
    /\ Shapes(d) /\ Held(d) /\ NotBoth(d) /\ RegularIn(d, c, k)
    /\ Outputs(d) \cap Deposit = Deposited(mn, n)

\* Nothing but left-over bundles has a stamp of height h or more.
StampsBelow(d, h) ==
    /\ \A m \in M6id :
          \/ LeftOver(d, m, h)
          \/ \A i \in 1..Size(d, m) : Hist(d, m)[i].height < h
    /\ \A i \in 1..Len(Failed(d)) : Failed(d)[i].height < h

\* The mainchain block of the n-th event; 0 before the first.
BlockOf(mn, n) == IF n = 0 THEN 0 ELSE mn[n].block

LogBelow(log, h, b) ==
    \A i \in 1..Len(log) :
        log[i].height < h /\ 0 < log[i].block /\ log[i].block =< b

\* The databases between two blocks, with k blocks and n events applied.
Sound(d, c, k, mn, n) ==
    /\ d \in Databases /\ Whole(d, c, k, mn, n) /\ PendingGood(d) /\ StampsBelow(d, k)
    /\ Failures(d) /\ Awaited(d, mn, n) /\ d.utreexo_accumulator = d.utxos
    /\ LogBelow(d.deposit_blocks, k, BlockOf(mn, n))
    /\ LogBelow(d.withdrawal_bundle_event_blocks, k, BlockOf(mn, n))

\* An event of this kind sets this status.
Matches(value, kind) ==
    \/ kind = "Submitted" /\ value \in {"Submitted", "SubmittedUnexpected"}
    \/ kind \in {"Confirmed", "Failed"} /\ value = kind

\* A bundle that the block of height h may collect without having seen it.
OldOrNone(d, m, h) == Entry(d, m) = NoBundle \/ LeftOver(d, m, h)

\* The history of a bundle since the databases a: f gives the event that set
\* each status of the block at height h, which applied the events after lo.
Grown(a, lo, h, d, mn, n, f, m) ==
    /\ Size(a, m) =< Size(d, m)
    /\ \A i \in 1..Size(a, m) : Hist(d, m)[i] = Hist(a, m)[i]
    /\ Size(a, m) = Size(d, m) => Entry(d, m) = Entry(a, m)
    /\ Size(a, m) < Size(d, m) =>
          /\ Info(a, m) # "UnknownConfirmed"
          /\ Size(a, m) > 0 /\ Last(a, m) = "Pending" => Pend(a) = {m}
    /\ \A p \in (Size(a, m) + 1)..Size(d, m) :
          /\ Hist(d, m)[p].height = h /\ lo < f[p] /\ f[p] =< n /\ mn[f[p]].of = m
          /\ Matches(Hist(d, m)[p].value, mn[f[p]].kind)
          /\ \A q \in (p + 1)..Size(d, m) : f[p] < f[q]

\* The q-th status of m is a failure that gave its utxos back.
Refund(d, m, q) ==
    /\ Info(d, m) = "Known" /\ q > 1
    /\ Hist(d, m)[q].value = "Failed" /\ Hist(d, m)[q - 1].value = "Submitted"

\* The latest failures since the databases a: g gives the event of each.
FailedGrown(a, lo, h, d, n, F, g) ==
    /\ Len(Failed(a)) =< Len(Failed(d))
    /\ \A i \in 1..Len(Failed(a)) : Failed(d)[i] = Failed(a)[i]
    /\ \A p \in (Len(Failed(a)) + 1)..Len(Failed(d)) :
          /\ Failed(d)[p].height = h /\ lo < g[p] /\ g[p] =< n
          /\ \A q \in (p + 1)..Len(Failed(d)) : g[p] < g[q]
          /\ \E q \in (Size(a, Failed(d)[p].value) + 1)..Size(d, Failed(d)[p].value) :
                /\ Refund(d, Failed(d)[p].value, q) /\ F[Failed(d)[p].value][q] = g[p]

\* C is the bundle that the block collected, L are bundles that were left over.
Traced(a, lo, h, d, mn, n, C, L, F, g) ==
    /\ \A m \in M6id : m \notin C \cup L => Grown(a, lo, h, d, mn, n, F[m], m)
    /\ FailedGrown(a, lo, h, d, n, F, g)

\* The height of the latest failure, and whether bundles may be collected.
FailedAt(d) ==
    IF Failed(d) = << >> THEN 0
    ELSE LET m == Latest(Failed(d)).value
             found == {i \in DOMAIN Hist(d, m) : Hist(d, m)[i].value = "Failed"}
         IN  Hist(d, m)[Max(found)].height
GapOver(d, h) == h - FailedAt(d) >= WITHDRAWAL_BUNDLE_FAILURE_GAP

Collects(a, h, d, C) ==
    /\ C \subseteq M6id /\ \A m, n \in C : m = n
    /\ C # {} => GapOver(a, h)
    /\ \A m \in C :
          /\ OldOrNone(a, m, h) /\ m.height = h
          /\ Entry(d, m) = [info |-> "Known", spend_utxos |-> {},
                            status |-> Push(Hist(a, m), "Pending", h)]

\* The databases d, at the n-th event, of the block b at height h.
Progress(b, h, d, mn, n, C, L) ==
    /\ Outputs(d) \ Deposit = (Outputs(b.before) \ Deposit) \cup b.created
    /\ Collects(b.before, h, d, C) /\ L \subseteq M6id
    /\ \A m \in L : m \notin C /\ LeftOver(d, m, h) /\ OldOrNone(b.before, m, h)
    /\ Pend(d) = IF \E m \in Pend(b.before) : Size(d, m) = Size(b.before, m)
                 THEN Pend(b.before) ELSE C
    /\ \E F \in [M6id -> [Nat -> Nat]], g \in [Nat -> Nat] :
          Traced(b.before, b.events, h, d, mn, n, C, L, F, g)

-----------------------------------------------------------------------------
(* Histories, entries, and what no step but those of bundles changes *)

LEMMA HistType ==
  ASSUME NEW d \in Databases, NEW m \in M6id
  PROVE  /\ Hist(d, m) \in RollBackOf(Status)
         /\ Hist(d, m) \in Seq(HeightStamped(Status)) /\ Size(d, m) \in Nat
         /\ \A i \in 1..Size(d, m) : /\ Hist(d, m)[i].value \in Status
                                     /\ Hist(d, m)[i].height \in Nat
         /\ Hist(d, m) = << >> <=> Size(d, m) = 0
         /\ Size(d, m) > 0 => /\ Latest(Hist(d, m)) = Hist(d, m)[Size(d, m)]
                              /\ Last(d, m) = Hist(d, m)[Size(d, m)].value
         /\ Info(d, m) \in {"Absent", "Known", "Unknown", "UnknownConfirmed"}
         /\ Entry(d, m) = [info |-> Info(d, m),
                           spend_utxos |-> Entry(d, m).spend_utxos,
                           status |-> Hist(d, m)]
         /\ Entry(d, m).spend_utxos \in SUBSET Outpoint
<1>1. /\ Entry(d, m) \in Bundle
      /\ Info(d, m) \in {"Absent", "Known", "Unknown", "UnknownConfirmed"}
      /\ Entry(d, m).spend_utxos \in SUBSET Outpoint
      /\ Hist(d, m) \in RollBackOf(Status)
  BY BundleType DEF Entry, Info, Hist
<1> DEFINE s == Hist(d, m)
           S == HeightStamped(Status)
<1>3. s \in Seq(S) BY <1>1 DEF RollBackOf
<1>6. \A i \in 1..Len(s) : s[i] \in S BY <1>3, ElementOfSeq
<1>8. Latest(s) = s[Len(s)] /\ Last(d, m) = s[Len(s)].value BY DEF Latest, Last, Hist
<1> QED
  BY <1>1, <1>3, <1>6, <1>8, LenProperties, EmptySeq DEF Bundle, Info, Hist, Size,
     HeightStamped

LEMMA FailedType ==
  ASSUME NEW d \in Databases
  PROVE  /\ Failed(d) \in RollBackOf(M6id) /\ Failed(d) \in Seq(HeightStamped(M6id))
         /\ Len(Failed(d)) \in Nat
         /\ Failed(d) = << >> <=> Len(Failed(d)) = 0
         /\ \A i \in 1..Len(Failed(d)) : /\ Failed(d)[i].value \in M6id
                                         /\ Failed(d)[i].height \in Nat
         /\ Latest(Failed(d)) = Failed(d)[Len(Failed(d))]
<1>1. Failed(d) \in RollBackOf(M6id) BY DEF Failed, Databases
<1> DEFINE s == Failed(d)
           S == HeightStamped(M6id)
<1>3. s \in Seq(S) BY <1>1 DEF RollBackOf
<1> HIDE DEF s
<1>6. \A i \in 1..Len(s) : s[i] \in S BY <1>3, ElementOfSeq
<1> QED BY <1>1, <1>3, <1>6, LenProperties, EmptySeq DEF s, Latest, HeightStamped

\* A step of one bundle: it moves outputs between the utxos and the stxos of
\* that bundle, until they are those that its new entry says.
OnlyMoves(d, e, m) ==
    /\ e \in Databases /\ Outputs(e) = Outputs(d)
    /\ \A o \in Outpoint :
          \/ e.stxos[o] = d.stxos[o]
          \/ d.stxos[o] \in {Unspent, m} /\ e.stxos[o] \in {Unspent, m}
    /\ \A o \in Outpoint : e.stxos[o] = m <=> o \in HeldBy(Entry(e, m), m)
    /\ NotBoth(e) /\ \A n \in M6id : n # m => Entry(e, n) = Entry(d, n)
    /\ Shape(Entry(e, m), m) /\ Logs(e) = Logs(d)

LEMMA MovesWhole ==
  ASSUME NEW d \in Databases, NEW e, NEW m \in M6id, NEW c, NEW k, NEW mn, NEW n,
         Whole(d, c, k, mn, n), OnlyMoves(d, e, m)
  PROVE  Whole(e, c, k, mn, n)
<1>2. Held(e)
  <2> SUFFICES ASSUME NEW x \in M6id, NEW o \in Outpoint
               PROVE  e.stxos[o] = x <=> o \in HeldBy(Entry(e, x), x)
    BY DEF Held
  <2>1. CASE x = m BY <2>1 DEF OnlyMoves
  <2>2. CASE x # m BY <2>2, ConstantsAssumption DEF OnlyMoves, Whole, Held
  <2> QED BY <2>1, <2>2
<1> QED BY <1>2, ConstantsAssumption DEF OnlyMoves, Whole, Shapes, RegularIn

\* What none of the updates of funds and entries touches.
SameRest(e, d) == Failed(e) = Failed(d) /\ Logs(e) = Logs(d)

LEMMA SpendRest ==
  ASSUME NEW d \in Databases, NEW outs, NEW inpoint
  PROVE  SameRest(Spend(d, outs, inpoint), d) /\ SameRest(Unspend(d, outs), d)
BY DEF Databases, Spend, Unspend, SameRest, Failed, Logs

LEMMA StatusRest ==
  ASSUME NEW d \in Databases, NEW m, NEW info, NEW outs, NEW v
  PROVE  /\ SameRest(PushStatus(d, m, info, outs, v), d)
         /\ SameRest(PopStatus(d, m, info, outs), d)
<1> DEFINE x == [d.withdrawal_bundles EXCEPT ![m] =
                    [info |-> info, spend_utxos |-> outs,
                     status |-> Push(@.status, v, height)]]
           y == [d.withdrawal_bundles EXCEPT ![m] =
                    IF Pop(@.status) = << >> THEN NoBundle
                    ELSE [info |-> info, spend_utxos |-> outs,
                          status |-> Pop(@.status)]]
<1>1. /\ PushStatus(d, m, info, outs, v) = [d EXCEPT !.withdrawal_bundles = x]
      /\ PopStatus(d, m, info, outs) = [d EXCEPT !.withdrawal_bundles = y]
  BY DEF PushStatus, PopStatus
<1> HIDE DEF x, y
<1> QED BY <1>1 DEF Databases, SameRest, Failed, Logs

LEMMA FieldRest ==
  ASSUME NEW d \in Databases, NEW p, NEW f
  PROVE  /\ SameRest([d EXCEPT !.pending_withdrawal_bundle = p], d)
         /\ Failed([d EXCEPT !.latest_failed_withdrawal_bundle = f]) = f
         /\ Logs([d EXCEPT !.latest_failed_withdrawal_bundle = f]) = Logs(d)
BY DEF Databases, SameRest, Failed, Logs

\* The entry of a bundle with one more status.
LEMMA PushShape ==
  ASSUME NEW x \in Bundle, NEW y \in Bundle, NEW m \in M6id, NEW v \in Status,
         NEW h \in Nat, Shape(x, m), v # "Pending",
         y.info # "Absent", y.status = Push(x.status, v, h),
         y.info = "Known" <=> x.info = "Known",
         y.info \in {"Known", "Unknown"} => y.spend_utxos = {},
         y.info = "UnknownConfirmed" => v = "Confirmed",
         v = "Submitted" => IF y.info = "Known"
                            THEN Latest(x.status).value = "Pending"
                            ELSE x.info = "Absent",
         v = "SubmittedUnexpected" =>
             /\ x.info # "Absent"
             /\ Latest(x.status).value \in {"Failed", "Dropped"},
         v \in {"Confirmed", "Failed"} =>
             /\ x.info # "Absent"
             /\ Latest(x.status).value \in {"Submitted", "SubmittedUnexpected"}
  PROVE  Shape(y, m) /\ Latest(y.status).value = v /\ y.status # << >>
<1> DEFINE s == x.status
           t == y.status
           n == Len(s)
<1>1. /\ s \in RollBackOf(Status)
      /\ x.info \in {"Absent", "Known", "Unknown", "UnknownConfirmed"}
      /\ y.info \in {"Absent", "Known", "Unknown", "UnknownConfirmed"}
  BY DEF Bundle
<1>2. s \in Seq(HeightStamped(Status)) /\ n \in Nat /\ (s = << >> <=> n = 0)
  BY <1>1, EmptySeq, LenProperties DEF RollBackOf
<1>3. [value |-> v, height |-> h] \in HeightStamped(Status) BY DEF HeightStamped
<1>4. /\ Len(t) = n + 1 /\ \A i \in 1..n : t[i] = s[i]
      /\ t[n + 1] = [value |-> v, height |-> h]
  BY <1>2, <1>3, AppendProperties DEF Push
<1>5. t \in Seq(HeightStamped(Status)) /\ t # << >>
  BY <1>2, <1>3, AppendProperties DEF Push
<1>6. Latest(s) = s[n] /\ Latest(t) = t[n + 1] BY <1>4 DEF Latest
<1>7. Latest(t).value = v BY <1>4, <1>6
<1>8. ASSUME NEW i \in 1..Len(t) PROVE Follows(y, i)
  <2>1. CASE i \in 1..n
    <3>1. Follows(x, i) /\ t[i] = s[i] BY <2>1, <1>4 DEF Shape
    <3>3. y.info = "Known" <=> x.info = "Known" OBVIOUS
    <3> HIDE DEF s, t, n
    <3>4. i \in Nat /\ i >= 1 /\ (i > 1 => i - 1 \in 1..n) BY <2>1, <1>2
    <3>2. i > 1 => t[i - 1] = s[i - 1] BY <1>4, <3>4
    <3> QED BY <3>1, <3>2, <3>3, <3>4 DEF Follows, s, t
  <2>2. CASE i = n + 1
    <3>1. t[i].value = v BY <2>2, <1>4
    <3>2. n > 0 => i > 1 /\ t[i - 1] = Latest(s) BY <2>2, <1>2, <1>4, <1>6
    <3>3. x.info # "Absent" => n > 0 BY <1>2 DEF Shape
    <3>4. x.info = "Absent" => i = 1 BY <1>2, <2>2 DEF Shape
    <3>5. x.info = "Known" => n > 0 BY <3>3
    <3> HIDE DEF s, t, n
    <3> QED BY <3>1, <3>2, <3>3, <3>4, <3>5 DEF Follows, s, t
  <2> QED BY <1>2, <1>4, <2>1, <2>2
<1>9. y.info = "Known" => y.status[1] = [value |-> "Pending", height |-> m.height]
  <2> SUFFICES ASSUME y.info = "Known"
               PROVE  y.status[1] = [value |-> "Pending", height |-> m.height]
    OBVIOUS
  <2> QED BY <1>2, <1>4 DEF Shape
<1> QED BY <1>1, <1>5, <1>7, <1>8, <1>9 DEF Shape

\* The entry of a bundle with one status less.
LEMMA PopShape ==
  ASSUME NEW x \in Bundle, NEW y \in Bundle, NEW m \in M6id, Shape(x, m),
         x.info # "Absent",
         IF Pop(x.status) = << >> THEN y = NoBundle
         ELSE /\ y.info = IF x.info = "Known" THEN "Known" ELSE "Unknown"
              /\ y.spend_utxos = {} /\ y.status = Pop(x.status)
  PROVE  Shape(y, m) /\ y.status = Pop(x.status)
<1> DEFINE s == x.status
           t == Pop(s)
           n == Len(s)
<1>1. /\ s \in RollBackOf(Status)
      /\ x.info \in {"Absent", "Known", "Unknown", "UnknownConfirmed"} /\ s # << >>
  BY DEF Bundle, Shape
<1>2. s \in Seq(HeightStamped(Status)) /\ n \in Nat /\ n > 0
  BY <1>1, EmptySeq, LenProperties DEF RollBackOf
<1>3. /\ t \in Seq(HeightStamped(Status)) /\ Len(t) = n - 1
      /\ \A i \in 1..(n - 1) : t[i] = s[i]
  BY <1>1, <1>2, PopType DEF RollBackOf
<1>4. CASE t = << >> BY <1>4 DEF Shape, NoBundle
<1>5. CASE t # << >>
  <2>1. n > 1 BY <1>2, <1>3, <1>5, EmptySeq
  <2>2. /\ y.info = IF x.info = "Known" THEN "Known" ELSE "Unknown"
        /\ y.spend_utxos = {} /\ y.status = t
    BY <1>5
  <2>3. ASSUME NEW i \in 1..Len(t) PROVE Follows(y, i)
    <3>1. i \in 1..n /\ i \in 1..(n - 1) BY <1>2, <1>3
    <3>2. Follows(x, i) /\ t[i] = s[i] BY <1>3, <3>1 DEF Shape
    <3>3. i > 1 => t[i - 1] = s[i - 1] BY <1>2, <1>3, <3>1
    <3>4. y.info = "Known" <=> x.info = "Known" BY <2>2
    <3>5. i \in Nat /\ i >= 1 BY <3>1, <1>2
    <3> HIDE DEF s, t, n
    <3> QED BY <2>2, <3>2, <3>3, <3>4, <3>5 DEF Follows, s
  <2>4. t[1] = s[1] BY <1>2, <1>3, <2>1
  <2>5. y.status = Pop(x.status) BY <2>2
  <2> HIDE DEF t
  <2> QED BY <1>1, <1>5, <2>2, <2>3, <2>4, <2>5 DEF Shape
<1> QED BY <1>4, <1>5

\* Outputs A of the utxos become stxos of the bundle m, stxos B of it utxos.
Moved(d, e, m, A, B) ==
    /\ e \in Databases /\ e.utxos = (d.utxos \ A) \cup B
    /\ \A o \in Outpoint : e.stxos[o] = IF o \in A THEN m
                                        ELSE IF o \in B THEN Unspent ELSE d.stxos[o]
    /\ \A n \in M6id : n # m => Entry(e, n) = Entry(d, n)
    /\ Logs(e) = Logs(d)

LEMMA MovedOnly ==
  ASSUME NEW d \in Databases, NEW e, NEW m \in M6id,
         NEW A \in SUBSET d.utxos, NEW B \in SUBSET Outpoint,
         \A o \in B : d.stxos[o] = m, NotBoth(d), Held(d),
         Moved(d, e, m, A, B), Shape(Entry(e, m), m),
         HeldBy(Entry(e, m), m) = (HeldBy(Entry(d, m), m) \cup A) \ B
  PROVE  OnlyMoves(d, e, m)
<1>1. /\ e \in Databases /\ e.utxos = (d.utxos \ A) \cup B
      /\ \A o \in Outpoint : e.stxos[o] = IF o \in A THEN m
                                          ELSE IF o \in B THEN Unspent ELSE d.stxos[o]
  BY DEF Moved
<1>3. m # Unspent /\ m # Regular BY ConstantsAssumption
<1>4. \A o \in A : d.stxos[o] = Unspent /\ o \notin B BY <1>3 DEF NotBoth
<1>8. ASSUME NEW o \in Outpoint
      PROVE  e.stxos[o] = m <=> o \in HeldBy(Entry(e, m), m)
  BY <1>1, <1>3, <1>4 DEF Held
<1> QED BY <1>1, <1>3, <1>4, <1>8 DEF OnlyMoves, Moved, Outputs, NotBoth, Databases

\* The databases have entries of the right shape, and the funds to match.
Ready(d) == Shapes(d) /\ Held(d) /\ NotBoth(d) /\ PendingGood(d)

\* A handler of connect that sets the status v of the bundle m at height h.
Pushes(d, e, m, v, h) ==
    /\ OnlyMoves(d, e, m) /\ Info(d, m) # "UnknownConfirmed" /\ Info(e, m) # "Absent"
    /\ Info(e, m) = "Known" <=> Info(d, m) = "Known"
    /\ Hist(e, m) = Push(Hist(d, m), v, h)
    /\ IF Size(d, m) > 0 /\ Last(d, m) = "Pending"
       THEN Pend(d) = {m} /\ Pend(e) = {}
       ELSE m \notin Pend(d) /\ Pend(e) = Pend(d)
    /\ Failed(e) = IF /\ v = "Failed" /\ Info(d, m) = "Known"
                      /\ Last(d, m) = "Submitted"
                   THEN Push(Failed(d), m, h) ELSE Failed(d)

\* The diff of an open transaction leads to its utxos.
Diff(d, t) ==
    /\ d.utxos = ApplyDiff(d.utreexo_accumulator, t)
    /\ t.removed \subseteq d.utreexo_accumulator
    /\ t.inserted \cap d.utreexo_accumulator = {}

LEMMA DiffRemove ==
  ASSUME NEW d, NEW e, NEW t \in Transaction, NEW A \in SUBSET d.utxos,
         e.utxos = d.utxos \ A, Logs(e) = Logs(d), Diff(d, t)
  PROVE  Diff(e, Erase(t, A))
<1> QED BY DEF Diff, ApplyDiff, Logs, Erase, Transaction

LEMMA DiffInsert ==
  ASSUME NEW d, NEW e, NEW t \in Transaction, NEW B, B \cap d.utxos = {},
         e.utxos = d.utxos \cup B, Logs(e) = Logs(d), Diff(d, t)
  PROVE  Diff(e, Insert(t, B))
<1> QED BY DEF Diff, ApplyDiff, Logs, Insert, Transaction

LEMMA DiffSame ==
  ASSUME NEW d, NEW e, NEW t, e.utxos = d.utxos, Logs(e) = Logs(d), Diff(d, t)
  PROVE  Diff(e, t)
BY DEF Diff, Logs

LEMMA DiffApplied ==
  ASSUME NEW b, NEW kind, NEW what, NEW d, NEW t \in Transaction,
         Applied(b, kind, what, d, t), Diff(d, t)
  PROVE  Diff(db', txn')
<1> QED BY DEF Diff, ApplyDiff, Applied, Transaction

-----------------------------------------------------------------------------
(* What each handler of connect_event does to the history of a bundle *)

\* A handler's result, from what it does to the entry of its bundle.
LEMMA PushesFrom ==
  ASSUME NEW d \in Databases, NEW e, NEW m \in M6id, NEW v \in Status,
         height \in Nat, Ready(d),
         NEW info \in {"Known", "Unknown", "UnknownConfirmed"}, NEW outs,
         Entry(e, m) = Pushed(d, m, info, outs, v),
         NEW A \in SUBSET d.utxos, NEW B \in SUBSET Outpoint,
         \A o \in B : d.stxos[o] = m, Moved(d, e, m, A, B),
         v # "Pending", Info(d, m) # "UnknownConfirmed",
         info = "Known" <=> Info(d, m) = "Known",
         info \in {"Known", "Unknown"} => outs = {},
         info = "UnknownConfirmed" => v = "Confirmed",
         v = "Submitted" => IF info = "Known" THEN Last(d, m) = "Pending"
                            ELSE Info(d, m) = "Absent",
         v = "SubmittedUnexpected" =>
             Info(d, m) # "Absent" /\ Last(d, m) \in {"Failed", "Dropped"},
         v \in {"Confirmed", "Failed"} =>
             /\ Info(d, m) # "Absent"
             /\ Last(d, m) \in {"Submitted", "SubmittedUnexpected"},
         HeldBy(Entry(e, m), m) = (HeldBy(Entry(d, m), m) \cup A) \ B,
         IF Info(d, m) = "Known" /\ Last(d, m) = "Pending"
         THEN Pend(d) = {m} /\ Pend(e) = {}
         ELSE Pend(e) = Pend(d),
         Failed(e) = IF /\ v = "Failed" /\ Info(d, m) = "Known"
                        /\ Last(d, m) = "Submitted"
                     THEN Push(Failed(d), m, height) ELSE Failed(d)
  PROVE  Pushes(d, e, m, v, height)
<1> DEFINE x == Entry(d, m)
           y == Entry(e, m)
<1>2. x \in Bundle /\ y \in Bundle /\ Shape(x, m)
  BY BundleType DEF Entry, Ready, Shapes, Moved
<1>3. y.info = info /\ y.spend_utxos = outs /\ y.status = Push(x.status, v, height)
  BY DEF Pushed, Entry
<1>4. Latest(x.status).value = Last(d, m) /\ x.info = Info(d, m) BY DEF Last, Info
<1>5. Shape(y, m)
  <2> HIDE DEF x, y
  <2> QED BY <1>2, <1>3, <1>4, PushShape
<1>6. NotBoth(d) /\ Held(d) /\ PendingGood(d) /\ Shapes(d) BY DEF Ready
<1>7. OnlyMoves(d, e, m) BY <1>5, <1>6, MovedOnly
<1>8. Info(d, m) = "Absent" <=> Size(d, m) = 0 BY <1>2, HistType DEF Shape, Info, Hist
<1>9. ASSUME Size(d, m) > 0, Last(d, m) = "Pending" PROVE Info(d, m) = "Known"
  BY <1>2, <1>9, HistType DEF Follows, Hist, Info, Shape, Size
<1>10. ~(Size(d, m) > 0 /\ Last(d, m) = "Pending") => m \notin Pend(d)
  BY <1>6, <1>8, HistType DEF PendingGood, Pend, Info
<1>11. Info(d, m) = "Known" => Size(d, m) > 0 BY <1>8, HistType
<1>12. Hist(e, m) = Push(Hist(d, m), v, height) /\ Info(e, m) = info
  BY <1>3 DEF Hist, Info
<1> HIDE DEF x, y
<1> QED BY <1>7, <1>9, <1>10, <1>11, <1>12 DEF Pushes

\* What a step of connect that handled an event of this kind about m leaves.
Handled(kind, m, v) ==
    /\ Pushes(db, db', m, v, height) /\ Matches(v, kind)
    /\ Diff(db, txn) => Diff(db', txn')

LEMMA SubmitPendingPushes ==
  ASSUME TInv, txn.phase = "connect", NEW b \in Nat, NEW m \in M6id, Ready(db),
         SubmitPending(b, m)
  PROVE  Handled("Submitted", m, "Submitted")
<1>1. height \in Nat BY HeightType
<1> DEFINE s == Spend(db, m.spend, m)
           p == PushStatus(s, m, "Known", {}, "Submitted")
           e == [p EXCEPT !.pending_withdrawal_bundle = {}]
           t == Erase(txn, m.spend)
<1>2. /\ t \in Transaction /\ txn \in Transaction /\ db \in Databases
      /\ m.spend \in SUBSET Outpoint
  BY Typed
<1>3. /\ Applied(b, "Submitted", m, e, t)
      /\ Pend(db) = {m} /\ Info(db, m) = "Known" /\ m.spend \subseteq db.utxos
      /\ Last(db, m) = "Pending"
  BY DEF SubmitPending, Spendable, IsPending, Pend, Info, Entry, bundle, LatestStatus,
     Last
<1>4. /\ e \in Databases /\ SpendOf(s, db, m.spend, m)
      /\ EntryOf(p, s, m, Pushed(s, m, "Known", {}, "Submitted")) /\ PendingOf(e, p, {})
  BY <1>1, <1>2, SubmittedDb
<1>5. s \in Databases /\ p \in Databases
  BY <1>1, <1>2, PushStatusType, SpendIsOutpoints, SpendType DEF Status
<1>6. SameRest(e, db)
  <2>3. SameRest(e, p) BY <1>5, FieldRest
  <2> QED BY <1>2, <1>5, <2>3, SpendRest, StatusRest DEF SameRest
<1> HIDE DEF s, p, e, t
<1>7. /\ e.utxos = db.utxos \ m.spend
      /\ \A o \in Outpoint : e.stxos[o] = IF o \in m.spend THEN m ELSE db.stxos[o]
      /\ Pend(e) = {} /\ Entry(e, m) = Pushed(db, m, "Known", {}, "Submitted")
      /\ \A n \in M6id : n # m => Entry(e, n) = Entry(db, n)
  BY <1>4 DEF SpendOf, EntryOf, PendingOf, Pushed, Entry, Pend
<1>9. HeldBy(Entry(db, m), m) = {} /\ HeldBy(Entry(e, m), m) = m.spend
  <2>2. Entry(e, m).info = "Known" /\ Last(e, m) = "Submitted"
    BY <1>1, <1>2, <1>4, <1>7, PushedGood DEF Entry, Status
  <2> QED BY <1>3, <2>2 DEF HeldBy, Last, Info
<1>10. Pushes(db, e, m, "Submitted", height)
  <2>1. "Submitted" \in Status /\ {} \in SUBSET Outpoint BY DEF Status
  <2>2. Failed(e) = Failed(db) BY <1>6 DEF SameRest
  <2> DEFINE A == m.spend
  <2>3. A \in SUBSET db.utxos /\ Moved(db, e, m, A, {})
        /\ HeldBy(Entry(e, m), m) = (HeldBy(Entry(db, m), m) \cup A) \ {}
    BY <1>3, <1>4, <1>6, <1>7, <1>9 DEF Moved, SameRest
  <2> HIDE DEF A
  <2> QED BY <1>1, <1>2, <1>3, <1>7, <2>1, <2>2, <2>3, PushesFrom
<1>11. ASSUME Diff(db, txn) PROVE Diff(db', txn')
  BY <1>2, <1>3, <1>6, <1>7, <1>11, DiffApplied, DiffRemove DEF SameRest, t
<1> QED BY <1>3, <1>10, <1>11 DEF Handled, Matches, Applied

\* A handler that only sets a status.
LEMMA PushOnly ==
  ASSUME TInv, txn.phase = "connect", NEW b \in Nat, NEW m \in M6id, Ready(db),
         NEW kind, NEW info \in {"Known", "Unknown"}, NEW v \in Status, NEW e,
         e = PushStatus(db, m, info, {}, v), Applied(b, kind, m, e, txn),
         v # "Pending", Matches(v, kind),
         info = "Known" <=> Info(db, m) = "Known",
         Info(db, m) # "UnknownConfirmed",
         Info(db, m) = "Known" => Last(db, m) # "Pending",
         v = "Submitted" => info # "Known" /\ Info(db, m) = "Absent",
         v = "SubmittedUnexpected" =>
             Info(db, m) # "Absent" /\ Last(db, m) \in {"Failed", "Dropped"},
         v \in {"Confirmed", "Failed"} =>
             /\ Info(db, m) # "Absent"
             /\ Last(db, m) \in {"Submitted", "SubmittedUnexpected"},
         info = "Known" /\ v \in {"Confirmed", "Failed"} =>
             v = "Confirmed" <=> Last(db, m) = "Submitted"
  PROVE  Handled(kind, m, v)
<1>1. height \in Nat /\ db \in Databases /\ txn \in Transaction BY HeightType, Typed
<1>2. /\ {} \in SUBSET Outpoint /\ info \in {"Known", "Unknown", "UnknownConfirmed"}
      /\ info \in {"Absent", "Known", "Unknown", "UnknownConfirmed"}
  OBVIOUS
<1>3. e \in Databases /\ EntryOf(e, db, m, Pushed(db, m, info, {}, v))
  BY <1>1, <1>2, PushStatusType
<1>4. SameRest(e, db) BY <1>1, StatusRest
<1>5. /\ e.utxos = db.utxos /\ e.stxos = db.stxos /\ Pend(e) = Pend(db)
      /\ Entry(e, m) = Pushed(db, m, info, {}, v)
      /\ \A n \in M6id : n # m => Entry(e, n) = Entry(db, n)
  BY <1>3 DEF EntryOf, Pend, Entry
<1>6. Moved(db, e, m, {}, {}) BY <1>3, <1>4, <1>5 DEF Moved, SameRest
<1>7. Entry(e, m).info = info /\ Last(e, m) = v
  BY <1>1, <1>2, <1>3, <1>5, PushedGood DEF Entry
<1>8. HeldBy(Entry(e, m), m) = HeldBy(Entry(db, m), m)
  <2>1. CASE info = "Unknown" BY <1>1, <1>7, <2>1, HistType DEF HeldBy, Info
  <2>2. CASE info = "Known" BY <1>7, <2>2 DEF HeldBy, Last, Matches, Info
  <2> QED BY <2>1, <2>2
<1>11. HeldBy(Entry(e, m), m) = (HeldBy(Entry(db, m), m) \cup {}) \ {} BY <1>8
<1>12. Pushes(db, e, m, v, height)
  BY <1>1, <1>2, <1>4, <1>5, <1>6, <1>11, PushesFrom DEF SameRest
<1>13. ASSUME Diff(db, txn) PROVE Diff(db', txn')
  BY <1>1, <1>4, <1>5, <1>13, DiffApplied, DiffSame DEF SameRest
<1> QED BY <1>12, <1>13 DEF Handled, Applied

LEMMA SubmitUnexpectedPushes ==
  ASSUME TInv, txn.phase = "connect", NEW b \in Nat, NEW m \in M6id, Ready(db),
         SubmitUnexpected(b, m)
  PROVE  Handled("Submitted", m, "SubmittedUnexpected")
<1>1. /\ Info(db, m) \in {"Known", "Unknown"} /\ Last(db, m) \in {"Failed", "Dropped"}
      /\ bundle(m) = Entry(db, m) /\ bundle(m).info = Info(db, m)
  BY DEF SubmitUnexpected, Resubmittable, Info, Entry, bundle, Last, LatestStatus
<1> DEFINE info == Info(db, m)
           e == PushStatus(db, m, info, {}, "SubmittedUnexpected")
<1>3. Applied(b, "Submitted", m, e, txn)
  BY <1>1 DEF SubmitUnexpected, Ready, Shapes, Shape, Info
<1>4. "SubmittedUnexpected" \in Status
      /\ Matches("SubmittedUnexpected", "Submitted") /\ info \in {"Known", "Unknown"}
  BY <1>1 DEF Status, Matches
<1> HIDE DEF e
<1> QED BY <1>1, <1>3, <1>4, PushOnly DEF e

LEMMA SubmitUnknownPushes ==
  ASSUME TInv, txn.phase = "connect", NEW b \in Nat, NEW m \in M6id, Ready(db),
         Reported("Submitted", m), SubmitUnknown(b, m)
  PROVE  Handled("Submitted", m, "Submitted")
<1>1. Info(db, m) = "Absent" BY DEF SubmitUnknown, Info, Entry, bundle
<1> DEFINE e == PushStatus(db, m, "Unknown", {}, "Submitted")
<1>3. Applied(b, "Submitted", m, e, txn) BY DEF SubmitUnknown
<1>4. "Submitted" \in Status /\ Matches("Submitted", "Submitted") BY DEF Status, Matches
<1> HIDE DEF e
<1> QED BY <1>1, <1>3, <1>4, PushOnly DEF e

LEMMA ConfirmPushes ==
  ASSUME TInv, txn.phase = "connect", NEW b \in Nat, NEW m \in M6id, Ready(db),
         Confirm(b, m)
  PROVE  Handled("Confirmed", m, "Confirmed")
<1>1. height \in Nat BY HeightType
<1> DEFINE A == ConfirmSpends(m)
           known == Info(db, m) = "Known"
           info == IF known THEN "Known" ELSE "UnknownConfirmed"
           recorded == IF known THEN {} ELSE db.utxos
           s == Spend(db, A, m)
           e == PushStatus(s, m, info, recorded, "Confirmed")
           t == Erase(txn, A)
<1>2. txn \in Transaction /\ db \in Databases /\ db.utxos \in SUBSET Outpoint BY Typed
<1>3. /\ Applied(b, "Confirmed", m, e, t) /\ A \in SUBSET db.utxos
      /\ Info(db, m) # "Absent" /\ Info(db, m) # "UnknownConfirmed"
      /\ Last(db, m) \in {"Submitted", "SubmittedUnexpected"}
  BY DEF Confirm, ConfirmError, Awaiting, LatestStatus, Last, Info, bundle, Entry
<1>4. A = IF known THEN IF Last(db, m) = "Submitted" THEN {} ELSE m.spend
          ELSE db.utxos
  <2> QED
    BY <1>2, <1>3, HistType DEF ConfirmSpends, LatestStatus, Last, Info, bundle, Entry
<1>5. /\ info \in {"Known", "Unknown", "UnknownConfirmed"}
      /\ info \in {"Absent", "Known", "Unknown", "UnknownConfirmed"}
      /\ recorded \in SUBSET Outpoint /\ A \in SUBSET Outpoint /\ "Confirmed" \in Status
  BY <1>2, <1>3 DEF Status
<1>6. /\ info = "Known" <=> known
      /\ info \in {"Known", "Unknown"} => recorded = {}
      /\ info # "Known" => info = "UnknownConfirmed" /\ recorded = db.utxos
  OBVIOUS
<1> HIDE DEF A, known, info, recorded
<1>7. /\ e \in Databases /\ SpendOf(s, db, A, m)
      /\ EntryOf(e, s, m, Pushed(s, m, info, recorded, "Confirmed"))
  BY <1>1, <1>2, <1>5, ConfirmedDb
<1>8. SameRest(e, db)
  BY <1>2, <1>5, SpendRest, StatusRest, SpendIsOutpoints, SpendType DEF SameRest
<1> HIDE DEF s, e, t
<1>9. /\ e.utxos = db.utxos \ A
      /\ \A o \in Outpoint : e.stxos[o] = IF o \in A THEN m ELSE db.stxos[o]
      /\ Pend(e) = Pend(db) /\ Entry(e, m) = Pushed(db, m, info, recorded, "Confirmed")
      /\ \A n \in M6id : n # m => Entry(e, n) = Entry(db, n)
  BY <1>7 DEF SpendOf, EntryOf, Pushed, Entry, Pend
<1>10. Moved(db, e, m, A, {}) BY <1>7, <1>8, <1>9 DEF Moved, SameRest
<1>11. Entry(e, m).info = info /\ Last(e, m) = "Confirmed"
       /\ Entry(e, m).spend_utxos = recorded
  BY <1>1, <1>2, <1>5, <1>7, <1>9, PushedGood DEF Entry
<1>12. HeldBy(Entry(e, m), m) = (HeldBy(Entry(db, m), m) \cup A) \ {}
  <2>1. CASE known BY <1>3, <1>4, <1>6, <1>11, <2>1 DEF HeldBy, Last, Info, known
  <2>2. CASE ~known BY <1>3, <1>4, <1>6, <1>11, <2>2 DEF HeldBy, Info, known
  <2> QED BY <2>1, <2>2
<1>13. Failed(e) = Failed(db) BY <1>8 DEF SameRest
<1>14. Pushes(db, e, m, "Confirmed", height)
  BY <1>1, <1>2, <1>3, <1>5, <1>6, <1>9, <1>10, <1>12, <1>13, PushesFrom DEF known
<1>15. ASSUME Diff(db, txn) PROVE Diff(db', txn')
  <2>2. t \in Transaction BY <1>2, <1>5, DiffType DEF t
  <2> QED
    BY <1>2, <1>3, <1>8, <1>9, <1>15, <2>2, DiffApplied, DiffRemove DEF SameRest, t
<1> QED BY <1>3, <1>14, <1>15 DEF Handled, Matches, Applied

LEMMA FailPushes ==
  ASSUME TInv, txn.phase = "connect", NEW b \in Nat, NEW m \in M6id, Ready(db),
         Fail(b, m)
  PROVE  Handled("Failed", m, "Failed")
<1>1. height \in Nat BY HeightType
<1> DEFINE info == bundle(m).info
           s == Unspend(db, m.spend)
           p == PushStatus(s, m, info, {}, "Failed")
           f == Push(p.latest_failed_withdrawal_bundle, m, height)
           e == [p EXCEPT !.latest_failed_withdrawal_bundle = f]
           w == PushStatus(db, m, info, {}, "Failed")
           t == Insert(txn, m.spend)
<1>2. /\ txn \in Transaction /\ db \in Databases /\ db.utxos \in SUBSET Outpoint
      /\ t \in Transaction /\ m.spend \in SUBSET Outpoint
      /\ info \in {"Absent", "Known", "Unknown", "UnknownConfirmed"}
  BY Typed
<1>3. /\ Info(db, m) = info /\ info # "Absent"
      /\ Last(db, m) \in {"Submitted", "SubmittedUnexpected"}
      /\ SpentBySubmission(m) <=> info = "Known" /\ Last(db, m) = "Submitted"
  BY DEF Fail, SpentBySubmission, Awaiting, LatestStatus, Last, Info, bundle, Entry
<1>4. info \in {"Known", "Unknown"} /\ bundle(m).spend_utxos = {}
  BY <1>2, <1>3 DEF Shape, Info, Last, Ready, Shapes, bundle, Entry
<1>5. IF SpentBySubmission(m) THEN Applied(b, "Failed", m, e, t)
      ELSE Applied(b, "Failed", m, w, txn)
  BY <1>4 DEF Fail
<1>6. "Failed" \in Status /\ Matches("Failed", "Failed") BY DEF Status, Matches
<1>7. CASE ~SpentBySubmission(m)
  <2> HIDE DEF w, info
  <2> QED BY <1>3, <1>4, <1>5, <1>6, <1>7, PushOnly DEF w
<1>8. CASE SpentBySubmission(m)
  <2> DEFINE none == {}
  <2>1. none \in SUBSET Outpoint /\ info = "Known" /\ none = {} BY <1>3, <1>8
  <2>19. FailsWith(db, m, info, none, s, p, f, e) BY DEF FailsWith
  <2>20. /\ s = Unspend(db, m.spend) /\ p = PushStatus(s, m, info, none, "Failed")
         /\ f = Push(p.latest_failed_withdrawal_bundle, m, height)
         /\ e = [p EXCEPT !.latest_failed_withdrawal_bundle = f]
    OBVIOUS
  <2> HIDE DEF info, none, s, p, f, e
  <2>2. /\ e \in Databases /\ UnspendOf(s, db, m.spend)
        /\ EntryOf(p, s, m, Pushed(s, m, info, none, "Failed")) /\ SameFunds(e, p)
    <3>1. /\ db \in Databases /\ none \in SUBSET Outpoint
          /\ info \in {"Absent", "Known", "Unknown", "UnknownConfirmed"}
      BY <1>2, <2>1
    <3> QED BY ONLY m \in M6id, <1>1, <2>19, <3>1, FailedDb
  <2>3. Failed(e) = Push(Failed(db), m, height) /\ Logs(e) = Logs(db)
    <3>1. SameRest(s, db) BY <1>2, <2>20, SpendRest
    <3>2. s \in Databases BY <1>2, <2>20, UnspendType
    <3>3. SameRest(p, s) BY <2>20, <3>2, StatusRest
    <3>4. p \in Databases BY <1>1, <1>2, <1>6, <2>1, <2>20, <3>2, PushStatusType
    <3>6. f = Push(Failed(p), m, height) BY <2>20 DEF Failed
    <3>7. Failed(e) = f /\ Logs(e) = Logs(p) BY <2>20, <3>4, FieldRest
    <3> QED BY <3>1, <3>3, <3>6, <3>7 DEF SameRest
  <2> HIDE DEF t
  <2>4. /\ e.utxos = db.utxos \cup m.spend
        /\ \A o \in Outpoint : e.stxos[o] = IF o \in m.spend THEN Unspent ELSE db.stxos[o]
        /\ Pend(e) = Pend(db) /\ Entry(e, m) = Pushed(db, m, info, {}, "Failed")
        /\ \A n \in M6id : n # m => Entry(e, n) = Entry(db, n)
    BY <2>1, <2>2 DEF UnspendOf, EntryOf, SameFunds, Pushed, Entry, Pend
  <2>6. Entry(e, m).info = info /\ Last(e, m) = "Failed"
    BY <1>1, <1>2, <1>6, <2>1, <2>2, <2>4, PushedGood DEF Entry
  <2>7. HeldBy(Entry(db, m), m) = m.spend /\ HeldBy(Entry(e, m), m) = {}
    BY <1>3, <1>8, <2>1, <2>6 DEF HeldBy, Last, Info
  <2>8. \A o \in m.spend : db.stxos[o] = m BY <1>2, <2>7 DEF Ready, Held
  <2>9. Pushes(db, e, m, "Failed", height)
    <3> DEFINE B == m.spend
    <3>1. /\ B \in SUBSET Outpoint /\ none \in SUBSET db.utxos
          /\ Moved(db, e, m, none, B) /\ \A o \in B : db.stxos[o] = m
          /\ HeldBy(Entry(e, m), m) = (HeldBy(Entry(db, m), m) \cup none) \ B
      BY <1>2, <2>1, <2>2, <2>3, <2>4, <2>7, <2>8 DEF Moved
    <3>2. Info(db, m) = "Known" /\ Last(db, m) = "Submitted" BY <1>3, <1>8
    <3>3. /\ "Known" \in {"Known", "Unknown", "UnknownConfirmed"}
          /\ Entry(e, m) = Pushed(db, m, "Known", {}, "Failed")
      BY <2>1, <2>4
    <3> HIDE DEF B
    <3> QED BY <1>1, <1>2, <1>6, <2>3, <2>4, <3>1, <3>2, <3>3, PushesFrom
  <2>10. ASSUME Diff(db, txn) PROVE Diff(db', txn')
    <3>2. Diff(e, t)
      BY <1>2, <2>3, <2>4, <2>8, <2>10, DiffInsert, ConstantsAssumption DEF t, Ready,
         NotBoth
    <3> QED BY <1>2, <1>5, <1>8, <3>2, DiffApplied
  <2> QED BY <1>5, <1>6, <1>8, <2>9, <2>10 DEF Handled, Applied
<1> QED BY <1>7, <1>8

\* An outcome that is reported again.
Again(kind, m) ==
    /\ db' = db /\ kind \in {"Confirmed", "Failed"} /\ Info(db, m) # "Absent"
    /\ Last(db, m) = kind
    /\ Diff(db, txn) => Diff(db', txn')

\* What connect_event does when it handles an event about a bundle.
LEMMA ConnectEventHandled ==
  ASSUME TInv, txn.phase = "connect", NEW b \in NextMainBlocks, NEW m \in M6id,
         Ready(db),
         \/ ConnectSubmitted(b, m)
         \/ ConnectConfirmed(b, m)
         \/ ConnectFailed(b, m)
  PROVE  \/ Aborts
         \/ \E kind \in {"Submitted", "Confirmed", "Failed"}, v \in Status, t \in Transaction :
               /\ Reported(kind, m) /\ Applied(b, kind, m, db', t)
               /\ Handled(kind, m, v) \/ Again(kind, m)
               /\ t.phase = "connect" /\ t.deposit_block = txn.deposit_block
               /\ t.event_block = txn.event_block
<1>1. b \in Nat /\ db \in Databases /\ txn \in Transaction
      /\ {"Submitted", "SubmittedUnexpected", "Confirmed", "Failed"} \subseteq Status
  BY NextMainBlocksType, Typed DEF Status
<1> DEFINE Kinds == {"Submitted", "Confirmed", "Failed"}
           Same(t) == /\ t.phase = "connect" /\ t.deposit_block = txn.deposit_block
                      /\ t.event_block = txn.event_block
           Does(kind, v, t) == /\ Reported(kind, m) /\ Applied(b, kind, m, db', t)
                               /\ Handled(kind, m, v) \/ Again(kind, m)
                               /\ Same(t)
<1>2. txn \in Transaction /\ Same(txn) BY <1>1
<1>3. ASSUME NEW outs \in SUBSET Outpoint
      PROVE  /\ Insert(txn, outs) \in Transaction /\ Same(Insert(txn, outs))
             /\ Erase(txn, outs) \in Transaction /\ Same(Erase(txn, outs))
  BY <1>1, <1>3 DEF Transaction, Insert, Erase
<1>4. m.spend \in SUBSET Outpoint BY SpendIsOutpoints
<1> SUFFICES ASSUME ~Aborts
             PROVE  \E kind \in Kinds, v \in Status, t \in Transaction : Does(kind, v, t)
  OBVIOUS
<1> HIDE DEF Same
<1>5. CASE ConnectSubmitted(b, m)
  <2>1. Reported("Submitted", m) BY <1>5 DEF ConnectSubmitted
  <2>2. CASE SubmitPending(b, m)
    <3> QED
      BY <1>1, <1>3, <1>4, <2>1, <2>2, SubmitPendingPushes DEF SubmitPending, Applied
  <2>3. CASE SubmitUnexpected(b, m)
    <3> QED
      BY <1>1, <1>2, <2>1, <2>3, SubmitUnexpectedPushes DEF SubmitUnexpected, Applied
  <2>4. CASE SubmitUnknown(b, m)
    BY <1>1, <1>2, <2>1, <2>4, SubmitUnknownPushes DEF SubmitUnknown, Applied
  <2>5. CASE SubmitRefused(m) BY <2>5 DEF SubmitRefused, Aborts
  <2> HIDE DEF Does
  <2> QED BY <1>5, <2>2, <2>3, <2>4, <2>5 DEF ConnectSubmitted
<1>6. ASSUME NEW kind \in {"Confirmed", "Failed"}, Applied(b, kind, m, db, txn),
             Reported(kind, m), Info(db, m) # "Absent", Last(db, m) = kind
      PROVE  Does(kind, kind, txn)
  BY <1>1, <1>2, <1>6, DiffApplied DEF Again, Applied
<1>7. CASE ConnectConfirmed(b, m)
  <2>1. Reported("Confirmed", m) BY <1>7 DEF ConnectConfirmed
  <2>2. CASE Confirm(b, m)
    <3> QED
      BY <1>1, <1>3, <2>1, <2>2, ConfirmPushes DEF Confirm, Applied, ConfirmError,
         Databases
  <2>3. CASE /\ bundle(m).info # "Absent" /\ LatestStatus(m) = "Confirmed"
             /\ Applied(b, "Confirmed", m, db, txn)
    <3>2. Does("Confirmed", "Confirmed", txn)
      BY <1>6, <2>1, <2>3 DEF Info, Last, Entry, bundle, LatestStatus
    <3> HIDE DEF Does
    <3> QED BY <1>1, <3>2
  <2> HIDE DEF Does
  <2> QED BY <1>7, <2>2, <2>3 DEF ConnectConfirmed, ConnectOutcomeUnexpected, Aborts
<1>8. CASE ConnectFailed(b, m)
  <2>1. Reported("Failed", m) BY <1>8 DEF ConnectFailed
  <2>2. CASE Fail(b, m)
    BY <1>1, <1>2, <1>3, <1>4, <2>1, <2>2, FailPushes DEF Fail, Applied
  <2>3. CASE /\ bundle(m).info # "Absent" /\ LatestStatus(m) = "Failed"
             /\ Applied(b, "Failed", m, db, txn)
    <3>2. Does("Failed", "Failed", txn)
      BY <1>6, <2>1, <2>3 DEF Info, Last, Entry, bundle, LatestStatus
    <3> HIDE DEF Does
    <3> QED BY <1>1, <3>2
  <2> HIDE DEF Does
  <2> QED BY <1>8, <2>2, <2>3 DEF ConnectFailed, ConnectOutcomeUnexpected, Aborts
<1> HIDE DEF Does
<1> QED BY <1>5, <1>7, <1>8

-----------------------------------------------------------------------------
(* What each handler of disconnect_event does to it *)

\* The entry of m without its latest status.
Shorter(d, m) ==
    IF Pop(Hist(d, m)) = << >> THEN NoBundle
    ELSE [info |-> IF Info(d, m) = "Known" THEN "Known" ELSE "Unknown",
          spend_utxos |-> {}, status |-> Pop(Hist(d, m))]

\* A handler of disconnect that takes back the latest status of the bundle m,
\* which an event of this kind had set at height h.
Pops(d, e, m, kind, h) ==
    /\ OnlyMoves(d, e, m) /\ Size(d, m) > 0 /\ Hist(d, m)[Size(d, m)].height = h
    /\ Matches(Hist(d, m)[Size(d, m)].value, kind) /\ Entry(e, m) = Shorter(d, m)
    /\ Pend(e) = IF /\ Info(d, m) = "Known" /\ Size(d, m) > 1
                    /\ Hist(d, m)[Size(d, m) - 1].value = "Pending"
                 THEN {m} ELSE Pend(d)
    /\ IF Refund(d, m, Size(d, m))
       THEN /\ Failed(d) # << >> /\ Latest(Failed(d)) = [value |-> m, height |-> h]
            /\ Failed(e) = Pop(Failed(d))
       ELSE Failed(e) = Failed(d)

\* The history of a bundle as the handlers look at it.
LEMMA Looks ==
  ASSUME TInv, NEW m \in M6id, Ready(db), bundle(m).info # "Absent"
  PROVE  /\ db \in Databases /\ bundle(m) = Entry(db, m) /\ bundle(m).info = Info(db, m)
         /\ Info(db, m) \in {"Known", "Unknown", "UnknownConfirmed"}
         /\ Shape(Entry(db, m), m) /\ Before(m) = Pop(Hist(db, m))
         /\ Size(db, m) \in Nat /\ Size(db, m) > 0
         /\ Latest(bundle(m).status) = Hist(db, m)[Size(db, m)]
         /\ LatestStatus(m) = Last(db, m)
         /\ Last(db, m) = Hist(db, m)[Size(db, m)].value
         /\ Before(m) # << >> <=> Size(db, m) > 1
         /\ Before(m) # << >> =>
               Latest(Before(m)) = Hist(db, m)[Size(db, m) - 1]
<1>1. db \in Databases BY DEF TInv, TypeOK
<1>2. /\ bundle(m) = Entry(db, m) /\ bundle(m).info = Info(db, m)
      /\ Before(m) = Pop(Hist(db, m)) /\ LatestStatus(m) = Last(db, m)
      /\ bundle(m).status = Hist(db, m)
  BY DEF bundle, Entry, Info, Hist, Before, LatestStatus, Last
<1>3. Shape(Entry(db, m), m) BY DEF Ready, Shapes
<1>4. Info(db, m) \in {"Known", "Unknown", "UnknownConfirmed"} BY <1>1, <1>2, HistType
<1>5. Hist(db, m) # << >> BY <1>2, <1>3 DEF Shape, Info, Hist
<1>6. Size(db, m) \in Nat /\ Size(db, m) > 0
      /\ Latest(Hist(db, m)) = Hist(db, m)[Size(db, m)]
      /\ Last(db, m) = Hist(db, m)[Size(db, m)].value
  BY <1>1, <1>5, HistType
<1> DEFINE s == Hist(db, m)
<1>7. s \in RollBackOf(Status) /\ s # << >> /\ Size(db, m) = Len(s)
  BY <1>1, <1>5, HistType DEF Size
<1> HIDE DEF s
<1> QED BY <1>1, <1>2, <1>3, <1>4, <1>6, <1>7, PopType DEF s

LEMMA PopsFrom ==
  ASSUME TInv, NEW m \in M6id, Ready(db), bundle(m).info # "Absent",
         NEW e, NEW kind, Matches(Last(db, m), kind),
         Hist(db, m)[Size(db, m)].height = height,
         NEW A \in SUBSET db.utxos, NEW B \in SUBSET Outpoint,
         \A o \in B : db.stxos[o] = m, Moved(db, e, m, A, B),
         Entry(e, m) = Shorter(db, m),
         HeldBy(Entry(e, m), m) = (HeldBy(Entry(db, m), m) \cup A) \ B,
         Pend(e) = IF /\ Info(db, m) = "Known" /\ Size(db, m) > 1
                      /\ Hist(db, m)[Size(db, m) - 1].value = "Pending"
                   THEN {m} ELSE Pend(db),
         IF Refund(db, m, Size(db, m))
         THEN /\ Failed(db) # << >>
              /\ Latest(Failed(db)) = [value |-> m, height |-> height]
              /\ Failed(e) = Pop(Failed(db))
         ELSE Failed(e) = Failed(db)
  PROVE  Pops(db, e, m, kind, height)
<1> DEFINE x == Entry(db, m)
           y == Entry(e, m)
<1>1. e \in Databases /\ db \in Databases BY DEF Moved, TInv, TypeOK
<1>2. x \in Bundle /\ y \in Bundle /\ Shape(x, m) /\ x.info # "Absent"
  BY <1>1, BundleType DEF Entry, Ready, Shapes, bundle
<1>3. IF Pop(x.status) = << >> THEN y = NoBundle
      ELSE /\ y.info = IF x.info = "Known" THEN "Known" ELSE "Unknown"
           /\ y.spend_utxos = {} /\ y.status = Pop(x.status)
  BY DEF Shorter, Hist, Info
<1>4. Shape(y, m)
  <2> HIDE DEF x, y
  <2> QED BY <1>2, <1>3, PopShape
<1> QED BY <1>1, <1>4, Looks, MovedOnly DEF Pops, Ready

\* What a handler of disconnect leaves.
Undoes(kind, m) == Pops(db, db', m, kind, height)

Skips(kind, m) ==
    /\ db' = db /\ kind \in {"Confirmed", "Failed"} /\ Info(db, m) # "Absent"
    /\ Last(db, m) \in {"Submitted", "SubmittedUnexpected"}

LEMMA PopOnly ==
  ASSUME TInv, NEW m \in M6id, Ready(db), bundle(m).info # "Absent",
         NEW kind, Matches(Last(db, m), kind),
         Hist(db, m)[Size(db, m)].height = height,
         Info(db, m) \in {"Known", "Unknown"},
         NEW e, e = PopStatus(db, m, bundle(m).info, bundle(m).spend_utxos),
         Info(db, m) = "Known" =>
             /\ Last(db, m) \notin {"Submitted", "Confirmed"} /\ Before(m) # << >>
             /\ Latest(Before(m)).value \notin {"Pending", "Submitted", "Confirmed"}
  PROVE  Pops(db, e, m, kind, height)
<1> DEFINE info == Info(db, m)
<1>1. /\ db \in Databases /\ bundle(m) = Entry(db, m) /\ bundle(m).info = info
      /\ Shape(Entry(db, m), m)
  BY Looks
<1>3. e = PopStatus(db, m, info, {}) /\ {} \in SUBSET Outpoint
      /\ info \in {"Absent", "Known", "Unknown", "UnknownConfirmed"}
  BY <1>1 DEF Shape, Info
<1> HIDE DEF info
<1>4. e \in Databases /\ EntryOf(e, db, m, Popped(db, m, info, {}))
  BY <1>1, <1>3, PopStatusType
<1>5. SameRest(e, db) BY <1>1, <1>3, StatusRest
<1>6. /\ e.utxos = db.utxos /\ e.stxos = db.stxos /\ Pend(e) = Pend(db)
      /\ Entry(e, m) = Popped(db, m, info, {})
      /\ \A n \in M6id : n # m => Entry(e, n) = Entry(db, n)
  BY <1>4 DEF EntryOf, Pend, Entry
<1>7. Moved(db, e, m, {}, {}) BY <1>4, <1>5, <1>6 DEF Moved, SameRest
<1>8. Entry(e, m) = Shorter(db, m) BY <1>6 DEF Shorter, Popped, Hist, Entry, info
<1>10. HeldBy(Entry(e, m), m) = {}
  <2>1. CASE Before(m) = << >> BY <1>8, <2>1, Looks DEF Shorter, HeldBy, NoBundle
  <2>2. CASE Before(m) # << >> BY <1>8, <2>2, Looks DEF HeldBy, Shorter
  <2> QED BY <2>1, <2>2
<1>14. Failed(e) = Failed(db) BY <1>5 DEF SameRest
<1> QED
  BY <1>6, <1>7, <1>8, <1>10, <1>14, PopsFrom, Looks DEF HeldBy, Info, Last, Refund

LEMMA LastFollows ==
  ASSUME TInv, NEW m \in M6id, Ready(db), bundle(m).info # "Absent"
  PROVE  LET was == Latest(Before(m)).value
         IN  /\ Last(db, m) = "Pending" => Info(db, m) = "Known"
             /\ Last(db, m) = "Submitted" /\ Info(db, m) = "Known" =>
                   Before(m) # << >> /\ was = "Pending"
             /\ Last(db, m) = "SubmittedUnexpected" =>
                   Before(m) # << >> /\ was \in {"Failed", "Dropped"}
             /\ Last(db, m) \in {"Confirmed", "Failed"} =>
                   Before(m) # << >> /\ was \in {"Submitted", "SubmittedUnexpected"}
<1> DEFINE x == Entry(db, m)
           i == Size(db, m)
<1>1. /\ Shape(x, m) /\ i \in Nat /\ i > 0 /\ Last(db, m) = x.status[i].value
      /\ Before(m) # << >> <=> i > 1
      /\ Before(m) # << >> => Latest(Before(m)) = x.status[i - 1]
  BY Looks DEF Hist
<1> QED BY <1>1 DEF Follows, Info, Shape, Size, Hist

LEMMA UndoSubmittedPops ==
  ASSUME TInv, txn.phase = "disconnect", NEW m \in M6id, Ready(db), UndoSubmitted(m)
  PROVE  Undoes("Submitted", m)
<1> DEFINE info == bundle(m).info
           outs == bundle(m).spend_utxos
           s == Unspend(db, m.spend)
           p == PopStatus(s, m, info, outs)
           e == [p EXCEPT !.pending_withdrawal_bundle = {m}]
           w == PopStatus(db, m, info, bundle(m).spend_utxos)
<1>1. /\ bundle(m).info # "Absent"
      /\ StampedNow(m, {"Submitted", "SubmittedUnexpected"})
      /\ IF info = "Known" /\ PreviousIn(m, {"Pending"})
         THEN db' = e ELSE db' = w
  BY DEF UndoSubmitted, Undone
<1>2. /\ Last(db, m) \in {"Submitted", "SubmittedUnexpected"}
      /\ Hist(db, m)[Size(db, m)].height = height
      /\ info = Info(db, m) /\ db \in Databases /\ bundle(m) = Entry(db, m)
      /\ info \in {"Known", "Unknown", "UnknownConfirmed"} /\ Shape(Entry(db, m), m)
  BY <1>1, Looks DEF StampedNow
<1>3. info \in {"Known", "Unknown"} /\ bundle(m).spend_utxos = {}
  BY <1>2 DEF Shape, Info, Last
<1>4. Matches(Last(db, m), "Submitted") BY <1>2 DEF Matches
<1>5. m.spend \in SUBSET Outpoint BY SpendIsOutpoints
<1>6. CASE ~(info = "Known" /\ PreviousIn(m, {"Pending"}))
  <2>1. db' = w BY <1>1, <1>6
  <2>2. Info(db, m) = "Known" =>
               /\ Last(db, m) \notin {"Submitted", "Confirmed"} /\ Before(m) # << >>
               /\ Latest(Before(m)).value \notin {"Pending", "Submitted", "Confirmed"}
    BY <1>1, <1>2, <1>6, LastFollows DEF PreviousIn
  <2> HIDE DEF w, info
  <2> QED BY <1>1, <1>2, <1>3, <1>4, <2>1, <2>2, PopOnly DEF Undoes, w, info
<1>7. CASE info = "Known" /\ PreviousIn(m, {"Pending"})
  <2>1. Before(m) # << >> /\ Latest(Before(m)).value = "Pending" BY <1>7 DEF PreviousIn
  <2>2. Last(db, m) = "Submitted" BY <1>1, <1>2, <2>1, LastFollows
  <2>3. /\ e \in Databases /\ UnspendOf(s, db, m.spend)
        /\ EntryOf(p, s, m, Popped(s, m, info, outs)) /\ PendingOf(e, p, {m})
        /\ SameRest(e, db)
    <3>1. /\ info \in {"Absent", "Known", "Unknown", "UnknownConfirmed"}
          /\ outs \in SUBSET Outpoint
      BY <1>3
    <3> HIDE DEF info, outs
    <3>3. SameRest(s, db) /\ s \in Databases BY <1>2, <1>5, SpendRest, UnspendType
    <3>4. SameRest(p, s) /\ p \in Databases BY <3>1, <3>3, StatusRest, PopStatusType
    <3> QED BY <1>2, <3>1, <3>3, <3>4, UnsubmittedDb, FieldRest DEF SameRest
  <2> HIDE DEF s, p, e, outs
  <2>4. /\ e.utxos = db.utxos \cup m.spend
        /\ \A o \in Outpoint : e.stxos[o] = IF o \in m.spend THEN Unspent ELSE db.stxos[o]
        /\ Pend(e) = {m} /\ Entry(e, m) = Popped(db, m, info, {})
        /\ \A n \in M6id : n # m => Entry(e, n) = Entry(db, n)
    BY <1>3, <2>3 DEF outs, UnspendOf, EntryOf, PendingOf, Popped, Entry, Pend
  <2>5. Moved(db, e, m, {}, m.spend) /\ Failed(e) = Failed(db)
    BY <2>3, <2>4 DEF Moved, SameRest
  <2>6. Entry(e, m) = Shorter(db, m)
    BY <1>2, <1>7, <2>4 DEF Shorter, Popped, Hist, Entry
  <2>8. HeldBy(Entry(e, m), m) = {}
    BY <1>1, <1>2, <1>7, <2>1, <2>6, Looks DEF HeldBy, Shorter
  <2>10. /\ Info(db, m) = "Known" /\ Size(db, m) > 1
         /\ Hist(db, m)[Size(db, m) - 1].value = "Pending"
    BY <1>1, <1>2, <1>7, <2>1, Looks
  <2>11. ~Refund(db, m, Size(db, m)) BY <1>1, <2>2, Looks DEF Refund
  <2> DEFINE B == m.spend
             none == {}
  <2>12. /\ B \in SUBSET Outpoint /\ none \in SUBSET db.utxos
         /\ \A o \in B : db.stxos[o] = m /\ Moved(db, e, m, none, B)
         /\ Moved(db, e, m, none, B)
         /\ HeldBy(Entry(e, m), m) = (HeldBy(Entry(db, m), m) \cup none) \ B
    BY <1>2, <1>5, <1>7, <2>2, <2>5, <2>8 DEF Ready, Held, HeldBy, Info, Last
  <2>13. db' = e BY <1>1, <1>7
  <2> HIDE DEF B, none, info
  <2> QED
    BY <1>1, <1>2, <1>4, <2>4, <2>5, <2>6, <2>10, <2>11, <2>12, <2>13, PopsFrom DEF
       Undoes
<1> QED BY <1>6, <1>7

LEMMA UndoConfirmedPops ==
  ASSUME TInv, txn.phase = "disconnect", NEW m \in M6id, Ready(db),
         bundle(m).info # "Absent", OutcomeToUndo(m, "Confirmed"),
         NEW info, info = IF bundle(m).info = "Known" THEN "Known" ELSE "Unknown",
         NEW e, e = PopStatus(Unspend(db, ConfirmSpent(m)), m, info, {})
  PROVE  Pops(db, e, m, "Confirmed", height)
<1> DEFINE B == ConfirmSpent(m)
           s == Unspend(db, B)
           none == {}
<1>1. /\ Last(db, m) = "Confirmed" /\ Matches(Last(db, m), "Confirmed")
      /\ Hist(db, m)[Size(db, m)].height = height
      /\ bundle(m).info = Info(db, m) /\ db \in Databases /\ bundle(m) = Entry(db, m)
      /\ Info(db, m) \in {"Known", "Unknown", "UnknownConfirmed"}
      /\ Shape(Entry(db, m), m) /\ Before(m) # << >> /\ Before(m) = Pop(Hist(db, m))
      /\ Latest(Before(m)).value \in {"Submitted", "SubmittedUnexpected"}
  BY Looks DEF OutcomeToUndo, StampedNow, PreviousIn, Matches
<1>2. info = IF Info(db, m) = "Known" THEN "Known" ELSE "Unknown" BY <1>1
<1>3. B = IF Info(db, m) = "UnknownConfirmed" THEN Entry(db, m).spend_utxos
          ELSE IF /\ Info(db, m) = "Known"
                  /\ Latest(Before(m)).value = "SubmittedUnexpected"
          THEN m.spend ELSE {}
  BY <1>1 DEF ConfirmSpent, PreviousIn
<1>4. HeldBy(Entry(db, m), m) = IF Info(db, m) = "Known" THEN m.spend
                                ELSE IF Info(db, m) = "UnknownConfirmed"
                                THEN Entry(db, m).spend_utxos ELSE {}
  BY <1>1 DEF HeldBy, Info, Last
<1>5. B \in SUBSET Outpoint BY <1>1, <1>3, HistType, SpendIsOutpoints
<1>6. \A o \in B : db.stxos[o] = m BY <1>3, <1>4, <1>5 DEF Ready, Held
<1> HIDE DEF B, none
<1>7. none = {} /\ none \in SUBSET Outpoint /\ none \in SUBSET db.utxos
      /\ info \in {"Absent", "Known", "Unknown", "UnknownConfirmed"}
      /\ e = PopStatus(s, m, info, none)
  BY <1>2 DEF none, B
<1> HIDE DEF s
<1>8. /\ e \in Databases /\ UnspendOf(s, db, B)
      /\ EntryOf(e, s, m, Popped(s, m, info, none))
  BY <1>1, <1>5, <1>7, UnconfirmedDb DEF s
<1>9. SameRest(e, db)
  <2>1. SameRest(s, db) /\ s \in Databases BY <1>1, <1>5, SpendRest, UnspendType DEF s
  <2> QED BY <1>7, <2>1, StatusRest DEF SameRest
<1>10. /\ e.utxos = db.utxos \cup B
       /\ \A o \in Outpoint : e.stxos[o] = IF o \in B THEN Unspent ELSE db.stxos[o]
       /\ Pend(e) = Pend(db) /\ Entry(e, m) = Popped(db, m, info, none)
       /\ \A n \in M6id : n # m => Entry(e, n) = Entry(db, n)
  BY <1>8 DEF UnspendOf, EntryOf, Popped, Entry, Pend
<1>11. Moved(db, e, m, none, B) /\ Failed(e) = Failed(db)
  BY <1>7, <1>8, <1>9, <1>10 DEF Moved, SameRest
<1>12. Entry(e, m) = Shorter(db, m)
  BY <1>2, <1>7, <1>10 DEF Shorter, Popped, Hist, Entry
<1>13. HeldBy(Entry(e, m), m) = (HeldBy(Entry(db, m), m) \cup none) \ B
  <2>2. HeldBy(Entry(e, m), m) = IF /\ info = "Known"
                                    /\ Latest(Before(m)).value = "Submitted"
                                 THEN m.spend ELSE {}
    BY <1>1, <1>2, <1>12 DEF HeldBy, Shorter
  <2>3. CASE Info(db, m) = "Known" BY <1>1, <1>2, <1>3, <1>4, <1>7, <2>2, <2>3
  <2>4. CASE Info(db, m) # "Known" BY <1>1, <1>2, <1>3, <1>4, <1>7, <2>2, <2>4
  <2> QED BY <2>3, <2>4
<1>14. ~(/\ Info(db, m) = "Known" /\ Size(db, m) > 1
         /\ Hist(db, m)[Size(db, m) - 1].value = "Pending")
  BY <1>1, Looks
<1>15. ~Refund(db, m, Size(db, m)) BY <1>1, Looks DEF Refund
<1> QED BY <1>1, <1>5, <1>6, <1>7, <1>10, <1>11, <1>12, <1>13, <1>14, <1>15, PopsFrom

LEMMA UndoFailedPops ==
  ASSUME TInv, txn.phase = "disconnect", NEW m \in M6id, Ready(db), UndoFailed(m)
  PROVE  Undoes("Failed", m)
<1> DEFINE info == bundle(m).info
           outs == bundle(m).spend_utxos
           s == Spend(db, m.spend, m)
           p == PopStatus(s, m, info, outs)
           e == [p EXCEPT !.latest_failed_withdrawal_bundle = Pop(@)]
           w == PopStatus(db, m, info, outs)
<1>1. /\ bundle(m).info # "Absent" /\ OutcomeToUndo(m, "Failed") /\ ~UnfailRefused(m)
      /\ IF info = "Known" /\ PreviousIn(m, {"Submitted"})
         THEN db' = e ELSE db' = w
  BY DEF UndoFailed, Undone
<1>2. /\ Last(db, m) = "Failed" /\ Matches(Last(db, m), "Failed")
      /\ Hist(db, m)[Size(db, m)].height = height
      /\ info = Info(db, m) /\ db \in Databases /\ bundle(m) = Entry(db, m)
      /\ info \in {"Known", "Unknown", "UnknownConfirmed"} /\ Shape(Entry(db, m), m)
      /\ Before(m) # << >> /\ Before(m) = Pop(Hist(db, m))
      /\ Latest(Before(m)).value \in {"Submitted", "SubmittedUnexpected"}
  BY <1>1, Looks DEF OutcomeToUndo, StampedNow, PreviousIn, Matches
<1>3. info \in {"Known", "Unknown"} /\ outs = {} BY <1>2 DEF Shape, Info, Last
<1>5. m.spend \in SUBSET Outpoint BY SpendIsOutpoints
<1>6. CASE ~(info = "Known" /\ PreviousIn(m, {"Submitted"}))
  <2>1. db' = w BY <1>1, <1>6
  <2>2. Info(db, m) = "Known" =>
               /\ Last(db, m) \notin {"Submitted", "Confirmed"} /\ Before(m) # << >>
               /\ Latest(Before(m)).value \notin {"Pending", "Submitted", "Confirmed"}
    BY <1>2, <1>6 DEF PreviousIn
  <2> HIDE DEF w, info, outs
  <2> QED BY <1>1, <1>2, <1>3, <2>1, <2>2, PopOnly DEF Undoes, w, info, outs
<1>7. CASE info = "Known" /\ PreviousIn(m, {"Submitted"})
  <2>1. Before(m) # << >> /\ Latest(Before(m)).value = "Submitted"
    BY <1>7 DEF PreviousIn
  <2>2. /\ m.spend \subseteq db.utxos /\ Failed(db) # << >>
        /\ Latest(Failed(db)) = [value |-> m, height |-> height]
    BY <1>1, <1>7 DEF UnfailRefused, Failed
  <2> DEFINE f == Pop(p.latest_failed_withdrawal_bundle)
  <2>3. /\ e \in Databases /\ SpendOf(s, db, m.spend, m)
        /\ EntryOf(p, s, m, Popped(s, m, info, outs)) /\ SameFunds(e, p)
        /\ Failed(e) = Pop(Failed(db)) /\ Logs(e) = Logs(db)
    <3>1. /\ info \in {"Absent", "Known", "Unknown", "UnknownConfirmed"}
          /\ outs \in SUBSET Outpoint
          /\ e = [p EXCEPT !.latest_failed_withdrawal_bundle = f] /\ f = Pop(Failed(p))
      BY <1>3 DEF Failed
    <3>6. s = Spend(db, m.spend, m) /\ p = PopStatus(s, m, info, outs)
          /\ f = Pop(p.latest_failed_withdrawal_bundle)
      OBVIOUS
    <3> HIDE DEF info, outs, s, p, f, e
    <3>2. /\ e \in Databases /\ SpendOf(s, db, m.spend, m)
          /\ EntryOf(p, s, m, Popped(s, m, info, outs)) /\ SameFunds(e, p)
      <4>1. db \in Databases BY <1>2
      <4> QED BY ONLY m \in M6id, <3>1, <3>6, <4>1, UnfailedDb
    <3>3. SameRest(s, db) /\ s \in Databases BY <1>2, <1>5, <3>6, SpendRest, SpendType
    <3>4. SameRest(p, s) /\ p \in Databases
      BY <3>1, <3>3, <3>6, StatusRest, PopStatusType
    <3>5. Failed(e) = f /\ Logs(e) = Logs(p) BY <3>1, <3>4, FieldRest
    <3> QED BY <3>1, <3>2, <3>3, <3>4, <3>5 DEF SameRest
  <2> HIDE DEF s, p, e, outs, f
  <2>4. /\ e.utxos = db.utxos \ m.spend
        /\ \A o \in Outpoint : e.stxos[o] = IF o \in m.spend THEN m ELSE db.stxos[o]
        /\ Pend(e) = Pend(db) /\ Entry(e, m) = Popped(db, m, info, {})
        /\ \A n \in M6id : n # m => Entry(e, n) = Entry(db, n)
    BY <1>3, <2>3 DEF SpendOf, EntryOf, SameFunds, Popped, Entry, Pend
  <2>6. Entry(e, m) = Shorter(db, m)
    BY <1>2, <1>7, <2>4 DEF Shorter, Popped, Hist, Entry
  <2>8. HeldBy(Entry(e, m), m) = m.spend BY <1>2, <1>7, <2>1, <2>6 DEF HeldBy, Shorter
  <2>10. /\ Info(db, m) = "Known" /\ Size(db, m) > 1
         /\ Hist(db, m)[Size(db, m) - 1].value = "Submitted"
    BY <1>1, <1>2, <1>7, <2>1, Looks
  <2>11. Refund(db, m, Size(db, m)) BY <1>1, <1>2, <2>10, Looks DEF Refund
  <2> DEFINE A == m.spend
             none == {}
  <2>12. /\ A \in SUBSET db.utxos /\ none \in SUBSET Outpoint
         /\ \A o \in none : db.stxos[o] = m
         /\ Moved(db, e, m, A, none)
         /\ HeldBy(Entry(e, m), m) = (HeldBy(Entry(db, m), m) \cup A) \ none
    BY <1>2, <1>7, <2>2, <2>3, <2>4, <2>8 DEF Moved, HeldBy, Info, Last
  <2>13. db' = e BY <1>1, <1>7
  <2> HIDE DEF A, none, info
  <2> QED
    BY <1>1, <1>2, <2>2, <2>3, <2>4, <2>6, <2>10, <2>11, <2>12, <2>13, PopsFrom DEF
       Undoes
<1> QED BY <1>6, <1>7

\* The locals of disconnect that a handler leaves to disconnect_event.
SameLocals(t) ==
    /\ t \in Transaction /\ t.phase = txn.phase /\ t.undo = txn.undo
    /\ t.deposit_block = txn.deposit_block /\ t.event_block = txn.event_block
    /\ t.start_block = txn.start_block

LEMMA DiffLocals ==
  ASSUME TInv, NEW outs \in SUBSET Outpoint
  PROVE  SameLocals(txn) /\ SameLocals(Insert(txn, outs))
         /\ SameLocals(Erase(txn, outs))
BY DEF TInv, TypeOK, SameLocals, Transaction, Insert, Erase

\* What disconnect_event does when it handles an event about a bundle.
LEMMA DisconnectEventUndone ==
  ASSUME TInv, Ready(db),
         DisconnectSubmitted \/ DisconnectConfirmed \/ DisconnectFailed
  PROVE  \/ Aborts
         \/ /\ ToUndo({"Submitted", "Confirmed", "Failed"})
            /\ main[txn.undo].of \in M6id
            /\ \/ Undoes(main[txn.undo].kind, main[txn.undo].of)
               \/ Skips(main[txn.undo].kind, main[txn.undo].of)
            /\ \E t : SameLocals(t) /\ Undone(db', t)
<1> DEFINE m == main[txn.undo].of
           kind == main[txn.undo].kind
<1>1. ASSUME NEW k \in {"Submitted", "Confirmed", "Failed"}, ToUndo({k})
      PROVE  /\ m \in M6id /\ kind = k /\ txn.phase = "disconnect"
             /\ ToUndo({"Submitted", "Confirmed", "Failed"})
  BY <1>1, ToUndoFacts DEF ToUndo
<1>2. SameLocals(txn) BY DiffLocals
<1>3. m \in M6id => m.spend \in SUBSET Outpoint BY SpendIsOutpoints
<1> SUFFICES ASSUME ~Aborts
             PROVE  /\ ToUndo({"Submitted", "Confirmed", "Failed"}) /\ m \in M6id
                    /\ Undoes(kind, m) \/ Skips(kind, m)
                    /\ \E t : SameLocals(t) /\ Undone(db', t)
  OBVIOUS
<1>4. CASE DisconnectSubmitted
  <2>1. /\ m \in M6id /\ kind = "Submitted" /\ txn.phase = "disconnect"
        /\ ToUndo({"Submitted", "Confirmed", "Failed"})
    BY <1>1, <1>4 DEF DisconnectSubmitted
  <2>2. \/ UndoSubmitted(m)
        \/ bundle(m).info = "Absent" /\ IsPending(m)
    BY <1>4 DEF DisconnectSubmitted, Aborts
  <2> HIDE DEF m, kind
  <2> QED
    BY <1>2, <1>3, <2>1, <2>2, DiffLocals, UndoSubmittedPops DEF UndoSubmitted, Undone,
       Ready, PendingGood, IsPending, bundle, Entry
<1>5. CASE DisconnectConfirmed
  <2>1. /\ m \in M6id /\ kind = "Confirmed" /\ txn.phase = "disconnect"
        /\ ToUndo({"Submitted", "Confirmed", "Failed"})
    BY <1>1, <1>5 DEF DisconnectConfirmed
  <2> DEFINE info == IF bundle(m).info = "Known" THEN "Known" ELSE "Unknown"
             e == PopStatus(Unspend(db, ConfirmSpent(m)), m, info, {})
  <2>2. \/ /\ bundle(m).info # "Absent" /\ OutcomeToUndo(m, "Confirmed")
           /\ Undone(e, Insert(txn, ConfirmSpent(m)))
        \/ /\ bundle(m).info # "Absent" /\ Awaiting(m)
           /\ Undone(db, txn)
    BY <1>5 DEF DisconnectConfirmed, Aborts
  <2> HIDE DEF m, kind
  <2>3. CASE /\ bundle(m).info # "Absent" /\ OutcomeToUndo(m, "Confirmed")
             /\ Undone(e, Insert(txn, ConfirmSpent(m)))
    <3>1. Pops(db, e, m, "Confirmed", height)
      <4> HIDE DEF e, info
      <4> QED BY <2>1, <2>3, UndoConfirmedPops DEF e, info
    <3>2. db' = e /\ Undone(db', Insert(txn, ConfirmSpent(m))) BY <2>3 DEF Undone
    <3>3. ConfirmSpent(m) \in SUBSET Outpoint BY <1>3, <2>1, Typed DEF ConfirmSpent
    <3> HIDE DEF e
    <3> QED BY <2>1, <3>1, <3>2, <3>3, DiffLocals DEF Undoes
  <2>4. CASE /\ bundle(m).info # "Absent" /\ Awaiting(m) /\ Undone(db, txn)
    <3> QED
      BY <1>2, <2>1, <2>4 DEF Skips, Awaiting, Info, Last, Entry, bundle, LatestStatus,
         Undone
  <2> QED BY <2>2, <2>3, <2>4
<1>6. CASE DisconnectFailed
  <2>1. /\ m \in M6id /\ kind = "Failed" /\ txn.phase = "disconnect"
        /\ ToUndo({"Submitted", "Confirmed", "Failed"})
    BY <1>1, <1>6 DEF DisconnectFailed
  <2>2. \/ UndoFailed(m)
        \/ /\ bundle(m).info # "Absent" /\ LatestStatus(m) = "Submitted"
           /\ Undone(db, txn)
    BY <1>6 DEF DisconnectFailed, Aborts
  <2> HIDE DEF m, kind
  <2>3. CASE UndoFailed(m)
    BY <1>2, <1>3, <2>1, <2>3, DiffLocals, UndoFailedPops DEF UndoFailed, Undone
  <2>4. CASE /\ bundle(m).info # "Absent" /\ LatestStatus(m) = "Submitted"
             /\ Undone(db, txn)
    <3> QED
      BY <1>2, <2>1, <2>4 DEF Skips, Info, Last, Entry, bundle, LatestStatus, Undone
  <2> QED BY <2>2, <2>3, <2>4
<1> QED BY <1>4, <1>5, <1>6

-----------------------------------------------------------------------------
(* The trace of the events in the histories grows by a push *)

LEMMA SameEntry ==
  ASSUME NEW d, NEW e, NEW m, Entry(e, m) = Entry(d, m)
  PROVE  /\ Hist(e, m) = Hist(d, m) /\ Size(e, m) = Size(d, m)
         /\ Info(e, m) = Info(d, m) /\ Last(e, m) = Last(d, m)
BY DEF Hist, Size, Info, Last

\* Grown depends on the history and on the events up to the last one.
LEMMA GrownMore ==
  ASSUME NEW a \in Databases, NEW d \in Databases, NEW e, NEW m \in M6id,
         NEW lo \in Nat, NEW h, NEW n \in Nat, NEW n2 \in Nat, n =< n2,
         NEW mn, NEW mn2, \A i \in 1..n : mn2[i] = mn[i],
         NEW f \in [Nat -> Nat], Entry(e, m) = Entry(d, m),
         Grown(a, lo, h, d, mn, n, f, m)
  PROVE  Grown(a, lo, h, e, mn2, n2, f, m)
<1>1. Hist(e, m) = Hist(d, m) /\ Size(e, m) = Size(d, m) BY SameEntry
<1>2. Size(a, m) \in Nat /\ Size(d, m) \in Nat BY HistType
<1>3. ASSUME NEW p \in (Size(a, m) + 1)..Size(d, m)
      PROVE  /\ Hist(e, m)[p].height = h /\ lo < f[p] /\ f[p] =< n2 /\ mn2[f[p]].of = m
             /\ Matches(Hist(e, m)[p].value, mn2[f[p]].kind)
             /\ \A q \in (p + 1)..Size(d, m) : f[p] < f[q]
  <2>1. /\ Hist(d, m)[p].height = h /\ lo < f[p] /\ f[p] =< n /\ mn[f[p]].of = m
        /\ Matches(Hist(d, m)[p].value, mn[f[p]].kind)
        /\ \A q \in (p + 1)..Size(d, m) : f[p] < f[q]
    BY DEF Grown
  <2> QED BY <1>1, <1>2, <2>1
<1> QED BY <1>1, <1>3 DEF Grown

\* The length and the elements of a history with one more status.
LEMMA PushedHist ==
  ASSUME NEW d \in Databases, NEW e, NEW m \in M6id, NEW v \in Status,
         NEW h \in Nat, Hist(e, m) = Push(Hist(d, m), v, h)
  PROVE  /\ Size(e, m) = Size(d, m) + 1 /\ Size(d, m) \in Nat
         /\ \A i \in 1..Size(d, m) : Hist(e, m)[i] = Hist(d, m)[i]
         /\ Hist(e, m)[Size(d, m) + 1] = [value |-> v, height |-> h]
<1> DEFINE s == Hist(d, m)
<1>1. s \in Seq(HeightStamped(Status)) /\ Size(d, m) = Len(s) /\ Len(s) \in Nat
  BY HistType DEF Size
<1>2. [value |-> v, height |-> h] \in HeightStamped(Status) BY DEF HeightStamped
<1>3. Size(e, m) = Len(Append(s, [value |-> v, height |-> h])) BY DEF Size, Push
<1>4. Hist(e, m) = Append(s, [value |-> v, height |-> h]) BY DEF Push
<1> HIDE DEF s
<1> QED BY <1>1, <1>2, <1>3, <1>4, AppendProperties DEF s

LEMMA GrownPush ==
  ASSUME NEW a \in Databases, NEW d \in Databases, NEW e, NEW m \in M6id,
         NEW lo \in Nat, NEW h \in Nat, NEW n \in Nat, lo =< n,
         NEW mn, NEW mn2, \A i \in 1..n : mn2[i] = mn[i],
         NEW f \in [Nat -> Nat], NEW v \in Status,
         Grown(a, lo, h, d, mn, n, f, m), Info(d, m) # "UnknownConfirmed",
         Hist(e, m) = Push(Hist(d, m), v, h),
         mn2[n + 1].of = m, Matches(v, mn2[n + 1].kind),
         Size(d, m) > 0 /\ Last(d, m) = "Pending" /\ Entry(d, m) = Entry(a, m) =>
             Pend(a) = {m},
         NEW f2 \in [Nat -> Nat],
         f2 = [f EXCEPT ![Size(d, m) + 1] = n + 1]
  PROVE  Grown(a, lo, h, e, mn2, n + 1, f2, m)
<1>1. /\ Size(e, m) = Size(d, m) + 1 /\ Size(d, m) \in Nat /\ Size(a, m) \in Nat
      /\ \A i \in 1..Size(d, m) : Hist(e, m)[i] = Hist(d, m)[i]
      /\ Hist(e, m)[Size(d, m) + 1] = [value |-> v, height |-> h]
  BY PushedHist, HistType
<1>2. /\ Size(a, m) =< Size(d, m)
      /\ \A i \in 1..Size(a, m) : Hist(d, m)[i] = Hist(a, m)[i]
      /\ Size(a, m) = Size(d, m) => Entry(d, m) = Entry(a, m)
      /\ Size(a, m) < Size(d, m) =>
            /\ Info(a, m) # "UnknownConfirmed"
            /\ Size(a, m) > 0 /\ Last(a, m) = "Pending" => Pend(a) = {m}
      /\ \A p \in (Size(a, m) + 1)..Size(d, m) :
            /\ Hist(d, m)[p].height = h /\ lo < f[p] /\ f[p] =< n /\ mn[f[p]].of = m
            /\ Matches(Hist(d, m)[p].value, mn[f[p]].kind)
            /\ \A q \in (p + 1)..Size(d, m) : f[p] < f[q]
  BY DEF Grown
<1>4. /\ Info(a, m) # "UnknownConfirmed"
      /\ Size(a, m) > 0 /\ Last(a, m) = "Pending" => Pend(a) = {m}
  <2>1. CASE Size(a, m) < Size(d, m) BY <1>2, <2>1
  <2>2. CASE Size(a, m) = Size(d, m) BY <1>2, <2>2, SameEntry
  <2> QED BY <1>1, <1>2, <2>1, <2>2
<1>5. /\ f2[Size(d, m) + 1] = n + 1
      /\ \A p \in 1..Size(d, m) : f2[p] = f[p] /\ f[p] \in Nat
  BY <1>1
<1>6. ASSUME NEW p \in (Size(a, m) + 1)..Size(e, m)
      PROVE  /\ Hist(e, m)[p].height = h /\ lo < f2[p] /\ f2[p] =< n + 1
             /\ mn2[f2[p]].of = m /\ Matches(Hist(e, m)[p].value, mn2[f2[p]].kind)
             /\ \A q \in (p + 1)..Size(e, m) : f2[p] < f2[q]
  <2>1. CASE p = Size(d, m) + 1 BY <1>1, <1>5, <2>1
  <2>2. CASE p # Size(d, m) + 1
    <3>1. p \in (Size(a, m) + 1)..Size(d, m) /\ p \in 1..Size(d, m) BY <1>1, <2>2
    <3>2. f2[p] = f[p] /\ f[p] \in Nat /\ Hist(e, m)[p] = Hist(d, m)[p]
      BY <1>1, <1>5, <3>1
    <3>3. /\ Hist(d, m)[p].height = h /\ lo < f[p] /\ f[p] =< n /\ mn[f[p]].of = m
          /\ Matches(Hist(d, m)[p].value, mn[f[p]].kind)
          /\ \A q \in (p + 1)..Size(d, m) : f[p] < f[q]
      BY <1>2, <3>1
    <3>5. ASSUME NEW q \in (p + 1)..Size(e, m) PROVE f2[p] < f2[q]
      <4>1. CASE q = Size(d, m) + 1 BY <1>5, <3>2, <3>3, <4>1
      <4>2. CASE q # Size(d, m) + 1
        <5>1. q \in (p + 1)..Size(d, m) /\ q \in 1..Size(d, m) BY <1>1, <3>1, <4>2
        <5> QED BY <1>5, <3>2, <3>3, <5>1
      <4> QED BY <4>1, <4>2
    <3> QED BY <3>2, <3>3, <3>5
  <2> QED BY <2>1, <2>2
<1> QED BY <1>1, <1>2, <1>4, <1>6 DEF Grown

\* The refunds that the first k latest failures of d name are in e as well.
Carried(a, d, e, k, F, F2, g) ==
    \A p \in (Len(Failed(a)) + 1)..k :
        \A q \in (Size(a, Failed(d)[p].value) + 1)..Size(d, Failed(d)[p].value) :
            Refund(d, Failed(d)[p].value, q) /\ F[Failed(d)[p].value][q] = g[p] =>
                /\ q =< Size(e, Failed(d)[p].value) /\ Refund(e, Failed(d)[p].value, q)
                /\ F2[Failed(d)[p].value][q] = g[p]

LEMMA FailedPrefix ==
  ASSUME NEW a \in Databases, NEW d \in Databases, NEW e \in Databases,
         NEW lo, NEW h, NEW n, NEW n2, NEW F, NEW F2, NEW g,
         FailedGrown(a, lo, h, d, n, F, g),
         Len(Failed(e)) =< Len(Failed(d)), Len(Failed(a)) =< Len(Failed(e)),
         \A i \in 1..Len(Failed(e)) : Failed(e)[i] = Failed(d)[i],
         \A p \in (Len(Failed(a)) + 1)..Len(Failed(e)) : g[p] =< n2,
         Carried(a, d, e, Len(Failed(e)), F, F2, g)
  PROVE  FailedGrown(a, lo, h, e, n2, F2, g)
<1>1. /\ Len(Failed(a)) \in Nat /\ Len(Failed(d)) \in Nat /\ Len(Failed(e)) \in Nat
      /\ \A i \in 1..Len(Failed(d)) : Failed(d)[i].value \in M6id
  BY FailedType
<1>2. /\ \A i \in 1..Len(Failed(a)) : Failed(d)[i] = Failed(a)[i]
      /\ \A p \in (Len(Failed(a)) + 1)..Len(Failed(d)) :
          /\ Failed(d)[p].height = h /\ lo < g[p] /\ g[p] =< n
          /\ \A q \in (p + 1)..Len(Failed(d)) : g[p] < g[q]
          /\ \E q \in (Size(a, Failed(d)[p].value) + 1)..Size(d, Failed(d)[p].value) :
                /\ Refund(d, Failed(d)[p].value, q) /\ F[Failed(d)[p].value][q] = g[p]
  BY DEF FailedGrown
<1>3. \A i \in 1..Len(Failed(a)) : Failed(e)[i] = Failed(a)[i] BY <1>1, <1>2
<1>4. ASSUME NEW p \in (Len(Failed(a)) + 1)..Len(Failed(e))
      PROVE  /\ Failed(e)[p].height = h /\ lo < g[p] /\ g[p] =< n2
             /\ \A q \in (p + 1)..Len(Failed(e)) : g[p] < g[q]
             /\ \E q \in (Size(a, Failed(e)[p].value) + 1)..Size(e, Failed(e)[p].value) :
                   /\ Refund(e, Failed(e)[p].value, q)
                   /\ F2[Failed(e)[p].value][q] = g[p]
  <2>1. /\ p \in (Len(Failed(a)) + 1)..Len(Failed(d))
        /\ p \in 1..Len(Failed(e)) /\ p \in 1..Len(Failed(d))
    BY <1>1
  <2>2. Failed(e)[p] = Failed(d)[p] BY <2>1
  <2>3. \A q \in (p + 1)..Len(Failed(e)) : g[p] < g[q] BY <1>1, <1>2, <2>1
  <2> DEFINE x == Failed(d)[p].value
  <2>5. PICK q \in (Size(a, x) + 1)..Size(d, x) : Refund(d, x, q) /\ F[x][q] = g[p]
    BY <1>2, <2>1
  <2>6. q =< Size(e, x) /\ Refund(e, x, q) /\ F2[x][q] = g[p] BY <2>5 DEF Carried
  <2>8. q \in (Size(a, x) + 1)..Size(e, x) BY <1>1, <2>1, <2>6, HistType
  <2> HIDE DEF x
  <2> QED BY <1>2, <2>1, <2>2, <2>3, <2>6, <2>8 DEF x
<1> QED BY <1>3, <1>4 DEF FailedGrown

LEMMA BelowNext ==
  \A x, y \in Nat : x =< y => x < y + 1 /\ x =< y + 1
OBVIOUS

LEMMA BelowLast ==
  ASSUME NEW k \in Nat, NEW l, l = k + 1, NEW p \in 1..k, NEW j \in (p + 1)..l,
         j # k + 1
  PROVE  j \in (p + 1)..k /\ j \in 1..k
OBVIOUS

LEMMA FailedPushed ==
  ASSUME NEW a \in Databases, NEW d \in Databases, NEW e \in Databases,
         NEW m \in M6id, NEW lo \in Nat, NEW h \in Nat, NEW n \in Nat, lo =< n,
         NEW F, NEW F2 \in [M6id -> [Nat -> Nat]], NEW g \in [Nat -> Nat],
         FailedGrown(a, lo, h, d, n, F, g), Failed(e) = Push(Failed(d), m, h),
         Carried(a, d, e, Len(Failed(d)), F, F2, g),
         NEW r \in (Size(a, m) + 1)..Size(e, m), Refund(e, m, r), F2[m][r] = n + 1,
         NEW g2 \in [Nat -> Nat], g2[Len(Failed(d)) + 1] = n + 1,
         \A i \in 1..Len(Failed(d)) : g2[i] = g[i]
  PROVE  FailedGrown(a, lo, h, e, n + 1, F2, g2)
<1> DEFINE k == Len(Failed(d))
<1>1. /\ Len(Failed(a)) \in Nat /\ k \in Nat /\ Len(Failed(e)) \in Nat
      /\ \A i \in 1..k : Failed(d)[i].value \in M6id
  BY FailedType
<1>2. /\ Len(Failed(e)) = k + 1 /\ \A i \in 1..k : Failed(e)[i] = Failed(d)[i]
      /\ Failed(e)[k + 1] = [value |-> m, height |-> h]
  <2> DEFINE s == Failed(d)
             x == [value |-> m, height |-> h]
  <2>1. s \in Seq(HeightStamped(M6id)) BY FailedType
  <2>2. x \in HeightStamped(M6id) BY DEF HeightStamped
  <2>3. Failed(e) = Append(s, x) BY DEF Push
  <2> HIDE DEF s, x
  <2> QED BY <2>1, <2>2, <2>3, AppendProperties DEF s, x
<1>3. /\ Len(Failed(a)) =< k /\ \A i \in 1..Len(Failed(a)) : Failed(d)[i] = Failed(a)[i]
      /\ \A p \in (Len(Failed(a)) + 1)..k :
          /\ Failed(d)[p].height = h /\ lo < g[p] /\ g[p] =< n
          /\ \A q \in (p + 1)..k : g[p] < g[q]
          /\ \E q \in (Size(a, Failed(d)[p].value) + 1)..Size(d, Failed(d)[p].value) :
                /\ Refund(d, Failed(d)[p].value, q) /\ F[Failed(d)[p].value][q] = g[p]
  BY DEF FailedGrown
<1>4. g2[k + 1] = n + 1 /\ \A p \in 1..k : g2[p] = g[p] /\ g[p] \in Nat BY <1>1
<1>5. Carried(a, d, e, k, F, F2, g) OBVIOUS
<1> HIDE DEF k
<1>6. \A i \in 1..Len(Failed(a)) : Failed(e)[i] = Failed(a)[i] BY <1>1, <1>2, <1>3
<1>7. ASSUME NEW p \in (Len(Failed(a)) + 1)..Len(Failed(e))
      PROVE  /\ Failed(e)[p].height = h /\ lo < g2[p] /\ g2[p] =< n + 1
             /\ \A q \in (p + 1)..Len(Failed(e)) : g2[p] < g2[q]
             /\ \E q \in (Size(a, Failed(e)[p].value) + 1)..Size(e, Failed(e)[p].value) :
                   /\ Refund(e, Failed(e)[p].value, q)
                   /\ F2[Failed(e)[p].value][q] = g2[p]
  <2>1. CASE p = k + 1
    <3>1. \A q \in (p + 1)..Len(Failed(e)) : FALSE BY <1>1, <1>2, <2>1
    <3>20. Failed(e)[p] = [value |-> m, height |-> h] BY <1>2, <2>1
    <3>21. g2[p] = n + 1 BY <1>4, <2>1
    <3>2. Failed(e)[p].value = m /\ Failed(e)[p].height = h /\ g2[p] = n + 1
      BY <3>20, <3>21
    <3>3. lo < g2[p] /\ g2[p] =< n + 1 BY <3>21
    <3>4. \E q \in (Size(a, m) + 1)..Size(e, m) :
              Refund(e, m, q) /\ F2[m][q] = g2[p]
      BY <3>21
    <3> QED BY <3>1, <3>2, <3>3, <3>4
  <2>2. CASE p # k + 1
    <3>1. p \in (Len(Failed(a)) + 1)..k /\ p \in 1..k BY <1>1, <1>2, <2>2
    <3>2. Failed(e)[p] = Failed(d)[p] /\ g2[p] = g[p] /\ g[p] \in Nat
      BY <1>2, <1>4, <3>1
    <3> DEFINE x == Failed(d)[p].value
    <3>5. PICK q \in (Size(a, x) + 1)..Size(d, x) : Refund(d, x, q) /\ F[x][q] = g[p]
      BY <1>3, <3>1
    <3>6. q =< Size(e, x) /\ Refund(e, x, q) /\ F2[x][q] = g[p]
      BY <1>5, <3>1, <3>5 DEF Carried
    <3>8. q \in (Size(a, x) + 1)..Size(e, x) BY <1>1, <3>1, <3>6, HistType
    <3>9. ASSUME NEW j \in (p + 1)..Len(Failed(e)) PROVE g2[p] < g2[j]
      <4>1. CASE j = k + 1 BY <1>3, <1>4, <3>1, <3>2, <4>1, BelowNext
      <4>2. CASE j # k + 1 BY <1>1, <1>2, <1>3, <1>4, <3>1, <3>2, <4>2, BelowLast
      <4> QED BY <4>1, <4>2
    <3>10. Failed(e)[p].height = h /\ lo < g2[p] /\ g2[p] =< n + 1
      BY <1>3, <3>1, <3>2, BelowNext
    <3>11. Failed(e)[p].value = x /\ F2[x][q] = g2[p] BY <3>2, <3>6
    <3> HIDE DEF x
    <3> QED BY <3>6, <3>8, <3>9, <3>10, <3>11
  <2> QED BY <2>1, <2>2
<1> QED BY <1>1, <1>2, <1>3, <1>6, <1>7 DEF FailedGrown

LEMMA UpdateAt ==
  ASSUME NEW f \in [Nat -> Nat], NEW i \in Nat, NEW v \in Nat, NEW f2,
         f2 = [f EXCEPT ![i] = v]
  PROVE  f2 \in [Nat -> Nat] /\ f2[i] = v /\ \A j \in Nat : j # i => f2[j] = f[j]
OBVIOUS

LEMMA UpdateOf ==
  ASSUME NEW S, NEW T, NEW F \in [S -> T], NEW m \in S, NEW f \in T, NEW F2,
         F2 = [F EXCEPT ![m] = f]
  PROVE  F2 \in [S -> T] /\ F2[m] = f /\ \A x \in S : x # m => F2[x] = F[x]
OBVIOUS

LEMMA IndexFacts ==
  ASSUME NEW k \in Nat
  PROVE  /\ k + 1 \in Nat /\ (k + 1) - 1 = k
         /\ k > 0 => k + 1 > 1
         /\ \A i \in 1..k : i \in Nat /\ i # k + 1
OBVIOUS

LEMMA PushTraced ==
  ASSUME NEW a \in Databases, NEW lo \in Nat, NEW h \in Nat,
         NEW d \in Databases, NEW e \in Databases, NEW m \in M6id, NEW v \in Status,
         NEW n \in Nat, lo =< n, NEW mn, NEW mn2,
         \A i \in 1..n : mn2[i] = mn[i],
         mn2[n + 1].of = m, Matches(v, mn2[n + 1].kind),
         Shapes(d), Pushes(d, e, m, v, h),
         NEW F \in [M6id -> [Nat -> Nat]], NEW g \in [Nat -> Nat],
         Traced(a, lo, h, d, mn, n, {}, {}, F, g),
         Pend(d) \in {Pend(a), {}}
  PROVE  \E F2 \in [M6id -> [Nat -> Nat]], g2 \in [Nat -> Nat] :
            Traced(a, lo, h, e, mn2, n + 1, {}, {}, F2, g2)
<1> DEFINE s == Size(d, m)
           k == Len(Failed(d))
           f2 == [F[m] EXCEPT ![s + 1] = n + 1]
           F2 == [F EXCEPT ![m] = f2]
           g2 == [g EXCEPT ![k + 1] = n + 1]
<1>1. /\ Hist(e, m) = Push(Hist(d, m), v, h)
      /\ Info(d, m) # "UnknownConfirmed" /\ Info(e, m) # "Absent"
      /\ Info(e, m) = "Known" <=> Info(d, m) = "Known"
      /\ Size(d, m) > 0 /\ Last(d, m) = "Pending" => Pend(d) = {m}
      /\ Failed(e) = IF /\ v = "Failed" /\ Info(d, m) = "Known"
                        /\ Last(d, m) = "Submitted"
                     THEN Push(Failed(d), m, h) ELSE Failed(d)
      /\ \A x \in M6id : x # m => Entry(e, x) = Entry(d, x)
  BY DEF Pushes, OnlyMoves
<1>2. /\ Size(e, m) = s + 1 /\ s \in Nat
      /\ \A i \in 1..s : Hist(e, m)[i] = Hist(d, m)[i]
      /\ Hist(e, m)[s + 1] = [value |-> v, height |-> h]
  BY <1>1, PushedHist
<1>3. k \in Nat BY FailedType
<1>4a. s + 1 \in Nat /\ k + 1 \in Nat /\ n + 1 \in Nat /\ F[m] \in [Nat -> Nat]
  <2>1. F[m] \in [Nat -> Nat] OBVIOUS
  <2> HIDE DEF s, k
  <2> QED BY <1>2, <1>3, <2>1, IndexFacts
<1>4b. f2 \in [Nat -> Nat] /\ f2[s + 1] = n + 1
       /\ \A j \in Nat : j # s + 1 => f2[j] = F[m][j]
  <2> DEFINE f == F[m]
             i == s + 1
             w == n + 1
  <2>1. f \in [Nat -> Nat] /\ i \in Nat /\ w \in Nat /\ f2 = [f EXCEPT ![i] = w]
    BY <1>4a
  <2> HIDE DEF f, i, w, f2
  <2> QED BY <2>1, UpdateAt DEF f, i, w
<1>4c. g2 \in [Nat -> Nat] /\ g2[k + 1] = n + 1
       /\ \A j \in Nat : j # k + 1 => g2[j] = g[j]
  <2> DEFINE i == k + 1
             w == n + 1
  <2>1. i \in Nat /\ w \in Nat /\ g2 = [g EXCEPT ![i] = w] BY <1>4a
  <2> HIDE DEF i, w, g2
  <2> QED BY <2>1, UpdateAt DEF i, w
<1>5. /\ F2 \in [M6id -> [Nat -> Nat]]
      /\ F2[m] = f2 /\ \A x \in M6id : x # m => F2[x] = F[x]
  <2> HIDE DEF f2
  <2> QED BY <1>4b, UpdateOf
<1>3a. f2 = [F[m] EXCEPT ![Size(d, m) + 1] = n + 1] OBVIOUS
<1>3b. s = Size(d, m) /\ k = Len(Failed(d)) OBVIOUS
<1> HIDE DEF s, k, f2, F2, g2
<1>4. /\ f2 \in [Nat -> Nat] /\ F2 \in [M6id -> [Nat -> Nat]]
      /\ g2 \in [Nat -> Nat] /\ F[m] \in [Nat -> Nat]
  BY <1>4a, <1>4b, <1>4c, <1>5
<1>6. g2[k + 1] = n + 1 /\ \A i \in 1..k : g2[i] = g[i] BY <1>3, <1>4c, IndexFacts
<1>7. f2[s + 1] = n + 1 /\ \A p \in 1..s : f2[p] = F[m][p] BY <1>2, <1>4b, IndexFacts
<1>8. ASSUME NEW x \in M6id PROVE Grown(a, lo, h, d, mn, n, F[x], x) BY DEF Traced
<1>9. FailedGrown(a, lo, h, d, n, F, g) BY DEF Traced
<1>10. ASSUME NEW x \in M6id PROVE Grown(a, lo, h, e, mn2, n + 1, F2[x], x)
  <2>1. CASE x # m
    <3>1. F2[x] = F[x] /\ F[x] \in [Nat -> Nat] /\ Entry(e, x) = Entry(d, x)
      BY <1>1, <1>5, <2>1
    <3>2. n + 1 \in Nat /\ n =< n + 1 OBVIOUS
    <3> HIDE DEF F2
    <3> QED BY <1>8, <3>1, <3>2, GrownMore
  <2>2. CASE x = m
    <3>1. ASSUME s > 0, Last(d, m) = "Pending", Entry(d, m) = Entry(a, m)
          PROVE  Pend(a) = {m}
      BY <1>1, <1>3b, <3>1
    <3> DEFINE f == F[m]
    <3>3. f2 = [f EXCEPT ![Size(d, m) + 1] = n + 1] /\ f \in [Nat -> Nat]
          /\ Grown(a, lo, h, d, mn, n, f, m)
      BY <1>3a, <1>4, <1>8
    <3> HIDE DEF f
    <3>4. Grown(a, lo, h, e, mn2, n + 1, f2, m)
      BY <1>1, <1>3b, <1>4, <3>1, <3>3, GrownPush
    <3> QED BY <1>5, <2>2, <3>4
  <2> QED BY <2>1, <2>2
<1>11. ASSUME NEW x \in M6id, NEW q \in (Size(a, x) + 1)..Size(d, x), Refund(d, x, q)
       PROVE  q =< Size(e, x) /\ Refund(e, x, q) /\ F2[x][q] = F[x][q]
  <2>1. CASE x # m
    <3>3. Size(d, x) \in Nat /\ Size(a, x) \in Nat BY HistType
    <3> QED BY <1>1, <1>5, <1>11, <2>1, <3>3, SameEntry DEF Refund
  <2>2. CASE x = m
    <3>1. Size(a, m) \in Nat BY HistType
    <3>2. q \in 1..s /\ q > 1 /\ q - 1 \in 1..s
      <4>1. q \in (Size(a, m) + 1)..s /\ q > 1 BY <1>3b, <1>11, <2>2 DEF Refund
      <4> QED BY <1>2, <3>1, <4>1
    <3> QED BY <1>1, <1>2, <1>5, <1>7, <1>11, <2>2, <3>2 DEF Refund
  <2> QED BY <2>1, <2>2
<1>13. \A p \in (Len(Failed(a)) + 1)..k : g[p] =< n BY <1>3b, <1>9 DEF FailedGrown
<1>14. Len(Failed(a)) =< k /\ Len(Failed(a)) \in Nat
  BY <1>3b, <1>9, FailedType DEF FailedGrown
<1>12. Carried(a, d, e, k, F, F2, g)
  <2> SUFFICES ASSUME NEW p \in (Len(Failed(a)) + 1)..k,
                      NEW x, x = Failed(d)[p].value,
                      NEW q \in (Size(a, x) + 1)..Size(d, x),
                      Refund(d, x, q), F[x][q] = g[p]
               PROVE  q =< Size(e, x) /\ Refund(e, x, q) /\ F2[x][q] = g[p]
    BY DEF Carried
  <2>1. p \in 1..k BY <1>3, <1>14
  <2> QED BY <1>3b, <1>11, <2>1, FailedType
<1>15. CASE /\ v = "Failed" /\ Info(d, m) = "Known" /\ Last(d, m) = "Submitted"
  <2>1. Failed(e) = Push(Failed(d), m, h) BY <1>1, <1>15
  <2>2. s > 0
    <3>2. Hist(d, m) # << >> BY <1>15 DEF Shape, Info, Hist, Shapes
    <3>3. Size(d, m) \in Nat /\ (Hist(d, m) = << >> <=> Size(d, m) = 0) BY HistType
    <3> QED BY <1>3b, <3>2, <3>3
  <2>3. Hist(e, m)[s] = Hist(d, m)[s] /\ Hist(d, m)[s].value = "Submitted"
    <3>1. s \in 1..s BY <1>2, <2>2
    <3>2. Last(d, m) = Hist(d, m)[s].value BY <1>3b, <2>2, HistType
    <3> QED BY <1>2, <1>15, <3>1, <3>2
  <2>4. (s + 1) - 1 = s /\ s + 1 > 1 BY <1>2, <2>2, IndexFacts
  <2>5. Refund(e, m, s + 1) BY <1>1, <1>2, <1>15, <2>3, <2>4 DEF Refund
  <2>6. s + 1 \in (Size(a, m) + 1)..Size(e, m)
    <3>1. Size(a, m) =< s /\ Size(a, m) \in Nat BY <1>3b, <1>8, HistType DEF Grown
    <3> QED BY <1>2, <3>1
  <2> DEFINE r == s + 1
  <2>9. /\ r \in (Size(a, m) + 1)..Size(e, m) /\ Refund(e, m, r) /\ F2[m][r] = n + 1
        /\ g2[Len(Failed(d)) + 1] = n + 1 /\ \A i \in 1..Len(Failed(d)) : g2[i] = g[i]
        /\ Carried(a, d, e, Len(Failed(d)), F, F2, g)
    BY <1>3b, <1>5, <1>6, <1>7, <1>12, <2>5, <2>6
  <2> HIDE DEF r
  <2>10. r \in (Size(a, m) + 1)..Size(e, m) BY <2>9
  <2>11. Refund(e, m, r) /\ F2[m][r] = n + 1 BY <2>9
  <2>12. g2[Len(Failed(d)) + 1] = n + 1 BY <2>9
  <2>13. \A i \in 1..Len(Failed(d)) : g2[i] = g[i] BY <2>9
  <2>14. Carried(a, d, e, Len(Failed(d)), F, F2, g) BY <2>9
  <2>15. g2 \in [Nat -> Nat] /\ F2 \in [M6id -> [Nat -> Nat]] BY <1>4
  <2>8. FailedGrown(a, lo, h, e, n + 1, F2, g2)
    BY ONLY <1>9, <2>1, <2>10, <2>11, <2>12, <2>13, <2>14, <2>15, FailedPushed,
       a \in Databases, d \in Databases, e \in Databases, m \in M6id, lo \in Nat,
       h \in Nat, n \in Nat, lo =< n, g \in [Nat -> Nat]
  <2> QED BY <1>4, <1>10, <2>8 DEF Traced
<1>16. CASE ~(/\ v = "Failed" /\ Info(d, m) = "Known"
              /\ Last(d, m) = "Submitted")
  <2>1. Failed(e) = Failed(d) BY <1>1, <1>16
  <2>2. /\ Len(Failed(e)) =< Len(Failed(d)) /\ Len(Failed(a)) =< Len(Failed(e))
        /\ \A i \in 1..Len(Failed(e)) : Failed(e)[i] = Failed(d)[i]
    BY <1>3, <1>3b, <1>14, <2>1
  <2>3. \A p \in (Len(Failed(a)) + 1)..Len(Failed(e)) : g[p] =< n + 1
    <3> SUFFICES ASSUME NEW p \in (Len(Failed(a)) + 1)..Len(Failed(e))
                 PROVE  g[p] =< n + 1
      OBVIOUS
    <3>0. p \in (Len(Failed(a)) + 1)..k BY <1>3b, <2>1
    <3>1. p \in Nat BY <1>14, <3>0
    <3>2. g[p] =< n /\ g[p] \in Nat BY <1>13, <3>0, <3>1
    <3> QED BY <3>2, BelowNext
  <2>5. FailedGrown(a, lo, h, e, n + 1, F2, g)
    BY <1>3b, <1>9, <1>12, <2>1, <2>2, <2>3, FailedPrefix
  <2> QED BY <1>4, <1>10, <2>5 DEF Traced
<1> QED BY <1>15, <1>16

LEMMA PushProgress ==
  ASSUME NEW b \in Block, NEW h \in Nat, NEW d \in Databases, NEW e,
         NEW m \in M6id, NEW v \in Status, NEW n \in Nat, b.events =< n,
         NEW mn, NEW mn2, \A i \in 1..n : mn2[i] = mn[i],
         mn2[n + 1].of = m, Matches(v, mn2[n + 1].kind),
         Shapes(d), Pushes(d, e, m, v, h), Progress(b, h, d, mn, n, {}, {})
  PROVE  Progress(b, h, e, mn2, n + 1, {}, {})
<1> DEFINE a == b.before
<1>1. a \in Databases /\ b.events \in Nat /\ e \in Databases
  BY DEF Block, Pushes, OnlyMoves
<1>2. /\ Outputs(d) \ Deposit = (Outputs(a) \ Deposit) \cup b.created
      /\ Pend(d) = IF \E x \in Pend(a) : Size(d, x) = Size(a, x)
                   THEN Pend(a) ELSE {}
  BY DEF Progress
<1>3. PICK F \in [M6id -> [Nat -> Nat]], g \in [Nat -> Nat] :
          Traced(a, b.events, h, d, mn, n, {}, {}, F, g)
  BY DEF Progress
<1>4. \E F2 \in [M6id -> [Nat -> Nat]], g2 \in [Nat -> Nat] :
          Traced(a, b.events, h, e, mn2, n + 1, {}, {}, F2, g2)
  <2> HIDE DEF a
  <2>1. Pend(d) \in {Pend(a), {}} BY <1>2
  <2> DEFINE lo == b.events
  <2>2. lo \in Nat /\ lo =< n /\ Traced(a, lo, h, d, mn, n, {}, {}, F, g) BY <1>1, <1>3
  <2> HIDE DEF lo
  <2> QED BY <1>1, <2>1, <2>2, PushTraced DEF lo
<1>5. Outputs(e) = Outputs(d) BY DEF Pushes, OnlyMoves
<1>6. /\ Hist(e, m) = Push(Hist(d, m), v, h)
      /\ IF Size(d, m) > 0 /\ Last(d, m) = "Pending"
         THEN Pend(d) = {m} /\ Pend(e) = {}
         ELSE m \notin Pend(d) /\ Pend(e) = Pend(d)
      /\ \A x \in M6id : x # m => Size(e, x) = Size(d, x)
  BY SameEntry DEF Pushes, OnlyMoves
<1>7. Size(e, m) # Size(a, m)
  <2>1. Size(e, m) = Size(d, m) + 1 /\ Size(d, m) \in Nat /\ Size(a, m) \in Nat
    <3>1. /\ Size(e, m) = Size(d, m) + 1 /\ Size(d, m) \in Nat
          /\ \A i \in 1..Size(d, m) : Hist(e, m)[i] = Hist(d, m)[i]
          /\ Hist(e, m)[Size(d, m) + 1] = [value |-> v, height |-> h]
      BY <1>6, PushedHist
    <3> HIDE DEF a
    <3> QED BY <1>1, <3>1, HistType
  <2> QED BY <1>3, <2>1 DEF Traced, Grown
<1>8. Pend(a) \subseteq M6id BY <1>1 DEF Pend, Databases
<1> HIDE DEF a
<1>9. Pend(e) = IF \E x \in Pend(a) : Size(e, x) = Size(a, x)
                THEN Pend(a) ELSE {}
  <2>1. CASE Size(d, m) > 0 /\ Last(d, m) = "Pending" BY <1>2, <1>6, <1>7, <2>1
  <2>2. CASE ~(Size(d, m) > 0 /\ Last(d, m) = "Pending")
    <3>1. m \notin Pend(d) /\ Pend(e) = Pend(d) BY <1>6, <2>2
    <3>2. CASE \E x \in Pend(a) : Size(d, x) = Size(a, x)
      <4>2. PICK x \in Pend(a) : Size(d, x) = Size(a, x) BY <3>2
      <4> QED BY <1>2, <1>6, <1>8, <3>1, <3>2, <4>2
    <3>3. CASE ~\E x \in Pend(a) : Size(d, x) = Size(a, x)
      BY <1>2, <1>6, <1>7, <1>8, <3>1, <3>3
    <3> QED BY <3>2, <3>3
  <2> QED BY <2>1, <2>2
<1> QED BY <1>2, <1>4, <1>5, <1>9 DEF Progress, a, Collects

-----------------------------------------------------------------------------
(* What the trace says, and that a pop takes its last event away *)

\* A bundle that was only ever collected.
AllPending(d, m) ==
    Size(d, m) > 0 /\ \A i \in 1..Size(d, m) : Hist(d, m)[i].value = "Pending"

LEMMA LeftOverPending ==
  ASSUME NEW d \in Databases, NEW m \in M6id, NEW h, Shape(Entry(d, m), m),
         LeftOver(d, m, h)
  PROVE  AllPending(d, m)
<1> QED
  BY LenProperties, HistType DEF AllPending, Size, Shape, Info, Hist, LeftOver, Entry

\* What the block collected and what was left over.
Extra(a, h, d, C, L) ==
    /\ Collects(a, h, d, C) /\ L \subseteq M6id
    /\ \A m \in L : m \notin C /\ LeftOver(d, m, h) /\ OldOrNone(a, m, h)

LEMMA ExtraPending ==
  ASSUME NEW a \in Databases, NEW d \in Databases, NEW h \in Nat, NEW C, NEW L,
         Shapes(a), Shapes(d), Extra(a, h, d, C, L), NEW m \in C \cup L
  PROVE  m \in M6id /\ AllPending(d, m)
<1>1. CASE m \in L BY <1>1, LeftOverPending DEF Extra, Shapes
<1>2. CASE m \in C
  <2>1. m \in M6id /\ OldOrNone(a, m, h)
        /\ Entry(d, m) = [info |-> "Known", spend_utxos |-> {},
                          status |-> Push(Hist(a, m), "Pending", h)]
    BY <1>2 DEF Extra, Collects
  <2>3. /\ Size(d, m) = Size(a, m) + 1 /\ Size(a, m) \in Nat
        /\ \A i \in 1..Size(a, m) : Hist(d, m)[i] = Hist(a, m)[i]
        /\ Hist(d, m)[Size(a, m) + 1] = [value |-> "Pending", height |-> h]
    BY <2>1, PushedHist DEF Hist, Status
  <2>4. \A i \in 1..Size(a, m) : Hist(a, m)[i].value = "Pending"
    <3>1. CASE Entry(a, m) = NoBundle BY <2>1, <3>1, HistType DEF Hist, NoBundle
    <3>2. CASE LeftOver(a, m, h) BY <2>1, <3>2, LeftOverPending DEF Shapes, AllPending
    <3> QED BY <2>1, <3>1, <3>2 DEF OldOrNone
  <2>6. ASSUME NEW i \in 1..Size(d, m) PROVE Hist(d, m)[i].value = "Pending"
    <3>1. CASE i = Size(a, m) + 1 BY <2>3, <3>1
    <3>2. CASE i # Size(a, m) + 1 BY <2>3, <2>4, <3>2
    <3> QED BY <3>1, <3>2
  <2> QED BY <2>1, <2>3, <2>6 DEF AllPending
<1> QED BY <1>1, <1>2

\* Grown with another last event, if the block's statuses are before it.
LEMMA GrownTo ==
  ASSUME NEW a \in Databases, NEW d \in Databases, NEW e, NEW m \in M6id,
         NEW lo \in Nat, NEW h, NEW n \in Nat, NEW n2 \in Nat,
         NEW mn, NEW mn2, \A i \in 1..n : i =< n2 => mn2[i] = mn[i],
         NEW f \in [Nat -> Nat], Entry(e, m) = Entry(d, m),
         \A p \in (Size(a, m) + 1)..Size(d, m) : f[p] =< n2,
         Grown(a, lo, h, d, mn, n, f, m)
  PROVE  Grown(a, lo, h, e, mn2, n2, f, m)
<1>1. Hist(e, m) = Hist(d, m) /\ Size(e, m) = Size(d, m) BY SameEntry
<1>2. Size(a, m) \in Nat /\ Size(d, m) \in Nat BY HistType
<1>3. ASSUME NEW p \in (Size(a, m) + 1)..Size(d, m)
      PROVE  /\ Hist(e, m)[p].height = h /\ lo < f[p] /\ f[p] =< n2 /\ mn2[f[p]].of = m
             /\ Matches(Hist(e, m)[p].value, mn2[f[p]].kind)
             /\ \A q \in (p + 1)..Size(d, m) : f[p] < f[q]
  <2>1. /\ Hist(d, m)[p].height = h /\ lo < f[p] /\ f[p] =< n /\ mn[f[p]].of = m
        /\ Matches(Hist(d, m)[p].value, mn[f[p]].kind)
        /\ \A q \in (p + 1)..Size(d, m) : f[p] < f[q]
    BY DEF Grown
  <2> QED BY <1>1, <1>2, <2>1
<1> QED BY <1>1, <1>3 DEF Grown

\* Each latest failure of the block is that of a bundle which has grown.
LEMMA RefundOf ==
  ASSUME NEW a \in Databases, NEW d \in Databases, NEW h \in Nat, NEW C, NEW L,
         Shapes(a), Shapes(d), Extra(a, h, d, C, L),
         NEW lo, NEW n, NEW F, NEW g, FailedGrown(a, lo, h, d, n, F, g),
         NEW p \in (Len(Failed(a)) + 1)..Len(Failed(d)),
         NEW x, x = Failed(d)[p].value
  PROVE  /\ x \in M6id /\ x \notin C \cup L
         /\ \E q \in (Size(a, x) + 1)..Size(d, x) :
               Refund(d, x, q) /\ F[x][q] = g[p]
<1>3. x \in M6id BY FailedType
<1>4. PICK q \in (Size(a, x) + 1)..Size(d, x) : Refund(d, x, q) /\ F[x][q] = g[p]
  BY DEF FailedGrown
<1>5. x \notin C \cup L
  <2> SUFFICES ASSUME x \in C \cup L PROVE FALSE OBVIOUS
  <2>2. q \in 1..Size(d, x) BY <1>3, HistType
  <2> QED BY <1>4, <2>2, ExtraPending DEF AllPending, Refund
<1> QED BY <1>3, <1>4, <1>5

\* e and d differ in deposits, in logs and in what a body moved at most.
SameBundles(e, d) ==
    /\ e \in Databases /\ d \in Databases /\ \A m \in M6id : Entry(e, m) = Entry(d, m)
    /\ Pend(e) = Pend(d) /\ Failed(e) = Failed(d)

\* The n-th event did not set the latest status of its bundle.
Unmatched(d, mn, n) ==
    \A m \in M6id : mn[n].of = m /\ Size(d, m) > 0 =>
        ~Matches(Hist(d, m)[Size(d, m)].value, mn[n].kind)

LEMMA LastEvent ==
  ASSUME NEW a \in Databases, NEW d \in Databases, NEW m \in M6id,
         NEW lo, NEW h, NEW n \in Nat, NEW mn, NEW f \in [Nat -> Nat],
         Grown(a, lo, h, d, mn, n, f, m),
         NEW p \in (Size(a, m) + 1)..Size(d, m), f[p] = n
  PROVE  /\ p = Size(d, m) /\ mn[n].of = m
         /\ Matches(Hist(d, m)[Size(d, m)].value, mn[n].kind)
<1>1. Size(a, m) \in Nat /\ Size(d, m) \in Nat BY HistType
<1>2. /\ f[p] =< n /\ mn[f[p]].of = m /\ Matches(Hist(d, m)[p].value, mn[f[p]].kind)
      /\ \A q \in (p + 1)..Size(d, m) : f[p] < f[q]
  BY DEF Grown
<1>3. p = Size(d, m)
  <2> SUFFICES ASSUME p # Size(d, m) PROVE FALSE OBVIOUS
  <2> DEFINE s == Size(d, m)
  <2> QED BY <1>1, <1>2 DEF Grown
<1> QED BY <1>2, <1>3

\* Everything that is known of the databases d within a block.
Trace(a, lo, h, d, mn, n, C, L, F, g) ==
    /\ a \in Databases /\ d \in Databases /\ lo \in Nat /\ h \in Nat /\ n \in Nat
    /\ Shapes(a) /\ Shapes(d) /\ Extra(a, h, d, C, L)
    /\ F \in [M6id -> [Nat -> Nat]] /\ g \in [Nat -> Nat]
    /\ Traced(a, lo, h, d, mn, n, C, L, F, g)

LEMMA TraceFacts ==
  ASSUME NEW a, NEW lo, NEW h, NEW d, NEW mn, NEW n, NEW C, NEW L, NEW F, NEW g,
         Trace(a, lo, h, d, mn, n, C, L, F, g),
         NEW m \in M6id, m \notin C \cup L
  PROVE  /\ Grown(a, lo, h, d, mn, n, F[m], m) /\ F[m] \in [Nat -> Nat]
         /\ Size(a, m) \in Nat /\ Size(d, m) \in Nat /\ Size(a, m) =< Size(d, m)
         /\ \A p \in (Size(a, m) + 1)..Size(d, m) :
               /\ p \in Nat /\ F[m][p] \in Nat /\ F[m][p] =< n
               /\ F[m][p] = n => /\ p = Size(d, m) /\ mn[n].of = m
                                 /\ Matches(Hist(d, m)[Size(d, m)].value, mn[n].kind)
<1> DEFINE f == F[m]
<1>1. /\ a \in Databases /\ d \in Databases /\ n \in Nat
      /\ f \in [Nat -> Nat] /\ Grown(a, lo, h, d, mn, n, f, m)
  BY DEF Trace, Traced
<1> HIDE DEF f
<1>2. Size(a, m) \in Nat /\ Size(d, m) \in Nat BY <1>1, HistType
<1>4. ASSUME NEW p \in (Size(a, m) + 1)..Size(d, m)
      PROVE  /\ p \in Nat /\ f[p] \in Nat /\ f[p] =< n
             /\ f[p] = n => /\ p = Size(d, m) /\ mn[n].of = m
                            /\ Matches(Hist(d, m)[Size(d, m)].value, mn[n].kind)
  BY <1>1, <1>2, LastEvent DEF Grown
<1> QED BY <1>1, <1>2, <1>4 DEF f, Grown

RefundAt(a, d, C, L, F, g, p, x) ==
    /\ x \in M6id /\ x \notin C \cup L
    /\ \E q \in (Size(a, x) + 1)..Size(d, x) : Refund(d, x, q) /\ F[x][q] = g[p]

LEMMA TraceFailed ==
  ASSUME NEW a, NEW lo, NEW h, NEW d, NEW mn, NEW n, NEW C, NEW L, NEW F, NEW g,
         Trace(a, lo, h, d, mn, n, C, L, F, g),
         NEW p \in (Len(Failed(a)) + 1)..Len(Failed(d))
  PROVE  RefundAt(a, d, C, L, F, g, p, Failed(d)[p].value)
<1> DEFINE x == Failed(d)[p].value
<1>1. /\ a \in Databases /\ d \in Databases /\ h \in Nat /\ Shapes(a) /\ Shapes(d)
      /\ Extra(a, h, d, C, L) /\ FailedGrown(a, lo, h, d, n, F, g)
  BY DEF Trace, Traced
<1>2. x = Failed(d)[p].value OBVIOUS
<1> HIDE DEF x
<1> QED BY <1>1, <1>2, RefundOf DEF x, RefundAt

LEMMA SameProgress ==
  ASSUME NEW b \in Block, NEW h \in Nat, NEW d, NEW e, SameBundles(e, d),
         Outputs(e) \ Deposit = Outputs(d) \ Deposit,
         NEW n \in Nat, NEW n2 \in Nat, NEW mn, NEW mn2,
         \A i \in 1..n : i =< n2 => mn2[i] = mn[i],
         NEW C, NEW L, Shapes(b.before), Shapes(d),
         Progress(b, h, d, mn, n, C, L),
         n =< n2 \/ (n2 = n - 1 /\ Unmatched(d, mn, n))
  PROVE  Progress(b, h, e, mn2, n2, C, L)
<1> DEFINE a == b.before
           lo == b.events
<1>1. a \in Databases /\ lo \in Nat /\ d \in Databases /\ e \in Databases
  BY DEF Block, SameBundles
<1>2. /\ Outputs(d) \ Deposit = (Outputs(a) \ Deposit) \cup b.created
      /\ Extra(a, h, d, C, L)
      /\ Pend(d) = IF \E m \in Pend(a) : Size(d, m) = Size(a, m)
                   THEN Pend(a) ELSE C
  BY DEF Progress, Extra
<1>3. PICK F \in [M6id -> [Nat -> Nat]], g \in [Nat -> Nat] :
          Traced(a, lo, h, d, mn, n, C, L, F, g)
  BY DEF Progress
<1>4. Shapes(a) OBVIOUS
<1>5. \A m \in M6id : Entry(e, m) = Entry(d, m) /\ Size(e, m) = Size(d, m)
                      /\ Hist(e, m) = Hist(d, m) /\ Info(e, m) = Info(d, m)
  BY SameEntry DEF SameBundles
<1>6. Pend(e) = Pend(d) /\ Failed(e) = Failed(d) BY DEF SameBundles
<1>7. Pend(a) \subseteq M6id BY <1>1 DEF Pend, Databases
<1> HIDE DEF a, lo
<1>8. FailedGrown(a, lo, h, d, n, F, g)
      /\ \A m \in M6id : m \notin C \cup L => Grown(a, lo, h, d, mn, n, F[m], m)
  BY <1>3 DEF Traced
<1>8a. Trace(a, lo, h, d, mn, n, C, L, F, g) BY <1>1, <1>2, <1>3, <1>4 DEF Trace
<1>9. ASSUME NEW m \in M6id, m \notin C \cup L,
             NEW p \in (Size(a, m) + 1)..Size(d, m)
      PROVE  F[m][p] =< n2
  <2> DEFINE y == F[m][p]
  <2>1. /\ y \in Nat /\ y =< n /\ Size(a, m) \in Nat /\ Size(d, m) \in Nat
        /\ y = n => /\ mn[n].of = m
                    /\ Matches(Hist(d, m)[Size(d, m)].value, mn[n].kind)
    BY <1>8a, <1>9, TraceFacts
  <2> HIDE DEF y
  <2>3. CASE n =< n2 BY <2>1, <2>3 DEF y
  <2>4. CASE n2 = n - 1 /\ Unmatched(d, mn, n)
    <3>1. y # n BY <2>1, <2>4 DEF Unmatched
    <3>2. y =< n2 BY <2>1, <2>4, <3>1
    <3> QED BY <3>2 DEF y
  <2> QED BY <2>3, <2>4
<1>10. ASSUME NEW m \in M6id, m \notin C \cup L
       PROVE  Grown(a, lo, h, e, mn2, n2, F[m], m)
  <2> DEFINE f == F[m]
  <2>1. f \in [Nat -> Nat] /\ Grown(a, lo, h, d, mn, n, f, m)
        /\ Entry(e, m) = Entry(d, m)
        /\ \A p \in (Size(a, m) + 1)..Size(d, m) : f[p] =< n2
    BY <1>5, <1>8, <1>9, <1>10
  <2> HIDE DEF f
  <2> QED BY <1>1, <2>1, GrownTo DEF f
<1>11. FailedGrown(a, lo, h, e, n2, F, g)
  <2>1. /\ Len(Failed(e)) =< Len(Failed(d)) /\ Len(Failed(a)) =< Len(Failed(e))
        /\ \A i \in 1..Len(Failed(e)) : Failed(e)[i] = Failed(d)[i]
    BY <1>1, <1>6, <1>8, FailedType DEF FailedGrown
  <2>2. ASSUME NEW p \in (Len(Failed(a)) + 1)..Len(Failed(e))
        PROVE  g[p] =< n2
    <3> DEFINE x == Failed(d)[p].value
    <3>2. RefundAt(a, d, C, L, F, g, p, Failed(d)[p].value) BY <1>6, <1>8a, TraceFailed
    <3>3. /\ x \in M6id /\ x \notin C \cup L
          /\ \E q \in (Size(a, x) + 1)..Size(d, x) :
                Refund(d, x, q) /\ F[x][q] = g[p]
      BY <3>2 DEF RefundAt
    <3> HIDE DEF x
    <3> QED BY <1>9, <3>3
  <2>3. Carried(a, d, e, Len(Failed(e)), F, F, g)
    <3> SUFFICES ASSUME NEW p \in (Len(Failed(a)) + 1)..Len(Failed(e)),
                        NEW x, x = Failed(d)[p].value,
                        NEW q \in (Size(a, x) + 1)..Size(d, x),
                        Refund(d, x, q), F[x][q] = g[p]
                 PROVE  q =< Size(e, x) /\ Refund(e, x, q)
      BY DEF Carried
    <3>2. x \in M6id
      <4>1. p \in 1..Len(Failed(d)) BY <1>1, <1>6, FailedType
      <4> QED BY <1>1, <4>1, FailedType
    <3>3. Size(e, x) = Size(d, x) /\ Hist(e, x) = Hist(d, x)
          /\ Info(e, x) = Info(d, x)
      BY <1>5, <3>2
    <3> QED BY <1>1, <3>2, <3>3, HistType DEF Refund
  <2> QED BY <1>1, <1>8, <2>1, <2>2, <2>3, FailedPrefix
<1>15. ASSUME NEW m \in L
       PROVE  m \notin C /\ LeftOver(e, m, h) /\ OldOrNone(a, m, h)
  BY <1>2, <1>5, <1>6 DEF LeftOver, Entry, Pend, Extra
<1>17. Outputs(e) \ Deposit = (Outputs(a) \ Deposit) \cup b.created BY <1>2
<1> QED
  BY <1>2, <1>5, <1>6, <1>7, <1>10, <1>11, <1>15, <1>17 DEF Progress, a, lo, Traced,
     Extra, Collects

\* The entry of a bundle that lost its latest status.
LEMMA PoppedHist ==
  ASSUME NEW d \in Databases, NEW e, NEW m \in M6id, NEW kind, NEW h,
         Pops(d, e, m, kind, h)
  PROVE  /\ e \in Databases
         /\ Size(d, m) \in Nat /\ Size(d, m) > 0 /\ Size(e, m) = Size(d, m) - 1
         /\ \A i \in 1..(Size(d, m) - 1) : Hist(e, m)[i] = Hist(d, m)[i]
         /\ Size(e, m) = 0 => Entry(e, m) = NoBundle
         /\ Size(e, m) > 0 =>
               /\ Info(e, m) = IF Info(d, m) = "Known" THEN "Known" ELSE "Unknown"
               /\ Entry(e, m).spend_utxos = {}
         /\ \A x \in M6id : x # m => Entry(e, x) = Entry(d, x)
<1>1. /\ e \in Databases /\ Size(d, m) > 0 /\ Entry(e, m) = Shorter(d, m)
      /\ \A x \in M6id : x # m => Entry(e, x) = Entry(d, x)
  BY DEF Pops, OnlyMoves
<1>2. /\ Hist(d, m) \in RollBackOf(Status) /\ Hist(d, m) # << >>
      /\ Size(d, m) = Len(Hist(d, m)) /\ Size(d, m) \in Nat
  BY <1>1, HistType DEF Size
<1>3. /\ Pop(Hist(d, m)) \in RollBackOf(Status) /\ Len(Pop(Hist(d, m))) = Size(d, m) - 1
      /\ \A i \in 1..(Size(d, m) - 1) : Pop(Hist(d, m))[i] = Hist(d, m)[i]
  BY <1>2, PopType
<1>4. CASE Pop(Hist(d, m)) = << >>
  <2>1. Entry(e, m) = NoBundle BY <1>1, <1>4 DEF Shorter
  <2>2. Hist(e, m) = Pop(Hist(d, m)) /\ Size(e, m) = Size(d, m) - 1
    BY <1>3, <1>4, <2>1 DEF Hist, NoBundle, Size
  <2>3. Size(e, m) = 0 BY <1>3, <1>4, <2>2
  <2> QED BY <1>1, <1>2, <1>3, <2>1, <2>2, <2>3
<1>5. CASE Pop(Hist(d, m)) # << >>
  <2>2. /\ Hist(e, m) = Pop(Hist(d, m)) /\ Size(e, m) = Size(d, m) - 1
        /\ Info(e, m) = IF Info(d, m) = "Known" THEN "Known" ELSE "Unknown"
        /\ Entry(e, m).spend_utxos = {}
    BY <1>1, <1>3, <1>5 DEF Hist, Size, Info, Shorter
  <2>3. Size(e, m) # 0 BY <1>1, <1>5, <2>2, HistType
  <2> QED BY <1>1, <1>2, <1>3, <2>2, <2>3
<1> QED BY <1>4, <1>5

\* The status that is taken back is one that the block had set.
LEMMA PopsOwn ==
  ASSUME NEW a, NEW lo, NEW h, NEW d, NEW mn, NEW n, NEW C, NEW L, NEW F, NEW g,
         Trace(a, lo, h, d, mn, n, C, L, F, g), StampsBelow(a, h),
         NEW e, NEW m \in M6id, NEW kind, Pops(d, e, m, kind, h)
  PROVE  m \notin C \cup L /\ Size(a, m) < Size(d, m)
<1>1. /\ a \in Databases /\ d \in Databases /\ h \in Nat /\ Shapes(a) /\ Shapes(d)
      /\ Extra(a, h, d, C, L)
  BY DEF Trace
<1> DEFINE s == Size(d, m)
<1>2. /\ s \in Nat /\ s > 0 /\ Hist(d, m)[s].height = h
      /\ Matches(Hist(d, m)[s].value, kind)
  BY <1>1, HistType DEF Pops
<1>3. Hist(d, m)[s].value # "Pending" BY <1>2 DEF Matches
<1>4. m \notin C \cup L
  <2> SUFFICES ASSUME m \in C \cup L PROVE FALSE OBVIOUS
  <2> QED BY <1>1, <1>2, <1>3, ExtraPending DEF AllPending
<1>5. Size(a, m) \in Nat /\ Size(a, m) =< s /\ Grown(a, lo, h, d, mn, n, F[m], m)
  BY <1>4, TraceFacts
<1>6. Size(a, m) # s
  <2> SUFFICES ASSUME Size(a, m) = s PROVE FALSE OBVIOUS
  <2>2. Hist(a, m) = Hist(d, m) BY <1>5 DEF Hist, Grown
  <2>3. s \in 1..Size(a, m) BY <1>2
  <2>4. CASE LeftOver(a, m, h)
    BY <1>1, <1>3, <2>2, <2>3, <2>4, LeftOverPending DEF AllPending, Shapes
  <2>5. CASE \A i \in 1..Size(a, m) : Hist(a, m)[i].height < h
    BY <1>1, <1>2, <2>2, <2>3, <2>5
  <2> QED BY <2>4, <2>5 DEF StampsBelow
<1> QED BY <1>2, <1>4, <1>5, <1>6

\* A known bundle stays known: its history begins with Pending.
LEMMA SameKind ==
  ASSUME NEW a \in Databases, NEW d \in Databases, NEW m \in M6id,
         Shapes(a), Shapes(d), Size(a, m) > 0, Size(d, m) > 0,
         Hist(a, m)[1] = Hist(d, m)[1]
  PROVE  /\ Info(a, m) = "Known" <=> Info(d, m) = "Known"
         /\ Info(a, m) # "Absent" /\ Info(d, m) # "Absent"
<1>1. /\ Shape(Entry(a, m), m) /\ Shape(Entry(d, m), m)
      /\ Size(a, m) \in Nat /\ Size(d, m) \in Nat
      /\ Hist(a, m) # << >> /\ Hist(d, m) # << >>
  BY HistType DEF Shapes
<1>2. Info(a, m) # "Absent" /\ Info(d, m) # "Absent" BY <1>1 DEF Shape, Info, Hist
<1>3. ASSUME NEW x \in {a, d}
      PROVE  Info(x, m) = "Known" <=> Hist(x, m)[1].value = "Pending"
  <2>1. 1 \in 1..Len(Entry(x, m).status) BY <1>1, <1>3 DEF Size, Hist
  <2>2. Follows(Entry(x, m), 1) BY <1>1, <2>1 DEF Shape
  <2> QED BY <1>1, <2>2 DEF Shape, Follows, Info, Hist
<1> QED BY <1>2, <1>3

\* Histories of the same length with the same statuses.
LEMMA SameHist ==
  ASSUME NEW a \in Databases, NEW e \in Databases, NEW m \in M6id,
         Size(a, m) = Size(e, m),
         \A i \in 1..Size(a, m) : Hist(e, m)[i] = Hist(a, m)[i]
  PROVE  Hist(e, m) = Hist(a, m)
<1> DEFINE s == Hist(a, m)
           t == Hist(e, m)
           S == HeightStamped(Status)
<1>1. s \in Seq(S) /\ t \in Seq(S) /\ Len(s) = Len(t)
      /\ \A i \in 1..Len(s) : t[i] = s[i]
  BY HistType DEF Size
<1> HIDE DEF s, t, S
<1>2. t = s BY <1>1, SeqEqual
<1> QED BY <1>2 DEF s, t

LEMMA GrownPop ==
  ASSUME NEW a, NEW lo, NEW h, NEW d, NEW mn, NEW n, NEW C, NEW L, NEW F, NEW g,
         Trace(a, lo, h, d, mn, n, C, L, F, g), StampsBelow(a, h), n > 0,
         NEW e, NEW m \in M6id, NEW kind, Pops(d, e, m, kind, h), Shapes(e)
  PROVE  Grown(a, lo, h, e, mn, n - 1, F[m], m)
<1> DEFINE f == F[m]
           s == Size(d, m)
           z == Size(a, m)
<1>1. /\ a \in Databases /\ d \in Databases /\ lo \in Nat /\ h \in Nat /\ n \in Nat
      /\ Shapes(a) /\ Shapes(d)
  BY DEF Trace
<1>2. m \notin C \cup L /\ z < s BY PopsOwn
<1>3. f \in [Nat -> Nat] /\ Grown(a, lo, h, d, mn, n, f, m) /\ z \in Nat /\ s \in Nat
  BY <1>2, TraceFacts
<1>4. /\ e \in Databases /\ Size(e, m) = s - 1
      /\ \A i \in 1..(s - 1) : Hist(e, m)[i] = Hist(d, m)[i]
      /\ Size(e, m) = 0 => Entry(e, m) = NoBundle
      /\ Size(e, m) > 0 =>
            /\ Info(e, m) = IF Info(d, m) = "Known" THEN "Known" ELSE "Unknown"
            /\ Entry(e, m).spend_utxos = {}
  BY <1>1, PoppedHist
<1>5. /\ \A i \in 1..z : Hist(d, m)[i] = Hist(a, m)[i]
      /\ Info(a, m) # "UnknownConfirmed"
      /\ z > 0 /\ Last(a, m) = "Pending" => Pend(a) = {m}
      /\ \A p \in (z + 1)..s :
            /\ Hist(d, m)[p].height = h /\ lo < f[p] /\ f[p] =< n /\ mn[f[p]].of = m
            /\ Matches(Hist(d, m)[p].value, mn[f[p]].kind)
            /\ \A q \in (p + 1)..s : f[p] < f[q]
  BY <1>2, <1>3 DEF Grown
<1>6. z = Size(a, m) /\ s = Size(d, m) OBVIOUS
<1> HIDE DEF f, s, z
<1>7. \A i \in 1..z : Hist(e, m)[i] = Hist(a, m)[i] BY <1>2, <1>3, <1>4, <1>5
<1>8. ASSUME z = s - 1 PROVE Entry(e, m) = Entry(a, m)
  <2>1. Hist(e, m) = Hist(a, m)
    <3>1. Size(a, m) = Size(e, m) BY <1>4, <1>6, <1>8
    <3> QED BY <1>1, <1>4, <1>6, <1>7, <3>1, SameHist
  <2>2. CASE z = 0
    <3>2. Hist(a, m) = << >> BY <1>1, <1>6, <2>2, HistType
    <3> QED BY <1>1, <1>4, <1>8, <2>2, <3>2 DEF Shapes, Shape, Hist
  <2>3. CASE z > 0
    <3>1. Size(e, m) > 0 /\ Size(d, m) > 0 /\ Size(a, m) > 0
      BY <1>2, <1>3, <1>4, <1>6, <1>8, <2>3
    <3>5. 1 \in 1..z BY <1>2, <1>3, <2>3
    <3>2. /\ Info(a, m) = "Known" <=> Info(d, m) = "Known"
          /\ Info(a, m) # "Absent"
      BY <1>1, <1>5, <3>1, <3>5, SameKind
    <3>3. Info(a, m) \in {"Known", "Unknown"} BY <1>1, <1>5, <3>2, HistType
    <3>4. Entry(a, m).spend_utxos = {} BY <1>1, <3>3 DEF Shapes, Shape, Info
    <3>6. /\ Entry(a, m) = [info |-> Info(a, m), spend_utxos |-> Entry(a, m).spend_utxos,
                            status |-> Hist(a, m)]
          /\ Entry(e, m) = [info |-> Info(e, m), spend_utxos |-> Entry(e, m).spend_utxos,
                            status |-> Hist(e, m)]
      BY <1>1, <1>4, HistType
    <3> QED BY <1>4, <2>1, <3>1, <3>2, <3>3, <3>4, <3>6
  <2> QED BY <1>3, <2>2, <2>3
<1>9. ASSUME NEW p \in (z + 1)..(s - 1)
      PROVE  /\ Hist(e, m)[p].height = h /\ lo < f[p] /\ f[p] =< n - 1
             /\ mn[f[p]].of = m /\ Matches(Hist(e, m)[p].value, mn[f[p]].kind)
             /\ \A q \in (p + 1)..(s - 1) : f[p] < f[q]
  <2>1. p \in (z + 1)..s /\ p \in 1..(s - 1) /\ s \in (p + 1)..s /\ s \in (z + 1)..s
        /\ p \in Nat
    BY <1>3
  <2>4. f[p] \in Nat /\ f[s] \in Nat BY <1>3, <2>1
  <2> QED BY <1>1, <1>3, <1>4, <1>5, <2>1, <2>4
<1> QED BY <1>2, <1>3, <1>4, <1>5, <1>6, <1>7, <1>8, <1>9 DEF Grown, f

LEMMA PopFailed ==
  ASSUME NEW a, NEW lo, NEW h, NEW d, NEW mn, NEW n, NEW C, NEW L, NEW F, NEW g,
         Trace(a, lo, h, d, mn, n, C, L, F, g), StampsBelow(a, h), n > 0,
         NEW e, NEW m \in M6id, Pops(d, e, m, mn[n].kind, h), mn[n].of = m
  PROVE  FailedGrown(a, lo, h, e, n - 1, F, g)
<1> DEFINE s == Size(d, m)
           k == Len(Failed(d))
           j == Len(Failed(a))
           f == F[m]
<1>1. /\ a \in Databases /\ d \in Databases /\ lo \in Nat /\ h \in Nat /\ n \in Nat
      /\ Shapes(a) /\ Shapes(d) /\ g \in [Nat -> Nat]
      /\ FailedGrown(a, lo, h, d, n, F, g)
  BY DEF Trace, Traced
<1>3. /\ f \in [Nat -> Nat] /\ Grown(a, lo, h, d, mn, n, f, m)
      /\ Size(a, m) \in Nat /\ s \in Nat
      /\ \A p \in (Size(a, m) + 1)..s : f[p] = n => p = s
  BY TraceFacts, PopsOwn
<1>4. /\ e \in Databases /\ Size(e, m) = s - 1 /\ s > 0
      /\ \A i \in 1..(s - 1) : Hist(e, m)[i] = Hist(d, m)[i]
      /\ Size(e, m) > 0 =>
            Info(e, m) = IF Info(d, m) = "Known" THEN "Known" ELSE "Unknown"
      /\ \A x \in M6id : x # m => Entry(e, x) = Entry(d, x)
  BY <1>1, PoppedHist
<1>5. j \in Nat /\ k \in Nat /\ j =< k /\ Len(Failed(e)) \in Nat
  BY <1>1, <1>4, FailedType DEF FailedGrown
<1>6. /\ \A i \in 1..j : Failed(d)[i] = Failed(a)[i]
      /\ \A p \in (j + 1)..k :
            g[p] =< n /\ \A q \in (p + 1)..k : g[p] < g[q]
  BY <1>1 DEF FailedGrown
<1>7. \A i \in 1..j : Failed(a)[i].height < h BY DEF StampsBelow
<1>8. IF Refund(d, m, s)
      THEN /\ Failed(d) # << >> /\ Latest(Failed(d)) = [value |-> m, height |-> h]
           /\ Failed(e) = Pop(Failed(d))
      ELSE Failed(e) = Failed(d)
  BY DEF Pops
<1>9. \A p, q \in (Size(a, m) + 1)..s : p < q => f[p] < f[q]
  <2> SUFFICES ASSUME NEW p \in (Size(a, m) + 1)..s, NEW q \in (Size(a, m) + 1)..s, p < q
               PROVE  f[p] < f[q]
    OBVIOUS
  <2>1. \A r \in (p + 1)..s : f[p] < f[r] BY <1>3 DEF Grown
  <2>2. q \in (p + 1)..s BY <1>3
  <2> QED BY <2>1, <2>2
\* What is left of the refunds.
<1>10. ASSUME NEW x \in M6id, NEW q \in (Size(a, x) + 1)..Size(d, x),
              Refund(d, x, q), x = m => q # s
       PROVE  q =< Size(e, x) /\ Refund(e, x, q)
  <2>2. CASE x # m
    <3>2. Size(e, x) = Size(d, x) /\ Hist(e, x) = Hist(d, x) /\ Info(e, x) = Info(d, x)
      BY <1>4, <2>2, SameEntry
    <3> QED BY <1>1, <1>10, <3>2, HistType DEF Refund
  <2>3. CASE x = m
    <3>2. /\ Info(d, m) = "Known" /\ q > 1
          /\ Hist(d, m)[q].value = "Failed" /\ Hist(d, m)[q - 1].value = "Submitted"
      BY <1>10, <2>3 DEF Refund
    <3> QED BY <1>3, <1>4, <1>10, <2>3, <3>2 DEF Refund
  <2> QED BY <2>2, <2>3
<1>11. ASSUME NEW p \in (j + 1)..k
       PROVE  RefundAt(a, d, C, L, F, g, p, Failed(d)[p].value)
  BY TraceFailed
<1>12. s = Size(d, m) /\ k = Len(Failed(d)) /\ j = Len(Failed(a)) /\ f = F[m] OBVIOUS
<1> HIDE DEF s, k, j, f
<1>13. CASE Refund(d, m, s)
  <2>1. /\ Failed(d) # << >> /\ Latest(Failed(d)) = [value |-> m, height |-> h]
        /\ Failed(e) = Pop(Failed(d))
    BY <1>8, <1>13
  <2>2. /\ Len(Failed(e)) = k - 1 /\ k > 0
        /\ \A i \in 1..(k - 1) : Failed(e)[i] = Failed(d)[i]
    <3>1. Failed(d) \in RollBackOf(M6id) BY <1>1, FailedType
    <3> QED BY <1>12, <2>1, <3>1, PopType
  <2>3. Failed(d)[k] = [value |-> m, height |-> h] BY <1>1, <1>12, <2>1, FailedType
  <2>4. j # k
    <3> SUFFICES ASSUME j = k PROVE FALSE OBVIOUS
    <3>3. h < h BY <1>5, <1>6, <1>7, <2>2, <2>3
    <3> QED BY <1>1, <3>3
  <2>5. k \in (j + 1)..k /\ j =< k - 1 BY <1>5, <2>4
  <2>6. PICK r \in (Size(a, m) + 1)..s : f[r] = g[k]
    BY <1>11, <1>12, <2>3, <2>5 DEF RefundAt
  <2>7. ASSUME NEW p \in (j + 1)..(k - 1) PROVE g[p] =< n - 1 /\ g[p] < g[k]
    <3>1. p \in (j + 1)..k /\ k \in (p + 1)..k /\ p \in Nat BY <1>5
    <3>3. g[p] \in Nat /\ g[k] \in Nat BY <1>1, <1>5, <3>1
    <3> QED BY <1>1, <1>6, <2>5, <3>1, <3>3
  <2>8. Carried(a, d, e, Len(Failed(e)), F, F, g)
    <3> SUFFICES ASSUME NEW p \in (Len(Failed(a)) + 1)..Len(Failed(e)),
                        NEW x, x = Failed(d)[p].value,
                        NEW q \in (Size(a, x) + 1)..Size(d, x),
                        Refund(d, x, q), F[x][q] = g[p]
                 PROVE  q =< Size(e, x) /\ Refund(e, x, q)
      BY DEF Carried
    <3>1. p \in (j + 1)..(k - 1) /\ p \in 1..k BY <1>5, <1>12, <2>2
    <3>2. x \in M6id BY <1>1, <1>12, <3>1, FailedType
    <3>3. x = m => q # s
      <4> SUFFICES ASSUME x = m, q = s PROVE FALSE OBVIOUS
      <4>2. r = s \/ r < s BY <1>3
      <4>5. r \in Nat /\ s \in Nat BY <1>3
      <4> DEFINE u == f[r]
                 v == f[s]
      <4>7. u \in Nat /\ v \in Nat /\ v < u /\ (u = v \/ u < v)
        BY <1>3, <1>9, <1>12, <2>6, <2>7, <3>1, <4>2, <4>5
      <4> HIDE DEF u, v
      <4> QED BY <4>7
    <3> QED BY <1>10, <3>2, <3>3
  <2>9. /\ Len(Failed(e)) =< Len(Failed(d)) /\ Len(Failed(a)) =< Len(Failed(e))
        /\ \A i \in 1..Len(Failed(e)) : Failed(e)[i] = Failed(d)[i]
    BY <1>5, <1>12, <2>2, <2>5
  <2> QED BY <1>1, <1>4, <1>12, <2>2, <2>7, <2>8, <2>9, FailedPrefix
<1>14. CASE ~Refund(d, m, s)
  <2>1. Failed(e) = Failed(d) BY <1>8, <1>14
  <2>2. ASSUME NEW p \in (j + 1)..k PROVE g[p] =< n - 1
    <3> DEFINE x == Failed(d)[p].value
    <3>1. RefundAt(a, d, C, L, F, g, p, x) BY <1>11
    <3> HIDE DEF x
    <3>3. PICK q \in (Size(a, x) + 1)..Size(d, x) : Refund(d, x, q) /\ F[x][q] = g[p]
      BY <3>1 DEF RefundAt
    <3>4. /\ F[x][q] \in Nat /\ F[x][q] =< n
          /\ F[x][q] = n => q = Size(d, x) /\ mn[n].of = x
      BY <3>1, TraceFacts DEF RefundAt
    <3>5. g[p] # n BY <1>12, <1>14, <3>3, <3>4
    <3> QED BY <1>1, <3>3, <3>4, <3>5
  <2>3. Carried(a, d, e, Len(Failed(e)), F, F, g)
    <3> SUFFICES ASSUME NEW p \in (Len(Failed(a)) + 1)..Len(Failed(e)),
                        NEW x, x = Failed(d)[p].value,
                        NEW q \in (Size(a, x) + 1)..Size(d, x),
                        Refund(d, x, q), F[x][q] = g[p]
                 PROVE  q =< Size(e, x) /\ Refund(e, x, q)
      BY DEF Carried
    <3>1. p \in 1..k BY <1>5, <1>12, <2>1
    <3> QED BY <1>1, <1>10, <1>12, <1>14, <3>1, FailedType
  <2>4. /\ Len(Failed(e)) =< Len(Failed(d)) /\ Len(Failed(a)) =< Len(Failed(e))
        /\ \A i \in 1..Len(Failed(e)) : Failed(e)[i] = Failed(d)[i]
    BY <1>5, <1>12, <2>1
  <2> QED BY <1>1, <1>4, <1>12, <2>1, <2>2, <2>3, <2>4, FailedPrefix
<1> QED BY <1>13, <1>14

\* The bundle that is pending after a status was taken back.
LEMMA PopPend ==
  ASSUME NEW a, NEW lo, NEW h, NEW d, NEW mn, NEW n, NEW C, NEW L, NEW F, NEW g,
         Trace(a, lo, h, d, mn, n, C, L, F, g), StampsBelow(a, h), PendingGood(a),
         NEW e, NEW m \in M6id, NEW kind, Pops(d, e, m, kind, h),
         Pend(d) = IF \E x \in Pend(a) : Size(d, x) = Size(a, x)
                   THEN Pend(a) ELSE C
  PROVE  Pend(e) = IF \E x \in Pend(a) : Size(e, x) = Size(a, x)
                   THEN Pend(a) ELSE C
<1> DEFINE s == Size(d, m)
           z == Size(a, m)
           back == /\ Info(d, m) = "Known" /\ s > 1
                   /\ Hist(d, m)[s - 1].value = "Pending"
<1>1. a \in Databases /\ d \in Databases /\ Shapes(a) /\ Shapes(d) BY DEF Trace
<1>2. m \notin C \cup L /\ z < s BY PopsOwn
<1>3. Grown(a, lo, h, d, mn, n, F[m], m) /\ z \in Nat /\ s \in Nat BY <1>2, TraceFacts
<1>4. /\ \A i \in 1..z : Hist(d, m)[i] = Hist(a, m)[i]
      /\ z > 0 /\ Last(a, m) = "Pending" => Pend(a) = {m}
      /\ \A p \in (z + 1)..s : Hist(d, m)[p].value # "Pending"
  BY <1>2, <1>3 DEF Grown, Matches
<1>5. Size(e, m) = s - 1 /\ \A x \in M6id : x # m => Size(e, x) = Size(d, x)
  BY <1>1, PoppedHist, SameEntry
<1>6. Pend(e) = IF back THEN {m} ELSE Pend(d) BY DEF Pops
<1>7. Pend(a) \subseteq M6id BY <1>1 DEF Pend, Databases
<1>8. z = Size(a, m) /\ s = Size(d, m) OBVIOUS
<1>9. CASE back
  <2>1. Hist(d, m)[s - 1].value = "Pending" /\ s > 1 BY <1>9
  <2> HIDE DEF s, z
  <2>2. s - 1 = z
    <3> SUFFICES ASSUME s - 1 # z PROVE FALSE OBVIOUS
    <3> QED BY <1>2, <1>3, <1>4, <2>1
  <2>3. z \in 1..z /\ z > 0 BY <1>3, <2>1, <2>2
  <2>4. Hist(a, m)[z].value = "Pending" BY <1>4, <2>1, <2>2, <2>3
  <2>5. Last(a, m) = "Pending" BY <1>1, <1>8, <2>3, <2>4, HistType
  <2> QED BY <1>4, <1>5, <1>6, <1>8, <1>9, <2>2, <2>3, <2>5
<1>10. CASE ~back
  <2>1. m \in Pend(a) => s - 1 # z
    <3> SUFFICES ASSUME m \in Pend(a), s - 1 = z PROVE FALSE OBVIOUS
    <3>1. Info(a, m) = "Known" /\ Last(a, m) = "Pending" BY DEF PendingGood, Pend, Info
    <3>2. Hist(a, m) # << >> BY <1>1, <3>1 DEF Shapes, Shape, Info, Hist
    <3>3. z > 0 /\ Hist(a, m)[z].value = "Pending" BY <1>1, <3>1, <3>2, HistType
    <3>4. 1 \in 1..z /\ z \in 1..z /\ s > 0 BY <1>2, <1>3, <3>3
    <3>5. Info(d, m) = "Known" BY <1>1, <1>4, <1>8, <3>1, <3>4, SameKind
    <3> QED BY <1>1, <1>2, <1>3, <1>4, <1>10, <3>3, <3>4, <3>5
  <2> HIDE DEF s, z, back
  <2> QED BY <1>2, <1>3, <1>5, <1>6, <1>7, <1>8, <1>10, <2>1
<1> QED BY <1>9, <1>10

LEMMA PopProgress ==
  ASSUME NEW b \in Block, NEW h \in Nat, NEW d \in Databases, NEW e,
         NEW m \in M6id, NEW n \in Nat, n > 0, NEW mn, mn[n].of = m,
         NEW C, NEW L, Progress(b, h, d, mn, n, C, L),
         Shapes(b.before), StampsBelow(b.before, h), PendingGood(b.before),
         Shapes(d), Shapes(e), Pops(d, e, m, mn[n].kind, h)
  PROVE  Progress(b, h, e, mn, n - 1, C, L)
<1> DEFINE a == b.before
           lo == b.events
<1>1. a \in Databases /\ lo \in Nat BY DEF Block
<1>2. /\ Outputs(d) \ Deposit = (Outputs(a) \ Deposit) \cup b.created
      /\ Extra(a, h, d, C, L)
      /\ Pend(d) = IF \E x \in Pend(a) : Size(d, x) = Size(a, x)
                   THEN Pend(a) ELSE C
  BY DEF Progress, Extra
<1>3. PICK F \in [M6id -> [Nat -> Nat]], g \in [Nat -> Nat] :
          Traced(a, lo, h, d, mn, n, C, L, F, g)
  BY DEF Progress
<1>4. Shapes(a) /\ StampsBelow(a, h) /\ PendingGood(a) OBVIOUS
<1> HIDE DEF a, lo
<1>5. Trace(a, lo, h, d, mn, n, C, L, F, g) BY <1>1, <1>2, <1>3, <1>4 DEF Trace
<1>6. /\ e \in Databases /\ Outputs(e) = Outputs(d)
      /\ \A x \in M6id : x # m => Entry(e, x) = Entry(d, x)
      /\ Pend(e) \in {{m}, Pend(d)}
  BY DEF Pops, OnlyMoves
<1>7. m \notin C \cup L BY <1>4, <1>5, PopsOwn
<1>9. FailedGrown(a, lo, h, e, n - 1, F, g) BY <1>4, <1>5, PopFailed
<1>10. ASSUME NEW x \in M6id, x \notin C \cup L
       PROVE  Grown(a, lo, h, e, mn, n - 1, F[x], x)
  <2>1. CASE x = m BY <1>4, <1>5, <2>1, GrownPop
  <2>2. CASE x # m
    <3> DEFINE f == F[x]
               n2 == n - 1
    <3>1. /\ f \in [Nat -> Nat] /\ Grown(a, lo, h, d, mn, n, f, x)
          /\ Size(a, x) \in Nat /\ Size(d, x) \in Nat
          /\ \A p \in (Size(a, x) + 1)..Size(d, x) :
                f[p] \in Nat /\ f[p] =< n /\ (f[p] = n => mn[n].of = x)
      BY <1>5, <1>10, TraceFacts
    <3>2. n2 \in Nat /\ \A y \in Nat : y =< n /\ y # n => y =< n2 OBVIOUS
    <3>3. Entry(e, x) = Entry(d, x) BY <1>6, <2>2
    <3> HIDE DEF f, n2
    <3>6. Grown(a, lo, h, e, mn, n2, f, x) BY <1>1, <2>2, <3>1, <3>2, <3>3, GrownTo
    <3> QED BY <3>6 DEF f, n2
  <2> QED BY <2>1, <2>2
<1>12. Pend(e) = IF \E x \in Pend(a) : Size(e, x) = Size(a, x)
                 THEN Pend(a) ELSE C
  BY <1>2, <1>4, <1>5, PopPend
<1>14. ASSUME NEW x \in L
       PROVE  x \notin C /\ LeftOver(e, x, h) /\ OldOrNone(a, x, h)
  <2>2. x # m BY <1>7
  <2> QED BY <1>2, <1>6, <2>2 DEF LeftOver, Entry, Pend, Extra
<1> QED
  BY <1>2, <1>6, <1>7, <1>9, <1>10, <1>12, <1>14 DEF Progress, a, lo, Traced, Extra,
     Collects

LEMMA ProgressTrace ==
  ASSUME NEW b \in Block, NEW h \in Nat, NEW d \in Databases, NEW n \in Nat,
         NEW mn, NEW C, NEW L, Shapes(b.before), Shapes(d),
         Progress(b, h, d, mn, n, C, L)
  PROVE  \E F, g : Trace(b.before, b.events, h, d, mn, n, C, L, F, g)
<1>2. PICK F \in [M6id -> [Nat -> Nat]], g \in [Nat -> Nat] :
          Traced(b.before, b.events, h, d, mn, n, C, L, F, g)
  BY DEF Progress
<1> QED BY <1>2 DEF Trace, Block, Progress, Extra

\* A bundle that was left over, or that there was not, has nothing but Pending.
LEMMA OldPending ==
  ASSUME NEW a \in Databases, NEW m \in M6id, NEW h, Shapes(a), OldOrNone(a, m, h)
  PROVE  \A i \in 1..Size(a, m) : Hist(a, m)[i].value = "Pending"
<1>1. CASE Entry(a, m) = NoBundle BY <1>1, HistType DEF Hist, NoBundle
<1>2. CASE LeftOver(a, m, h) BY <1>2, LeftOverPending DEF Shapes, AllPending
<1> QED BY <1>1, <1>2 DEF OldOrNone

\* Nothing happens to a bundle that was left over.
LEMMA LeftOverSame ==
  ASSUME NEW a, NEW lo, NEW h, NEW d, NEW mn, NEW n, NEW C, NEW L, NEW F, NEW g,
         Trace(a, lo, h, d, mn, n, C, L, F, g),
         NEW m \in M6id, m \notin C \cup L, LeftOver(a, m, h)
  PROVE  Entry(d, m) = Entry(a, m)
<1>1. /\ a \in Databases /\ Shapes(a) /\ Grown(a, lo, h, d, mn, n, F[m], m)
      /\ Size(a, m) \in Nat /\ Size(d, m) \in Nat /\ Size(a, m) =< Size(d, m)
  BY TraceFacts DEF Trace
<1>2. AllPending(a, m) /\ m \notin Pend(a)
  BY <1>1, LeftOverPending DEF Shapes, LeftOver, Pend
<1>3. Size(a, m) > 0 /\ Last(a, m) = "Pending" BY <1>1, <1>2, HistType DEF AllPending
<1> QED BY <1>1, <1>2, <1>3 DEF Grown

\* The stamps of a bundle within a block.
LEMMA StampsWithin ==
  ASSUME NEW a, NEW lo, NEW h, NEW d, NEW mn, NEW n, NEW C, NEW L, NEW F, NEW g,
         Trace(a, lo, h, d, mn, n, C, L, F, g), StampsBelow(a, h),
         NEW m \in M6id, m \notin C \cup L
  PROVE  \/ LeftOver(a, m, h) /\ Entry(d, m) = Entry(a, m)
         \/ \A i \in 1..Size(d, m) :
               /\ Hist(d, m)[i].height =< h
               /\ i =< Size(a, m) => Hist(d, m)[i].height < h
<1>1. /\ a \in Databases /\ d \in Databases /\ h \in Nat
      /\ Grown(a, lo, h, d, mn, n, F[m], m)
      /\ Size(a, m) \in Nat /\ Size(d, m) \in Nat /\ Size(a, m) =< Size(d, m)
  BY TraceFacts DEF Trace
<1>2. CASE LeftOver(a, m, h) BY <1>2, LeftOverSame
<1>3. CASE \A i \in 1..Size(a, m) : Hist(a, m)[i].height < h
  <2> SUFFICES ASSUME NEW i \in 1..Size(d, m)
               PROVE  /\ Hist(d, m)[i].height =< h
                      /\ i =< Size(a, m) => Hist(d, m)[i].height < h
    OBVIOUS
  <2>1. CASE i =< Size(a, m) BY <1>1, <1>3, <2>1, HistType DEF Grown
  <2>2. CASE ~(i =< Size(a, m)) BY <1>1, <2>2 DEF Grown
  <2> QED BY <2>1, <2>2
<1> QED BY <1>2, <1>3 DEF StampsBelow

\* The latest failures have their stamps within a block as well.
LEMMA TraceFailures ==
  ASSUME NEW a, NEW lo, NEW h, NEW d, NEW mn, NEW n, NEW C, NEW L, NEW F, NEW g,
         Trace(a, lo, h, d, mn, n, C, L, F, g), Failures(a)
  PROVE  Failures(d)
<1>1. /\ a \in Databases /\ d \in Databases /\ h \in Nat /\ Shapes(a) /\ Shapes(d)
      /\ Extra(a, h, d, C, L) /\ FailedGrown(a, lo, h, d, n, F, g)
  BY DEF Trace, Traced
<1> DEFINE j == Len(Failed(a))
           k == Len(Failed(d))
<1>2. j \in Nat /\ k \in Nat /\ \A i \in 1..k : Failed(d)[i].value \in M6id
  BY <1>1, FailedType
<1>5. SUFFICES ASSUME NEW i \in 1..k, NEW x, x = Failed(d)[i].value
               PROVE  \E q \in 1..Size(d, x) :
                         Hist(d, x)[q] = [value |-> "Failed",
                                          height |-> Failed(d)[i].height]
  BY DEF Failures
<1>6. x \in M6id BY <1>2, <1>5
<1>7. CASE i \in 1..j
  <2>2. PICK q \in 1..Size(a, x) :
            Hist(a, x)[q] = [value |-> "Failed", height |-> Failed(d)[i].height]
    BY <1>1, <1>5, <1>7 DEF Failures, FailedGrown
  <2>4. x \notin C \cup L
    <3> SUFFICES ASSUME x \in C \cup L PROVE FALSE OBVIOUS
    <3> QED BY <1>1, <1>6, <2>2, OldPending DEF Extra, Collects
  <2>6. Hist(d, x)[q] = Hist(a, x)[q] /\ q \in 1..Size(d, x)
    BY <1>6, <2>4, TraceFacts DEF Grown
  <2> QED BY <2>2, <2>6
<1>8. CASE i \notin 1..j
  <2>1. i \in (j + 1)..k BY <1>2, <1>8
  <2>4. x \notin C \cup L /\ \E q \in (Size(a, x) + 1)..Size(d, x) : Refund(d, x, q)
    BY <1>5, <2>1, TraceFailed DEF RefundAt
  <2>5. PICK q \in (Size(a, x) + 1)..Size(d, x) : Refund(d, x, q) BY <2>4
  <2>6. /\ Grown(a, lo, h, d, mn, n, F[x], x)
        /\ Size(a, x) \in Nat /\ Size(d, x) \in Nat
    BY <1>6, <2>4, TraceFacts
  <2>7. q \in 1..Size(d, x) BY <2>6
  <2>9. Hist(d, x)[q] \in HeightStamped(Status)
    BY <1>1, <1>6, <2>7, ElementOfSeq, HistType DEF Size
  <2> QED
    BY <1>1, <2>1, <2>5, <2>6, <2>7, <2>9 DEF HeightStamped, Grown, Refund, FailedGrown
<1> QED BY <1>7, <1>8

-----------------------------------------------------------------------------
(* The invariant of the databases, the chain and the mainchain *)

\* The records of a block: none, or one for the last of its events.
LogSince(log, was, h, lo, mn, n, kinds) ==
    \/ log = was
    \/ /\ \E i \in (lo + 1)..n : mn[i].kind \in kinds
       /\ \E x \in Nat : /\ x > BlockOf(mn, lo)
                         /\ log = Append(was, [block |-> x, height |-> h])

OfBundles == {"Submitted", "Confirmed", "Failed"}

\* The databases d after the block b at height h, which applied n events.
Since(b, h, d, mn, n) ==
    /\ \E C, L : Progress(b, h, d, mn, n, C, L)
    /\ LogSince(d.deposit_blocks, b.before.deposit_blocks,
                h, b.events, mn, n, {"Deposit"})
    /\ LogSince(d.withdrawal_bundle_event_blocks,
                b.before.withdrawal_bundle_event_blocks,
                h, b.events, mn, n, OfBundles)

\* A body spends utxos and creates outputs that there were not before.
BodyFits(b) ==
    /\ b.spent \subseteq b.before.utxos /\ b.created \cap Outputs(b.before) = {}

DbAfter(c, k, d, i) == IF i < k THEN c[i + 1].before ELSE d
EventsAfter(c, k, n, i) == IF i < k THEN c[i + 1].events ELSE n

\* The i-th of the k blocks that led to the databases d.
Linked(c, mn, d, k, n, i) ==
    /\ c[i] \in Block /\ BodyFits(c[i]) /\ c[i].events =< n
    /\ c[i].events =< EventsAfter(c, k, n, i)
    /\ Sound(c[i].before, c, i - 1, mn, c[i].events)
    /\ Since(c[i], i - 1, DbAfter(c, k, d, i), mn, EventsAfter(c, k, n, i))

\* The databases d that are committed, with k blocks and n events applied.
Settled(c, mn, d, k, n) ==
    /\ Sound(d, c, k, mn, n) /\ \A i \in 1..k : Linked(c, mn, d, k, n, i)

\* Sound looks at the first k blocks and the first n events.
LEMMA SoundAgree ==
  ASSUME NEW c, NEW c2, NEW mn, NEW mn2, NEW d, NEW k \in Nat, NEW n \in Nat,
         \A i \in 1..k : c2[i] = c[i], \A i \in 1..n : mn2[i] = mn[i],
         Sound(d, c, k, mn, n)
  PROVE  Sound(d, c2, k, mn2, n)
<1>3. \A m : LastIn(mn2, 1, n, "Submitted", m) => LastIn(mn, 1, n, "Submitted", m)
  <2> SUFFICES ASSUME NEW m, LastIn(mn2, 1, n, "Submitted", m)
               PROVE  LastIn(mn, 1, n, "Submitted", m)
    OBVIOUS
  <2>1. PICK i \in 1..n : /\ mn2[i].kind = "Submitted" /\ mn2[i].of = m
                          /\ \A j \in (i + 1)..n : mn2[j].of # m
    BY DEF LastIn
  <2> QED BY <2>1 DEF LastIn
<1> QED BY <1>3 DEF Sound, Whole, RegularIn, Deposited, BlockOf, Awaited

LEMMA LogSinceAgree ==
  ASSUME NEW log, NEW was, NEW h, NEW lo \in Nat, NEW mn, NEW mn2, NEW n \in Nat,
         NEW kinds, lo =< n, \A i \in 1..n : mn2[i] = mn[i],
         LogSince(log, was, h, lo, mn, n, kinds)
  PROVE  LogSince(log, was, h, lo, mn2, n, kinds)
<1> QED BY DEF LogSince, BlockOf

LEMMA SinceAgree ==
  ASSUME NEW b \in Block, NEW h \in Nat, NEW d \in Databases, NEW mn, NEW mn2,
         NEW n \in Nat, b.events =< n, \A i \in 1..n : mn2[i] = mn[i],
         Shapes(b.before), Shapes(d), Since(b, h, d, mn, n)
  PROVE  Since(b, h, d, mn2, n)
<1>1. PICK C, L : Progress(b, h, d, mn, n, C, L) BY DEF Since
<1>2. SameBundles(d, d) /\ b.events \in Nat BY DEF SameBundles, Block
<1>3. (\A i \in 1..n : i =< n => mn2[i] = mn[i]) /\ n =< n OBVIOUS
<1>4. Progress(b, h, d, mn2, n, C, L)
  <2>1. Outputs(d) \ Deposit = Outputs(d) \ Deposit OBVIOUS
  <2> QED
    BY ONLY <1>1, <1>2, <1>3, <2>1, SameProgress, b \in Block, h \in Nat, n \in Nat,
       Shapes(b.before), Shapes(d)
<1> DEFINE lo == b.events
           p == d.deposit_blocks
           q == d.withdrawal_bundle_event_blocks
           pw == b.before.deposit_blocks
           qw == b.before.withdrawal_bundle_event_blocks
           one == {"Deposit"}
<1>5. /\ lo \in Nat /\ lo =< n /\ LogSince(p, pw, h, lo, mn, n, one)
      /\ LogSince(q, qw, h, lo, mn, n, OfBundles)
  BY <1>2 DEF Since
<1> HIDE DEF lo, p, q, pw, qw, one
<1> QED BY <1>4, <1>5, LogSinceAgree DEF Since, lo, p, q, pw, qw, one

LEMMA SettledAgree ==
  ASSUME NEW c, NEW c2, NEW mn, NEW mn2, NEW d, NEW k \in Nat, NEW n \in Nat,
         \A i \in 1..k : c2[i] = c[i], \A i \in 1..n : mn2[i] = mn[i],
         Settled(c, mn, d, k, n)
  PROVE  Settled(c2, mn2, d, k, n)
<1>1. Sound(d, c2, k, mn2, n) BY SoundAgree DEF Settled
<1>2. ASSUME NEW i \in 1..k PROVE Linked(c2, mn2, d, k, n, i)
  <2> DEFINE b == c[i]
             h == i - 1
             e == DbAfter(c, k, d, i)
             r == EventsAfter(c, k, n, i)
  <2>2. c2[i] = b /\ h \in Nat /\ \A j \in 1..h : c2[j] = c[j] OBVIOUS
  <2>3. i < k => i + 1 \in 1..k /\ c2[i + 1] = c[i + 1]
                 /\ Linked(c, mn, d, k, n, i + 1)
    BY DEF Settled
  <2>4. DbAfter(c2, k, d, i) = e /\ EventsAfter(c2, k, n, i) = r
    BY <2>3 DEF DbAfter, EventsAfter
  <2>5. /\ b \in Block /\ BodyFits(b) /\ b.events =< n /\ b.events =< r
        /\ Sound(b.before, c, h, mn, b.events) /\ Since(b, h, e, mn, r)
    BY DEF Linked, Settled
  <2>6. b.events \in Nat BY <2>5 DEF Block
  <2>7. r \in Nat /\ r =< n
    <3>1. CASE i < k BY <2>3, <3>1 DEF EventsAfter, Linked, Block
    <3>2. CASE ~(i < k) BY <3>2 DEF EventsAfter
    <3> QED BY <3>1, <3>2
  <2>8. e \in Databases /\ Shapes(e)
    <3>1. CASE i < k BY <2>3, <3>1 DEF DbAfter, Linked, Sound, Whole
    <3>2. CASE ~(i < k) BY <3>2 DEF DbAfter, Settled, Sound, Whole
    <3> QED BY <3>1, <3>2
  <2> HIDE DEF b, h, e, r
  <2>9. Sound(b.before, c2, h, mn2, b.events)
    <3> DEFINE x == b.before
               y == b.events
    <3>1. Sound(x, c, h, mn, y) /\ y \in Nat /\ \A j \in 1..y : mn2[j] = mn[j]
      BY <2>5, <2>6
    <3> HIDE DEF x, y
    <3> QED BY <2>2, <3>1, SoundAgree DEF x, y
  <2> QED BY <2>2, <2>4, <2>5, <2>7, <2>8, <2>9, SinceAgree DEF Linked, h, Sound, Whole
<1> QED BY <1>1, <1>2 DEF Settled

\* The events come in the order of their blocks, those of a sidechain block are
\* in later mainchain blocks than those before it, and no deposit comes twice.
MainGood(c, mn) ==
    /\ \A i \in 1..Len(mn) : 0 < mn[i].block
    /\ \A i, j \in 1..Len(mn) : i =< j => mn[i].block =< mn[j].block
    /\ \A k \in 1..Len(c) : \A i \in (c[k].events + 1)..Len(mn) :
          BlockOf(mn, c[k].events) < mn[i].block
    /\ \A i, j \in 1..Len(mn) :
          /\ mn[i].kind = "Deposit" /\ mn[j].kind = "Deposit" /\ mn[i].of = mn[j].of
          => i = j

\* The last block with such an event that connect met.
Met(block, lo, mn, n, kinds) ==
    \/ block = 0
    \/ /\ BlockOf(mn, lo) < block /\ block =< BlockOf(mn, n)
       /\ \E i \in (lo + 1)..n : mn[i].kind \in kinds

\* An outcome that the open block reported is the status of its bundle.
Echoed(d, mn, lo, n) ==
    \A kind \in {"Confirmed", "Failed"}, m \in M6id :
        LastIn(mn, lo + 1, n, kind, m) =>
            Info(d, m) # "Absent" /\ Last(d, m) = kind

SameRecords(d, e) ==
    /\ d.deposit_blocks = e.deposit_blocks
    /\ d.withdrawal_bundle_event_blocks = e.withdrawal_bundle_event_blocks

\* Inside connect: the committed databases with the body and the events so far.
Connecting ==
    /\ tip.before = committed /\ BodyFits(tip)
    /\ Settled(chain, main, committed, Len(chain) - 1, tip.events)
    /\ Progress(tip, height, db, main, Len(main), {}, {})
    /\ Whole(db, chain, Len(chain), main, Len(main)) /\ Awaited(db, main, Len(main))
    /\ Echoed(db, main, tip.events, Len(main)) /\ Diff(db, txn)
    /\ SameRecords(db, committed)
    /\ Met(txn.deposit_block, tip.events, main, Len(main), {"Deposit"})
    /\ Met(txn.event_block, tip.events, main, Len(main), OfBundles)

\* The first block with such an event that disconnect met.
Lowest(block, u, mn, n, kinds) ==
    \A i \in (u + 1)..n : mn[i].kind \in kinds => 0 < block /\ block =< mn[i].block

\* Inside disconnect: those of the parent with the events not yet undone.
Disconnecting ==
    /\ \E C, L : Progress(tip, height, db, main, txn.undo, C, L)
    /\ Whole(db, chain, Len(chain), main, txn.undo) /\ SameRecords(db, committed)
    /\ txn.start_block =< BlockOf(main, tip.events)
    /\ Lowest(txn.deposit_block, txn.undo, main, Len(main), {"Deposit"})
    /\ Lowest(txn.event_block, txn.undo, main, Len(main), OfBundles)

\* The inductive invariant.  It rests on IInv, that of the funds.
RInv ==
    /\ IInv
    /\ net_task # "running" => txn.phase = "idle"
    /\ txn.phase = "idle" => db = committed /\ txn = NoTransaction
    /\ MainGood(chain, main)
    /\ txn.phase = "connect" => Connecting
    /\ txn.phase # "connect" => Settled(chain, main, committed, Len(chain), Len(main))
    /\ txn.phase = "disconnect" => Disconnecting

-----------------------------------------------------------------------------
(* Every step of connect_two_way_peg_data preserves it *)

LEMMA ChainFacts ==
  ASSUME TInv
  PROVE  /\ chain \in Seq(Block) /\ Len(chain) \in Nat
         /\ main \in Seq(Event) /\ Len(main) \in Nat
         /\ db \in Databases /\ committed \in Databases /\ txn \in Transaction
         /\ \A i \in 1..Len(chain) : /\ chain[i] \in Block /\ chain[i].events \in Nat
                                     /\ chain[i].before \in Databases
                                     /\ chain[i].events =< Len(main)
         /\ txn.phase # "idle" =>
               /\ Len(chain) > 0 /\ tip \in Block /\ tip.events \in Nat
               /\ tip.events =< Len(main) /\ tip.before \in Databases
               /\ height \in Nat /\ height = Len(chain) - 1
<1>1. /\ chain \in Seq(Block) /\ Len(chain) \in Nat
      /\ main \in Seq(Event) /\ Len(main) \in Nat
      /\ db \in Databases /\ committed \in Databases /\ txn \in Transaction
  BY LenProperties DEF TInv, TypeOK
<1>2. ASSUME NEW i \in 1..Len(chain)
      PROVE  /\ chain[i] \in Block /\ chain[i].events \in Nat
             /\ chain[i].before \in Databases /\ chain[i].events =< Len(main)
  <2>1. chain[i] \in Block BY <1>1, ElementOfSeq
  <2> QED BY <2>1 DEF Block, TInv, ChainGood
<1>3. ASSUME txn.phase # "idle"
      PROVE  /\ Len(chain) > 0 /\ tip \in Block /\ tip.events \in Nat
             /\ tip.events =< Len(main) /\ tip.before \in Databases
             /\ height \in Nat /\ height = Len(chain) - 1
  BY <1>1, <1>2, <1>3 DEF tip, height, TInv, ChainGood
<1> QED BY <1>1, <1>2, <1>3

\* Taking back the last block and its events.
LEMMA PrefixMainGood ==
  ASSUME NEW c \in Seq(Block), NEW mn \in Seq(Event), NEW k \in 0..Len(c),
         NEW n \in 0..Len(mn), MainGood(c, mn),
         NEW c2, c2 = SubSeq(c, 1, k), NEW mn2, mn2 = SubSeq(mn, 1, n),
         \A i \in 1..k : c[i].events =< n
  PROVE  MainGood(c2, mn2)
<1>1. Len(c2) = k /\ \A i \in 1..k : c2[i] = c[i] BY PrefixType
<1>2. Len(mn2) = n /\ \A i \in 1..n : mn2[i] = mn[i] BY PrefixType
<1>3. Len(c) \in Nat /\ Len(mn) \in Nat /\ k \in Nat /\ n \in Nat
      /\ k =< Len(c) /\ n =< Len(mn)
  BY LenProperties
<1>4. \A i \in 1..k : i \in 1..Len(c) /\ c[i].events \in Nat
  <2>1. \A i \in 1..k : i \in 1..Len(c) BY <1>3
  <2>2. \A i \in 1..k : c[i] \in Block BY <2>1, ElementOfSeq
  <2> QED BY <2>1, <2>2 DEF Block
<1>5. \A i \in 1..n : i \in 1..Len(mn) BY <1>3
<1>6. \A i \in 1..Len(mn2) : 0 < mn2[i].block BY <1>2, <1>5 DEF MainGood
<1>7. \A i, j \in 1..Len(mn2) : i =< j => mn2[i].block =< mn2[j].block
  BY <1>2, <1>5 DEF MainGood
<1>8. ASSUME NEW i \in 1..k, NEW j \in (c[i].events + 1)..n
      PROVE  BlockOf(mn2, c[i].events) < mn2[j].block
  <2> DEFINE v == c[i].events
  <2>1. v \in Nat /\ v =< n /\ i \in 1..Len(c) BY <1>4
  <2>2. j \in (v + 1)..Len(mn) /\ j \in 1..n BY <1>3, <2>1
  <2>3. BlockOf(mn, v) < mn[j].block BY <2>1, <2>2 DEF MainGood
  <2> HIDE DEF v
  <2>4. BlockOf(mn2, v) = BlockOf(mn, v) BY <1>2, <2>1 DEF BlockOf
  <2> QED BY <1>2, <2>2, <2>3, <2>4 DEF v
<1>9. \A i, j \in 1..Len(mn2) :
          /\ mn2[i].kind = "Deposit" /\ mn2[j].kind = "Deposit" /\ mn2[i].of = mn2[j].of
          => i = j
  BY <1>2, <1>5 DEF MainGood
<1>10. \A i \in 1..Len(c2) : \A j \in (c2[i].events + 1)..Len(mn2) :
           BlockOf(mn2, c2[i].events) < mn2[j].block
  <2> SUFFICES ASSUME NEW i \in 1..Len(c2), NEW j \in (c2[i].events + 1)..Len(mn2)
               PROVE  BlockOf(mn2, c2[i].events) < mn2[j].block
    OBVIOUS
  <2> QED BY <1>1, <1>2, <1>8
<1> QED BY <1>6, <1>7, <1>9, <1>10 DEF MainGood

\* Nothing but the net task changes.
LEMMA SameRInv ==
  ASSUME RInv, IInv', db' = db, committed' = committed, txn' = txn,
         chain' = chain, main' = main,
         net_task' # "running" => txn.phase = "idle"
  PROVE  RInv'
<1> QED BY DEF RInv, Connecting, Disconnecting, tip, height

LEMMA AbortRInv ==
  ASSUME RInv, IInv', Aborts
  PROVE  RInv'
<1>1. TInv BY DEF RInv, IInv
<1>2. PICK outcome \in {"error", "panicked"} : Abort(outcome) BY DEF Aborts
<1>3. db' = committed /\ txn' = NoTransaction /\ committed' = committed
  BY <1>2 DEF Abort
<1>4. txn'.phase = "idle" BY <1>3 DEF NoTransaction
<1>5. CASE txn.phase = "connect"
  <2> DEFINE k == Len(chain) - 1
             n == tip.events
  <2>2. /\ chain \in Seq(Block) /\ main \in Seq(Event)
        /\ k \in 0..Len(chain) /\ n \in 0..Len(main) /\ k \in Nat /\ n \in Nat
        /\ \A i \in 1..k : chain[i].events =< n
    BY <1>1, <1>5, ChainFacts DEF TInv, ChainGood, tip
  <2>3. MainGood(chain, main) /\ Settled(chain, main, committed, k, n)
    BY <1>5 DEF RInv, Connecting
  <2>4. chain' = SubSeq(chain, 1, k) /\ main' = SubSeq(main, 1, n)
    BY <1>2, <1>5 DEF Abort
  <2> HIDE DEF k, n
  <2>6. /\ Len(chain') = k /\ \A i \in 1..k : chain'[i] = chain[i]
        /\ Len(main') = n /\ \A i \in 1..n : main'[i] = main[i]
    BY <2>2, <2>4, PrefixType
  <2>7. Settled(chain', main', committed, k, n) BY <2>2, <2>3, <2>6, SettledAgree
  <2> QED BY <1>3, <1>4, <2>2, <2>3, <2>4, <2>6, <2>7, PrefixMainGood DEF RInv
<1>6. CASE txn.phase # "connect" BY <1>2, <1>3, <1>4, <1>6 DEF RInv, Abort
<1> QED BY <1>5, <1>6

LEMMA RestartRInv ==
  ASSUME RInv, IInv', Restart
  PROVE  RInv'
BY SameRInv DEF Restart

LEMMA InitRInv == Init => RInv
<1> SUFFICES ASSUME Init PROVE RInv OBVIOUS
<1>1. IInv BY InitIInv
<1>3. /\ db.utxos = {} /\ db.utreexo_accumulator = {}
      /\ \A o \in Outpoint : db.stxos[o] = Unspent
      /\ Pend(db) = {} /\ Failed(db) = << >> /\ \A m \in M6id : Entry(db, m) = NoBundle
      /\ db.deposit_blocks = << >> /\ db.withdrawal_bundle_event_blocks = << >>
  BY DEF Init, Pend, Failed, Entry
<1>4. db \in Databases /\ PendingGood(db) /\ NotBoth(db)
  BY <1>1 DEF IInv, TInv, TypeOK, Funds, DatabasesGood
<1>6. Len(<< >>) = 0 OBVIOUS
<1>10. Outputs(db) \cap Deposit = Deposited(main, 0) BY <1>3 DEF Outputs, Deposited
<1>11. Whole(db, chain, 0, main, 0)
  BY <1>3, <1>4, <1>6, <1>10, ConstantsAssumption DEF Whole, Shapes, Shape, NoBundle,
     Held, HeldBy, RegularIn
<1>14. LogBelow(db.deposit_blocks, 0, BlockOf(main, 0))
       /\ LogBelow(db.withdrawal_bundle_event_blocks, 0, BlockOf(main, 0))
  BY <1>3, <1>6 DEF LogBelow
<1>15. Sound(db, chain, 0, main, 0)
  BY <1>3, <1>4, <1>6, <1>11, <1>14 DEF Sound, StampsBelow, Failures, Size, Hist,
     NoBundle, Awaited, LastIn
<1> QED BY <1>1, <1>15 DEF RInv, MainGood, Settled, Init, NoTransaction

\* A body moves no bundle.
LEMMA BodyProgress ==
  ASSUME NEW b \in Block, NEW h \in Nat, NEW d, NEW mn, NEW n \in Nat,
         SameBundles(d, b.before),
         Outputs(d) \ Deposit = (Outputs(b.before) \ Deposit) \cup b.created
  PROVE  Progress(b, h, d, mn, n, {}, {})
<1> DEFINE a == b.before
           lo == b.events
           F == [m \in M6id |-> [i \in Nat |-> 0]]
           g == [i \in Nat |-> 0]
<1>1. F \in [M6id -> [Nat -> Nat]] /\ g \in [Nat -> Nat] OBVIOUS
<1>2. /\ a \in Databases /\ d \in Databases /\ Pend(d) = Pend(a)
      /\ Failed(d) = Failed(a) /\ \A m \in M6id : Entry(d, m) = Entry(a, m)
  BY DEF SameBundles
<1>3. \A m \in M6id : /\ Size(d, m) = Size(a, m) /\ Hist(d, m) = Hist(a, m)
                      /\ Size(a, m) \in Nat
  BY <1>2, SameEntry, HistType
<1> HIDE DEF a, lo, F, g
<1>4. ASSUME NEW m \in M6id PROVE Grown(a, lo, h, d, mn, n, F[m], m)
  BY <1>2, <1>3 DEF Grown
<1>5. FailedGrown(a, lo, h, d, n, F, g) BY <1>2, FailedType DEF FailedGrown
<1> QED
  BY <1>1, <1>2, <1>3, <1>4, <1>5 DEF Progress, a, lo, Traced, Pend, Databases, Collects

\* A body spent utxos of d and created outputs, which led to e.
BodyOf(d, e, spent, created) ==
    /\ spent \subseteq d.utxos /\ created \subseteq Withdrawal
    /\ \A o \in created : o \notin d.utxos /\ d.stxos[o] = Unspent
    /\ \A o \in Outpoint : e.stxos[o] = IF o \in spent THEN Regular ELSE d.stxos[o]
    /\ e.utxos = (d.utxos \ spent) \cup created
    /\ \A m \in M6id : Entry(e, m) = Entry(d, m)

\* The databases that a body leaves.
LEMMA BodyWhole ==
  ASSUME NEW d \in Databases, NEW e \in Databases, NEW c \in Seq(Block), NEW k,
         k = Len(c), NEW mn, NEW n, Whole(d, c, k, mn, n), NotBoth(e),
         NEW blk \in Block, BodyOf(d, e, blk.spent, blk.created)
  PROVE  /\ Whole(e, Append(c, blk), k + 1, mn, n)
         /\ Outputs(e) \ Deposit = (Outputs(d) \ Deposit) \cup blk.created
<1> DEFINE spent == blk.spent
           created == blk.created
<1>0. /\ spent \subseteq d.utxos /\ created \subseteq Withdrawal
      /\ \A o \in created : o \notin d.utxos /\ d.stxos[o] = Unspent
      /\ \A o \in Outpoint : e.stxos[o] = IF o \in spent THEN Regular ELSE d.stxos[o]
      /\ e.utxos = (d.utxos \ spent) \cup created
      /\ \A m \in M6id : Entry(e, m) = Entry(d, m)
      /\ blk.spent = spent
  BY DEF BodyOf
<1> HIDE DEF spent, created
<1>1. NotBoth(d) /\ d.utxos \subseteq Outpoint /\ Deposit \cap Withdrawal = {}
      /\ created \subseteq Outpoint /\ k \in Nat
  BY <1>0, ConstantsAssumption, LenProperties DEF Whole, Databases, Outpoint
<1>2. \A o \in spent : o \in Outpoint /\ d.stxos[o] = Unspent BY <1>0, <1>1 DEF NotBoth
<1>3. Regular # Unspent /\ Unspent \notin M6id /\ Regular \notin M6id
  BY ConstantsAssumption
<1>4. Outputs(e) = Outputs(d) \cup created BY <1>0, <1>1, <1>2, <1>3 DEF Outputs
<1>5. created \cap Deposit = {} BY <1>0, <1>1
<1>9. RegularIn(e, Append(c, blk), k + 1)
  <2>1. /\ \A i \in 1..k : Append(c, blk)[i] = c[i]
        /\ Append(c, blk)[k + 1] = blk
    BY AppendProperties
  <2>3. \A o \in Outpoint :
            (\E i \in 1..(k + 1) : o \in Append(c, blk)[i].spent)
               <=> (o \in spent \/ \E i \in 1..k : o \in c[i].spent)
    <3> SUFFICES ASSUME NEW o \in Outpoint
                 PROVE  (\E i \in 1..(k + 1) : o \in Append(c, blk)[i].spent)
                          <=> (o \in spent \/ \E i \in 1..k : o \in c[i].spent)
      OBVIOUS
    <3>1. ASSUME NEW i \in 1..(k + 1), o \in Append(c, blk)[i].spent
          PROVE  o \in spent \/ \E j \in 1..k : o \in c[j].spent
      <4>1. CASE i = k + 1 BY <1>0, <2>1, <3>1, <4>1
      <4>2. CASE i # k + 1 BY <1>1, <2>1, <3>1, <4>2
      <4> QED BY <4>1, <4>2
    <3>2. ASSUME o \in spent PROVE \E i \in 1..(k + 1) : o \in Append(c, blk)[i].spent
      BY <1>0, <1>1, <2>1, <3>2
    <3>3. ASSUME NEW j \in 1..k, o \in c[j].spent
          PROVE  \E i \in 1..(k + 1) : o \in Append(c, blk)[i].spent
      BY <1>1, <2>1, <3>3
    <3> QED BY <3>1, <3>2, <3>3
  <2> QED BY <1>0, <1>3, <2>3 DEF RegularIn, Whole
<1> QED BY <1>0, <1>2, <1>3, <1>4, <1>5, <1>9 DEF Whole, created, Shapes, Held

LEMMA BodyMainGood ==
  ASSUME NEW c \in Seq(Block), NEW mn \in Seq(Event), MainGood(c, mn),
         NEW blk, blk.events = Len(mn), NEW c2, c2 = Append(c, blk)
  PROVE  MainGood(c2, mn)
<1>1. /\ Len(c2) = Len(c) + 1 /\ c2[Len(c) + 1] = blk
      /\ \A i \in 1..Len(c) : c2[i] = c[i]
  BY AppendProperties
<1>2. Len(c) \in Nat /\ Len(mn) \in Nat BY LenProperties
<1>3. ASSUME NEW k \in 1..Len(c2), NEW i \in (c2[k].events + 1)..Len(mn)
      PROVE  BlockOf(mn, c2[k].events) < mn[i].block
  <2>1. CASE k = Len(c) + 1 BY <1>1, <1>2, <2>1
  <2>2. CASE k # Len(c) + 1 BY <1>1, <1>2, <2>2 DEF MainGood
  <2> QED BY <2>1, <2>2
<1> QED BY <1>3 DEF MainGood

LEMMA ConnectBodyRInv ==
  ASSUME RInv, IInv', NEW spent \in SUBSET db.utxos,
         NEW created \in SUBSET Withdrawal, ConnectBody(spent, created)
  PROVE  RInv'
<1>1. TInv /\ TInv' /\ NotBoth(db') BY DEF RInv, IInv, Funds, DatabasesGood
<1> DEFINE s == Spend(db, spent, Regular)
           e == [s EXCEPT !.utxos = @ \cup created,
                          !.utreexo_accumulator = (@ \ spent) \cup created]
           blk == [spent |-> spent, created |-> created,
                   events |-> Len(main), before |-> db]
           k == Len(chain)
           n == Len(main)
<1>2. /\ txn.phase = "idle" /\ txn' = [txn EXCEPT !.phase = "connect"]
      /\ \A o \in created : o \notin db.utxos /\ db.stxos[o] = Unspent
      /\ db' = e /\ chain' = Append(chain, blk)
      /\ committed' = committed /\ main' = main /\ net_task' = "running"
  BY DEF ConnectBody
<1>3. db = committed /\ txn = NoTransaction /\ Settled(chain, main, db, k, n)
      /\ MainGood(chain, main)
  BY <1>2 DEF RInv
<1>4. /\ chain \in Seq(Block) /\ k \in Nat /\ main \in Seq(Event) /\ n \in Nat
      /\ db \in Databases /\ db' \in Databases
  BY <1>1, ChainFacts DEF TInv, TypeOK
<1>5. /\ txn'.phase = "connect" /\ txn'.inserted = {} /\ txn'.removed = {}
      /\ txn'.deposit_block = 0 /\ txn'.event_block = 0
  BY <1>2, <1>3 DEF NoTransaction
<1>6. /\ \A o \in Outpoint : db'.stxos[o] = IF o \in spent THEN Regular ELSE db.stxos[o]
      /\ db'.utxos = (db.utxos \ spent) \cup created
      /\ db'.utreexo_accumulator = (db.utreexo_accumulator \ spent) \cup created
      /\ db'.withdrawal_bundles = db.withdrawal_bundles
      /\ Pend(db') = Pend(db) /\ Failed(db') = Failed(db) /\ SameRecords(db', db)
  <2> DEFINE u == s.utxos \cup created
             x == (s.utreexo_accumulator \ spent) \cup created
  <2>1. db' = [s EXCEPT !.utxos = u, !.utreexo_accumulator = x] BY <1>2
  <2>2. s \in Databases BY <1>4, SpendType DEF Databases
  <2>3. /\ s.utxos = db.utxos \ spent
        /\ s.stxos = [o \in Outpoint |-> IF o \in spent THEN Regular ELSE db.stxos[o]]
        /\ s.utreexo_accumulator = db.utreexo_accumulator
        /\ s.withdrawal_bundles = db.withdrawal_bundles
        /\ Pend(s) = Pend(db) /\ Failed(s) = Failed(db) /\ SameRecords(s, db)
    BY <1>4 DEF Spend, Databases, Pend, Failed, SameRecords
  <2>4. u = (db.utxos \ spent) \cup created
        /\ x = (db.utreexo_accumulator \ spent) \cup created
    BY <2>3
  <2> HIDE DEF s, u, x, e
  <2> QED BY <2>1, <2>2, <2>3, <2>4 DEF SameRecords, Databases, Pend, Failed
<1>7. /\ blk \in Block /\ blk.spent = spent /\ blk.created = created
      /\ blk.events = n /\ blk.before = db
  BY <1>4 DEF Block, Databases
<1> HIDE DEF s, e, blk, k, n
<1>8. /\ Len(chain') = k + 1 /\ chain'[k + 1] = blk
      /\ \A i \in 1..k : chain'[i] = chain[i]
  BY <1>2, <1>4, <1>7, AppendProperties DEF k
<1>9. tip' = blk /\ height' = k /\ Len(main') = n /\ Len(chain') - 1 = k
  BY <1>2, <1>4, <1>8 DEF tip, height, n
<1>11. Settled(chain', main', committed', k, n) BY <1>2, <1>3, <1>4, <1>8, SettledAgree
<1>12. Sound(db, chain, k, main, n) BY <1>3 DEF Settled
<1>13. \A m \in M6id : Entry(db', m) = Entry(db, m) BY <1>6 DEF Entry
<1>14. /\ Whole(db', chain', k + 1, main', n)
       /\ Outputs(db') \ Deposit = (Outputs(db) \ Deposit) \cup created
  <2>1. k = Len(chain) /\ Whole(db, chain, k, main, n) BY <1>12 DEF Sound, k
  <2>3. BodyOf(db, db', blk.spent, blk.created) BY <1>2, <1>6, <1>7, <1>13 DEF BodyOf
  <2>2. /\ Whole(db', Append(chain, blk), k + 1, main, n)
        /\ Outputs(db') \ Deposit = (Outputs(db) \ Deposit) \cup blk.created
    BY ONLY <1>1, <1>4, <1>7, <2>1, <2>3, BodyWhole
  <2> QED BY <1>2, <1>7, <2>2
<1>15. Progress(blk, k, db', main', n, {}, {})
  BY <1>4, <1>6, <1>7, <1>13, <1>14, BodyProgress DEF SameBundles
<1>16. BodyFits(blk) BY <1>2, <1>7 DEF BodyFits, Outputs, Outpoint
<1>17. Awaited(db', main', n) BY <1>2, <1>12, <1>13 DEF Sound, Awaited, Info, Last
<1>18. Echoed(db', main', n, n) BY <1>4 DEF Echoed, LastIn
<1>19. Diff(db', txn') BY <1>5, <1>6, <1>12 DEF Diff, ApplyDiff, Sound
<1>20. Met(0, n, main', n, {"Deposit"}) /\ Met(0, n, main', n, OfBundles) BY DEF Met
<1>21. Connecting'
  BY <1>2, <1>3, <1>5, <1>6, <1>7, <1>8, <1>9, <1>11, <1>14, <1>15, <1>16, <1>17,
     <1>18, <1>19, <1>20 DEF Connecting
<1> QED BY <1>2, <1>3, <1>4, <1>5, <1>7, <1>21, BodyMainGood DEF RInv, n

\* mn2 has one event more than mn.
Longer(mn, mn2, n, ev) ==
    /\ mn \in Seq(Event) /\ mn2 \in Seq(Event) /\ n \in Nat
    /\ Len(mn) = n /\ Len(mn2) = n + 1 /\ \A i \in 1..n : mn2[i] = mn[i]
    /\ mn2[n + 1] = ev /\ BlockOf(mn, n) =< ev.block

LEMMA BlockOfType ==
  ASSUME NEW mn \in Seq(Event), NEW n \in 0..Len(mn)
  PROVE  BlockOf(mn, n) \in Nat /\ (n > 0 => BlockOf(mn, n) = mn[n].block)
<1>1. ASSUME n # 0 PROVE mn[n].block \in Nat
  BY <1>1, ElementOfSeq, LenProperties DEF Event
<1> QED BY <1>1 DEF BlockOf

LEMMA BlocksGrow ==
  ASSUME NEW mn \in Seq(Event), NEW c, MainGood(c, mn),
         NEW i \in 0..Len(mn), NEW j \in 0..Len(mn), i =< j
  PROVE  BlockOf(mn, i) =< BlockOf(mn, j)
<1>1. BlockOf(mn, j) \in Nat /\ (j > 0 => BlockOf(mn, j) = mn[j].block)
      /\ (i > 0 => BlockOf(mn, i) = mn[i].block)
  BY BlockOfType
<1>2. CASE i = 0 BY <1>1, <1>2 DEF BlockOf
<1>3. CASE i # 0 BY <1>1, <1>3, LenProperties DEF MainGood
<1> QED BY <1>2, <1>3

\* The mainchain block of the next event.
LEMMA NextBlockFacts ==
  ASSUME TInv, MainGood(chain, main), txn.phase = "connect", NEW b \in NextMainBlocks
  PROVE  /\ b \in Nat /\ 0 < b /\ BlockOf(main, Len(main)) =< b
         /\ BlockOf(main, tip.events) < b
         /\ \A k \in 1..Len(chain) : BlockOf(main, chain[k].events) < b
<1>1. b \in Nat BY NextMainBlocksType
<1>2. /\ main \in Seq(Event) /\ Len(main) \in Nat
      /\ tip.events \in Nat /\ tip.events =< Len(main)
      /\ Len(chain) \in Nat /\ Len(chain) > 0
      /\ \A i \in 1..Len(chain) : chain[i].events \in Nat /\ chain[i].events =< Len(main)
  BY ChainFacts
<1> DEFINE T == BlockOf(main, tip.events)
           B == BlockOf(main, Len(main))
<1>3. b \in {B, B + 1} /\ b # T BY DEF NextMainBlocks, EventMainBlock, BlockOf
<1>4. T \in Nat /\ B \in Nat /\ T =< B BY <1>2, BlockOfType, BlocksGrow
<1>5. T < b /\ B =< b /\ 0 < b
  <2> HIDE DEF T, B
  <2> QED BY <1>1, <1>3, <1>4
<1>6. ASSUME NEW k \in 1..Len(chain) PROVE BlockOf(main, chain[k].events) < b
  <2>1. chain[k].events =< tip.events /\ chain[k].events \in Nat
        /\ chain[k].events =< Len(main)
    BY <1>2 DEF TInv, ChainGood, tip
  <2>2. BlockOf(main, chain[k].events) \in Nat BY <1>2, <2>1, BlockOfType
  <2>3. BlockOf(main, chain[k].events) =< T BY <1>2, <2>1, BlocksGrow
  <2> HIDE DEF T
  <2> QED BY <1>1, <1>4, <1>5, <2>2, <2>3
<1> QED BY <1>1, <1>5, <1>6

LEMMA EventMainGood ==
  ASSUME NEW c \in Seq(Block), NEW mn, NEW mn2, NEW n, NEW ev, MainGood(c, mn),
         Longer(mn, mn2, n, ev), ev \in Event, 0 < ev.block,
         \A k \in 1..Len(c) : c[k].events =< n /\ BlockOf(mn, c[k].events) < ev.block,
         ev.kind = "Deposit" => ev.of \notin Deposited(mn, n)
  PROVE  MainGood(c, mn2)
<1>1. /\ mn \in Seq(Event) /\ mn2 \in Seq(Event) /\ n \in Nat
      /\ Len(mn) = n /\ Len(mn2) = n + 1 /\ \A i \in 1..n : mn2[i] = mn[i]
      /\ mn2[n + 1] = ev /\ BlockOf(mn, n) =< ev.block /\ ev.block \in Nat
  BY DEF Longer, Event
<1>2. \A i \in 1..(n + 1) : i \in 1..n \/ i = n + 1 BY <1>1
<1>3. \A i \in 1..Len(mn2) : 0 < mn2[i].block BY <1>1, <1>2 DEF MainGood
<1>4. ASSUME NEW i \in 1..Len(mn2), NEW j \in 1..Len(mn2), i =< j
      PROVE  mn2[i].block =< mn2[j].block
  <2>1. CASE j \in 1..n BY <1>1, <1>4, <2>1 DEF MainGood
  <2>2. CASE j = n + 1 /\ i \in 1..n
    <3>1. n > 0 /\ i =< n /\ n \in 1..n BY <1>1, <2>2
    <3>2. mn[i].block =< mn[n].block /\ BlockOf(mn, n) = mn[n].block
      BY <1>1, <2>2, <3>1, BlockOfType DEF MainGood
    <3>3. mn[i].block \in Nat /\ mn[n].block \in Nat
      BY <1>1, <2>2, <3>1, ElementOfSeq DEF Event
    <3> QED BY <1>1, <2>2, <3>2, <3>3
  <2>3. CASE j = n + 1 /\ i = n + 1 BY <1>1, <2>3
  <2> QED BY <1>1, <1>2, <2>1, <2>2, <2>3
<1>5. ASSUME NEW k \in 1..Len(c), NEW i \in (c[k].events + 1)..Len(mn2)
      PROVE  BlockOf(mn2, c[k].events) < mn2[i].block
  <2> DEFINE v == c[k].events
  <2>1. v \in Nat /\ v =< n /\ BlockOf(mn, v) < ev.block
    <3>1. c[k] \in Block BY ElementOfSeq
    <3> QED BY <3>1 DEF Block
  <2>2. i \in (v + 1)..Len(mn2) OBVIOUS
  <2>3. \A j \in (v + 1)..Len(mn) : BlockOf(mn, v) < mn[j].block BY DEF MainGood
  <2> HIDE DEF v
  <2>4. BlockOf(mn2, v) = BlockOf(mn, v) BY <1>1, <2>1 DEF BlockOf
  <2>5. BlockOf(mn2, v) < mn2[i].block
    <3>1. CASE i = n + 1 BY <1>1, <2>1, <2>4, <3>1
    <3>2. CASE i # n + 1 BY <1>1, <2>1, <2>2, <2>3, <2>4, <3>2
    <3> QED BY <3>1, <3>2
  <2> QED BY <2>5 DEF v
<1>6. ASSUME NEW i \in 1..Len(mn2), NEW j \in 1..Len(mn2),
             mn2[i].kind = "Deposit", mn2[j].kind = "Deposit", mn2[i].of = mn2[j].of
      PROVE  i = j
  <2>1. CASE i \in 1..n /\ j \in 1..n BY <1>1, <1>6, <2>1 DEF MainGood
  <2>2. CASE i = n + 1 /\ j \in 1..n BY <1>1, <1>6, <2>2 DEF Deposited
  <2>3. CASE j = n + 1 /\ i \in 1..n BY <1>1, <1>6, <2>3 DEF Deposited
  <2> QED BY <1>1, <1>2, <2>1, <2>2, <2>3
<1> QED BY <1>3, <1>4, <1>5, <1>6 DEF MainGood

LEMMA LongerLastIn ==
  ASSUME NEW mn, NEW mn2, NEW n, NEW ev, Longer(mn, mn2, n, ev),
         NEW a \in Nat, NEW kind, NEW m, LastIn(mn2, a, n + 1, kind, m), 0 < a
  PROVE  \/ ev.kind = kind /\ ev.of = m
         \/ ev.of # m /\ LastIn(mn, a, n, kind, m)
<1>1. /\ n \in Nat /\ \A i \in 1..n : mn2[i] = mn[i]
      /\ mn2[n + 1] = ev
  BY DEF Longer
<1>2. PICK i \in a..(n + 1) : /\ mn2[i].kind = kind /\ mn2[i].of = m
                              /\ \A j \in (i + 1)..(n + 1) : mn2[j].of # m
  BY DEF LastIn
<1>3. CASE i = n + 1 BY <1>1, <1>2, <1>3
<1>4. CASE i # n + 1 BY <1>1, <1>2, <1>4 DEF LastIn
<1> QED BY <1>3, <1>4

\* The status of the bundle that an event is about, and no other bundle's.
Told(d, e, ev) ==
    \A m \in M6id :
        /\ ev.of # m => Entry(e, m) = Entry(d, m)
        /\ ev.kind = "Submitted" /\ ev.of = m =>
              /\ Info(e, m) # "Absent"
              /\ Last(e, m) \in {"Submitted", "SubmittedUnexpected"}
        /\ ev.kind \in {"Confirmed", "Failed"} /\ ev.of = m =>
              Info(e, m) # "Absent" /\ Last(e, m) = ev.kind

LEMMA ToldAwaited ==
  ASSUME NEW mn, NEW mn2, NEW n, NEW ev, Longer(mn, mn2, n, ev),
         NEW d, NEW e, Told(d, e, ev), NEW lo \in Nat, lo =< n,
         Awaited(d, mn, n), Echoed(d, mn, lo, n)
  PROVE  Awaited(e, mn2, n + 1) /\ Echoed(e, mn2, lo, n + 1)
<1>1. ASSUME NEW m \in M6id, LastIn(mn2, 1, n + 1, "Submitted", m)
      PROVE  /\ Info(e, m) # "Absent"
             /\ Last(e, m) \in {"Submitted", "SubmittedUnexpected"}
  BY <1>1, LongerLastIn DEF Told, Awaited, Info, Last
<1>2. ASSUME NEW kind \in {"Confirmed", "Failed"}, NEW m \in M6id,
             LastIn(mn2, lo + 1, n + 1, kind, m)
      PROVE  Info(e, m) # "Absent" /\ Last(e, m) = kind
  <2> DEFINE a == lo + 1
  <2>1. a \in Nat /\ 0 < a OBVIOUS
  <2>2. LastIn(mn2, a, n + 1, kind, m) BY <1>2
  <2> HIDE DEF a
  <2> QED BY <2>1, <2>2, LongerLastIn DEF Told, Echoed, Info, Last, a
<1> QED BY <1>1, <1>2 DEF Awaited, Echoed

LEMMA LongerMet ==
  ASSUME NEW mn, NEW mn2, NEW n, NEW ev, Longer(mn, mn2, n, ev), ev \in Event,
         NEW lo \in Nat, lo =< n, BlockOf(mn, lo) < ev.block, NEW kinds,
         NEW block \in Nat, NEW block2, Met(block, lo, mn, n, kinds),
         block2 = block \/ (ev.kind \in kinds /\ block2 = ev.block)
  PROVE  Met(block2, lo, mn2, n + 1, kinds)
<1>1. /\ mn \in Seq(Event) /\ mn2 \in Seq(Event) /\ n \in Nat
      /\ Len(mn) = n /\ Len(mn2) = n + 1 /\ \A i \in 1..n : mn2[i] = mn[i]
      /\ mn2[n + 1] = ev /\ BlockOf(mn, n) =< ev.block /\ ev.block \in Nat
  BY DEF Longer, Event
<1>2. BlockOf(mn2, n + 1) = ev.block BY <1>1 DEF BlockOf
<1>3. BlockOf(mn2, lo) = BlockOf(mn, lo) BY <1>1 DEF BlockOf
<1>6. CASE block2 = block BY <1>1, <1>2, <1>3, <1>6, BlockOfType DEF Met
<1>7. CASE ev.kind \in kinds /\ block2 = ev.block BY <1>1, <1>2, <1>3, <1>7 DEF Met
<1> QED BY <1>6, <1>7

\* What connect_event does at every event.
LEMMA ConnectingStep ==
  ASSUME RInv, IInv', txn.phase = "connect", NEW b \in NextMainBlocks,
         NEW kind, NEW what, NEW ev, ev = [block |-> b, kind |-> kind, of |-> what],
         ev \in Event, NEW t \in Transaction, t.phase = "connect",
         t.deposit_block = txn.deposit_block, t.event_block = txn.event_block,
         Applied(b, kind, what, db', t),
         kind = "Deposit" => what \notin Deposited(main, Len(main)),
         SameRecords(db', db), Diff(db', txn'), Told(db, db', ev),
         Whole(db', chain, Len(chain), main', Len(main) + 1),
         Longer(main, main', Len(main), ev) =>
             Progress(tip, height, db', main', Len(main) + 1, {}, {})
  PROVE  RInv'
<1>1. TInv /\ MainGood(chain, main) /\ Connecting BY DEF RInv, IInv
<1> DEFINE n == Len(main)
           lo == tip.events
<1>2. /\ main' = Append(main, ev) /\ committed' = committed /\ chain' = chain
      /\ net_task' = net_task
      /\ txn' = IF kind = "Deposit" THEN [t EXCEPT !.deposit_block = b]
                ELSE [t EXCEPT !.event_block = b]
  BY DEF Applied
<1>3. /\ main \in Seq(Event) /\ n \in Nat /\ chain \in Seq(Block)
      /\ Len(chain) \in Nat /\ Len(chain) > 0 /\ lo \in Nat /\ lo =< n
      /\ \A i \in 1..Len(chain) : chain[i].events =< n
  BY <1>1, ChainFacts
<1>4. /\ b \in Nat /\ 0 < b /\ BlockOf(main, n) =< b /\ BlockOf(main, lo) < b
      /\ \A k \in 1..Len(chain) : BlockOf(main, chain[k].events) < b
  BY <1>1, NextBlockFacts
<1>5. ev.block = b /\ ev.kind = kind /\ ev.of = what OBVIOUS
<1>6. Longer(main, main', n, ev) /\ Len(main') = n + 1
  BY <1>2, <1>3, <1>4, <1>5, AppendProperties DEF Longer
<1>7. /\ txn'.phase = "connect" /\ txn.phase = "connect"
      /\ txn'.deposit_block = txn.deposit_block
            \/ (kind \in {"Deposit"} /\ txn'.deposit_block = b)
      /\ txn'.event_block = txn.event_block
            \/ (kind \in OfBundles /\ txn'.event_block = b)
  BY <1>2, <1>5 DEF Transaction, Event, OfBundles
<1>8. tip' = tip /\ height' = height /\ Len(chain') = Len(chain) BY <1>2 DEF tip, height
<1> DEFINE p == txn.deposit_block
           q == txn.event_block
           p2 == txn'.deposit_block
           q2 == txn'.event_block
           one == {"Deposit"}
<1>10. /\ Met(p, lo, main, n, one) /\ Met(q, lo, main, n, OfBundles)
       /\ Awaited(db, main, n) /\ Echoed(db, main, lo, n) /\ p \in Nat /\ q \in Nat
       /\ p2 = p \/ (ev.kind \in one /\ p2 = ev.block)
       /\ q2 = q \/ (ev.kind \in OfBundles /\ q2 = ev.block)
       /\ Settled(chain, main, committed, Len(chain) - 1, lo)
  BY <1>1, <1>5, <1>7 DEF Connecting, TInv, TypeOK, Transaction
<1>11. MainGood(chain', main')
  <2>1. \A k \in 1..Len(chain) : chain[k].events =< n
            /\ BlockOf(main, chain[k].events) < ev.block
    BY <1>3, <1>4, <1>5
  <2>2. ev.kind = "Deposit" => ev.of \notin Deposited(main, n) BY <1>5
  <2>3. 0 < ev.block BY <1>4, <1>5
  <2> HIDE DEF n
  <2>4. MainGood(chain, main')
    BY ONLY <1>1, <1>3, <1>6, <2>1, <2>2, <2>3, ev \in Event, EventMainGood
  <2> QED BY <1>2, <2>4
<1> HIDE DEF n, lo, p, q, p2, q2, one
<1>12. Awaited(db', main', n + 1) /\ Echoed(db', main', lo, n + 1)
  BY <1>3, <1>6, <1>10, ToldAwaited
<1>13. Met(p2, lo, main', n + 1, one) /\ Met(q2, lo, main', n + 1, OfBundles)
  BY <1>3, <1>4, <1>5, <1>6, <1>10, LongerMet
<1>14. Settled(chain', main', committed', Len(chain) - 1, lo)
  <2> DEFINE k == Len(chain) - 1
  <2>1. /\ k \in Nat /\ Settled(chain, main, committed, k, lo)
        /\ \A i \in 1..k : chain'[i] = chain[i]
        /\ \A i \in 1..lo : main'[i] = main[i]
    BY <1>2, <1>3, <1>6, <1>10 DEF Longer
  <2> HIDE DEF k
  <2>2. Settled(chain', main', committed, k, lo) BY <1>3, <2>1, SettledAgree
  <2> QED BY <1>2, <2>2 DEF k
<1>16. Connecting'
  BY <1>1, <1>2, <1>6, <1>8, <1>12, <1>13, <1>14 DEF Connecting, n, lo, p2, q2, one,
     SameRecords
<1> QED BY <1>2, <1>7, <1>11, <1>16 DEF RInv

LEMMA LongerDeposited ==
  ASSUME NEW mn, NEW mn2, NEW n, NEW ev, Longer(mn, mn2, n, ev)
  PROVE  Deposited(mn2, n + 1) = Deposited(mn, n) \cup
             (IF ev.kind = "Deposit" THEN {ev.of} ELSE {})
<1> QED BY DEF Deposited, Longer

LEMMA LongerMain ==
  ASSUME TInv, MainGood(chain, main), txn.phase = "connect", NEW b \in NextMainBlocks,
         NEW ev \in Event, ev.block = b, main' = Append(main, ev)
  PROVE  Longer(main, main', Len(main), ev)
<1> QED BY AppendProperties, ChainFacts, NextBlockFacts DEF Longer

LEMMA ConnectDepositRInv ==
  ASSUME RInv, IInv', txn.phase = "connect", NEW b \in NextMainBlocks,
         NEW o \in Deposit, ConnectDeposit(b, o)
  PROVE  RInv'
<1>1. TInv /\ TInv' /\ MainGood(chain, main) /\ Connecting BY DEF RInv, IInv
<1> DEFINE ev == [block |-> b, kind |-> "Deposit", of |-> o]
           e == [db EXCEPT !.utxos = @ \cup {o}]
           t == Insert(txn, {o})
           n == Len(main)
<1>2. /\ Applied(b, "Deposit", o, e, t) /\ db' = e /\ main' = Append(main, ev)
      /\ o \notin db.utxos /\ db.stxos[o] = Unspent
  BY DEF ConnectDeposit, Applied
<1>3. /\ db \in Databases /\ txn \in Transaction /\ o \in Outpoint /\ b \in Nat
      /\ height \in Nat /\ tip \in Block /\ n \in Nat
  BY <1>1, ChainFacts, NextBlockFacts DEF Outpoint
<1>4. /\ t \in Transaction /\ t.phase = "connect"
      /\ t.deposit_block = txn.deposit_block /\ t.event_block = txn.event_block
  BY <1>3 DEF Insert, Transaction
<1>5. ev \in Event /\ ev.block = b /\ ev.kind = "Deposit" /\ ev.of = o
  BY <1>3, EventTypes
<1>6. Longer(main, main', n, ev)
  <2> HIDE DEF ev
  <2> QED BY <1>1, <1>2, <1>5, LongerMain
<1>7. /\ db' \in Databases /\ db'.utxos = db.utxos \cup {o}
      /\ db'.stxos = db.stxos /\ Logs(db') = Logs(db) /\ SameRecords(db', db)
      /\ SameBundles(db', db)
  BY <1>1, <1>2, <1>3 DEF Databases, Logs, SameRecords, SameBundles, Entry, Pend,
     Failed, TInv, TypeOK
<1>8. Outputs(db') = Outputs(db) \cup {o} /\ o \notin Outputs(db)
  BY <1>2, <1>7 DEF Outputs
<1>9. Whole(db, chain, Len(chain), main, n) BY <1>1 DEF Connecting
<1>10. o \notin Deposited(main, n) BY <1>8, <1>9 DEF Whole
<1> HIDE DEF ev, e, t, n
<1>12. Whole(db', chain, Len(chain), main', n + 1)
  <2> QED
    BY <1>2, <1>5, <1>6, <1>7, <1>8, <1>9, LongerDeposited DEF Whole, Shapes, Held,
       SameBundles, NotBoth, RegularIn
<1>13. Diff(db', txn')
  <2>1. Diff(db, txn) /\ {o} \cap db.utxos = {} BY <1>1, <1>2 DEF Connecting
  <2> DEFINE B == {o}
  <2>2. B \cap db.utxos = {} /\ db'.utxos = db.utxos \cup B /\ t = Insert(txn, B)
    BY <1>7, <2>1 DEF t
  <2> HIDE DEF B
  <2> QED BY <1>2, <1>3, <1>4, <1>7, <2>1, <2>2, DiffApplied, DiffInsert
<1>14. Told(db, db', ev) BY <1>5, <1>7 DEF Told, SameBundles
<1>15. Progress(tip, height, db', main', n + 1, {}, {})
  <2>1. /\ Progress(tip, height, db, main, n, {}, {}) /\ Shapes(db)
        /\ Shapes(tip.before)
    BY <1>1, <1>9 DEF Connecting, Settled, Sound, Whole, n
  <2>2. Outputs(db') \ Deposit = Outputs(db) \ Deposit BY <1>8
  <2> DEFINE n2 == n + 1
  <2>3. n2 \in Nat /\ n =< n2 /\ \A i \in 1..n : i =< n2 => main'[i] = main[i]
    BY <1>3, <1>6 DEF Longer
  <2> HIDE DEF n2
  <2>4. Progress(tip, height, db', main', n2, {}, {})
    BY ONLY <1>3, <1>7, <2>1, <2>2, <2>3, SameProgress
  <2> QED BY <2>4 DEF n2
<1>16. Applied(b, "Deposit", o, db', t) BY <1>2
<1> QED
  BY <1>4, <1>5, <1>7, <1>10, <1>12, <1>13, <1>14, <1>15, <1>16, ConnectingStep DEF ev,
     n

\* The handlers of connect get the databases that they expect.
LEMMA DbReady ==
  ASSUME RInv, txn.phase # "idle"
  PROVE  Ready(db)
<1>3. txn.phase = "connect" \/ txn.phase = "disconnect"
  BY DEF Transaction, RInv, IInv, TInv, TypeOK
<1> QED
  BY <1>3 DEF RInv, Connecting, Disconnecting, Whole, Ready, IInv, Funds, DatabasesGood

LEMMA ConnectEventRInv ==
  ASSUME RInv, IInv', txn.phase = "connect", NEW b \in NextMainBlocks,
         NEW m \in M6id,
         \/ ConnectSubmitted(b, m)
         \/ ConnectConfirmed(b, m)
         \/ ConnectFailed(b, m)
  PROVE  RInv'
<1>1. TInv /\ TInv' /\ MainGood(chain, main) /\ Connecting /\ Ready(db)
  BY DbReady DEF RInv, IInv
<1>2. SUFFICES ASSUME ~Aborts PROVE RInv' BY AbortRInv
<1>3. PICK kind \in {"Submitted", "Confirmed", "Failed"}, v \in Status, t \in Transaction :
          /\ Reported(kind, m) /\ Applied(b, kind, m, db', t)
          /\ Handled(kind, m, v) \/ Again(kind, m)
          /\ t.phase = "connect" /\ t.deposit_block = txn.deposit_block
          /\ t.event_block = txn.event_block
  BY <1>1, <1>2, ConnectEventHandled
<1> DEFINE ev == [block |-> b, kind |-> kind, of |-> m]
           n == Len(main)
<1>4. /\ db \in Databases /\ db' \in Databases /\ b \in Nat
      /\ height \in Nat /\ tip \in Block /\ n \in Nat /\ tip.events =< n
      /\ tip.events \in Nat
  BY <1>1, ChainFacts, NextBlockFacts DEF TInv, TypeOK
<1>5. ev \in Event /\ ev.block = b /\ ev.kind = kind /\ ev.of = m /\ kind # "Deposit"
  BY <1>4, EventTypes
<1>6. main' = Append(main, ev) BY <1>3 DEF Applied
<1> HIDE DEF ev
<1>7. Longer(main, main', n, ev) BY <1>1, <1>5, <1>6, LongerMain
<1> HIDE DEF n
<1>8. Whole(db, chain, Len(chain), main, n) /\ Diff(db, txn)
      /\ Progress(tip, height, db, main, n, {}, {}) /\ Shapes(tip.before)
  BY <1>1 DEF Connecting, Settled, Sound, Whole, n
<1>9. Deposited(main', n + 1) = Deposited(main, n) BY <1>5, <1>7, LongerDeposited
<1>10. Diff(db', txn') BY <1>3, <1>8 DEF Handled, Again
<1> DEFINE n2 == n + 1
<1>11. /\ n2 \in Nat /\ n =< n2 /\ \A i \in 1..n : i =< n2 => main'[i] = main[i]
       /\ \A i \in 1..n : main'[i] = main[i]
       /\ main'[n + 1].of = m /\ main'[n + 1].kind = kind
  BY <1>4, <1>5, <1>7 DEF Longer
<1>12. /\ SameRecords(db', db) /\ Told(db, db', ev)
       /\ Whole(db', chain, Len(chain), main, n)
       /\ Progress(tip, height, db', main', n + 1, {}, {})
  <2>1. CASE Handled(kind, m, v)
    <3>1. Pushes(db, db', m, v, height) /\ Matches(v, kind) /\ OnlyMoves(db, db', m)
      BY <2>1 DEF Handled, Pushes
    <3>3. Progress(tip, height, db', main', n + 1, {}, {})
      BY <1>1, <1>4, <1>8, <1>11, <3>1, PushProgress DEF Ready, Whole
    <3>5. Info(db', m) # "Absent" /\ Last(db', m) = v
      BY <1>4, <3>1, PushType, HistType DEF Last, Hist, Pushes
    <3> QED
      BY <1>4, <1>5, <1>8, <3>1, <3>3, <3>5, MovesWhole DEF OnlyMoves, Logs,
         SameRecords, Told, Matches
  <2>2. CASE Again(kind, m)
    <3>1. db' = db /\ Info(db, m) # "Absent" /\ Last(db, m) = kind
          /\ kind \in {"Confirmed", "Failed"}
      BY <2>2 DEF Again
    <3>2. Told(db, db', ev) BY <1>5, <3>1 DEF Told
    <3>3. SameBundles(db', db) /\ Outputs(db') \ Deposit = Outputs(db) \ Deposit
          /\ SameRecords(db', db) /\ Shapes(db)
      BY <1>4, <1>8, <3>1 DEF SameBundles, SameRecords, Whole
    <3>4. Progress(tip, height, db', main', n2, {}, {})
      <4> HIDE DEF n2
      <4> QED BY ONLY <1>4, <1>8, <1>11, <3>3, SameProgress
    <3> QED BY <1>8, <3>1, <3>2, <3>3, <3>4 DEF n2
  <2> QED BY <1>3, <2>1, <2>2
<1> QED BY <1>3, <1>5, <1>9, <1>10, <1>12, ConnectingStep DEF ev, n, Whole

-----------------------------------------------------------------------------
(* The end of connect_two_way_peg_data: the collected bundle and the records *)

\* The latest status of m that says Failed is the i-th.
LastFailure(d, m, i) ==
    /\ i \in 1..Size(d, m) /\ Hist(d, m)[i].value = "Failed"
    /\ \A j \in 1..Size(d, m) : Hist(d, m)[j].value = "Failed" => j =< i

LEMMA FailedAtFacts ==
  ASSUME NEW d \in Databases, Failures(d)
  PROVE  /\ FailedAt(d) \in Nat
         /\ Failed(d) = << >> => FailedAt(d) = 0
         /\ Failed(d) # << >> =>
               \E i : /\ LastFailure(d, Failed(d)[Len(Failed(d))].value, i)
                      /\ FailedAt(d) = Hist(d, Failed(d)[Len(Failed(d))].value)[i].height
<1>1. CASE Failed(d) = << >> BY <1>1 DEF FailedAt
<1>2. CASE Failed(d) # << >>
  <2> DEFINE l == Len(Failed(d))
             m == Failed(d)[l].value
             s == Hist(d, m)
             found == {i \in DOMAIN s : s[i].value = "Failed"}
  <2>1. l \in 1..l /\ m \in M6id /\ Latest(Failed(d)) = Failed(d)[l] BY <1>2, FailedType
  <2>2. \E j \in 1..Size(d, m) : s[j].value = "Failed"
    <3>1. \E j \in 1..Size(d, m) : s[j] = [value |-> "Failed", height |-> Failed(d)[l].height]
      BY <2>1 DEF Failures
    <3> QED BY <3>1
  <2>3. FailedAt(d) = s[Max(found)].height BY <1>2, <2>1 DEF FailedAt
  <2>4. /\ s \in Seq(HeightStamped(Status)) /\ Size(d, m) \in Nat /\ Len(s) = Size(d, m)
        /\ \A i \in 1..Size(d, m) : s[i].height \in Nat
    BY <2>1, HistType DEF Size
  <2>5. DOMAIN s = 1..Size(d, m) BY <2>4, LenProperties
  <2> DEFINE S == found
             i == Max(found)
  <2>7. i \in found /\ \A j \in found : i >= j
    <3>1. S \in SUBSET (1..Size(d, m)) /\ S # {} BY <2>2, <2>5
    <3> HIDE DEF S
    <3> QED BY <2>4, <3>1, MaxIn DEF S
  <2>8. i \in 1..Size(d, m) /\ s[i].value = "Failed" BY <2>5, <2>7
  <2>9. ASSUME NEW j \in 1..Size(d, m), s[j].value = "Failed" PROVE j =< i
    <3>1. j \in found BY <2>5, <2>9
    <3> HIDE DEF found
    <3> QED BY <2>4, <2>7, <2>8, <3>1
  <2>10. LastFailure(d, m, i)
    <3> HIDE DEF i, found, m
    <3> QED BY <2>8, <2>9 DEF LastFailure, s
  <2>11. FailedAt(d) = s[i].height /\ FailedAt(d) \in Nat
    <3>1. FailedAt(d) = s[i].height BY <2>3
    <3> HIDE DEF i
    <3> QED BY <2>4, <2>8, <3>1
  <2> QED BY <1>2, <2>10, <2>11
<1> QED BY <1>1, <1>2

\* The gap counts from a block before the one that is open, or from that.
LEMMA FailedAtGrows ==
  ASSUME NEW a, NEW lo, NEW h, NEW d, NEW mn, NEW n, NEW C, NEW L, NEW F, NEW g,
         Trace(a, lo, h, d, mn, n, C, L, F, g), Failures(a), StampsBelow(a, h)
  PROVE  FailedAt(a) \in Nat /\ FailedAt(d) \in Nat /\ FailedAt(a) =< FailedAt(d)
<1>1. /\ a \in Databases /\ d \in Databases /\ h \in Nat
      /\ FailedGrown(a, lo, h, d, n, F, g) /\ Shapes(a) /\ Failures(d)
  <2>1. Failures(d)
    BY ONLY TraceFailures, Failures(a), Trace(a, lo, h, d, mn, n, C, L, F, g)
  <2> QED BY <2>1 DEF Trace, Traced
<1> DEFINE x == FailedAt(a)
           y == FailedAt(d)
           p == Len(Failed(a))
           q == Len(Failed(d))
           m == Failed(d)[q].value
<1>2. x \in Nat /\ y \in Nat BY <1>1, FailedAtFacts
<1>3. /\ p \in Nat /\ q \in Nat /\ p =< q
      /\ Failed(a) = << >> <=> p = 0
      /\ Failed(d) = << >> <=> q = 0
      /\ \A i \in 1..p : Failed(d)[i] = Failed(a)[i] /\ Failed(a)[i].value \in M6id
      /\ \A i \in 1..q : Failed(d)[i].value \in M6id
  BY <1>1, FailedType DEF FailedGrown
<1>4. CASE Failed(a) = << >> BY <1>1, <1>2, <1>4, FailedAtFacts
<1>5. CASE Failed(a) # << >>
  <2>1. PICK i : LastFailure(a, Failed(a)[p].value, i)
                 /\ x = Hist(a, Failed(a)[p].value)[i].height
    BY <1>1, <1>5, FailedAtFacts
  <2>2. p \in 1..p /\ q > 0 /\ q \in 1..q /\ Failed(d) # << >> /\ m \in M6id
        /\ Failed(a)[p].value \in M6id
    BY <1>3, <1>5
  <2>3. PICK j : LastFailure(d, m, j) /\ y = Hist(d, m)[j].height
    BY <1>1, <2>2, FailedAtFacts
  <2> DEFINE u == Failed(a)[p].value
  <2>4. i \in 1..Size(a, u) /\ Hist(a, u)[i].value = "Failed" /\ Size(a, u) \in Nat
        /\ u \in M6id
    BY <1>1, <2>1, <2>2, HistType DEF LastFailure
  <2>5. ~OldOrNone(a, u, h) /\ ~LeftOver(a, u, h)
    BY <1>1, <2>4, OldPending DEF OldOrNone
  <2>6. x < h BY <2>1, <2>4, <2>5 DEF StampsBelow
  <2>7. u \notin C \cup L BY <2>5 DEF Trace, Extra, Collects
  <2> HIDE DEF u
  <2>8. CASE p = q
    <3>1. m = u BY <1>3, <2>2, <2>8 DEF u
    <3>2. Grown(a, lo, h, d, mn, n, F[u], u) /\ Size(d, u) \in Nat
      BY <2>4, <2>7, TraceFacts
    <3>3. Size(a, u) =< Size(d, u) /\ Hist(d, u)[i] = Hist(a, u)[i]
          /\ i \in 1..Size(d, u)
      BY <2>4, <3>2 DEF Grown
    <3>4. i =< j /\ j \in 1..Size(d, u) BY <2>3, <2>4, <3>1, <3>3 DEF LastFailure
    <3>5. CASE j \in 1..Size(a, u)
      <4>2. j =< i BY <2>1, <2>3, <3>1, <3>2, <3>5 DEF LastFailure, u, Grown
      <4>4. x = y BY <2>1, <2>3, <2>4, <3>1, <3>3, <3>4, <3>5, <4>2 DEF u
      <4> QED BY <1>2, <4>4
    <3>6. CASE j \notin 1..Size(a, u)
      <4>2. y = h BY <2>3, <2>4, <3>1, <3>2, <3>4, <3>6 DEF Grown
      <4> QED BY <1>1, <1>2, <2>6, <4>2
    <3> QED BY <3>5, <3>6
  <2>9. CASE p # q
    <3>3. m \notin C \cup L /\ \E r \in (Size(a, m) + 1)..Size(d, m) : Refund(d, m, r)
      BY <1>3, <2>9, TraceFailed DEF RefundAt
    <3>4. PICK r \in (Size(a, m) + 1)..Size(d, m) : Refund(d, m, r) BY <3>3
    <3>5. Grown(a, lo, h, d, mn, n, F[m], m) /\ Size(d, m) \in Nat /\ Size(a, m) \in Nat
      BY <2>2, <3>3, TraceFacts
    <3> HIDE DEF m
    <3>6. r =< j /\ j \in 1..Size(d, m) BY <2>3, <3>4, <3>5 DEF LastFailure, Refund
    <3> QED BY <1>1, <1>2, <2>3, <2>6, <3>4, <3>5, <3>6 DEF Grown
  <2> QED BY <2>8, <2>9
<1> QED BY <1>2, <1>4, <1>5

\* e is d after the bundle c was collected at height h.
Collecting(d, e, c, h) ==
    /\ e \in Databases /\ e.utxos = d.utxos /\ e.stxos = d.stxos
    /\ Entry(e, c) = [info |-> "Known", spend_utxos |-> {},
                      status |-> Push(Hist(d, c), "Pending", h)]
    /\ \A m \in M6id : m # c => Entry(e, m) = Entry(d, m)
    /\ Pend(e) = {c} /\ Failed(e) = Failed(d)

\* The bundle that a block collects was not there, or it was left over.
LEMMA CollectFresh ==
  ASSUME NEW a, NEW lo, NEW h, NEW d, NEW mn, NEW n, NEW F, NEW g,
         Trace(a, lo, h, d, mn, n, {}, {}, F, g), StampsBelow(a, h),
         NEW c \in M6id, c.height = h, Info(d, c) \in {"Absent", "Known"}
  PROVE  OldOrNone(a, c, h) /\ Entry(d, c) = Entry(a, c)
<1>1. /\ a \in Databases /\ d \in Databases /\ h \in Nat
      /\ Shape(Entry(a, c), c) /\ Shape(Entry(d, c), c)
  BY DEF Trace, Shapes
<1>2. /\ Size(a, c) \in Nat /\ Size(d, c) \in Nat
      /\ Info(a, c) \in {"Absent", "Known", "Unknown", "UnknownConfirmed"}
      /\ Info(d, c) \in {"Absent", "Known", "Unknown", "UnknownConfirmed"}
      /\ Hist(a, c) = << >> <=> Size(a, c) = 0
      /\ Hist(d, c) = << >> <=> Size(d, c) = 0
  BY <1>1, HistType
<1>6. Info(a, c) \in {"Absent", "Known"}
  <2> SUFFICES ASSUME Info(a, c) \notin {"Absent", "Known"} PROVE FALSE OBVIOUS
  <2>1. Grown(a, lo, h, d, mn, n, F[c], c) BY DEF Trace, Traced
  <2>2. /\ Size(a, c) > 0 /\ Follows(Entry(a, c), 1)
        /\ Hist(a, c)[1] = Entry(a, c).status[1] /\ Info(a, c) = Entry(a, c).info
    BY <1>1, <1>2 DEF Shape, Info, Hist, Size
  <2>3. Hist(a, c)[1].value # "Pending" BY <2>2 DEF Follows
  <2>4. 1 \in 1..Size(a, c) BY <1>2, <2>2
  <2>5. Hist(d, c)[1] = Hist(a, c)[1] /\ Size(d, c) > 0 BY <1>2, <2>1, <2>2, <2>4 DEF Grown
  <2>6. Info(d, c) = "Known" /\ Hist(d, c)[1].value = "Pending"
    BY <1>1, <1>2, <2>5 DEF Shape, Info, Hist
  <2> QED BY <2>3, <2>5, <2>6
<1>3. /\ Info(a, c) = "Absent" => Entry(a, c) = NoBundle /\ Size(a, c) = 0
      /\ Info(a, c) = "Known" => Size(a, c) > 0 /\ Hist(a, c)[1].height = h
      /\ Size(d, c) > 0 => Hist(d, c)[1].value = "Pending"
  BY <1>1, <1>2 DEF Shape, Info, Hist
<1>4. CASE Info(a, c) = "Known"
  <2>2. LeftOver(a, c, h) BY <1>1, <1>2, <1>3, <1>4 DEF StampsBelow
  <2> DEFINE C == {}
             L == {}
  <2>3. Trace(a, lo, h, d, mn, n, C, L, F, g) /\ c \notin C \cup L OBVIOUS
  <2> HIDE DEF C, L
  <2> QED BY <2>2, <2>3, LeftOverSame DEF OldOrNone
<1>5. CASE Info(a, c) = "Absent"
  <2>1. Grown(a, lo, h, d, mn, n, F[c], c) BY DEF Trace, Traced
  <2>2. Size(d, c) = 0
    <3> SUFFICES ASSUME Size(d, c) # 0 PROVE FALSE OBVIOUS
    <3> QED BY <1>2, <1>3, <1>5, <2>1 DEF Matches, Grown
  <2> QED BY <1>3, <1>5, <2>1, <2>2 DEF OldOrNone, Grown
<1> QED BY <1>4, <1>5, <1>6

LEMMA CollectTraced ==
  ASSUME NEW a, NEW lo, NEW h, NEW d, NEW mn, NEW n, NEW F, NEW g,
         Trace(a, lo, h, d, mn, n, {}, {}, F, g), NEW c \in M6id, NEW e,
         Entry(d, c) = Entry(a, c), Collecting(d, e, c, h)
  PROVE  Traced(a, lo, h, e, mn, n, {c}, {}, F, g)
<1>1. /\ a \in Databases /\ d \in Databases /\ h \in Nat /\ n \in Nat /\ lo \in Nat
      /\ Traced(a, lo, h, d, mn, n, {}, {}, F, g) /\ F \in [M6id -> [Nat -> Nat]]
      /\ e \in Databases
  BY DEF Trace, Collecting
<1>2. ASSUME NEW m \in M6id, m # c PROVE Grown(a, lo, h, e, mn, n, F[m], m)
  BY <1>1, <1>2, SameEntry DEF Grown, Collecting, Traced
<1>3. FailedGrown(a, lo, h, e, n, F, g)
  <2>1. Failed(e) = Failed(d) /\ FailedGrown(a, lo, h, d, n, F, g)
    BY <1>1 DEF Collecting, Traced
  <2>2. ASSUME NEW p \in (Len(Failed(a)) + 1)..Len(Failed(d)), NEW x,
               x = Failed(d)[p].value
        PROVE  \E q \in (Size(a, x) + 1)..Size(e, x) :
                   Refund(e, x, q) /\ F[x][q] = g[p]
    <3>1. PICK q \in (Size(a, x) + 1)..Size(d, x) : Refund(d, x, q) /\ F[x][q] = g[p]
      BY <2>1, <2>2 DEF FailedGrown
    <3>2. p \in 1..Len(Failed(d)) BY <1>1, FailedType
    <3>3. x \in M6id BY <1>1, <2>2, <3>2, FailedType
    <3>4. x # c
      <4> SUFFICES ASSUME x = c PROVE FALSE OBVIOUS
      <4>1. Size(d, x) = Size(a, x) /\ Size(a, x) \in Nat
        BY <1>1, <3>3, SameEntry, HistType
      <4> QED BY <3>1, <4>1
    <3> QED BY <3>1, <3>3, <3>4, SameEntry DEF Refund, Collecting
  <2> QED BY <2>1, <2>2 DEF FailedGrown
<1> QED BY <1>2, <1>3 DEF Traced

LEMMA CollectProgress ==
  ASSUME NEW b \in Block, NEW h \in Nat, NEW d \in Databases, NEW n \in Nat,
         NEW mn, Progress(b, h, d, mn, n, {}, {}), Shapes(b.before), Shapes(d),
         StampsBelow(b.before, h), GapOver(b.before, h), Pend(d) = {},
         NEW c \in M6id, c.height = h, Info(d, c) \in {"Absent", "Known"},
         NEW e, Collecting(d, e, c, h)
  PROVE  Progress(b, h, e, mn, n, {c}, {})
<1> DEFINE a == b.before
           lo == b.events
<1>1. PICK F, g : Trace(a, lo, h, d, mn, n, {}, {}, F, g) BY ProgressTrace
<1>2. /\ Outputs(d) \ Deposit = (Outputs(a) \ Deposit) \cup b.created
      /\ Pend(d) = IF \E m \in Pend(a) : Size(d, m) = Size(a, m)
                   THEN Pend(a) ELSE {}
      /\ StampsBelow(a, h) /\ GapOver(a, h)
  BY DEF Progress
<1>3. a \in Databases /\ F \in [M6id -> [Nat -> Nat]] /\ g \in [Nat -> Nat]
  BY <1>1 DEF Trace
<1>4. OldOrNone(a, c, h) /\ Entry(d, c) = Entry(a, c)
  <2> HIDE DEF a, lo
  <2> QED BY <1>1, <1>2, CollectFresh
<1>5. Traced(a, lo, h, e, mn, n, {c}, {}, F, g)
  <2> HIDE DEF a, lo
  <2> QED BY <1>1, <1>4, CollectTraced
<1> HIDE DEF a, lo
<1>6. Hist(d, c) = Hist(a, c) /\ Size(d, c) = Size(a, c) BY <1>4, SameEntry
<1>7. Collects(a, h, e, {c}) BY <1>2, <1>4, <1>6 DEF Collects, Collecting
<1>8. Outputs(e) = Outputs(d) BY DEF Outputs, Collecting
<1>9. ASSUME NEW m \in Pend(a) PROVE Size(e, m) # Size(a, m)
  <2>1. m \in M6id BY <1>3 DEF Pend, Databases
  <2>2. CASE m = c
    <3> DEFINE v == "Pending"
    <3>2. Hist(e, c) = Push(Hist(d, c), v, h) /\ v \in Status
      BY DEF Collecting, Hist, Status
    <3> HIDE DEF v
    <3>3. Size(e, c) = Size(d, c) + 1 /\ Size(d, c) \in Nat
      BY ONLY <3>2, PushedHist, d \in Databases, c \in M6id, h \in Nat
    <3> QED BY <1>6, <2>2, <3>3
  <2>3. CASE m # c BY <1>2, <2>1, <2>3, SameEntry DEF Collecting
  <2> QED BY <2>2, <2>3
<1> QED BY <1>2, <1>3, <1>5, <1>7, <1>8, <1>9 DEF Progress, a, lo, Collecting

\* All that ever happened to m is that it was collected.
OnlyPending(d, m) == \A i \in 1..Size(d, m) : Hist(d, m)[i].value = "Pending"

LEMMA CollectWhole ==
  ASSUME NEW d \in Databases, NEW e, NEW bs, NEW k, NEW mn, NEW n,
         Whole(d, bs, k, mn, n), NEW c \in M6id, NEW h \in Nat,
         Collecting(d, e, c, h), NotBoth(e), c.height = h,
         Info(d, c) \in {"Absent", "Known"}, OnlyPending(d, c)
  PROVE  Whole(e, bs, k, mn, n)
<1> DEFINE v == "Pending"
           x == Entry(d, c)
           y == Entry(e, c)
           s == Size(d, c)
<1>1. /\ e \in Databases /\ e.utxos = d.utxos /\ e.stxos = d.stxos
      /\ y = [info |-> "Known", spend_utxos |-> {}, status |-> Hist(e, c)]
      /\ Hist(e, c) = Push(Hist(d, c), v, h) /\ v \in Status
      /\ \A m \in M6id : m # c => Entry(e, m) = Entry(d, m)
  BY DEF Collecting, Hist, Status
<1>2. /\ Shapes(d) /\ Held(d) /\ RegularIn(d, bs, k)
      /\ Outputs(d) \cap Deposit = Deposited(mn, n) /\ Shape(x, c)
  BY DEF Whole, Shapes
<1>3. /\ Size(e, c) = s + 1 /\ s \in Nat
      /\ \A i \in 1..s : Hist(e, c)[i] = Hist(d, c)[i]
      /\ Hist(e, c)[s + 1] = [value |-> v, height |-> h]
  <2> HIDE DEF v
  <2> QED BY ONLY <1>1, PushedHist, d \in Databases, c \in M6id, h \in Nat DEF s
<1>4. \A i \in 1..(s + 1) : Hist(e, c)[i].value = "Pending"
  <2> SUFFICES ASSUME NEW i \in 1..(s + 1) PROVE Hist(e, c)[i].value = "Pending" OBVIOUS
  <2>1. CASE i = s + 1 BY <1>3, <2>1
  <2>2. CASE i # s + 1 BY <1>3, <2>2 DEF OnlyPending
  <2> QED BY <2>1, <2>2
<1>5. /\ x.info \in {"Absent", "Known"}
      /\ x.info = "Absent" <=> s = 0
      /\ x.status = Hist(d, c) /\ x.info = Info(d, c)
      /\ s > 0 => Last(d, c) = "Pending" /\ Latest(x.status).value = "Pending"
  BY <1>2, <1>3, HistType DEF Shape, OnlyPending, Hist, Info, Last
<1>6. Hist(e, c)[1] = [value |-> "Pending", height |-> c.height]
  <2>1. CASE s = 0 BY <1>3, <2>1
  <2>2. CASE s # 0 BY <1>2, <1>3, <1>5, <2>2 DEF Shape
  <2> QED BY <2>1, <2>2
<1>7. Shape(y, c)
  <2>1. y.info = "Known" /\ y.spend_utxos = {} /\ y.status = Hist(e, c) BY <1>1
  <2>2. Len(y.status) = s + 1 /\ y.status # << >> BY <1>3, <2>1 DEF Size
  <2>3. \A i \in 1..Len(y.status) : Follows(y, i)
    <3> SUFFICES ASSUME NEW i \in 1..(s + 1) PROVE Follows(y, i) BY <2>2
    <3>1. y.status[i].value = "Pending" /\ (i = 1 \/ i - 1 \in 1..(s + 1))
      BY <1>3, <1>4, <2>1
    <3>2. i = 1 \/ y.status[i - 1].value = "Pending" BY <1>4, <2>1, <3>1
    <3> HIDE DEF y
    <3> QED BY <2>1, <3>1, <3>2 DEF Follows
  <2> HIDE DEF y
  <2> QED BY <1>6, <2>1, <2>2, <2>3 DEF Shape
<1>8. HeldBy(x, c) = {} /\ HeldBy(y, c) = {}
  <2>1. y.info = "Known" /\ Latest(y.status).value = "Pending"
    BY <1>1, <1>3, <1>4 DEF Latest, Size
  <2>2. x.info = "Known" => Latest(x.status).value = "Pending" BY <1>3, <1>5
  <2> HIDE DEF x, y
  <2> QED BY <1>5, <2>1, <2>2 DEF HeldBy
<1> QED BY <1>1, <1>2, <1>7, <1>8 DEF Whole, Shapes, Held, RegularIn, Outputs

\* A finished block leaves no stamp above its height.
LEMMA StampsAfter ==
  ASSUME NEW a, NEW lo, NEW h, NEW d, NEW mn, NEW n, NEW C, NEW F, NEW g,
         Trace(a, lo, h, d, mn, n, C, {}, F, g), StampsBelow(a, h),
         Pend(d) \subseteq Pend(a) \cup C
  PROVE  StampsBelow(d, h + 1)
<1>1. /\ a \in Databases /\ d \in Databases /\ h \in Nat /\ Shapes(a) /\ Shapes(d)
      /\ Collects(a, h, d, C) /\ FailedGrown(a, lo, h, d, n, F, g)
  BY DEF Trace, Extra, Traced
<1>2. ASSUME NEW m \in M6id
      PROVE  \/ LeftOver(d, m, h + 1)
             \/ \A i \in 1..Size(d, m) : Hist(d, m)[i].height < h + 1
  <2> DEFINE s == Size(d, m)
             r == Size(a, m)
  <2>1. /\ s \in Nat /\ r \in Nat /\ \A i \in 1..s : Hist(d, m)[i].height \in Nat
        /\ DOMAIN Hist(a, m) = 1..r /\ DOMAIN Hist(d, m) = 1..s /\ m.height \in Nat
    BY <1>1, HistType, LenProperties DEF Size, M6id
  <2>2. ASSUME m \in C PROVE \A i \in 1..s : Hist(d, m)[i].height < h + 1
    <3> DEFINE v == "Pending"
    <3>1. /\ OldOrNone(a, m, h) /\ m.height = h
          /\ Hist(d, m) = Push(Hist(a, m), v, h) /\ v \in Status
      BY <1>1, <2>2 DEF Collects, Hist, Status
    <3> HIDE DEF v
    <3>2. /\ s = r + 1 /\ \A i \in 1..r : Hist(d, m)[i] = Hist(a, m)[i]
          /\ Hist(d, m)[r + 1] = [value |-> v, height |-> h]
      BY ONLY <1>1, <3>1, PushedHist, m \in M6id DEF s, r
    <3>3. \A i \in 1..r : Hist(a, m)[i].height = h
      <4>1. CASE Entry(a, m) = NoBundle BY <4>1 DEF Size, Hist, NoBundle
      <4>2. CASE LeftOver(a, m, h) BY <2>1, <3>1, <4>2 DEF LeftOver, Hist, Entry
      <4> QED BY <3>1, <4>1, <4>2 DEF OldOrNone
    <3> SUFFICES ASSUME NEW i \in 1..s PROVE Hist(d, m)[i].height = h BY <1>1
    <3> QED BY <2>1, <3>2, <3>3
  <2>3. CASE m \notin C
    <3> DEFINE L == {}
    <3>1. Trace(a, lo, h, d, mn, n, C, L, F, g) /\ m \notin C \cup L BY <2>3
    <3> HIDE DEF L
    <3>3. CASE \A i \in 1..Size(d, m) : Hist(d, m)[i].height =< h BY <1>1, <2>1, <3>3
    <3>4. CASE LeftOver(a, m, h) /\ Entry(d, m) = Entry(a, m)
      <4>1. /\ \A i \in 1..s : Hist(d, m)[i] = [value |-> "Pending", height |-> m.height]
            /\ m \notin Pend(a) /\ h =< m.height
        BY <2>1, <3>4, SameEntry DEF LeftOver, Hist, Entry, Pend
      <4>2. CASE m.height = h BY <1>1, <2>1, <4>1, <4>2
      <4>3. CASE m.height # h
        <5>2. LeftOver(d, m, h + 1)
          BY <1>1, <2>1, <2>3, <3>4, <4>1, <4>3 DEF LeftOver, Entry, Pend
        <5> QED BY <5>2
      <4> QED BY <4>2, <4>3
    <3> QED BY <3>1, <3>3, <3>4, StampsWithin
  <2> QED BY <2>2, <2>3
<1>3. ASSUME NEW i \in 1..Len(Failed(d)) PROVE Failed(d)[i].height < h + 1
  <2> DEFINE p == Len(Failed(a))
             q == Len(Failed(d))
  <2>1. p \in Nat /\ q \in Nat /\ Failed(d)[i].height \in Nat BY <1>1, FailedType
  <2>2. CASE i \in 1..p BY <1>1, <2>1, <2>2 DEF FailedGrown, StampsBelow
  <2>3. CASE i \notin 1..p BY <1>1, <2>1, <2>3 DEF FailedGrown
  <2> QED BY <2>2, <2>3
<1> QED BY <1>2, <1>3 DEF StampsBelow

\* One block more is committed.
LEMMA ExtendSettled ==
  ASSUME NEW c, NEW mn, NEW d, NEW e, NEW N \in Nat, N > 0, NEW n \in Nat,
         NEW lo \in Nat, lo =< n, c[N] \in Block, c[N].before = d, c[N].events = lo,
         BodyFits(c[N]), Settled(c, mn, d, N - 1, lo), Sound(e, c, N, mn, n),
         Since(c[N], N - 1, e, mn, n)
  PROVE  Settled(c, mn, e, N, n)
<1> SUFFICES ASSUME NEW i \in 1..N PROVE Linked(c, mn, e, N, n, i) BY DEF Settled
<1>1. CASE i = N BY <1>1 DEF Linked, DbAfter, EventsAfter, Settled
<1>2. CASE i # N
  <2> DEFINE k == N - 1
  <2>1. i \in 1..k /\ i < N /\ k \in Nat BY <1>2
  <2>2. Linked(c, mn, d, k, lo, i) BY <2>1 DEF Settled
  <2>3. /\ DbAfter(c, N, e, i) = DbAfter(c, k, d, i)
        /\ EventsAfter(c, N, n, i) = EventsAfter(c, k, lo, i)
    <3>1. CASE i < k BY <2>1, <3>1 DEF DbAfter, EventsAfter
    <3>2. CASE ~(i < k)
      <4>1. i + 1 = N BY <2>1, <3>2
      <4> HIDE DEF k
      <4> QED BY <2>1, <3>2, <4>1 DEF DbAfter, EventsAfter
    <3> QED BY <3>1, <3>2
  <2> QED BY <2>2, <2>3 DEF Linked, Block
<1> QED BY <1>1, <1>2

\* What the end of connect writes.
Finishing ==
    /\ committed' = db' /\ txn' = NoTransaction /\ chain' = chain /\ main' = main
    /\ net_task' = net_task
    /\ \/ CollectDue /\ Collecting(db, db', Collected, height)
       \/ SameBundles(db', db) /\ db'.utxos = db.utxos /\ db'.stxos = db.stxos
    /\ db'.deposit_blocks = Record(db.deposit_blocks, txn.deposit_block)
    /\ db'.withdrawal_bundle_event_blocks =
           Record(db.withdrawal_bundle_event_blocks, txn.event_block)
    /\ db'.utreexo_accumulator = ApplyDiff(db.utreexo_accumulator, txn)
    /\ txn.removed \subseteq db.utreexo_accumulator /\ FailureFound

LEMMA FinishDb ==
  ASSUME TInv, TInv', FinishConnect
  PROVE  Aborts \/ Finishing
<1> DEFINE x == Collect(db)
<1>2. \/ /\ db' = [x EXCEPT
                      !.deposit_blocks = Record(x.deposit_blocks, txn.deposit_block),
                      !.withdrawal_bundle_event_blocks =
                          Record(x.withdrawal_bundle_event_blocks, txn.event_block),
                      !.utreexo_accumulator = ApplyDiff(x.utreexo_accumulator, txn)]
         /\ committed' = db' /\ txn' = NoTransaction
         /\ chain' = chain /\ main' = main /\ net_task' = net_task
         /\ txn.removed \subseteq db.utreexo_accumulator /\ FailureFound
      \/ Aborts
  BY DEF FinishConnect, Aborts
<1>3. SUFFICES ASSUME ~Aborts PROVE Finishing OBVIOUS
<1>4. db \in Databases /\ db' \in Databases /\ x \in Databases /\ height \in Nat
      /\ Collected \in M6id
  BY CollectDb, HeightType DEF TInv, TypeOK, FinishConnect
<1> DEFINE p == Record(x.deposit_blocks, txn.deposit_block)
           q == Record(x.withdrawal_bundle_event_blocks, txn.event_block)
           r == ApplyDiff(x.utreexo_accumulator, txn)
<1>5. db' = [x EXCEPT !.deposit_blocks = p, !.withdrawal_bundle_event_blocks = q,
                      !.utreexo_accumulator = r]
  BY <1>2, <1>3
<1>6. \/ CollectDue /\ Collecting(db, x, Collected, height) /\ Logs(x) = Logs(db)
      \/ x = db
  <2>1. CASE ~CollectDue BY <2>1 DEF Collect
  <2>2. CASE CollectDue
    <3> DEFINE c == Collected
               y == PushStatus(db, c, "Known", {}, "Pending")
    <3>1. x = [y EXCEPT !.pending_withdrawal_bundle = {c}] /\ c \in M6id
      BY <1>4, <2>2 DEF Collect
    <3>2. /\ "Pending" \in Status /\ {} \in SUBSET Outpoint
          /\ "Known" \in {"Absent", "Known", "Unknown", "UnknownConfirmed"}
      BY DEF Status
    <3> HIDE DEF c
    <3>3. y \in Databases /\ EntryOf(y, db, c, Pushed(db, c, "Known", {}, "Pending"))
      BY <1>4, <3>1, <3>2, PushStatusType
    <3>4. SameRest(y, db) BY <1>4, StatusRest
    <3> HIDE DEF x, y
    <3>5. SameRest(x, y) /\ x.utxos = y.utxos /\ x.stxos = y.stxos /\ Pend(x) = {c}
          /\ x.withdrawal_bundles = y.withdrawal_bundles
      BY <3>1, <3>3, FieldRest DEF Databases, Pend
    <3> QED
      BY <1>4, <2>2, <3>3, <3>4, <3>5 DEF Collecting, SameRest, c, EntryOf, Pushed,
         Entry, Hist
  <2> QED BY <2>1, <2>2
<1> HIDE DEF x
<1>7. /\ x.deposit_blocks = db.deposit_blocks
      /\ x.withdrawal_bundle_event_blocks = db.withdrawal_bundle_event_blocks
      /\ x.utreexo_accumulator = db.utreexo_accumulator
  BY <1>6 DEF Logs
<1> HIDE DEF p, q, r
<1>8. /\ db'.utxos = x.utxos /\ db'.stxos = x.stxos /\ Pend(db') = Pend(x)
      /\ Failed(db') = Failed(x) /\ db'.withdrawal_bundles = x.withdrawal_bundles
      /\ db'.deposit_blocks = p /\ db'.withdrawal_bundle_event_blocks = q
      /\ db'.utreexo_accumulator = r
  BY <1>4, <1>5 DEF Databases, Pend, Failed
<1> QED
  BY <1>2, <1>3, <1>4, <1>6, <1>7, <1>8 DEF Finishing, p, q, r, Collecting, SameBundles,
     Entry

\* A record of this block is above those of earlier ones.
LEMMA RecordBelow ==
  ASSUME NEW log \in Seq(EventBlock), height \in Nat, NEW block \in Nat,
         NEW mn \in Seq(Event), NEW c, MainGood(c, mn), NEW lo \in 0..Len(mn),
         LogBelow(log, height, BlockOf(mn, lo)), NEW kinds,
         Met(block, lo, mn, Len(mn), kinds)
  PROVE  /\ LogBelow(Record(log, block), height + 1, BlockOf(mn, Len(mn)))
         /\ LogSince(Record(log, block), log, height, lo, mn, Len(mn), kinds)
<1> DEFINE n == Len(mn)
           x == BlockOf(mn, lo)
           y == BlockOf(mn, n)
           r == Record(log, block)
<1>1. n \in Nat /\ lo \in Nat /\ lo =< n /\ x \in Nat /\ y \in Nat /\ x =< y
  BY LenProperties, BlockOfType, BlocksGrow
<1>2. /\ \A i \in 1..Len(log) : log[i].block \in Nat /\ log[i].height \in Nat
      /\ Len(log) \in Nat
  <2>1. \A i \in 1..Len(log) : log[i] \in EventBlock BY ElementOfSeq
  <2> QED BY <2>1, LenProperties DEF EventBlock
<1>3. \A i \in 1..Len(log) : log[i].height < height + 1 /\ 0 < log[i].block
                             /\ log[i].block =< y
  <2> HIDE DEF x, y
  <2> QED BY <1>1, <1>2 DEF LogBelow, x
<1>4. CASE block = 0
  <2>1. r = log BY <1>4 DEF Record
  <2> HIDE DEF r
  <2> QED BY <1>3, <2>1 DEF LogBelow, LogSince, r
<1>5. CASE block # 0
  <2> DEFINE rec == [block |-> block, height |-> height]
  <2>1. r = Append(log, rec) /\ rec \in EventBlock BY <1>5 DEF Record, EventBlock
  <2>2. /\ x < block /\ block =< y /\ 0 < block
        /\ \E i \in (lo + 1)..n : mn[i].kind \in kinds
    BY <1>5 DEF Met
  <2> HIDE DEF r, x, y, n
  <2>3. /\ Len(r) = Len(log) + 1 /\ r[Len(log) + 1] = rec
        /\ \A i \in 1..Len(log) : r[i] = log[i]
    BY <2>1, AppendProperties
  <2>4. ASSUME NEW i \in 1..Len(r)
        PROVE  r[i].height < height + 1 /\ 0 < r[i].block /\ r[i].block =< y
    <3>1. CASE i = Len(log) + 1 BY <2>2, <2>3, <3>1
    <3>2. CASE i # Len(log) + 1
      <4>1. i \in 1..Len(log) BY <1>2, <2>3, <3>2
      <4> QED BY <1>3, <2>3, <4>1
    <3> QED BY <3>1, <3>2
  <2> QED BY <2>1, <2>2, <2>4 DEF r, y, n, LogBelow, LogSince, x
<1> QED BY <1>4, <1>5

\* What is known when a block is being connected.
LEMMA ConnectingFacts ==
  ASSUME RInv, txn.phase = "connect"
  PROVE  /\ TInv /\ MainGood(chain, main) /\ Connecting
         /\ tip \in Block /\ tip.before = committed
         /\ tip.events \in Nat /\ tip.events =< Len(main)
         /\ Len(main) \in Nat /\ Len(chain) \in Nat /\ Len(chain) > 0
         /\ height \in Nat /\ height = Len(chain) - 1
         /\ main \in Seq(Event) /\ chain \in Seq(Block)
         /\ db \in Databases /\ committed \in Databases /\ txn \in Transaction
         /\ Sound(committed, chain, height, main, tip.events)
         /\ Shapes(committed) /\ StampsBelow(committed, height) /\ Failures(committed)
         /\ PendingGood(committed) /\ Shapes(db) /\ PendingGood(db) /\ Failures(db)
         /\ Progress(tip, height, db, main, Len(main), {}, {})
         /\ \E F, g : Trace(committed, tip.events, height, db, main, Len(main),
                            {}, {}, F, g)
         /\ Pend(db) \subseteq Pend(committed)
<1>1. TInv /\ MainGood(chain, main) /\ Connecting /\ PendingGood(db)
  BY DEF RInv, IInv, Funds, DatabasesGood
<1>2. /\ tip \in Block /\ tip.events \in Nat /\ tip.events =< Len(main)
      /\ Len(main) \in Nat /\ Len(chain) \in Nat /\ Len(chain) > 0
      /\ height \in Nat /\ height = Len(chain) - 1
      /\ main \in Seq(Event) /\ chain \in Seq(Block)
      /\ db \in Databases /\ committed \in Databases /\ txn \in Transaction
  BY <1>1, ChainFacts
<1>3. /\ tip.before = committed /\ Sound(committed, chain, height, main, tip.events)
      /\ Whole(db, chain, Len(chain), main, Len(main))
      /\ Progress(tip, height, db, main, Len(main), {}, {})
  BY <1>1, <1>2 DEF Connecting, Settled
<1>4. /\ Shapes(committed) /\ StampsBelow(committed, height) /\ Failures(committed)
      /\ PendingGood(committed) /\ Shapes(db)
  BY <1>3 DEF Sound, Whole
<1> DEFINE C == {}
           L == {}
<1>5. Progress(tip, height, db, main, Len(main), C, L) /\ Shapes(tip.before)
  BY <1>3, <1>4
<1> HIDE DEF C, L
<1>6. PICK F, g : Trace(tip.before, tip.events, height, db, main, Len(main), C, L, F, g)
  BY <1>2, <1>4, <1>5, ProgressTrace
<1>7. Trace(committed, tip.events, height, db, main, Len(main), C, L, F, g)
  BY <1>3, <1>6
<1>8. Failures(db) BY ONLY <1>4, <1>7, TraceFailures
<1> QED BY <1>1, <1>2, <1>3, <1>4, <1>7, <1>8 DEF C, L, Progress

\* The gap is over, as get_latest_failed_withdrawal_bundle finds.
LEMMA GapIsOver ==
  GapElapsed <=> GapOver(db, height)
BY DEF GapElapsed, GapOver, LastFailureHeight, FailedAt, FailureStamps, bundle, Failed,
   Hist, Entry

\* The bundle that the open block would collect.
LEMMA CollectedFacts ==
  ASSUME RInv, txn.phase = "connect", CollectDue, ~CollectsReported
  PROVE  /\ Collected \in M6id /\ Collected.height = height
         /\ Info(db, Collected) \in {"Absent", "Known"}
         /\ OldOrNone(committed, Collected, height)
         /\ Entry(db, Collected) = Entry(committed, Collected)
         /\ OnlyPending(db, Collected) /\ GapOver(committed, height) /\ Pend(db) = {}
<1>1. /\ TInv /\ db \in Databases /\ committed \in Databases /\ height \in Nat
      /\ Shapes(committed) /\ StampsBelow(committed, height) /\ Failures(committed)
      /\ \E F, g : Trace(committed, tip.events, height, db, main, Len(main),
                         {}, {}, F, g)
  BY ConnectingFacts
<1>2. Collected \in M6id BY <1>1, CollectDb
<1>3. Collected.height = height /\ Info(db, Collected) \in {"Absent", "Known"}
  <2>1. Collected.height = height BY DEF Collected
  <2>2. /\ Info(db, Collected) \notin {"Unknown", "UnknownConfirmed"}
        /\ Info(db, Collected) \in {"Absent", "Known", "Unknown", "UnknownConfirmed"}
    BY <1>1, <1>2, HistType DEF CollectsReported, Info, Entry, bundle
  <2> QED BY <2>1, <2>2
<1>4. PICK F, g : Trace(committed, tip.events, height, db, main, Len(main),
                        {}, {}, F, g)
  BY <1>1
<1> DEFINE c == Collected
           lo == tip.events
           n == Len(main)
<1>5. OldOrNone(committed, c, height) /\ Entry(db, c) = Entry(committed, c)
  <2>1. c \in M6id /\ c.height = height /\ Info(db, c) \in {"Absent", "Known"}
        /\ Trace(committed, lo, height, db, main, n, {}, {}, F, g)
    BY <1>2, <1>3, <1>4
  <2> HIDE DEF c, lo, n
  <2> QED BY <1>1, <2>1, CollectFresh
<1> HIDE DEF c
<1>6. OnlyPending(db, c) BY <1>1, <1>2, <1>5, SameEntry, OldPending DEF OnlyPending, c
<1>7. GapOver(committed, height)
  <2>1. GapOver(db, height) BY GapIsOver DEF CollectDue
  <2> DEFINE C == {}
             L == {}
  <2>2. Trace(committed, lo, height, db, main, n, C, L, F, g) BY <1>4
  <2> HIDE DEF C, L, lo, n
  <2> QED BY <1>1, <2>1, <2>2, FailedAtGrows, ConstantsAssumption DEF GapOver
<1> QED BY <1>2, <1>3, <1>5, <1>6, <1>7 DEF c, CollectDue, Pend

LEMMA FinishConnectRInv ==
  ASSUME RInv, IInv', FinishConnect, "reported_first" \notin defects'
  PROVE  RInv'
<1>1. txn.phase = "connect" /\ TInv' BY DEF FinishConnect, IInv
<1> DEFINE N == Len(chain)
           n == Len(main)
           lo == tip.events
           h == height
<1>2. /\ TInv /\ MainGood(chain, main) /\ Connecting
      /\ tip \in Block /\ tip.before = committed /\ lo \in Nat /\ lo =< n
      /\ n \in Nat /\ N \in Nat /\ N > 0 /\ h \in Nat /\ h = N - 1
      /\ main \in Seq(Event) /\ chain \in Seq(Block)
      /\ db \in Databases /\ committed \in Databases /\ txn \in Transaction
      /\ Sound(committed, chain, h, main, lo)
      /\ Shapes(committed) /\ StampsBelow(committed, h) /\ Failures(committed)
      /\ PendingGood(committed) /\ Shapes(db) /\ PendingGood(db) /\ Failures(db)
      /\ Progress(tip, h, db, main, n, {}, {}) /\ Pend(db) \subseteq Pend(committed)
  BY <1>1, ConnectingFacts
<1>3. SUFFICES ASSUME Finishing, ~CollectsReported PROVE RInv'
  BY <1>1, <1>2, FinishDb, AbortRInv DEF FinishConnect, Aborts
<1>4. db' \in Databases /\ NotBoth(db') /\ PendingGood(db')
  BY DEF IInv, TInv, TypeOK, Funds, DatabasesGood
<1>5. /\ Whole(db, chain, N, main, n) /\ Awaited(db, main, n)
      /\ Diff(db, txn) /\ SameRecords(db, committed)
      /\ Met(txn.deposit_block, lo, main, n, {"Deposit"})
      /\ Met(txn.event_block, lo, main, n, OfBundles)
      /\ BodyFits(tip) /\ Settled(chain, main, committed, N - 1, lo)
  BY <1>2 DEF Connecting
<1> HIDE DEF n, lo, h
<1>6. \E C : /\ Progress(tip, h, db', main, n, C, {})
             /\ Whole(db', chain, N, main, n) /\ Awaited(db', main, n)
             /\ Pend(db') \subseteq Pend(committed) \cup C /\ db'.utxos = db.utxos
  <2>1. CASE SameBundles(db', db) /\ db'.utxos = db.utxos /\ db'.stxos = db.stxos
    <3>1. Outputs(db') = Outputs(db) BY <2>1 DEF Outputs
    <3>2. Progress(tip, h, db', main, n, {}, {})
      <4> DEFINE C == {}
                 L == {}
      <4>1. Progress(tip, h, db, main, n, C, L) /\ Shapes(tip.before)
            /\ (\A i \in 1..n : i =< n => main[i] = main[i]) /\ n =< n
            /\ Outputs(db') \ Deposit = Outputs(db) \ Deposit
        BY <1>2, <3>1
      <4> HIDE DEF C, L
      <4>2. Progress(tip, h, db', main, n, C, L) BY ONLY <1>2, <2>1, <4>1, SameProgress
      <4> QED BY <4>2 DEF C, L
    <3> QED
      BY <1>2, <1>4, <1>5, <2>1, <3>1, <3>2 DEF Whole, Shapes, Held, RegularIn,
         SameBundles, Awaited, Info, Last
  <2>2. CASE CollectDue /\ Collecting(db, db', Collected, height)
    <3> DEFINE c == Collected
    <3>1. /\ c \in M6id /\ c.height = h /\ Info(db, c) \in {"Absent", "Known"}
          /\ OnlyPending(db, c) /\ GapOver(committed, h) /\ Pend(db) = {}
          /\ Collecting(db, db', c, h)
      BY <1>1, <1>3, <2>2, CollectedFacts DEF h
    <3> HIDE DEF c
    <3>2. Progress(tip, h, db', main, n, {c}, {})
      <4>1. Shapes(tip.before) /\ StampsBelow(tip.before, h) /\ GapOver(tip.before, h)
        BY <1>2, <3>1
      <4> QED BY ONLY <1>2, <3>1, <4>1, CollectProgress
    <3>3. Whole(db', chain, N, main, n) BY ONLY <1>2, <1>4, <1>5, <3>1, CollectWhole
    <3>4. Awaited(db', main, n)
      <4> SUFFICES ASSUME NEW m \in M6id, LastIn(main, 1, n, "Submitted", m)
                   PROVE  /\ Info(db', m) # "Absent"
                          /\ Last(db', m) \in {"Submitted", "SubmittedUnexpected"}
        BY DEF Awaited
      <4>1. /\ Info(db, m) # "Absent"
            /\ Last(db, m) \in {"Submitted", "SubmittedUnexpected"}
        BY <1>5 DEF Awaited
      <4>2. m # c
        <5> SUFFICES ASSUME m = c PROVE FALSE OBVIOUS
        <5>1. Size(db, m) \in Nat /\ (Hist(db, m) = << >> <=> Size(db, m) = 0)
              /\ (Size(db, m) > 0 => Last(db, m) = Hist(db, m)[Size(db, m)].value)
          BY <1>2, HistType
        <5>2. Size(db, m) # 0 BY <1>2, <4>1, <5>1 DEF Shapes, Shape, Info, Hist
        <5> QED BY <3>1, <4>1, <5>1, <5>2 DEF OnlyPending
      <4> QED BY <3>1, <4>1, <4>2 DEF Info, Last, Collecting
    <3> QED BY <3>1, <3>2, <3>3, <3>4 DEF Collecting
  <2> QED BY <1>3, <2>1, <2>2 DEF Finishing
<1>7. PICK C : /\ Progress(tip, h, db', main, n, C, {})
               /\ Whole(db', chain, N, main, n) /\ Awaited(db', main, n)
               /\ Pend(db') \subseteq Pend(committed) \cup C /\ db'.utxos = db.utxos
  BY <1>6
<1>8. StampsBelow(db', N) /\ Failures(db')
  <2> DEFINE L == {}
  <2>1. Progress(tip, h, db', main, n, C, L) /\ Shapes(tip.before) /\ Shapes(db')
    BY <1>2, <1>7 DEF Whole
  <2> HIDE DEF L
  <2>2. PICK F, g : Trace(tip.before, tip.events, h, db', main, n, C, L, F, g)
    BY <1>2, <1>4, <2>1, ProgressTrace
  <2>3. Trace(committed, lo, h, db', main, n, C, L, F, g) BY <1>2, <2>2 DEF lo
  <2>4. Failures(db') BY ONLY <1>2, <2>3, TraceFailures
  <2> QED BY <1>2, <1>7, <2>3, <2>4, StampsAfter DEF L
<1> DEFINE p == committed.deposit_blocks
           q == committed.withdrawal_bundle_event_blocks
           x == txn.deposit_block
           y == txn.event_block
           one == {"Deposit"}
<1>9. /\ p \in Seq(EventBlock) /\ q \in Seq(EventBlock) /\ x \in Nat /\ y \in Nat
      /\ LogBelow(p, height, BlockOf(main, lo)) /\ LogBelow(q, height, BlockOf(main, lo))
      /\ db'.deposit_blocks = Record(p, x)
      /\ db'.withdrawal_bundle_event_blocks = Record(q, y)
      /\ lo \in 0..Len(main) /\ height \in Nat
      /\ Met(x, lo, main, Len(main), one) /\ Met(y, lo, main, Len(main), OfBundles)
  BY <1>2, <1>3, <1>5 DEF Finishing, SameRecords, Databases, Transaction, Sound, h, n
<1>10. /\ LogBelow(db'.deposit_blocks, N, BlockOf(main, n))
       /\ LogBelow(db'.withdrawal_bundle_event_blocks, N, BlockOf(main, n))
       /\ LogSince(db'.deposit_blocks, p, h, lo, main, n, one)
       /\ LogSince(db'.withdrawal_bundle_event_blocks, q, h, lo, main, n, OfBundles)
  <2> HIDE DEF p, q, x, y, one
  <2> QED BY <1>2, <1>9, RecordBelow DEF h, n
<1>12. Sound(db', chain, N, main, n)
  BY <1>3, <1>4, <1>5, <1>7, <1>8, <1>10 DEF Sound, Finishing, Diff
<1>14. Settled(chain, main, db', N, n)
  <2>1. chain[N] = tip /\ N - 1 = h /\ Since(chain[N], N - 1, db', main, n)
        /\ chain[N] \in Block /\ chain[N].before = committed /\ chain[N].events = lo
        /\ BodyFits(chain[N])
    BY <1>2, <1>5, <1>7, <1>10 DEF tip, lo, Since
  <2> HIDE DEF N
  <2> QED BY ONLY <1>2, <1>5, <1>12, <2>1, ExtendSettled
<1> QED BY <1>2, <1>3, <1>14 DEF RInv, Finishing, NoTransaction, n

-----------------------------------------------------------------------------
(* Every step of disconnect_two_way_peg_data preserves it *)

\* What is known of a committed tip.
LEMMA TipFacts ==
  ASSUME RInv, txn.phase # "connect", Len(chain) > 0
  PROVE  /\ TInv /\ MainGood(chain, main) /\ tip \in Block /\ tip.before \in Databases
         /\ tip.events \in Nat /\ tip.events =< Len(main)
         /\ Len(main) \in Nat /\ Len(chain) \in Nat
         /\ height \in Nat /\ height = Len(chain) - 1
         /\ main \in Seq(Event) /\ chain \in Seq(Block)
         /\ db \in Databases /\ committed \in Databases /\ txn \in Transaction
         /\ BodyFits(tip) /\ Settled(chain, main, committed, Len(chain), Len(main))
         /\ Sound(committed, chain, Len(chain), main, Len(main))
         /\ Sound(tip.before, chain, height, main, tip.events)
         /\ Since(tip, height, committed, main, Len(main))
<1>1. TInv /\ MainGood(chain, main)
      /\ Settled(chain, main, committed, Len(chain), Len(main))
  BY DEF RInv, IInv
<1> DEFINE N == Len(chain)
           n == Len(main)
<1> QED BY <1>1, ChainFacts DEF tip, Linked, DbAfter, EventsAfter, Settled, height

\* The records of earlier sidechain blocks are of earlier mainchain blocks.
LEMMA EarlierBelow ==
  ASSUME height \in Nat, NEW log \in Seq(EventBlock), NEW was \in Seq(EventBlock),
         NEW lo \in Nat, NEW mn, NEW n, NEW kinds,
         LogSince(log, was, height, lo, mn, n, kinds),
         LogBelow(was, height, BlockOf(mn, lo)), BlockOf(mn, lo) \in Nat,
         height = 0 => log = << >>
  PROVE  LastEarlier(log).block \in Nat /\ LastEarlier(log).block =< BlockOf(mn, lo)
<1> DEFINE earlier == {i \in DOMAIN log : log[i].height < height - 1 \/ height = 0}
           B == BlockOf(mn, lo)
<1>1. DOMAIN log = 1..Len(log) /\ Len(log) \in Nat
      /\ DOMAIN was = 1..Len(was) /\ Len(was) \in Nat
  BY LenProperties
<1>2. CASE earlier = {} BY <1>2 DEF LastEarlier
<1>3. CASE earlier # {}
  <2>1. earlier \in SUBSET (1..Len(log)) BY <1>1
  <2>2. LastEarlier(log) = log[Max(earlier)] BY <1>3 DEF LastEarlier
  <2> DEFINE i == Max(earlier)
  <2>3. i \in earlier
    <3> HIDE DEF earlier
    <3> QED BY <1>1, <1>3, <2>1, MaxIn
  <2>4. i \in 1..Len(log) /\ (log[i].height < height - 1 \/ height = 0) BY <1>1, <2>3
  <2> HIDE DEF i, earlier, B
  <2>5. height # 0 BY <2>4
  <2>6. log[i] \in EventBlock BY <2>4, ElementOfSeq
  <2>60. log[i].block \in Nat /\ log[i].height \in Nat BY <2>6 DEF EventBlock
  <2>7. log[i].block \in Nat /\ log[i].height \in Nat /\ log[i].height < height
    BY <2>4, <2>5, <2>60
  <2>8. i \in 1..Len(was) /\ log[i] = was[i]
    <3>1. CASE log = was BY <2>4, <3>1
    <3>2. CASE \E x \in Nat : log = Append(was, [block |-> x, height |-> height])
      <4>1. PICK x \in Nat : log = Append(was, [block |-> x, height |-> height]) BY <3>2
      <4> DEFINE r == [block |-> x, height |-> height]
      <4>2. r \in EventBlock /\ r.height = height /\ log = Append(was, r)
        BY <4>1 DEF EventBlock
      <4> HIDE DEF r
      <4> QED BY <1>1, <2>4, <2>7, <4>2, AppendProperties
    <3> QED BY <3>1, <3>2 DEF LogSince
  <2> QED BY <2>2, <2>7, <2>8 DEF i, B, LogBelow
<1> QED BY <1>2, <1>3

LEMMA BeginDisconnectRInv ==
  ASSUME RInv, IInv', BeginDisconnect, "genesis_wraps" \notin defects'
  PROVE  RInv'
<1>1. \/ /\ txn' = [txn EXCEPT !.phase = "disconnect", !.undo = Len(main),
                                !.start_block = StartBlock]
         /\ UNCHANGED << db, committed, chain, main, net_task >>
         /\ height = 0 => /\ db.deposit_blocks = << >>
                          /\ db.withdrawal_bundle_event_blocks = << >>
      \/ Aborts
  BY DEF BeginDisconnect, GenesisRecords, Aborts
<1>2. SUFFICES ASSUME ~Aborts PROVE RInv' BY AbortRInv
<1>3. txn.phase = "idle" /\ chain # << >> /\ net_task = "running" BY DEF BeginDisconnect
<1>4. db = committed BY <1>3 DEF RInv
<1>5. Len(chain) > 0 BY <1>3, EmptySeq, LenProperties DEF RInv, IInv, TInv, TypeOK
<1> DEFINE n == Len(main)
           lo == tip.events
<1>6. /\ TInv /\ MainGood(chain, main)
      /\ lo \in Nat /\ lo =< n /\ n \in Nat /\ Len(chain) \in Nat
      /\ height \in Nat /\ main \in Seq(Event) /\ db \in Databases
      /\ tip.before \in Databases /\ txn \in Transaction
      /\ Settled(chain, main, committed, Len(chain), n)
      /\ Sound(committed, chain, Len(chain), main, n)
      /\ Sound(tip.before, chain, height, main, lo)
      /\ Since(tip, height, committed, main, n)
  BY <1>3, <1>5, TipFacts
<1>7. /\ txn'.phase = "disconnect" /\ txn'.undo = n /\ txn'.start_block = StartBlock
      /\ db' = db /\ committed' = committed /\ chain' = chain /\ main' = main
      /\ net_task' = net_task
  BY <1>1, <1>2, <1>6 DEF Transaction
<1> DEFINE p == db.deposit_blocks
           q == db.withdrawal_bundle_event_blocks
           pw == tip.before.deposit_blocks
           qw == tip.before.withdrawal_bundle_event_blocks
           B == BlockOf(main, lo)
           x == LastEarlier(p).block
           y == LastEarlier(q).block
           one == {"Deposit"}
<1>8. /\ p \in Seq(EventBlock) /\ q \in Seq(EventBlock)
      /\ pw \in Seq(EventBlock) /\ qw \in Seq(EventBlock)
      /\ LogSince(p, pw, height, lo, main, n, one)
      /\ LogSince(q, qw, height, lo, main, n, OfBundles)
      /\ LogBelow(pw, height, B) /\ LogBelow(qw, height, B)
      /\ height = 0 => p = << >>
      /\ height = 0 => q = << >>
  BY <1>1, <1>2, <1>4, <1>6 DEF Databases, Since, Sound
<1>9. B \in Nat BY <1>6, BlockOfType
<1>10. x \in Nat /\ x =< B /\ y \in Nat /\ y =< B
  <2> HIDE DEF p, q, pw, qw, lo, n, one
  <2> QED BY <1>6, <1>8, <1>9, EarlierBelow
<1>11. StartBlock \in {Max({x, y}), Min({x, y}), x, y} BY DEF StartBlock
<1>12. StartBlock =< B
  <2> HIDE DEF x, y, B
  <2> QED BY <1>9, <1>10, <1>11, MaxMinOfTwo
<1>15. Disconnecting'
  <2>4. Lowest(txn'.deposit_block, n, main, n, {"Deposit"})
        /\ Lowest(txn'.event_block, n, main, n, OfBundles)
    BY <1>6 DEF Lowest
  <2> QED
    BY <1>4, <1>6, <1>7, <1>12, <2>4 DEF Disconnecting, tip, height, Since, Sound,
       SameRecords
<1> QED BY <1>3, <1>6, <1>7, <1>15 DEF RInv

\* What is known while a block is being disconnected.
LEMMA DisconnectingFacts ==
  ASSUME RInv, txn.phase = "disconnect"
  PROVE  /\ Disconnecting /\ Len(chain) > 0 /\ TInv /\ MainGood(chain, main)
         /\ tip \in Block /\ tip.before \in Databases
         /\ tip.events \in Nat /\ tip.events =< Len(main)
         /\ txn.undo \in Nat /\ txn.undo =< Len(main) /\ txn.start_block \in Nat
         /\ Len(main) \in Nat /\ Len(chain) \in Nat
         /\ height \in Nat /\ height = Len(chain) - 1
         /\ main \in Seq(Event) /\ chain \in Seq(Block)
         /\ db \in Databases /\ committed \in Databases /\ txn \in Transaction
         /\ BodyFits(tip) /\ Sound(tip.before, chain, height, main, tip.events)
         /\ Shapes(tip.before) /\ StampsBelow(tip.before, height)
         /\ PendingGood(tip.before) /\ Failures(tip.before)
         /\ Shapes(db) /\ NotBoth(db) /\ PendingGood(db)
         /\ Whole(db, chain, Len(chain), main, txn.undo)
<1>1. Disconnecting /\ TInv /\ PendingGood(db) BY DEF RInv, IInv, Funds, DatabasesGood
<1>6. Whole(db, chain, Len(chain), main, txn.undo) /\ Shapes(db) /\ NotBoth(db)
  BY <1>1 DEF Disconnecting, Whole
<1> QED BY <1>1, <1>6, TipFacts DEF Transaction, Sound, Whole, TInv, ChainGood

\* One event less is left to undo.
LEMMA LowestStep ==
  ASSUME NEW mn \in Seq(Event), NEW c, MainGood(c, mn), NEW u \in 1..Len(mn),
         NEW block, NEW block2, NEW kinds, Lowest(block, u, mn, Len(mn), kinds),
         IF mn[u].kind \in kinds THEN block2 = mn[u].block ELSE block2 = block
  PROVE  Lowest(block2, u - 1, mn, Len(mn), kinds)
<1> SUFFICES ASSUME NEW i \in ((u - 1) + 1)..Len(mn), mn[i].kind \in kinds
             PROVE  0 < block2 /\ block2 =< mn[i].block
  BY DEF Lowest
<1>2. i \in 1..Len(mn) /\ u =< i /\ (i = u \/ i \in (u + 1)..Len(mn)) BY LenProperties
<1>3. CASE mn[u].kind \in kinds BY <1>2, <1>3 DEF MainGood
<1>4. CASE mn[u].kind \notin kinds BY <1>2, <1>4 DEF Lowest
<1> QED BY <1>3, <1>4

\* What disconnect_event does at every event.
LEMMA DisconnectingStep ==
  ASSUME RInv, IInv', NEW kinds, ToUndo(kinds), NEW t, SameLocals(t),
         Undone(db', t), SameRecords(db', db),
         Whole(db', chain, Len(chain), main, txn.undo - 1),
         \E C, L : Progress(tip, height, db', main, txn.undo - 1, C, L)
  PROVE  RInv'
<1>1. txn.phase = "disconnect" /\ txn.undo > 0 BY DEF ToUndo
<1> DEFINE u == txn.undo
           ev == main[u]
<1>2. /\ Disconnecting /\ MainGood(chain, main) /\ u \in Nat /\ u =< Len(main)
      /\ Len(main) \in Nat /\ main \in Seq(Event) /\ u \in 1..Len(main)
  BY <1>1, DisconnectingFacts
<1>3. /\ txn' = IF ev.kind = "Deposit"
                THEN [t EXCEPT !.undo = t.undo - 1, !.deposit_block = ev.block]
                ELSE [t EXCEPT !.undo = t.undo - 1, !.event_block = ev.block]
      /\ committed' = committed /\ chain' = chain /\ main' = main
      /\ net_task' = net_task
  BY DEF Undone
<1>4. /\ t \in Transaction /\ t.phase = "disconnect" /\ t.undo = u
      /\ t.deposit_block = txn.deposit_block /\ t.event_block = txn.event_block
      /\ t.start_block = txn.start_block
  BY <1>1 DEF SameLocals
<1>5. ev.kind # "Deposit" <=> ev.kind \in OfBundles
  BY <1>2, ElementOfSeq DEF Event, OfBundles
<1>6. /\ txn'.phase = "disconnect" /\ txn'.undo = u - 1
      /\ txn'.start_block = txn.start_block
      /\ IF ev.kind \in {"Deposit"} THEN txn'.deposit_block = ev.block
         ELSE txn'.deposit_block = txn.deposit_block
      /\ IF ev.kind \in OfBundles THEN txn'.event_block = ev.block
         ELSE txn'.event_block = txn.event_block
  <2>1. CASE ev.kind = "Deposit" BY <1>3, <1>4, <1>5, <2>1 DEF Transaction
  <2>2. CASE ev.kind # "Deposit" BY <1>3, <1>4, <1>5, <2>2 DEF Transaction
  <2> QED BY <2>1, <2>2
<1>7. tip' = tip /\ height' = height /\ Len(chain') = Len(chain) BY <1>3 DEF tip, height
<1>8. Lowest(txn'.deposit_block, u - 1, main, Len(main), {"Deposit"})
  <2> DEFINE one == {"Deposit"}
             x == txn.deposit_block
             y == txn'.deposit_block
  <2>1. /\ Lowest(x, u, main, Len(main), one)
        /\ IF main[u].kind \in one THEN y = main[u].block ELSE y = x
    BY <1>2, <1>6 DEF Disconnecting
  <2> HIDE DEF one, x, y, u
  <2>2. Lowest(y, u - 1, main, Len(main), one) BY ONLY <1>2, <2>1, LowestStep
  <2> QED BY <2>2 DEF one, x, y
<1>9. Lowest(txn'.event_block, u - 1, main, Len(main), OfBundles)
  <2> DEFINE x == txn.event_block
             y == txn'.event_block
  <2>1. /\ Lowest(x, u, main, Len(main), OfBundles)
        /\ IF main[u].kind \in OfBundles THEN y = main[u].block ELSE y = x
    BY <1>2, <1>6 DEF Disconnecting
  <2> HIDE DEF x, y, u
  <2>2. Lowest(y, u - 1, main, Len(main), OfBundles) BY ONLY <1>2, <2>1, LowestStep
  <2> QED BY <2>2 DEF x, y
<1> QED BY <1>1, <1>2, <1>3, <1>6, <1>7, <1>8, <1>9 DEF RInv, Disconnecting, SameRecords

LEMMA DisconnectDepositRInv ==
  ASSUME RInv, IInv', DisconnectDeposit
  PROVE  RInv'
<1> DEFINE u == txn.undo
           o == main[u].of
           t == Erase(txn, {o})
           kinds == {"Deposit"}
<1>1. /\ ToUndo(kinds) /\ txn.phase = "disconnect" /\ u > 0 /\ main[u].kind = "Deposit"
      /\ \/ o \in db.utxos /\ Undone([db EXCEPT !.utxos = @ \ {o}], t)
         \/ Aborts
  BY DEF DisconnectDeposit, ToUndo, Aborts
<1>2. /\ Disconnecting /\ MainGood(chain, main) /\ u \in Nat /\ u \in 1..Len(main)
      /\ Len(main) \in Nat /\ main \in Seq(Event) /\ TInv
      /\ db \in Databases /\ height \in Nat /\ tip \in Block
      /\ Shapes(tip.before) /\ Shapes(db) /\ NotBoth(db)
      /\ Whole(db, chain, Len(chain), main, u)
  BY <1>1, DisconnectingFacts
<1>3. SUFFICES ASSUME o \in db.utxos, Undone([db EXCEPT !.utxos = @ \ {o}], t)
               PROVE  RInv'
  BY <1>1, AbortRInv
<1>4. o \in Deposit /\ o \in Outpoint
  <2>1. main[u] \in Event BY <1>2, ElementOfSeq
  <2> QED BY <1>1, <2>1 DEF Event, Outpoint
<1> HIDE DEF o
<1>5. /\ db' = [db EXCEPT !.utxos = @ \ {o}] /\ db' \in Databases
      /\ db'.utxos = db.utxos \ {o} /\ db'.stxos = db.stxos
      /\ SameRecords(db', db) /\ SameBundles(db', db)
  BY <1>2, <1>3 DEF Undone, Databases, SameRecords, SameBundles, Entry, Pend, Failed,
     IInv, TInv, TypeOK
<1>6. Outputs(db') = Outputs(db) \ {o} BY <1>2, <1>3, <1>5 DEF Outputs, NotBoth
<1>7. Deposited(main, u - 1) = Deposited(main, u) \ {o}
  <2>2. \A i \in 1..(u - 1) : i # u /\ i \in 1..Len(main) BY <1>2
  <2> QED BY <1>1, <1>2, <2>2 DEF Deposited, o, MainGood
<1>8. Whole(db', chain, Len(chain), main, u - 1)
  <2> QED
    BY <1>2, <1>5, <1>6, <1>7 DEF Whole, Shapes, Held, SameBundles, NotBoth, RegularIn
<1>9. \E C, L : Progress(tip, height, db', main, u - 1, C, L)
  <2>1. PICK C, L : Progress(tip, height, db, main, u, C, L) BY <1>2 DEF Disconnecting
  <2>2. Unmatched(db, main, u) BY <1>1 DEF Unmatched, Matches
  <2>3. Outputs(db') \ Deposit = Outputs(db) \ Deposit BY <1>4, <1>6
  <2> DEFINE n2 == u - 1
  <2>4. n2 \in Nat /\ n2 = u - 1 /\ \A i \in 1..u : i =< n2 => main[i] = main[i] BY <1>2
  <2> HIDE DEF n2, u
  <2>6. /\ SameBundles(db', db) /\ tip \in Block /\ height \in Nat /\ u \in Nat
        /\ Shapes(tip.before) /\ Shapes(db)
        /\ u =< n2 \/ (n2 = u - 1 /\ Unmatched(db, main, u))
    BY <1>2, <1>5, <2>2, <2>4
  <2>5. Progress(tip, height, db', main, n2, C, L)
    BY ONLY <2>1, <2>3, <2>4, <2>6, SameProgress
  <2> QED BY <2>5 DEF n2
<1>10. SameLocals(t) BY <1>2, <1>4, DiffLocals
<1>11. Undone(db', t) BY <1>3, <1>5
<1> HIDE DEF t, kinds
<1> QED BY <1>1, <1>5, <1>8, <1>9, <1>10, <1>11, DisconnectingStep

LEMMA DisconnectEventRInv ==
  ASSUME RInv, IInv', DisconnectSubmitted \/ DisconnectConfirmed \/ DisconnectFailed
  PROVE  RInv'
<1> DEFINE u == txn.undo
           m == main[u].of
           kinds == {"Submitted", "Confirmed", "Failed"}
<1>1. txn.phase = "disconnect" /\ u > 0 /\ main[u].kind # "Deposit"
  BY DEF DisconnectSubmitted, DisconnectConfirmed, DisconnectFailed, ToUndo
<1>2. /\ Disconnecting /\ MainGood(chain, main) /\ u \in Nat /\ u \in 1..Len(main)
      /\ Len(main) \in Nat /\ main \in Seq(Event) /\ TInv
      /\ db \in Databases /\ height \in Nat /\ tip \in Block
      /\ Shapes(tip.before) /\ StampsBelow(tip.before, height)
      /\ PendingGood(tip.before) /\ Shapes(db) /\ NotBoth(db)
      /\ Whole(db, chain, Len(chain), main, u)
  BY <1>1, DisconnectingFacts
<1>3. Ready(db) BY <1>1, DbReady
<1>4. SUFFICES ASSUME ToUndo(kinds), m \in M6id,
                      Undoes(main[u].kind, m) \/ Skips(main[u].kind, m),
                      \E t : SameLocals(t) /\ Undone(db', t)
               PROVE  RInv'
  BY <1>2, <1>3, DisconnectEventUndone, AbortRInv
<1>5. PICK C, L : Progress(tip, height, db, main, u, C, L) BY <1>2 DEF Disconnecting
<1>6. Deposited(main, u - 1) = Deposited(main, u) BY <1>1, <1>2 DEF Deposited
<1> HIDE DEF u, m
<1>7. /\ SameRecords(db', db) /\ Whole(db', chain, Len(chain), main, u)
      /\ Progress(tip, height, db', main, u - 1, C, L)
  <2>1. CASE Undoes(main[u].kind, m)
    <3>1. Pops(db, db', m, main[u].kind, height) /\ OnlyMoves(db, db', m)
      BY <2>1 DEF Undoes, Pops
    <3>2. Whole(db', chain, Len(chain), main, u) BY <1>2, <1>4, <3>1, MovesWhole
    <3>4. main[u].of = m /\ Shapes(db') /\ u > 0 BY <1>1, <3>2 DEF Whole, m, u
    <3>5. Progress(tip, height, db', main, u - 1, C, L)
      BY ONLY <1>2, <1>4, <1>5, <3>1, <3>4, PopProgress
    <3> QED BY <3>1, <3>2, <3>5 DEF OnlyMoves, Logs, SameRecords
  <2>2. CASE Skips(main[u].kind, m)
    <3>1. /\ db' = db /\ main[u].kind \in {"Confirmed", "Failed"}
          /\ Info(db, m) # "Absent"
          /\ Last(db, m) \in {"Submitted", "SubmittedUnexpected"}
      BY <2>2 DEF Skips
    <3>2. Unmatched(db, main, u) BY <1>2, <1>4, <3>1, HistType DEF Unmatched, Matches, m
    <3> DEFINE n2 == u - 1
    <3>3. n2 \in Nat /\ n2 = u - 1 /\ \A i \in 1..u : i =< n2 => main[i] = main[i]
      BY <1>2
    <3>4. SameBundles(db', db) /\ Outputs(db') \ Deposit = Outputs(db) \ Deposit
      BY <1>2, <3>1 DEF SameBundles
    <3> HIDE DEF n2
    <3>5. Progress(tip, height, db', main, n2, C, L)
      BY ONLY <1>2, <1>5, <3>2, <3>3, <3>4, SameProgress
    <3> QED BY <1>2, <3>1, <3>5 DEF n2, SameRecords
  <2> QED BY <1>4, <2>1, <2>2
<1>8. Whole(db', chain, Len(chain), main, u - 1) BY <1>6, <1>7 DEF Whole
<1> HIDE DEF kinds
<1> QED BY <1>4, <1>7, <1>8, DisconnectingStep DEF u

\* Records of this block's mainchain blocks are above all earlier ones.
LEMMA RecordAbove ==
  ASSUME NEW log \in Seq(EventBlock), NEW was \in Seq(EventBlock), NEW h \in Nat,
         NEW lo, NEW mn, NEW n, NEW kinds, LogSince(log, was, h, lo, mn, n, kinds),
         NEW B, LogBelow(was, h, B), NEW block,
         log # << >>, Latest(log) = [block |-> block, height |-> h]
  PROVE  BlockOf(mn, lo) < block /\ Pop(log) = was
<1>2. log # was
  <2> SUFFICES ASSUME log = was PROVE FALSE OBVIOUS
  <2> QED BY EmptySeq, LenProperties DEF Latest, LogBelow
<1>3. PICK x \in Nat : x > BlockOf(mn, lo) /\ log = Append(was, [block |-> x, height |-> h])
  BY <1>2 DEF LogSince
<1> DEFINE r == [block |-> x, height |-> h]
<1>4. r \in EventBlock /\ log = Append(was, r) BY <1>3 DEF EventBlock
<1>5. r.block = x OBVIOUS
<1> HIDE DEF r
<1> QED BY <1>3, <1>4, <1>5, AppendFront, AppendProperties DEF Pop, Latest

\* The records of the tip, as disconnect finds them.
LEMMA TipRecords ==
  ASSUME RInv, txn.phase = "disconnect"
  PROVE  /\ db.deposit_blocks \in Seq(EventBlock)
         /\ db.withdrawal_bundle_event_blocks \in Seq(EventBlock)
         /\ tip.before.deposit_blocks \in Seq(EventBlock)
         /\ tip.before.withdrawal_bundle_event_blocks \in Seq(EventBlock)
         /\ LogSince(db.deposit_blocks, tip.before.deposit_blocks, height,
                     tip.events, main, Len(main), {"Deposit"})
         /\ LogSince(db.withdrawal_bundle_event_blocks,
                     tip.before.withdrawal_bundle_event_blocks, height,
                     tip.events, main, Len(main), OfBundles)
         /\ LogBelow(tip.before.deposit_blocks, height, BlockOf(main, tip.events))
         /\ LogBelow(tip.before.withdrawal_bundle_event_blocks, height,
                     BlockOf(main, tip.events))
<1> QED
  BY TipFacts, DisconnectingFacts DEF Since, SameRecords, Sound, Databases,
     Disconnecting

\* Nothing that the block did not apply was undone.
LEMMA NotTooFar ==
  ASSUME NEW mn \in Seq(Event), NEW c, MainGood(c, mn), NEW u \in Nat,
         NEW lo \in Nat, lo =< Len(mn), u < lo, NEW kinds, mn[u + 1].kind \in kinds,
         NEW block \in Nat, Lowest(block, u, mn, Len(mn), kinds),
         block # 0 => BlockOf(mn, lo) < block
  PROVE  FALSE
<1> DEFINE i == u + 1
<1>2. i \in (u + 1)..Len(mn) /\ i \in 1..Len(mn) /\ lo \in 1..Len(mn) /\ i =< lo
      /\ i \in 0..Len(mn) /\ lo \in 0..Len(mn) /\ i > 0
  BY LenProperties
<1>3. 0 < block /\ block =< mn[i].block BY <1>2 DEF Lowest
<1> HIDE DEF i
<1> QED BY <1>2, <1>3, BlockOfType, BlocksGrow

\* A disconnect that gets through its assertions has undone the events of the
\* tip and no other.
LEMMA AllUndone ==
  ASSUME RInv, txn.phase = "disconnect", RecordsMatch,
         ~ToUndo({"Deposit", "Submitted", "Confirmed", "Failed"})
  PROVE  txn.undo = tip.events
<1> DEFINE u == txn.undo
           lo == tip.events
           n == Len(main)
           p == db.deposit_blocks
           q == db.withdrawal_bundle_event_blocks
           pw == tip.before.deposit_blocks
           qw == tip.before.withdrawal_bundle_event_blocks
           B == BlockOf(main, lo)
           x == txn.deposit_block
           y == txn.event_block
           one == {"Deposit"}
<1>1. /\ Disconnecting /\ MainGood(chain, main) /\ u \in Nat /\ u =< n
      /\ lo \in Nat /\ lo =< n /\ n \in Nat /\ main \in Seq(Event)
      /\ txn.start_block \in Nat /\ txn \in Transaction /\ height \in Nat
      /\ Len(chain) \in Nat /\ Len(chain) > 0
  BY DisconnectingFacts
<1>2. \A i \in 1..n : main[i].kind \in {"Deposit", "Submitted", "Confirmed", "Failed"}
                      /\ main[i].block \in Nat
  BY <1>1, ElementOfSeq DEF Event
<1>3. u =< lo
  <2> SUFFICES ASSUME lo < u PROVE FALSE BY <1>1
  <2>1. u \in 1..n /\ u > 0 /\ u \in (lo + 1)..n BY <1>1
  <2>2. ~(main[u].block > txn.start_block) BY <1>2, <2>1 DEF ToUndo
  <2>3. txn.start_block =< B /\ B \in Nat BY <1>1, BlockOfType DEF Disconnecting
  <2>4. B < main[u].block BY <1>1, <2>1 DEF MainGood, tip
  <2> HIDE DEF B
  <2> QED BY <1>1, <1>2, <2>1, <2>2, <2>3, <2>4
<1>4. ~(u < lo)
  <2> SUFFICES ASSUME u < lo PROVE FALSE OBVIOUS
  <2>1. x \in Nat /\ y \in Nat BY <1>1 DEF Transaction
  <2>2. /\ p \in Seq(EventBlock) /\ q \in Seq(EventBlock)
        /\ pw \in Seq(EventBlock) /\ qw \in Seq(EventBlock)
        /\ LogSince(p, pw, height, lo, main, n, one)
        /\ LogSince(q, qw, height, lo, main, n, OfBundles)
        /\ LogBelow(pw, height, B) /\ LogBelow(qw, height, B)
    BY TipRecords
  <2>3. Lowest(x, u, main, n, one) /\ Lowest(y, u, main, n, OfBundles)
    BY <1>1 DEF Disconnecting
  <2>4. /\ x # 0 => p # << >> /\ Latest(p) = [block |-> x, height |-> height]
        /\ y # 0 => q # << >> /\ Latest(q) = [block |-> y, height |-> height]
    BY DEF RecordsMatch, RecordMatches
  <2>5. main[u + 1].kind \in one \/ main[u + 1].kind \in OfBundles
    BY <1>1, <1>2 DEF OfBundles
  <2> HIDE DEF u, lo, n, p, q, pw, qw, x, y, one
  <2>8. CASE main[u + 1].kind \in one
    BY <1>1, <2>1, <2>2, <2>3, <2>4, <2>8, NotTooFar, RecordAbove DEF n
  <2>9. CASE main[u + 1].kind \in OfBundles
    BY <1>1, <2>1, <2>2, <2>3, <2>4, <2>9, NotTooFar, RecordAbove DEF n
  <2> QED BY <2>5, <2>8, <2>9
<1> QED BY <1>1, <1>3, <1>4

-----------------------------------------------------------------------------
(* With all its events undone, a block has left nothing but its body *)

\* Once the events of a block are undone, the bundles that it neither collected
\* nor found left over are as before it.
LEMMA TraceEnd ==
  ASSUME NEW a, NEW lo, NEW h, NEW d, NEW mn, NEW C, NEW L, NEW F, NEW g,
         Trace(a, lo, h, d, mn, lo, C, L, F, g)
  PROVE  /\ \A m \in M6id : m \notin C \cup L => Entry(d, m) = Entry(a, m)
         /\ Failed(d) = Failed(a)
<1>1. a \in Databases /\ d \in Databases /\ lo \in Nat /\ g \in [Nat -> Nat]
      /\ FailedGrown(a, lo, h, d, lo, F, g)
  BY DEF Trace, Traced
<1>2. ASSUME NEW m \in M6id, m \notin C \cup L
      PROVE  Entry(d, m) = Entry(a, m)
  <2> DEFINE z == Size(a, m)
             s == Size(d, m)
  <2>1. /\ Grown(a, lo, h, d, mn, lo, F[m], m) /\ F[m] \in [Nat -> Nat]
        /\ z \in Nat /\ s \in Nat /\ z =< s
    BY <1>2, TraceFacts
  <2>2. \A p \in (z + 1)..s : lo < F[m][p] /\ F[m][p] =< lo BY <2>1 DEF Grown
  <2>3. z = s => Entry(d, m) = Entry(a, m) BY <2>1 DEF Grown
  <2> HIDE DEF z, s
  <2>4. ~(z < s)
    <3> SUFFICES ASSUME z < s PROVE FALSE OBVIOUS
    <3>2. F[m][s] \in Nat BY <2>1
    <3> QED BY <1>1, <2>1, <2>2, <3>2
  <2> QED BY <2>1, <2>3, <2>4
<1>3. Failed(d) = Failed(a)
  <2> DEFINE z == Len(Failed(a))
             s == Len(Failed(d))
  <2>1. /\ z \in Nat /\ s \in Nat
        /\ Failed(a) \in Seq(HeightStamped(M6id)) /\ Failed(d) \in Seq(HeightStamped(M6id))
    BY <1>1, FailedType
  <2>2. /\ z =< s /\ \A i \in 1..z : Failed(d)[i] = Failed(a)[i]
        /\ \A p \in (z + 1)..s : lo < g[p] /\ g[p] =< lo
    BY <1>1 DEF FailedGrown
  <2>3. z = Len(Failed(a)) /\ s = Len(Failed(d)) OBVIOUS
  <2> HIDE DEF z, s
  <2>4. ~(z < s)
    <3> SUFFICES ASSUME z < s PROVE FALSE OBVIOUS
    <3>1. s \in (z + 1)..s /\ s \in Nat BY <2>1
    <3> QED BY <1>1, <2>2, <3>1
  <2> QED BY <2>1, <2>2, <2>3, <2>4, SeqEqual
<1> QED BY <1>2, <1>3

\* The height of the latest failure is then what it was.
LEMMA FailedAtEnd ==
  ASSUME NEW a, NEW lo, NEW h, NEW d, NEW mn, NEW C, NEW L, NEW F, NEW g,
         Trace(a, lo, h, d, mn, lo, C, L, F, g), Failures(a)
  PROVE  FailedAt(d) = FailedAt(a)
<1>1. /\ a \in Databases /\ Shapes(a) /\ Extra(a, h, d, C, L) /\ Failed(d) = Failed(a)
      /\ \A m \in M6id : m \notin C \cup L => Entry(d, m) = Entry(a, m)
  BY TraceEnd DEF Trace
<1>2. CASE Failed(a) = << >> BY <1>1, <1>2 DEF FailedAt
<1>3. CASE Failed(a) # << >>
  <2> DEFINE k == Len(Failed(a))
             m == Failed(a)[k].value
  <2>1. k \in 1..Len(Failed(a)) /\ m \in M6id /\ Latest(Failed(a)).value = m
    BY <1>1, <1>3, FailedType
  <2>2. PICK j \in 1..Size(a, m) :
            Hist(a, m)[j] = [value |-> "Failed", height |-> Failed(a)[k].height]
    BY <2>1 DEF Failures
  <2>5. Hist(a, m)[j].value = "Failed" BY <2>2
  <2> HIDE DEF m, k
  <2>3. m \notin C \cup L
    <3> SUFFICES ASSUME m \in C \cup L PROVE FALSE OBVIOUS
    <3> QED BY <1>1, <2>1, <2>5, OldPending DEF Extra, Collects
  <2>4. Hist(d, m) = Hist(a, m) BY <1>1, <2>1, <2>3, SameEntry
  <2> QED BY <1>1, <1>3, <2>1, <2>4 DEF FailedAt
<1> QED BY <1>2, <1>3

\* So is the pending bundle, but for one that the block collected.
LEMMA PendEnd ==
  ASSUME NEW a, NEW lo, NEW h, NEW d, NEW mn, NEW C, NEW L, NEW F, NEW g,
         Trace(a, lo, h, d, mn, lo, C, L, F, g), PendingGood(a),
         Pend(d) = IF \E x \in Pend(a) : Size(d, x) = Size(a, x)
                   THEN Pend(a) ELSE C
  PROVE  /\ \A m \in Pend(a) : m \in M6id /\ m \notin C \cup L /\ Entry(d, m) = Entry(a, m)
         /\ Pend(d) = IF Pend(a) = {} THEN C ELSE Pend(a)
<1>1. /\ a \in Databases /\ Shapes(a) /\ Extra(a, h, d, C, L)
      /\ \A m \in M6id : m \notin C \cup L => Entry(d, m) = Entry(a, m)
  BY TraceEnd DEF Trace
<1>2. ASSUME NEW m \in Pend(a)
      PROVE  m \in M6id /\ m \notin C \cup L /\ Entry(d, m) = Entry(a, m)
  <2>1. m \in M6id /\ Entry(a, m).info = "Known"
    BY <1>1 DEF Pend, Databases, PendingGood
  <2>2. ~OldOrNone(a, m, h) BY <2>1 DEF OldOrNone, NoBundle, LeftOver, Pend
  <2> QED BY <1>1, <2>1, <2>2 DEF Extra, Collects
<1> QED BY <1>2, SameEntry

\* What a disconnect leaves of the bundles, and of the pending bundle.
Kept(a, e, h) ==
    /\ Pend(e) = Pend(a) /\ Failed(e) = Failed(a)
    /\ \A m \in M6id : \/ Entry(e, m) = Entry(a, m)
                       \/ /\ LeftOver(e, m, h) /\ OldOrNone(a, m, h)
                          /\ Shape(Entry(e, m), m)

\* A bundle that the block collected is left over, unless it is pending.
LEMMA CollectedLeftOver ==
  ASSUME NEW a \in Databases, NEW d \in Databases, NEW h \in Nat, NEW C,
         Collects(a, h, d, C), NEW m \in C, m \notin Pend(d)
  PROVE  LeftOver(d, m, h)
<1> DEFINE x == Entry(d, m)
           y == Hist(a, m)
           v == "Pending"
           r == [value |-> v, height |-> h]
<1>1. /\ m \in M6id /\ m.height = h /\ OldOrNone(a, m, h)
      /\ x.info = "Known" /\ x.spend_utxos = {} /\ x.status = Push(y, v, h)
      /\ v \in Status
  BY DEF Collects, Status
<1>2. \A i \in 1..Size(a, m) : y[i] = r
  <2>1. CASE Entry(a, m) = NoBundle BY <1>1, <2>1, HistType DEF Hist, NoBundle
  <2>2. CASE LeftOver(a, m, h)
    BY <1>1, <2>2, LenProperties, HistType DEF LeftOver, Hist, Entry, Size
  <2> QED BY <1>1, <2>1, <2>2 DEF OldOrNone
<1>3. r = [value |-> v, height |-> h] OBVIOUS
<1>4. x = Entry(d, m) /\ y = Hist(a, m) /\ Hist(d, m) = x.status BY DEF Hist
<1> HIDE DEF x, y, v, r
<1>5. /\ Size(d, m) = Size(a, m) + 1 /\ Size(a, m) \in Nat
      /\ \A i \in 1..Size(a, m) : Hist(d, m)[i] = y[i]
      /\ Hist(d, m)[Size(a, m) + 1] = r
  BY <1>1, <1>3, <1>4, PushedHist
<1>6. \A i \in 1..Size(d, m) : Hist(d, m)[i] = r
  <2> TAKE i \in 1..Size(d, m)
  <2> QED BY <1>2, <1>5
<1>7. DOMAIN Hist(d, m) = 1..Size(d, m) BY <1>1, LenProperties, HistType DEF Size
<1>9. \A i \in DOMAIN x.status : x.status[i] = [value |-> "Pending", height |-> m.height]
  BY <1>1, <1>3, <1>4, <1>6, <1>7 DEF v
<1> QED BY <1>1, <1>9 DEF LeftOver, Pend, x, Entry

\* The latest stamp of a bundle that is pending at the start of a block.
LEMMA PendingOld ==
  ASSUME NEW a \in Databases, NEW h \in Nat, Shapes(a), StampsBelow(a, h),
         PendingGood(a), NEW m \in Pend(a), m \in M6id
  PROVE  Latest(Hist(a, m)).height < h
<1>1. Info(a, m) = "Known" /\ ~LeftOver(a, m, h)
  BY DEF PendingGood, Pend, LeftOver, Info
<1>2. Hist(a, m) # << >> BY <1>1 DEF Shapes, Shape, Hist, Info
<1> QED BY <1>1, <1>2, HistType DEF StampsBelow

\* Taking back what a collection pushed.
LEMMA UncollectedEntry ==
  ASSUME NEW a \in Databases, NEW d \in Databases, NEW h \in Nat, NEW C,
         Shapes(a), Collects(a, h, d, C), NEW m \in C
  PROVE  /\ Popped(d, m, Entry(d, m).info, Entry(d, m).spend_utxos) = Entry(a, m)
         /\ Latest(Hist(d, m)).height = h
<1> DEFINE y == Hist(a, m)
           v == "Pending"
           r == [value |-> v, height |-> h]
<1>1. /\ m \in M6id /\ OldOrNone(a, m, h) /\ v \in Status
      /\ Entry(d, m) = [info |-> "Known", spend_utxos |-> {}, status |-> Push(y, v, h)]
  BY DEF Collects, Status
<1>2. y \in RollBackOf(Status) /\ y \in Seq(HeightStamped(Status)) BY <1>1, HistType
<1>3. r \in HeightStamped(Status) /\ Push(y, v, h) = Append(y, r)
  BY <1>1 DEF HeightStamped, Push
<1>4. Pop(Push(y, v, h)) = y
  <2> HIDE DEF r, y
  <2> QED BY <1>2, <1>3, AppendFront DEF Pop
<1>5. Latest(Push(y, v, h)) = [value |-> v, height |-> h]
  <2> HIDE DEF y, v
  <2> QED BY <1>1, <1>2, PushType
<1>6. CASE Entry(a, m) = NoBundle
  BY <1>1, <1>4, <1>5, <1>6 DEF Popped, Entry, Hist, NoBundle
<1>7. CASE LeftOver(a, m, h)
  <2>1. Entry(a, m).info = "Known" /\ Entry(a, m).spend_utxos = {}
    BY <1>7 DEF LeftOver, Entry
  <2>2. y # << >> BY <1>1, <2>1 DEF Shapes, Shape, Hist
  <2>4. Entry(a, m) = [info |-> "Known", spend_utxos |-> {}, status |-> y]
    BY <1>1, <2>1, HistType DEF Info
  <2> QED
    <3>1. Hist(d, m) = Push(y, v, h) /\ Entry(d, m).info = "Known"
          /\ Entry(d, m).spend_utxos = {}
      BY <1>1 DEF Hist
    <3>2. Popped(d, m, Entry(d, m).info, Entry(d, m).spend_utxos) =
              [info |-> "Known", spend_utxos |-> {}, status |-> y]
      BY <1>4, <2>2, <3>1 DEF Popped, Entry, Hist
    <3> QED BY <1>5, <2>4, <3>1, <3>2
<1> QED BY <1>1, <1>6, <1>7 DEF OldOrNone

SameOutputs(e, d) == e.utxos = d.utxos /\ e.stxos = d.stxos

\* The end of disconnect takes the bundle back that the block collected, or
\* leaves it over.
LEMMA UncollectKept ==
  ASSUME RInv, txn.phase = "disconnect", txn.undo = tip.events,
         NEW e, e = Uncollect(db)
  PROVE  /\ Kept(tip.before, e, height) /\ e \in Databases
         /\ SameOutputs(e, db) /\ Logs(e) = Logs(db)
<1> DEFINE a == tip.before
           lo == tip.events
           h == height
           here == {m \in db.pending_withdrawal_bundle :
                       Latest(bundle(m).status).height = height}
<1>1. /\ Disconnecting /\ TInv /\ tip \in Block /\ a \in Databases /\ lo \in Nat
      /\ h \in Nat /\ db \in Databases
      /\ Shapes(a) /\ StampsBelow(a, h) /\ PendingGood(a) /\ Failures(a)
      /\ Shapes(db) /\ PendingGood(db)
  BY DisconnectingFacts
<1>2. PICK C, L : Progress(tip, height, db, main, lo, C, L) BY <1>1 DEF Disconnecting
<1>4. PICK F, g : Trace(a, lo, h, db, main, lo, C, L, F, g) BY <1>1, <1>2, ProgressTrace
<1>5. /\ Extra(a, h, db, C, L) /\ Collects(a, h, db, C)
      /\ Pend(db) = IF \E x \in Pend(a) : Size(db, x) = Size(a, x) THEN Pend(a) ELSE C
      /\ C \subseteq M6id /\ \A m, n \in C : m = n
      /\ C # {} => GapOver(a, h)
      /\ \A m \in C : OldOrNone(a, m, h)
      /\ \A m \in L : m \notin C /\ LeftOver(db, m, h) /\ OldOrNone(a, m, h)
  BY <1>2 DEF Progress, Extra, Collects
<1>6. /\ \A m \in M6id : m \notin C \cup L => Entry(db, m) = Entry(a, m)
      /\ Failed(db) = Failed(a)
  BY <1>4, TraceEnd
<1>7. FailedAt(db) = FailedAt(a) BY <1>1, <1>4, FailedAtEnd
<1>8. /\ \A m \in Pend(a) : m \in M6id /\ m \notin C \cup L /\ Entry(db, m) = Entry(a, m)
      /\ Pend(db) = IF Pend(a) = {} THEN C ELSE Pend(a)
  BY <1>1, <1>4, <1>5, PendEnd
<1>9. /\ \A m : bundle(m) = Entry(db, m) /\ bundle(m).status = Hist(db, m)
      /\ Pend(db) = db.pending_withdrawal_bundle /\ h = height
  BY DEF bundle, Entry, Hist, Pend
<1>10. CASE Pend(a) # {} \/ C = {}
  <2>1. here = {}
    <3> SUFFICES ASSUME NEW m \in here PROVE FALSE OBVIOUS
    <3>1. m \in Pend(db) /\ Latest(Hist(db, m)).height = h BY <1>9
    <3>2. m \in Pend(a) /\ m \in M6id /\ Entry(db, m) = Entry(a, m) BY <1>8, <1>10, <3>1
    <3>3. Latest(Hist(a, m)).height = h BY <3>1, <3>2, SameEntry
    <3> HIDE DEF a, h
    <3> QED BY <1>1, <3>2, <3>3, PendingOld
  <2>2. e = db BY <2>1 DEF Uncollect
  <2>3. Pend(db) = Pend(a) BY <1>8, <1>10
  <2>4. \A m \in C : m \notin Pend(db) BY <1>8, <2>3
  <2> HIDE DEF a, h
  <2> QED
    BY <1>1, <1>5, <1>6, <1>9, <2>2, <2>3, <2>4, CollectedLeftOver DEF SameOutputs, a,
       Kept, Shapes
<1>11. CASE Pend(a) = {} /\ C # {}
  <2>1. PICK c \in C : C = {c} /\ c \in M6id BY <1>5, <1>11
  <2>2. GapElapsed BY <1>5, <1>7, <1>11, GapIsOver DEF GapOver
  <2>3. /\ Popped(db, c, Entry(db, c).info, Entry(db, c).spend_utxos) = Entry(a, c)
        /\ Latest(Hist(db, c)).height = h
    <3> HIDE DEF a, h
    <3> QED BY <1>1, <1>5, UncollectedEntry
  <2> DEFINE q == PopStatus(db, c, bundle(c).info, bundle(c).spend_utxos)
  <2>5. e = [q EXCEPT !.pending_withdrawal_bundle = {}]
    BY <1>8, <1>9, <1>11, <2>1, <2>2, <2>3 DEF Uncollect
  <2>6. /\ q \in Databases
        /\ EntryOf(q, db, c, Popped(db, c, bundle(c).info, bundle(c).spend_utxos))
        /\ SameRest(q, db)
    BY <1>1, <2>1, PopStatusType, StatusRest, BundleType DEF bundle
  <2> HIDE DEF q
  <2>7. e \in Databases /\ PendingOf(e, q, {}) /\ SameRest(e, q)
    <3>3. \A f : SameRest([q EXCEPT !.pending_withdrawal_bundle = {}], q)
      BY <2>6, FieldRest
    <3> QED BY <2>5, <2>6, <3>3, PendingType
  <2>8. /\ Entry(e, c) = Entry(a, c)
        /\ \A m \in M6id : m # c => Entry(e, m) = Entry(db, m)
        /\ e.utxos = db.utxos /\ e.stxos = db.stxos /\ e.pending_withdrawal_bundle = {}
    BY <1>9, <2>3, <2>6, <2>7 DEF EntryOf, PendingOf, Entry
  <2>10. ASSUME NEW m \in M6id
         PROVE  \/ Entry(e, m) = Entry(a, m)
                \/ /\ LeftOver(e, m, h) /\ OldOrNone(a, m, h)
                   /\ Shape(Entry(e, m), m)
    <3>1. CASE m \in L BY <1>1, <1>5, <2>1, <2>8, <3>1 DEF LeftOver, Entry, Shapes
    <3>2. CASE m \notin L BY <1>6, <2>1, <2>8, <3>2
    <3> QED BY <3>1, <3>2
  <2> QED BY <1>6, <1>11, <2>6, <2>7, <2>8, <2>10 DEF SameOutputs, Kept, Pend, SameRest
<1> QED BY <1>10, <1>11

\* A bundle that was only collected has spent nothing.
LEMMA PendingHoldsNothing ==
  ASSUME NEW d \in Databases, NEW m \in M6id, Shape(Entry(d, m), m), OnlyPending(d, m)
  PROVE  HeldBy(Entry(d, m), m) = {}
<1>1. /\ Hist(d, m) = << >> <=> Size(d, m) = 0
      /\ Size(d, m) \in Nat
      /\ Size(d, m) > 0 => /\ Latest(Hist(d, m)) = Hist(d, m)[Size(d, m)]
                           /\ Last(d, m) = Hist(d, m)[Size(d, m)].value
  BY HistType
<1>2. CASE Size(d, m) = 0 BY <1>1, <1>2 DEF HeldBy, NoBundle, Shape, Hist
<1>3. CASE Size(d, m) > 0 BY <1>1, <1>3 DEF HeldBy, Shape, Hist, OnlyPending
<1> QED BY <1>1, <1>2, <1>3

\* Once the events of a block are undone, bundles hold what they held before it.
LEMMA HeldEnd ==
  ASSUME NEW a, NEW lo, NEW h, NEW d, NEW mn, NEW C, NEW L, NEW F, NEW g,
         Trace(a, lo, h, d, mn, lo, C, L, F, g), Held(a), Held(d),
         NEW m \in M6id, NEW o \in Outpoint
  PROVE  d.stxos[o] = m <=> a.stxos[o] = m
<1>1. /\ a \in Databases /\ d \in Databases /\ Shapes(a) /\ Shapes(d) /\ h \in Nat
      /\ Extra(a, h, d, C, L)
      /\ m \notin C \cup L => Entry(d, m) = Entry(a, m)
  BY TraceEnd DEF Trace
<1>2. HeldBy(Entry(d, m), m) = HeldBy(Entry(a, m), m)
  <2>1. CASE m \notin C \cup L BY <1>1, <2>1
  <2>2. CASE m \in C \cup L
    <3>4. Shape(Entry(a, m), m) /\ Shape(Entry(d, m), m) BY <1>1 DEF Shapes
    <3>6. HeldBy(Entry(d, m), m) = {}
      BY <1>1, <2>2, <3>4, PendingHoldsNothing, ExtraPending DEF AllPending, OnlyPending
    <3> QED
      BY <1>1, <2>2, <3>4, <3>6, PendingHoldsNothing, OldPending DEF OnlyPending, Extra,
         Collects
  <2> QED BY <2>1, <2>2
<1> QED BY <1>2 DEF Held

\* What was taken out of the utxos and put into them by a body, put back.
LEMMA BodyUndone ==
  ASSUME NEW a \in Databases, NEW d \in Databases, NEW e \in Databases,
         NEW blk \in Block, blk.before = a, BodyFits(blk),
         NotBoth(a), NotBoth(d),
         Outputs(d) = Outputs(a) \cup blk.created,
         \A o \in Outpoint : o \notin blk.spent => d.stxos[o] = a.stxos[o],
         e.utxos = (d.utxos \ blk.created) \cup blk.spent,
         \A o \in Outpoint : e.stxos[o] = IF o \in blk.spent THEN Unspent
                                          ELSE d.stxos[o]
  PROVE  e.utxos = a.utxos /\ e.stxos = a.stxos
<1> DEFINE S == blk.spent
           K == blk.created
           I == M6id \cup {Regular, Unspent}
<1>1. /\ S \subseteq a.utxos /\ K \cap Outputs(a) = {}
      /\ a.utxos \subseteq Outpoint /\ d.utxos \subseteq Outpoint
      /\ a.stxos \in [Outpoint -> I] /\ e.stxos \in [Outpoint -> I]
      /\ \A o \in a.utxos : a.stxos[o] = Unspent
      /\ \A o \in d.utxos : d.stxos[o] = Unspent
  BY DEF BodyFits, Databases, NotBoth
<1>2. /\ a.utxos \subseteq Outputs(a) /\ d.utxos \subseteq Outputs(d)
      /\ \A o \in Outputs(a) : o \in a.utxos \/ a.stxos[o] # Unspent
      /\ \A o \in Outputs(d) : o \in d.utxos \/ d.stxos[o] # Unspent
  BY DEF Outputs
<1>3. /\ Outputs(d) = Outputs(a) \cup K
      /\ \A o \in Outpoint : o \notin S => d.stxos[o] = a.stxos[o]
      /\ e.utxos = (d.utxos \ K) \cup S
      /\ \A o \in Outpoint : e.stxos[o] = IF o \in S THEN Unspent ELSE d.stxos[o]
  OBVIOUS
<1> HIDE DEF S, K, I
<1> QED BY <1>1, <1>2, <1>3

\* The record of a block goes with it.
LEMMA Unrecorded ==
  ASSUME NEW log \in Seq(EventBlock), NEW was \in Seq(EventBlock), height \in Nat,
         NEW lo, NEW mn, NEW n, NEW kinds, LogSince(log, was, height, lo, mn, n, kinds),
         NEW B, LogBelow(was, height, B), NEW block \in Nat,
         Lowest(block, lo, mn, n, kinds), RecordMatches(log, block)
  PROVE  Unrecord(log, block) = was
<1>1. CASE block = 0 BY <1>1 DEF Unrecord, Lowest, LogSince
<1>2. CASE block # 0 BY <1>2, RecordAbove DEF Unrecord, RecordMatches
<1> QED BY <1>1, <1>2

\* Everything is as before the block, but for bundles left over.
Restored(a, e, h) ==
    /\ e \in Databases /\ e = [a EXCEPT !.withdrawal_bundles = e.withdrawal_bundles]
    /\ Kept(a, e, h)

Undoing ==
    /\ Restored(tip.before, db', height)
    /\ committed' = db' /\ txn' = NoTransaction /\ net_task' = net_task
    /\ chain' = SubSeq(chain, 1, Len(chain) - 1) /\ main' = SubSeq(main, 1, tip.events)

\* The databases at the end of a disconnect, field by field.
UndoneDb(c, e) ==
    /\ e \in Databases /\ e.utxos = (c.utxos \ tip.created) \cup tip.spent
    /\ \A o \in Outpoint : e.stxos[o] = IF o \in tip.spent THEN Unspent ELSE c.stxos[o]
    /\ e.withdrawal_bundles = c.withdrawal_bundles
    /\ Pend(e) = Pend(c) /\ Failed(e) = Failed(c)
    /\ e.deposit_blocks = Unrecord(c.deposit_blocks, txn.deposit_block)
    /\ e.withdrawal_bundle_event_blocks =
           Unrecord(c.withdrawal_bundle_event_blocks, txn.event_block)
    /\ e.utreexo_accumulator = tip.before.utreexo_accumulator

LEMMA FinishUndoneDb ==
  ASSUME NEW c \in Databases, tip \in Block, NEW e,
         e = [DisconnectBody(c) EXCEPT
                 !.deposit_blocks = Unrecord(@, txn.deposit_block),
                 !.withdrawal_bundle_event_blocks = Unrecord(@, txn.event_block),
                 !.utreexo_accumulator = tip.before.utreexo_accumulator]
  PROVE  UndoneDb(c, e)
<1> DEFINE r == [c EXCEPT !.utxos = @ \ tip.created]
           v == Unspend(r, tip.spent)
           x == Unrecord(v.deposit_blocks, txn.deposit_block)
           y == Unrecord(v.withdrawal_bundle_event_blocks, txn.event_block)
           w == tip.before.utreexo_accumulator
<1>1. e = [v EXCEPT !.deposit_blocks = x, !.withdrawal_bundle_event_blocks = y,
                    !.utreexo_accumulator = w]
  BY DEF DisconnectBody
<1>2. tip.spent \in SUBSET Outpoint /\ w \in SUBSET Outpoint BY DEF Databases, Block
<1>3. /\ r \in Databases /\ r.utxos = c.utxos \ tip.created /\ r.stxos = c.stxos
      /\ r.withdrawal_bundles = c.withdrawal_bundles /\ Pend(r) = Pend(c)
      /\ SameRest(r, c)
  BY DEF Databases, SameRest, Failed, Logs, Pend
<1> HIDE DEF r
<1>4. v \in Databases /\ UnspendOf(v, r, tip.spent) BY <1>2, <1>3, UnspendType
<1>5. SameRest(v, r) BY <1>3 DEF Unspend, SameRest, Failed, Logs, Databases
<1> HIDE DEF v
<1>6. v.deposit_blocks = c.deposit_blocks /\ Failed(v) = Failed(c)
      /\ v.withdrawal_bundle_event_blocks = c.withdrawal_bundle_event_blocks
  BY <1>3, <1>5 DEF SameRest, Logs
<1>7. x \in Seq(EventBlock) /\ y \in Seq(EventBlock) BY <1>4, UnrecordType DEF Databases
<1>8. /\ x = Unrecord(c.deposit_blocks, txn.deposit_block)
      /\ y = Unrecord(c.withdrawal_bundle_event_blocks, txn.event_block)
  BY <1>6
<1> HIDE DEF x, y, w
<1>9. /\ e \in Databases /\ e.deposit_blocks = x /\ e.withdrawal_bundle_event_blocks = y
      /\ e.utreexo_accumulator = w /\ e.utxos = v.utxos /\ e.stxos = v.stxos
      /\ e.withdrawal_bundles = v.withdrawal_bundles
      /\ Pend(e) = Pend(v) /\ Failed(e) = Failed(v)
  BY <1>1, <1>2, <1>4, <1>7 DEF Databases, Pend, Failed
<1> QED BY <1>3, <1>4, <1>6, <1>8, <1>9 DEF UndoneDb, w, UnspendOf, Pend

\* Fields decide.
LEMMA SameFields ==
  ASSUME NEW a \in Databases, NEW e \in Databases,
         e.utxos = a.utxos, e.stxos = a.stxos, Pend(e) = Pend(a), Failed(e) = Failed(a),
         e.deposit_blocks = a.deposit_blocks,
         e.withdrawal_bundle_event_blocks = a.withdrawal_bundle_event_blocks,
         e.utreexo_accumulator = a.utreexo_accumulator
  PROVE  e = [a EXCEPT !.withdrawal_bundles = e.withdrawal_bundles]
BY DEF Databases, Pend, Failed

\* The outputs of the databases and of those before the block.
LEMMA OutputsEnd ==
  ASSUME RInv, txn.phase = "disconnect", txn.undo = tip.events
  PROVE  /\ Outputs(db) = Outputs(tip.before) \cup tip.created
         /\ NotBoth(tip.before) /\ NotBoth(db)
         /\ \A o \in Outpoint : o \notin tip.spent => db.stxos[o] = tip.before.stxos[o]
<1> DEFINE a == tip.before
           lo == tip.events
           h == height
           N == Len(chain)
<1>1. /\ Disconnecting /\ TInv /\ tip \in Block /\ a \in Databases /\ lo \in Nat
      /\ h \in Nat /\ db \in Databases /\ N \in Nat /\ N > 0 /\ h = N - 1
      /\ Shapes(a) /\ Shapes(db)
      /\ Sound(a, chain, h, main, lo) /\ Whole(db, chain, N, main, lo)
  BY DisconnectingFacts
<1>2. PICK C, L : Progress(tip, height, db, main, lo, C, L) BY <1>1 DEF Disconnecting
<1>4. PICK F, g : Trace(a, lo, h, db, main, lo, C, L, F, g) BY <1>1, <1>2, ProgressTrace
<1>5. /\ Held(a) /\ Held(db) /\ NotBoth(a) /\ NotBoth(db)
      /\ RegularIn(a, chain, h) /\ RegularIn(db, chain, N)
      /\ Outputs(a) \cap Deposit = Outputs(db) \cap Deposit
  BY <1>1 DEF Sound, Whole
<1>7. tip.created \in SUBSET Withdrawal /\ tip = chain[N] BY <1>1 DEF Block, tip
<1>8. Outputs(db) = Outputs(a) \cup tip.created
  BY <1>2, <1>5, <1>7, ConstantsAssumption DEF Progress
<1>9. ASSUME NEW o \in Outpoint, o \notin tip.spent
      PROVE  db.stxos[o] = a.stxos[o]
  <2>1. /\ db.stxos[o] \in M6id \cup {Regular, Unspent}
        /\ a.stxos[o] \in M6id \cup {Regular, Unspent}
    BY <1>1 DEF Databases
  <2>2. db.stxos[o] = Regular <=> a.stxos[o] = Regular
    <3>1. \A i \in 1..N : i \in 1..h \/ i = N BY <1>1
    <3>2. \A i \in 1..h : i \in 1..N BY <1>1
    <3>3. /\ db.stxos[o] = Regular <=> \E i \in 1..N : o \in chain[i].spent
          /\ a.stxos[o] = Regular <=> \E i \in 1..h : o \in chain[i].spent
      BY <1>5 DEF RegularIn
    <3> HIDE DEF N, h, a
    <3> QED BY <1>7, <1>9, <3>1, <3>2, <3>3
  <2> QED BY <1>4, <1>5, <2>1, <2>2, HeldEnd
<1> QED BY <1>5, <1>8, <1>9

\* A disconnect that goes through restores the databases.
LEMMA FinishDisconnectRestores ==
  ASSUME RInv, FinishDisconnect
  PROVE  Aborts \/ Undoing
<1> DEFINE c == Uncollect(db)
           a == tip.before
           h == height
<1>1. txn.phase = "disconnect"
      /\ ~ToUndo({"Deposit", "Submitted", "Confirmed", "Failed"})
  BY DEF FinishDisconnect
<1>2. \/ /\ RecordsMatch
         /\ db' = [DisconnectBody(c) EXCEPT
                      !.deposit_blocks = Unrecord(@, txn.deposit_block),
                      !.withdrawal_bundle_event_blocks = Unrecord(@, txn.event_block),
                      !.utreexo_accumulator = tip.before.utreexo_accumulator]
         /\ committed' = db' /\ txn' = NoTransaction
         /\ chain' = SubSeq(chain, 1, Len(chain) - 1)
         /\ main' = SubSeq(main, 1, tip.events) /\ net_task' = net_task
      \/ Aborts
  BY DEF FinishDisconnect, Aborts
<1> SUFFICES ASSUME ~Aborts PROVE Undoing OBVIOUS
<1>3. RecordsMatch BY <1>2
<1>4. txn.undo = tip.events BY <1>1, <1>3, AllUndone
<1>5. c = Uncollect(db) OBVIOUS
<1> HIDE DEF c
<1>6. Kept(a, c, h) /\ c \in Databases /\ SameOutputs(c, db) /\ Logs(c) = Logs(db)
  BY <1>1, <1>4, <1>5, UncollectKept
<1>7. /\ tip \in Block /\ a \in Databases /\ BodyFits(tip) /\ db \in Databases
      /\ txn \in Transaction /\ height \in Nat /\ Disconnecting
  BY <1>1, DisconnectingFacts
<1>8. UndoneDb(c, db') BY <1>2, <1>6, <1>7, FinishUndoneDb
<1> DEFINE e == db'
<1>10. /\ e \in Databases /\ e.utxos = (db.utxos \ tip.created) \cup tip.spent
       /\ \A o \in Outpoint : e.stxos[o] = IF o \in tip.spent THEN Unspent
                                           ELSE db.stxos[o]
       /\ e.withdrawal_bundles = c.withdrawal_bundles
       /\ Pend(e) = Pend(c) /\ Failed(e) = Failed(c)
       /\ e.deposit_blocks = Unrecord(db.deposit_blocks, txn.deposit_block)
       /\ e.withdrawal_bundle_event_blocks =
              Unrecord(db.withdrawal_bundle_event_blocks, txn.event_block)
       /\ e.utreexo_accumulator = a.utreexo_accumulator
  BY <1>6, <1>8 DEF UndoneDb, SameOutputs, Logs
<1>11. /\ Outputs(db) = Outputs(a) \cup tip.created /\ NotBoth(a) /\ NotBoth(db)
       /\ \A o \in Outpoint : o \notin tip.spent => db.stxos[o] = a.stxos[o]
  BY <1>1, <1>4, OutputsEnd
<1>12. tip.before = a OBVIOUS
<1> HIDE DEF e
<1>13. e.utxos = a.utxos /\ e.stxos = a.stxos
  <2> HIDE DEF a
  <2> QED BY <1>7, <1>10, <1>11, <1>12, BodyUndone
<1>14. /\ e.deposit_blocks = a.deposit_blocks
       /\ e.withdrawal_bundle_event_blocks = a.withdrawal_bundle_event_blocks
  <2> DEFINE p == db.deposit_blocks
             q == db.withdrawal_bundle_event_blocks
             pw == a.deposit_blocks
             qw == a.withdrawal_bundle_event_blocks
             lo == tip.events
             n == Len(main)
             B == BlockOf(main, lo)
             x == txn.deposit_block
             y == txn.event_block
             one == {"Deposit"}
  <2>1. /\ p \in Seq(EventBlock) /\ q \in Seq(EventBlock)
        /\ pw \in Seq(EventBlock) /\ qw \in Seq(EventBlock)
        /\ LogSince(p, pw, height, lo, main, n, one)
        /\ LogSince(q, qw, height, lo, main, n, OfBundles)
        /\ LogBelow(pw, height, B) /\ LogBelow(qw, height, B)
    BY <1>1, TipRecords
  <2>2. Lowest(x, lo, main, n, one) /\ Lowest(y, lo, main, n, OfBundles)
    BY <1>4, <1>7 DEF Disconnecting
  <2>3. x \in Nat /\ y \in Nat BY <1>7 DEF Transaction
  <2>4. RecordMatches(p, x) /\ RecordMatches(q, y) BY <1>3 DEF RecordsMatch
  <2>5. e.deposit_blocks = Unrecord(p, x) /\ e.withdrawal_bundle_event_blocks = Unrecord(q, y)
    BY <1>10
  <2>6. e.deposit_blocks = pw
    <3> HIDE DEF p, pw, lo, n, B, x, one
    <3> QED BY <1>7, <2>1, <2>2, <2>3, <2>4, <2>5, Unrecorded
  <2>7. e.withdrawal_bundle_event_blocks = qw
    <3> HIDE DEF q, qw, lo, n, B, y
    <3> QED BY <1>7, <2>1, <2>2, <2>3, <2>4, <2>5, Unrecorded
  <2> QED BY <2>6, <2>7
<1>15. Pend(e) = Pend(a) /\ Failed(e) = Failed(a) BY <1>6, <1>10 DEF Kept
<1> HIDE DEF a, h
<1>17. Kept(a, e, h) BY <1>6, <1>10, <1>15 DEF Kept, Entry, LeftOver, Pend
<1> QED
  BY <1>2, <1>7, <1>10, <1>13, <1>14, <1>15, <1>17, SameFields DEF Undoing, e, a, h,
     Restored

-----------------------------------------------------------------------------
(* The databases that it leaves are those of the shorter chain *)

\* What Restored says of the fields.
LEMMA RestoredFacts ==
  ASSUME NEW a \in Databases, NEW e, NEW h, Restored(a, e, h)
  PROVE  /\ e \in Databases /\ e.utxos = a.utxos /\ e.stxos = a.stxos
         /\ Pend(e) = Pend(a) /\ Failed(e) = Failed(a) /\ Logs(e) = Logs(a)
         /\ Outputs(e) = Outputs(a)
         /\ \A m \in M6id :
               \/ Entry(e, m) = Entry(a, m)
               \/ /\ LeftOver(e, m, h) /\ OldOrNone(a, m, h)
                  /\ Shape(Entry(e, m), m)
<1> DEFINE x == e.withdrawal_bundles
<1>1. e \in Databases /\ e = [a EXCEPT !.withdrawal_bundles = x] /\ Kept(a, e, h)
  BY DEF Restored
<1> HIDE DEF x
<1> QED BY <1>1 DEF Kept, Outputs, Databases, Logs

\* A bundle with a status other than Pending is as it was.
LEMMA RestoredSame ==
  ASSUME NEW a \in Databases, NEW e, NEW h, Restored(a, e, h), Shapes(a),
         NEW m \in M6id, NEW j \in 1..Size(a, m), Hist(a, m)[j].value # "Pending"
  PROVE  Entry(e, m) = Entry(a, m) /\ Hist(e, m) = Hist(a, m)
<1> QED BY RestoredFacts, SameEntry, OldPending

\* So is one that is pending.
LEMMA RestoredPend ==
  ASSUME NEW a \in Databases, NEW e, NEW h, Restored(a, e, h), NEW m \in Pend(a)
  PROVE  m \in M6id /\ Entry(e, m) = Entry(a, m)
<1>3. ~LeftOver(e, m, h) BY RestoredFacts DEF LeftOver, Pend
<1> QED BY <1>3, RestoredFacts DEF Pend, Databases

LEMMA RestoredWhole ==
  ASSUME NEW a \in Databases, NEW e, NEW h, Restored(a, e, h),
         NEW c, NEW k, NEW mn, NEW n, Whole(a, c, k, mn, n)
  PROVE  Whole(e, c, k, mn, n)
<1>1. /\ e \in Databases /\ e.utxos = a.utxos /\ e.stxos = a.stxos
      /\ Outputs(e) = Outputs(a)
      /\ \A m \in M6id : \/ Entry(e, m) = Entry(a, m)
                         \/ /\ LeftOver(e, m, h) /\ OldOrNone(a, m, h)
                            /\ Shape(Entry(e, m), m)
  BY RestoredFacts
<1>2. /\ Shapes(a) /\ Held(a) /\ NotBoth(a) /\ RegularIn(a, c, k)
      /\ Outputs(a) \cap Deposit = Deposited(mn, n)
  BY DEF Whole
<1>3. Shapes(e) BY <1>1, <1>2 DEF Shapes
<1>4. ASSUME NEW m \in M6id
      PROVE  HeldBy(Entry(e, m), m) = HeldBy(Entry(a, m), m)
  <2>1. CASE Entry(e, m) = Entry(a, m) BY <2>1
  <2>2. CASE LeftOver(e, m, h) /\ OldOrNone(a, m, h)
    <3> QED
      BY <1>1, <1>2, <1>3, <2>2, PendingHoldsNothing, OldPending, LeftOverPending DEF
         OnlyPending, AllPending, Shapes
  <2> QED BY <1>1, <2>1, <2>2
<1> QED BY <1>1, <1>2, <1>3, <1>4 DEF Whole, Held, NotBoth, RegularIn

\* Databases restored are as sound as the ones before the block.
LEMMA RestoredSound ==
  ASSUME NEW a, NEW e, NEW c, NEW k, NEW mn, NEW n,
         Sound(a, c, k, mn, n), Restored(a, e, k)
  PROVE  Sound(e, c, k, mn, n)
<1>1. /\ a \in Databases /\ Whole(a, c, k, mn, n) /\ PendingGood(a) /\ StampsBelow(a, k)
      /\ Failures(a) /\ Awaited(a, mn, n) /\ a.utreexo_accumulator = a.utxos
      /\ LogBelow(a.deposit_blocks, k, BlockOf(mn, n))
      /\ LogBelow(a.withdrawal_bundle_event_blocks, k, BlockOf(mn, n)) /\ Shapes(a)
  BY DEF Sound, Whole
<1>2. /\ e \in Databases /\ e.utxos = a.utxos /\ Logs(e) = Logs(a)
      /\ Pend(e) = Pend(a) /\ Failed(e) = Failed(a)
      /\ \A m \in M6id : Entry(e, m) = Entry(a, m) \/ LeftOver(e, m, k)
  BY <1>1, RestoredFacts
<1>3. Whole(e, c, k, mn, n) BY <1>1, RestoredWhole
<1>4. PendingGood(e) BY <1>1, <1>2, RestoredPend DEF PendingGood, Pend, Last
<1>5. StampsBelow(e, k)
  <2>1. ASSUME NEW m \in M6id
        PROVE  LeftOver(e, m, k) \/ \A i \in 1..Size(e, m) : Hist(e, m)[i].height < k
    <3> SUFFICES ASSUME ~LeftOver(e, m, k)
                 PROVE  \A i \in 1..Size(e, m) : Hist(e, m)[i].height < k
      OBVIOUS
    <3> QED BY <1>1, <1>2, SameEntry DEF StampsBelow, LeftOver, Pend, Entry
  <2> QED BY <1>1, <1>2, <2>1 DEF StampsBelow
<1>6. Failures(e)
  <2> SUFFICES ASSUME NEW i \in 1..Len(Failed(e))
               PROVE  \E j \in 1..Size(e, Failed(e)[i].value) :
                          Hist(e, Failed(e)[i].value)[j] =
                              [value |-> "Failed", height |-> Failed(e)[i].height]
    BY DEF Failures
  <2> DEFINE m == Failed(a)[i].value
             r == [value |-> "Failed", height |-> Failed(a)[i].height]
  <2>1. m \in M6id /\ i \in 1..Len(Failed(a)) BY <1>1, <1>2, FailedType
  <2>2. PICK j \in 1..Size(a, m) : Hist(a, m)[j] = r BY <1>1, <2>1 DEF Failures
  <2>3. Hist(a, m)[j].value # "Pending" BY <2>2
  <2>4. m = Failed(e)[i].value /\ r = [value |-> "Failed", height |-> Failed(e)[i].height]
    BY <1>2
  <2> HIDE DEF m, r
  <2> QED BY <1>1, <2>1, <2>2, <2>3, <2>4, SameEntry, RestoredSame
<1>7. Awaited(e, mn, n)
  <2> SUFFICES ASSUME NEW m \in M6id, LastIn(mn, 1, n, "Submitted", m)
               PROVE  /\ Info(e, m) # "Absent"
                      /\ Last(e, m) \in {"Submitted", "SubmittedUnexpected"}
    BY DEF Awaited
  <2>1. Info(a, m) # "Absent" /\ Last(a, m) \in {"Submitted", "SubmittedUnexpected"}
    BY <1>1 DEF Awaited
  <2>2. Size(a, m) \in 1..Size(a, m) /\ Hist(a, m)[Size(a, m)].value = Last(a, m)
    <3>1. Hist(a, m) # << >> BY <1>1, <2>1 DEF Shapes, Shape, Info, Hist
    <3> QED BY <1>1, <3>1, HistType
  <2>3. Entry(e, m) = Entry(a, m) BY <1>1, <2>1, <2>2, RestoredSame
  <2> QED BY <2>1, <2>3, SameEntry
<1> QED BY <1>1, <1>2, <1>3, <1>4, <1>5, <1>6, <1>7 DEF Sound, Logs

\* A bundle that is pending at the start of a block was collected below it.
LEMMA PendingBelow ==
  ASSUME NEW z \in Databases, NEW h \in Nat, Shapes(z), StampsBelow(z, h),
         PendingGood(z), NEW m \in Pend(z)
  PROVE  m \in M6id /\ m.height < h
<1>1. m \in M6id BY DEF Pend, Databases
<1>2. Info(z, m) = "Known" /\ ~LeftOver(z, m, h)
  BY DEF PendingGood, Pend, LeftOver, Info
<1>4. Hist(z, m) # << >> /\ Hist(z, m)[1] = [value |-> "Pending", height |-> m.height]
  BY <1>1, <1>2 DEF Shape, Hist, Info, Shapes
<1> QED BY <1>1, <1>2, <1>4, HistType DEF StampsBelow

\* A bundle that this block leaves over was not there before the last block, or
\* was left over even then.
LEMMA OldBefore ==
  ASSUME NEW z, NEW lo, NEW h0 \in Nat, NEW a, NEW mn, NEW n, NEW C, NEW L,
         NEW F, NEW g, Trace(z, lo, h0, a, mn, n, C, L, F, g),
         Pend(a) = IF \E x \in Pend(z) : Size(a, x) = Size(z, x) THEN Pend(z) ELSE C,
         NEW m \in M6id, m \notin C \cup L, m.height >= h0,
         NEW h, OldOrNone(a, m, h)
  PROVE  OldOrNone(z, m, h0)
<1> DEFINE s == Size(z, m)
           t == Size(a, m)
<1>1. /\ z \in Databases /\ a \in Databases /\ Shapes(a)
      /\ Grown(z, lo, h0, a, mn, n, F[m], m) /\ s \in Nat /\ t \in Nat /\ s =< t
  BY TraceFacts DEF Trace
<1>2. /\ s = t => Entry(a, m) = Entry(z, m)
      /\ \A p \in (s + 1)..t : Hist(a, m)[p].value # "Pending"
  BY <1>1 DEF Grown, Matches
<1>3. \A p \in 1..t : Hist(a, m)[p].value = "Pending" BY <1>1, OldPending
<1> HIDE DEF s, t
<1>4. ~(s < t)
  <2> SUFFICES ASSUME s < t PROVE FALSE OBVIOUS
  <2> QED BY <1>1, <1>2, <1>3
<1>5. Entry(a, m) = Entry(z, m) BY <1>1, <1>2, <1>4
<1>6. CASE Entry(a, m) = NoBundle BY <1>5, <1>6 DEF OldOrNone
<1>7. CASE LeftOver(a, m, h)
  <2>2. m \notin Pend(z)
    <3> SUFFICES ASSUME m \in Pend(z) PROVE FALSE OBVIOUS
    <3> QED BY <1>5, <1>7, SameEntry DEF LeftOver, Pend
  <2> QED BY <1>5, <1>7, <2>2 DEF OldOrNone, LeftOver, Pend, Entry
<1> QED BY <1>6, <1>7 DEF OldOrNone

\* What the last block did to the databases, it did to the restored ones.
LEMMA RestoredProgress ==
  ASSUME NEW b \in Block, NEW h0 \in Nat, NEW h \in Nat, h0 < h,
         NEW a \in Databases, NEW e, Restored(a, e, h),
         NEW mn, NEW n \in Nat, NEW C, NEW L, Progress(b, h0, a, mn, n, C, L),
         Shapes(b.before), Shapes(a), Shapes(e), StampsBelow(b.before, h0),
         PendingGood(b.before)
  PROVE  \E L2 : Progress(b, h0, e, mn, n, C, L2)
<1> DEFINE z == b.before
           lo == b.events
           M == {m \in M6id : Entry(e, m) # Entry(a, m)}
           L2 == L \cup M
<1>1. /\ e \in Databases /\ Pend(e) = Pend(a) /\ Failed(e) = Failed(a)
      /\ Outputs(e) = Outputs(a) /\ \A m \in M : LeftOver(e, m, h) /\ OldOrNone(a, m, h)
  BY RestoredFacts
<1>2. z \in Databases /\ lo \in Nat BY DEF Block
<1>3. /\ Outputs(a) \ Deposit = (Outputs(z) \ Deposit) \cup b.created
      /\ Collects(z, h0, a, C) /\ L \subseteq M6id
      /\ \A m \in L : m \notin C /\ LeftOver(a, m, h0) /\ OldOrNone(z, m, h0)
      /\ Pend(a) = IF \E x \in Pend(z) : Size(a, x) = Size(z, x) THEN Pend(z) ELSE C
  BY DEF Progress
<1>4. PICK F \in [M6id -> [Nat -> Nat]], g \in [Nat -> Nat] :
          Traced(z, lo, h0, a, mn, n, C, L, F, g)
  BY DEF Progress
<1>6. Trace(z, lo, h0, a, mn, n, C, L, F, g) BY <1>2, <1>3, <1>4 DEF Trace, Extra
<1>7. \A m \in M : m \in M6id /\ m.height \in Nat /\ m.height >= h /\ m.height >= h0
                   /\ LeftOver(e, m, h0)
  <2> SUFFICES ASSUME NEW m \in M
               PROVE  m \in M6id /\ m.height \in Nat /\ m.height >= h /\ m.height >= h0
                      /\ LeftOver(e, m, h0)
    OBVIOUS
  <2> QED BY <1>1 DEF LeftOver, M6id
<1>8. \A m \in M6id : m \notin M => Entry(e, m) = Entry(a, m) OBVIOUS
<1>9. C \subseteq M6id /\ \A m \in C : m.height = h0 BY <1>3 DEF Collects
<1>10. Shapes(z) /\ StampsBelow(z, h0) /\ PendingGood(z) /\ z = b.before /\ lo = b.events
  OBVIOUS
<1>11. M \subseteq M6id OBVIOUS
<1> HIDE DEF M, z, lo
<1>12. \A m \in C : m \notin M /\ m \in M6id /\ Entry(e, m) = Entry(a, m)
  <2> SUFFICES ASSUME NEW m \in C, m \in M PROVE FALSE BY <1>8, <1>9
  <2> QED BY <1>7, <1>9
<1>13. Collects(z, h0, e, C) BY <1>3, <1>12 DEF Collects
<1>14. ASSUME NEW m \in L2
       PROVE  m \notin C /\ LeftOver(e, m, h0) /\ OldOrNone(z, m, h0)
  <2>1. CASE m \in M
    <3>1. OldOrNone(z, m, h0)
      <4>1. CASE m \in L BY <1>3, <4>1
      <4>2. CASE m \notin L BY <1>1, <1>3, <1>6, <1>7, <1>12, <2>1, <4>2, OldBefore
      <4> QED BY <4>1, <4>2
    <3> QED BY <1>7, <1>12, <2>1, <3>1
  <2>2. CASE m \notin M BY <1>1, <1>3, <1>8, <2>2 DEF LeftOver, Pend, Entry
  <2> QED BY <2>1, <2>2
<1>15. \A x \in Pend(z) : x \in M6id /\ Size(e, x) = Size(a, x)
  <2> SUFFICES ASSUME NEW x \in Pend(z)
               PROVE  x \in M6id /\ Size(e, x) = Size(a, x)
    OBVIOUS
  <2> QED BY <1>2, <1>7, <1>8, <1>10, SameEntry, PendingBelow
<1>16. Pend(e) = IF \E x \in Pend(z) : Size(e, x) = Size(z, x) THEN Pend(z) ELSE C
  BY <1>1, <1>3, <1>15
<1>17. ASSUME NEW m \in M6id, m \notin C \cup L2
       PROVE  Grown(z, lo, h0, e, mn, n, F[m], m)
  <2>1. m \notin C \cup L /\ Entry(e, m) = Entry(a, m) BY <1>8, <1>17
  <2>2. Grown(z, lo, h0, a, mn, n, F[m], m) /\ F[m] \in [Nat -> Nat]
    BY <1>6, <2>1, TraceFacts
  <2>3. n =< n /\ \A i \in 1..n : mn[i] = mn[i] OBVIOUS
  <2> QED BY <1>2, <2>1, <2>2, <2>3, GrownMore
<1>18. FailedGrown(z, lo, h0, e, n, F, g)
  <2>1. FailedGrown(z, lo, h0, a, n, F, g) BY <1>4 DEF Traced
  <2>2. Carried(z, a, e, Len(Failed(e)), F, F, g)
    <3> SUFFICES ASSUME NEW p \in (Len(Failed(z)) + 1)..Len(Failed(e)),
                        NEW x, x = Failed(a)[p].value,
                        NEW q \in (Size(z, x) + 1)..Size(a, x),
                        Refund(a, x, q), F[x][q] = g[p]
                 PROVE  q =< Size(e, x) /\ Refund(e, x, q)
      BY DEF Carried
    <3>1. x \in M6id BY <1>1, <1>6, TraceFailed DEF RefundAt
    <3>2. q \in 1..Size(a, x) /\ q =< Size(a, x) /\ Hist(a, x)[q].value # "Pending"
      BY <1>2, <3>1, HistType DEF Refund
    <3>3. Entry(e, x) = Entry(a, x) BY <3>1, <3>2, RestoredSame
    <3>4. Size(e, x) = Size(a, x) /\ Hist(e, x) = Hist(a, x) /\ Info(e, x) = Info(a, x)
      BY <3>3, SameEntry
    <3> QED BY <3>2, <3>4 DEF Refund
  <2>3. /\ Len(Failed(e)) =< Len(Failed(a)) /\ Len(Failed(z)) =< Len(Failed(e))
        /\ \A i \in 1..Len(Failed(e)) : Failed(e)[i] = Failed(a)[i]
        /\ \A p \in (Len(Failed(z)) + 1)..Len(Failed(e)) : g[p] =< n
    BY <1>1, <2>1, FailedType DEF FailedGrown
  <2> QED BY <1>1, <1>2, <2>1, <2>2, <2>3, FailedPrefix
<1>19. Traced(z, lo, h0, e, mn, n, C, L2, F, g) BY <1>17, <1>18 DEF Traced
<1>20. Outputs(e) \ Deposit = (Outputs(z) \ Deposit) \cup b.created BY <1>1, <1>3
<1>21. L2 \subseteq M6id BY <1>3, <1>11
<1> HIDE DEF L2
<1> QED BY <1>10, <1>13, <1>14, <1>16, <1>19, <1>20, <1>21 DEF Progress

LEMMA RestoredSince ==
  ASSUME NEW b \in Block, NEW h0 \in Nat, NEW h \in Nat, h0 < h,
         NEW a, NEW e, Restored(a, e, h), NEW mn, NEW n \in Nat,
         Since(b, h0, a, mn, n), NEW c, NEW k, NEW k2,
         Sound(a, c, k, mn, n), Sound(e, c, k, mn, n),
         Sound(b.before, c, h0, mn, k2)
  PROVE  Since(b, h0, e, mn, n)
<1>2. PICK C, L : Progress(b, h0, a, mn, n, C, L) BY DEF Since
<1> QED BY <1>2, RestoredProgress, RestoredFacts DEF Since, Logs, Sound, Whole

\* The chain without its last block.
LEMMA PopSettled ==
  ASSUME NEW c, NEW mn, NEW d, NEW N \in Nat, N > 0, NEW n \in Nat, NEW lo \in Nat,
         Settled(c, mn, d, N, n), c[N].events = lo,
         \A i \in 1..N : c[i].events \in Nat /\ c[i].events =< lo,
         NEW e, Restored(c[N].before, e, N - 1)
  PROVE  Settled(c, mn, e, N - 1, lo)
<1> DEFINE K == N - 1
           a == c[N].before
<1>1. K \in Nat /\ N \in 1..N /\ K + 1 = N /\ K < N OBVIOUS
<1>2. \A i \in 1..N : Linked(c, mn, d, N, n, i) BY DEF Settled
<1>3. Sound(a, c, K, mn, lo) BY <1>1, <1>2 DEF Linked
<1>4. Restored(a, e, K) OBVIOUS
<1> HIDE DEF K, a
<1>5. Sound(e, c, K, mn, lo) BY <1>3, <1>4, RestoredSound
<1>6. ASSUME NEW i \in 1..K
      PROVE  Linked(c, mn, e, K, lo, i)
  <2> DEFINE j == i - 1
  <2>1. i \in 1..N /\ i < N /\ i + 1 \in 1..N /\ i =< K /\ j \in Nat /\ j < K BY <1>1
  <2>3. /\ c[i] \in Block /\ BodyFits(c[i]) /\ Sound(c[i].before, c, j, mn, c[i].events)
        /\ c[i].events =< c[i + 1].events /\ c[i].events =< lo
        /\ Since(c[i], j, c[i + 1].before, mn, c[i + 1].events) /\ c[i].events \in Nat
    BY <1>2, <2>1 DEF Linked, DbAfter, EventsAfter
  <2>4. CASE i < K BY <2>3, <2>4 DEF Linked, DbAfter, EventsAfter
  <2>5. CASE i = K
    <3>1. DbAfter(c, K, e, i) = e /\ EventsAfter(c, K, lo, i) = lo
      BY <1>1, <2>5 DEF DbAfter, EventsAfter
    <3> DEFINE b == c[i]
               k2 == c[i].events
    <3>3. b \in Block /\ Sound(b.before, c, j, mn, k2) /\ Since(b, j, a, mn, lo)
      BY <1>1, <2>3, <2>5 DEF a
    <3> HIDE DEF b, k2, j
    <3>4. Since(b, j, e, mn, lo) BY <1>1, <1>3, <1>4, <1>5, <2>1, <3>3, RestoredSince
    <3> QED BY <2>3, <3>1, <3>4 DEF Linked, b, j
  <2> QED BY <1>1, <2>1, <2>4, <2>5
<1> QED BY <1>5, <1>6 DEF Settled, K

LEMMA FinishDisconnectRInv ==
  ASSUME RInv, IInv', FinishDisconnect
  PROVE  RInv'
<1>1. CASE Aborts BY <1>1, AbortRInv
<1>2. CASE ~Aborts
  <2> DEFINE N == Len(chain)
             lo == tip.events
             k == N - 1
  <2>1. Undoing BY <1>2, FinishDisconnectRestores
  <2>2. txn.phase = "disconnect" /\ txn.phase # "connect" BY DEF FinishDisconnect
  <2>3. /\ TInv /\ MainGood(chain, main) /\ chain \in Seq(Block) /\ main \in Seq(Event)
        /\ N \in Nat /\ N > 0 /\ height = k /\ lo \in Nat /\ lo =< Len(main)
        /\ Len(main) \in Nat
    BY <2>2, DisconnectingFacts
  <2>4. Settled(chain, main, committed, N, Len(main)) BY <2>2, <2>3, TipFacts
  <2>5. \A i \in 1..N : chain[i].events \in Nat /\ chain[i].events =< lo
    BY <2>3, ChainFacts DEF TInv, ChainGood, tip
  <2>6. chain[N].events = lo /\ Restored(chain[N].before, db', N - 1)
    BY <2>1, <2>3 DEF Undoing, tip
  <2>7. Settled(chain, main, db', k, lo)
    <3> HIDE DEF N, lo
    <3> QED BY <2>3, <2>4, <2>5, <2>6, PopSettled
  <2>8. /\ k \in Nat /\ k \in 0..N /\ lo \in 0..Len(main)
        /\ chain' = SubSeq(chain, 1, k) /\ main' = SubSeq(main, 1, lo)
    BY <2>1, <2>3 DEF Undoing
  <2>9. \A i \in 1..k : chain[i].events =< lo BY <2>3, <2>5
  <2> HIDE DEF k, lo
  <2>10. /\ Len(chain') = k /\ \A i \in 1..k : chain'[i] = chain[i]
         /\ Len(main') = lo /\ \A i \in 1..lo : main'[i] = main[i]
    BY <2>3, <2>8, PrefixType
  <2> QED
    BY <2>1, <2>3, <2>7, <2>8, <2>9, <2>10, PrefixMainGood, SettledAgree DEF RInv,
       Undoing, NoTransaction
<1> QED BY <1>1, <1>2

-----------------------------------------------------------------------------
(* Every step, what the invariant says of the databases, and the panics *)

\* Every step keeps what relates the databases to the chain and the mainchain.
LEMMA NextRInv ==
  ASSUME RInv, [Next]_vars, defects' = {}
  PROVE  RInv'
<1>1. IInv' BY NextKeeps DEF RInv, IInv
<1>2. ASSUME NEW spent \in SUBSET db.utxos, NEW created \in SUBSET Withdrawal,
             ConnectBody(spent, created)
      PROVE  RInv'
  BY <1>1, <1>2, ConnectBodyRInv
<1>3. ASSUME txn.phase = "connect", NEW b \in NextMainBlocks, NEW o \in Deposit,
             ConnectDeposit(b, o)
      PROVE  RInv'
  BY <1>1, <1>3, ConnectDepositRInv
<1>4. ASSUME txn.phase = "connect", NEW b \in NextMainBlocks, NEW m \in M6id,
             \/ ConnectSubmitted(b, m)
             \/ ConnectConfirmed(b, m)
             \/ ConnectFailed(b, m)
      PROVE  RInv'
  BY <1>1, <1>4, ConnectEventRInv
<1>5. CASE FinishConnect BY <1>1, <1>5, FinishConnectRInv
<1>6. CASE BeginDisconnect BY <1>1, <1>6, BeginDisconnectRInv
<1>7. CASE DisconnectDeposit BY <1>1, <1>7, DisconnectDepositRInv
<1>8. CASE DisconnectSubmitted \/ DisconnectConfirmed \/ DisconnectFailed
  BY <1>1, <1>8, DisconnectEventRInv
<1>9. CASE FinishDisconnect BY <1>1, <1>9, FinishDisconnectRInv
<1>10. CASE Restart BY <1>1, <1>10, RestartRInv
<1>11. CASE UNCHANGED vars BY <1>1, <1>11, SameRInv DEF RInv, vars
<1> QED BY <1>2, <1>3, <1>4, <1>5, <1>6, <1>7, <1>8, <1>9, <1>10, <1>11 DEF Next

\* What the invariant says of the databases that describe the same thing.
LEMMA RInvAgree ==
  ASSUME RInv
  PROVE  DatabasesAgree
<1>1. TInv BY DEF RInv, IInv
<1>2. db \in Databases /\ committed \in Databases /\ Len(main) \in Nat
  BY <1>1, ChainFacts
<1>4. Failures(db) /\ (txn.phase # "disconnect" => Awaited(db, main, Len(main)))
      /\ (txn.phase = "idle" => db.utreexo_accumulator = db.utxos)
  <2>1. CASE txn.phase = "idle" BY <2>1 DEF Sound, RInv, Settled
  <2>2. CASE txn.phase = "connect" BY <2>2, ConnectingFacts DEF Connecting
  <2>3. CASE txn.phase = "disconnect"
    <3>1. /\ Disconnecting /\ tip \in Block /\ tip.before \in Databases
          /\ Shapes(tip.before) /\ Failures(tip.before) /\ Shapes(db)
          /\ height \in Nat /\ txn.undo \in Nat
      BY <2>3, DisconnectingFacts
    <3>2. PICK C, L : Progress(tip, height, db, main, txn.undo, C, L)
      BY <3>1 DEF Disconnecting
    <3>3. PICK F, g : Trace(tip.before, tip.events, height, db, main, txn.undo, C, L, F, g)
      BY <1>2, <3>1, <3>2, ProgressTrace
    <3> DEFINE a == tip.before
               lo == tip.events
               h == height
               n == txn.undo
    <3>4. Trace(a, lo, h, db, main, n, C, L, F, g) /\ Failures(a) BY <3>1, <3>3
    <3> HIDE DEF a, lo, h, n
    <3>5. Failures(db) BY ONLY <3>4, TraceFailures
    <3> QED BY <2>3, <3>5
  <2> QED BY <1>1, <2>1, <2>2, <2>3 DEF TInv, TypeOK, Transaction
<1>6. InflightAwaited
  <2> SUFFICES ASSUME txn.phase # "disconnect", NEW m \in M6id, Inflight(m)
               PROVE  bundle(m).info # "Absent" /\ Awaiting(m)
    BY DEF InflightAwaited
  <2>2. /\ Info(db, m) # "Absent"
        /\ Last(db, m) \in {"Submitted", "SubmittedUnexpected"}
    BY <1>4 DEF Awaited, Inflight, LastReport, LastIn
  <2> QED BY <2>2 DEF Info, Last, Entry, bundle, Awaiting, LatestStatus
<1>7. FailuresRecorded
  <2> SUFFICES ASSUME NEW i \in DOMAIN Failed(db)
               PROVE  \E j \in DOMAIN Hist(db, Failed(db)[i].value) :
                          Hist(db, Failed(db)[i].value)[j] =
                              [value |-> "Failed", height |-> Failed(db)[i].height]
    BY DEF FailuresRecorded, Failed, Hist, Entry, bundle
  <2>1. i \in 1..Len(Failed(db)) BY <1>2, LenProperties, FailedType
  <2> DEFINE m == Failed(db)[i].value
  <2>3. PICK j \in 1..Size(db, m) :
            Hist(db, m)[j] = [value |-> "Failed", height |-> Failed(db)[i].height]
    BY <1>4, <2>1 DEF Failures
  <2>4. DOMAIN Hist(db, m) = 1..Size(db, m)
    BY <1>2, <2>1, LenProperties, HistType, FailedType DEF Size
  <2> QED BY <2>3, <2>4
<1> QED BY <1>4, <1>6, <1>7 DEF DatabasesAgree, AccumulatorMatchesUtxos

\* Only the last step of a disconnect that goes through takes the tip away.
LEMMA DisconnectRestoresStep ==
  ASSUME RInv, [Next]_vars, txn.phase = "disconnect", chain' # chain
  PROVE  /\ db' = [tip.before EXCEPT !.withdrawal_bundles = db'.withdrawal_bundles]
         /\ \A m \in M6id :
               \/ db'.withdrawal_bundles[m] = tip.before.withdrawal_bundles[m]
               \/ LeftOver(db', m, height)
<1>5. ~DisconnectFailed BY DEF DisconnectFailed, UndoFailed, Undone, Abort
<1>6. ~Restart /\ ~(UNCHANGED vars) BY DEF Restart, vars
<1>7. ~FinishConnect /\ ~BeginDisconnect BY DEF FinishConnect, BeginDisconnect
<1>9. FinishDisconnect
  BY <1>5, <1>6, <1>7 DEF Next, DisconnectDeposit, Undone, Abort, DisconnectSubmitted,
     UndoSubmitted, DisconnectConfirmed, ConnectBody
<1> QED
  BY <1>9, FinishDisconnectRestores DEF Restored, Kept, Entry, Undoing, Aborts, Abort

\* A status can be pushed onto the pending bundle, and onto any bundle with a
\* status other than Pending.
LEMMA PushableNow ==
  ASSUME RInv, txn.phase = "connect", NEW m \in M6id, bundle(m).info # "Absent",
         IsPending(m) \/ LatestStatus(m) # "Pending"
  PROVE  Pushable(m)
<1> DEFINE a == committed
           lo == tip.events
           h == height
           n == Len(main)
           none == {}
           s == Size(db, m)
<1>1. /\ TInv /\ a \in Databases /\ db \in Databases /\ h \in Nat
      /\ StampsBelow(a, h) /\ Shapes(a) /\ Shapes(db) /\ Pend(db) \subseteq Pend(a)
  BY ConnectingFacts
<1>2. PICK F, g : Trace(a, lo, h, db, main, n, none, none, F, g) BY ConnectingFacts
<1>3. m \notin none \cup none OBVIOUS
<1>4. Ready(db) BY DbReady
<1>5. /\ s \in Nat /\ s > 0 /\ Latest(bundle(m).status) = Hist(db, m)[s]
      /\ LatestStatus(m) = Hist(db, m)[s].value
  BY <1>1, <1>4, Looks
<1>6. s \in 1..s /\ s = Size(db, m) BY <1>5
<1> HIDE DEF a, lo, h, n, none, s
<1>8. CASE LeftOver(a, m, h) /\ Entry(db, m) = Entry(a, m)
  <2> QED
    BY <1>1, <1>5, <1>6, <1>8, SameEntry, LeftOverPending DEF IsPending, Pend,
       AllPending, Shapes, LeftOver
<1>9. CASE \A i \in 1..Size(db, m) : Hist(db, m)[i].height =< h
  BY <1>5, <1>6, <1>9 DEF Pushable, CanPush, h
<1> QED BY <1>1, <1>2, <1>3, <1>8, <1>9, StampsWithin

\* So can a failure onto the list of failed bundles.
LEMMA FailureNow ==
  ASSUME RInv, txn.phase = "connect"
  PROVE  CanPush(db.latest_failed_withdrawal_bundle, height)
<1> DEFINE a == committed
           lo == tip.events
           h == height
           n == Len(main)
           z == Len(Failed(committed))
           s == Len(Failed(db))
<1> SUFFICES ASSUME Failed(db) # << >>
             PROVE  Failed(db)[s].height =< h
  BY DEF CanPush, Latest, Failed
<1>1. a \in Databases /\ db \in Databases /\ h \in Nat /\ StampsBelow(a, h)
  BY ConnectingFacts
<1>2. PICK F, g : Trace(a, lo, h, db, main, n, {}, {}, F, g) BY ConnectingFacts
<1>3. FailedGrown(a, lo, h, db, n, F, g) BY <1>2 DEF Trace, Traced
<1>4. z \in Nat /\ s \in Nat /\ s # 0 /\ \A i \in 1..s : Failed(db)[i].height \in Nat
  BY <1>1, FailedType
<1>5. CASE s =< z
  <2>4. Failed(db)[s].height \in Nat /\ Failed(db)[s].height < h
    BY <1>1, <1>3, <1>4, <1>5 DEF FailedGrown, StampsBelow
  <2> HIDE DEF s, h
  <2> QED BY <1>1, <2>4
<1>6. CASE z < s
  <2>2. Failed(db)[s].height = h BY <1>3, <1>4, <1>6 DEF FailedGrown
  <2> HIDE DEF s, h
  <2> QED BY <1>1, <2>2
<1> QED BY <1>4, <1>5, <1>6

\* The failure that get_latest_failed_withdrawal_bundle looks for is there.
LEMMA FailureIsFound ==
  ASSUME RInv, txn.phase = "connect"
  PROVE  FailureFound
<1> SUFFICES ASSUME Failed(db) # << >>
             PROVE  FailureStamps(Latest(Failed(db)).value) # {}
  BY DEF FailureFound, Failed
<1> DEFINE k == Len(Failed(db))
           x == Failed(db)[k].value
<1>1. db \in Databases /\ Failures(db) BY ConnectingFacts
<1>2. k \in 1..Len(Failed(db)) /\ x \in M6id /\ Latest(Failed(db)).value = x
  BY <1>1, FailedType
<1>3. PICK j \in 1..Size(db, x) :
          Hist(db, x)[j] = [value |-> "Failed", height |-> Failed(db)[k].height]
  BY <1>1, <1>2 DEF Failures
<1>4. Hist(db, x)[j].value = "Failed" BY <1>3
<1> HIDE DEF x
<1>5. DOMAIN Hist(db, x) = 1..Size(db, x)
  BY <1>1, <1>2, LenProperties, HistType DEF Size
<1> QED BY <1>2, <1>4, <1>5 DEF FailureStamps, bundle, Hist, Entry

\* A bundle that is due can be collected.
LEMMA CollectedPushable ==
  ASSUME RInv, txn.phase = "connect", CollectDue
  PROVE  Pushable(Collected)
<1>6. CASE CollectsReported
  <2>1. /\ TInv /\ db \in Databases /\ Shapes(db) BY ConnectingFacts
  <2>2. /\ Collected \in M6id /\ bundle(Collected) = Entry(db, Collected)
        /\ Info(db, Collected) \in {"Unknown", "UnknownConfirmed"}
    BY <1>6, <2>1, CollectDb, ConnectingFacts DEF CollectsReported, bundle, Entry, Info
  <2>3. LatestStatus(Collected) # "Pending"
    <3> DEFINE c == Collected
               x == Entry(db, c)
    <3>1. /\ Shape(x, c) /\ x.info \in {"Unknown", "UnknownConfirmed"} /\ c \in M6id
          /\ LatestStatus(c) = Latest(x.status).value
      BY <2>1, <2>2 DEF Shapes, Info, LatestStatus
    <3>2. /\ Len(x.status) \in Nat /\ Len(x.status) > 0
      BY <2>1, <3>1, HistType DEF Shape, Hist, Size
    <3>3. Follows(x, Len(x.status)) BY <3>1, <3>2 DEF Shape
    <3> HIDE DEF x, c
    <3> QED BY <3>1, <3>3 DEF Follows, Latest, c
  <2> QED BY <2>2, <2>3, PushableNow DEF Info
<1>7. SUFFICES ASSUME ~CollectsReported PROVE Pushable(Collected) BY <1>6
<1> DEFINE c == Collected
           h == height
<1>1. /\ c \in M6id /\ c.height = h /\ OldOrNone(committed, c, h)
      /\ Entry(db, c) = Entry(committed, c)
  BY <1>7, CollectedFacts
<1>2. db \in Databases /\ committed \in Databases /\ h \in Nat BY ConnectingFacts
<1> HIDE DEF c, h
<1>3. bundle(c).status = Hist(db, c) /\ Hist(db, c) = Hist(committed, c)
      /\ Size(db, c) = Size(committed, c)
  BY <1>1, SameEntry DEF bundle, Hist, Entry
<1>4. CASE Entry(committed, c) = NoBundle
  BY <1>3, <1>4 DEF Pushable, CanPush, Hist, NoBundle, c
<1>5. CASE LeftOver(committed, c, h)
  <2> SUFFICES ASSUME Hist(db, c) # << >> PROVE Latest(Hist(db, c)).height =< h
    BY <1>3 DEF Pushable, CanPush, c, h
  <2>1. /\ Size(db, c) \in Nat /\ Size(db, c) # 0
        /\ Latest(Hist(db, c)) = Hist(db, c)[Size(db, c)]
        /\ Hist(db, c) \in Seq(HeightStamped(Status)) /\ Size(db, c) = Len(Hist(db, c))
    BY <1>1, <1>2, HistType DEF Size
  <2> QED BY <1>1, <1>2, <1>3, <1>5, <2>1, LenProperties DEF LeftOver, Hist, Entry
<1> QED BY <1>1, <1>4, <1>5 DEF OldOrNone

\* A submission is never refused with a failed assertion.
LEMMA SubmittedNoPanic ==
  ASSUME RInv, txn.phase = "connect", net_task = "running",
         NEW b \in NextMainBlocks, NEW m \in M6id, ConnectSubmitted(b, m)
  PROVE  net_task' # "panicked"
<1>1. CASE SubmitPending(b, m) \/ SubmitUnexpected(b, m) \/ SubmitUnknown(b, m)
  BY <1>1 DEF SubmitPending, SubmitUnexpected, SubmitUnknown, Applied
<1>2. CASE SubmitRefused(m)
  <2>1. CASE IsPending(m)
    <3>1. LatestStatus(m) = "Pending" /\ bundle(m).info = "Known"
      <4> QED
        BY <2>1, ConnectingFacts DEF IsPending, PendingGood, Last, Entry, bundle,
           LatestStatus
    <3> QED BY <1>2, <2>1, <3>1, PushableNow DEF SubmitRefused, Abort
  <2>2. CASE ~IsPending(m)
    <3>1. Resubmittable(m) => Pushable(m) BY PushableNow DEF Resubmittable
    <3> QED BY <1>2, <2>2, <3>1 DEF SubmitRefused, Abort
  <2> QED BY <2>1, <2>2
<1> QED BY <1>1, <1>2 DEF ConnectSubmitted

\* The assertions about a bundle whose outcome is reported hold.
LEMMA OutcomeNoPanic ==
  ASSUME RInv, txn.phase = "connect", NEW m \in M6id,
         NEW kind \in {"Confirmed", "Failed"}, Reported(kind, m),
         ConnectOutcomeUnexpected(kind, m)
  PROVE  net_task' # "panicked"
<1>1. CASE bundle(m).info = "Absent" BY <1>1 DEF ConnectOutcomeUnexpected, Abort
<1>2. CASE bundle(m).info # "Absent"
  <2>1. /\ LatestStatus(m) # kind
        /\ \/ ~Awaiting(m)
           \/ kind = "Confirmed" /\ ~ConfirmError(m) /\ ~Pushable(m)
           \/ kind = "Failed" /\ ~FailPushable(m)
    BY <1>2 DEF ConnectOutcomeUnexpected
  <2>3. Connecting BY ConnectingFacts
  <2>4. Last(db, m) = LatestStatus(m) BY DEF Last, Entry, LatestStatus, bundle
  <2>5. Awaiting(m)
    <3>1. CASE Inflight(m)
      <4> QED
        BY <2>3, <2>4, <3>1 DEF Awaiting, Connecting, Awaited, Inflight, LastReport,
           LastIn
    <3>2. CASE LastReport(tip.events + 1, kind, m)
      BY <2>1, <2>3, <2>4, <3>2 DEF Connecting, Echoed, LastReport, LastIn
    <3> QED BY <3>1, <3>2 DEF Reported
  <2>6. Pushable(m) BY <1>2, <2>5, PushableNow DEF Awaiting
  <2> QED BY <2>1, <2>5, <2>6, FailureNow DEF FailPushable
<1> QED BY <1>1, <1>2

\* No step of a connect panics.
LEMMA ConnectStepNoPanic ==
  ASSUME RInv, [Next]_vars, txn.phase = "connect"
  PROVE  net_task' # "panicked"
<1>1. net_task = "running" BY DEF RInv
<1>2. ASSUME NEW b \in NextMainBlocks, NEW o \in Deposit, ConnectDeposit(b, o)
      PROVE  net_task' # "panicked"
  BY <1>1, <1>2 DEF ConnectDeposit, Applied
<1>3. ASSUME NEW b \in NextMainBlocks, NEW m \in M6id, ConnectSubmitted(b, m)
      PROVE  net_task' # "panicked"
  BY <1>1, <1>3, SubmittedNoPanic
<1>4. ASSUME NEW b \in NextMainBlocks, NEW m \in M6id, ConnectConfirmed(b, m)
      PROVE  net_task' # "panicked"
  <2>1. CASE ConnectOutcomeUnexpected("Confirmed", m)
    BY <1>4, <2>1, OutcomeNoPanic DEF ConnectConfirmed
  <2>2. CASE ~ConnectOutcomeUnexpected("Confirmed", m)
    BY <1>1, <1>4, <2>2 DEF ConnectConfirmed, Confirm, Applied, Abort
  <2> QED BY <2>1, <2>2
<1>5. ASSUME NEW b \in NextMainBlocks, NEW m \in M6id, ConnectFailed(b, m)
      PROVE  net_task' # "panicked"
  <2>1. CASE ConnectOutcomeUnexpected("Failed", m)
    BY <1>5, <2>1, OutcomeNoPanic DEF ConnectFailed
  <2>2. CASE ~ConnectOutcomeUnexpected("Failed", m)
    BY <1>1, <1>5, <2>2 DEF ConnectFailed, Fail, Applied
  <2> QED BY <2>1, <2>2
<1>6. CASE FinishConnect
  BY <1>1, <1>6, FailureIsFound, CollectedPushable DEF FinishConnect, Abort
<1>8. ~Restart BY <1>1 DEF Restart
<1>9. ASSUME NEW spent \in SUBSET db.utxos, NEW created \in SUBSET Withdrawal,
             ConnectBody(spent, created)
      PROVE  FALSE
  BY <1>9 DEF ConnectBody
<1>10. CASE UNCHANGED vars BY <1>1, <1>10 DEF vars
<1> QED
  BY <1>2, <1>3, <1>4, <1>5, <1>6, <1>8, <1>9, <1>10 DEF Next, BeginDisconnect,
     DisconnectDeposit, DisconnectSubmitted, DisconnectConfirmed, DisconnectFailed,
     FinishDisconnect, ToUndo

\* The records are in order until one of the two defects is met.
RecordsInv == FundsInv /\ (defects = {} => RInv)

\* In every reachable state, until a block collects a bundle that the mainchain
\* had reported before or a build without overflow checks disconnects genesis
\* and its events, the databases are those that the blocks of the chain and the
\* mainchain events they handled lead to, and inside a transaction those of the
\* parent block with the events handled so far (connect) or not yet undone
\* (disconnect).
THEOREM RecordsInvariant == Spec => []RecordsInv
<1>1. Init => RecordsInv BY InitTInv, InitIInv, InitRInv DEF RecordsInv, FundsInv
<1>2. RecordsInv /\ [Next]_vars => RecordsInv'
  <2> SUFFICES ASSUME RecordsInv, [Next]_vars PROVE RecordsInv' OBVIOUS
  <2>1. FundsInv' BY NextKeeps, DefectsGrow DEF RecordsInv, FundsInv
  <2>2. ASSUME defects' = {} PROVE RInv'
    BY <2>2, NextRInv, DefectsGrow DEF RecordsInv
  <2> QED BY <2>1, <2>2 DEF RecordsInv
<1> QED BY <1>1, <1>2, PTL DEF Spec

\* Until one of the two defects is met, the databases that connect_two_way_peg_data
\* and disconnect_two_way_peg_data write agree between transactions: every recorded
\* failure is a status of its bundle, every bundle last submitted on the mainchain
\* awaits its outcome, and the accumulator holds the utxos.
THEOREM DatabasesAlwaysAgree == Spec => []DatabasesAgree
<1>1. RecordsInv => DatabasesAgree BY RInvAgree DEF RecordsInv, DatabasesAgree
<1> QED BY <1>1, RecordsInvariant, PTL

\* Until one of the two defects is met, connect_two_way_peg_data never pushes a
\* status, a failed bundle or a record below the height of the last one, which
\* RollBack::push and the code after it assert, and every outcome is of a bundle
\* that awaits it: no order of connects, disconnects, aborts and restarts panics.
THEOREM ConnectDoesNotPanic == Spec => ConnectNeverPanics
<1>1. RecordsInv /\ [Next]_vars =>
          [defects = {} /\ txn.phase = "connect" => net_task' # "panicked"]_vars
  BY ConnectStepNoPanic DEF RecordsInv
<1> QED BY <1>1, RecordsInvariant, PTL DEF Spec, ConnectNeverPanics

\* Until one of the two defects is met, disconnect_two_way_peg_data, when it commits,
\* has restored every database as it was before the block was connected, but for the
\* entry of a bundle that a disconnected block collected: it may stay when it is not
\* the pending bundle.
THEOREM DisconnectIsUndo == Spec => DisconnectRestores
<1> DEFINE Undo ==
              defects = {} /\ txn.phase = "disconnect" /\ chain' # chain =>
                /\ db' = [tip.before EXCEPT
                             !.withdrawal_bundles = db'.withdrawal_bundles]
                /\ \A m \in M6id :
                      \/ db'.withdrawal_bundles[m] = tip.before.withdrawal_bundles[m]
                      \/ LeftOver(db', m, height)
<1>1. RecordsInv /\ [Next]_vars => [Undo]_vars
  BY DisconnectRestoresStep DEF RecordsInv
<1>2. DisconnectRestores <=> [][Undo]_vars BY DEF DisconnectRestores
<1> QED BY <1>1, <1>2, RecordsInvariant, PTL DEF Spec

=============================================================================
