--------------------------- MODULE MemPoolProofs ---------------------------
(***************************************************************************)
(* Theorems about MemPool, for every set of transactions and whatever they *)
(* spend.  The invariant is Sound, of both the databases that the writer   *)
(* sees and those that readers see: a step that fails returns to the       *)
(* committed ones, so both have to carry it.  What a reorg keeps, and why  *)
(* it refuses a block, needs a second one: KInv, that the databases are    *)
(* what the chain makes of them, and lose nothing on the way.              *)
(***************************************************************************)
EXTENDS MemPool, FunctionTheorems, FiniteSetTheorems, WellFoundedInduction, TLAPS

\* Transactions that can be in the pool, or in one body, together.
NoConflict(txs) ==
    \A tx, other \in txs :
        tx # other => /\ Inputs[tx] \cap Inputs[other] = {}
                      /\ NullifiersOf[tx] \cap NullifiersOf[other] = {}

\* IndexesExact and PooledUnspent, for one state of the databases.
Exact(d) ==
    /\ d.spent_utxos = Index(Inputs, d.transactions)
    /\ d.used_nullifiers = Index(NullifiersOf, d.transactions)
    /\ NoConflict(d.transactions)
Unspent(d) == All(Inputs, d.transactions) \subseteq d.utxos

Typed(d) == d \in Databases /\ Len(d.chain) =< MaxHeight

\* The transactions of a body on the chain were valid together, so that they
\* can be put into the pool together.
BodiesConsistent(d) == \A i \in DOMAIN d.chain : NoConflict(d.chain[i])

Sound(d) == Typed(d) /\ Exact(d) /\ Unspent(d) /\ BodiesConsistent(d)

IInv ==
    /\ Sound(db) /\ Sound(committed)
    /\ phase \in Phases
    /\ accepted \subseteq Tx
    /\ net_task \in Outcomes

-----------------------------------------------------------------------------
\* An index holds pairs of what a transaction spends and the transaction.
LEMMA IndexType ==
    ASSUME NEW txs \in SUBSET Tx
    PROVE  /\ Index(Inputs, txs) \in SUBSET (OutPoint \X Tx)
           /\ Index(NullifiersOf, txs) \in SUBSET (Nullifier \X Tx)
  <1>1. \A tx \in txs : Inputs[tx] \subseteq OutPoint /\ NullifiersOf[tx] \subseteq Nullifier
    BY TxAssumption
  <1>2. QED BY <1>1 DEF Index

\* The entries of an index, and its union with another.
LEMMA IndexEntries ==
    ASSUME NEW of, NEW txs
    PROVE  /\ Keys(Index(of, txs)) = All(of, txs)
           /\ \A o, tx : <<o, tx>> \in Index(of, txs) <=> tx \in txs /\ o \in of[tx]
           /\ \A entry \in Index(of, txs) :
                 /\ entry = <<entry[1], entry[2]>>
                 /\ entry[2] \in txs /\ entry[1] \in of[entry[2]]
  <1>1. \A o, tx : <<o, tx>> \in Index(of, txs) <=> tx \in txs /\ o \in of[tx]
    BY DEF Index
  <1>2. \A entry \in Index(of, txs) :
            /\ entry = <<entry[1], entry[2]>>
            /\ entry[2] \in txs /\ entry[1] \in of[entry[2]]
    BY DEF Index
  <1>3. Keys(Index(of, txs)) = All(of, txs)
    <2>1. ASSUME NEW x \in All(of, txs) PROVE x \in Keys(Index(of, txs))
      <3>1. PICK tx \in txs : x \in of[tx]
        BY <2>1 DEF All
      <3>2. <<x, tx>> \in Index(of, txs)
        BY <1>1, <3>1
      <3>3. QED BY <3>2 DEF Keys
    <2>2. ASSUME NEW x \in Keys(Index(of, txs)) PROVE x \in All(of, txs)
      BY <1>2, <2>2 DEF Keys, All
    <2>3. QED BY <2>1, <2>2
  <1>4. QED BY <1>1, <1>2, <1>3

-----------------------------------------------------------------------------
\* MemPool::put of transactions that it does not refuse and that do not
\* conflict with each other keeps the indexes exact.
LEMMA PutExact ==
    ASSUME NEW d \in Databases, Exact(d), NEW txs \in SUBSET Tx,
           NoConflict(txs), \A tx \in txs : CanPut(d, tx)
    PROVE  LET e == Put(d, txs)
           IN  /\ Exact(e) /\ e \in Databases
               /\ e.utxos = d.utxos /\ e.nullifiers = d.nullifiers
               /\ e.chain = d.chain
               /\ e.transactions = d.transactions \cup txs
  <1> DEFINE e == Put(d, txs)
             all == d.transactions \cup txs
  <1>1. all \in SUBSET Tx
    BY DEF Databases
  <1>2. /\ e \in Databases
        /\ e.utxos = d.utxos /\ e.nullifiers = d.nullifiers
        /\ e.chain = d.chain
        /\ e.transactions = all
        /\ e.spent_utxos = Index(Inputs, all)
        /\ e.used_nullifiers = Index(NullifiersOf, all)
    <2> DEFINE u == Index(Inputs, all)
               n == Index(NullifiersOf, all)
    <2>1. /\ d.spent_utxos \cup Index(Inputs, txs \ d.transactions) = u
          /\ d.used_nullifiers \cup Index(NullifiersOf, txs \ d.transactions) = n
      BY DEF Exact, Index
    <2>2. u \in SUBSET (OutPoint \X Tx) /\ n \in SUBSET (Nullifier \X Tx)
      BY <1>1, IndexType
    <2> HIDE DEF u, n
    <2>3. e = [d EXCEPT !.transactions = all, !.spent_utxos = u, !.used_nullifiers = n]
      BY <2>1, Zenon DEF Put
    <2> HIDE DEF e, all
    <2>4. /\ e \in Databases
          /\ e.utxos = d.utxos /\ e.nullifiers = d.nullifiers
          /\ e.chain = d.chain
          /\ e.transactions = all /\ e.spent_utxos = u /\ e.used_nullifiers = n
      BY <1>1, <2>2, <2>3 DEF Databases
    <2>5. QED BY <2>4 DEF u, n
  <1>3. ASSUME NEW tx \in txs \ d.transactions, NEW other \in d.transactions
        PROVE  /\ Inputs[tx] \cap Inputs[other] = {}
               /\ NullifiersOf[tx] \cap NullifiersOf[other] = {}
    <2>1. /\ Inputs[tx] \cap Keys(Index(Inputs, d.transactions)) = {}
          /\ NullifiersOf[tx] \cap Keys(Index(NullifiersOf, d.transactions)) = {}
      BY <1>3 DEF CanPut, Conflicts, Exact
    <2>2. /\ Inputs[tx] \cap All(Inputs, d.transactions) = {}
          /\ NullifiersOf[tx] \cap All(NullifiersOf, d.transactions) = {}
      <3>1. /\ Keys(Index(Inputs, d.transactions)) = All(Inputs, d.transactions)
            /\ Keys(Index(NullifiersOf, d.transactions))
                 = All(NullifiersOf, d.transactions)
        BY IndexEntries
      <3>2. QED BY <2>1, <3>1
    <2>3. QED BY <2>2, <1>3 DEF All
  <1>4. NoConflict(e.transactions)
    <2> SUFFICES ASSUME NEW tx \in e.transactions, NEW other \in e.transactions,
                        tx # other
                 PROVE  /\ Inputs[tx] \cap Inputs[other] = {}
                        /\ NullifiersOf[tx] \cap NullifiersOf[other] = {}
      BY DEF NoConflict
    <2>1. CASE tx \in txs \ d.transactions /\ other \in d.transactions
      BY <2>1, <1>3
    <2>2. CASE other \in txs \ d.transactions /\ tx \in d.transactions
      BY <2>2, <1>3
    <2>3. CASE tx \in d.transactions /\ other \in d.transactions
      BY <2>3 DEF Exact, NoConflict
    <2>4. CASE tx \in txs /\ other \in txs
      BY <2>4 DEF NoConflict
    <2>5. QED BY <2>1, <2>2, <2>3, <2>4, <1>2
  <1>5. QED BY <1>2, <1>4 DEF Exact

\* MemPool::delete keeps the indexes exact: what the deleted transactions
\* spend, no other transaction in the pool spends.
LEMMA DeleteExact ==
    ASSUME NEW d \in Databases, Exact(d), NEW txs
    PROVE  LET e == Delete(d, txs)
           IN  /\ Exact(e) /\ e \in Databases
               /\ e.utxos = d.utxos /\ e.nullifiers = d.nullifiers
               /\ e.chain = d.chain
               /\ e.transactions \subseteq d.transactions
  <1> DEFINE e == Delete(d, txs)
             gone == Reached(d, txs)
  <1>2. gone \subseteq d.transactions
    BY DEF Reached
  <1>3. d.transactions \subseteq Tx
    BY DEF Databases
  <1> HIDE DEF gone
  <1>4. ASSUME NEW of,
               \A tx, other \in d.transactions :
                   tx # other => of[tx] \cap of[other] = {}
        PROVE  {entry \in Index(of, d.transactions) : entry[1] \notin All(of, gone)}
                 = Index(of, d.transactions \ gone)
    <2>1. ASSUME NEW entry \in Index(of, d.transactions), entry[1] \notin All(of, gone)
          PROVE  entry \in Index(of, d.transactions \ gone)
      <3>1. /\ entry = <<entry[1], entry[2]>>
            /\ entry[2] \in d.transactions /\ entry[1] \in of[entry[2]]
        BY IndexEntries, <2>1
      <3>2. entry[2] \notin gone
        BY <2>1, <3>1 DEF All
      <3>3. QED BY <3>1, <3>2, IndexEntries
    <2>2. ASSUME NEW entry \in Index(of, d.transactions \ gone)
          PROVE  entry \in Index(of, d.transactions) /\ entry[1] \notin All(of, gone)
      <3>1. /\ entry = <<entry[1], entry[2]>>
            /\ entry[2] \in d.transactions \ gone /\ entry[1] \in of[entry[2]]
        BY IndexEntries, <2>2
      <3>2. \A tx \in gone : entry[1] \notin of[tx]
        BY <3>1, <1>2, <1>4
      <3>3. entry[1] \notin All(of, gone)
        BY <3>2 DEF All
      <3>4. QED BY <3>1, <3>3, IndexEntries
    <2>3. QED BY <2>1, <2>2
  <1>5. /\ e \in Databases
        /\ e.utxos = d.utxos /\ e.nullifiers = d.nullifiers
        /\ e.chain = d.chain
        /\ e.transactions = d.transactions \ gone
        /\ e.spent_utxos = Index(Inputs, d.transactions \ gone)
        /\ e.used_nullifiers = Index(NullifiersOf, d.transactions \ gone)
    <2>1. \A tx, other \in d.transactions :
              tx # other => /\ Inputs[tx] \cap Inputs[other] = {}
                            /\ NullifiersOf[tx] \cap NullifiersOf[other] = {}
      BY DEF Exact, NoConflict
    <2>2. {entry \in d.spent_utxos : entry[1] \notin All(Inputs, gone)}
            = Index(Inputs, d.transactions \ gone)
      BY <2>1, <1>4 DEF Exact
    <2>3. {entry \in d.used_nullifiers : entry[1] \notin All(NullifiersOf, gone)}
            = Index(NullifiersOf, d.transactions \ gone)
      BY <2>1, <1>4 DEF Exact
    <2> DEFINE t == d.transactions \ gone
               u == Index(Inputs, t)
               n == Index(NullifiersOf, t)
    <2>4. e = [d EXCEPT !.transactions = t, !.spent_utxos = u, !.used_nullifiers = n]
      BY <2>2, <2>3 DEF Delete, gone
    <2>5. t \in SUBSET Tx
      BY <1>3
    <2>6. u \in SUBSET (OutPoint \X Tx) /\ n \in SUBSET (Nullifier \X Tx)
      BY <2>5, IndexType
    <2> HIDE DEF e, t, u, n
    <2>7. /\ e \in Databases
          /\ e.utxos = d.utxos /\ e.nullifiers = d.nullifiers
          /\ e.chain = d.chain
          /\ e.transactions = t /\ e.spent_utxos = u /\ e.used_nullifiers = n
      BY <2>4, <2>5, <2>6 DEF Databases
    <2>8. QED BY <2>7 DEF t, u, n
  <1>6. NoConflict(d.transactions \ gone)
    BY DEF Exact, NoConflict
  <1>7. QED BY <1>5, <1>6 DEF Exact

-----------------------------------------------------------------------------
\* What the transactions of a set spend, create and reveal.
LEMMA AllType ==
    ASSUME NEW txs \in SUBSET Tx
    PROVE  /\ All(Inputs, txs) \subseteq OutPoint
           /\ All(Outputs, txs) \subseteq OutPoint
           /\ All(NullifiersOf, txs) \subseteq Nullifier
  BY TxAssumption DEF All

\* disconnect_tip leaves the pool alone, and a chain of consistent bodies.
LEMMA UndoSound ==
    ASSUME NEW d, Typed(d), Exact(d), BodiesConsistent(d), d.chain # << >>
    PROVE  LET e == Undo(d)
               body == d.chain[Len(d.chain)]
           IN  /\ Typed(e) /\ Exact(e) /\ BodiesConsistent(e)
               /\ body \in SUBSET Tx /\ NoConflict(body)
               /\ \A tx : CanPut(e, tx) <=> CanPut(d, tx)
  <1> DEFINE e == Undo(d)
             body == d.chain[Len(d.chain)]
             u == (d.utxos \ All(Outputs, body)) \cup All(Inputs, body)
             n == d.nullifiers \ All(NullifiersOf, body)
             c == SubSeq(d.chain, 1, Len(d.chain) - 1)
  <1>1. d \in Databases /\ d.chain \in Seq(Body) /\ Len(d.chain) =< MaxHeight
    BY DEF Typed, Databases
  <1>2. Len(d.chain) \in DOMAIN d.chain /\ Len(d.chain) \in Nat \ {0}
    BY <1>1
  <1>3. body \in Body /\ NoConflict(body)
    BY <1>1, <1>2 DEF BodiesConsistent
  <1>4. body \in SUBSET Tx
    BY <1>3 DEF Body
  <1>5. u \in SUBSET OutPoint /\ n \in SUBSET Nullifier
    BY <1>1, <1>4, AllType DEF Databases
  <1>6. /\ c \in Seq(Body) /\ Len(c) =< MaxHeight
        /\ \A i \in DOMAIN c : i \in DOMAIN d.chain /\ c[i] = d.chain[i]
    BY <1>1, <1>2, BoundAssumption
  <1>7. e = [d EXCEPT !.utxos = u, !.nullifiers = n, !.chain = c]
    BY DEF Undo
  <1> HIDE DEF e, u, n, c
  <1>8. /\ e \in Databases /\ e.chain = c
        /\ e.transactions = d.transactions
        /\ e.spent_utxos = d.spent_utxos
        /\ e.used_nullifiers = d.used_nullifiers
    BY <1>1, <1>5, <1>6, <1>7 DEF Databases
  <1>9. Typed(e) /\ Exact(e) /\ BodiesConsistent(e)
    BY <1>6, <1>8 DEF Typed, Exact, BodiesConsistent
  <1>10. \A tx : CanPut(e, tx) <=> CanPut(d, tx)
    BY <1>8 DEF CanPut, Conflicts
  <1>11. QED BY <1>3, <1>4, <1>9, <1>10 DEF e

\* connect_prevalidated leaves the pool alone, and a chain of consistent
\* bodies.
LEMMA ApplySound ==
    ASSUME NEW d, Typed(d), Exact(d), BodiesConsistent(d),
           NEW body, BodyValid(d, body), Len(d.chain) < MaxHeight
    PROVE  LET e == Apply(d, body)
           IN  Typed(e) /\ Exact(e) /\ BodiesConsistent(e)
  <1> DEFINE e == Apply(d, body)
             u == (d.utxos \ All(Inputs, body)) \cup All(Outputs, body)
             n == d.nullifiers \cup All(NullifiersOf, body)
             c == Append(d.chain, body)
  <1>1. d \in Databases /\ d.chain \in Seq(Body)
    BY DEF Typed, Databases
  <1>2. body \in Body /\ NoConflict(body)
    BY DEF BodyValid, NoConflict
  <1>3. body \in SUBSET Tx
    BY <1>2 DEF Body
  <1>4. u \in SUBSET OutPoint /\ n \in SUBSET Nullifier
    BY <1>1, <1>3, AllType DEF Databases
  <1>5. /\ c \in Seq(Body) /\ Len(c) =< MaxHeight
        /\ \A i \in DOMAIN c : i \in DOMAIN d.chain \/ c[i] = body
        /\ \A i \in DOMAIN d.chain : c[i] = d.chain[i]
    BY <1>1, <1>2, BoundAssumption
  <1>6. e = [d EXCEPT !.utxos = u, !.nullifiers = n, !.chain = c]
    BY DEF Apply
  <1> HIDE DEF e, u, n, c
  <1>7. /\ e \in Databases /\ e.chain = c
        /\ e.transactions = d.transactions
        /\ e.spent_utxos = d.spent_utxos
        /\ e.used_nullifiers = d.used_nullifiers
    BY <1>1, <1>4, <1>5, <1>6 DEF Databases
  <1>8. BodiesConsistent(e)
    BY <1>2, <1>5, <1>7 DEF BodiesConsistent
  <1>9. Typed(e) /\ Exact(e)
    BY <1>5, <1>7 DEF Typed, Exact
  <1>10. QED BY <1>8, <1>9 DEF e

\* MemPool::put of a transaction whose inputs exist.
LEMMA PutOneSound ==
    ASSUME NEW d, Sound(d), NEW tx \in Tx, CanPut(d, tx), Inputs[tx] \subseteq d.utxos
    PROVE  Sound(Put(d, {tx}))
  <1> DEFINE e == Put(d, {tx})
  <1>1. d \in Databases /\ Exact(d)
    BY DEF Sound, Typed
  <1>2. NoConflict({tx}) /\ {tx} \in SUBSET Tx /\ \A t \in {tx} : CanPut(d, t)
    BY DEF NoConflict
  <1>3. /\ Exact(e) /\ e \in Databases
        /\ e.utxos = d.utxos /\ e.chain = d.chain
        /\ e.transactions = d.transactions \cup {tx}
    BY <1>1, <1>2, PutExact
  <1> HIDE DEF e
  <1>4. Unspent(e)
    BY <1>3 DEF Sound, Unspent, All
  <1>5. Typed(e) /\ BodiesConsistent(e)
    BY <1>3 DEF Sound, Typed, BodiesConsistent
  <1>6. QED BY <1>3, <1>4, <1>5 DEF Sound, e

\* MemPool::delete of any transactions.
LEMMA DeleteSound ==
    ASSUME NEW d, Sound(d), NEW txs
    PROVE  Sound(Delete(d, txs))
  <1> DEFINE e == Delete(d, txs)
  <1>1. d \in Databases /\ Exact(d)
    BY DEF Sound, Typed
  <1>2. /\ Exact(e) /\ e \in Databases
        /\ e.utxos = d.utxos /\ e.chain = d.chain
        /\ e.transactions \subseteq d.transactions
    BY <1>1, DeleteExact
  <1> HIDE DEF e
  <1>3. Unspent(e)
    BY <1>2 DEF Sound, Unspent, All
  <1>4. Typed(e) /\ BodiesConsistent(e)
    BY <1>2 DEF Sound, Typed, BodiesConsistent
  <1>5. QED BY <1>2, <1>3, <1>4 DEF Sound, e

-----------------------------------------------------------------------------
\* What a dropped write transaction leaves is sound, because what is committed
\* is.
LEMMA EndSound ==
    ASSUME IInv, NEW outcome \in Outcomes, End(outcome)
    PROVE  IInv'
  BY DEF IInv, End, Phases, Sound, Typed, Exact, Unspent, BodiesConsistent

LEMMA WriteSound ==
    ASSUME NEW d, Sound(d), Write(d)
    PROVE  Sound(db)' /\ Sound(committed)'
  BY DEF Write, Sound, Typed, Exact, Unspent, BodiesConsistent

LEMMA InitSound == Init => IInv
  <1> SUFFICES ASSUME Init PROVE IInv
    OBVIOUS
  <1>1. /\ db \in Databases /\ db.chain = << >> /\ db.transactions = {}
        /\ db.spent_utxos = {} /\ db.used_nullifiers = {}
    BY TxAssumption DEF Init, Databases
  <1>2. Typed(db)
    BY <1>1, BoundAssumption DEF Typed
  <1>3. Exact(db) /\ Unspent(db) /\ BodiesConsistent(db)
    BY <1>1 DEF Exact, Index, NoConflict, Unspent, All, BodiesConsistent
  <1>4. QED BY <1>2, <1>3 DEF Init, IInv, Sound, Phases, Outcomes

LEMMA NextSound == IInv /\ [Next]_vars => IInv'
  <1> SUFFICES ASSUME IInv, [Next]_vars PROVE IInv'
    OBVIOUS
  <1>1. /\ Sound(db) /\ Sound(committed)
        /\ phase \in Phases /\ accepted \subseteq Tx /\ net_task \in Outcomes
    BY DEF IInv
  <1>2. ASSUME NEW tx \in Tx, SubmitTransaction(tx) PROVE IInv'
    <2>1. Sound(Put(db, {tx}))
      BY <1>1, <1>2, PutOneSound DEF SubmitTransaction, Valid, Filled
    <2>2. Sound(db)' /\ Sound(committed)'
      BY <1>2, <2>1, WriteSound DEF SubmitTransaction
    <2>3. QED BY <1>1, <1>2, <2>2 DEF SubmitTransaction, IInv
  <1>3. ASSUME NEW tx \in Tx, AcceptTransaction(tx) PROVE IInv'
    BY <1>1, <1>3
    DEF AcceptTransaction, IInv, Sound, Typed, Exact, Unspent, BodiesConsistent
  <1>4. ASSUME NEW tx \in Tx, NewTransaction(tx) PROVE IInv'
    <2>1. CASE /\ Provable(db, {tx}) /\ CanPut(db, tx) /\ Write(Put(db, {tx}))
               /\ accepted' = accepted \ {tx} /\ UNCHANGED <<phase, net_task>>
      <3>1. Inputs[tx] \subseteq db.utxos
        BY <2>1 DEF Provable, All
      <3>2. Sound(Put(db, {tx}))
        BY <1>1, <2>1, <3>1, PutOneSound
      <3>3. Sound(db)' /\ Sound(committed)'
        BY <2>1, <3>2, WriteSound
      <3>4. QED BY <1>1, <2>1, <3>3 DEF IInv
    <2>2. CASE End("transaction_refused")
      BY <2>2, EndSound DEF Outcomes
    <2>3. QED BY <1>4, <2>1, <2>2 DEF NewTransaction
  <1>5. ASSUME NEW tx \in Tx, RemoveFromMempool(tx) PROVE IInv'
    <2>1. Sound(db)' /\ Sound(committed)'
      BY <1>1, <1>5, DeleteSound, WriteSound DEF RemoveFromMempool
    <2>2. QED BY <1>1, <1>5, <2>1 DEF RemoveFromMempool, IInv
  <1>6. CASE GetTransactions
    <2>1. PICK gone : Write(Delete(db, gone))
      BY <1>6 DEF GetTransactions
    <2>2. Sound(db)' /\ Sound(committed)'
      BY <1>1, <2>1, DeleteSound, WriteSound
    <2>3. QED BY <1>1, <1>6, <2>2 DEF GetTransactions, IInv
  <1>7. CASE DisconnectTip
    <2> DEFINE body == db.chain[Len(db.chain)]
               undone == Put(Undo(db), body)
    <2>1. CASE /\ \A tx \in body : CanPut(db, tx)
               /\ Provable(undone, undone.transactions)
               /\ db' = undone /\ phase' = "disconnecting"
               /\ UNCHANGED <<committed, accepted, net_task>>
      <3>1. Typed(db) /\ Exact(db) /\ BodiesConsistent(db) /\ db.chain # << >>
        BY <1>1, <1>7 DEF Sound, DisconnectTip
      <3>2. /\ Typed(Undo(db)) /\ Exact(Undo(db)) /\ BodiesConsistent(Undo(db))
            /\ body \in SUBSET Tx /\ NoConflict(body)
            /\ \A tx : CanPut(Undo(db), tx) <=> CanPut(db, tx)
        BY <3>1, UndoSound
      <3>3. \A tx \in body : CanPut(Undo(db), tx)
        BY <2>1, <3>2
      <3>4. Undo(db) \in Databases
        BY <3>2 DEF Typed
      <3> HIDE DEF body
      <3>5. /\ Exact(undone) /\ undone \in Databases
            /\ undone.chain = Undo(db).chain
        BY <3>2, <3>3, <3>4, PutExact
      <3> HIDE DEF undone
      <3>6. Unspent(undone)
        BY <2>1 DEF Provable, Unspent
      <3>7. Typed(undone) /\ BodiesConsistent(undone)
        BY <3>2, <3>5 DEF Typed, BodiesConsistent
      <3>8. Sound(db)'
        BY <2>1, <3>5, <3>6, <3>7
        DEF Sound, Typed, Exact, Unspent, BodiesConsistent
      <3>9. Sound(committed)'
        BY <1>1, <2>1 DEF Sound, Typed, Exact, Unspent, BodiesConsistent
      <3>10. QED BY <1>1, <2>1, <3>8, <3>9 DEF IInv, Phases
    <2>2. CASE End("disconnect_refused")
      BY <2>2, EndSound DEF Outcomes
    <2>3. QED BY <1>7, <2>1, <2>2 DEF DisconnectTip
  <1>8. ASSUME NEW body \in SUBSET Tx, ConnectBlock(body) PROVE IInv'
    <2> DEFINE applied == DeleteConflicts(Apply(db, body), body)
    <2>1. CASE /\ BodyValid(db, body)
               /\ Provable(applied, applied.transactions)
               /\ db' = applied /\ phase' = "connecting"
               /\ UNCHANGED <<committed, accepted, net_task>>
      <3>1. /\ Typed(db) /\ Exact(db) /\ BodiesConsistent(db)
            /\ Len(db.chain) < MaxHeight
        BY <1>1, <1>8 DEF Sound, ConnectBlock
      <3>2. /\ Typed(Apply(db, body)) /\ Exact(Apply(db, body))
            /\ BodiesConsistent(Apply(db, body))
        BY <2>1, <3>1, ApplySound
      <3>3. /\ Exact(applied) /\ applied \in Databases
            /\ applied.chain = Apply(db, body).chain
        BY <3>2, DeleteExact DEF DeleteConflicts, Typed
      <3> HIDE DEF applied
      <3>4. Unspent(applied)
        BY <2>1 DEF Provable, Unspent
      <3>5. Typed(applied) /\ BodiesConsistent(applied)
        BY <3>2, <3>3 DEF Typed, BodiesConsistent
      <3>6. Sound(db)'
        BY <2>1, <3>3, <3>4, <3>5
        DEF Sound, Typed, Exact, Unspent, BodiesConsistent
      <3>7. Sound(committed)'
        BY <1>1, <2>1 DEF Sound, Typed, Exact, Unspent, BodiesConsistent
      <3>8. QED BY <1>1, <2>1, <3>6, <3>7 DEF IInv, Phases
    <2>2. CASE End("block_invalid") \/ End("connect_refused")
      BY <2>2, EndSound DEF Outcomes
    <2>3. QED BY <1>8, <2>1, <2>2 DEF ConnectBlock
  <1>9. CASE Commit
    BY <1>1, <1>9
    DEF Commit, IInv, Phases, Sound, Typed, Exact, Unspent, BodiesConsistent
  <1>10. CASE Restart
    BY <1>1, <1>10
    DEF Restart, IInv, Outcomes, Sound, Typed, Exact, Unspent, BodiesConsistent
  <1>11. CASE UNCHANGED vars
    BY <1>1, <1>11 DEF vars, IInv, Sound, Typed, Exact, Unspent, BodiesConsistent
  <1>12. QED
    BY <1>2, <1>3, <1>4, <1>5, <1>6, <1>7, <1>8, <1>9, <1>10, <1>11 DEF Next

\* The invariant holds in every reachable state.
THEOREM SoundAlways == Spec => []IInv
  BY InitSound, NextSound, PTL DEF Spec

\* Whatever is submitted, pushed, mined and disconnected, in any order and with
\* any step refused, the databases keep their types (struct MemPool).
THEOREM MemPoolTypeCorrect == Spec => []TypeOK
  <1>1. IInv => TypeOK
    BY DEF IInv, Sound, Typed, TypeOK
  <1>2. QED BY <1>1, SoundAlways, PTL

\* The indexes are exactly what the pooled transactions spend and reveal, and
\* no two of them conflict (MemPool::put, MemPool::delete).
THEOREM IndexesStayExact == Spec => []IndexesExact
  <1>1. IInv => IndexesExact
    BY DEF IInv, Sound, Exact, NoConflict, IndexesExact
  <1>2. QED BY <1>1, SoundAlways, PTL

\* Every pooled transaction spends utxos that exist, in what the writer sees
\* and in what readers see (handle_push_tx, NewTransaction, connect_block).
THEOREM PooledStaysUnspent == Spec => []PooledUnspent
  <1>1. IInv => PooledUnspent
    BY DEF IInv, Sound, Unspent, PooledUnspent
  <1>2. QED BY <1>1, SoundAlways, PTL

-----------------------------------------------------------------------------
(***************************************************************************)
(* What the chain says of the rest.  ChainExact: the utxos are what the    *)
(* bodies created and did not spend, the nullifiers those that they        *)
(* revealed, and every body spent what was there before it.  It is needed  *)
(* to tell that what a block deletes from the pool has no spender in the   *)
(* pool, and that what a body creates, nothing before it could spend.      *)
(***************************************************************************)
Upto(ch, k) == UNION {ch[i] : i \in 1..k}
Spent(ch, k) == All(Inputs, Upto(ch, k))
Revealed(ch, k) == All(NullifiersOf, Upto(ch, k))
Made(ch, k) == GenesisUtxos \cup All(Outputs, Upto(ch, k))

BodyFits(ch, i) ==
    /\ All(Inputs, ch[i]) \subseteq Made(ch, i - 1) \ Spent(ch, i - 1)
    /\ All(Outputs, ch[i]) \cap Made(ch, i - 1) = {}
    /\ All(NullifiersOf, ch[i]) \cap Revealed(ch, i - 1) = {}

ChainExact(d) ==
    /\ d.utxos = Made(d.chain, Len(d.chain)) \ Spent(d.chain, Len(d.chain))
    /\ d.nullifiers = Revealed(d.chain, Len(d.chain))
    /\ \A i \in 1..Len(d.chain) : BodyFits(d.chain, i)

\* The transactions that the databases hold.
Has(d) == d.transactions \cup OnChain(d)

\* A transaction that a write transaction has dropped since the last commit has
\* a nullifier in common with the chain.
Kept(d, e) ==
    \A tx \in Has(d) : tx \in Has(e) \/ NullifiersOf[tx] \cap e.nullifiers # {}

KInv ==
    /\ ChainExact(db) /\ ChainExact(committed)
    /\ phase = "idle" => db = committed
    /\ phase = "disconnecting" => Has(committed) \subseteq Has(db)
    /\ phase = "connecting" => Kept(committed, db)

\* What is in a union over transactions, and in one over bodies.
LEMMA InAll ==
    ASSUME NEW of, NEW txs, NEW x
    PROVE  x \in All(of, txs) <=> \E tx \in txs : x \in of[tx]
  BY DEF All

LEMMA InUpto ==
    ASSUME NEW ch, NEW k, NEW tx
    PROVE  tx \in Upto(ch, k) <=> \E i \in 1..k : tx \in ch[i]
  BY DEF Upto

LEMMA AllUnion ==
    ASSUME NEW of, NEW txs, NEW more
    PROVE  All(of, txs \cup more) = All(of, txs) \cup All(of, more)
  BY DEF All

LEMMA AllMonotone ==
    ASSUME NEW of, NEW txs, NEW more, txs \subseteq more
    PROVE  All(of, txs) \subseteq All(of, more)
  BY DEF All

LEMMA UptoNext ==
    ASSUME NEW ch, NEW k \in Nat
    PROVE  Upto(ch, k + 1) = Upto(ch, k) \cup ch[k + 1]
  <1>1. 1..(k + 1) = (1..k) \cup {k + 1}
    OBVIOUS
  <1>2. QED BY <1>1 DEF Upto

\* Upto looks at the first bodies only.
LEMMA UptoSame ==
    ASSUME NEW ch, NEW other, NEW k, \A i \in 1..k : ch[i] = other[i]
    PROVE  Upto(ch, k) = Upto(other, k)
  BY DEF Upto

LEMMA UptoMonotone ==
    ASSUME NEW ch, NEW k \in Nat, NEW n \in Nat, k =< n
    PROVE  Upto(ch, k) \subseteq Upto(ch, n)
  BY DEF Upto

LEMMA OnChainUpto ==
    ASSUME NEW d, Typed(d)
    PROVE  /\ OnChain(d) = Upto(d.chain, Len(d.chain))
           /\ OnChain(d) \subseteq Tx
           /\ \A i \in 1..Len(d.chain) : d.chain[i] \subseteq Tx
  <1>1. d.chain \in Seq(Body)
    BY DEF Typed, Databases
  <1>2. DOMAIN d.chain = 1..Len(d.chain)
    BY <1>1
  <1>3. \A i \in 1..Len(d.chain) : d.chain[i] \subseteq Tx
    BY <1>1 DEF Body
  <1>4. OnChain(d) = Upto(d.chain, Len(d.chain))
    BY <1>2 DEF OnChain, Upto
  <1>5. QED BY <1>3, <1>4 DEF Upto

\* What bodies spend was made.
LEMMA SpentMade ==
    ASSUME NEW ch, NEW n \in Nat, \A i \in 1..n : BodyFits(ch, i)
    PROVE  Spent(ch, n) \subseteq Made(ch, n)
  <1> SUFFICES ASSUME NEW o \in Spent(ch, n) PROVE o \in Made(ch, n)
    OBVIOUS
  <1>1. PICK tx \in Upto(ch, n) : o \in Inputs[tx]
    BY InAll DEF Spent
  <1>2. PICK i \in 1..n : tx \in ch[i]
    BY <1>1, InUpto
  <1>3. o \in All(Inputs, ch[i])
    BY <1>1, <1>2, InAll
  <1>4. o \in Made(ch, i - 1)
    BY <1>2, <1>3 DEF BodyFits
  <1>5. Upto(ch, i - 1) \subseteq Upto(ch, n)
    BY UptoMonotone
  <1>6. All(Outputs, Upto(ch, i - 1)) \subseteq All(Outputs, Upto(ch, n))
    BY <1>5, AllMonotone
  <1>7. QED BY <1>4, <1>6 DEF Made

\* A transaction that spends what is there, or reveals what was not revealed,
\* is not on the chain, and what it creates is new.
LEMMA FreshOutputs ==
    ASSUME NEW d, Typed(d), ChainExact(d), NEW tx \in Tx,
           Inputs[tx] \subseteq d.utxos, NullifiersOf[tx] \cap d.nullifiers = {}
    PROVE  Outputs[tx] \cap Made(d.chain, Len(d.chain)) = {}
  <1> SUFFICES ASSUME NEW o \in Outputs[tx], o \in Made(d.chain, Len(d.chain))
               PROVE  FALSE
    OBVIOUS
  <1>1. o \notin GenesisUtxos
    BY OutPointAssumption
  <1>2. PICK t \in Upto(d.chain, Len(d.chain)) : o \in Outputs[t]
    BY <1>1, InAll DEF Made
  <1>3. t = tx
    BY <1>2, OnChainUpto, OutPointAssumption
  <1>4. Inputs[tx] \subseteq Spent(d.chain, Len(d.chain))
    BY <1>2, <1>3, InAll DEF Spent
  <1>5. NullifiersOf[tx] \subseteq Revealed(d.chain, Len(d.chain))
    BY <1>2, <1>3, InAll DEF Revealed
  <1>6. Inputs[tx] = {} /\ NullifiersOf[tx] = {}
    BY <1>4, <1>5 DEF ChainExact
  <1>7. QED BY <1>6, SpendAssumption

\* The parts of a chain that agree on their first bodies.
LEMMA ChainPrefix ==
    ASSUME NEW ch, NEW other, NEW n \in Nat, \A i \in 1..n : ch[i] = other[i]
    PROVE  /\ Made(ch, n) = Made(other, n) /\ Spent(ch, n) = Spent(other, n)
           /\ Revealed(ch, n) = Revealed(other, n)
           /\ \A i \in 1..n : BodyFits(ch, i) <=> BodyFits(other, i)
  <1>1. ASSUME NEW k \in 0..n
        PROVE  /\ Made(ch, k) = Made(other, k) /\ Spent(ch, k) = Spent(other, k)
               /\ Revealed(ch, k) = Revealed(other, k)
    <2>1. \A i \in 1..k : ch[i] = other[i]
      OBVIOUS
    <2>2. Upto(ch, k) = Upto(other, k)
      BY <2>1, UptoSame
    <2>3. QED BY <2>2 DEF Made, Spent, Revealed
  <1>2. ASSUME NEW i \in 1..n PROVE BodyFits(ch, i) <=> BodyFits(other, i)
    <2>1. i - 1 \in 0..n /\ ch[i] = other[i]
      OBVIOUS
    <2>2. QED BY <1>1, <2>1 DEF BodyFits
  <1>3. QED BY <1>1, <1>2

\* What one more body makes, spends and reveals.
LEMMA ChainNext ==
    ASSUME NEW ch, NEW n \in Nat
    PROVE  /\ Made(ch, n + 1) = Made(ch, n) \cup All(Outputs, ch[n + 1])
           /\ Spent(ch, n + 1) = Spent(ch, n) \cup All(Inputs, ch[n + 1])
           /\ Revealed(ch, n + 1) = Revealed(ch, n) \cup All(NullifiersOf, ch[n + 1])
  <1>1. Upto(ch, n + 1) = Upto(ch, n) \cup ch[n + 1]
    BY UptoNext
  <1>2. \A of : All(of, Upto(ch, n + 1)) = All(of, Upto(ch, n)) \cup All(of, ch[n + 1])
    BY <1>1, AllUnion
  <1>3. QED BY <1>2 DEF Made, Spent, Revealed

\* connect_prevalidated keeps the state what the chain says.
LEMMA ApplyChain ==
    ASSUME NEW d, Typed(d), ChainExact(d), NEW body, BodyValid(d, body)
    PROVE  LET e == Apply(d, body)
           IN  /\ ChainExact(e)
               /\ e.transactions = d.transactions
               /\ e.spent_utxos = d.spent_utxos
               /\ e.used_nullifiers = d.used_nullifiers
               /\ e.utxos = (d.utxos \ All(Inputs, body)) \cup All(Outputs, body)
               /\ e.nullifiers = d.nullifiers \cup All(NullifiersOf, body)
               /\ OnChain(e) = OnChain(d) \cup body
               /\ All(Outputs, body) \cap d.utxos = {}
  <1> DEFINE e == Apply(d, body)
             n == Len(d.chain)
             u == (d.utxos \ All(Inputs, body)) \cup All(Outputs, body)
             r == d.nullifiers \cup All(NullifiersOf, body)
             c == Append(d.chain, body)
  <1>1. d \in Databases /\ d.chain \in Seq(Body)
    BY DEF Typed, Databases
  <1>2. body \in Body /\ body \subseteq Tx
    BY DEF BodyValid, Body
  <1>3. /\ n \in Nat /\ Len(c) = n + 1 /\ c[n + 1] = body
        /\ \A i \in 1..n : c[i] = d.chain[i]
        /\ DOMAIN c = 1..(n + 1) /\ DOMAIN d.chain = 1..n
    BY <1>1, <1>2
  <1>4. e = [d EXCEPT !.utxos = u, !.nullifiers = r, !.chain = c]
    BY DEF Apply
  <1> HIDE DEF e, u, r, c
  <1>5. /\ e.utxos = u /\ e.nullifiers = r /\ e.chain = c
        /\ e.transactions = d.transactions
        /\ e.spent_utxos = d.spent_utxos
        /\ e.used_nullifiers = d.used_nullifiers
    BY <1>1, <1>4 DEF Databases
  <1>6. OnChain(e) = OnChain(d) \cup body
    <2>1. OnChain(e) = Upto(c, n + 1) /\ OnChain(d) = Upto(d.chain, n)
      BY <1>3, <1>5 DEF OnChain, Upto
    <2>2. Upto(c, n + 1) = Upto(c, n) \cup body
      BY <1>3, UptoNext
    <2>3. Upto(c, n) = Upto(d.chain, n)
      BY <1>3, UptoSame
    <2>4. QED BY <2>1, <2>2, <2>3
  <1>7. /\ Made(c, n) = Made(d.chain, n) /\ Spent(c, n) = Spent(d.chain, n)
        /\ Revealed(c, n) = Revealed(d.chain, n)
        /\ \A i \in 1..n : BodyFits(c, i) <=> BodyFits(d.chain, i)
    BY <1>3, ChainPrefix
  <1>8. /\ Made(c, n + 1) = Made(d.chain, n) \cup All(Outputs, body)
        /\ Spent(c, n + 1) = Spent(d.chain, n) \cup All(Inputs, body)
        /\ Revealed(c, n + 1) = Revealed(d.chain, n) \cup All(NullifiersOf, body)
    BY <1>3, <1>7, ChainNext
  <1>9. All(Inputs, body) \subseteq d.utxos
    BY InAll DEF BodyValid, Valid, Filled
  <1>10. All(NullifiersOf, body) \cap d.nullifiers = {}
    BY InAll DEF BodyValid
  <1>11. All(Outputs, body) \cap Made(d.chain, n) = {}
    <2> SUFFICES ASSUME NEW tx \in body PROVE Outputs[tx] \cap Made(d.chain, n) = {}
      BY InAll
    <2>1. tx \in Tx /\ Inputs[tx] \subseteq d.utxos /\ NullifiersOf[tx] \cap d.nullifiers = {}
      BY <1>2 DEF BodyValid, Valid, Filled
    <2>2. QED BY <2>1, FreshOutputs
  <1>12. Spent(d.chain, n) \subseteq Made(d.chain, n)
    BY <1>3, SpentMade DEF ChainExact
  <1>13. d.utxos = Made(d.chain, n) \ Spent(d.chain, n) /\ d.nullifiers = Revealed(d.chain, n)
    BY DEF ChainExact
  <1>14. BodyFits(c, n + 1)
    <2>1. (n + 1) - 1 = n
      BY <1>3
    <2>2. QED BY <2>1, <1>3, <1>7, <1>9, <1>10, <1>11, <1>13 DEF BodyFits
  <1>15. \A i \in 1..(n + 1) : BodyFits(c, i)
    <2>1. \A i \in 1..(n + 1) : i \in 1..n \/ i = n + 1
      BY <1>3
    <2>2. QED BY <2>1, <1>7, <1>14 DEF ChainExact
  <1>16. u = Made(c, n + 1) \ Spent(c, n + 1)
    BY <1>8, <1>9, <1>11, <1>12, <1>13 DEF u
  <1>17. r = Revealed(c, n + 1)
    BY <1>8, <1>13 DEF r
  <1>18. ChainExact(e)
    BY <1>3, <1>5, <1>15, <1>16, <1>17 DEF ChainExact
  <1>19. QED BY <1>5, <1>6, <1>11, <1>13, <1>18 DEF e, u, r

\* disconnect_tip takes the state back to what the shorter chain says.
LEMMA UndoChain ==
    ASSUME NEW d, Typed(d), ChainExact(d), d.chain # << >>
    PROVE  LET e == Undo(d)
               body == d.chain[Len(d.chain)]
           IN  /\ ChainExact(e)
               /\ e.transactions = d.transactions
               /\ e.utxos = (d.utxos \ All(Outputs, body)) \cup All(Inputs, body)
               /\ OnChain(d) = OnChain(e) \cup body
  <1> DEFINE e == Undo(d)
             n == Len(d.chain) - 1
             body == d.chain[Len(d.chain)]
             u == (d.utxos \ All(Outputs, body)) \cup All(Inputs, body)
             r == d.nullifiers \ All(NullifiersOf, body)
             c == SubSeq(d.chain, 1, Len(d.chain) - 1)
  <1>1. d \in Databases /\ d.chain \in Seq(Body)
    BY DEF Typed, Databases
  <1>2. /\ n \in Nat /\ Len(d.chain) = n + 1 /\ Len(c) = n
        /\ \A i \in 1..n : c[i] = d.chain[i]
        /\ DOMAIN d.chain = 1..(n + 1) /\ DOMAIN c = 1..n
    BY <1>1
  <1>3. e = [d EXCEPT !.utxos = u, !.nullifiers = r, !.chain = c]
    BY DEF Undo
  <1>4. body = d.chain[n + 1]
    BY <1>2
  <1> HIDE DEF e, u, r, c, n, body
  <1>5. /\ e.utxos = u /\ e.nullifiers = r /\ e.chain = c
        /\ e.transactions = d.transactions
    BY <1>1, <1>3 DEF Databases
  <1>6. OnChain(d) = OnChain(e) \cup body
    <2>1. OnChain(d) = Upto(d.chain, n + 1) /\ OnChain(e) = Upto(c, n)
      BY <1>2, <1>5 DEF OnChain, Upto
    <2>2. Upto(d.chain, n + 1) = Upto(d.chain, n) \cup body
      BY <1>2, <1>4, UptoNext
    <2>3. Upto(c, n) = Upto(d.chain, n)
      BY <1>2, UptoSame
    <2>4. QED BY <2>1, <2>2, <2>3
  <1>7. /\ Made(c, n) = Made(d.chain, n) /\ Spent(c, n) = Spent(d.chain, n)
        /\ Revealed(c, n) = Revealed(d.chain, n)
        /\ \A i \in 1..n : BodyFits(c, i) <=> BodyFits(d.chain, i)
    BY <1>2, ChainPrefix
  <1>8. /\ Made(d.chain, n + 1) = Made(c, n) \cup All(Outputs, body)
        /\ Spent(d.chain, n + 1) = Spent(c, n) \cup All(Inputs, body)
        /\ Revealed(d.chain, n + 1) = Revealed(c, n) \cup All(NullifiersOf, body)
    <2>1. n \in Nat
      BY <1>2
    <2>2. /\ Made(d.chain, n + 1) = Made(d.chain, n) \cup All(Outputs, d.chain[n + 1])
          /\ Spent(d.chain, n + 1) = Spent(d.chain, n) \cup All(Inputs, d.chain[n + 1])
          /\ Revealed(d.chain, n + 1)
                = Revealed(d.chain, n) \cup All(NullifiersOf, d.chain[n + 1])
      BY <2>1, ChainNext, Zenon
    <2>3. QED BY <1>4, <1>7, <2>2, Zenon
  <1>9. \A i \in 1..(n + 1) : BodyFits(d.chain, i)
    BY <1>2 DEF ChainExact
  <1>10. /\ All(Inputs, body) \subseteq Made(c, n) \ Spent(c, n)
         /\ All(Outputs, body) \cap Made(c, n) = {}
         /\ All(NullifiersOf, body) \cap Revealed(c, n) = {}
    <2>1. BodyFits(d.chain, n + 1) /\ (n + 1) - 1 = n
      BY <1>2, <1>9
    <2>2. QED BY <2>1, <1>4, <1>7 DEF BodyFits
  <1>11. /\ d.utxos = Made(d.chain, n + 1) \ Spent(d.chain, n + 1)
         /\ d.nullifiers = Revealed(d.chain, n + 1)
    BY <1>2 DEF ChainExact
  <1>12. u = Made(c, n) \ Spent(c, n)
    BY <1>8, <1>10, <1>11 DEF u
  <1>13. r = Revealed(c, n)
    BY <1>8, <1>10, <1>11 DEF r
  <1>14. ChainExact(e)
    BY <1>2, <1>5, <1>7, <1>9, <1>12, <1>13 DEF ChainExact
  <1>15. QED BY <1>5, <1>6, <1>14 DEF e, u, body

-----------------------------------------------------------------------------
\* MemPool::delete leaves the state and the chain alone, and deletes what it
\* reaches.
LEMMA DeleteIs ==
    ASSUME NEW d \in Databases, NEW txs
    PROVE  LET e == Delete(d, txs)
           IN  /\ e.utxos = d.utxos /\ e.nullifiers = d.nullifiers
               /\ e.chain = d.chain
               /\ e.transactions = d.transactions \ Reached(d, txs)
  <1> DEFINE e == Delete(d, txs)
             t == d.transactions \ Reached(d, txs)
             s == {x \in d.spent_utxos : x[1] \notin All(Inputs, Reached(d, txs))}
             r == {x \in d.used_nullifiers : x[1] \notin All(NullifiersOf, Reached(d, txs))}
  <1>1. e = [d EXCEPT !.transactions = t, !.spent_utxos = s, !.used_nullifiers = r]
    BY DEF Delete
  <1> HIDE DEF e, t, s, r
  <1>2. /\ e.utxos = d.utxos /\ e.nullifiers = d.nullifiers
        /\ e.chain = d.chain /\ e.transactions = t
    BY <1>1 DEF Databases
  <1>3. QED BY <1>2 DEF e, t

\* What it reaches has what is asked for, and is no more than any closed set
\* that has it.
LEMMA ReachedWithin ==
    ASSUME NEW d, NEW txs
    PROVE  /\ txs \cap d.transactions \subseteq Reached(d, txs)
           /\ \A some \in SUBSET d.transactions :
                 txs \cap d.transactions \subseteq some /\ Closed(d, some)
                     => Reached(d, txs) \subseteq some
  BY DEF Reached

\* The pooled transactions that MemPool::connect_block asks to delete.
Removed(d, body) ==
    {tx \in d.transactions :
        tx \in body \/ NullifiersOf[tx] \cap All(NullifiersOf, body) # {}}

\* No pooled transaction spends what a transaction creates that the block has,
\* or that the block's nullifiers exclude: it is not on the chain.
LEMMA RemovedClosed ==
    ASSUME NEW d, Typed(d), Exact(d), Unspent(d), ChainExact(d),
           NEW body, BodyValid(d, body), NEW e,
           e.spent_utxos = d.spent_utxos
    PROVE  Closed(e, Removed(d, body))
  <1> DEFINE n == Len(d.chain)
  <1>1. d \in Databases /\ d.transactions \subseteq Tx
    BY DEF Typed, Databases
  <1>2. body \subseteq Tx
    BY DEF BodyValid, Body
  <1>3. ASSUME NEW t \in Removed(d, body), NEW o \in Outputs[t], NEW spender,
               <<o, spender>> \in d.spent_utxos
        PROVE  FALSE
    <2>1. t \in Tx /\ t \in d.transactions
      BY <1>1 DEF Removed
    <2>2. spender \in d.transactions /\ o \in Inputs[spender]
      BY <1>3, IndexEntries DEF Exact
    <2>3. o \in d.utxos
      BY <2>2, InAll DEF Unspent
    <2>4. o \in Made(d.chain, n)
      BY <2>3 DEF ChainExact
    <2>5. Inputs[t] \subseteq d.utxos
      BY <2>1, InAll DEF Unspent
    <2>6. CASE t \in body
      <3>1. NullifiersOf[t] \cap d.nullifiers = {}
        BY <2>6 DEF BodyValid
      <3>2. QED BY <1>3, <2>1, <2>4, <2>5, <3>1, FreshOutputs
    <2>7. CASE NullifiersOf[t] \cap All(NullifiersOf, body) # {}
      <3>1. All(NullifiersOf, body) \cap d.nullifiers = {}
        BY InAll DEF BodyValid
      <3>2. o \notin GenesisUtxos
        BY <2>1, <1>3, OutPointAssumption
      <3>3. PICK other \in Upto(d.chain, n) : o \in Outputs[other]
        BY <2>4, <3>2, InAll DEF Made
      <3>4. other = t
        BY <2>1, <1>3, <3>3, OnChainUpto, OutPointAssumption
      <3>5. NullifiersOf[t] \subseteq d.nullifiers
        BY <3>3, <3>4, InAll DEF ChainExact, Revealed
      <3>6. QED BY <2>7, <3>1, <3>5
    <2>8. QED BY <2>6, <2>7 DEF Removed
  <1>4. ASSUME NEW x \in d.spent_utxos, x[1] \in All(Outputs, Removed(d, body))
        PROVE  FALSE
    <2>1. PICK t \in Removed(d, body) : x[1] \in Outputs[t]
      BY <1>4, InAll
    <2>2. x = <<x[1], x[2]>>
      BY <1>4, IndexEntries DEF Exact
    <2>3. QED BY <1>3, <1>4, <2>1, <2>2
  <1>5. QED BY <1>4 DEF Closed, Lookup

\* MemPool::connect_block deletes what it asks to delete and nothing else.
LEMMA ConnectDeletes ==
    ASSUME NEW d, Sound(d), ChainExact(d), NEW body, BodyValid(d, body),
           Len(d.chain) < MaxHeight
    PROVE  LET e == DeleteConflicts(Apply(d, body), body)
           IN  /\ ChainExact(e)
               /\ e.transactions = d.transactions \ Removed(d, body)
               /\ e.utxos = (d.utxos \ All(Inputs, body)) \cup All(Outputs, body)
               /\ e.nullifiers = d.nullifiers \cup All(NullifiersOf, body)
               /\ OnChain(e) = OnChain(d) \cup body
  <1> DEFINE a == Apply(d, body)
             txs == body \cup Lookup(a.used_nullifiers, All(NullifiersOf, body))
             e == Delete(a, txs)
  <1>1. /\ Typed(d) /\ Exact(d) /\ Unspent(d) /\ BodiesConsistent(d)
    BY DEF Sound
  <1>2. /\ ChainExact(a)
        /\ a.transactions = d.transactions
        /\ a.spent_utxos = d.spent_utxos
        /\ a.used_nullifiers = d.used_nullifiers
        /\ a.utxos = (d.utxos \ All(Inputs, body)) \cup All(Outputs, body)
        /\ a.nullifiers = d.nullifiers \cup All(NullifiersOf, body)
        /\ OnChain(a) = OnChain(d) \cup body
    BY <1>1, ApplyChain
  <1>3. a \in Databases
    BY <1>1, ApplySound DEF Typed
  <1> HIDE DEF a
  <1>4. Closed(a, Removed(d, body))
    BY <1>1, <1>2, RemovedClosed
  <1>5. txs \cap d.transactions = Removed(d, body)
    <2>1. ASSUME NEW tx \in d.transactions
          PROVE  tx \in Lookup(d.used_nullifiers, All(NullifiersOf, body))
                     <=> NullifiersOf[tx] \cap All(NullifiersOf, body) # {}
      <3>1. ASSUME tx \in Lookup(d.used_nullifiers, All(NullifiersOf, body))
            PROVE  NullifiersOf[tx] \cap All(NullifiersOf, body) # {}
        <4>1. PICK x \in d.used_nullifiers : x[1] \in All(NullifiersOf, body) /\ tx = x[2]
          BY <3>1 DEF Lookup
        <4>2. x[1] \in NullifiersOf[tx]
          BY <1>1, <4>1, IndexEntries DEF Exact
        <4>3. QED BY <4>1, <4>2
      <3>2. ASSUME NEW m \in NullifiersOf[tx], m \in All(NullifiersOf, body)
            PROVE  tx \in Lookup(d.used_nullifiers, All(NullifiersOf, body))
        <4>1. <<m, tx>> \in d.used_nullifiers
          BY <1>1, <3>2, IndexEntries DEF Exact
        <4>2. QED BY <4>1, <3>2 DEF Lookup
      <3>3. QED BY <3>1, <3>2
    <2>2. QED BY <2>1, <1>2 DEF Removed
  <1>6. Removed(d, body) \in SUBSET d.transactions
    BY DEF Removed
  <1> HIDE DEF txs
  <1>7. Reached(a, txs) = Removed(d, body)
    BY <1>2, <1>4, <1>5, <1>6, ReachedWithin
  <1>8. /\ e.utxos = a.utxos /\ e.nullifiers = a.nullifiers
        /\ e.chain = a.chain
        /\ e.transactions = a.transactions \ Reached(a, txs)
    BY <1>3, DeleteIs
  <1>9. DeleteConflicts(Apply(d, body), body) = e
    BY DEF DeleteConflicts, a, txs
  <1> HIDE DEF e
  <1>10. ChainExact(e) /\ OnChain(e) = OnChain(a)
    BY <1>2, <1>8 DEF ChainExact, OnChain
  <1>11. QED BY <1>2, <1>7, <1>8, <1>9, <1>10

-----------------------------------------------------------------------------
\* A write to the pool alone.
LEMMA PoolWrite ==
    ASSUME KInv, phase = "idle", phase' = "idle", NEW d, Write(d),
           d.utxos = db.utxos, d.nullifiers = db.nullifiers, d.chain = db.chain
    PROVE  KInv'
  <1>1. ChainExact(db) /\ db' = d /\ committed' = d
    BY DEF KInv, Write
  <1>2. ChainExact(db)' /\ ChainExact(committed)'
    BY <1>1 DEF ChainExact
  <1>3. QED BY <1>1, <1>2 DEF KInv

\* An error returns to what is committed.
LEMMA EndChain ==
    ASSUME KInv, NEW outcome, End(outcome)
    PROVE  KInv'
  <1>1. ChainExact(committed) /\ db' = committed /\ committed' = committed /\ phase' = "idle"
    BY DEF KInv, End
  <1>2. ChainExact(db)' /\ ChainExact(committed)'
    BY <1>1 DEF ChainExact
  <1>3. QED BY <1>1, <1>2 DEF KInv

LEMMA InitChain == Init => KInv
  <1> SUFFICES ASSUME Init PROVE KInv
    OBVIOUS
  <1>1. db.chain = << >> /\ db.utxos = GenesisUtxos /\ db.nullifiers = {}
    BY DEF Init
  <1>2. Len(db.chain) = 0
    BY <1>1
  <1>3. Upto(db.chain, 0) = {}
    BY DEF Upto
  <1>4. ChainExact(db)
    BY <1>1, <1>2, <1>3 DEF ChainExact, Made, Spent, Revealed, All
  <1>5. QED BY <1>4 DEF Init, KInv

\* disconnect_tip_: nothing is lost, the body goes to the pool.
LEMMA DisconnectChain ==
    ASSUME IInv, KInv, DisconnectTip
    PROVE  KInv'
  <1> DEFINE body == db.chain[Len(db.chain)]
             undone == Put(Undo(db), body)
  <1>1. /\ Sound(db) /\ ChainExact(db) /\ db.chain # << >>
    BY DEF IInv, KInv, DisconnectTip
  <1>2. CASE /\ \A tx \in body : CanPut(db, tx)
             /\ Provable(undone, undone.transactions)
             /\ db' = undone /\ phase' = "disconnecting"
             /\ UNCHANGED <<committed, accepted, net_task>>
    <2>1. Typed(db) /\ Exact(db) /\ BodiesConsistent(db)
      BY <1>1 DEF Sound
    <2>2. /\ Typed(Undo(db)) /\ Exact(Undo(db))
          /\ body \in SUBSET Tx /\ NoConflict(body)
          /\ \A tx : CanPut(Undo(db), tx) <=> CanPut(db, tx)
      BY <1>1, <2>1, UndoSound
    <2>3. /\ ChainExact(Undo(db))
          /\ Undo(db).transactions = db.transactions
          /\ OnChain(db) = OnChain(Undo(db)) \cup body
      BY <1>1, <2>1, UndoChain
    <2> HIDE DEF body
    <2>4. /\ undone.utxos = Undo(db).utxos /\ undone.nullifiers = Undo(db).nullifiers
          /\ undone.chain = Undo(db).chain
          /\ undone.transactions = Undo(db).transactions \cup body
      BY <1>2, <2>2, PutExact DEF Typed
    <2> HIDE DEF undone
    <2>5. ChainExact(undone) /\ OnChain(undone) = OnChain(Undo(db))
      BY <2>3, <2>4 DEF ChainExact, OnChain
    <2>6. Has(db) \subseteq Has(undone)
      BY <2>3, <2>4, <2>5 DEF Has
    <2>7. Has(committed) \subseteq Has(db)
      BY DEF KInv, DisconnectTip
    <2>8. ChainExact(db)' /\ ChainExact(committed)'
      BY <1>2, <2>5 DEF KInv, ChainExact
    <2>9. Has(committed') \subseteq Has(db')
      BY <1>2, <2>6, <2>7
    <2>10. QED BY <1>2, <2>8, <2>9 DEF KInv, Has, OnChain
  <1>3. CASE End("disconnect_refused")
    BY <1>3, EndChain
  <1>4. QED BY <1>2, <1>3 DEF DisconnectTip

\* connect_tip_: what leaves the pool is in the block, or the block reveals one
\* of its nullifiers.
LEMMA ConnectChain ==
    ASSUME IInv, KInv, NEW body \in SUBSET Tx, ConnectBlock(body)
    PROVE  KInv'
  <1> DEFINE applied == DeleteConflicts(Apply(db, body), body)
  <1>1. /\ Sound(db) /\ ChainExact(db) /\ Len(db.chain) < MaxHeight
    BY DEF IInv, KInv, ConnectBlock
  <1>2. CASE /\ BodyValid(db, body)
             /\ Provable(applied, applied.transactions)
             /\ db' = applied /\ phase' = "connecting"
             /\ UNCHANGED <<committed, accepted, net_task>>
    <2>1. /\ ChainExact(applied)
          /\ applied.transactions = db.transactions \ Removed(db, body)
          /\ applied.nullifiers = db.nullifiers \cup All(NullifiersOf, body)
          /\ OnChain(applied) = OnChain(db) \cup body
      BY <1>1, <1>2, ConnectDeletes
    <2> HIDE DEF applied
    <2>2. Kept(db, applied)
      BY <2>1 DEF Kept, Has, Removed
    <2>3. Kept(committed, db)
      BY DEF KInv, IInv, Phases, Kept
    <2>4. Kept(committed, applied)
      BY <2>1, <2>2, <2>3 DEF Kept
    <2>5. ChainExact(db)' /\ ChainExact(committed)'
      BY <1>2, <2>1 DEF KInv, ChainExact
    <2>6. Kept(committed', db')
      BY <1>2, <2>4
    <2>7. QED BY <1>2, <2>5, <2>6 DEF KInv, Kept, Has, OnChain
  <1>3. CASE End("block_invalid") \/ End("connect_refused")
    BY <1>3, EndChain
  <1>4. QED BY <1>2, <1>3 DEF ConnectBlock

LEMMA NextChain == IInv /\ KInv /\ [Next]_vars => KInv'
  <1> SUFFICES ASSUME IInv, KInv, [Next]_vars PROVE KInv'
    OBVIOUS
  <1>1. db \in Databases /\ Exact(db)
    BY DEF IInv, Sound, Typed
  <1>2. ASSUME NEW tx \in Tx, CanPut(db, tx)
        PROVE  /\ Put(db, {tx}).utxos = db.utxos /\ Put(db, {tx}).nullifiers = db.nullifiers
               /\ Put(db, {tx}).chain = db.chain
    <2>1. NoConflict({tx}) /\ {tx} \in SUBSET Tx /\ \A t \in {tx} : CanPut(db, t)
      BY <1>2 DEF NoConflict
    <2>2. QED BY <1>1, <2>1, PutExact
  <1>3. ASSUME NEW txs
        PROVE  /\ Delete(db, txs).utxos = db.utxos /\ Delete(db, txs).nullifiers = db.nullifiers
               /\ Delete(db, txs).chain = db.chain
    BY <1>1, DeleteIs
  <1>4. ASSUME NEW tx \in Tx, SubmitTransaction(tx) PROVE KInv'
    BY <1>2, <1>4, PoolWrite DEF SubmitTransaction
  <1>5. ASSUME NEW tx \in Tx, NewTransaction(tx) PROVE KInv'
    <2>1. CASE CanPut(db, tx) /\ Write(Put(db, {tx})) /\ UNCHANGED phase
      BY <1>2, <1>5, <2>1, PoolWrite DEF NewTransaction
    <2>2. CASE End("transaction_refused")
      BY <2>2, EndChain
    <2>3. QED BY <1>5, <2>1, <2>2 DEF NewTransaction
  <1>6. ASSUME NEW tx \in Tx, RemoveFromMempool(tx) PROVE KInv'
    BY <1>3, <1>6, PoolWrite DEF RemoveFromMempool
  <1>7. CASE GetTransactions
    <2>1. PICK gone : Write(Delete(db, gone))
      BY <1>7 DEF GetTransactions
    <2>2. QED BY <1>3, <1>7, <2>1, PoolWrite DEF GetTransactions
  <1>8. CASE Commit
    <2>1. ChainExact(db) /\ db' = db /\ committed' = db /\ phase' = "idle"
      BY <1>8 DEF Commit, KInv
    <2>2. ChainExact(db)' /\ ChainExact(committed)'
      BY <2>1 DEF ChainExact
    <2>3. QED BY <2>1, <2>2 DEF KInv
  <1>9. CASE UNCHANGED <<db, committed, phase>>
    BY <1>9 DEF KInv, ChainExact, Has, OnChain, Kept
  <1>10. QED
    BY <1>4, <1>5, <1>6, <1>7, <1>8, <1>9, DisconnectChain, ConnectChain
    DEF Next, AcceptTransaction, Restart, vars

\* The state is what the chain says of it, and a write transaction that has not
\* been committed has lost no transaction.
THEOREM ChainAlways == Spec => [](IInv /\ KInv)
  <1>1. Init => IInv /\ KInv
    BY InitSound, InitChain
  <1>2. IInv /\ KInv /\ [Next]_vars => (IInv /\ KInv)'
    BY NextSound, NextChain
  <1>3. QED BY <1>1, <1>2, PTL DEF Spec

\* A reorg loses no transaction but those that the new chain excludes
\* (disconnect_tip_, connect_block).
THEOREM ReorgLosesNothing == Spec => ReorgKeepsTransactions
  <1> DEFINE A == Commit =>
                      \A tx \in committed.transactions \cup OnChain(committed) :
                          \/ tx \in committed'.transactions \cup OnChain(committed')
                          \/ NullifiersOf[tx] \cap committed'.nullifiers # {}
  <1>1. KInv => [A]_vars
    <2> SUFFICES ASSUME KInv, Commit PROVE A
      OBVIOUS
    <2>1. Kept(committed, db) /\ committed' = db
      BY DEF KInv, Commit
    <2>2. QED BY <2>1 DEF Kept, Has
  <1> HIDE DEF A
  <1>2. Spec => [][A]_vars
    BY <1>1, ChainAlways, PTL
  <1>3. QED BY <1>2 DEF ReorgKeepsTransactions, A

\* What makes connect_tip_ fail on a valid block.
LEMMA ConnectRefused ==
    ASSUME IInv, KInv, NEW body \in SUBSET Tx, ConnectBlock(body),
           net_task' = "connect_refused"
    PROVE  All(Inputs, db.transactions \ body) \cap All(Inputs, body) # {}
  <1> DEFINE applied == DeleteConflicts(Apply(db, body), body)
  <1>1. /\ Sound(db) /\ ChainExact(db) /\ Len(db.chain) < MaxHeight
        /\ net_task = "running"
    BY DEF IInv, KInv, ConnectBlock
  <1>2. BodyValid(db, body) /\ ~Provable(applied, applied.transactions)
    BY <1>1 DEF ConnectBlock, End
  <1>3. /\ applied.transactions = db.transactions \ Removed(db, body)
        /\ applied.utxos = (db.utxos \ All(Inputs, body)) \cup All(Outputs, body)
    BY <1>1, <1>2, ConnectDeletes
  <1> HIDE DEF applied
  <1>4. PICK o \in All(Inputs, applied.transactions) : o \notin applied.utxos
    BY <1>2 DEF Provable
  <1>5. PICK tx \in db.transactions \ Removed(db, body) : o \in Inputs[tx]
    BY <1>3, <1>4, InAll
  <1>6. o \in db.utxos
    BY <1>1, <1>5, InAll DEF Sound, Unspent
  <1>7. tx \in db.transactions \ body
    BY <1>5 DEF Removed
  <1>8. o \in All(Inputs, db.transactions \ body)
    BY <1>5, <1>7, InAll
  <1>9. QED BY <1>3, <1>4, <1>6, <1>8

\* What makes disconnect_tip_ fail.
LEMMA DisconnectRefused ==
    ASSUME IInv, KInv, DisconnectTip, net_task' = "disconnect_refused"
    PROVE  LET body == db.chain[Len(db.chain)]
           IN  \/ All(Inputs, db.transactions) \cap All(Outputs, body) # {}
               \/ All(NullifiersOf, db.transactions) \cap All(NullifiersOf, body) # {}
  <1> DEFINE body == db.chain[Len(db.chain)]
             undone == Put(Undo(db), body)
  <1>1. /\ Sound(db) /\ ChainExact(db) /\ db.chain # << >> /\ net_task = "running"
    BY DEF IInv, KInv, DisconnectTip
  <1>2. ~ (/\ \A tx \in body : CanPut(db, tx)
           /\ Provable(undone, undone.transactions))
    BY <1>1 DEF DisconnectTip, End
  <1>3. Typed(db) /\ Exact(db) /\ BodiesConsistent(db) /\ Unspent(db)
    BY <1>1 DEF Sound
  <1>4. /\ Typed(Undo(db)) /\ Exact(Undo(db))
        /\ body \in SUBSET Tx /\ NoConflict(body)
        /\ \A tx : CanPut(Undo(db), tx) <=> CanPut(db, tx)
    BY <1>1, <1>3, UndoSound
  <1>5. /\ Undo(db).transactions = db.transactions
        /\ Undo(db).utxos = (db.utxos \ All(Outputs, body)) \cup All(Inputs, body)
        /\ OnChain(db) = OnChain(Undo(db)) \cup body
    BY <1>1, <1>3, UndoChain
  <1> HIDE DEF body
  <1>6. CASE \E tx \in body : ~CanPut(db, tx)
    <2>1. PICK tx \in body : ~CanPut(db, tx)
      BY <1>6
    <2>2. /\ Keys(db.spent_utxos) = All(Inputs, db.transactions)
          /\ Keys(db.used_nullifiers) = All(NullifiersOf, db.transactions)
      BY <1>3, IndexEntries DEF Exact
    <2>3. tx \in Upto(db.chain, Len(db.chain))
      BY <1>3, <1>5, <2>1, OnChainUpto
    <2>4. Inputs[tx] \subseteq Spent(db.chain, Len(db.chain))
      BY <2>3, InAll DEF Spent
    <2>5. Inputs[tx] \cap Keys(db.spent_utxos) = {}
      BY <1>1, <1>3, <2>2, <2>4 DEF ChainExact, Unspent
    <2>6. NullifiersOf[tx] \cap All(NullifiersOf, db.transactions) # {}
      BY <2>1, <2>2, <2>5 DEF CanPut, Conflicts
    <2>7. NullifiersOf[tx] \subseteq All(NullifiersOf, body)
      BY <2>1, InAll
    <2>8. All(NullifiersOf, db.transactions) \cap All(NullifiersOf, body) # {}
      BY <2>6, <2>7
    <2>9. QED BY <2>8 DEF body
  <1>7. CASE /\ \A tx \in body : CanPut(db, tx)
             /\ ~Provable(undone, undone.transactions)
    <2>1. /\ undone.utxos = Undo(db).utxos
          /\ undone.transactions = Undo(db).transactions \cup body
      BY <1>4, <1>7, PutExact DEF Typed
    <2> HIDE DEF undone
    <2>2. PICK o \in All(Inputs, undone.transactions) : o \notin undone.utxos
      BY <1>7 DEF Provable
    <2>3. o \in All(Inputs, db.transactions) \cup All(Inputs, body)
      BY <1>5, <2>1, <2>2, AllUnion
    <2>4. o \in All(Inputs, db.transactions) /\ o \in db.utxos
      BY <1>3, <1>5, <2>1, <2>2, <2>3 DEF Unspent
    <2>5. o \in All(Outputs, body)
      BY <1>5, <2>1, <2>2, <2>4
    <2>6. QED BY <2>4, <2>5 DEF body
  <1>8. QED BY <1>2, <1>6, <1>7

\* A valid block is refused because of the pool, or a block cannot be
\* disconnected, only for a conflict with a pooled transaction (connect_block,
\* disconnect_tip_).
THEOREM RefusedOnlyForConflicts == Spec => RefusedForConflicts
  <1> DEFINE A == /\ net_task' = "connect_refused" =>
                        \A body \in SUBSET Tx :
                            ConnectBlock(body)
                                => All(Inputs, db.transactions \ body) \cap All(Inputs, body) # {}
                  /\ net_task' = "disconnect_refused" /\ DisconnectTip =>
                        LET body == db.chain[Len(db.chain)]
                        IN  \/ All(Inputs, db.transactions) \cap All(Outputs, body) # {}
                            \/ All(NullifiersOf, db.transactions) \cap All(NullifiersOf, body) # {}
  <1>1. IInv /\ KInv => [A]_vars
    BY ConnectRefused, DisconnectRefused
  <1> HIDE DEF A
  <1>2. Spec => [][A]_vars
    BY <1>1, ChainAlways, PTL
  <1>3. QED BY <1>2 DEF RefusedForConflicts, A

-----------------------------------------------------------------------------
(***************************************************************************)
(* The two ways to connect a block.  State::connect_block takes one        *)
(* transaction after the other; after the first k of them the state is     *)
(* what their changes taken together make of it, unless a nullifier was    *)
(* met twice.  After is a recursive function: that there is one is shown   *)
(* by giving it, and that it is this one by looking at the first place     *)
(* where it would differ.                                                  *)
(***************************************************************************)
First(order, k) == {order[i] : i \in 1..k}

Together(d, txs) ==
    [d EXCEPT !.utxos = (@ \ All(Inputs, txs)) \cup All(Outputs, txs),
              !.nullifiers = @ \cup All(NullifiersOf, txs)]

\* None of the first k transactions reveals what was revealed before it.
NoneAgain(d, order, k) ==
    \A i \in 1..k :
        NullifiersOf[order[i]] \cap (d.nullifiers \cup All(NullifiersOf, First(order, i - 1))) = {}

Expected(d, order, k) ==
    IF NoneAgain(d, order, k) THEN {Together(d, First(order, k))} ELSE {}

ConnectAll(dbs, tx) == UNION {ConnectTransaction(before, tx) : before \in dbs}

IsAfter(f, d, order) ==
    f = [i \in 0..Len(order) |-> IF i = 0 THEN {d} ELSE ConnectAll(f[i - 1], order[i])]

\* A set of numbers has a least one.
LEMMA NatMin ==
    ASSUME NEW T \in SUBSET Nat, T # {}
    PROVE  \E n \in T : \A m \in T : n <= m
  <1> DEFINE R == {ss \in Nat \X Nat : ss[1] < ss[2]}
  <1>1. R = OpToRel(<, Nat)
    BY DEF OpToRel
  <1>2. IsWellFoundedOn(R, Nat)
    BY <1>1, NatLessThanWellFounded
  <1>3. PICK n \in T : \A m \in T : ~(<<m, n>> \in R)
    <2> HIDE DEF R
    <2> QED BY <1>2, WFMin
  <1>4. ASSUME NEW m \in T PROVE n <= m
    <2>1. <<m, n>> \notin R
      BY <1>3
    <2>2. m \in Nat /\ n \in Nat
      OBVIOUS
    <2>3. QED BY <2>1, <2>2
  <1>5. QED BY <1>4

\* The changes of transactions taken together, field by field.
LEMMA TogetherIs ==
    ASSUME NEW d \in Databases, NEW txs
    PROVE  LET e == Together(d, txs)
           IN  /\ e.utxos = (d.utxos \ All(Inputs, txs)) \cup All(Outputs, txs)
               /\ e.nullifiers = d.nullifiers \cup All(NullifiersOf, txs)
               /\ e.chain = d.chain
  <1> DEFINE e == Together(d, txs)
             u == (d.utxos \ All(Inputs, txs)) \cup All(Outputs, txs)
             r == d.nullifiers \cup All(NullifiersOf, txs)
  <1>1. e = [d EXCEPT !.utxos = u, !.nullifiers = r]
    BY DEF Together
  <1> HIDE DEF e, u, r
  <1>2. e.utxos = u /\ e.nullifiers = r /\ e.chain = d.chain
    BY <1>1 DEF Databases
  <1>3. QED BY <1>2 DEF e, u, r

Changed(d, utxos, nullifiers) == [d EXCEPT !.utxos = utxos, !.nullifiers = nullifiers]

\* Two changes to the same fields.
LEMMA TogetherThen ==
    ASSUME NEW d \in Databases, NEW txs, NEW more, NEW u, NEW r,
           u = (d.utxos \ All(Inputs, more)) \cup All(Outputs, more),
           r = d.nullifiers \cup All(NullifiersOf, more)
    PROVE  Changed(Together(d, txs), u, r) = Together(d, more)
  <1> DEFINE v == (d.utxos \ All(Inputs, txs)) \cup All(Outputs, txs)
             s == d.nullifiers \cup All(NullifiersOf, txs)
             a == [d EXCEPT !.utxos = v, !.nullifiers = s]
             b == [d EXCEPT !.utxos = u, !.nullifiers = r]
  <1>1. Together(d, txs) = a
    BY DEF Together
  <1>2. Together(d, more) = b
    BY DEF Together
  <1> HIDE DEF v, s
  <1>3. [a EXCEPT !.utxos = u, !.nullifiers = r] = b
    BY DEF Databases
  <1>4. QED BY <1>1, <1>2, <1>3 DEF Changed

\* One transaction more.
LEMMA FirstNext ==
    ASSUME NEW order, NEW k \in Nat
    PROVE  First(order, k + 1) = First(order, k) \cup {order[k + 1]}
  <1>1. 1..(k + 1) = (1..k) \cup {k + 1}
    OBVIOUS
  <1>2. QED BY <1>1 DEF First

LEMMA ExpectedNext ==
    ASSUME NEW d, Typed(d), ChainExact(d), NEW n \in Nat, NEW order,
           \A i \in 1..n : order[i] \in Tx /\ Inputs[order[i]] \subseteq d.utxos,
           \A i, j \in 1..n : i # j => Inputs[order[i]] \cap Inputs[order[j]] = {},
           NEW k \in Nat, k < n
    PROVE  ConnectAll(Expected(d, order, k), order[k + 1]) = Expected(d, order, k + 1)
  <1> DEFINE t == order[k + 1]
             txs == First(order, k)
             e == Together(d, txs)
             more == First(order, k + 1)
  <1>1. d \in Databases
    BY DEF Typed
  <1>2. k + 1 \in 1..n /\ \A i \in 1..k : i \in 1..n /\ i # k + 1
    OBVIOUS
  <1>3. more = txs \cup {t}
    BY FirstNext
  <1>4. NoneAgain(d, order, k + 1) <=>
            /\ NoneAgain(d, order, k)
            /\ NullifiersOf[t] \cap (d.nullifiers \cup All(NullifiersOf, txs)) = {}
    <2>1. (k + 1) - 1 = k
      OBVIOUS
    <2>2. \A i \in 1..(k + 1) : i \in 1..k \/ i = k + 1
      OBVIOUS
    <2>3. \A i \in 1..k : i \in 1..(k + 1)
      OBVIOUS
    <2>4. QED BY <2>1, <2>2, <2>3, <1>2 DEF NoneAgain
  <1>5. CASE ~NoneAgain(d, order, k)
    <2>1. Expected(d, order, k) = {} /\ Expected(d, order, k + 1) = {}
      BY <1>4, <1>5 DEF Expected
    <2>2. QED BY <2>1 DEF ConnectAll
  <1>6. CASE NoneAgain(d, order, k)
    <2>1. ConnectAll(Expected(d, order, k), t) = ConnectTransaction(e, t)
      BY <1>6 DEF Expected, ConnectAll
    <2>2. /\ e.utxos = (d.utxos \ All(Inputs, txs)) \cup All(Outputs, txs)
          /\ e.nullifiers = d.nullifiers \cup All(NullifiersOf, txs)
      BY <1>1, TogetherIs
    <2> HIDE DEF e, t, txs, more
    <2>3. /\ All(Inputs, more) = All(Inputs, txs) \cup Inputs[t]
          /\ All(Outputs, more) = All(Outputs, txs) \cup Outputs[t]
          /\ All(NullifiersOf, more) = All(NullifiersOf, txs) \cup NullifiersOf[t]
      BY <1>3 DEF All
    <2>4. Inputs[t] \subseteq d.utxos
      BY <1>2 DEF t
    <2>5. Inputs[t] \cap All(Inputs, txs) = {}
      <3>1. \A tx \in txs : Inputs[t] \cap Inputs[tx] = {}
        BY <1>2 DEF t, txs, First
      <3>2. QED BY <3>1, InAll
    <2>6. All(Outputs, txs) \cap d.utxos = {}
      <3>1. ASSUME NEW tx \in txs PROVE Outputs[tx] \cap d.utxos = {}
        <4>1. PICK i \in 1..k : tx = order[i]
          BY DEF txs, First
        <4>2. tx \in Tx /\ Inputs[tx] \subseteq d.utxos
          BY <1>2, <4>1
        <4>3. NullifiersOf[tx] \cap d.nullifiers = {}
          BY <1>6, <4>1 DEF NoneAgain
        <4>4. Outputs[tx] \cap Made(d.chain, Len(d.chain)) = {}
          BY <4>2, <4>3, FreshOutputs
        <4>5. QED BY <4>4 DEF ChainExact
      <3>2. QED BY <3>1, InAll
    <2>7. Filled(e, t)
      BY <2>2, <2>4, <2>5 DEF Filled
    <2> DEFINE u == (e.utxos \ Inputs[t]) \cup Outputs[t]
               r == e.nullifiers \cup NullifiersOf[t]
    <2>8. u = (d.utxos \ All(Inputs, more)) \cup All(Outputs, more)
      BY <2>2, <2>3, <2>4, <2>6
    <2>9. r = d.nullifiers \cup All(NullifiersOf, more)
      BY <2>2, <2>3
    <2>10. ConnectTransaction(e, t)
            = IF NullifiersOf[t] \cap e.nullifiers # {} THEN {}
              ELSE {Changed(e, u, r)}
      BY <2>7 DEF ConnectTransaction, Changed
    <2> HIDE DEF u, r
    <2>11. Changed(e, u, r) = Together(d, more)
      BY <1>1, <2>8, <2>9, TogetherThen DEF e
    <2>12. ConnectTransaction(e, t)
             = IF NoneAgain(d, order, k + 1) THEN {Together(d, more)} ELSE {}
      BY <1>4, <1>6, <2>2, <2>10, <2>11
    <2>13. QED BY <2>1, <2>12 DEF Expected, t, more
  <1>7. QED BY <1>5, <1>6

\* A set of transactions that is empty changes nothing.
LEMMA ExpectedFirst ==
    ASSUME NEW d \in Databases, NEW order
    PROVE  Expected(d, order, 0) = {d}
  <1>1. First(order, 0) = {} /\ NoneAgain(d, order, 0)
    BY DEF First, NoneAgain
  <1>2. \A of : All(of, {}) = {}
    BY DEF All
  <1> DEFINE u == d.utxos
             r == d.nullifiers
  <1>3. Together(d, {}) = [d EXCEPT !.utxos = u, !.nullifiers = r]
    BY <1>2 DEF Together
  <1> HIDE DEF u, r
  <1>4. [d EXCEPT !.utxos = u, !.nullifiers = r] = d
    BY DEF Databases, u, r
  <1>5. QED BY <1>1, <1>3, <1>4 DEF Expected

\* The transactions of an order spend utxos, and no two the same.
Apart(d, order, n) ==
    /\ \A i \in 1..n : order[i] \in Tx /\ Inputs[order[i]] \subseteq d.utxos
    /\ \A i, j \in 1..n : i # j => Inputs[order[i]] \cap Inputs[order[j]] = {}

\* State::connect_block, after its first k transactions.
LEMMA AfterIs ==
    ASSUME NEW d, Typed(d), ChainExact(d), NEW n \in Nat, NEW order, Len(order) = n,
           Apart(d, order, n)
    PROVE  \A k \in 0..n : After(d, order)[k] = Expected(d, order, k)
  <1>1. d \in Databases
    BY DEF Typed
  <1>2. \A k \in Nat : k < n =>
            ConnectAll(Expected(d, order, k), order[k + 1]) = Expected(d, order, k + 1)
    BY ExpectedNext DEF Apart
  <1>3. Expected(d, order, 0) = {d}
    BY <1>1, ExpectedFirst
  <1>4. \E f : IsAfter(f, d, order)
    <2> DEFINE f == [k \in 0..n |-> Expected(d, order, k)]
    <2>1. ASSUME NEW i \in 0..n
          PROVE  Expected(d, order, i)
                   = IF i = 0 THEN {d} ELSE ConnectAll(f[i - 1], order[i])
      <3>1. CASE i = 0
        BY <1>3, <3>1
      <3>2. CASE i # 0
        <4>1. i - 1 \in Nat /\ i - 1 < n /\ (i - 1) + 1 = i /\ i - 1 \in 0..n
          BY <3>2
        <4>2. f[i - 1] = Expected(d, order, i - 1)
          BY <4>1
        <4>3. ConnectAll(Expected(d, order, i - 1), order[i]) = Expected(d, order, i)
          BY <1>2, <4>1
        <4>4. QED BY <3>2, <4>2, <4>3
      <3>3. QED BY <3>1, <3>2
    <2>2. f = [i \in 0..n |-> IF i = 0 THEN {d} ELSE ConnectAll(f[i - 1], order[i])]
      BY <2>1
    <2> HIDE DEF f
    <2>3. IsAfter(f, d, order)
      BY <2>2 DEF IsAfter
    <2>4. QED BY <2>3
  <1>5. After(d, order) = CHOOSE f : IsAfter(f, d, order)
    BY DEF After, IsAfter, ConnectAll
  <1>6. IsAfter(After(d, order), d, order)
    BY <1>4, <1>5
  <1> DEFINE f == After(d, order)
  <1>7. /\ f[0] = {d}
        /\ \A i \in 1..n : f[i] = ConnectAll(f[i - 1], order[i])
    <2> HIDE DEF f
    <2>1. f = [i \in 0..n |-> IF i = 0 THEN {d} ELSE ConnectAll(f[i - 1], order[i])]
      BY <1>6 DEF IsAfter, f
    <2>2. 0 \in 0..n /\ \A i \in 1..n : i \in 0..n /\ i # 0
      OBVIOUS
    <2> DEFINE F(i) == IF i = 0 THEN {d} ELSE ConnectAll(f[i - 1], order[i])
    <2>3. \A i \in 0..n : f[i] = F(i)
      <3> HIDE DEF F
      <3>1. f = [i \in 0..n |-> F(i)]
        BY <2>1 DEF F
      <3>2. QED BY <3>1
    <2>4. QED BY <2>2, <2>3
  <1> HIDE DEF f
  <1>8. \A k \in 0..n : f[k] = Expected(d, order, k)
    <2> DEFINE Bad == {k \in 0..n : f[k] # Expected(d, order, k)}
    <2> SUFFICES ASSUME Bad # {} PROVE FALSE
      OBVIOUS
    <2>1. PICK k \in Bad : \A m \in Bad : k <= m
      <3>1. Bad \in SUBSET Nat
        OBVIOUS
      <3> HIDE DEF Bad
      <3>2. QED BY <3>1, NatMin
    <2>2. k \in 1..n /\ k - 1 \in 0..n /\ k - 1 \in Nat /\ k - 1 < n /\ (k - 1) + 1 = k
      <3>1. k # 0 /\ k \in 0..n
        BY <1>3, <1>7
      <3>2. QED BY <3>1
    <2>3. f[k - 1] = Expected(d, order, k - 1)
      BY <2>1, <2>2
    <2>4. f[k] = Expected(d, order, k)
      BY <1>2, <1>7, <2>2, <2>3
    <2>5. QED BY <2>1, <2>4
  <1>9. QED BY <1>8 DEF f

\* An order of all the transactions of a body has each of them once.
LEMMA OrderOnce ==
    ASSUME NEW body, IsFiniteSet(body), NEW order \in [1..Cardinality(body) -> body],
           {order[i] : i \in DOMAIN order} = body
    PROVE  /\ Cardinality(body) \in Nat /\ Len(order) = Cardinality(body)
           /\ DOMAIN order = 1..Cardinality(body)
           /\ \A i, j \in 1..Cardinality(body) : i # j => order[i] # order[j]
  <1> DEFINE n == Cardinality(body)
  <1>1. n \in Nat
    BY FS_CardinalityType
  <1> HIDE DEF n
  <1>2. order \in [1..n -> body]
    BY DEF n
  <1>3. Len(order) = n /\ DOMAIN order = 1..n
    <2>1. order \in Seq(body) /\ DOMAIN order = 1..n
      BY <1>1, <1>2
    <2>2. QED BY <1>1, <2>1
  <1>4. IsFiniteSet(1..n) /\ Cardinality(1..n) = n
    <2>0. 1 \in Int /\ n \in Int
      BY <1>1
    <2>1. /\ IsFiniteSet(1..n)
          /\ Cardinality(1..n) = IF 1 > n THEN 0 ELSE n - 1 + 1
      BY <2>0, FS_Interval, Zenon
    <2>2. QED BY <1>1, <2>1
  <1>5. order \in Surjection(1..n, body)
    BY <1>2, <1>3 DEF Surjection
  <1>6. order \in Injection(1..n, body)
    BY <1>4, <1>5, FS_SurjSameCardinalityImpliesInj DEF n
  <1>7. \A i, j \in 1..n : i # j => order[i] # order[j]
    BY <1>6 DEF Injection, IsInjective
  <1>8. QED BY <1>1, <1>3, <1>7 DEF n

\* A body that validate_block lets through is valid if and only if no nullifier
\* is met twice.
LEMMA NoneAgainValid ==
    ASSUME NEW d, NEW body, Validate(d, body), NEW n \in Nat, NEW order,
           First(order, n) = body,
           \A i, j \in 1..n : i # j => order[i] # order[j]
    PROVE  NoneAgain(d, order, n) <=> BodyValid(d, body)
  <1>1. \A i \in 1..n : order[i] \in body
    BY DEF First
  <1>2. ASSUME BodyValid(d, body) PROVE NoneAgain(d, order, n)
    <2> SUFFICES ASSUME NEW i \in 1..n
                 PROVE  NullifiersOf[order[i]] \cap
                            (d.nullifiers \cup All(NullifiersOf, First(order, i - 1))) = {}
      BY DEF NoneAgain
    <2>1. NullifiersOf[order[i]] \cap d.nullifiers = {}
      BY <1>1, <1>2 DEF BodyValid
    <2>2. \A tx \in First(order, i - 1) : NullifiersOf[order[i]] \cap NullifiersOf[tx] = {}
      <3> SUFFICES ASSUME NEW j \in 1..(i - 1)
                   PROVE  NullifiersOf[order[i]] \cap NullifiersOf[order[j]] = {}
        BY DEF First
      <3>1. j \in 1..n /\ i # j
        OBVIOUS
      <3>2. order[i] # order[j] /\ order[i] \in body /\ order[j] \in body
        BY <1>1, <3>1
      <3>3. QED BY <1>2, <3>2 DEF BodyValid
    <2>3. QED BY <2>1, <2>2, InAll
  <1>3. ASSUME NoneAgain(d, order, n) PROVE BodyValid(d, body)
    <2>1. \A tx \in body : NullifiersOf[tx] \cap d.nullifiers = {}
      BY <1>3 DEF NoneAgain, First
    <2>2. ASSUME NEW i \in 1..n, NEW j \in 1..n, j < i
          PROVE  NullifiersOf[order[i]] \cap NullifiersOf[order[j]] = {}
      <3>1. j \in 1..(i - 1)
        BY <2>2
      <3>2. order[j] \in First(order, i - 1)
        BY <3>1 DEF First
      <3>3. NullifiersOf[order[i]] \cap All(NullifiersOf, First(order, i - 1)) = {}
        BY <1>3 DEF NoneAgain
      <3>4. QED BY <3>2, <3>3, InAll
    <2>3. ASSUME NEW tx \in body, NEW other \in body, tx # other
          PROVE  NullifiersOf[tx] \cap NullifiersOf[other] = {}
      <3>1. PICK i \in 1..n : tx = order[i]
        BY DEF First
      <3>2. PICK j \in 1..n : other = order[j]
        BY DEF First
      <3>3. i < j \/ j < i
        BY <2>3, <3>1, <3>2
      <3>4. QED BY <2>2, <3>1, <3>2, <3>3
    <2>4. QED BY <2>1, <2>3 DEF Validate, BodyValid
  <1>4. QED BY <1>2, <1>3

\* All changes and the body make what connect_prevalidated makes.
LEMMA TogetherApply ==
    ASSUME NEW d \in Databases, NEW body
    PROVE  [Together(d, body) EXCEPT !.chain = Append(@, body)] = Apply(d, body)
  <1> DEFINE u == (d.utxos \ All(Inputs, body)) \cup All(Outputs, body)
             r == d.nullifiers \cup All(NullifiersOf, body)
             c == Append(d.chain, body)
             a == [d EXCEPT !.utxos = u, !.nullifiers = r]
  <1>1. Together(d, body) = a
    BY DEF Together
  <1>2. Apply(d, body) = [d EXCEPT !.utxos = u, !.nullifiers = r, !.chain = c]
    BY DEF Apply
  <1>3. a.chain = d.chain
    <2> HIDE DEF u, r
    <2>1. QED BY DEF Databases
  <1>4. [Together(d, body) EXCEPT !.chain = Append(@, body)] = [a EXCEPT !.chain = c]
    BY <1>1, <1>3
  <1>5. [a EXCEPT !.chain = c] = [d EXCEPT !.utxos = u, !.nullifiers = r, !.chain = c]
    <2> HIDE DEF u, r, c
    <2>1. QED BY DEF Databases
  <1>6. QED BY <1>2, <1>4, <1>5

\* One body, one order of it.
LEMMA ConnectIs ==
    ASSUME NEW d, Typed(d), ChainExact(d), NEW body, Validate(d, body),
           NEW order \in [1..Cardinality(body) -> body],
           {order[i] : i \in DOMAIN order} = body
    PROVE  Connect(d, order) = IF BodyValid(d, body) THEN {Apply(d, body)} ELSE {}
  <1> DEFINE n == Cardinality(body)
  <1>1. d \in Databases /\ IsFiniteSet(body) /\ body \subseteq Tx
    BY DEF Typed, Validate, Body
  <1>2. /\ n \in Nat /\ Len(order) = n /\ DOMAIN order = 1..n
        /\ \A i, j \in 1..n : i # j => order[i] # order[j]
    BY <1>1, OrderOnce
  <1>3. \A i \in 1..n : order[i] \in body
    OBVIOUS
  <1> HIDE DEF n
  <1>4. First(order, n) = body
    BY <1>2 DEF First
  <1>5. \A i \in 1..n : order[i] \in Tx /\ Inputs[order[i]] \subseteq d.utxos
    BY <1>1, <1>3 DEF Validate, Valid, Filled
  <1>6. \A i, j \in 1..n : i # j => Inputs[order[i]] \cap Inputs[order[j]] = {}
    BY <1>2, <1>3 DEF Validate
  <1>7. After(d, order)[n] = Expected(d, order, n)
    <2>1. \A k \in 0..n : After(d, order)[k] = Expected(d, order, k)
      <3>1. n \in Nat /\ Len(order) = n
        BY <1>2
      <3>2. Apart(d, order, n)
        BY <1>5, <1>6 DEF Apart
      <3>3. QED BY <3>1, <3>2, AfterIs, Zenon
    <2>2. QED BY <1>2, <2>1
  <1>8. NoneAgain(d, order, n) <=> BodyValid(d, body)
    BY <1>2, <1>4, NoneAgainValid
  <1>9. After(d, order)[Len(order)] = IF BodyValid(d, body) THEN {Together(d, body)} ELSE {}
    BY <1>2, <1>4, <1>7, <1>8 DEF Expected
  <1>10. CASE BodyValid(d, body)
    <2>1. Connect(d, order) = {[Together(d, body) EXCEPT !.chain = Append(@, body)]}
      BY <1>9, <1>10 DEF Connect
    <2>2. QED BY <1>1, <1>10, <2>1, TogetherApply
  <1>11. CASE ~BodyValid(d, body)
    <2>1. After(d, order)[Len(order)] = {}
      BY <1>9, <1>11
    <2>2. QED BY <1>11, <2>1 DEF Connect
  <1>12. QED BY <1>10, <1>11

\* What validate_block lets through, connect_block accepts if and only if
\* apply_block does, in every order of the transactions and with the same
\* result (connect_block, prevalidate and connect_prevalidated).
THEOREM ConnectWaysAgree == Spec => []ConnectAgrees
  <1>1. IInv /\ KInv => ConnectAgrees
    <2> SUFFICES ASSUME IInv, KInv,
                        NEW body \in SUBSET Tx, Validate(db, body),
                        NEW order \in [1..Cardinality(body) -> body],
                        {order[i] : i \in DOMAIN order} = body
                 PROVE  Connect(db, order)
                          = IF BodyValid(db, body) THEN {Apply(db, body)} ELSE {}
      BY DEF ConnectAgrees
    <2>1. Typed(db) /\ ChainExact(db)
      BY DEF IInv, KInv, Sound
    <2>2. QED BY <2>1, ConnectIs
  <1>2. QED BY <1>1, ChainAlways, PTL

=============================================================================
