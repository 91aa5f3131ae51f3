------------------------------- MODULE Miner -------------------------------
(***************************************************************************)
(* Mining a block (App::mine in app/app.rs, and lib/miner.rs): several     *)
(* calls of mine at a time choose a parent, ask the mainchain to commit to *)
(* their block (blind merged mining) and wait for the next mainchain       *)
(* block, while the mainchain grows and reorganizes and the node changes   *)
(* its tip.                                                                *)
(*                                                                         *)
(* Blocks of both chains are numbered as they are made; 0 is the mainchain *)
(* block before all, and None for a sidechain block.  What a block has in  *)
(* its body is left out, as are bribes and fees.  Every await of a call is *)
(* the end of a step.                                                      *)
(***************************************************************************)
EXTENDS Naturals, FiniteSetsExt, SequencesExt

CONSTANTS
    Call,                        \* calls of mine
    MaxMain, MaxSide, MaxReorgs  \* bounds: blocks of the two chains, reorgs

ASSUME BoundAssumption == MaxMain \in Nat /\ MaxSide \in Nat /\ MaxReorgs \in Nat

VARIABLES
    main,       \* the mainchain blocks: parent, and bmm_commitment
    best,       \* the mainchain's tip
    reorgs,     \* how often it was replaced
    side,       \* the sidechain blocks: prev_side_hash and prev_main_hash
    published,  \* those whose bodies are with nodes
    node,       \* the node: its tip, and the mainchain blocks in its archive
    lock,       \* the calls that hold the lock of the miner: at most one
    block,      \* Miner::block
    call        \* the calls

vars == <<main, best, reorgs, side, published, node, lock, block, call>>

-----------------------------------------------------------------------------
\* A mainchain block and those before it, 0 included.
MainAncestors(m) ==
    LET up[a \in 0..Len(main)] == IF a = 0 THEN {0} ELSE {a} \cup up[main[a].parent]
    IN  up[m]

\* A sidechain block and its ancestors.
Ancestors(b) ==
    LET up[a \in 0..Len(side)] == IF a = 0 THEN {} ELSE {a} \cup up[side[a].prev_side_hash]
    IN  up[b]

\* The sidechain blocks to which a mainchain block and its ancestors commit,
\* each after its parent: those whose BMM is verified there.
VerifiedAt(m) ==
    LET at[a \in 0..Len(main)] ==
            IF a = 0 THEN {}
            ELSE LET before == at[main[a].parent]
                     b == main[a].bmm_commitment
                 IN  IF b # 0 /\ side[b].prev_side_hash \in before \cup {0}
                     THEN before \cup {b} ELSE before
    IN  at[m]

\* last_common_main_ancestor: numbers grow along a chain.
LastCommonMainAncestor(m, n) == Max(MainAncestors(m) \cap MainAncestors(n))

Idle == [pc |-> "idle", prev_main_hash |-> 0, tip_hash |-> 0, prev_side_hash |-> 0,
         asked |-> 0, event |-> 0, confirmed |-> 0]

\* Miner::new, and a node with no block
Init ==
    /\ main = << >> /\ best = 0 /\ reorgs = 0
    /\ side = << >> /\ published = {}
    /\ node = [tip |-> 0, main |-> {0}]
    /\ lock = {} /\ block = 0
    /\ call = [c \in Call |-> Idle]

-----------------------------------------------------------------------------
\* The mainchain connects a block after any other; if not after its tip, that
\* is a reorg.  The block has no commitment, or one to a requested block, which
\* must be for this parent, or to a new block of someone else.  The calls that
\* wait get the block as an event.
Connected(parent, commitment) ==
    /\ main' = Append(main, [parent |-> parent, bmm_commitment |-> commitment])
    /\ best' = Len(main')
    /\ reorgs' = reorgs + IF parent = best THEN 0 ELSE 1
    /\ call' = [c \in Call |->
                   IF call[c].pc = "confirm" /\ call[c].event = 0
                   THEN [call[c] EXCEPT !.event = Len(main')] ELSE call[c]]
    /\ UNCHANGED <<node, lock, block>>

MainBlock(parent) ==
    /\ Len(main) < MaxMain
    /\ parent # best => reorgs < MaxReorgs
    /\ \/ Connected(parent, 0) /\ UNCHANGED <<side, published>>
       \/ \E b \in DOMAIN side \ published :
             /\ side[b].prev_main_hash = parent
             /\ Connected(parent, b) /\ UNCHANGED <<side, published>>
       \/ \E prev \in (VerifiedAt(parent) \cap published) \cup {0} :
             /\ Len(side) < MaxSide
             /\ side' = Append(side, [prev_side_hash |-> prev, prev_main_hash |-> parent])
             /\ published' = published \cup {Len(side')}
             /\ Connected(parent, Len(side'))

\* better_tip, for the node's tip and a block that the mainchain up to m commits
\* to.  If that mainchain commits to both, the higher one is better.  Otherwise
\* the work on two mainchains decides, which is left open here (module Archive
\* has it).
BetterTip(b, m) ==
    LET height(t) == Cardinality(Ancestors(t))
    IN  IF b \notin VerifiedAt(m) THEN {node.tip}
        ELSE IF node.tip \in VerifiedAt(m) \cup {0} /\ height(node.tip) # height(b)
        THEN {IF height(node.tip) < height(b) THEN b ELSE node.tip}
        ELSE {node.tip, b}

\* reorg_to_tip, for a tip from a peer, with the mainchain infos for it.
NodeTip(b, m) ==
    /\ b \in BetterTip(b, m) \ {node.tip}
    /\ node' = [tip |-> b, main |-> node.main \cup MainAncestors(m)]
    /\ UNCHANGED <<main, best, reorgs, side, published, lock, block, call>>

-----------------------------------------------------------------------------
\* mine: get_chain_tip, with the lock of the miner.
GetChainTip(c) ==
    /\ call[c].pc = "idle"
    /\ lock = {}
    /\ call' = [call EXCEPT ![c].pc = "best_hash", ![c].prev_main_hash = best]
    /\ UNCHANGED <<main, best, reorgs, side, published, node, lock, block>>

\* Mutant: the ancestor on the last common mainchain block is taken as well.
PrevSideHashOnCommon(tip_hash, prev_main_hash) ==
    LET common == LastCommonMainAncestor(prev_main_hash, side[tip_hash].prev_main_hash)
        before == {b \in Ancestors(tip_hash) : side[b].prev_main_hash \in MainAncestors(common)}
    IN  IF tip_hash = 0 \/ common = side[tip_hash].prev_main_hash THEN tip_hash
        ELSE Max(before \cup {0})

\* mine: the parent of the block.
PrevSideHash(tip_hash, prev_main_hash) ==
    LET common == LastCommonMainAncestor(prev_main_hash, side[tip_hash].prev_main_hash)
        before == {b \in Ancestors(tip_hash) :
                      /\ side[b].prev_main_hash # common
                      /\ side[b].prev_main_hash \in MainAncestors(common)}
    IN  IF tip_hash = 0 \/ common = side[tip_hash].prev_main_hash THEN tip_hash
        ELSE Max(before \cup {0})

\* mine: the block is made on the parent; what follows waits for the lock.
ChooseParent(r, tip_hash) ==
    [r EXCEPT !.tip_hash = tip_hash, !.pc = "attempt",
              !.prev_side_hash = PrevSideHash(tip_hash, r.prev_main_hash)]

\* mine: the tip of the node, and whether the mainchain block is archived.
TryGetBestHash(c) ==
    /\ call[c].pc = "best_hash"
    /\ call' = [call EXCEPT
                   ![c] = IF node.tip = 0 \/ @.prev_main_hash \in node.main
                          THEN ChooseParent(@, node.tip)
                          ELSE [@ EXCEPT !.tip_hash = node.tip, !.pc = "infos"]]
    /\ UNCHANGED <<main, best, reorgs, side, published, node, lock, block>>

\* mine: request_mainchain_ancestor_infos
RequestInfos(c) ==
    /\ call[c].pc = "infos"
    /\ node' = [node EXCEPT !.main = @ \cup MainAncestors(call[c].prev_main_hash)]
    /\ call' = [call EXCEPT ![c] = ChooseParent(@, @.tip_hash)]
    /\ UNCHANGED <<main, best, reorgs, side, published, lock, block>>

\* Mutant: the lock is dropped between attempt_bmm and confirm_bmm.
AttemptBmmUnlocked(c) ==
    /\ call[c].pc = "attempt"
    /\ lock = {}
    /\ Len(side) < MaxSide
    /\ side' = Append(side, [prev_side_hash |-> call[c].prev_side_hash,
                             prev_main_hash |-> call[c].prev_main_hash])
    /\ block' = Len(side')
    /\ call' = [call EXCEPT ![c] = [Idle EXCEPT !.asked = Len(side'), !.pc = "subscribe"]]
    /\ UNCHANGED <<main, best, reorgs, published, node, lock>>

\* attempt_bmm: the request is with the mainchain from here on.
AttemptBmm(c) ==
    /\ call[c].pc = "attempt"
    /\ lock = {}
    /\ Len(side) < MaxSide
    /\ lock' = {c}
    /\ side' = Append(side, [prev_side_hash |-> call[c].prev_side_hash,
                             prev_main_hash |-> call[c].prev_main_hash])
    /\ block' = Len(side')
    /\ call' = [call EXCEPT ![c] = [Idle EXCEPT !.asked = Len(side'), !.pc = "subscribe"]]
    /\ UNCHANGED <<main, best, reorgs, published, node>>

\* confirm_bmm: subscribe_events
SubscribeEvents(c) ==
    /\ call[c].pc = "subscribe"
    /\ call' = [call EXCEPT ![c].pc = "confirm"]
    /\ UNCHANGED <<main, best, reorgs, side, published, node, lock, block>>

\* Mutant: waits for the block that has the commitment.
ConfirmBmmWaiting(c) ==
    /\ call[c].pc = "confirm"
    /\ call[c].event # 0
    /\ call' = [call EXCEPT
                   ![c] = IF main[@.event].bmm_commitment = block
                          THEN [@ EXCEPT !.pc = "submit", !.confirmed = block]
                          ELSE [@ EXCEPT !.event = 0]]
    /\ UNCHANGED <<main, best, reorgs, side, published, node, lock, block>>

\* confirm_bmm: the first event decides, since requests expire.
ConfirmBmm(c) ==
    /\ call[c].pc = "confirm"
    /\ call[c].event # 0
    /\ LET ours == main[call[c].event].bmm_commitment = block
       IN  /\ call' = [call EXCEPT
                          ![c] = IF ours THEN [@ EXCEPT !.pc = "submit", !.confirmed = block]
                                 ELSE Idle]
           /\ lock' = IF ours THEN lock ELSE lock \ {c}
    /\ block' = 0
    /\ UNCHANGED <<main, best, reorgs, side, published, node>>

\* confirm_bmm: the stream of events ends, or begins with a DisconnectBlock.
EventsEnd(c) ==
    /\ call[c].pc = "confirm"
    /\ call[c].event = 0
    /\ block' = 0
    /\ lock' = lock \ {c}
    /\ call' = [call EXCEPT ![c] = Idle]
    /\ UNCHANGED <<main, best, reorgs, side, published, node>>

\* submit_block: a block with a verified BMM is stored, and is the tip of the node
\* if it is better.
SubmitBlock(c) ==
    LET b == call[c].confirmed
        m == call[c].event
    IN  /\ call[c].pc = "submit"
        /\ published' = IF b \in VerifiedAt(m) THEN published \cup {b} ELSE published
        /\ \E tip \in BetterTip(b, m) :
              node' = [tip |-> tip, main |-> node.main \cup MainAncestors(m)]
        /\ lock' = lock \ {c}
        /\ call' = [call EXCEPT ![c] = Idle]
        /\ UNCHANGED <<main, best, reorgs, side, block>>

\* The mainchain does not answer a request of the call, which returns with the
\* error and so drops the lock.  Miner::block stays.
Fails(c) ==
    /\ call[c].pc \in {"infos", "attempt", "subscribe", "confirm", "submit"}
    /\ call' = [call EXCEPT ![c] = Idle]
    /\ lock' = lock \ {c}
    /\ UNCHANGED <<main, best, reorgs, side, published, node, block>>

Mine(c) ==
    \/ GetChainTip(c)
    \/ TryGetBestHash(c)
    \/ RequestInfos(c)
    \/ AttemptBmm(c)
    \/ SubscribeEvents(c)
    \/ ConfirmBmm(c)
    \/ SubmitBlock(c)

Next ==
    \/ \E parent \in 0..Len(main) : MainBlock(parent)
    \/ \E b \in published, m \in 0..Len(main) : NodeTip(b, m)
    \/ \E c \in Call : Mine(c) \/ EventsEnd(c) \/ Fails(c)

\* Each call is polled when its next step is possible, and the mainchain goes on.
Spec ==
    /\ Init /\ [][Next]_vars
    /\ \A c \in Call : WF_vars(Mine(c))
    /\ WF_vars(MainBlock(best))

-----------------------------------------------------------------------------
\* Types; one call at most has the lock.
TypeOK ==
    /\ \A m \in DOMAIN main : main[m].parent \in 0..(m - 1) /\ main[m].bmm_commitment \in 0..Len(side)
    /\ best \in 0..Len(main) /\ reorgs \in 0..MaxReorgs
    /\ \A b \in DOMAIN side : side[b].prev_side_hash \in 0..(b - 1) /\ side[b].prev_main_hash \in 0..Len(main)
    /\ published \subseteq DOMAIN side
    /\ node.tip \in published \cup {0} /\ node.main \subseteq 0..Len(main)
    /\ block \in 0..Len(side)
    /\ lock \subseteq Call /\ Cardinality(lock) <= 1

\* With several calls at work, a call submits the block that it asked for
\* itself, with a mainchain block that commits to it and follows the one in
\* its header: Miner::block is never that of another call, nor one left behind
\* by a call that failed.
OwnBlockConfirmed ==
    \A c \in {c \in Call : call[c].pc = "submit"} :
        /\ call[c].confirmed = call[c].asked
        /\ main[call[c].event].bmm_commitment = call[c].asked
        /\ main[call[c].event].parent = side[call[c].asked].prev_main_hash

\* mine: "Find a tip to mine on".  However stale the two tips that were read,
\* the block is mined on an ancestor of the node's tip to which the mainchain
\* commits before it; or on the tip, if only the mainchain block that commits to
\* it is not there.  The ancestor is the newest, but for one that is asked for
\* on the block where the two mainchains part: both may commit to that one, and
\* mine takes it for a block of the tip's mainchain alone.
MinesOnVerified ==
    \A c \in {c \in Call : call[c].pc = "attempt"} :
        LET tip == call[c].tip_hash
            prev == call[c].prev_side_hash
            verified == Ancestors(tip) \cap VerifiedAt(call[c].prev_main_hash)
            common == LastCommonMainAncestor(call[c].prev_main_hash, side[tip].prev_main_hash)
        IN  \/ /\ prev \in verified \cup {0}
               /\ \A b \in verified : b > prev => side[b].prev_main_hash = common
            \/ /\ prev = tip
               /\ side[tip].prev_main_hash \in MainAncestors(call[c].prev_main_hash)
               /\ side[tip].prev_side_hash \in verified \cup {0}

\* A call that waits returns when the mainchain goes on, whatever becomes of its
\* request: "BMM requests expire after one block".  The next call gets the lock.
MineReturns ==
    \A c \in Call :
        call[c].pc = "confirm" /\ Len(main) < MaxMain ~> call[c].pc = "idle" /\ c \notin lock

\* The calls do not disturb each other: one has the lock (RwLock<Miner>), and
\* each confirms its own block.
MinerSafe == TypeOK /\ OwnBlockConfirmed

=============================================================================
