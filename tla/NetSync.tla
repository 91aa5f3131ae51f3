------------------------------ MODULE NetSync ------------------------------
(***************************************************************************)
(* How a node follows the tips of its peers and of its own miner: the      *)
(* connection tasks (lib/net/peer/task.rs), their request queues, the net  *)
(* task (lib/node/net_task.rs) with its reorganisations, the mainchain     *)
(* task (lib/node/mainchain_task.rs) and Node::submit_block, which share   *)
(* the archive and the state and talk over unbounded channels.             *)
(*                                                                         *)
(* The peers run this program too and answer from their archives; they are *)
(* followed one by one through the tips they announce, and may be lost and *)
(* connected again.  A block stands for its hash, its header, its body and *)
(* the tip that it is with its mainchain block; a peer state is the tip    *)
(* that it announces.  Which tip is better is given (module Archive).      *)
(***************************************************************************)
EXTENDS Naturals, FiniteSets, SequencesExt

CONSTANTS
    Peer, Block, NoBlock,
    Parent,              \* prev_side_hash
    Better,              \* pairs of tips of which the second is better
    Unclear,             \* pairs for which only the headers tell
    StartTip,            \* the tip that the node has at first
    MAX_BLOCK_REQUESTS,
    Scenarios            \* what the environment may do, each a record of
                         \*   announced: the tips that each peer has, in order
                         \*   connects: a bound: how often a peer is connected to
                         \*   mined: the blocks that the node's miner finds
                         \*   late: blocks whose mainchain block is not known at first
                         \*   invalid: the blocks that connect_tip_ refuses

ASSUME BlockAssumption ==
    /\ NoBlock \notin Block
    /\ Parent \in [Block -> Block \cup {NoBlock}]
    /\ StartTip \in Block \cup {NoBlock}
    /\ Better \subseteq Block \X Block /\ Unclear \subseteq Block \X Block
    /\ \A a, b \in Block : <<a, b>> \in Better => <<b, a>> \notin Better
ASSUME ScenarioAssumption ==
    /\ MAX_BLOCK_REQUESTS \in Nat \ {0}
    /\ \A s \in Scenarios :
          /\ s.announced \in [Peer -> Seq(Block) \ {<< >>}]
          /\ s.connects \in [Peer -> Nat]
          /\ s.mined \cup s.late \cup s.invalid \subseteq Block

VARIABLES
    world,            \* the scenario
    archive,          \* [headers, bodies, mains]
    tip,              \* of the state, as committed
    late,             \* what the mainchain node does not know yet
    peer,             \* what each peer announces: an index of announced
    conn,             \* the connection task of each peer
    info,             \* the infos on their way from each peer's connections
    net,              \* the net task
    mainchain,        \* the mainchain task: [requests, responses]
    submit            \* the call of submit_block

vars == <<world, archive, tip, late, peer, conn, info, net, mainchain, submit>>

\* A block and its ancestors, oldest first.
Chain[b \in Block \cup {NoBlock}] ==
    IF b = NoBlock THEN << >> ELSE Append(Chain[Parent[b]], b)
Ancestors == [b \in Block \cup {NoBlock} |-> Range(Chain[b])]

\* No block is its own ancestor, since it has the hash of its parent: the
\* recursion ends.  A tip is better than those that it extends, since its
\* mainchain blocks extend theirs (better_tip, module Archive).
ASSUME ChainAssumption ==
    /\ Chain \in [Block \cup {NoBlock} -> Seq(Block)]
    /\ Chain[NoBlock] = << >>
    /\ \A b \in Block : Chain[b] = Append(Chain[Parent[b]], b)
    /\ \A b \in Block : \A a \in Ancestors[Parent[b]] : <<a, b>> \in Better

BetterTip(old, new) == old = NoBlock \/ <<old, new>> \in Better

\* Of blocks of one chain, the oldest and the newest.
Earliest(blocks) == CHOOSE b \in blocks : Ancestors[b] \cap blocks = {b}
Latest(blocks) == CHOOSE b \in blocks : blocks \subseteq Ancestors[b]

LastCommonAncestor(a, b) ==
    LET shared == Ancestors[a] \cap Ancestors[b]
    IN  IF shared = {} THEN NoBlock ELSE Latest(shared)

\* iter_missing_bodies: those from after an ancestor.
MissingBodies(bodies, b, ancestor) == Ancestors[b] \ (Ancestors[ancestor] \cup bodies)

NoConn == [up |-> FALSE, connects |-> 0, current |-> NoBlock, peer_states |-> {},
           tasks |-> << >>, work |-> << >>, mail |-> << >>, sent |-> {}, inflight |-> {}]

Init ==
    /\ archive = [headers |-> Ancestors[StartTip], bodies |-> Ancestors[StartTip],
                  mains |-> Ancestors[StartTip]]
    /\ tip = StartTip
    /\ world \in Scenarios
    /\ late = world.late
    /\ peer = [p \in Peer |-> 1]
    /\ conn = [p \in Peer |-> NoConn]
    /\ info = [p \in Peer |-> << >>]
    /\ net = [run |-> "running", ready |-> << >>, descendant_tips |-> {}, forward |-> << >>,
              sources |-> {}, reorg |-> << >>]
    /\ mainchain = [requests |-> << >>, responses |-> << >>]
    /\ submit = [pc |-> "idle", block |-> NoBlock, accepted |-> {}]

-----------------------------------------------------------------------------
\* The environment.
Connect(p) ==
    /\ ~conn[p].up
    /\ conn[p].connects < world.connects[p]
    /\ conn' = [conn EXCEPT ![p] = [NoConn EXCEPT !.up = TRUE, !.connects = conn[p].connects + 1]]
    /\ UNCHANGED <<world, archive, tip, late, peer, info, net, mainchain, submit>>

\* A connection ends.  Its infos are still forwarded.
Closed(p) == [NoConn EXCEPT !.connects = conn[p].connects]

Disconnect(p) ==
    /\ conn[p].up
    /\ conn[p].connects < world.connects[p]
    /\ conn' = [conn EXCEPT ![p] = Closed(p)]
    /\ UNCHANGED <<world, archive, tip, late, peer, info, net, mainchain, submit>>

PeerTip(p) == world.announced[p][peer[p]]

PeerAdvances(p) ==
    /\ peer[p] < Len(world.announced[p])
    /\ peer' = [peer EXCEPT ![p] = @ + 1]
    /\ UNCHANGED <<world, archive, tip, late, conn, info, net, mainchain, submit>>

MainBlockArrives(b) ==
    /\ b \in late
    /\ late' = late \ {b}
    /\ UNCHANGED <<world, archive, tip, peer, conn, info, net, mainchain, submit>>

-----------------------------------------------------------------------------
\* Steps of the connection task of a peer.

\* A heartbeat with a peer state other than the current one.
Heartbeat(p) ==
    /\ conn[p].up
    /\ conn[p].current # PeerTip(p)
    /\ conn' = [conn EXCEPT ![p].current = PeerTip(p),
                            ![p].peer_states = @ \cup {PeerTip(p)},
                            ![p].tasks = Append(@, PeerTip(p))]
    /\ UNCHANGED <<world, archive, tip, late, peer, info, net, mainchain, submit>>

\* handle_internal_message of MainchainAncestors, Headers and BodiesAvailable:
\* the peer state is handled again.  One that this connection does not know,
\* since it was for an earlier one, ends the task.
InternalMessage(p) ==
    LET c == conn[p]
        state == Head(c.mail)
    IN  /\ c.mail # << >>
        /\ conn' = [conn EXCEPT ![p] =
                       IF state \in c.peer_states
                       THEN [c EXCEPT !.mail = Tail(@), !.tasks = Append(@, state)]
                       ELSE Closed(p)]
        /\ UNCHANGED <<world, archive, tip, late, peer, info, net, mainchain, submit>>

\* handle_peer_state reads the tip, in a read transaction of its own.
HandlePeerState(p) ==
    /\ conn[p].work = << >>
    /\ conn[p].tasks # << >>
    /\ conn' = [conn EXCEPT ![p].tasks = Tail(@),
                            ![p].work = <<[state |-> Head(conn[p].tasks), tip |-> tip]>>]
    /\ UNCHANGED <<world, archive, tip, late, peer, info, net, mainchain, submit>>

GetHeaders(own, state) == [type |-> "GetHeaders", start |-> own, block |-> state, tip |-> state]
GetBlock(b, state, ancestor) ==
    [type |-> "GetBlock", start |-> ancestor, block |-> b, tip |-> state]

\* What is serialised of a request, and hashed: of GetBlock, only the block.
RequestHash(r) ==
    IF r.type = "GetBlock" THEN <<r.type, r.block>> ELSE <<r.type, r.start, r.block>>

\* Sender::send_request, which ignores duplicates of requests that this
\* connection sent before.
SendRequests(c, requests) ==
    [c EXCEPT !.sent = @ \cup {RequestHash(r) : r \in requests},
              !.inflight = @ \cup {r \in requests : RequestHash(r) \notin c.sent}]

\* check_peer_tip_and_request_headers: None, Some(false) or Some(true).
CheckPeerTip(own, state) ==
    CASE ~BetterTip(own, state) /\ <<own, state>> \notin Unclear -> "not better"
      [] state \notin archive.headers -> "request headers"
      [] OTHER -> IF BetterTip(own, state) THEN "better" ELSE "not better"

\* The bodies that are missing after the common ancestor, the oldest of them.
BodiesToRequest(own, state) ==
    LET missing == MissingBodies(archive.bodies, state, LastCommonAncestor(own, state))
    IN  {b \in missing : Cardinality(Ancestors[b] \cap missing) <= MAX_BLOCK_REQUESTS}

\* The rest of handle_peer_state, with the tip that was read.
FinishPeerState(p) ==
    LET own == conn[p].work[1].tip
        state == conn[p].work[1].state
        done == [conn[p] EXCEPT !.work = << >>]
        check == CheckPeerTip(own, state)
        missing == BodiesToRequest(own, state)
        Tell(item) == info' = [info EXCEPT ![p] = Append(@, item)]
        Ask(requests) == conn' = [conn EXCEPT ![p] = SendRequests(done, requests)]
    IN  /\ conn[p].work # << >>
        /\ \/ /\ state \notin archive.mains
              /\ Tell([type |-> "NeedMainchainAncestors", tip |-> state])
              /\ Ask({})
           \/ /\ state \in archive.mains /\ check = "not better"
              /\ Ask({}) /\ UNCHANGED info
           \/ /\ state \in archive.mains /\ check = "request headers"
              /\ Ask({GetHeaders(own, state)}) /\ UNCHANGED info
           \/ /\ state \in archive.mains /\ check = "better" /\ missing = {}
              /\ Tell([type |-> "NewTipReady", tip |-> state])
              /\ Ask({})
           \/ /\ state \in archive.mains /\ check = "better" /\ missing # {}
              /\ Ask({GetBlock(b, state, LastCommonAncestor(own, state)) : b \in missing})
              /\ UNCHANGED info
        /\ UNCHANGED <<world, archive, tip, late, peer, net, mainchain, submit>>

\* The peer answers a request, in any order, and the answer goes to the net
\* task.  The peer has the blocks that it announced.
PeerResponse(p, request) ==
    /\ request \in conn[p].inflight
    /\ conn' = [conn EXCEPT ![p].inflight = @ \ {request}]
    /\ info' = [info EXCEPT ![p] = Append(@, [type |-> "Response", request |-> request])]
    /\ UNCHANGED <<world, archive, tip, late, peer, net, mainchain, submit>>

-----------------------------------------------------------------------------
\* Steps of the net task.  It does one thing at a time.
Running == net.run = "running" /\ net.reorg = << >>

NextInfo(p, type) ==
    Running /\ info[p] # << >> /\ Head(info[p]).type = type

TakeInfo(p) == info' = [info EXCEPT ![p] = Tail(@)]

NeedMainchainAncestors(p) ==
    LET state == Head(info[p]).tip
    IN  /\ NextInfo(p, "NeedMainchainAncestors")
        /\ TakeInfo(p)
        /\ net' = [net EXCEPT !.forward = Append(@, [main |-> state, peer |-> p])]
        /\ UNCHANGED <<world, archive, tip, late, peer, conn, mainchain, submit>>

ForwardMainchainTaskRequest ==
    LET item == Head(net.forward)
    IN  /\ Running
        /\ net.forward # << >>
        /\ net' = [net EXCEPT !.forward = Tail(@), !.sources = @ \cup {item}]
        /\ mainchain' = [mainchain EXCEPT !.requests =
                            Append(@, [main |-> item.main, oneshot |-> FALSE])]
        /\ UNCHANGED <<world, archive, tip, late, peer, conn, info, submit>>

\* push_internal_message: to whichever connection there is.
PushMessages(states) ==
    [p \in Peer |-> IF conn[p].up THEN [conn[p] EXCEPT !.mail = @ \o states[p]] ELSE conn[p]]

\* To all that asked for this mainchain block, unless it was not available:
\* then the message is only logged.
MainchainTaskResponse ==
    LET response == Head(mainchain.responses)
        sources == {s \in net.sources : s.main = response.main}
    IN  /\ Running
        /\ mainchain.responses # << >>
        /\ mainchain' = [mainchain EXCEPT !.responses = Tail(@)]
        /\ net' = [net EXCEPT !.sources = @ \ sources]
        /\ conn' = PushMessages([p \in Peer |->
                       IF response.available /\ \E s \in sources : s.peer = p
                       THEN <<response.main>> ELSE << >>])
        /\ UNCHANGED <<world, archive, tip, late, peer, info, submit>>

PeerTipReady(p) ==
    /\ NextInfo(p, "NewTipReady")
    /\ TakeInfo(p)
    /\ net' = [net EXCEPT !.ready = Append(@, [tip |-> Head(info[p]).tip, confirm |-> FALSE])]
    /\ UNCHANGED <<world, archive, tip, late, peer, conn, mainchain, submit>>

\* handle_response to GetHeaders: the headers that are new are stored.
HeadersResponse(p) ==
    LET request == Head(info[p]).request
    IN  /\ NextInfo(p, "Response") /\ request.type = "GetHeaders"
        /\ TakeInfo(p)
        /\ archive' = [archive EXCEPT !.headers = @ \cup Ancestors[request.block]]
        /\ conn' = PushMessages([q \in Peer |-> IF q = p THEN <<request.tip>> ELSE << >>])
        /\ UNCHANGED <<world, tip, late, peer, net, mainchain, submit>>

\* Mutant: a tip that waits for this body is taken for complete.
ResumedTipsEager(bodies, block) ==
    LET waiting == {w \in net.descendant_tips : w.missing = block}
        Missing(w) == MissingBodies(bodies, w.tip, LastCommonAncestor(tip, w.tip))
        Again(w) == [w EXCEPT !.missing = Earliest(Missing(w))]
    IN  [descendant_tips |-> (net.descendant_tips \ waiting) \cup
                             {Again(w) : w \in {w \in waiting : Missing(w) # {}}},
         ready |-> [i \in 1..Cardinality(waiting) |->
                        [tip |-> SetToSeq(waiting)[i].tip, confirm |-> FALSE]]]

\* The tips that wait for a body, once it is stored: each waits for its next
\* missing body, and the tip that is complete by now is ready, for each source.
ResumedTips(bodies, block) ==
    LET waiting == {w \in net.descendant_tips : w.missing = block}
        Missing(w) == MissingBodies(bodies, w.tip, LastCommonAncestor(tip, w.tip))
        Again(w) == [w EXCEPT !.missing = Earliest(Missing(w))]
        NextTip(w) == IF Missing(w) = {} THEN w.tip ELSE Parent[Earliest(Missing(w))]
        better == SetToSeq({w \in waiting :
                               NextTip(w) # NoBlock /\ BetterTip(tip, NextTip(w))})
    IN  [descendant_tips |-> (net.descendant_tips \ waiting) \cup
                             {Again(w) : w \in {w \in waiting : Missing(w) # {}}},
         ready |-> [i \in DOMAIN better |-> [tip |-> NextTip(better[i]), confirm |-> FALSE]]]

\* Mutant: the connection is not told that the bodies are available.
BlockResponseSilent(p) ==
    LET request == Head(info[p]).request
        block == request.block
        bodies == archive.bodies \cup {block}
        missing == MissingBodies(bodies, block, request.start)
        resumed == ResumedTips(bodies, block)
        waits == IF missing = {} THEN {}
                 ELSE {[missing |-> Earliest(missing), tip |-> request.tip, peer |-> p]}
        child == IF Parent[block] = tip
                 THEN <<[tip |-> block, confirm |-> FALSE]>> ELSE << >>
    IN  /\ NextInfo(p, "Response") /\ request.type = "GetBlock"
        /\ TakeInfo(p)
        /\ archive' = [archive EXCEPT !.bodies = bodies]
        /\ net' = [net EXCEPT !.descendant_tips = resumed.descendant_tips \cup waits,
                              !.ready = @ \o child \o resumed.ready]
        /\ UNCHANGED <<world, tip, late, peer, conn, mainchain, submit>>

\* handle_response to GetBlock.
BlockResponse(p) ==
    LET request == Head(info[p]).request
        block == request.block
        bodies == archive.bodies \cup {block}
        missing == MissingBodies(bodies, block, request.start)
        resumed == ResumedTips(bodies, block)
        waits == IF missing = {} THEN {}
                 ELSE {[missing |-> Earliest(missing), tip |-> request.tip, peer |-> p]}
        child == IF Parent[block] = tip
                 THEN <<[tip |-> block, confirm |-> FALSE]>> ELSE << >>
    IN  /\ NextInfo(p, "Response") /\ request.type = "GetBlock"
        /\ TakeInfo(p)
        /\ archive' = [archive EXCEPT !.bodies = bodies]
        /\ conn' = PushMessages([q \in Peer |-> IF q = p /\ missing = {}
                                                THEN <<request.tip>> ELSE << >>])
        /\ net' = [net EXCEPT !.descendant_tips = resumed.descendant_tips \cup waits,
                              !.ready = @ \o child \o resumed.ready]
        /\ UNCHANGED <<world, tip, late, peer, mainchain, submit>>

-----------------------------------------------------------------------------
\* Mutant: a tip that is not applied gets no answer.
AnswerApplied(item, applied) ==
    IF item.confirm /\ applied
    THEN [submit EXCEPT !.pc = "idle", !.accepted = @ \cup {item.tip}]
    ELSE submit

\* The answer to a call that waits for the reorganisation.
Answer(item, applied) ==
    IF item.confirm
    THEN [submit EXCEPT !.pc = "idle", !.accepted = IF applied THEN @ \cup {item.tip} ELSE @]
    ELSE submit

\* NewTipReady: reorg_to_tip up to the first block to connect.  A body that
\* is missing ends the net task.
NewTipReady ==
    LET item == Head(net.ready)
        new == item.tip
        common == LastCommonAncestor(tip, new)
        apply == SubSeq(Chain[new], Len(Chain[common]) + 1, Len(Chain[new]))
        complete == Range(apply) \subseteq archive.bodies
        taken == [net EXCEPT !.ready = Tail(@)]
    IN  /\ Running
        /\ net.ready # << >>
        /\ \/ /\ ~BetterTip(tip, new)
              /\ net' = taken
              /\ submit' = Answer(item, FALSE)
           \/ /\ BetterTip(tip, new)
              /\ net' = IF complete
                        THEN [taken EXCEPT !.reorg = <<[old |-> tip, item |-> item, apply |-> apply]>>]
                        ELSE [taken EXCEPT !.run = "missing body"]
              /\ submit' = IF complete THEN submit ELSE Answer(item, FALSE)
        /\ UNCHANGED <<world, archive, tip, late, peer, conn, info, mainchain>>

\* Mutant: every block is committed.
CommitsAlways(old, block, left) == TRUE

\* The write transaction is committed when the chain so far is better than the
\* old tip, and at the end.
Commits(old, block, left) == BetterTip(old, block) \/ left = << >>

\* connect_tip_ of the next block.  An error drops what is not committed and
\* ends the net task.
ConnectTip ==
    LET r == net.reorg[1]
        block == Head(r.apply)
        left == Tail(r.apply)
    IN  /\ net.run = "running" /\ net.reorg # << >>
        /\ \/ /\ block \in world.invalid
              /\ net' = [net EXCEPT !.run = "invalid block", !.reorg = << >>]
              /\ submit' = Answer(r.item, FALSE)
              /\ UNCHANGED tip
           \/ /\ block \notin world.invalid
              /\ tip' = IF Commits(r.old, block, left) THEN block ELSE tip
              /\ net' = [net EXCEPT !.reorg = IF left = << >> THEN << >>
                                              ELSE <<[r EXCEPT !.apply = left]>>]
              /\ submit' = IF left = << >> THEN Answer(r.item, TRUE) ELSE submit
        /\ UNCHANGED <<world, archive, late, peer, conn, info, mainchain>>

-----------------------------------------------------------------------------
\* The mainchain task: request_ancestor_infos, and the response.
AncestorInfos ==
    LET request == Head(mainchain.requests)
        available == request.main \in archive.mains \/ Ancestors[request.main] \cap late = {}
    IN  /\ mainchain.requests # << >>
        /\ archive' = [archive EXCEPT !.mains =
                          IF available THEN @ \cup Ancestors[request.main] ELSE @]
        /\ mainchain' =
              [requests |-> Tail(mainchain.requests),
               responses |-> IF request.oneshot THEN mainchain.responses
                             ELSE Append(mainchain.responses,
                                         [main |-> request.main, available |-> available])]
        /\ submit' = IF request.oneshot
                     THEN [submit EXCEPT !.pc = IF available THEN "header" ELSE "idle"]
                     ELSE submit
        /\ UNCHANGED <<world, tip, late, peer, conn, info, net>>

\* submit_block, to its first await.  The block was mined on a tip of this
\* node, which another may have replaced since.
SubmitBlock(b) ==
    /\ submit.pc = "idle" /\ b \in world.mined \ archive.bodies
    /\ Parent[b] \in {StartTip, tip}
    /\ submit' = [submit EXCEPT !.pc = "main", !.block = b]
    /\ mainchain' = [mainchain EXCEPT !.requests = Append(@, [main |-> b, oneshot |-> TRUE])]
    /\ UNCHANGED <<world, archive, tip, late, peer, conn, info, net>>

SubmitHeader ==
    /\ submit.pc = "header"
    /\ archive' = [archive EXCEPT !.headers = @ \cup {submit.block}]
    /\ submit' = [submit EXCEPT !.pc = "body"]
    /\ UNCHANGED <<world, tip, late, peer, conn, info, net, mainchain>>

\* The missing bodies are those after the common ancestor with the tip.
SubmitBody ==
    LET b == submit.block
        missing == MissingBodies(archive.bodies, b, LastCommonAncestor(tip, b))
        submittable == missing \subseteq {b}
    IN  /\ submit.pc = "body"
        /\ archive' = IF submittable THEN [archive EXCEPT !.bodies = @ \cup {b}] ELSE archive
        /\ net' = IF submittable
                  THEN [net EXCEPT !.ready = Append(@, [tip |-> b, confirm |-> TRUE])] ELSE net
        /\ submit' = [submit EXCEPT !.pc = IF submittable THEN "wait" ELSE "idle"]
        /\ UNCHANGED <<world, tip, late, peer, conn, info, mainchain>>

-----------------------------------------------------------------------------
ConnectionTask(p) ==
    \/ Heartbeat(p) \/ InternalMessage(p) \/ HandlePeerState(p) \/ FinishPeerState(p)
    \/ \E request \in conn[p].inflight : PeerResponse(p, request)

NetTask ==
    \/ \E p \in Peer : \/ NeedMainchainAncestors(p) \/ PeerTipReady(p)
                       \/ HeadersResponse(p) \/ BlockResponse(p)
    \/ ForwardMainchainTaskRequest \/ MainchainTaskResponse \/ NewTipReady \/ ConnectTip

Submit == SubmitHeader \/ SubmitBody

Next ==
    \/ \E p \in Peer : Connect(p) \/ Disconnect(p) \/ PeerAdvances(p) \/ ConnectionTask(p)
    \/ \E b \in Block : MainBlockArrives(b) \/ SubmitBlock(b)
    \/ NetTask \/ AncestorInfos \/ Submit

\* Each task makes some step if it can, in whatever order select! picks them;
\* a peer that is up sends heartbeats and answers.
Fairness ==
    /\ \A p \in Peer : WF_vars(ConnectionTask(p))
    /\ WF_vars(NetTask) /\ WF_vars(AncestorInfos) /\ WF_vars(Submit)

Spec == Init /\ [][Next]_vars /\ Fairness

-----------------------------------------------------------------------------
\* Archive, queues and tasks have their types (NetTask, ConnectionTask).
TypeOK ==
    /\ archive \in [headers : SUBSET Block, bodies : SUBSET Block, mains : SUBSET Block]
    /\ archive.bodies \subseteq archive.headers
    /\ archive.headers \subseteq archive.mains
    /\ tip \in Block \cup {NoBlock}
    /\ \A p \in Peer : /\ conn[p].peer_states \subseteq Block
                       /\ {RequestHash(r) : r \in conn[p].inflight} \subseteq conn[p].sent
                       /\ Len(conn[p].work) =< 1
    /\ net.run \in {"running", "missing body", "invalid block"}
    /\ submit.pc \in {"idle", "main", "header", "body", "wait"}

\* "The new tip block and all ancestor blocks must exist in the node's archive"
\* (reorg_to_tip): whoever sends a tip to the net task looked for bodies after
\* the last ancestor it had in common with the tip of that time, but the tip
\* may be another one when the net task takes it.  A missing body would end
\* the net task.
ReadyTipsComplete ==
    /\ net.run # "missing body"
    /\ \A i \in DOMAIN net.ready : Ancestors[net.ready[i].tip] \subseteq archive.bodies

\* The committed tip only ever changes for a better one, though a reorg
\* commits on the way, and an invalid block ends it there.
TipImproves == [][tip' # tip => BetterTip(tip, tip')]_vars

\* A node that stays connected to a peer that stays at a tip ends up with one
\* that is not worse, whatever was lost or answered out of order before; unless
\* an invalid block ended the net task.  It is checked where no two tips of a
\* peer need the same bodies: send_request would ignore the second request.
Synced(p) == tip # NoBlock /\ <<tip, Last(world.announced[p])>> \notin Better
FollowsPeers ==
    \A p \in Peer :
        <>[](conn[p].up /\ peer[p] = Len(world.announced[p]) /\ net.run = "running")
            => <>[]Synced(p)

\* submit_block always gets its answer.
SubmitAnswered == (submit.pc # "idle") ~> (submit.pc = "idle" \/ net.run # "running")

\* Tasks and archive are consistent in every interleaving, and so the net task
\* finds what reorg_to_tip expects.
SyncSafe == TypeOK /\ ReadyTipsComplete

=============================================================================
