------------------------------- MODULE Peers -------------------------------
(***************************************************************************)
(* The table of active peers of a node (lib/net/mod.rs), the handles and   *)
(* tasks of its connections (lib/net/peer/mod.rs), and the part of the net *)
(* task (lib/node/net_task.rs) that learns of their ends and reconnects.   *)
(*                                                                         *)
(* A connection is added in two steps, by an RPC call or by the net task,  *)
(* which checks the table, starts the connection's task and only then      *)
(* inserts the handle.  Every connection has its own forwarder of infos to *)
(* the net task, so that the infos of one connection arrive in order and   *)
(* those of two connections do not.  The remote nodes are the environment: *)
(* they connect, send, fall silent and close at any time.                  *)
(***************************************************************************)
EXTENDS Naturals, Sequences, FiniteSets

CONSTANTS
    Addr,          \* socket addresses
    Unspecified,   \* those of an unspecified IP, such as 0.0.0.0
    Bind,          \* addresses the node may bind its endpoint to
    Connectable,   \* what quinn can connect to from each of these
    Seed,          \* seed_node_addrs
    MaxConns,      \* a bound: connections of one run of the node
    MaxStarts,     \* a bound: starts of the node
    MaxRejected    \* a bound: the first connections, of which an answer may be
                   \* rejected

ASSUME AddrAssumption ==
    /\ Unspecified \subseteq Addr
    /\ Connectable \in [Bind -> SUBSET Addr]
    /\ Seed \subseteq Addr \ Unspecified /\ IsFiniteSet(Seed)
    /\ Bind # {}
ASSUME BoundAssumption == MaxConns \in Nat /\ MaxStarts \in Nat /\ MaxRejected \in Nat

VARIABLES
    known_peers,   \* the database
    node,          \* [run: "down", "up" or "failed", bind, starts]
    conns,         \* the connections of this run, in the order of their start
    active_peers,  \* the handle for an address, 0 for none
    call,          \* the connection that a caller is about to add, 0 for none
    reconnect      \* timed out connections whose address is to be connected to

vars == <<known_peers, node, conns, active_peers, call, reconnect>>

\* An RPC thread, and the net task, which does nothing else meanwhile.
Callers == {"rpc", "net"}

\* "ended": it sent the error that it ended with; "aborted": by the drop of
\* its handle.
TaskState == {"connecting", "connected", "ended", "aborted"}
Live(c) == c.task \in {"connecting", "connected"}

\* What the net task receives: a response that it rejects, HeartbeatTimeout, any
\* other error, or None for the end of the stream.
InfoItem == {"InvalidResponse", "HeartbeatTimeout", "Error", "None"}

NewConn(addr, task) ==
    [addr |-> addr, task |-> task, received_msg_successfully |-> FALSE, info |-> << >>]

\* Mutant: the drop of a handle detaches its task.
DropHandleDetaching(cs, i) == cs

\* ConnectionHandle::drop.  An aborted task drops its end of the info stream.
DropHandle(cs, i) ==
    IF i \in DOMAIN cs /\ Live(cs[i])
    THEN [cs EXCEPT ![i].task = "aborted", ![i].info = Append(@, "None")]
    ELSE cs

Idle == [c \in Callers |-> 0]
NoPeers == [a \in Addr |-> 0]

-----------------------------------------------------------------------------
\* Net::new before the first start: the database is created.
Init ==
    /\ known_peers = Seed
    /\ node = [run |-> "down", bind |-> CHOOSE b \in Bind : TRUE, starts |-> 0]
    /\ conns = << >>
    /\ active_peers = NoPeers
    /\ call = Idle
    /\ reconnect = {}

\* The addresses in some order, which is theirs in the database.
Ordered(set) ==
    CHOOSE s \in [1..Cardinality(set) -> set] : \A a \in set : \E i \in DOMAIN s : s[i] = a

\* Net::new connects to the known peers, before the net task runs.  One with
\* an address that quinn refuses is deleted; any other error ends the start.
Start(bind) ==
    /\ node.run = "down"
    /\ node.starts < MaxStarts
    /\ LET fails == known_peers \cap Unspecified # {}
           good == known_peers \cap Connectable[bind]
           order == Ordered(good)
       IN  /\ node' = [run |-> IF fails THEN "failed" ELSE "up",
                       bind |-> bind, starts |-> node.starts + 1]
           /\ known_peers' = IF fails THEN known_peers ELSE good
           /\ conns' = IF fails THEN << >>
                       ELSE [i \in DOMAIN order |-> NewConn(order[i], "connecting")]
           /\ active_peers' =
                 [a \in Addr |-> IF ~fails /\ a \in good
                                 THEN CHOOSE i \in DOMAIN order : order[i] = a ELSE 0]
    /\ UNCHANGED <<call, reconnect>>

\* The process ends, at any point; the database keeps what was committed.
Crash ==
    /\ node.run = "up"
    /\ node' = [node EXCEPT !.run = "down"]
    /\ conns' = << >>
    /\ active_peers' = NoPeers
    /\ call' = Idle
    /\ reconnect' = {}
    /\ UNCHANGED known_peers

\* The steps that a connection begins with, once it was found to be new.
Begin(caller, a, task) ==
    /\ node.run = "up"
    /\ call[caller] = 0
    /\ active_peers[a] = 0
    /\ Len(conns) < MaxConns
    /\ known_peers' = known_peers \cup {a}
    /\ conns' = Append(conns, NewConn(a, task))
    /\ call' = [call EXCEPT ![caller] = Len(conns')]
    /\ UNCHANGED <<node, active_peers>>

\* Mutant: the address is written before the check of its IP.
ConnectPeerEager(caller, a) ==
    IF a \in Unspecified
    THEN /\ node.run = "up"
         /\ known_peers' = known_peers \cup {a}
         /\ UNCHANGED <<node, conns, active_peers, call>>
    ELSE a \in Connectable[node.bind] /\ Begin(caller, a, "connecting")

\* connect_peer up to the task that connects.
ConnectPeer(caller, a) ==
    /\ a \notin Unspecified
    /\ a \in Connectable[node.bind]
    /\ Begin(caller, a, "connecting")

RpcConnectPeer(a) == ConnectPeer("rpc", a) /\ UNCHANGED reconnect

\* accept_incoming.  A duplicate is closed, which changes nothing here.
AcceptIncoming(a) ==
    /\ a \in Connectable[node.bind] \ Unspecified
    /\ Begin("net", a, "connected")
    /\ UNCHANGED reconnect

\* add_active_peer.  If another caller was first, the handle is dropped.
AddActivePeer(caller) ==
    LET i == call[caller]
        a == conns[i].addr
    IN  /\ i # 0
        /\ call' = [call EXCEPT ![caller] = 0]
        /\ \/ /\ active_peers[a] = 0
              /\ active_peers' = [active_peers EXCEPT ![a] = i]
              /\ UNCHANGED conns
           \/ /\ active_peers[a] # 0
              /\ conns' = DropHandle(conns, i)
              /\ UNCHANGED active_peers
        /\ UNCHANGED <<known_peers, node, reconnect>>

ForgetPeer(a) ==
    /\ node.run = "up"
    /\ a \in known_peers
    /\ known_peers' = known_peers \ {a}
    /\ UNCHANGED <<node, conns, active_peers, call, reconnect>>

-----------------------------------------------------------------------------
\* Steps of a connection's task and of the remote node.
Connected(i) ==
    /\ conns[i].task = "connecting"
    /\ conns' = [conns EXCEPT ![i].task = "connected"]
    /\ UNCHANGED <<known_peers, node, active_peers, call, reconnect>>

ReceiveMessage(i) ==
    /\ conns[i].task = "connected"
    /\ ~conns[i].received_msg_successfully
    /\ conns' = [conns EXCEPT ![i].received_msg_successfully = TRUE]
    /\ UNCHANGED <<known_peers, node, active_peers, call, reconnect>>

\* The task forwards an answer that it received and that handle_response will
\* reject.  One such answer of a connection is unread at a time, as a bound.
ForwardInvalid(i) ==
    /\ conns[i].task = "connected"
    /\ conns[i].received_msg_successfully
    /\ i =< MaxRejected /\ conns[i].info = << >>
    /\ conns' = [conns EXCEPT ![i].info = Append(@, "InvalidResponse")]
    /\ UNCHANGED <<known_peers, node, active_peers, call, reconnect>>

\* The task returns an error, which is sent before the stream ends.  Only an
\* established connection waits for heartbeats.
TaskEnds(i, error) ==
    /\ Live(conns[i])
    /\ error = "HeartbeatTimeout" => conns[i].task = "connected"
    /\ conns' = [conns EXCEPT ![i].task = "ended", ![i].info = @ \o <<error, "None">>]
    /\ UNCHANGED <<known_peers, node, active_peers, call, reconnect>>

-----------------------------------------------------------------------------
\* Steps of the net task.
\* Mutant: a peer that was never heard is left in the table.
RemoveActivePeerConnected(a, i) ==
    LET handle == active_peers[a]
        read == [conns EXCEPT ![i].info = Tail(@)]
        kept == handle # 0 /\ ~conns[handle].received_msg_successfully
    IN  /\ conns' = IF kept THEN read ELSE DropHandle(read, handle)
        /\ active_peers' = IF kept THEN active_peers ELSE [active_peers EXCEPT ![a] = 0]

\* remove_active_peer, after an item of connection i was taken.
RemoveActivePeer(a, i) ==
    /\ conns' = DropHandle([conns EXCEPT ![i].info = Tail(@)], active_peers[a])
    /\ active_peers' = [active_peers EXCEPT ![a] = 0]

NextInfo(i, item) ==
    /\ call["net"] = 0
    /\ conns[i].info # << >>
    /\ Head(conns[i].info) = item

\* Mutant: the reconnection is not scheduled.
HeartbeatTimeoutForgetting(i) ==
    /\ NextInfo(i, "HeartbeatTimeout")
    /\ RemoveActivePeer(conns[i].addr, i)
    /\ UNCHANGED <<known_peers, node, call, reconnect>>

\* A peer that timed out is connected to again if it ever sent a message: the
\* flag is read from the handle that is in the table by now.
HeartbeatTimeout(i) ==
    LET a == conns[i].addr
        handle == active_peers[a]
    IN  /\ NextInfo(i, "HeartbeatTimeout")
        /\ RemoveActivePeer(a, i)
        /\ reconnect' = IF handle # 0 /\ conns[handle].received_msg_successfully
                        THEN reconnect \cup {i} ELSE reconnect
        /\ UNCHANGED <<known_peers, node, call>>

\* handle_response, for every answer that does not fit its request.
InvalidResponse(i) ==
    /\ NextInfo(i, "InvalidResponse")
    /\ RemoveActivePeer(conns[i].addr, i)
    /\ UNCHANGED <<known_peers, node, call, reconnect>>

PeerError(i) ==
    /\ NextInfo(i, "Error")
    /\ RemoveActivePeer(conns[i].addr, i)
    /\ UNCHANGED <<known_peers, node, call, reconnect>>

\* The stream of infos ended.
PeerClosed(i) ==
    /\ NextInfo(i, "None")
    /\ RemoveActivePeer(conns[i].addr, i)
    /\ UNCHANGED <<known_peers, node, call, reconnect>>

HandleInfo(i) ==
    InvalidResponse(i) \/ HeartbeatTimeout(i) \/ PeerError(i) \/ PeerClosed(i)

\* After RECONNECT_DELAY.  connect_peer fails if the address is connected.
ReconnectPeer(i) ==
    LET a == conns[i].addr
    IN  /\ i \in reconnect
        /\ reconnect' = reconnect \ {i}
        /\ \/ ConnectPeer("net", a)
           \/ /\ call["net"] = 0
              /\ active_peers[a] # 0
              /\ UNCHANGED <<known_peers, node, conns, active_peers, call>>

Next ==
    \/ \E bind \in Bind : Start(bind)
    \/ Crash
    \/ \E a \in Addr : RpcConnectPeer(a) \/ AcceptIncoming(a) \/ ForgetPeer(a)
    \/ \E caller \in Callers : AddActivePeer(caller)
    \/ \E i \in DOMAIN conns :
          \/ Connected(i) \/ ReceiveMessage(i) \/ ForwardInvalid(i)
          \/ \E error \in {"HeartbeatTimeout", "Error"} : TaskEnds(i, error)
          \/ HandleInfo(i)
          \/ ReconnectPeer(i)

\* A call runs to its end, and the runtime polls the net task's streams
\* (select_all polls every ready one in turn).
Fairness ==
    /\ \A caller \in Callers : WF_vars(AddActivePeer(caller))
    /\ \A i \in 1..MaxConns : /\ WF_vars(i \in DOMAIN conns /\ HandleInfo(i))
                              /\ SF_vars(i \in DOMAIN conns /\ ReconnectPeer(i))

Spec == Init /\ [][Next]_vars /\ Fairness

-----------------------------------------------------------------------------
\* The table, the handles and the calls have their types (Net, ConnectionHandle).
TypeOK ==
    /\ known_peers \subseteq Addr
    /\ node.run \in {"down", "up", "failed"} /\ node.bind \in Bind
    /\ \A i \in DOMAIN conns :
          /\ conns[i].addr \in Addr /\ conns[i].task \in TaskState
          /\ conns[i].received_msg_successfully \in BOOLEAN
          /\ conns[i].info \in Seq(InfoItem)
    /\ active_peers \in [Addr -> 0..Len(conns)]
    /\ call \in [Callers -> 0..Len(conns)]
    /\ reconnect \subseteq DOMAIN conns

\* "Connection killed on drop": a task runs only while its handle is in the
\* table under its address or with the caller that is about to add it.  No
\* connection goes on that the node does not know of, and no address has two,
\* though calls race, and ends of older connections are reported late.
TasksAreOwned ==
    \A i \in DOMAIN conns :
        Live(conns[i]) => \/ active_peers[conns[i].addr] = i
                          \/ \E caller \in Callers : call[caller] = i

\* No sequence of calls, forgotten peers, crashes and changes of the bind
\* address leaves a known peer that keeps the node from starting: Net::new
\* returns any error of connect_peer but InvalidRemoteAddress.
KnownPeersStart == node.run # "failed"

\* A dead connection whose handle is in the table while its end is still to be
\* read does not keep it there: the address would be refused as already
\* connected for ever, to callers and to the peer itself (remove_active_peer).
\* It is all that the code provides for.  A handle that connect_peer adds when
\* the end of its connection was already read does stay in the table, although
\* the net task means to remove it ("peer connection is closed, remove it").
UnreadEndFreesAddress ==
    \A i \in 1..MaxConns : \A a \in Addr :
        (/\ i \in DOMAIN conns /\ ~Live(conns[i]) /\ conns[i].info # << >>
         /\ active_peers[a] = i)
            ~> active_peers[a] # i

\* A peer that timed out after it had been heard is connected to again, or
\* connects meanwhile, unless the node ends or the bound is reached.  The end
\* of another connection to it must have been read: it would remove the
\* handle first, and the timeout would find none.
TimedOutReconnected ==
    \A i \in 1..MaxConns :
        (/\ i \in DOMAIN conns /\ active_peers[conns[i].addr] = i
         /\ conns[i].received_msg_successfully
         /\ NextInfo(i, "HeartbeatTimeout")
         /\ call = Idle /\ \A j \in DOMAIN conns \ {i} : conns[j].info = << >>)
            ~> \/ \E a \in Addr : active_peers[a] > i
               \/ Len(conns) = MaxConns
               \/ node.run = "down"

\* The table, the tasks and the calls are consistent in every interleaving
\* (NetInner::add_active_peer, ConnectionHandle::drop).
PeersSafe == TypeOK /\ TasksAreOwned

=============================================================================
