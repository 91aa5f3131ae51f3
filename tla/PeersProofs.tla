---------------------------- MODULE PeersProofs ----------------------------
(***************************************************************************)
(* Proofs about Peers, for any addresses, binds, number of connections and *)
(* of starts.                                                              *)
(*                                                                         *)
(* A task is owned because every step that takes a handle out of the table *)
(* or from a call either puts it into the other place or drops it, which   *)
(* aborts the task.  The node starts because no caller stores an address   *)
(* before connect_peer has looked at its IP.                               *)
(***************************************************************************)
EXTENDS Peers, FunctionTheorems, FiniteSetTheorems, SequenceTheorems, TLAPS

Conn == [addr : Addr, task : TaskState, received_msg_successfully : BOOLEAN,
         info : Seq(InfoItem)]

\* TypeOK, with the types of whole records and sequences.
Typed ==
    /\ known_peers \in SUBSET Addr
    /\ node \in [run : {"down", "up", "failed"}, bind : Bind, starts : Nat]
    /\ conns \in Seq(Conn)
    /\ active_peers \in [Addr -> 0..Len(conns)]
    /\ call \in [Callers -> 0..Len(conns)]
    /\ reconnect \in SUBSET (1..Len(conns))

\* The database has finitely many addresses, and none that Net::new fails on.
KnownGood == IsFiniteSet(known_peers) /\ known_peers \cap Unspecified = {}

\* What ended with the process is gone before the next start.
DownIsEmpty == node.run = "down" => conns = << >> /\ call = Idle /\ reconnect = {}

IInv == Typed /\ KnownGood /\ DownIsEmpty /\ TasksAreOwned /\ KnownPeersStart

-----------------------------------------------------------------------------
\* A sequence of connections in which one is replaced.
LEMMA UpdateConn ==
    ASSUME NEW cs \in Seq(Conn), NEW i \in 1..Len(cs), NEW c \in Conn
    PROVE  /\ [cs EXCEPT ![i] = c] \in Seq(Conn)
           /\ Len([cs EXCEPT ![i] = c]) = Len(cs)
           /\ [cs EXCEPT ![i] = c][i] = c
           /\ \A j \in 1..Len(cs) : j # i => [cs EXCEPT ![i] = c][j] = cs[j]
  BY ExceptSeq

\* ConnectionHandle::drop ends the task of this connection and no other.
LEMMA Dropped ==
    ASSUME NEW cs \in Seq(Conn), NEW i \in Nat
    PROVE  /\ DropHandle(cs, i) \in Seq(Conn)
           /\ Len(DropHandle(cs, i)) = Len(cs)
           /\ \A j \in 1..Len(cs) :
                 /\ DropHandle(cs, i)[j].addr = cs[j].addr
                 /\ Live(DropHandle(cs, i)[j]) => Live(cs[j]) /\ j # i
<1>1. DOMAIN cs = 1..Len(cs) /\ Len(cs) \in Nat
  BY LenProperties
<1>2. CASE i \in DOMAIN cs /\ Live(cs[i])
  <2> DEFINE c == [cs[i] EXCEPT !.task = "aborted", !.info = Append(@, "None")]
  <2>1. cs[i] \in Conn
    BY <1>1, <1>2, ElementOfSeq
  <2>2. Append(cs[i].info, "None") \in Seq(InfoItem)
    BY <2>1, AppendProperties DEF Conn, InfoItem
  <2>3. c \in Conn /\ c.addr = cs[i].addr /\ c.task = "aborted"
    BY <2>1, <2>2 DEF Conn, TaskState
  <2>4. DropHandle(cs, i) = [cs EXCEPT ![i] = c]
    BY <1>2 DEF DropHandle
  <2> HIDE DEF c
  <2> QED
    BY <1>1, <1>2, <2>3, <2>4, UpdateConn DEF Live
<1>3. CASE ~(i \in DOMAIN cs /\ Live(cs[i]))
  BY <1>1, <1>3 DEF DropHandle
<1> QED
  BY <1>2, <1>3

-----------------------------------------------------------------------------
\* The addresses in some order: each at one place.
LEMMA OrderedIsBijection ==
    ASSUME NEW S, IsFiniteSet(S)
    PROVE  /\ Cardinality(S) \in Nat
           /\ Ordered(S) \in [1..Cardinality(S) -> S]
           /\ \A a \in S : \E i \in 1..Cardinality(S) : Ordered(S)[i] = a
           /\ \A i, j \in 1..Cardinality(S) : Ordered(S)[i] = Ordered(S)[j] => i = j
<1> DEFINE n == Cardinality(S)
<1>1. n \in Nat /\ ExistsBijection(1..n, S)
  BY FS_CardinalityType
<1>2. PICK f : f \in Bijection(1..n, S)
  BY <1>1, Fun_ExistsBij
<1>3. f \in [1..n -> S] /\ \A a \in S : \E i \in 1..n : f[i] = a
  <2>1. f \in Surjection(1..n, S)
    BY <1>2, Fun_BijectionProperties
  <2> HIDE DEF n
  <2> QED
    BY <2>1 DEF Surjection
<1>4. \A a \in S : \E i \in DOMAIN f : f[i] = a
  BY <1>3
<1>5. /\ Ordered(S) \in [1..n -> S]
      /\ \A a \in S : \E i \in DOMAIN Ordered(S) : Ordered(S)[i] = a
  BY <1>3, <1>4 DEF Ordered
<1>6. Ordered(S) \in Surjection(1..n, S)
  BY <1>5, Fun_IsSurj
<1>7. IsFiniteSet(1..n) /\ Cardinality(1..n) = n
  BY <1>1, FS_Interval
<1>8. Ordered(S) \in Injection(1..n, S)
  BY <1>6, <1>7, FS_SurjSameCardinalityImpliesInj
<1> QED
  BY <1>1, <1>5, <1>8, Fun_InjectionProperties

-----------------------------------------------------------------------------
\* The initial states.
LEMMA InitInvariant == Init => IInv
<1> SUFFICES ASSUME Init PROVE IInv
  OBVIOUS
<1> USE DEF Init
<1>1. conns \in Seq(Conn) /\ Len(conns) = 0 /\ DOMAIN conns = {}
  BY EmptySeq
<1>2. Typed
  <2>1. node \in [run : {"down", "up", "failed"}, bind : Bind, starts : Nat]
    BY AddrAssumption
  <2> QED
    BY <1>1, <2>1, AddrAssumption DEF Typed, NoPeers, Idle, Callers
<1>3. KnownGood
  BY AddrAssumption DEF KnownGood
<1> QED
  BY <1>1, <1>2, <1>3 DEF IInv, DownIsEmpty, TasksAreOwned, KnownPeersStart

\* The start of the node.
LEMMA StartInvariant ==
    ASSUME IInv, NEW bind \in Bind, Start(bind)
    PROVE  IInv'
<1> DEFINE good == known_peers \cap Connectable[bind]
           order == Ordered(good)
           n == Cardinality(good)
<1>1. known_peers \cap Unspecified = {}
  BY DEF IInv, KnownGood
<1>2. /\ node' = [run |-> "up", bind |-> bind, starts |-> node.starts + 1]
      /\ known_peers' = good
      /\ conns' = [i \in DOMAIN order |-> NewConn(order[i], "connecting")]
      /\ active_peers' = [a \in Addr |-> IF a \in good
                                         THEN CHOOSE i \in DOMAIN order : order[i] = a ELSE 0]
      /\ UNCHANGED <<call, reconnect>>
  BY <1>1 DEF Start
<1>3. IsFiniteSet(good) /\ good \subseteq Addr /\ good \cap Unspecified = {}
  BY <1>1, FS_Subset, FS_Intersection DEF IInv, KnownGood, Typed
<1>4. /\ n \in Nat
      /\ order \in [1..n -> good]
      /\ \A a \in good : \E i \in 1..n : order[i] = a
      /\ \A i, j \in 1..n : order[i] = order[j] => i = j
  BY <1>3, OrderedIsBijection
<1> HIDE DEF good, order, n
<1>5. conns' \in [1..n -> Conn]
  <2>1. ASSUME NEW i \in 1..n PROVE NewConn(order[i], "connecting") \in Conn
    BY <1>3, <1>4, EmptySeq DEF NewConn, Conn, TaskState
  <2> QED
    BY <1>2, <1>4, <2>1
<1>6. conns' \in Seq(Conn) /\ Len(conns') = n /\ DOMAIN conns' = 1..n
  BY <1>4, <1>5, LenProperties
<1>7. \A i \in 1..n : conns'[i].addr = order[i]
  BY <1>2, <1>4 DEF NewConn
<1>8. \A a \in good : active_peers'[a] \in 1..n /\ order[active_peers'[a]] = a
  BY <1>2, <1>3, <1>4
<1>9. active_peers' \in [Addr -> 0..n]
  BY <1>2, <1>3, <1>4, <1>8
<1>10. call' = Idle /\ reconnect' = {} /\ node.starts \in Nat
  BY <1>2 DEF IInv, Typed, DownIsEmpty, Start
<1>11. Typed'
  <2>1. node' \in [run : {"down", "up", "failed"}, bind : Bind, starts : Nat]
    BY <1>2, <1>10
  <2>2. call' \in [Callers -> 0..Len(conns')]
    BY <1>4, <1>6, <1>10 DEF Idle
  <2> QED
    BY <1>2, <1>3, <1>6, <1>9, <1>10, <2>1, <2>2 DEF Typed
<1>12. TasksAreOwned'
  <2> SUFFICES ASSUME NEW i \in 1..n PROVE active_peers'[conns'[i].addr] = i
    BY <1>6 DEF TasksAreOwned
  <2> QED
    BY <1>4, <1>7, <1>8
<1> QED
  BY <1>2, <1>3, <1>11, <1>12 DEF IInv, KnownGood, DownIsEmpty, KnownPeersStart

\* The end of the process.
LEMMA CrashInvariant ==
    ASSUME IInv, Crash
    PROVE  IInv'
<1>1. conns' = << >> /\ conns' \in Seq(Conn) /\ Len(conns') = 0 /\ DOMAIN conns' = {}
  BY EmptySeq DEF Crash
<1>2. Typed'
  <2>1. node' \in [run : {"down", "up", "failed"}, bind : Bind, starts : Nat]
    BY DEF IInv, Typed, Crash
  <2>2. active_peers' \in [Addr -> 0..0] /\ call' \in [Callers -> 0..0]
    BY DEF Crash, NoPeers, Idle
  <2> QED
    BY <1>1, <2>1, <2>2 DEF IInv, Typed, Crash
<1> QED
  BY <1>1, <1>2 DEF IInv, Crash, KnownGood, DownIsEmpty, TasksAreOwned, KnownPeersStart

\* A connection begins: its handle is with the caller.
LEMMA BeginInvariant ==
    ASSUME IInv, NEW caller \in Callers, NEW a \in Addr \ Unspecified,
           NEW task \in {"connecting", "connected"}, Begin(caller, a, task),
           reconnect' \in SUBSET reconnect
    PROVE  IInv'
<1> DEFINE n == Len(conns)
           c == NewConn(a, task)
<1>1. conns \in Seq(Conn) /\ n \in Nat /\ DOMAIN conns = 1..n
  BY LenProperties DEF IInv, Typed
<1>2. c \in Conn /\ c.addr = a
  BY EmptySeq DEF NewConn, Conn, TaskState
<1>3. conns' = Append(conns, c)
  BY DEF Begin
<1> HIDE DEF c
<1>4. /\ conns' \in Seq(Conn) /\ Len(conns') = n + 1
      /\ \A i \in 1..n : conns'[i] = conns[i]
  BY <1>1, <1>2, <1>3, AppendProperties
<1>5. DOMAIN conns' = 1..(n + 1)
  BY <1>4, LenProperties
<1>6. call' = [call EXCEPT ![caller] = n + 1] /\ call[caller] = 0 /\ active_peers' = active_peers
  BY <1>4 DEF Begin
<1>7. Typed'
  <2>1. call' \in [Callers -> 0..(n + 1)]
    BY <1>1, <1>6 DEF IInv, Typed
  <2>2. active_peers' \in [Addr -> 0..(n + 1)]
    BY <1>1, <1>6 DEF IInv, Typed
  <2>3. reconnect' \in SUBSET (1..(n + 1))
    BY <1>1 DEF IInv, Typed
  <2> QED
    BY <1>4, <2>1, <2>2, <2>3 DEF IInv, Typed, Begin
<1>8. KnownGood'
  BY FS_AddElement DEF IInv, KnownGood, Begin
<1>9. TasksAreOwned'
  <2> SUFFICES ASSUME NEW i \in 1..(n + 1), Live(conns'[i])
               PROVE  \/ active_peers'[conns'[i].addr] = i
                      \/ \E other \in Callers : call'[other] = i
    BY <1>5 DEF TasksAreOwned
  <2>1. call \in [Callers -> 0..n]
    BY DEF IInv, Typed
  <2>2. CASE i = n + 1
    BY <1>6, <2>1, <2>2
  <2>3. CASE i \in 1..n
    <3>1. Live(conns[i]) /\ conns'[i] = conns[i]
      BY <1>4, <2>3
    <3>2. active_peers[conns[i].addr] = i \/ \E other \in Callers : call[other] = i
      BY <1>1, <2>3, <3>1 DEF IInv, TasksAreOwned
    <3> QED
      BY <1>1, <1>6, <2>1, <2>3, <3>1, <3>2
  <2> QED
    BY <1>1, <2>2, <2>3
<1> QED
  BY <1>7, <1>8, <1>9 DEF IInv, Begin, DownIsEmpty, KnownPeersStart

\* A handle goes into the table, or is dropped.
LEMMA AddInvariant ==
    ASSUME IInv, NEW caller \in Callers, AddActivePeer(caller)
    PROVE  IInv'
<1> DEFINE n == Len(conns)
           i == call[caller]
           a == conns[i].addr
<1>1. conns \in Seq(Conn) /\ n \in Nat /\ DOMAIN conns = 1..n
  BY LenProperties DEF IInv, Typed
<1>2. call \in [Callers -> 0..n] /\ active_peers \in [Addr -> 0..n]
  BY DEF IInv, Typed
<1>3. i \in 1..n
  BY <1>1, <1>2 DEF AddActivePeer
<1>4. conns[i] \in Conn
  BY <1>1, <1>3, ElementOfSeq
<1>5. a \in Addr
  BY <1>4 DEF Conn
<1>6. /\ conns' \in Seq(Conn) /\ Len(conns') = n /\ DOMAIN conns' = 1..n
      /\ \A j \in 1..n : /\ conns'[j].addr = conns[j].addr
                         /\ Live(conns'[j]) => Live(conns[j])
  <2>1. CASE conns' = conns
    BY <1>1, <2>1
  <2>2. CASE conns' = DropHandle(conns, i)
    BY <1>1, <1>3, <2>2, Dropped, LenProperties
  <2> QED
    BY <2>1, <2>2 DEF AddActivePeer
<1>7. call' = [call EXCEPT ![caller] = 0] /\ UNCHANGED <<known_peers, node, reconnect>>
  BY DEF AddActivePeer
<1>8. active_peers' = IF active_peers[a] = 0 THEN [active_peers EXCEPT ![a] = i] ELSE active_peers
  BY DEF AddActivePeer
<1>9. Typed'
  <2>1. active_peers' \in [Addr -> 0..n]
    BY <1>2, <1>3, <1>5, <1>8
  <2>2. call' \in [Callers -> 0..n]
    BY <1>1, <1>2, <1>7
  <2> QED
    BY <1>6, <1>7, <2>1, <2>2 DEF IInv, Typed
<1>10. TasksAreOwned'
  <2> SUFFICES ASSUME NEW j \in 1..n, Live(conns'[j])
               PROVE  \/ active_peers'[conns'[j].addr] = j
                      \/ \E other \in Callers : call'[other] = j
    BY <1>6 DEF TasksAreOwned
  <2>1. active_peers[conns[j].addr] = j \/ \E other \in Callers : call[other] = j
    BY <1>1, <1>6 DEF IInv, TasksAreOwned
  <2>2. conns[j].addr \in Addr
    <3>1. conns[j] \in Conn
      BY <1>1, ElementOfSeq
    <3> QED
      BY <3>1 DEF Conn
  <2>3. CASE j = i
    <3>1. conns' # DropHandle(conns, i)
      BY <1>1, <1>3, <2>3, Dropped
    <3>2. active_peers[a] = 0
      BY <3>1 DEF AddActivePeer
    <3> QED
      BY <1>2, <1>5, <1>6, <1>8, <2>3, <3>2
  <2>4. CASE j # i /\ active_peers[conns[j].addr] = j
    BY <1>2, <1>5, <1>6, <1>8, <2>2, <2>4
  <2>5. CASE j # i /\ \E other \in Callers : call[other] = j
    BY <1>2, <1>6, <1>7, <2>5
  <2> QED
    BY <2>1, <2>3, <2>4, <2>5
<1>11. DownIsEmpty'
  <2>1. node.run # "down"
    BY <1>1, <1>2, <1>3 DEF IInv, DownIsEmpty, Idle
  <2> QED
    BY <1>7, <2>1 DEF DownIsEmpty
<1> QED
  BY <1>7, <1>9, <1>10, <1>11 DEF IInv, KnownGood, KnownPeersStart

-----------------------------------------------------------------------------
\* A step of a connection's task: the task may end.
LEMMA TaskInvariant ==
    ASSUME IInv, NEW i \in DOMAIN conns, NEW c \in Conn,
           conns' = [conns EXCEPT ![i] = c],
           c.addr = conns[i].addr, Live(c) => Live(conns[i]),
           UNCHANGED <<known_peers, node, active_peers, call, reconnect>>
    PROVE  IInv'
<1>1. conns \in Seq(Conn) /\ DOMAIN conns = 1..Len(conns)
  BY LenProperties DEF IInv, Typed
<1>2. /\ conns' \in Seq(Conn) /\ Len(conns') = Len(conns)
      /\ \A j \in DOMAIN conns : /\ conns'[j].addr = conns[j].addr
                                 /\ Live(conns'[j]) => Live(conns[j])
  BY <1>1, UpdateConn
<1>3. DOMAIN conns' = DOMAIN conns
  BY <1>1, <1>2, LenProperties
<1>4. node.run # "down"
  BY <1>1, EmptySeq DEF IInv, DownIsEmpty
<1> QED
  BY <1>2, <1>3, <1>4 DEF IInv, Typed, KnownGood, DownIsEmpty, TasksAreOwned, KnownPeersStart

\* The task connects: the handle stays where it is.
LEMMA ConnectedInvariant ==
    ASSUME IInv, NEW i \in DOMAIN conns, Connected(i)
    PROVE  IInv'
<1>1. conns[i] \in Conn
  BY LenProperties, ElementOfSeq DEF IInv, Typed
<1> DEFINE c == [conns[i] EXCEPT !.task = "connected"]
<1>2. c \in Conn /\ c.addr = conns[i].addr /\ Live(conns[i])
  BY <1>1 DEF Conn, TaskState, Connected, Live
<1>3. conns' = [conns EXCEPT ![i] = c]
  BY DEF Connected
<1> QED
  BY <1>2, <1>3, TaskInvariant DEF Connected

\* The task receives a message: the handle stays where it is.
LEMMA ReceiveInvariant ==
    ASSUME IInv, NEW i \in DOMAIN conns, ReceiveMessage(i)
    PROVE  IInv'
<1>1. conns[i] \in Conn
  BY LenProperties, ElementOfSeq DEF IInv, Typed
<1> DEFINE c == [conns[i] EXCEPT !.received_msg_successfully = TRUE]
<1>2. c \in Conn /\ c.addr = conns[i].addr /\ Live(conns[i])
  BY <1>1 DEF Conn, TaskState, ReceiveMessage, Live
<1>3. conns' = [conns EXCEPT ![i] = c]
  BY DEF ReceiveMessage
<1> QED
  BY <1>2, <1>3, TaskInvariant DEF ReceiveMessage

\* The task forwards an answer: the handle stays where it is.
LEMMA ForwardInvariant ==
    ASSUME IInv, NEW i \in DOMAIN conns, ForwardInvalid(i)
    PROVE  IInv'
<1>1. conns[i] \in Conn
  BY LenProperties, ElementOfSeq DEF IInv, Typed
<1> DEFINE c == [conns[i] EXCEPT !.info = Append(@, "InvalidResponse")]
<1>2. Append(conns[i].info, "InvalidResponse") \in Seq(InfoItem)
  BY <1>1, AppendProperties DEF Conn, InfoItem
<1>3. c \in Conn /\ c.addr = conns[i].addr /\ Live(conns[i])
  BY <1>1, <1>2 DEF Conn, TaskState, ForwardInvalid, Live
<1>4. conns' = [conns EXCEPT ![i] = c]
  BY DEF ForwardInvalid
<1> QED
  BY <1>3, <1>4, TaskInvariant DEF ForwardInvalid

\* The task ends by itself, with an info for the net task.
LEMMA EndsInvariant ==
    ASSUME IInv, NEW i \in DOMAIN conns, NEW error \in {"HeartbeatTimeout", "Error"},
           TaskEnds(i, error)
    PROVE  IInv'
<1>1. conns[i] \in Conn
  BY LenProperties, ElementOfSeq DEF IInv, Typed
<1> DEFINE c == [conns[i] EXCEPT !.task = "ended", !.info = @ \o <<error, "None">>]
<1>2. conns[i].info \o <<error, "None">> \in Seq(InfoItem)
  BY <1>1, ConcatProperties DEF Conn, InfoItem
<1>3. c \in Conn /\ c.addr = conns[i].addr /\ Live(conns[i])
  BY <1>1, <1>2 DEF Conn, TaskState, TaskEnds
<1>4. conns' = [conns EXCEPT ![i] = c]
  BY DEF TaskEnds
<1> QED
  BY <1>3, <1>4, TaskInvariant DEF TaskEnds

\* The net task takes an info and removes the handle for its address.
LEMMA InfoInvariant ==
    ASSUME IInv, NEW i \in DOMAIN conns, HandleInfo(i)
    PROVE  IInv'
<1> DEFINE n == Len(conns)
           a == conns[i].addr
           read == [conns EXCEPT ![i].info = Tail(@)]
<1>1. conns \in Seq(Conn) /\ n \in Nat /\ DOMAIN conns = 1..n /\ conns[i] \in Conn
  BY LenProperties, ElementOfSeq DEF IInv, Typed
<1>2. /\ conns[i].info # << >>
      /\ conns' = DropHandle(read, active_peers[a])
      /\ active_peers' = [active_peers EXCEPT ![a] = 0]
      /\ UNCHANGED <<known_peers, node, call>>
      /\ reconnect' \in SUBSET (reconnect \cup {i})
  BY DEF HandleInfo, InvalidResponse, HeartbeatTimeout, PeerError, PeerClosed, NextInfo,
         RemoveActivePeer
<1>3. /\ read \in Seq(Conn) /\ Len(read) = n
      /\ \A j \in 1..n : read[j].addr = conns[j].addr /\ read[j].task = conns[j].task
  <2> DEFINE c == [conns[i] EXCEPT !.info = Tail(@)]
  <2>1. Tail(conns[i].info) \in Seq(InfoItem)
    BY <1>1, <1>2, HeadTailProperties DEF Conn
  <2>2. c \in Conn /\ c.addr = conns[i].addr /\ c.task = conns[i].task
    BY <1>1, <2>1 DEF Conn
  <2>3. read = [conns EXCEPT ![i] = c]
    OBVIOUS
  <2> HIDE DEF c, read
  <2> QED
    BY <1>1, <2>2, <2>3, UpdateConn
<1> HIDE DEF read
<1>4. a \in Addr /\ active_peers \in [Addr -> 0..n] /\ active_peers[a] \in Nat
  BY <1>1 DEF Conn, IInv, Typed
<1>5. /\ conns' \in Seq(Conn) /\ Len(conns') = n
      /\ \A j \in 1..n : /\ conns'[j].addr = conns[j].addr
                         /\ Live(conns'[j]) => Live(conns[j]) /\ j # active_peers[a]
  BY <1>2, <1>3, <1>4, Dropped DEF Live
<1>6. DOMAIN conns' = 1..n
  BY <1>5, LenProperties
<1>7. Typed'
  <2>1. active_peers' \in [Addr -> 0..n]
    BY <1>1, <1>2, <1>4
  <2>2. reconnect' \in SUBSET (1..n)
    BY <1>1, <1>2 DEF IInv, Typed
  <2> QED
    BY <1>2, <1>5, <2>1, <2>2 DEF IInv, Typed
<1>8. TasksAreOwned'
  <2> SUFFICES ASSUME NEW j \in 1..n, Live(conns'[j])
               PROVE  \/ active_peers'[conns'[j].addr] = j
                      \/ \E caller \in Callers : call'[caller] = j
    BY <1>6 DEF TasksAreOwned
  <2>1. Live(conns[j]) /\ j # active_peers[a] /\ conns'[j].addr = conns[j].addr
    BY <1>5
  <2>2. active_peers[conns[j].addr] = j \/ \E caller \in Callers : call[caller] = j
    BY <1>1, <2>1 DEF IInv, TasksAreOwned
  <2>3. conns[j].addr \in Addr
    <3>1. conns[j] \in Conn
      BY <1>1, ElementOfSeq
    <3> QED
      BY <3>1 DEF Conn
  <2> QED
    BY <1>2, <1>4, <2>1, <2>2, <2>3
<1>9. node.run # "down"
  BY <1>1, EmptySeq DEF IInv, DownIsEmpty
<1> QED
  BY <1>2, <1>7, <1>8, <1>9 DEF IInv, KnownGood, DownIsEmpty, KnownPeersStart

\* The timer of a reconnection.
LEMMA ReconnectInvariant ==
    ASSUME IInv, NEW i \in DOMAIN conns, ReconnectPeer(i)
    PROVE  IInv'
<1> DEFINE a == conns[i].addr
<1>1. conns[i] \in Conn
  BY LenProperties, ElementOfSeq DEF IInv, Typed
<1>2. a \in Addr
  BY <1>1 DEF Conn
<1>3. reconnect' \in SUBSET reconnect
  BY DEF ReconnectPeer
<1>4. CASE ConnectPeer("net", a)
  BY <1>2, <1>3, <1>4, BeginInvariant DEF ConnectPeer, Callers
<1>5. CASE UNCHANGED <<known_peers, node, conns, active_peers, call>>
  BY <1>3, <1>5 DEF IInv, Typed, KnownGood, DownIsEmpty, TasksAreOwned, KnownPeersStart
<1> QED
  BY <1>4, <1>5 DEF ReconnectPeer

\* Every step of the node, its callers, its peers and its net task.
LEMMA NextInvariant == IInv /\ [Next]_vars => IInv'
<1> SUFFICES ASSUME IInv, [Next]_vars PROVE IInv'
  OBVIOUS
<1>1. ASSUME NEW bind \in Bind, Start(bind) PROVE IInv'
  BY <1>1, StartInvariant
<1>2. CASE Crash
  BY <1>2, CrashInvariant
<1>3. ASSUME NEW a \in Addr, RpcConnectPeer(a) PROVE IInv'
  BY <1>3, BeginInvariant DEF RpcConnectPeer, ConnectPeer, Callers
<1>4. ASSUME NEW a \in Addr, AcceptIncoming(a) PROVE IInv'
  BY <1>4, BeginInvariant DEF AcceptIncoming, Callers
<1>5. ASSUME NEW a \in Addr, ForgetPeer(a) PROVE IInv'
  <2>1. IsFiniteSet(known_peers \ {a})
    BY FS_RemoveElement DEF IInv, KnownGood
  <2> QED
    BY <1>5, <2>1
       DEF ForgetPeer, IInv, Typed, KnownGood, DownIsEmpty, TasksAreOwned, KnownPeersStart
<1>6. ASSUME NEW caller \in Callers, AddActivePeer(caller) PROVE IInv'
  BY <1>6, AddInvariant
<1>7. ASSUME NEW i \in DOMAIN conns, Connected(i) \/ ReceiveMessage(i) \/ ForwardInvalid(i)
      PROVE  IInv'
  BY <1>7, ConnectedInvariant, ReceiveInvariant, ForwardInvariant
<1>8. ASSUME NEW i \in DOMAIN conns, NEW error \in {"HeartbeatTimeout", "Error"},
             TaskEnds(i, error)
      PROVE  IInv'
  BY <1>8, EndsInvariant
<1>9. ASSUME NEW i \in DOMAIN conns, HandleInfo(i) \/ ReconnectPeer(i) PROVE IInv'
  BY <1>9, InfoInvariant, ReconnectInvariant
<1>10. CASE UNCHANGED vars
  BY <1>10 DEF vars, IInv, Typed, KnownGood, DownIsEmpty, TasksAreOwned, KnownPeersStart
<1> QED
  BY <1>1, <1>2, <1>3, <1>4, <1>5, <1>6, <1>7, <1>8, <1>9, <1>10 DEF Next

\* The invariant says what PeersSafe does.
LEMMA InvariantSafe == IInv => PeersSafe /\ KnownPeersStart
<1> SUFFICES ASSUME IInv PROVE TypeOK
  BY DEF PeersSafe, IInv
<1>1. conns \in Seq(Conn) /\ DOMAIN conns = 1..Len(conns)
  BY LenProperties DEF IInv, Typed
<1>2. \A i \in DOMAIN conns : conns[i] \in Conn
  BY <1>1, ElementOfSeq
<1> QED
  BY <1>1, <1>2 DEF IInv, Typed, TypeOK, Conn

\* "Connection killed on drop" (lib/net/peer/mod.rs): in every interleaving of
\* calls, incoming connections, ends of connections, timeouts, crashes and
\* starts, each task that runs is owned by the table under its address, or by
\* the call that is about to add it.
THEOREM TasksStayOwned == Spec => []PeersSafe
<1>1. Spec => Init /\ [][Next]_vars
  BY DEF Spec
<1> QED
  BY <1>1, InitInvariant, NextInvariant, InvariantSafe, PTL

\* Net::new never fails on what an earlier run of the node stored, whichever
\* address it is bound to now.
THEOREM NodeStarts == Spec => []KnownPeersStart
<1>1. Spec => Init /\ [][Next]_vars
  BY DEF Spec
<1> QED
  BY <1>1, InitInvariant, NextInvariant, InvariantSafe, PTL

=============================================================================
