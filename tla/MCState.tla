------------------------------ MODULE MCState ------------------------------
(***************************************************************************)
(* Instances of what is connected and disconnected block by block: the     *)
(* two-way peg, the shielded pool and the wallet's note commitment tree.   *)
(* The modules have no variable in common and one run checks them: each of *)
(* its behaviours is one of TwoWayPeg, ShieldedPool or ShardTreeDb, as     *)
(* `part' says, with the others in their initial states, and each property *)
(* is about the variables of one of them.                                  *)
(*                                                                         *)
(* The wallet has four blocks of up to three leaves, in shards of two:     *)
(* blocks without leaves, blocks that start and end within a shard, and    *)
(* blocks that fill one.                                                   *)
(***************************************************************************)
EXTENDS MCTwoWayPeg, MCShieldedPool, ShardTreeDb

VARIABLE part

PegMoves == part = "peg" /\ UNCHANGED <<part, pool_vars, store_vars>>
ShieldedMoves == part = "shielded" /\ UNCHANGED <<part, vars, store_vars>>
StoreMoves == part = "store" /\ UNCHANGED <<part, vars, pool_vars>>

MCInit == Init /\ PoolInit /\ StoreInit /\ part \in {"peg", "shielded", "store"}

MCNext ==
    \/ PegMoves /\ \E spent \in SUBSET db.utxos, created \in SUBSET Withdrawal :
          ConnectBody(spent, created)
    \/ /\ PegMoves
       /\ txn.phase = "connect"
       /\ \E m \in NextMainBlocks :
             \/ \E o \in Deposit : ConnectDeposit(m, o)
             \/ \E m6id \in M6id : \/ ConnectSubmitted(m, m6id)
                                   \/ ConnectConfirmed(m, m6id)
                                   \/ ConnectFailed(m, m6id)
    \/ PegMoves /\ FinishConnect
    \/ PegMoves /\ BeginDisconnect
    \/ PegMoves /\ DisconnectDeposit
    \/ PegMoves /\ DisconnectSubmitted
    \/ PegMoves /\ DisconnectConfirmed
    \/ PegMoves /\ DisconnectFailed
    \/ PegMoves /\ FinishDisconnect
    \/ PegMoves /\ Restart
    \/ ShieldedMoves /\ \E body \in Bodies : ConnectBlock(body)
    \/ ShieldedMoves /\ DisconnectTip
    \/ StoreMoves /\ DisconnectOrchardBlock
    \/ StoreMoves /\ \E block \in WalletBlock, n \in 0..MaxLeaves :
          ConnectOrchardBlock(block, n)

MCSpec == MCInit /\ [][MCNext]_<<part, vars, pool_vars, store_vars>>

=============================================================================
