-------------------------- MODULE MCArchiveMemPool --------------------------
(***************************************************************************)
(* Instances of the archive and of the memory pool.  The two have no       *)
(* variable in common and one run checks them: each of its behaviours is   *)
(* one of Archive or of MemPool, as `part' says, with the other in its     *)
(* initial state, and each property is about the variables of one of them. *)
(*                                                                         *)
(* The mainchain 1-2-3 has the branches 4-5-6 and 7-8-9.  The trunk        *)
(* commits to a, b and a rival e of b; the branches to c after b and to w  *)
(* after e, at equal heights and equal work.  Then d follows c, f has a    *)
(* parent x, a second genesis, that no block commits to, and with more     *)
(* work than d, y goes back to a and z to e, so that the ancestor b of d   *)
(* is as high as y and lower than z.                                       *)
(***************************************************************************)
EXTENDS MCMemPool, Archive

MCMainParent == <<0, 1, 2, 3, 4, 5, 3, 7, 8>>
MCWork == <<1, 1, 1, 1, 1, 1, 1, 3, 1>>
MCCommitment == <<"a", "b", "e", "c", "d", "f", "w", "y", "z">>
MCSideBlock == {"a", "b", "c", "d", "e", "f", "w", "x", "y", "z"}
MCPrevSide ==
    "a" :> "none" @@ "b" :> "a" @@ "c" :> "b" @@ "d" :> "c" @@ "e" :> "a"
        @@ "f" :> "x" @@ "w" :> "e" @@ "x" :> "none" @@ "y" :> "a" @@ "z" :> "e"
MCPrevMain ==
    "a" :> 0 @@ "b" :> 1 @@ "c" :> 3 @@ "d" :> 4 @@ "e" :> 2
        @@ "f" :> 5 @@ "w" :> 3 @@ "x" :> 0 @@ "y" :> 7 @@ "z" :> 8

\* Bounds: how many accepted transactions are on their way to the net task, and
\* how many headers there are at least when the one body arrives.
CONSTANTS MaxAccepted, MinHeaders

VARIABLE part

MemPoolMoves == part = "mempool" /\ UNCHANGED <<part, archive>>
ArchiveMoves == part = "archive" /\ UNCHANGED <<part, vars>>

MCInit == Init /\ ArchiveInit /\ part \in {"mempool", "archive"}

MCNext ==
    \/ MemPoolMoves /\ \E tx \in Tx : SubmitTransaction(tx)
    \/ /\ MemPoolMoves
       /\ Cardinality(accepted) < MaxAccepted
       /\ \E tx \in Tx : AcceptTransaction(tx)
    \/ MemPoolMoves /\ \E tx \in Tx : NewTransaction(tx)
    \/ MemPoolMoves /\ \E tx \in Tx : RemoveFromMempool(tx)
    \/ MemPoolMoves /\ GetTransactions
    \/ MemPoolMoves /\ DisconnectTip
    \/ MemPoolMoves /\ \E body \in SUBSET Tx : ConnectBlock(body)
    \/ MemPoolMoves /\ Commit
    \/ MemPoolMoves /\ Restart
    \/ ArchiveMoves /\ \E m \in MainBlock : RequestAncestorInfos(m)
    \/ ArchiveMoves /\ \E block \in SideBlock : StoreHeaders(block)
    \/ ArchiveMoves /\ \E block \in SideBlock : SubmitHeader(block)
    \/ /\ ArchiveMoves
       /\ Cardinality(archive.headers) >= MinHeaders
       /\ \E block \in SideBlock : StoreBody(block)

MCSpec == MCInit /\ [][MCNext]_<<part, vars, archive>>

=============================================================================
