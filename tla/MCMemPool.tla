----------------------------- MODULE MCMemPool -----------------------------
(***************************************************************************)
(* An instance of MemPool: a and b spend the same output, c spends an      *)
(* output of a, b and n reveal the nullifier of one note, and that note is *)
(* made by s, whose nullifier is a dummy's.                                *)
(***************************************************************************)
EXTENDS MemPool, TLC

MCTx == {"a", "b", "c", "n", "s"}
MCOutPoint == {"genesis1", "genesis2", "a0", "b0"}
MCInputs ==
    "a" :> {"genesis1"} @@ "b" :> {"genesis1"} @@ "c" :> {"a0"} @@ "n" :> {}
        @@ "s" :> {"genesis2"}
MCOutputs ==
    "a" :> {"a0"} @@ "b" :> {"b0"} @@ "c" :> {} @@ "n" :> {} @@ "s" :> {}
MCNullifiersOf ==
    "a" :> {} @@ "b" :> {"note"} @@ "c" :> {} @@ "n" :> {"note"}
        @@ "s" :> {"dummy"}
MCAnchorOf ==
    "a" :> {} @@ "b" :> {"s"} @@ "c" :> {} @@ "n" :> {"s"} @@ "s" :> {}

=============================================================================
