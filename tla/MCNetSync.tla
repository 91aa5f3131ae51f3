---------------------------- MODULE MCNetSync ----------------------------
(***************************************************************************)
(* An instance of NetSync.  The node begins on a, the child of g.  The     *)
(* branch x-y-z is better than c, m and v, which extend a, and two of its  *)
(* bodies are requested at a time.                                         *)
(***************************************************************************)
EXTENDS NetSync, TLC

MCParent == "g" :> "none" @@ "a" :> "g" @@ "x" :> "g" @@ "y" :> "x" @@ "z" :> "y"
                @@ "m" :> "a" @@ "c" :> "a" @@ "v" :> "a"
MCBlock == DOMAIN MCParent
MCHeight(b) == Len(Chain[b])
MCBetter == {<<s, t>> \in MCBlock \X MCBlock : MCHeight(s) < MCHeight(t)}
MCUnclear == {<<s, t>> \in MCBlock \X MCBlock : MCHeight(s) = MCHeight(t) /\ s # t}

\* A peer moves from c, whose mainchain block is late, to z, while m is mined.
MCMoves == [announced |-> "p" :> <<"c", "z">> @@ "q" :> <<"g">>,
            connects |-> "p" :> 1 @@ "q" :> 0,
            mined |-> {"m"}, late |-> {"c"}, invalid |-> {}]
\* The connection to a peer is lost.
MCLost == [announced |-> "p" :> <<"z">> @@ "q" :> <<"g">>,
           connects |-> "p" :> 2 @@ "q" :> 0,
           mined |-> {}, late |-> {}, invalid |-> {}]
\* Two peers, one with an invalid block.
MCInvalid == [announced |-> "p" :> <<"z">> @@ "q" :> <<"v">>,
              connects |-> "p" :> 1 @@ "q" :> 1,
              mined |-> {}, late |-> {}, invalid |-> {"v"}]
\* The last block of the better branch is invalid, and one is mined.
MCEndInvalid == [announced |-> "p" :> <<"z">> @@ "q" :> <<"g">>,
                 connects |-> "p" :> 1 @@ "q" :> 0,
                 mined |-> {"m"}, late |-> {}, invalid |-> {"z"}]
MCScenarios == {MCMoves, MCLost, MCInvalid, MCEndInvalid}

=============================================================================
