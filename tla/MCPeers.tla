----------------------------- MODULE MCPeers -----------------------------
(***************************************************************************)
(* An instance of Peers: a seed node that can be connected to from one of  *)
(* two bind addresses, and an unspecified address.                         *)
(***************************************************************************)
EXTENDS Peers, TLC

MCConnectable == "v4" :> {"peer"} @@ "v6" :> {}

=============================================================================
