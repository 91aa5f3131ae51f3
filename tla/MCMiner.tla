------------------------------ MODULE MCMiner ------------------------------
(* Two calls of mine.                                                        *)
EXTENDS Miner

CONSTANTS c1, c2

=============================================================================
