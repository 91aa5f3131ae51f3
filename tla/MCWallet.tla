------------------------------ MODULE MCWallet ------------------------------
(* Others pay the wallet a note, by the second of two actions, and an        *)
(* output.                                                                   *)
EXTENDS Wallet

MCExternal ==
    <<Transaction({}, << >>, <<Action(NoNote, FALSE, 1), Action(NoNote, TRUE, 3)>>, << >>),
      Transaction({}, <<Output(TRUE, 7, FALSE)>>, << >>, << >>)>>

\* Bound: no reorg is explored after App::task has ended.  From then on mine
\* updates the wallet as the task did before, and no property reads `task'.
MCTaskEnded == ~task => reorgs = 0

=============================================================================
