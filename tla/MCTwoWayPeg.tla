---------------------------- MODULE MCTwoWayPeg ----------------------------
(***************************************************************************)
(* Constants of the runs of TwoWayPeg.                                     *)
(***************************************************************************)
EXTENDS TwoWayPeg, TLC

CONSTANTS d1, w1, w2

\* A bundle that a block of this chain may collect at height 1, before or after
\* the mainchain reports it.
MCProposed == {[height |-> 1, spend |-> {w1, w2}]}
MCNoneProposed == {}

\* Everything fits in one bundle.
MCSelected == [ws \in SUBSET Withdrawal |-> ws]

\* The two withdrawals are interchangeable.
MCSymmetry == Permutations({w1, w2})

\* Bound: a behaviour ends when it has more events than this about proposed
\* bundles.
CONSTANT MaxReported
FewReported ==
    Cardinality({i \in DOMAIN main : main[i].kind # "Deposit" /\ main[i].of \in Proposed})
        =< MaxReported

\* Bound: nothing is explored after genesis was disconnected by a build without
\* overflow checks.
MCBeforeWrap == "genesis_wraps" \notin defects

=============================================================================
