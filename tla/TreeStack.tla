----------------------------- MODULE TreeStack -----------------------------
(***************************************************************************)
(* What the wallet needs of its note commitment tree: the tree of each     *)
(* block of the chain it follows, the last of which it can drop.  Depth 0  *)
(* is the tree of the tip, as in ShardTree::root_at_checkpoint_depth.      *)
(***************************************************************************)
EXTENDS Naturals, Sequences

CONSTANTS Block, NoBlock, Leaves(_, _), MaxLeaves

VARIABLE stack        \* of [tip, leaves], the tip last

Init == stack = <<[tip |-> NoBlock, leaves |-> << >>]>>

Top == stack[Len(stack)]

Connect(b, n) ==
    /\ \A i \in DOMAIN stack : stack[i].tip # b
    /\ stack' = Append(stack, [tip |-> b, leaves |-> Top.leaves \o Leaves(b, n)])

Disconnect ==
    /\ Len(stack) > 1
    /\ stack' = SubSeq(stack, 1, Len(stack) - 1)

\* A stack that does not grow is not that of a block connected: this is no
\* further condition, and TLC does not try every block for it.
Next ==
    \/ Disconnect
    \/ /\ Len(stack') > Len(stack)
       /\ \E b \in Block, n \in 0..MaxLeaves : Connect(b, n)

Spec == Init /\ [][Next]_stack

=============================================================================
