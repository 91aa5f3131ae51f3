--------------------------- MODULE MCShieldedPool ---------------------------
(***************************************************************************)
(* An instance of ShieldedPool.  Two actions spend the same note, so that  *)
(* they double spend on one chain and are alternatives on two.             *)
(***************************************************************************)
EXTENDS ShieldedPool, FiniteSets, TLC

CONSTANTS a, b, c

MCAction == {a, b, c}
MCNullifierOf == a :> "note1" @@ b :> "note1" @@ c :> "note2"

OrchardBundle(anchor, spends) == [anchor |-> anchor, spends_enabled |-> spends]

Transparent == [actions |-> << >>, anchors |-> {}]

\* One or two actions and one or two bundles per body, or none; the anchors are
\* the empty tree, one that honest bundles meet, and one of the body itself.  A
\* frontier that is not restored makes for many states, hence the bound on the
\* archived frontiers.
Mixed ==
    {Transparent,
     [actions |-> <<a>>, anchors |-> {OrchardBundle(<< >>, FALSE)}],
     [actions |-> <<b>>, anchors |-> {OrchardBundle(<<b>>, TRUE)}],
     [actions |-> <<b>>, anchors |-> {OrchardBundle(<< >>, FALSE)}],
     [actions |-> <<a, b>>, anchors |-> {OrchardBundle(<< >>, FALSE)}],
     [actions |-> <<c>>, anchors |-> {OrchardBundle(<< >>, FALSE), OrchardBundle(<<a>>, TRUE)}]}

CONSTANT MaxArchived
FewArchived == Cardinality(DOMAIN orchard_frontiers) =< MaxArchived

=============================================================================
