----------------------------- MODULE MCMonorepo -----------------------------
(* A small instance of Monorepo: two destinations, two kinds of upstream     *)
(* change, one patch that conflicts with one of them, one agent.             *)
EXTENDS Monorepo

CONSTANTS d1, d2, rest, c1, c2, p1, a1, e1

MCDest == {d1, d2}
MCElsewhere == rest
MCChange == {c1, c2}
MCPatch == {p1}
MCAgent == {a1}
MCLocalEdit == {e1}
MCConflict == {<<p1, c2>>}
MCTainted == {c2}

Tracking(tips) == [kind |-> "import", tips |-> tips, pin |-> <<>>]
Pinned(h) == [kind |-> "vendor", tips |-> <<>>, pin |-> h]
MCDeclared == d1 :> {Tracking(<<p1, a1>>), Pinned(<<c1>>)} @@ d2 :> {Tracking(<<a1>>)}
=============================================================================
