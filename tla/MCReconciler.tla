---------------------------- MODULE MCReconciler ----------------------------
(* Small instances of Reconciler: two upstreams and a pinned one. *)
EXTENDS Reconciler

CONSTANTS d1, d2, d3, rest, x1, x2, y1, y2, z1, p1, e1, poll, hook, cli, status

MCElsewhere == rest
MCChange == {x1, x2, y1, y2, z1}
MCPatch == {p1}
MCLocalEdit == {e1}

Tracking(tips) == [kind |-> "import", tips |-> tips, pin |-> <<>>]
Pinned(h) == [kind |-> "vendor", tips |-> <<>>, pin |-> h]

\* d1 keeps a patch; d2 has none, but its upstream is rewritten; d3 is a snapshot.
Imports == {d1, d2}
ImportsTarget == d1 :> Tracking(<<p1>>) @@ d2 :> Tracking(<<>>)
ImportsTips == d1 :> {<<x1>>, <<x1, x2>>} @@ d2 :> {<<y1>>, <<y2>>}
All == {d1, d2, d3}
AllTarget == ImportsTarget @@ d3 :> Pinned(<<z1>>)
AllTips == d1 :> {<<x1>>} @@ d2 :> {<<y1>>, <<y2>>} @@ d3 :> {<<z1>>}

NoOne == {}
Server == {poll, hook}
OneThread == {hook}
OneCli == {cli}
OneStatus == {status}
=============================================================================
