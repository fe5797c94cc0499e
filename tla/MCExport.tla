------------------------------ MODULE MCExport ------------------------------
(* A small instance of Export: v1 and v1b differ in internal-only lines.     *)
EXTENDS Export

CONSTANTS v1, v1b, v2, v3, t1, t2, t3, absent

MCContent == {v1, v1b, v2}
MCShip == v1 :> t1 @@ v1b :> t1 @@ v2 :> t2
\* Nothing internal-only, for a pull request of two commits with an effect of its own.
PlainContent == {v1, v2, v3}
PlainShip == v1 :> t1 @@ v2 :> t2 @@ v3 :> t3
KeepTrailers == {"rebase", "squash"}
MergeCommits == {"rebase", "merge"}
=============================================================================
