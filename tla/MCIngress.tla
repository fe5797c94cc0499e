------------------------------ MODULE MCIngress ------------------------------
(* Two imports and a vendor of one repository; an hour of three ticks.       *)
EXTENDS Ingress

CONSTANTS core, docs, tool, acme, main, gh, none

MCTarget == {core, docs, tool}
MCRepo == [t \in MCTarget |-> acme]
MCRef == core :> main @@ docs :> gh @@ tool :> none
MCEvent == {[kind |-> "push", repo |-> acme, ref |-> main],
            [kind |-> "push", repo |-> acme, ref |-> gh],
            [kind |-> "release", repo |-> acme, ref |-> none]}
=============================================================================
