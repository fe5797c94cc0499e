---------------------------- MODULE SerialBranch ----------------------------
(***************************************************************************)
(* What a monorepo branch that several processes reconcile should be: as   *)
(* if whole reconciles happened one after the other, each of one target,   *)
(* from the branch the one before it left and with a tip that target's own *)
(* upstream really had.  What a reconcile computes is a parameter.         *)
(***************************************************************************)
EXTENDS Integers, Sequences, SequencesExt

CONSTANTS
  Dest,
  History,                   \* what an upstream's tip is
  target,                    \* what is declared for each destination
  CanReconcile(_, _, _, _),  \* branch, destination, target and tip: it succeeds
  Reconciled(_, _, _, _)     \* ... and leaves this branch

VARIABLES served, \* every tip each upstream has had, the current one last
          branch  \* refs/heads/<default_branch>

vars == <<served, branch>>

Init == /\ served \in [Dest -> Seq(History)] /\ \A d \in Dest : Len(served[d]) = 1
        /\ branch = <<>>

Publish(d) ==
  /\ served'[d] \in Seq(History)
  /\ served' = [served EXCEPT ![d] = Append(@, Last(served'[d]))]
  /\ UNCHANGED branch

ReconcileWhole(d) ==
  /\ \E k \in DOMAIN served[d] :
       /\ CanReconcile(branch, d, target[d], served[d][k])
       /\ branch' = Reconciled(branch, d, target[d], served[d][k])
  /\ UNCHANGED served

Next == \E d \in Dest : Publish(d) \/ ReconcileWhole(d)
Spec == Init /\ [][Next]_vars
=============================================================================
