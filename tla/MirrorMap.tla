------------------------------ MODULE MirrorMap ------------------------------
(***************************************************************************)
(* What importing promises, apart from how the monorepo branch records it: *)
(* per destination the mirrored upstream history only ever grows, always   *)
(* up to the upstream's current tip, and a rewritten upstream is refused.  *)
(* The one exception is a change whose message already had a tip-layer     *)
(* trailer when it came from upstream: it may be taken back.               *)
(***************************************************************************)
EXTENDS Integers, Sequences, SequencesExt

CONSTANTS Dest, Change, Tainted

VARIABLES upstream, \* [Dest -> Seq(Change)], each upstream's history
          mirrored  \* [Dest -> Seq(Change)], how much of it is in the monorepo

vars == <<upstream, mirrored>>

Init == /\ upstream = [d \in Dest |-> <<>>]
        /\ mirrored = [d \in Dest |-> <<>>]

\* An upstream moves as it likes, force-pushes included.
Move(d) ==
  /\ upstream'[d] \in Seq(Change)
  /\ upstream' = [upstream EXCEPT ![d] = upstream'[d]]
  /\ UNCHANGED mirrored

\* The first k mirrored changes are all an import is held to.
Held(d, k) == \A j \in (k + 1)..Len(mirrored[d]) : mirrored[d][j] \in Tainted

CatchUp(d) ==
  /\ \E k \in 0..Len(mirrored[d]) :
       Held(d, k) /\ IsPrefix(SubSeq(mirrored[d], 1, k), upstream[d])
  /\ mirrored' = [mirrored EXCEPT ![d] = upstream[d]]
  /\ UNCHANGED upstream

Next == \E d \in Dest : Move(d) \/ CatchUp(d)
Spec == Init /\ [][Next]_vars
=============================================================================
