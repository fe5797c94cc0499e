----------------------------- MODULE MCReaction -----------------------------
(* One issue; one reaction drafts for every new issue, one for a label.       *)
EXTENDS Reaction

CONSTANTS one, wanted, draft, design, react

MCFilter == [r \in {draft, design} |->
               IF r = draft THEN [action |-> "opened", label |-> Any]
               ELSE [action |-> Any, label |-> wanted]]
MCOrder == <<draft, design>>
=============================================================================
