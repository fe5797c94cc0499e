------------------------------ MODULE MCAgents ------------------------------
(* One tree; an agent that always edits it, in two ways, and one that may    *)
(* leave it as it is.                                                        *)
EXTENDS Agents, TLC

CONSTANTS p1, p2, base, good, bad, review, opus, flash, lineA, lineB

MCContent == {base, good, bad}
Opus == [files |-> base, prompt |-> review, agent |-> opus]
Flash == [files |-> base, prompt |-> review, agent |-> flash]
MCRequest == {Opus, Flash}
MCLine == opus :> lineA @@ flash :> lineB
MCOutcome == [a \in {[files |-> base, prompt |-> review, line |-> l] : l \in {lineA, lineB}} |->
                IF a.line = lineA THEN {good, bad} ELSE {base}]
MCProcess == {p1, p2}
MCTask == p1 :> [request : {Opus}, via : {"verified", "remote"}]
          @@ p2 :> [request : {Opus}, via : {"remote"}] \cup [request : {Flash}, via : {"plain"}]
MCVerified == {good}
=============================================================================
