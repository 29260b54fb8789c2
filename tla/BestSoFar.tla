----------------------------- MODULE BestSoFar -----------------------------
(* What a tuning run promises, without rounds, files or processes: points   *)
(* are measured at most once each, in any order; the run concludes once,    *)
(* and its choice is the best-ranked point measured by then.                *)
EXTENDS Scoring

CONSTANTS NoPoint, NoScore

VARIABLES measured, verdict, choice

vars == <<measured, verdict, choice>>

Measured == {p \in Points : measured[p] # NoScore}

Init ==
    /\ measured = [p \in Points |-> NoScore]
    /\ verdict = "open"
    /\ choice = NoPoint

Measure(p) ==
    /\ verdict = "open" /\ measured[p] = NoScore
    /\ \E s \in Scores : measured' = [measured EXCEPT ![p] = s]
    /\ UNCHANGED <<verdict, choice>>

ConcludeEmpty ==
    /\ verdict = "open" /\ Measured = {}
    /\ verdict' \in {"failed", "dry-run"}
    /\ UNCHANGED <<measured, choice>>

ConcludeBest ==
    /\ verdict = "open"
    /\ \E p \in SelectBest(Measured, measured) :
          /\ choice' = p
          /\ verdict' = IF Feasible(measured[p]) THEN "complete"
                        ELSE "no-feasible-candidate"
    /\ UNCHANGED measured

Next == (\E p \in Points : Measure(p)) \/ ConcludeEmpty \/ ConcludeBest

Spec == Init /\ [][Next]_vars
=============================================================================
