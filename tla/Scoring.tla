------------------------------ MODULE Scoring ------------------------------
(* The ranking of tuning/scoring.py: constraint-first, then the weighted    *)
(* objective, then the stable candidate id.  A score is abstracted to the   *)
(* two numbers the rank depends on: the total normalized constraint         *)
(* violation (0 exactly when every hard constraint passed) and the          *)
(* objective score.  Python compares ids as strings; IdOrder gives the      *)
(* position of each candidate's SHA-256 id in that order.                   *)
EXTENDS Integers

CONSTANTS Points,   \* the parameter assignments, one candidate id each
          Scores,   \* records [violation, objective] an evaluation may give
          IdOrder   \* position of a point's candidate id in string order

ASSUME ScoresAssumption ==
    \A s \in Scores : s.violation \in Nat /\ s.objective \in Int
ASSUME IdOrderAssumption ==
    /\ IdOrder \in [Points -> Int]
    /\ \A p, q \in Points : IdOrder[p] = IdOrder[q] => p = q

\* score_metrics: feasible=total_violation == 0.
Feasible(s) == s.violation = 0

\* Mutant: the objective is compared before the constraints.
RankKeyObjectiveFirst(p, s) ==
    <<-s.objective, IF Feasible(s) THEN 0 ELSE 1, s.violation, IdOrder[p]>>

\* Score.rank_key.
RankKey(p, s) ==
    <<IF Feasible(s) THEN 0 ELSE 1, s.violation, -s.objective, IdOrder[p]>>

\* Python's "<" on tuples of four numbers.
KeyLess(k, l) ==
    \E i \in 1..4 : k[i] < l[i] /\ \A j \in 1..(i - 1) : k[j] = l[j]

\* Candidate p with score s ranks strictly before candidate q with score t.
Outranks(p, s, q, t) == KeyLess(RankKey(p, s), RankKey(q, t))

\* select_best: min(values, key=rank_key), as the set of the minimal
\* candidates of C under the scores in sc (empty or a singleton).
SelectBest(C, sc) ==
    {p \in C : \A q \in C \ {p} : Outranks(p, sc[p], q, sc[q])}
=============================================================================
