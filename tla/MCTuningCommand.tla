-------------------------- MODULE MCTuningCommand --------------------------
(* Two commands on one directory.  Two integer parameters on a 2 x 3 grid,  *)
(* one or up to three rounds, scores that tie, fail a constraint, or differ *)
(* in the objective.                                                        *)
EXTENDS TuningCommand

Grid == [gap : 0..1, width : 0..2]
Spec2(b, hi, st) == [kind |-> "integer", baseline |-> b, minimum |-> 0,
                     maximum |-> hi, step |-> st]
Search == INSTANCE CoordinateSearch WITH
    Names <- <<"gap", "width">>,
    Parameter <- [gap |-> Spec2(0, 1, 1), width |-> Spec2(1, 2, 1)],
    ShrinkNum <- 1, ShrinkDen <- 2, Grain <- 1

MCBaseline == Search!BaselinePoint
\* The proposals of every center and round, computed once.
Table == {[center |-> c, round |-> r, near |-> Search!Proposals(c, r)] :
             c \in Grid, r \in 1..MaxRounds}
MCNeighborhood(c, r) == (CHOOSE t \in Table : t.center = c /\ t.round = r).near
MCScores == {[violation |-> 0, objective |-> 1],
             [violation |-> 0, objective |-> 2],
             [violation |-> 1, objective |-> 2]}
\* An order of the ids unrelated to that of the parameter values, in which
\* some points come before the baseline (they replace it in a tie).
MCIdOrder == [p \in Grid |-> (5 * (3 * p.gap + p.width)) % 7]
MCBudgets == [rounds : {1, 3}, cap : {1, 2, 4}, dry : BOOLEAN]
MCInvocations == {"first", "second"}
=============================================================================
