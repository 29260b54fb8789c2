------------------------- MODULE AcceptedExperiment -------------------------
(* What an experiment.json leads to: the loader (tuning/config.py) accepts  *)
(* or refuses what somebody has written; score_metrics (scoring.py) gives   *)
(* the metrics of an accepted result the two numbers that Scoring ranks by; *)
(* and the search (search.py) walks from the baseline, wherever the scores  *)
(* lead it.  Numbers are integers, and NotANumber stands for a value that   *)
(* is missing, of another type or not finite.  A violation is counted in    *)
(* Scale-ths, an objective in Scale-ths of all the weight.                  *)
EXTENDS Integers, Sequences, FiniteSets, FiniteSetsExt, SequencesExt

CONSTANTS Experiments,   \* raw experiments, see MCAcceptedExperiment
          Domains,       \* SYNTHETIC_METRIC_DOMAINS: metric -> <<min, max>>
          Contracts,     \* SYNTHETIC_PARAMETER_CONTRACTS:
                         \* name -> [kind, minimum, maximum]
          Samples,       \* the assignments of metrics within the domains
          MaxWeight, MaxRounds, MaxCap,   \* 1000, 20, 64
          Scale,         \* a multiple of every threshold and width of a range,
                         \* and not smaller than any metric
          Grain,         \* grains per tick, as in CoordinateSearch
          NotANumber

ASSUME ScoreAssumption ==
    /\ NotANumber \in Int /\ {MaxWeight, MaxRounds, MaxCap} \subseteq Nat
    /\ {Scale, Grain} \subseteq Nat \ {0}
    /\ IsFiniteSet(DOMAIN Contracts)
    /\ \A n \in DOMAIN Contracts : Contracts[n].kind \in {"integer", "float"}
    /\ \A m \in DOMAIN Domains :
          Domains[m] \in (-Scale..Scale) \X (-Scale..Scale) /\ Domains[m][1] <= Domains[m][2]
    /\ \A s \in Samples : /\ DOMAIN s = DOMAIN Domains
                          /\ \A m \in DOMAIN s : s[m] \in Domains[m][1]..Domains[m][2]

\* What the JSON of an experiment has been converted to.
ASSUME RawAssumption == \A e \in Experiments :
    /\ \A n \in DOMAIN e.parameters :
          e.parameters[n] \in
              [kind : STRING, baseline : Int, minimum : Int, maximum : Int, step : Int]
    /\ e.budget \in [rounds : Int, cap : Int] /\ e.shrink \in Int \X (Nat \ {0})
    /\ e.constraints \in Seq([metric : STRING, operator : STRING, threshold : Int])
    /\ e.objectives \in Seq([metric : STRING, direction : STRING, weight : Int,
                             low : Int, high : Int])

VARIABLES raw, pc,
          better, worse,   \* two candidates' metrics
          center, round    \* of the search
vars == <<raw, pc, better, worse, center, round>>

None == <<>>
IsNumber(v) == v # NotANumber
Between(v, low, high) == IsNumber(v) /\ low <= v /\ v <= high

----------------------------------------------------------------------------
\* load_config

\* Mutant: a step may vanish when it is rounded.
StepKeepsAny(p) == p.step > 0

\* step > 0 and, for a float, round(step, 12) # 0.
StepKeeps(p) == p.step > 0 /\ (p.kind = "float" => 2 * p.step > Grain)

\* One entry of _parameters, then its contract.
ParameterAccepted(name, p) ==
    /\ p.kind = Contracts[name].kind
    /\ \A v \in {p.baseline, p.minimum, p.maximum, p.step} : IsNumber(v)
    /\ p.minimum < p.maximum /\ StepKeeps(p)
    /\ Between(p.baseline, p.minimum, p.maximum)
    /\ p.step <= p.maximum - p.minimum
    /\ p.minimum >= Contracts[name].minimum /\ p.maximum <= Contracts[name].maximum

BudgetAccepted(b) ==
    /\ Between(b.rounds, 1, MaxRounds) /\ Between(b.cap, 1, MaxCap)
    /\ b.rounds > 1 => b.cap >= 2 * Cardinality(DOMAIN Contracts)

ConstraintAccepted(c) ==
    /\ c.metric \in DOMAIN Domains /\ c.operator \in {"<=", ">="}
    /\ Between(c.threshold, Domains[c.metric][1], Domains[c.metric][2])

RangeAccepted(o) ==
    /\ IsNumber(o.low) /\ IsNumber(o.high) /\ o.low < o.high
    /\ o.low >= Domains[o.metric][1] /\ o.high <= Domains[o.metric][2]

ObjectiveAccepted(o) ==
    /\ o.metric \in DOMAIN Domains /\ o.direction \in {"maximize", "minimize"}
    /\ IsNumber(o.weight) /\ 0 < o.weight /\ o.weight <= MaxWeight
    /\ RangeAccepted(o)

\* Everything else load_config looks at, ids, paths and the evaluator, is
\* raw.rest.
Accepted(e) ==
    /\ e.rest /\ DOMAIN e.parameters = DOMAIN Contracts
    /\ \A n \in DOMAIN Contracts : ParameterAccepted(n, e.parameters[n])
    /\ BudgetAccepted(e.budget)
    /\ IsNumber(e.shrink[1]) /\ 0 < e.shrink[1] /\ e.shrink[1] <= e.shrink[2]
    /\ e.constraints # <<>> /\ \A i \in DOMAIN e.constraints : ConstraintAccepted(e.constraints[i])
    /\ e.objectives # <<>> /\ \A i \in DOMAIN e.objectives : ObjectiveAccepted(e.objectives[i])
    /\ IsInjective([i \in DOMAIN e.constraints |-> e.constraints[i].metric])
    /\ IsInjective([i \in DOMAIN e.objectives |-> e.objectives[i].metric])

----------------------------------------------------------------------------
\* score_metrics, with the metrics m

Passed(c, m) ==
    IF c.operator = "<=" THEN m[c.metric] <= c.threshold ELSE m[c.metric] >= c.threshold

RawViolation(c, m) ==
    Max({0, IF c.operator = "<=" THEN m[c.metric] - c.threshold
            ELSE c.threshold - m[c.metric]})

Normalized(c, m) ==
    (Scale * RawViolation(c, m)) \div Max({c.threshold, -c.threshold, 1})

TotalViolation(e, m) ==
    MapThenSumSet(LAMBDA i : Normalized(e.constraints[i], m), DOMAIN e.constraints)

\* Mutant: both directions reward large values.
RewardLarge(o, m) == (Scale * (m[o.metric] - o.low)) \div (o.high - o.low)

Reward(o, m) ==
    (Scale * IF o.direction = "maximize" THEN m[o.metric] - o.low
             ELSE o.high - m[o.metric]) \div (o.high - o.low)

\* normalized = min(1.0, max(0.0, normalized)), weighted.
ObjectiveScore(e, m) ==
    MapThenSumSet(LAMBDA i : e.objectives[i].weight
                       * Min({Scale, Max({0, Reward(e.objectives[i], m)})}),
                  DOMAIN e.objectives)

Score(e, m) == [violation |-> TotalViolation(e, m), objective |-> ObjectiveScore(e, m)]

----------------------------------------------------------------------------
Init ==
    /\ raw \in Experiments /\ pc = "load" /\ better = None /\ worse = None
    /\ center = None /\ round = 0

LoadConfig ==
    /\ pc = "load"
    /\ pc' = IF Accepted(raw) THEN "accepted" ELSE "refused"
    /\ UNCHANGED <<raw, better, worse, center, round>>

\* Results of two candidates arrive, one at least as good as the other.
AsGood(e, m, n) ==
    /\ \A i \in DOMAIN e.constraints :
          LET c == e.constraints[i]
          IN  IF c.operator = "<=" THEN m[c.metric] <= n[c.metric]
              ELSE m[c.metric] >= n[c.metric]
    /\ \A i \in DOMAIN e.objectives :
          LET o == e.objectives[i]
          IN  IF o.direction = "minimize" THEN m[o.metric] <= n[o.metric]
              ELSE m[o.metric] >= n[o.metric]

ScoreBoth ==
    /\ pc = "accepted" /\ pc' = "scored"
    /\ better' \in Samples /\ worse' \in {m \in Samples : AsGood(raw, better', m)}
    /\ UNCHANGED <<raw, center, round>>

----------------------------------------------------------------------------
\* The search over an accepted experiment, without its controller.

Search == INSTANCE CoordinateSearch
    WITH Names <- SetToSeq(DOMAIN Contracts), Parameter <- raw.parameters,
         ShrinkNum <- raw.shrink[1], ShrinkDen <- raw.shrink[2]

Neighbors == LET near == Search!Proposals(center, round)
             IN  {near[i] : i \in DOMAIN near}

\* The baseline round is over.
StartSearch ==
    /\ pc = "accepted" /\ raw.budget.rounds > 1 /\ pc' = "search"
    /\ center' = Search!BaselinePoint /\ round' = 1
    /\ UNCHANGED <<raw, better, worse>>

\* The incumbent after a round, the next center, is the old one or a proposal.
Recenter ==
    /\ pc = "search" /\ round + 1 < raw.budget.rounds
    /\ round' = round + 1 /\ center' \in Neighbors \cup {center}
    /\ UNCHANGED <<raw, pc, better, worse>>

Next == LoadConfig \/ ScoreBoth \/ StartSearch \/ Recenter

Spec == Init /\ [][Next]_vars

----------------------------------------------------------------------------
\* Properties

Ranking == INSTANCE Scoring
    WITH Points <- {1, 2}, Scores <- {}, IdOrder <- [i \in {1, 2} |-> i]

\* Every experiment the loader accepts can be scored, on any metrics within
\* the domains: no division by zero, an objective between nothing and all of
\* the weight, and feasible exactly if every hard constraint has passed.
AcceptedIsScorable ==
    pc = "scored" =>
        LET score == Score(raw, worse)
            weights == MapThenSumSet(LAMBDA i : raw.objectives[i].weight,
                                     DOMAIN raw.objectives)
        IN  /\ weights > 0 /\ score.objective \in 0..Scale * weights
            /\ score.violation >= 0
            /\ Ranking!Feasible(score) <=>
                  \A i \in DOMAIN raw.constraints : Passed(raw.constraints[i], worse)

\* Whatever the operators, directions, thresholds, ranges and weights: a
\* candidate is never ranked behind one that is no better in any constraint
\* and no better in any objective, unless by its id.
DominatedNeverAhead ==
    pc = "scored" =>
        ~Ranking!Outranks(2, Score(raw, worse), 1, Score(raw, better))

Floats == {n \in DOMAIN Contracts : Contracts[n].kind = "float"}
Integral == DOMAIN Contracts \ Floats
Limits(n) == raw.parameters[n]
HalfTick(n) == 2 * (Limits(n).baseline % Grain) = Grain

\* Every experiment the loader accepts meets what the search relies on; the
\* first neighbourhood consists of points different from the center and from
\* each other, unless a baseline is exactly half way between two ticks (there
\* rounding to even may lead back to the center); the cap lets all of them
\* through.
AcceptedIsSearchable ==
    pc = "accepted" =>
        LET base == Search!BaselinePoint
            near == Search!Proposals(base, 1)
        IN  /\ Search!Searchable
            /\ (\A n \in Floats : ~HalfTick(n)) =>
                  /\ \A i, j \in DOMAIN near : near[i] = near[j] => i = j
                  /\ \A i \in DOMAIN near : \A n \in DOMAIN Contracts :
                        near[i] # Search!Moved(base, n, 0)
            /\ raw.budget.rounds > 1 => Len(near) <= raw.budget.cap

\* What the loader lets through cannot surprise the scoring or the search.
AcceptedIsUsable == AcceptedIsScorable /\ AcceptedIsSearchable

\* Integer proposals stay within their bounds; a float proposal may leave
\* them by the rounding of _normalize (half a tick), and only when a bound or
\* the center is finer than a tick.
ProposalsWithinBounds ==
    pc = "search" => \A p \in Neighbors :
        /\ \A n \in Integral : p[n] \in Limits(n).minimum..Limits(n).maximum
        /\ \A n \in Floats :
              /\ 2 * p[n] \in (2 * Limits(n).minimum - Grain)..(2 * Limits(n).maximum + Grain)
              /\ p[n] % Grain = 0
              /\ center[n] % Grain = 0 /\ Limits(n).maximum % Grain = 0
                    => p[n] <= Limits(n).maximum
              /\ center[n] % Grain = 0 /\ Limits(n).minimum % Grain = 0
                    => p[n] >= Limits(n).minimum

\* tests/test_tuning_search.py, test_later_round_is_bounded_coordinate_
\* neighborhood: a proposal changes one parameter of the (normalized) center
\* and no other.
OneCoordinateMoves ==
    pc = "search" => \A p \in Neighbors : Cardinality({n \in DOMAIN Contracts :
        p[n] # Search!Normalize(Contracts[n].kind, center[n])}) <= 1

\* Wherever the walk has led, a round proposes neighbours and nothing else.
ProposalsAreNeighbors == ProposalsWithinBounds /\ OneCoordinateMoves

\* An integer parameter that has room is always proposed a new value on that
\* side, however often the step has shrunk: its neighbourhood never closes up
\* before every neighbour has been tried.  And the loop refines: no step is
\* longer than that of the round before.
StepsShrinkNotVanish ==
    pc = "search" =>
        /\ \A n \in Integral :
              LET delta == Search!Delta(n, round) IN
              /\ center[n] + delta <= Limits(n).maximum =>
                    \E p \in Neighbors : p[n] > center[n]
              /\ center[n] - delta >= Limits(n).minimum =>
                    \E p \in Neighbors : p[n] < center[n]
        /\ \A n \in DOMAIN Contracts :
              Search!Delta(n, round + 1) <= Search!Delta(n, round)
=============================================================================
