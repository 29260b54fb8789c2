-------------------------- MODULE CoordinateSearch --------------------------
(* The proposals of tuning/search.py: around a center, one parameter at a   *)
(* time is moved down and up by a step that shrinks with the round.         *)
(*                                                                          *)
(* An integer parameter counts units.  A float parameter counts grains: a   *)
(* value is a multiple of 1/Grain of the 10^-12 tick that _normalize rounds *)
(* to, so that values finer than the tick exist (a configuration file may   *)
(* state them) and rounding is visible.                                     *)
EXTENDS Integers, Sequences, FiniteSets

CONSTANTS Names,       \* the parameter names, sorted
          Parameter,   \* name -> [kind, baseline, minimum, maximum, step]
          ShrinkNum, ShrinkDen,   \* shrink_factor = ShrinkNum / ShrinkDen
          Grain        \* grains per tick

\* _parameters and load_config: what the configuration must satisfy.
ValidParameter(s) ==
    /\ s.minimum < s.maximum
    /\ s.baseline \in s.minimum..s.maximum
    /\ s.step \in 1..(s.maximum - s.minimum)

\* What the search relies on (load_config has checked it: AcceptedExperiment).
Searchable ==
    /\ Names \in Seq(DOMAIN Parameter)
    /\ \A n \in DOMAIN Parameter : ValidParameter(Parameter[n])
    /\ ShrinkNum \in Nat \ {0} /\ ShrinkDen \in Nat \ {0}
    /\ ShrinkNum <= ShrinkDen
    /\ Grain \in Nat \ {0}

\* Python's round: the nearest integer to n / d, ties to even.
RoundDiv(n, d) ==
    LET q == n \div d
        rest == 2 * (n % d)
    IN  IF rest > d \/ (rest = d /\ q % 2 = 1) THEN q + 1 ELSE q

\* _normalize on a value of kind k.
Normalize(k, v) == IF k = "integer" THEN v ELSE Grain * RoundDiv(v, Grain)

\* The baseline of every parameter, as round 0 proposes it.
BaselinePoint == [n \in DOMAIN Parameter |-> Parameter[n].baseline]

\* One factor of shrink_factor ** n.
Power(b, n) ==
    LET power[i \in 0..n] == IF i = 0 THEN 1 ELSE b * power[i - 1]
    IN  power[n]

\* Mutant: an integer step may shrink to nothing.
DeltaVanishing(n, r) ==
    RoundDiv(Parameter[n].step * Power(ShrinkNum, r - 1), Power(ShrinkDen, r - 1))

\* The step of parameter n in round r >= 1.
Delta(n, r) ==
    LET s == Parameter[n]
        num == s.step * Power(ShrinkNum, r - 1)
        den == Power(ShrinkDen, r - 1)
    IN  IF s.kind = "integer"
        THEN IF RoundDiv(num, den) < 1 THEN 1 ELSE RoundDiv(num, den)
        ELSE Grain * RoundDiv(num, Grain * den)

\* Mutant: only the lower bound is checked.
WithinHalf(n, v) == Parameter[n].minimum <= v

Within(n, v) == Parameter[n].minimum <= v /\ v <= Parameter[n].maximum

\* The proposal that moves parameter n of center c by d, all values normalized.
Moved(c, n, d) ==
    [m \in DOMAIN c |->
        Normalize(Parameter[m].kind, IF m = n THEN c[m] + d ELSE c[m])]

\* The moves of a round in generation order: parameters by name, -1 before +1.
Moves(r) ==
    [i \in 1..(2 * Len(Names)) |->
        LET n == Names[(i + 1) \div 2]
        IN  [name |-> n, by |-> IF i % 2 = 1 THEN -Delta(n, r) ELSE Delta(n, r)]]

\* The i-th smallest number of a finite set.
Nth(S, i) == CHOOSE m \in S : Cardinality({k \in S : k < m}) = i - 1

\* generate_round up to the duplicate check: the moves whose (not yet
\* normalized) value is within bounds, as points, in the order of generation.
Proposals(c, r) ==
    LET moves == Moves(r)
        kept == {i \in DOMAIN moves :
                    Within(moves[i].name, c[moves[i].name] + moves[i].by)}
    IN  [i \in 1..Cardinality(kept) |->
            LET move == moves[Nth(kept, i)] IN Moved(c, move.name, move.by)]
=============================================================================
