------------------------ MODULE MCAcceptedExperiment -----------------------
(* One valid experiment, and all that differ from it in one part, with the  *)
(* values around each limit; pairs of constraints and objectives.  Those    *)
(* that differ in parameters have the longest search, with bounds, steps    *)
(* and baselines on and between the ticks that _normalize rounds to.        *)
EXTENDS AcceptedExperiment

MCDomains == [gap |-> <<0, 4>>, clearance |-> <<-2, 2>>]
MCContracts == [speed |-> [kind |-> "float", minimum |-> 0, maximum |-> 13],
                stride |-> [kind |-> "integer", minimum |-> 1, maximum |-> 6]]
MCSamples == [gap : 0..4, clearance : {-2, 0, 1, 2}]

Speed(b, l, h, s) == [kind |-> "float", baseline |-> b, minimum |-> l, maximum |-> h, step |-> s]
Stride == [kind |-> "integer", baseline |-> 3, minimum |-> 1, maximum |-> 6, step |-> 3]
Constraint(m, o, t) == [metric |-> m, operator |-> o, threshold |-> t]
Objective(m, d, w, l, h) ==
    [metric |-> m, direction |-> d, weight |-> w, low |-> l, high |-> h]

Base == [rest |-> TRUE, parameters |-> [speed |-> Speed(4, 0, 9, 4), stride |-> Stride],
         budget |-> [rounds |-> 2, cap |-> 4], shrink |-> <<1, 2>>,
         constraints |-> <<Constraint("gap", "<=", 2)>>,
         objectives |-> <<Objective("clearance", "maximize", 1, -1, 1)>>]

Parameters ==
    {[Base.parameters EXCEPT !.speed = Speed(b, l, h, s)] :
        b \in {0, 3, 6, 13, 99}, l \in {-1, 0, 1}, h \in {0, 5, 12, 13, 14},
        s \in {0, 2, 3, 8, 13, 99}}
    \cup {[Base.parameters EXCEPT !.stride.kind = "float"], [stride |-> Stride]}
Budgets == [rounds : {0, 1, 2, 7}, cap : {0, 1, 3, 4, 7}]
Constraints ==
    {<<>>} \cup {<<Constraint(m, o, t)>> : m \in {"gap", "clearance", "else"},
                   o \in {"<=", ">=", "<"}, t \in {-2, -1, 0, 1, 2, 4, 99}}
    \cup {<<Constraint("gap", o, 2), Constraint(m, p, t)>> :
            m \in {"gap", "clearance"}, o, p \in {"<=", ">="}, t \in {0, 1}}
Objectives ==
    {<<>>} \cup {<<Objective(m, d, w, l, h)>> : m \in {"gap", "clearance"},
                   d \in {"maximize", "minimize", "best"}, w \in {0, 2, 4, 99},
                   l \in {-2, 0, 2}, h \in {0, 2, 4, 99}}
    \cup {<<Objective("gap", d, 2, 1, 3), Objective(m, e, 1, 0, 2)>> :
            m \in {"gap", "clearance"}, d, e \in {"maximize", "minimize"}}

MCExperiments ==
    {[Base EXCEPT !.parameters = p, !.budget.rounds = MaxRounds, !.shrink = s] :
        p \in Parameters, s \in {<<1, 2>>, <<2, 3>>}}
    \cup {[Base EXCEPT !.budget = b] : b \in Budgets}
    \cup {[Base EXCEPT !.shrink = s] : s \in {<<0, 1>>, <<1, 1>>, <<2, 1>>, <<99, 1>>}}
    \cup {[Base EXCEPT !.constraints = c] : c \in Constraints}
    \cup {[Base EXCEPT !.objectives = o] : o \in Objectives}
    \cup {[Base EXCEPT !.rest = FALSE]}
    \cup {[Base EXCEPT !.constraints = <<c>>, !.objectives = <<o>>] :
            c \in {Constraint("gap", ">=", 1), Constraint("clearance", ">=", -2)},
            o \in {Objective("gap", "minimize", 3, 0, 4),
                   Objective("clearance", "minimize", 1, 0, 2)}}
=============================================================================
