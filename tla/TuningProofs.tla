---------------------------- MODULE TuningProofs ---------------------------
(* What holds of the tuning loop for every parameter space, every search,   *)
(* budget, set of scores and number of commands on one directory: the       *)
(* order of the candidates, the controller, the files it leaves, the        *)
(* abstract search it implements, and what its commands report.             *)
EXTENDS TuningCommand, FiniteSetTheorems, WellFoundedInduction, TLAPS

----------------------------------------------------------------------------
\* The order of the candidates: Score.rank_key and select_best

Keys == Int \X Int \X Int \X Int

\* The lexicographic order, written out for the four components of a key.
LEMMA KeyLessExpanded ==
    ASSUME NEW k \in Keys, NEW l \in Keys
    PROVE  KeyLess(k, l) <=>
              \/ k[1] < l[1]
              \/ k[1] = l[1] /\ k[2] < l[2]
              \/ k[1] = l[1] /\ k[2] = l[2] /\ k[3] < l[3]
              \/ k[1] = l[1] /\ k[2] = l[2] /\ k[3] = l[3] /\ k[4] < l[4]
<1> DEFINE At(i) == k[i] < l[i] /\ \A j \in 1..(i - 1) : k[j] = l[j]
<1>1. KeyLess(k, l) <=> At(1) \/ At(2) \/ At(3) \/ At(4)
  <2>1. 1..4 = {1, 2, 3, 4}
    OBVIOUS
  <2> QED
    BY <2>1 DEF KeyLess
<1>2. 1..(1 - 1) = {} /\ 1..(2 - 1) = {1} /\ 1..(3 - 1) = {1, 2}
      /\ 1..(4 - 1) = {1, 2, 3}
  OBVIOUS
<1>3. At(1) <=> k[1] < l[1]
  BY <1>2
<1>4. At(2) <=> k[1] = l[1] /\ k[2] < l[2]
  BY <1>2
<1>5. At(3) <=> k[1] = l[1] /\ k[2] = l[2] /\ k[3] < l[3]
  BY <1>2
<1>6. At(4) <=> k[1] = l[1] /\ k[2] = l[2] /\ k[3] = l[3] /\ k[4] < l[4]
  BY <1>2
<1> QED
  BY <1>1, <1>3, <1>4, <1>5, <1>6

Level(s) == IF Feasible(s) THEN 0 ELSE 1

\* Outranks in terms of the two scores.
LEMMA OutranksExpanded ==
    ASSUME NEW p \in Points, NEW q \in Points, NEW s \in Scores, NEW t \in Scores
    PROVE  Outranks(p, s, q, t) <=>
              \/ Level(s) < Level(t)
              \/ Level(s) = Level(t) /\ s.violation < t.violation
              \/ /\ Level(s) = Level(t) /\ s.violation = t.violation
                 /\ t.objective < s.objective
              \/ /\ Level(s) = Level(t) /\ s.violation = t.violation
                 /\ t.objective = s.objective /\ IdOrder[p] < IdOrder[q]
<1>1. /\ s.violation \in Int /\ t.violation \in Int
      /\ s.objective \in Int /\ t.objective \in Int
      /\ IdOrder[p] \in Int /\ IdOrder[q] \in Int
  BY ScoresAssumption, IdOrderAssumption
<1>2. /\ -s.objective < -t.objective <=> t.objective < s.objective
      /\ -s.objective = -t.objective <=> t.objective = s.objective
  BY <1>1
<1> DEFINE k == RankKey(p, s)
           l == RankKey(q, t)
<1>3. /\ k \in Keys /\ l \in Keys
      /\ k[1] = Level(s) /\ k[2] = s.violation
      /\ k[3] = -s.objective /\ k[4] = IdOrder[p]
      /\ l[1] = Level(t) /\ l[2] = t.violation
      /\ l[3] = -t.objective /\ l[4] = IdOrder[q]
  BY <1>1 DEF RankKey, Keys, Level
<1>4. Outranks(p, s, q, t) <=> KeyLess(k, l)
  BY DEF Outranks
<1> HIDE DEF k, l
<1> QED
  BY <1>2, <1>3, <1>4, KeyLessExpanded

\* rank_key is a strict total order on scored candidates: no candidate
\* outranks itself, ranking is transitive, and of two different candidates
\* one outranks the other, whatever their scores: ties cannot happen.
THEOREM RankIsStrictTotalOrder ==
    /\ \A p \in Points, s \in Scores : ~Outranks(p, s, p, s)
    /\ \A p, q, r \in Points, s, t, u \in Scores :
          Outranks(p, s, q, t) /\ Outranks(q, t, r, u) => Outranks(p, s, r, u)
    /\ \A p, q \in Points, s, t \in Scores :
          p # q => Outranks(p, s, q, t) \/ Outranks(q, t, p, s)
<1>0. /\ \A s \in Scores : /\ Level(s) \in Int /\ s.violation \in Int
                           /\ s.objective \in Int
      /\ \A p \in Points : IdOrder[p] \in Int
      /\ \A p, q \in Points : IdOrder[p] = IdOrder[q] => p = q
  BY ScoresAssumption, IdOrderAssumption DEF Level
<1>1. ASSUME NEW p \in Points, NEW s \in Scores
      PROVE  ~Outranks(p, s, p, s)
  BY <1>0, OutranksExpanded
<1>2. ASSUME NEW p \in Points, NEW q \in Points, NEW r \in Points,
             NEW s \in Scores, NEW t \in Scores, NEW u \in Scores,
             Outranks(p, s, q, t), Outranks(q, t, r, u)
      PROVE  Outranks(p, s, r, u)
  BY <1>0, <1>2, OutranksExpanded
<1>3. ASSUME NEW p \in Points, NEW q \in Points,
             NEW s \in Scores, NEW t \in Scores, p # q
      PROVE  Outranks(p, s, q, t) \/ Outranks(q, t, p, s)
  BY <1>0, <1>3, OutranksExpanded
<1> QED
  BY <1>1, <1>2, <1>3

\* A feasible candidate outranks every infeasible one, whatever objectives
\* they reach: constraints come first.
THEOREM FeasibleFirst ==
    \A p, q \in Points, s, t \in Scores :
        Feasible(s) /\ ~Feasible(t) => Outranks(p, s, q, t)
BY OutranksExpanded DEF Level

\* select_best is a function: it never has two candidates to choose from.
THEOREM BestIsUnique ==
    ASSUME NEW C \in SUBSET Points, NEW sc, \A c \in C : sc[c] \in Scores,
           NEW p \in SelectBest(C, sc), NEW q \in SelectBest(C, sc)
    PROVE  p = q
<1> SUFFICES ASSUME p # q PROVE FALSE
  OBVIOUS
<1>1. /\ p \in C /\ q \in C /\ p \in Points /\ q \in Points
      /\ Outranks(p, sc[p], q, sc[q]) /\ Outranks(q, sc[q], p, sc[p])
  BY DEF SelectBest
<1>2. sc[p] \in Scores /\ sc[q] \in Scores
  BY <1>1
<1>3. Outranks(p, sc[p], p, sc[p])
  BY <1>1, <1>2, RankIsStrictTotalOrder
<1> QED
  BY <1>1, <1>2, <1>3, RankIsStrictTotalOrder

----------------------------------------------------------------------------
\* The controller: types and the incumbent

\* The steps of a run without its fairness, which no safety property needs.
Run == Init /\ [][Next]_vars

\* Fairness is not needed for safety.
LEMMA SpecRuns == Spec => Run
BY PTL DEF Spec, Run

\* What generate_round returns: new points of the space, each once.
LEMMA GenerateRoundNew ==
    ASSUME NEW r \in 0..(MaxRounds - 1), NEW c, r > 0 => c \in Points,
           NEW s, NEW cap
    PROVE  LET C == GenerateRound(r, c, s, cap) IN
           /\ C \subseteq Slots
           /\ \A d \in C : d.point \notin s
           /\ \A d, e \in C : d.point = e.point => d = e
<1>1. CASE r = 0
  BY <1>1, TuningAssumption DEF GenerateRound, Slots
<1>2. CASE r # 0
  <2> DEFINE q == Neighborhood(c, r)
             K == Kept(q, s)
             I == {k \in K : Cardinality({j \in K : j < k}) < cap}
             C == {[slot |-> i, point |-> q[i]] : i \in I}
  <2>1. GenerateRound(r, c, s, cap) = C
    BY <1>2 DEF GenerateRound
  <2>2. q \in Seq(Points)
    <3>1. r \in 1..MaxRounds /\ c \in Points
      BY <1>2, TuningAssumption
    <3> QED
      BY <3>1, TuningAssumption
  <2>3. K \subseteq DOMAIN q /\ DOMAIN q = 1..Len(q) /\ Len(q) \in Nat
    BY <2>2 DEF Kept
  <2>4. \A i \in K : i \in Nat /\ q[i] \in Points /\ q[i] \notin s
    BY <2>2, <2>3 DEF Kept
  <2>5. \A i, j \in K : q[i] = q[j] => i = j
    <3>1. ASSUME NEW i \in K, NEW j \in K, i < j PROVE q[i] # q[j]
      <4>1. i \in 1..(j - 1)
        BY <2>3, <3>1
      <4> QED
        BY <4>1 DEF Kept
    <3> QED
      BY <3>1, <2>4
  <2>6. I \subseteq K
    OBVIOUS
  <2> HIDE DEF q, K, I
  <2>7. /\ C \subseteq Slots
        /\ \A d \in C : d.point \notin s
        /\ \A d, e \in C : d.point = e.point => d = e
    BY <2>4, <2>5, <2>6 DEF Slots
  <2> QED
    BY <2>1, <2>7
<1> QED
  BY <1>1, <1>2

----------------------------------------------------------------------------
\* The incumbent: where it comes from, and what type correctness needs.

\* The center is the incumbent, and the incumbent has completed; there is one
\* whenever the loop goes on after the baseline round.  Nothing has completed
\* before the directory is claimed and its inputs are written.
SearchInv ==
    /\ center = incumbent
    /\ incumbent \in completed \cup {NoPoint}
    /\ successful \subseteq completed /\ IsFiniteSet(successful)
    /\ owner = NoInvocation => pc = "start"
    /\ pc \in {"start", "open"} => completed = {} /\ round = 0
    /\ pc = "generate" /\ round > 0 => incumbent # NoPoint
    /\ pc \in {"generate", "leaderboard", "best"} =>
          BestOf(incumbent, completed)

\* After the decision of a round the incumbent is the best completed
\* candidate, and only a run that has one continues.
LEMMA DecideStep ==
    ASSUME TypeOK, SearchInv, Decide
    PROVE  TypeOK' /\ SearchInv'
<1> USE DEF search, results, evaluator, evidence
<1>1. /\ pc = "evaluate" /\ UNCHANGED <<budget, owner, refused, todo, seen,
            candidates, completed, successful, failures, child, report,
            planned, scored, errored, score, runStatus, leaderboard, best>>
  BY DEF Decide
<1>2. /\ incumbent' \in completed \cup {NoPoint} /\ center' = incumbent'
      /\ BestOf(incumbent', completed)
      /\ completed # {} => incumbent' # NoPoint
  <2>1. CASE completed = {}
    BY <2>1 DEF Decide, ChooseIncumbent, Ranked, SearchInv, BestOf
  <2>2. CASE completed # {}
    <3>1. PICK p \in SelectBest(completed, score) :
             incumbent' = p /\ center' = p
      BY <2>2 DEF Decide, ChooseIncumbent, Ranked
    <3>2. p \in completed /\ p # NoPoint
      BY <3>1, TuningAssumption DEF SelectBest, TypeOK
    <3> QED
      BY <2>2, <3>1, <3>2 DEF SelectBest, BestOf
  <2> QED
    BY <2>1, <2>2
<1> DEFINE status == DecisionStatus(incumbent')
           d == [status |-> status, evaluated |-> Cardinality(successful),
                 failed |-> failures, incumbent |-> incumbent']
<1>3. /\ decision' = [decision EXCEPT ![round] = d]
      /\ \/ status = "continue" /\ pc' = "generate" /\ round' = round + 1
         \/ status # "continue" /\ pc' = "leaderboard" /\ round' = round
  BY DEF Decide, DecisionRound
<1>4. status = "continue" =>
         round + 1 < budget.rounds /\ incumbent' # NoPoint
  <2>1. successful # {} => completed # {}
    BY DEF SearchInv
  <2> QED
    BY <1>2, <2>1 DEF DecisionStatus
<1>5. TypeOK'
  <2>1. budget.rounds \in 1..MaxRounds /\ MaxRounds \in Nat
        /\ round \in 0..(budget.rounds - 1)
    BY TuningAssumption DEF TypeOK
  <2>2. round' \in 0..(budget'.rounds - 1)
    BY <1>1, <1>3, <1>4, <2>1
  <2>3. incumbent' \in Points \cup {NoPoint} /\ center' \in Points \cup {NoPoint}
    BY <1>2 DEF TypeOK
  <2>4. decision' \in [0..(MaxRounds - 1) -> Decisions \cup {NoDecision}]
    <3>1. status \in Statuses
      BY DEF DecisionStatus, Statuses
    <3>2. Cardinality(successful) \in Nat
      BY FS_CardinalityType DEF SearchInv
    <3>3. d \in Decisions
      BY <2>3, <3>1, <3>2 DEF Decisions, TypeOK
    <3> QED
      BY <1>3, <3>3 DEF TypeOK
  <2> QED
    BY <1>1, <1>3, <2>2, <2>3, <2>4 DEF TypeOK
<1>6. SearchInv'
  BY <1>1, <1>2, <1>3, <1>4 DEF SearchInv, BestOf
<1> QED
  BY <1>5, <1>6

\* Type correctness and the search invariant, step by step.
LEMMA SearchStep ==
    ASSUME TypeOK, SearchInv, Next
    PROVE  TypeOK' /\ SearchInv'
<1> USE DEF control, search, results, evaluator, evidence, summary
<1>1. ASSUME NEW i \in Invocations, Start(i) PROVE TypeOK' /\ SearchInv'
  <2>1. TypeOK'
    BY <1>1 DEF Start, Claim, TypeOK
  <2>2. SearchInv'
    BY <1>1, TuningAssumption DEF Start, Claim, SearchInv, BestOf
  <2> QED
    BY <2>1, <2>2
<1>2. CASE OpenRun
  <2>1. TypeOK'
    BY <1>2 DEF OpenRun, TypeOK
  <2>2. SearchInv'
    BY <1>2 DEF OpenRun, TypeOK, SearchInv, BestOf
  <2> QED
    BY <2>1, <2>2
<1>3. CASE BeginRound
  <2>1. round \in 0..(MaxRounds - 1) /\ (round > 0 => center \in Points)
    BY <1>3, TuningAssumption DEF BeginRound, SearchInv, TypeOK
  <2>2. candidates' \subseteq Slots /\ todo' \subseteq Slots
    BY <1>3, <2>1, GenerateRoundNew DEF BeginRound
  <2>3. TypeOK'
    BY <1>3, <2>2 DEF BeginRound, TypeOK
  <2>4. SearchInv'
    BY <1>3, FS_EmptySet DEF BeginRound, SearchInv, BestOf
  <2> QED
    BY <2>3, <2>4
<1>4. CASE Materialise
  <2>1. PICK c \in todo : /\ seen' = seen \cup {c.point}
                          /\ planned' = planned \cup {<<round, c.point>>}
                          /\ todo' = todo \ {c}
    BY <1>4 DEF Materialise
  <2>2. c.point \in Points /\ <<round, c.point>> \in Pairs
    BY TuningAssumption DEF TypeOK, Slots, Pairs
  <2>3. TypeOK'
    BY <1>4, <2>1, <2>2 DEF Materialise, TypeOK
  <2>4. SearchInv'
    BY <1>4 DEF Materialise, SearchInv, BestOf
  <2> QED
    BY <2>3, <2>4
<1>5. CASE Materialised
  <2>1. decision' \in [0..(MaxRounds - 1) -> Decisions \cup {NoDecision}]
    BY <1>5 DEF Materialised, TypeOK, Decisions, Statuses
  <2>2. TypeOK'
    BY <1>5, <2>1 DEF Materialised, TypeOK
  <2>3. SearchInv'
    BY <1>5 DEF Materialised, SearchInv, BestOf
  <2> QED
    BY <2>2, <2>3
<1>6. CASE Launch
  <2>1. TypeOK'
    BY <1>6 DEF Launch, TypeOK
  <2>2. SearchInv'
    BY <1>6 DEF Launch, SearchInv, BestOf
  <2> QED
    BY <2>1, <2>2
<1>7. CASE AcceptEvaluation
  <2>1. PICK c \in todo : /\ scored' = scored \cup {<<round, c.point>>}
                          /\ score' = [score EXCEPT ![c.point] = report]
                          /\ completed' = completed \cup {c.point}
                          /\ successful' = successful \cup {c.point}
                          /\ todo' = todo \ {c}
    BY <1>7 DEF AcceptEvaluation
  <2>2. c.point \in Points /\ <<round, c.point>> \in Pairs
    BY TuningAssumption DEF TypeOK, Slots, Pairs
  <2>3. TypeOK'
    BY <1>7, <2>1, <2>2 DEF AcceptEvaluation, TypeOK
  <2>4. SearchInv'
    BY <1>7, <2>1, FS_AddElement DEF AcceptEvaluation, SearchInv
  <2> QED
    BY <2>3, <2>4
<1>8. CASE RejectEvaluation
  <2>1. PICK c \in todo : /\ errored' = errored \cup {<<round, c.point>>}
                          /\ failures' = failures \cup {c.point}
                          /\ todo' = todo \ {c}
    BY <1>8 DEF RejectEvaluation, StillToDo
  <2>2. c.point \in Points /\ <<round, c.point>> \in Pairs
    BY TuningAssumption DEF TypeOK, Slots, Pairs
  <2>3. TypeOK'
    BY <1>8, <2>1, <2>2 DEF RejectEvaluation, TypeOK
  <2>4. SearchInv'
    BY <1>8 DEF RejectEvaluation, SearchInv
  <2> QED
    BY <2>3, <2>4
<1>9. CASE Decide
  BY <1>9, DecideStep
<1>10. CASE WriteLeaderboard
  <2>1. TypeOK'
    BY <1>10 DEF WriteLeaderboard, TypeOK
  <2>2. SearchInv'
    BY <1>10 DEF WriteLeaderboard, SearchInv, BestOf
  <2> QED
    BY <2>1, <2>2
<1>11. CASE WriteBest
  <2>1. TypeOK'
    BY <1>11 DEF WriteBest, TypeOK
  <2>2. SearchInv'
    BY <1>11 DEF WriteBest, SearchInv
  <2> QED
    BY <2>1, <2>2
<1>12. CASE CloseRun
  <2>1. TypeOK'
    BY <1>12 DEF CloseRun, FinalStatus, TypeOK
  <2>2. SearchInv'
    BY <1>12 DEF CloseRun, SearchInv
  <2> QED
    BY <2>1, <2>2
<1>13. CASE EvaluatorExits
  <2>1. TypeOK'
    BY <1>13 DEF EvaluatorExits, TypeOK
  <2>2. SearchInv'
    BY <1>13 DEF EvaluatorExits, SearchInv, BestOf
  <2> QED
    BY <2>1, <2>2
<1>14. CASE Crash
  <2>1. TypeOK'
    BY <1>14 DEF Crash, TypeOK
  <2>2. SearchInv'
    BY <1>14 DEF Crash, SearchInv
  <2> QED
    BY <2>1, <2>2
<1>15. CASE Finished
  BY <1>15 DEF Finished, vars, TypeOK, SearchInv, BestOf
<1> QED
  BY <1>1, <1>2, <1>3, <1>4, <1>5, <1>6, <1>7, <1>8, <1>9, <1>10, <1>11,
     <1>12, <1>13, <1>14, <1>15 DEF Next, Controller

\* The incumbent has completed, and is the best of what has.
LEMMA SearchInvariance == Run => [](TypeOK /\ SearchInv)
<1>1. Init => TypeOK /\ SearchInv
  <2> SUFFICES ASSUME Init PROVE TypeOK /\ SearchInv
    OBVIOUS
  <2>1. /\ budget \in Budgets /\ ValidBudget(budget)
        /\ budget.rounds \in 1..MaxRounds /\ MaxRounds \in Nat
    BY TuningAssumption DEF Init
  <2>2. TypeOK
    BY <2>1 DEF Init, TypeOK, Pairs
  <2>3. SearchInv
    BY FS_EmptySet DEF Init, SearchInv
  <2> QED
    BY <2>2, <2>3
<1>2. TypeOK /\ SearchInv /\ [Next]_vars => TypeOK' /\ SearchInv'
  <2> SUFFICES ASSUME TypeOK, SearchInv, [Next]_vars
               PROVE  TypeOK' /\ SearchInv'
    OBVIOUS
  <2>1. CASE Next
    BY <2>1, SearchStep
  <2>2. CASE UNCHANGED vars
    BY <2>2 DEF vars, control, search, results, evaluator, evidence, summary,
                TypeOK, SearchInv, BestOf
  <2> QED
    BY <2>1, <2>2
<1> QED
  BY <1>1, <1>2, PTL DEF Run

\* Every reachable state of a tuning run is in range; in particular there is a
\* center to generate from in every round after the first, and the round
\* number stays below the budget.
THEOREM TypeCorrect == Spec => []TypeOK
BY SearchInvariance, SpecRuns, PTL

\* The incumbent is the best candidate completed so far whenever a round is
\* generated and when the run is summed up.
THEOREM IncumbentBest == Spec => []IncumbentIsBest
<1>1. SearchInv => IncumbentIsBest
  BY DEF SearchInv, IncumbentIsBest
<1> QED
  BY <1>1, SearchInvariance, SpecRuns, PTL

\* A run never replaces its incumbent by a worse one.
LEMMA IncumbentOfRunImproves == Run => IncumbentNeverWorse
<1> DEFINE Improves ==
              incumbent # NoPoint /\ incumbent' # incumbent =>
                  /\ incumbent' # NoPoint
                  /\ Outranks(incumbent', score'[incumbent'],
                              incumbent, score'[incumbent])
<1>1. ASSUME TypeOK, SearchInv, [Next]_vars PROVE Improves \/ UNCHANGED vars
  <2> SUFFICES ASSUME incumbent # NoPoint, incumbent' # incumbent
               PROVE  /\ incumbent' # NoPoint
                      /\ Outranks(incumbent', score'[incumbent'],
                                  incumbent, score'[incumbent])
    OBVIOUS
  <2>1. Decide
    BY <1>1 DEF Next, Controller, Start, OpenRun, BeginRound, Materialise,
                Materialised, Launch, AcceptEvaluation, RejectEvaluation,
                WriteLeaderboard, WriteBest, CloseRun, EvaluatorExits, Crash,
                Finished, vars, search
  <2>2. incumbent \in completed /\ score' = score
    BY <1>1, <2>1 DEF SearchInv, Decide, evidence
  <2>3. PICK p \in SelectBest(completed, score) : incumbent' = p
    BY <2>1, <2>2 DEF Decide, ChooseIncumbent, Ranked
  <2>4. p \in completed /\ Outranks(p, score[p], incumbent, score[incumbent])
    BY <2>2, <2>3 DEF SelectBest
  <2>5. p # NoPoint
    BY <1>1, <2>4, TuningAssumption DEF TypeOK
  <2> QED
    BY <2>2, <2>3, <2>4, <2>5
<1>2. TypeOK /\ SearchInv /\ [Next]_vars => [Improves]_vars
  BY <1>1
<1> QED
  BY <1>2, SearchInvariance, PTL DEF Run, IncumbentNeverWorse

\* An incumbent is only replaced by a candidate that outranks it.
THEOREM IncumbentImproves == Spec => IncumbentNeverWorse
BY IncumbentOfRunImproves, SpecRuns, PTL

----------------------------------------------------------------------------
\* The audit trail: no candidate is materialised or measured twice, each has
\* one outcome, and every decision.json names the best measured until then.

\* The round in progress has no decision yet.
Undecided == pc \in {"generate", "materialise", "evaluate"}

\* How the directory grows: a round's candidates are new, are planned before
\* they are evaluated, and have no outcome while they are still to do.
GrowthInv ==
    /\ \A a \in planned : a[2] \in seen /\ a[1] <= round
    /\ scored \cup errored \subseteq planned
    /\ scored \cap errored = {}
    /\ completed = {a[2] : a \in scored}
    /\ pc \in {"start", "open"} => planned = {}
    /\ pc \in {"generate", "materialise"} =>
          \A a \in scored \cup errored : a[1] < round
    /\ pc = "generate" => \A a \in planned : a[1] < round
    /\ pc = "materialise" =>
          /\ \A c \in todo : c.point \notin seen
          /\ \A c \in candidates : c \in todo \/ <<round, c.point>> \in planned
          /\ todo \subseteq candidates
    /\ pc \in {"materialise", "evaluate"} =>
          /\ \A c, d \in candidates : c.point = d.point => c = d
          /\ \A a \in planned : a[1] = round =>
                \E c \in candidates : a = <<round, c.point>>
    /\ pc = "evaluate" =>
          /\ todo \subseteq candidates
          /\ \A c \in candidates : <<round, c.point>> \in planned
          /\ \A c \in todo : <<round, c.point>> \notin scored \cup errored
          /\ \A c \in candidates \ todo : <<round, c.point>> \in scored \cup errored

ScoredIn(r) == {a \in scored : a[1] = r}
ErroredIn(r) == {a \in errored : a[1] = r}

\* What the controller counts in memory is what lies in the round's directory.
CountInv ==
    /\ pc = "materialise" => successful = {} /\ failures = {}
    /\ pc = "evaluate" =>
          /\ successful = {a[2] : a \in ScoredIn(round)}
          /\ failures = {a[2] : a \in ErroredIn(round)}
          /\ IsFiniteSet(ScoredIn(round))
          /\ Cardinality(successful) = Cardinality(ScoredIn(round))

\* Decisions are only made of past rounds.
DecisionInv ==
    /\ \A r \in 0..(MaxRounds - 1) : Decided(r) => r <= round
    /\ Undecided \/ pc \in {"start", "open"} =>
          \A r \in 0..(MaxRounds - 1) : Decided(r) => r < round

AuditInv == GrowthInv /\ EachCandidateOnce /\ CountInv /\ DecisionInv
            /\ DecisionsAuditable /\ OutcomesComplete

----------------------------------------------------------------------------
\* Growth of the directory

\* A new pair of this round belongs to no pair that was there before.
LEMMA MaterialiseGrowth ==
    ASSUME TypeOK, GrowthInv, EachCandidateOnce, Materialise
    PROVE  GrowthInv' /\ EachCandidateOnce'
<1> USE DEF search, results, evaluator
<1>1. PICK c \in todo : /\ seen' = seen \cup {c.point}
                        /\ planned' = planned \cup {<<round, c.point>>}
                        /\ todo' = todo \ {c}
  BY DEF Materialise
<1>2. /\ pc = "materialise" /\ pc' = pc /\ round' = round
      /\ candidates' = candidates /\ completed' = completed
      /\ scored' = scored /\ errored' = errored
  BY DEF Materialise
<1>3. /\ c \in candidates /\ c.point \notin seen
      /\ \A d \in todo : d # c => d.point # c.point
  BY <1>1, <1>2 DEF GrowthInv
<1>4. round \in Int
  BY TuningAssumption DEF TypeOK
<1>5. \A a \in planned' : a[2] \in seen' /\ a[1] <= round'
  BY <1>1, <1>2, <1>4 DEF GrowthInv
<1>6. /\ \A d \in todo' : d.point \notin seen'
      /\ \A d \in candidates' : d \in todo' \/ <<round', d.point>> \in planned'
      /\ todo' \subseteq candidates'
  BY <1>1, <1>2, <1>3 DEF GrowthInv
<1>7. \A a \in planned' : a[1] = round' =>
         \E d \in candidates' : a = <<round', d.point>>
  BY <1>1, <1>2, <1>3 DEF GrowthInv
<1>8. GrowthInv'
  BY <1>1, <1>2, <1>5, <1>6, <1>7 DEF GrowthInv
<1>9. EachCandidateOnce'
  <2>1. \A a \in planned : a[2] # c.point
    BY <1>3 DEF GrowthInv
  <2> QED
    BY <1>1, <2>1 DEF EachCandidateOnce
<1> QED
  BY <1>8, <1>9

\* An outcome of a candidate still to do is its first one.
LEMMA OutcomeGrowth ==
    ASSUME TypeOK, SearchInv, GrowthInv, EachCandidateOnce, CountInv,
           AcceptEvaluation \/ RejectEvaluation
    PROVE  GrowthInv' /\ EachCandidateOnce' /\ CountInv'
<1> USE DEF search
<1>1. PICK c \in todo :
        /\ todo' = todo \ {c}
        /\ \/ /\ scored' = scored \cup {<<round, c.point>>}
              /\ completed' = completed \cup {c.point}
              /\ successful' = successful \cup {c.point}
              /\ UNCHANGED <<errored, failures>>
           \/ /\ errored' = errored \cup {<<round, c.point>>}
              /\ failures' = failures \cup {c.point}
              /\ UNCHANGED <<scored, completed, successful>>
  BY DEF AcceptEvaluation, RejectEvaluation, StillToDo
<1>2. /\ pc = "evaluate" /\ pc' = pc /\ round' = round
      /\ candidates' = candidates /\ seen' = seen /\ planned' = planned
  BY DEF AcceptEvaluation, RejectEvaluation
<1> DEFINE a == <<round, c.point>>
<1>3. /\ c \in candidates /\ a \in planned /\ a \notin scored \cup errored
      /\ \A d \in todo : d # c => <<round, d.point>> # a
  BY <1>1, <1>2 DEF GrowthInv
<1>4. GrowthInv'
  <2>1. completed' = {b[2] : b \in scored'}
    <3>1. a[2] = c.point
      OBVIOUS
    <3>2. {b[2] : b \in scored \cup {a}} = {b[2] : b \in scored} \cup {a[2]}
      OBVIOUS
    <3> QED
      BY <1>1, <3>1, <3>2 DEF GrowthInv
  <2>2. /\ \A d \in todo' : <<round', d.point>> \notin scored' \cup errored'
        /\ \A d \in candidates' \ todo' :
              <<round', d.point>> \in scored' \cup errored'
    BY <1>1, <1>2, <1>3 DEF GrowthInv
  <2> QED
    BY <1>1, <1>2, <1>3, <2>1, <2>2 DEF GrowthInv
<1>5. EachCandidateOnce'
  BY <1>2 DEF EachCandidateOnce
<1>6. CountInv'
  <2>1. CASE scored' = scored
    <3>1. ErroredIn(round)' = ErroredIn(round) \cup {a}
      BY <1>1, <1>2, <1>3, <2>1 DEF ErroredIn
    <3> QED
      BY <1>1, <1>2, <1>3, <2>1, <3>1 DEF CountInv, ScoredIn
  <2>2. CASE scored' = scored \cup {a}
    <3>1. ScoredIn(round)' = ScoredIn(round) \cup {a} /\ a \notin ScoredIn(round)
      BY <1>2, <1>3, <2>2 DEF ScoredIn
    <3>2. c.point \notin successful
      <4>1. \A b \in ScoredIn(round) : b[2] # c.point
        BY <1>3 DEF ScoredIn, GrowthInv, EachCandidateOnce
      <4> QED
        BY <1>2, <4>1 DEF CountInv
    <3>3. successful' = successful \cup {c.point} /\ UNCHANGED <<errored, failures>>
      BY <1>1, <1>3, <2>2
    <3>4. /\ IsFiniteSet(ScoredIn(round)')
          /\ Cardinality(successful') = Cardinality(ScoredIn(round)')
      <4> DEFINE S == ScoredIn(round)
                 T == ScoredIn(round)'
      <4>1. IsFiniteSet(S) /\ IsFiniteSet(successful)
            /\ Cardinality(successful) = Cardinality(S)
        BY <1>2 DEF CountInv, SearchInv
      <4>2. T = S \cup {a} /\ a \notin S
        BY <3>1
      <4> HIDE DEF S, T, a
      <4>3. IsFiniteSet(T) /\ Cardinality(T) = Cardinality(S) + 1
        BY <4>1, <4>2, FS_AddElement
      <4>4. Cardinality(successful') = Cardinality(successful) + 1
        BY <3>2, <3>3, <4>1, FS_AddElement
      <4> QED
        BY <4>1, <4>3, <4>4 DEF T
    <3>5. successful' = {b[2] : b \in ScoredIn(round)'}
      <4>1. {b[2] : b \in ScoredIn(round) \cup {a}} =
            {b[2] : b \in ScoredIn(round)} \cup {c.point}
        <5>1. a[2] = c.point
          OBVIOUS
        <5> HIDE DEF a
        <5> QED
          BY <5>1
      <4> QED
        BY <1>2, <3>1, <3>3, <4>1 DEF CountInv
    <3>6. failures' = {b[2] : b \in ErroredIn(round)'}
      BY <1>2, <3>3 DEF CountInv, ErroredIn
    <3> QED
      BY <1>2, <3>4, <3>5, <3>6 DEF CountInv
  <2> QED
    BY <1>1, <2>1, <2>2
<1> QED
  BY <1>4, <1>5, <1>6

\* The steps that leave the round's directory alone.
LEMMA QuietGrowth ==
    ASSUME TypeOK, SearchInv, GrowthInv, EachCandidateOnce, CountInv,
           UNCHANGED <<todo, seen, planned, scored, errored, completed,
                       successful, failures, candidates, round>>,
           \/ pc' = pc
           \/ pc = "start" /\ pc' = "open"
           \/ pc = "open" /\ pc' = "generate"
           \/ pc' \in {"leaderboard", "best", "close", "done", "crashed"}
    PROVE  GrowthInv' /\ EachCandidateOnce' /\ CountInv'
<1>1. GrowthInv'
  <2>1. pc' = "generate" => \A a \in planned : a[1] < round
    BY DEF GrowthInv
  <2>2. pc' = "generate" => \A a \in scored \cup errored : a[1] < round
    BY DEF GrowthInv
  <2> QED
    BY <2>1, <2>2 DEF GrowthInv
<1>2. EachCandidateOnce'
  BY DEF EachCandidateOnce
<1>3. CountInv'
  BY DEF CountInv, ScoredIn, ErroredIn
<1> QED
  BY <1>1, <1>2, <1>3

\* The audit trail only grows, and no candidate is proposed twice.
LEMMA GrowthStep ==
    ASSUME TypeOK, SearchInv, GrowthInv, EachCandidateOnce, CountInv, Next
    PROVE  GrowthInv' /\ EachCandidateOnce' /\ CountInv'
<1> USE DEF control, search, results, evaluator, evidence, summary
<1>1. ASSUME NEW i \in Invocations, Start(i)
      PROVE  GrowthInv' /\ EachCandidateOnce' /\ CountInv'
  <2>1. \/ pc' = pc
        \/ pc = "start" /\ pc' = "open"
    BY <1>1 DEF Start, Claim, SearchInv
  <2> QED
    BY <1>1, <2>1, QuietGrowth DEF Start
<1>2. CASE OpenRun
  BY <1>2, QuietGrowth DEF OpenRun
<1>3. CASE BeginRound
  <2>1. round \in 0..(MaxRounds - 1) /\ (round > 0 => center \in Points)
    BY <1>3, TuningAssumption DEF BeginRound, SearchInv, TypeOK
  <2>2. /\ pc = "generate" /\ pc' = "materialise" /\ todo' = candidates'
        /\ successful' = {} /\ failures' = {}
        /\ UNCHANGED <<seen, planned, scored, errored, completed, round>>
    BY <1>3 DEF BeginRound
  <2>3. /\ \A c \in candidates' : c.point \notin seen
        /\ \A c, d \in candidates' : c.point = d.point => c = d
    BY ZenonT(60), <1>3, <2>1, GenerateRoundNew DEF BeginRound
  <2>4. \A a \in planned : a[1] < round /\ a[1] # round
    <3>1. \A a \in planned : a[1] \in Int
      BY TuningAssumption DEF TypeOK, Pairs
    <3> QED
      BY <2>1, <2>2, <3>1 DEF GrowthInv
  <2>5. \A a \in scored \cup errored : a[1] < round
    BY <2>4 DEF GrowthInv
  <2>6. GrowthInv'
    BY <2>2, <2>3, <2>4, <2>5 DEF GrowthInv
  <2> QED
    BY <2>2, <2>6 DEF EachCandidateOnce, CountInv
<1>4. CASE Materialise
  <2>1. CountInv'
    BY <1>4 DEF Materialise, CountInv
  <2> QED
    BY <1>4, <2>1, MaterialiseGrowth
<1>5. CASE Materialised
  <2>1. CASE pc' = "close"
    <3>1. todo' = todo
      BY <1>5, <2>1 DEF Materialised
    <3> QED
      BY <1>5, <2>1, <3>1, QuietGrowth DEF Materialised
  <2>2. CASE pc' # "close"
    <3>1. /\ pc = "materialise" /\ todo = {} /\ pc' = "evaluate"
          /\ todo' = candidates
          /\ UNCHANGED <<seen, planned, scored, errored, completed, successful,
                         failures, candidates, round>>
      BY <1>5, <2>2 DEF Materialised
    <3>2. \A a \in scored \cup errored : a[1] # round
      <4>1. \A a \in scored \cup errored : a[1] \in Int
        BY TuningAssumption DEF TypeOK, Pairs
      <4> QED
        BY <3>1, <4>1 DEF GrowthInv
    <3>3. GrowthInv'
      BY <3>1, <3>2 DEF GrowthInv
    <3>4. ScoredIn(round)' = {} /\ ErroredIn(round)' = {}
      BY <3>1, <3>2 DEF ScoredIn, ErroredIn
    <3>5. CountInv'
      BY <3>1, <3>4, FS_EmptySet DEF CountInv
    <3> QED
      BY <3>1, <3>3, <3>5 DEF EachCandidateOnce
  <2> QED
    BY <2>1, <2>2
<1>6. CASE Launch
  BY <1>6, QuietGrowth DEF Launch
<1>7. CASE AcceptEvaluation \/ RejectEvaluation
  BY <1>7, OutcomeGrowth
<1>8. CASE Decide
  <2>1. /\ pc = "evaluate"
        /\ \/ pc' = "generate" /\ round' = round + 1
           \/ pc' = "leaderboard" /\ round' = round
        /\ UNCHANGED <<todo, seen, planned, scored, errored, completed,
                       successful, failures, candidates>>
    BY <1>8 DEF Decide
  <2>2. round \in Int /\ \A a \in planned : a[1] \in Int /\ a[1] <= round
    BY TuningAssumption DEF TypeOK, Pairs, GrowthInv
  <2>3. pc' = "generate" => \A a \in planned : a[1] < round' /\ a[1] <= round'
    BY <2>1, <2>2
  <2>4. pc' = "generate" => \A a \in scored \cup errored : a[1] < round'
    BY <2>3 DEF GrowthInv
  <2>5. GrowthInv'
    BY <2>1, <2>3, <2>4 DEF GrowthInv
  <2> QED
    BY <2>1, <2>5 DEF EachCandidateOnce, CountInv
<1>9. CASE WriteLeaderboard
  BY <1>9, QuietGrowth DEF WriteLeaderboard
<1>10. CASE WriteBest
  BY <1>10, QuietGrowth DEF WriteBest
<1>11. CASE CloseRun
  BY <1>11, QuietGrowth DEF CloseRun
<1>12. CASE EvaluatorExits
  BY <1>12, QuietGrowth DEF EvaluatorExits
<1>13. CASE Crash
  BY <1>13, QuietGrowth DEF Crash
<1>14. CASE Finished
  BY <1>14, QuietGrowth DEF Finished, vars
<1> QED
  BY <1>1, <1>2, <1>3, <1>4, <1>5, <1>6, <1>7, <1>8, <1>9, <1>10, <1>11,
     <1>12, <1>13, <1>14 DEF Next, Controller

----------------------------------------------------------------------------
\* The decisions

\* A decided round is in the past for whatever a round in progress writes.
LEMMA DecisionStep ==
    ASSUME TypeOK, SearchInv, DecisionInv, Next
    PROVE  DecisionInv'
<1> USE DEF control, search, results, evaluator, evidence, summary
<1>1. CASE UNCHANGED <<decision, round>>
  <2>1. \A r \in 0..(MaxRounds - 1) : Decided(r)' <=> Decided(r)
    BY <1>1 DEF Decided
  <2>2. Undecided' \/ pc' \in {"start", "open"} =>
           Undecided \/ pc \in {"start", "open"}
    BY <1>1 DEF Next, Controller, Start, Claim, OpenRun, BeginRound,
       Materialise, Materialised, Launch, AcceptEvaluation, RejectEvaluation,
       Decide, WriteLeaderboard, WriteBest, CloseRun, EvaluatorExits, Crash,
       Finished, vars, SearchInv, Undecided
  <2> QED
    BY <1>1, <2>1, <2>2 DEF DecisionInv
<1>2. CASE Materialised /\ decision' # decision
  <2>1. PICK d : /\ d.status = "planned"
                 /\ decision' = [decision EXCEPT ![round] = d]
                 /\ pc' = "close" /\ round' = round
    BY <1>2 DEF Materialised
  <2>2. \A r \in 0..(MaxRounds - 1) : Decided(r)' => Decided(r)
    BY <2>1 DEF Decided, TypeOK
  <2> QED
    BY <2>1, <2>2 DEF DecisionInv, Undecided
<1>3. CASE Decide
  <2>1. /\ pc = "evaluate"
        /\ \/ pc' = "generate" /\ round' = round + 1
           \/ pc' = "leaderboard" /\ round' = round
    BY <1>3 DEF Decide
  <2>2. \A r \in 0..(MaxRounds - 1) : r # round => decision'[r] = decision[r]
    BY <1>3 DEF Decide, DecisionRound, TypeOK
  <2>3. \A r \in 0..(MaxRounds - 1) : Decided(r)' => r <= round
    <3>1. round \in Int /\ MaxRounds \in Int
      BY TuningAssumption DEF TypeOK
    <3> QED
      BY <2>2, <3>1 DEF Decided, DecisionInv
  <2>4. round \in Int /\ \A r \in 0..(MaxRounds - 1) : r \in Int
    BY TuningAssumption DEF TypeOK
  <2> QED
    BY <2>1, <2>3, <2>4 DEF DecisionInv, Undecided
<1>4. UNCHANGED <<decision, round>> \/ Decide
      \/ (Materialised /\ decision' # decision)
  BY DEF Next, Controller, Start, OpenRun, BeginRound, Materialise,
     Materialised, Launch, AcceptEvaluation, RejectEvaluation,
     WriteLeaderboard, WriteBest, CloseRun, EvaluatorExits, Crash, Finished, vars
<1> QED
  BY <1>1, <1>2, <1>3, <1>4

\* Nothing changes in the rounds already decided, and a decision about to be
\* written is true of its own round.
LEMMA AuditStep ==
    ASSUME TypeOK, SearchInv, AuditInv, Next, GrowthInv'
    PROVE  DecisionsAuditable' /\ OutcomesComplete'
<1> USE DEF control, search, results, evaluator, evidence, summary
<1> DEFINE Rounds == 0..(MaxRounds - 1)
           Outcome1(r) ==
               /\ {a \in planned : a[1] = r} \subseteq scored \cup errored
               /\ decision[r].failed = {a[2] : a \in ErroredIn(r)}
               /\ decision[r].evaluated = Cardinality(ScoredIn(r))
           Named(r) == BestOf(decision[r].incumbent, ScoredUpTo(r))
<1>0. /\ \A r \in Rounds : Decided(r) => Outcome1(r) /\ Named(r)
      /\ (\A r \in Rounds : Decided(r)' => Outcome1(r)' /\ Named(r)') /\ GrowthInv'
            => DecisionsAuditable' /\ OutcomesComplete'
  BY DEF AuditInv, DecisionsAuditable, OutcomesComplete, ErroredIn, ScoredIn,
         GrowthInv
<1>1. ASSUME UNCHANGED <<decision, planned, scored, errored, score>>,
             NEW r \in Rounds, Decided(r)'
      PROVE  Outcome1(r)' /\ Named(r)'
  BY <1>0, <1>1 DEF Decided, ScoredIn, ErroredIn, BestOf, ScoredUpTo
<1>2. ASSUME UNCHANGED decision, Undecided, NEW p \in Points,
             planned' \in {planned, planned \cup {<<round, p>>}},
             scored' \in {scored, scored \cup {<<round, p>>}},
             errored' \in {errored, errored \cup {<<round, p>>}},
             \A x \in Points : x # p => score'[x] = score[x],
             score' = score \/ \A a \in scored : a[2] # p,
             NEW r \in Rounds, Decided(r)'
      PROVE  Outcome1(r)' /\ Named(r)'
  <2>1. Decided(r) /\ r < round /\ r \in Int /\ round \in Int
    BY <1>2, TuningAssumption DEF Decided, DecisionInv, AuditInv, TypeOK
  <2>2. \A a : a \in {<<round, p>>} => a[1] # r /\ a[1] \notin 0..r
    BY <2>1
  <2>3. /\ ScoredIn(r)' = ScoredIn(r) /\ ErroredIn(r)' = ErroredIn(r)
        /\ {a \in planned' : a[1] = r} = {a \in planned : a[1] = r}
    BY <1>2, <2>2 DEF ScoredIn, ErroredIn
  <2>4. ScoredUpTo(r)' = ScoredUpTo(r)
    <3>1. ASSUME NEW x \in Points, NEW q \in 0..r
          PROVE  <<q, x>> \in scored' <=> <<q, x>> \in scored
      <4>1. <<q, x>> # <<round, p>>
        BY <2>1
      <4> QED
        BY <1>2, <4>1
    <3> QED
      BY <3>1 DEF ScoredUpTo
  <2>5. \A x \in ScoredUpTo(r) : score'[x] = score[x]
    <3> SUFFICES ASSUME NEW x \in ScoredUpTo(r) PROVE score'[x] = score[x]
      OBVIOUS
    <3>1. x \in Points /\ \E a \in scored : a[2] = x
      BY DEF ScoredUpTo
    <3> QED
      BY <1>2, <3>1
  <2>6. Outcome1(r)'
    BY <1>0, <1>2, <2>1, <2>3
  <2>7. Named(r)'
    <3> DEFINE i == decision[r].incumbent
               S == ScoredUpTo(r)
    <3>1. BestOf(i, S) /\ i' = i /\ S' = S
      BY <1>0, <1>2, <2>1, <2>4
    <3>2. \A x \in S : score'[x] = score[x]
      BY <2>5
    <3> HIDE DEF i, S
    <3>3. BestOf(i, S)'
      BY <3>1, <3>2 DEF BestOf
    <3> QED
      BY <3>3 DEF i, S
  <2> QED
    BY <2>6, <2>7
<1>3. CASE Materialise
  <2>1. PICK c \in todo : planned' = planned \cup {<<round, c.point>>}
    BY <1>3 DEF Materialise
  <2>2. c.point \in Points /\ Undecided
    BY <1>3 DEF TypeOK, Slots, Undecided, Materialise
  <2>3. UNCHANGED <<decision, scored, errored, score>>
    BY <1>3 DEF Materialise
  <2> QED
    BY <1>0, <1>2, <2>1, <2>2, <2>3
<1>4. CASE AcceptEvaluation
  <2>1. PICK c \in todo : /\ scored' = scored \cup {<<round, c.point>>}
                          /\ score' = [score EXCEPT ![c.point] = report]
    BY <1>4 DEF AcceptEvaluation
  <2>2. /\ c.point \in Points /\ Undecided /\ pc = "evaluate"
        /\ \A x \in Points : x # c.point => score'[x] = score[x]
    BY <1>4, <2>1 DEF TypeOK, Slots, Undecided, AcceptEvaluation
  <2>3. UNCHANGED <<decision, planned, errored>>
    BY <1>4 DEF AcceptEvaluation
  <2>4. \A a \in scored : a[2] # c.point
    <3>1. <<round, c.point>> \in planned /\ <<round, c.point>> \notin scored
      BY <2>2 DEF AuditInv, GrowthInv
    <3> QED
      BY <3>1 DEF AuditInv, GrowthInv, EachCandidateOnce
  <2> QED
    BY <1>0, <1>2, <2>1, <2>2, <2>3, <2>4
<1>5. CASE RejectEvaluation
  <2>1. PICK c \in todo : errored' = errored \cup {<<round, c.point>>}
    BY <1>5 DEF RejectEvaluation
  <2>2. c.point \in Points /\ Undecided
    BY <1>5 DEF TypeOK, Slots, Undecided, RejectEvaluation
  <2>3. UNCHANGED <<decision, planned, scored, score>>
    BY <1>5 DEF RejectEvaluation
  <2> QED
    BY <1>0, <1>2, <2>1, <2>2, <2>3
<1>6. CASE Materialised
  <2>1. \A r \in Rounds : Decided(r)' => decision'[r] = decision[r] /\ Decided(r)
    <3>1. CASE decision' = decision
      BY <3>1 DEF Decided
    <3>2. CASE decision' # decision
      <4>1. PICK d : d.status = "planned"
                     /\ decision' = [decision EXCEPT ![round] = d]
        BY <1>6, <3>2 DEF Materialised
      <4>2. ASSUME NEW r \in Rounds
            PROVE  decision'[r] = IF r = round THEN d ELSE decision[r]
        BY <4>1 DEF TypeOK
      <4> QED
        BY <4>1, <4>2 DEF Decided
    <3> QED
      BY <3>1, <3>2
  <2>2. UNCHANGED <<planned, scored, errored, score>>
    BY <1>6 DEF Materialised
  <2>3. ASSUME NEW r \in Rounds, Decided(r)' PROVE Outcome1(r)' /\ Named(r)'
    BY <1>0, <2>1, <2>2, <2>3 DEF ScoredIn, ErroredIn, BestOf, ScoredUpTo
  <2> QED
    BY <1>0, <2>3
<1>7. CASE Decide
  <2> DEFINE d == [status |-> DecisionStatus(incumbent'),
                   evaluated |-> Cardinality(successful), failed |-> failures,
                   incumbent |-> incumbent']
  <2>1. /\ pc = "evaluate" /\ todo = {} /\ round \in Rounds
        /\ decision' = [decision EXCEPT ![round] = d]
        /\ UNCHANGED <<planned, scored, errored, score>>
    BY <1>7, TuningAssumption DEF Decide, DecisionRound, TypeOK
  <2>2. ASSUME NEW r \in Rounds, r # round, Decided(r)'
        PROVE  Outcome1(r)' /\ Named(r)'
    <3>1. decision'[r] = decision[r] /\ Decided(r)
      BY <2>1, <2>2 DEF TypeOK, Decided
    <3> QED
      BY <1>0, <2>1, <3>1 DEF ScoredIn, ErroredIn, BestOf, ScoredUpTo
  <2>3. decision'[round] = d
    BY <2>1 DEF TypeOK
  <2>4. \A a \in planned : a[1] = round => a \in scored \cup errored
    BY <2>1 DEF AuditInv, GrowthInv
  <2>5. ScoredUpTo(round) = completed
    <3>1. ASSUME NEW a \in scored
          PROVE  a = <<a[1], a[2]>> /\ a[2] \in Points /\ a[1] \in 0..round
      <4>1. a \in planned /\ a[1] <= round
        BY DEF AuditInv, GrowthInv
      <4>2. a \in Pairs
        BY DEF TypeOK
      <4> QED
        BY <2>1, <4>1, <4>2, TuningAssumption DEF Pairs
    <3>2. ScoredUpTo(round) = {a[2] : a \in scored}
      <4>1. ASSUME NEW p \in ScoredUpTo(round) PROVE p \in {a[2] : a \in scored}
        <5>1. PICK q \in 0..round : <<q, p>> \in scored
          BY DEF ScoredUpTo
        <5> QED
          BY <5>1
      <4>2. ASSUME NEW a \in scored PROVE a[2] \in ScoredUpTo(round)
        <5>1. <<a[1], a[2]>> \in scored
          BY <3>1
        <5> QED
          BY <3>1, <5>1 DEF ScoredUpTo
      <4> QED
        BY <4>1, <4>2
    <3> QED
      BY <3>2 DEF AuditInv, GrowthInv
  <2>6. BestOf(incumbent', completed)
    <3>1. CASE completed = {}
      BY <1>7, <3>1 DEF Decide, ChooseIncumbent, Ranked, SearchInv, BestOf, search
    <3>2. CASE completed # {}
      BY <1>7, <3>2 DEF Decide, ChooseIncumbent, Ranked, SelectBest, BestOf
    <3> QED
      BY <3>1, <3>2
  <2>7. ASSUME NEW r \in Rounds, r = round PROVE Outcome1(r)' /\ Named(r)'
    <3>1. /\ decision'[r].failed = {a[2] : a \in ErroredIn(r)}
          /\ decision'[r].evaluated = Cardinality(ScoredIn(r))
      BY <2>1, <2>3, <2>7 DEF AuditInv, CountInv
    <3>2. Outcome1(r)'
      BY <2>1, <2>4, <2>7, <3>1 DEF ScoredIn, ErroredIn
    <3>3. Named(r)'
      <4>1. decision'[r].incumbent = incumbent'
        BY <2>3, <2>7
      <4>2. ScoredUpTo(r)' = completed
        BY <2>1, <2>5, <2>7 DEF ScoredUpTo
      <4> QED
        BY <2>1, <2>6, <4>1, <4>2 DEF BestOf
    <3> QED
      BY <3>2, <3>3
  <2> QED
    BY <1>0, <2>2, <2>7
<1>8. \/ UNCHANGED <<decision, planned, scored, errored, score>>
      \/ Materialise \/ AcceptEvaluation \/ RejectEvaluation
      \/ Materialised \/ Decide
  BY DEF Next, Controller, Start, OpenRun, BeginRound, Launch,
     WriteLeaderboard, WriteBest, CloseRun, EvaluatorExits, Crash, Finished, vars
<1> QED
  BY <1>0, <1>1, <1>3, <1>4, <1>5, <1>6, <1>7, <1>8

\* Every result is of a candidate proposed before it.
LEMMA AuditInvariance == Run => []AuditInv
<1>1. Init => AuditInv
  <2> SUFFICES ASSUME Init PROVE AuditInv
    OBVIOUS
  <2>1. GrowthInv /\ EachCandidateOnce /\ CountInv
    BY DEF Init, GrowthInv, EachCandidateOnce, CountInv
  <2>2. \A r \in 0..(MaxRounds - 1) : ~Decided(r)
    BY DEF Init, Decided
  <2> QED
    BY <2>1, <2>2 DEF Init, AuditInv, DecisionInv, DecisionsAuditable,
                      OutcomesComplete
<1>2. TypeOK /\ SearchInv /\ AuditInv /\ [Next]_vars => AuditInv'
  <2> SUFFICES ASSUME TypeOK, SearchInv, AuditInv, [Next]_vars PROVE AuditInv'
    OBVIOUS
  <2>1. CASE Next
    BY <2>1, GrowthStep, DecisionStep, AuditStep DEF AuditInv
  <2>2. CASE UNCHANGED vars
    <3> USE <2>2 DEF vars, control, search, results, evaluator, evidence, summary
    <3>1. GrowthInv' /\ EachCandidateOnce' /\ CountInv'
      BY DEF AuditInv, GrowthInv, EachCandidateOnce, CountInv, ScoredIn, ErroredIn
    <3>2. DecisionInv'
      BY DEF AuditInv, DecisionInv, Undecided, Decided
    <3>3. DecisionsAuditable' /\ OutcomesComplete'
      BY DEF AuditInv, DecisionsAuditable, OutcomesComplete, Decided, BestOf,
             ScoredUpTo
    <3> QED
      BY <3>1, <3>2, <3>3 DEF AuditInv
  <2> QED
    BY <2>1, <2>2
<1> QED
  BY <1>1, <1>2, SearchInvariance, PTL DEF Run

\* No candidate is materialised in two rounds or evaluated twice, whatever the
\* proposals repeat.
LEMMA CandidatesOnce == Run => []EachCandidateOnce
<1>1. AuditInv => EachCandidateOnce
  BY DEF AuditInv
<1> QED
  BY <1>1, AuditInvariance, PTL

\* Every candidate of a decided round has exactly one outcome, and the counts
\* and failures of its decision.json are those of the directory.
LEMMA OutcomesAreComplete == Run => []OutcomesComplete
<1>1. AuditInv => OutcomesComplete
  BY DEF AuditInv
<1> QED
  BY <1>1, AuditInvariance, PTL

\* Every decision.json names the best of the candidates scored up to its round,
\* and stays true to the end of the run and after a crash.
LEMMA AuditTrailTruthful == Run => []DecisionsAuditable
<1>1. AuditInv => DecisionsAuditable
  BY DEF AuditInv
<1> QED
  BY <1>1, AuditInvariance, PTL

----------------------------------------------------------------------------
\* What is planned, and when

\* The first place in a sequence at which one of its elements stands.
LEMMA FirstOccurrence ==
    ASSUME NEW q, NEW i \in Nat \ {0}
    PROVE  \E j \in 1..i : q[j] = q[i] /\ \A k \in 1..(j - 1) : q[k] # q[i]
<1> DEFINE Less == {ss \in Nat \X Nat : ss[1] < ss[2]}
           S == {j \in 1..i : q[j] = q[i]}
<1>1. IsWellFoundedOn(Less, Nat)
  BY NatLessThanWellFounded, Zenon DEF OpToRel
<1>2. S \subseteq Nat /\ S # {}
  BY DEF S
<1>3. PICK j \in S : \A k \in S : <<k, j>> \notin Less
  <2> HIDE DEF Less, S
  <2> QED
    BY <1>1, <1>2, WFMin, Zenon
<1>4. ASSUME NEW k \in 1..(j - 1) PROVE q[k] # q[i]
  <2>1. k \in Nat /\ j \in Nat /\ k < j /\ k \in 1..i
    BY <1>3
  <2>2. /\ <<k, j>> \in Nat \X Nat /\ <<k, j>>[1] = k /\ <<k, j>>[2] = j
    BY <2>1
  <2>3. <<k, j>> \in Less
    BY <2>1, <2>2, Zenon
  <2> QED
    BY <1>3, <2>1, <2>3
<1> QED
  BY <1>3, <1>4

\* The cap of a valid budget is never reached: generate_round keeps every
\* proposal that is new, at the first place it stands at.
LEMMA DirectionsKept ==
    ASSUME NEW r \in 1..MaxRounds, NEW c \in Points, NEW s,
           NEW cap \in Nat, cap >= 2 * Dimensions,
           NEW i \in DOMAIN Neighborhood(c, r), Neighborhood(c, r)[i] \notin s
    PROVE  Neighborhood(c, r)[i] \in PointsOf(GenerateRound(r, c, s, cap))
<1> DEFINE q == Neighborhood(c, r)
           K == Kept(q, s)
<1>1. /\ q \in Seq(Points) /\ Len(q) \in Nat /\ DOMAIN q = 1..Len(q)
      /\ Len(q) <= cap
  BY TuningAssumption
<1>2. PICK j \in 1..i : q[j] = q[i] /\ \A k \in 1..(j - 1) : q[k] # q[i]
  <2>1. i \in Nat \ {0}
    BY <1>1
  <2> QED
    BY <2>1, FirstOccurrence
<1>3. j \in K
  BY <1>1, <1>2 DEF Kept
<1>4. Cardinality({k \in K : k < j}) < cap
  <2> DEFINE T == {k \in K : k < j}
  <2>1. T \subseteq 1..(j - 1)
    BY <1>1 DEF Kept
  <2>2. IsFiniteSet(1..(j - 1)) /\ Cardinality(1..(j - 1)) = j - 1
    <3>1. j \in Nat \ {0} /\ 1 \in Int /\ j - 1 \in Int
      BY <1>1, <1>2
    <3> HIDE DEF T, K, q
    <3>2. /\ IsFiniteSet(1..(j - 1))
          /\ Cardinality(1..(j - 1)) = IF 1 > j - 1 THEN 0 ELSE (j - 1) - 1 + 1
      BY <3>1, FS_Interval, Zenon
    <3> QED
      BY <3>1, <3>2
  <2> HIDE DEF T
  <2>3. IsFiniteSet(T) /\ Cardinality(T) <= j - 1
    BY ZenonT(60), <2>1, <2>2, FS_Subset
  <2>4. Cardinality(T) \in Nat
    BY <2>3, FS_CardinalityType
  <2>5. Cardinality(T) < cap
    BY <1>1, <1>2, <2>3, <2>4
  <2> QED
    BY <2>5 DEF T
<1>5. GenerateRound(r, c, s, cap) =
         {[slot |-> k, point |-> q[k]] :
             k \in {l \in K : Cardinality({m \in K : m < l}) < cap}}
  <2>1. r # 0
    BY TuningAssumption
  <2> QED
    BY <2>1 DEF GenerateRound
<1>6. [slot |-> j, point |-> q[j]] \in GenerateRound(r, c, s, cap)
  BY <1>3, <1>4, <1>5
<1> QED
  BY <1>2, <1>6 DEF PointsOf

\* How rounds follow each other: each one before the present one was decided
\* with "continue"; every fingerprint seen has a directory; a dry run stays in
\* the round of the baseline.
PlanInv ==
    /\ \A r \in 0..(round - 1) :
          decision[r] # NoDecision /\ decision[r].status = "continue"
    /\ \A p \in seen : \E a \in planned : a[2] = p
    /\ DryRunPlansOnly
    /\ budget.dry =>
          /\ pc \notin {"evaluate", "leaderboard", "best"} /\ round = 0
          /\ \A c \in candidates : c.point = Baseline
    /\ NoDirectionLost

\* Every step keeps how rounds follow each other,
LEMMA PlanStep ==
    ASSUME TypeOK, SearchInv, GrowthInv, PlanInv, Next
    PROVE  PlanInv'
<1> USE DEF control, search, results, evaluator, evidence, summary
<1> USE PlanInv, TuningAssumption
<1>0. /\ round \in Nat /\ round \in 0..(MaxRounds - 1)
      /\ budget \in Budgets /\ ValidBudget(budget)
      /\ decision \in [0..(MaxRounds - 1) -> Decisions \cup {NoDecision}]
  BY DEF TypeOK
\* Steps that plan nothing and decide nothing.
<1>1. ASSUME UNCHANGED <<budget, round, seen, planned, candidates, decision, center>>,
             pc' = "materialise" => pc = "materialise",
             budget.dry => /\ child' = "none" /\ scored' = {} /\ errored' = {}
                           /\ pc' \notin {"evaluate", "leaderboard", "best"}
      PROVE  PlanInv'
  BY <1>1 DEF PlanInv, DryRunPlansOnly, NoDirectionLost
<1>2. CASE BeginRound
  <2>1. /\ pc = "generate" /\ pc' = "materialise"
        /\ candidates' = GenerateRound(round, center, seen, budget.cap)
        /\ UNCHANGED <<budget, round, center, seen, planned, scored, errored,
                       decision, child>>
    BY <1>2 DEF BeginRound
  <2>2. ASSUME round' > 0, NEW i \in DOMAIN Neighborhood(center', round')
        PROVE  \/ Neighborhood(center, round)[i] \in PointsOf(candidates')
               \/ \E a \in planned' : /\ a[1] < round'
                                      /\ a[2] = Neighborhood(center, round)[i]
    <3>1. /\ round \in 1..MaxRounds /\ center \in Points
          /\ budget.cap \in Nat /\ budget.cap >= 2 * Dimensions
          /\ i \in DOMAIN Neighborhood(center, round)
      BY <1>0, <2>1, <2>2 DEF SearchInv, TypeOK, ValidBudget
    <3>2. CASE Neighborhood(center, round)[i] \notin seen
      BY <2>1, <3>1, <3>2, DirectionsKept
    <3>3. CASE Neighborhood(center, round)[i] \in seen
      BY <2>1, <3>3 DEF PlanInv, GrowthInv
    <3> QED
      BY <3>2, <3>3
  <2>3. NoDirectionLost'
    BY <2>1, <2>2 DEF NoDirectionLost
  <2>4. budget'.dry => \A c \in candidates' : c.point = Baseline
    BY <2>1 DEF PlanInv, GenerateRound
  <2> QED
    BY <2>1, <2>3, <2>4 DEF PlanInv, DryRunPlansOnly
<1>3. CASE Materialise
  <2>1. PICK c \in todo : /\ seen' = seen \cup {c.point}
                          /\ planned' = planned \cup {<<round, c.point>>}
    BY <1>3 DEF Materialise
  <2>2. /\ pc = "materialise" /\ c \in candidates
        /\ UNCHANGED <<pc, budget, round, center, candidates, decision, child,
                       scored, errored>>
    BY <1>3, <2>1 DEF Materialise, GrowthInv
  <2>3. DryRunPlansOnly'
    BY <2>1, <2>2 DEF PlanInv, DryRunPlansOnly
  <2>4. NoDirectionLost'
    BY <2>1, <2>2 DEF PlanInv, NoDirectionLost
  <2>5. \A p \in seen' : \E a \in planned' : a[2] = p
    <3>1. <<round, c.point>> \in planned' /\ <<round, c.point>>[2] = c.point
      BY <2>1
    <3>2. \A p \in seen : \E a \in planned' : a[2] = p
      BY <2>1 DEF PlanInv
    <3> QED
      BY <2>1, <3>1, <3>2
  <2> QED
    BY <2>1, <2>2, <2>3, <2>4, <2>5 DEF PlanInv
<1>4. CASE Materialised
  <2>1. /\ pc = "materialise" /\ pc' # "materialise"
        /\ UNCHANGED <<budget, round, seen, planned, candidates, center, child,
                       scored, errored>>
        /\ \A r \in 0..(round - 1) : decision'[r] = decision[r]
        /\ budget.dry => pc' = "close"
    BY <1>0, <1>4 DEF Materialised, DryRun
  <2> QED
    BY <2>1 DEF PlanInv, DryRunPlansOnly, NoDirectionLost
<1>5. CASE Decide
  <2>1. ~budget.dry /\ pc' # "materialise"
    BY <1>5 DEF Decide, PlanInv
  <2>2. \A r \in 0..(round' - 1) :
           decision'[r] # NoDecision /\ decision'[r].status = "continue"
    <3> DEFINE status == DecisionStatus(incumbent')
               d == [status |-> status, evaluated |-> Cardinality(successful),
                     failed |-> failures, incumbent |-> incumbent']
    <3>1. /\ decision' = [decision EXCEPT ![round] = d]
          /\ \/ status = "continue" /\ round' = round + 1
             \/ round' = round
      BY <1>5 DEF Decide, DecisionRound
    <3>2. decision'[round] = d /\ d.status = status
      BY <1>0, <3>1
    <3>3. d # NoDecision
      <4>1. incumbent' \in Points \cup {NoPoint} /\ failures \subseteq Points
        BY <1>5, DecideStep DEF TypeOK
      <4>2. status \in Statuses
        BY DEF DecisionStatus, Statuses
      <4>3. Cardinality(successful) \in Nat
        BY FS_CardinalityType DEF SearchInv
      <4>4. d \in Decisions
        BY <4>1, <4>2, <4>3 DEF Decisions
      <4> QED
        BY <4>4, DecisionAssumption
    <3>4. \A r \in 0..(round - 1) : decision'[r] = decision[r]
      BY <1>0, <3>1
    <3> HIDE DEF d, status
    <3>5. ASSUME NEW r \in 0..(round' - 1)
          PROVE  decision'[r] # NoDecision /\ decision'[r].status = "continue"
      <4>1. CASE r = round
        BY <1>0, <3>1, <3>2, <3>3, <3>5, <4>1
      <4>2. CASE r # round
        <5>1. r \in 0..(round - 1)
          BY <1>0, <3>1, <3>5, <4>2
        <5> QED
          BY <5>1, <3>4 DEF PlanInv
      <4> QED
        BY <4>1, <4>2
    <3> QED
      BY <3>5
  <2>3. UNCHANGED <<budget, seen, planned>>
    BY <1>5 DEF Decide
  <2> QED
    BY <2>1, <2>2, <2>3 DEF PlanInv, DryRunPlansOnly, NoDirectionLost
<1>6. ASSUME NEW i \in Invocations, Start(i) PROVE PlanInv'
  <2>1. pc' = pc \/ pc' = "open"
    BY <1>6 DEF Start, Claim
  <2> QED
    BY <1>1, <1>6, <2>1 DEF Start, PlanInv, DryRunPlansOnly
<1>7. CASE OpenRun
  BY <1>1, <1>7 DEF OpenRun, PlanInv, DryRunPlansOnly
<1>8. CASE Launch \/ AcceptEvaluation \/ RejectEvaluation
  <2>1. pc = "evaluate" /\ pc' = pc
    BY <1>8 DEF Launch, AcceptEvaluation, RejectEvaluation
  <2>2. ~budget.dry
    BY <2>1 DEF PlanInv
  <2> QED
    BY <1>1, <1>8, <2>1, <2>2 DEF Launch, AcceptEvaluation, RejectEvaluation
<1>9. CASE EvaluatorExits
  <2>1. ~budget.dry
    BY <1>9 DEF EvaluatorExits, PlanInv, DryRunPlansOnly
  <2> QED
    BY <1>1, <1>9, <2>1 DEF EvaluatorExits
<1>10. CASE WriteLeaderboard \/ WriteBest \/ CloseRun
  BY <1>1, <1>10 DEF WriteLeaderboard, WriteBest, CloseRun, PlanInv, DryRunPlansOnly
<1>11. CASE Crash
  BY <1>1, <1>11 DEF Crash, PlanInv, DryRunPlansOnly
<1>12. CASE Finished
  BY <1>1, <1>12 DEF Finished, vars, PlanInv, DryRunPlansOnly
<1> QED
  BY <1>2, <1>3, <1>4, <1>5, <1>6, <1>7, <1>8, <1>9, <1>10, <1>11, <1>12
  DEF Next, Controller

\* in every reachable state.
LEMMA PlanInvariance == Run => []PlanInv
<1>1. Init => PlanInv
  BY TuningAssumption DEF Init, PlanInv, DryRunPlansOnly, NoDirectionLost
<1>2. TypeOK /\ SearchInv /\ GrowthInv /\ PlanInv /\ [Next]_vars => PlanInv'
  <2> SUFFICES ASSUME TypeOK, SearchInv, GrowthInv, PlanInv, [Next]_vars
               PROVE  PlanInv'
    OBVIOUS
  <2>1. CASE Next
    BY <2>1, PlanStep
  <2>2. CASE UNCHANGED vars
    BY <2>2 DEF vars, control, search, results, evaluator, evidence, summary,
                PlanInv, DryRunPlansOnly, NoDirectionLost
  <2> QED
    BY <2>1, <2>2
<1>3. AuditInv => GrowthInv
  BY DEF AuditInv
<1> QED
  BY <1>1, <1>2, <1>3, SearchInvariance, AuditInvariance, PTL DEF Run

\* No candidate of a round is written before every round before it was decided
\* on disk with "continue".
LEMMA RoundsInOrder == Run => []DecidedBeforeNextRound
<1>1. TypeOK /\ GrowthInv /\ PlanInv => DecidedBeforeNextRound
  <2> SUFFICES ASSUME TypeOK, GrowthInv, PlanInv,
                      NEW a \in planned, a[1] > 0
               PROVE  /\ decision[a[1] - 1] # NoDecision
                      /\ decision[a[1] - 1].status = "continue"
    BY DEF DecidedBeforeNextRound
  <2>1. a[1] - 1 \in 0..(round - 1)
    BY TuningAssumption DEF TypeOK, Pairs, GrowthInv
  <2> QED
    BY <2>1 DEF PlanInv
<1>2. AuditInv => GrowthInv
  BY DEF AuditInv
<1> QED
  BY <1>1, <1>2, SearchInvariance, AuditInvariance, PlanInvariance, PTL

\* A dry run never starts an evaluator and plans the baseline only, however
\* many rounds its budget states.
LEMMA DryRunsPlanOnly == Run => []DryRunPlansOnly
<1>1. PlanInv => DryRunPlansOnly
  BY DEF PlanInv
<1> QED
  BY <1>1, PlanInvariance, PTL

\* The cap of a valid configuration never costs a direction, whatever the
\* neighbourhood repeats.
THEOREM DirectionsNeverLost == Spec => []NoDirectionLost
<1>1. PlanInv => NoDirectionLost
  BY DEF PlanInv
<1> QED
  BY <1>1, PlanInvariance, SpecRuns, PTL

----------------------------------------------------------------------------
\* What the run concludes with

\* Python's sort gives each completed candidate a place of its own, the best
\* one the first.
LEMMA PlacesOrder ==
    ASSUME completed \subseteq Points, IsFiniteSet(completed),
           \A p \in completed : score[p] \in Scores
    PROVE  /\ \A p, q \in completed : Places[p] = Places[q] => p = q
           /\ \A p \in completed : BestOf(p, completed) => Places[p] = 1
<1> DEFINE Before(p) == {q \in completed \ {p} : Outranks(q, score[q], p, score[p])}
<1>1. /\ \A p \in completed : p \in Points /\ score[p] \in Scores
      /\ DOMAIN Places = completed
  BY DEF Places
<1>2. \A p \in completed : /\ Places[p] = 1 + Cardinality(Before(p))
                           /\ IsFiniteSet(Before(p))
                           /\ Cardinality(Before(p)) \in Nat
  <2> SUFFICES ASSUME NEW p \in completed
               PROVE  /\ Places[p] = 1 + Cardinality(Before(p))
                      /\ IsFiniteSet(Before(p))
                      /\ Cardinality(Before(p)) \in Nat
    OBVIOUS
  <2>1. Places[p] = 1 + Cardinality(Before(p))
    BY DEF Places
  <2>2. Before(p) \in SUBSET completed
    OBVIOUS
  <2> HIDE DEF Before
  <2>3. IsFiniteSet(Before(p))
    BY <2>2, FS_Subset
  <2> QED
    BY <2>1, <2>3, FS_CardinalityType
<1>3. ASSUME NEW p \in completed, NEW q \in completed,
             Outranks(p, score[p], q, score[q])
      PROVE  Places[p] # Places[q]
  <2>1. p # q
    BY <1>1, <1>3, RankIsStrictTotalOrder
  <2>2. p \in Before(q) /\ p \notin Before(p)
    BY <1>3, <2>1
  <2>3. ASSUME NEW r \in Before(p) PROVE r \in Before(q)
    <3>1. r \in completed /\ Outranks(r, score[r], p, score[p])
      BY <2>3
    <3>2. Outranks(r, score[r], q, score[q])
      BY <1>1, <1>3, <3>1, RankIsStrictTotalOrder
    <3>3. r # q
      BY <1>1, <3>1, <3>2, RankIsStrictTotalOrder
    <3> QED
      BY <3>1, <3>2, <3>3
  <2>4. Before(p) \in SUBSET Before(q) /\ Before(p) # Before(q)
    BY <2>2, <2>3
  <2> HIDE DEF Before
  <2>5. Cardinality(Before(p)) # Cardinality(Before(q))
    BY <1>2, <2>4, FS_Subset
  <2> QED
    BY <1>2, <2>5
<1>4. \A p, q \in completed : Places[p] = Places[q] => p = q
  BY <1>1, <1>3, RankIsStrictTotalOrder
<1>5. ASSUME NEW p \in completed, BestOf(p, completed) PROVE Places[p] = 1
  <2>1. ASSUME NEW q \in completed \ {p}, Outranks(q, score[q], p, score[p])
        PROVE  FALSE
    <3>1. Outranks(p, score[p], q, score[q])
      BY <1>5, <2>1 DEF BestOf
    <3>2. Outranks(p, score[p], p, score[p])
      BY <1>1, <2>1, <3>1, RankIsStrictTotalOrder
    <3> QED
      BY <1>1, <3>2, RankIsStrictTotalOrder
  <2>2. Before(p) = {}
    BY <2>1
  <2> HIDE DEF Before
  <2> QED
    BY <1>2, <2>2, FS_EmptySet
<1> QED
  BY <1>4, <1>5

\* What each phase of the controller knows of the run it will report.
ReportInv ==
    /\ IsFiniteSet(completed)
    /\ \A p \in completed : score[p] \in Scores
    /\ pc \in {"start", "open", "generate"} /\ round = 0 => seen = {}
    /\ pc \in {"materialise", "evaluate"} =>
          /\ round = 0 => candidates = {[slot |-> 1, point |-> Baseline]}
          /\ round > 0 => completed # {}
    /\ pc \in {"leaderboard", "best", "close", "done"} /\ ~budget.dry =>
          (completed = {} => <<0, Baseline>> \in errored)
    /\ pc \in {"best", "close", "done"} /\ ~budget.dry =>
          leaderboard = Places /\ BestOf(incumbent, completed)
    /\ pc = "best" => incumbent # NoPoint
    /\ pc \in {"close", "done"} /\ ~budget.dry =>
          best = IF incumbent = NoPoint THEN NoFile ELSE incumbent
    /\ pc \notin {"close", "done", "crashed"} => best = NoFile
    /\ \/ runStatus \in {NoFile, "running"}
       \/ pc = "done" /\ runStatus = FinalStatus

\* The files on disk agree with the run that writes them.
LEMMA ReportStep ==
    ASSUME TypeOK, SearchInv, GrowthInv, PlanInv, ReportInv, Next
    PROVE  ReportInv'
<1> USE DEF control, search, results, evaluator, evidence, summary
<1> USE TuningAssumption
<1>0. round \in Nat /\ round \in 0..(MaxRounds - 1)
  BY DEF TypeOK
\* Steps within a phase.
<1>1. ASSUME UNCHANGED <<budget, round, seen, candidates, completed, score, incumbent,
                         errored, leaderboard, best, runStatus, pc>>
      PROVE  ReportInv'
  BY <1>1 DEF ReportInv, Places, BestOf, FinalStatus
<1>2. ASSUME NEW i \in Invocations, Start(i) PROVE ReportInv'
  <2>1. CASE pc' = pc
    BY <1>1, <1>2, <2>1 DEF Start
  <2>2. CASE pc' # pc
    <3>1. pc = "start" /\ pc' = "open"
      BY <1>2, <2>2 DEF Start, Claim, SearchInv
    <3> QED
      BY <1>2, <3>1 DEF Start, ReportInv
  <2> QED
    BY <2>1, <2>2
<1>3. CASE OpenRun
  BY <1>3 DEF OpenRun, ReportInv
<1>4. CASE BeginRound
  <2>1. /\ pc = "generate" /\ pc' = "materialise"
        /\ candidates' = GenerateRound(round, center, seen, budget.cap)
        /\ UNCHANGED <<budget, round, seen, completed, score, best, runStatus>>
    BY <1>4 DEF BeginRound
  <2>2. round = 0 => candidates' = {[slot |-> 1, point |-> Baseline]}
    BY <2>1 DEF ReportInv, GenerateRound
  <2>3. round > 0 => completed # {}
    BY <2>1 DEF SearchInv
  <2> QED
    BY <2>1, <2>2, <2>3 DEF ReportInv
<1>5. CASE Materialise
  BY <1>5 DEF Materialise, ReportInv
<1>6. CASE Materialised
  BY <1>6 DEF Materialised, DryRun, ReportInv
<1>7. CASE Launch
  BY <1>1, <1>7 DEF Launch
<1>8. CASE EvaluatorExits
  BY <1>1, <1>8 DEF EvaluatorExits
<1>9. CASE AcceptEvaluation
  <2>1. PICK c \in todo : /\ score' = [score EXCEPT ![c.point] = report]
                          /\ completed' = completed \cup {c.point}
    BY <1>9 DEF AcceptEvaluation
  <2>2. /\ pc = "evaluate" /\ pc' = pc /\ report \in Scores
        /\ UNCHANGED <<budget, round, seen, candidates, incumbent, errored,
                       leaderboard, best, runStatus>>
    BY <1>9 DEF AcceptEvaluation, TypeOK
  <2>3. IsFiniteSet(completed')
    BY <2>1, FS_AddElement DEF ReportInv
  <2>4. \A p \in completed' : score'[p] \in Scores
    <3>1. /\ c.point \in Points /\ completed \subseteq Points
          /\ score \in [Points -> Scores \cup {NoScore}]
      BY DEF TypeOK, Slots
    <3>2. \A p \in completed : score[p] \in Scores
      BY DEF ReportInv
    <3> QED
      BY <2>1, <2>2, <3>1, <3>2
  <2>5. pc' = "evaluate" /\ completed' # {} /\ best = NoFile
        /\ (round = 0 => candidates = {[slot |-> 1, point |-> Baseline]})
        /\ runStatus \in {NoFile, "running"}
    BY <2>1, <2>2 DEF ReportInv
  <2> QED
    BY <2>2, <2>3, <2>4, <2>5 DEF ReportInv
<1>10. CASE RejectEvaluation
  <2>1. /\ pc = "evaluate"
        /\ UNCHANGED <<pc, budget, round, seen, candidates, completed, score,
                       best, runStatus>>
    BY <1>10 DEF RejectEvaluation
  <2> QED
    BY <2>1 DEF ReportInv
<1>11. CASE Decide
  <2>1. /\ pc = "evaluate" /\ todo = {}
        /\ \/ pc' = "leaderboard" /\ round' = round
           \/ pc' = "generate" /\ round' = round + 1
        /\ UNCHANGED <<budget, seen, completed, score, errored, leaderboard,
                       best, runStatus>>
    BY <1>11 DEF Decide
  <2>2. completed = {} => <<0, Baseline>> \in errored
    <3> SUFFICES ASSUME completed = {} PROVE <<0, Baseline>> \in errored
      OBVIOUS
    <3>1. round = 0 /\ [slot |-> 1, point |-> Baseline] \in candidates
      BY <1>0, <2>1 DEF ReportInv
    <3>2. <<round, [slot |-> 1, point |-> Baseline].point>> \in scored \cup errored
      BY <2>1, <3>1 DEF GrowthInv
    <3>3. scored = {}
      <4>1. \A a \in scored : a[2] \in completed
        BY DEF GrowthInv
      <4> QED
        BY <4>1
    <3> QED
      BY <3>1, <3>2, <3>3
  <2> QED
    BY <1>0, <2>1, <2>2 DEF ReportInv
<1>12. CASE WriteLeaderboard
  <2>1. /\ pc = "leaderboard" /\ leaderboard' = Places /\ Places' = Places
        /\ pc' = IF incumbent = NoPoint THEN "close" ELSE "best"
        /\ UNCHANGED <<budget, round, seen, completed, score, incumbent,
                       errored, best, runStatus>>
    BY <1>12 DEF WriteLeaderboard, Places
  <2>2. BestOf(incumbent, completed)'
    BY <2>1 DEF SearchInv, BestOf
  <2> QED
    BY <2>1, <2>2 DEF ReportInv
<1>13. CASE WriteBest
  <2>1. /\ pc = "best" /\ pc' = "close" /\ best' = incumbent /\ Places' = Places
        /\ UNCHANGED <<budget, round, seen, completed, score, incumbent,
                       errored, leaderboard, runStatus>>
    BY <1>13 DEF WriteBest, Places
  <2>2. BestOf(incumbent, completed)' <=> BestOf(incumbent, completed)
    BY <2>1 DEF BestOf
  <2> QED
    BY <2>1, <2>2 DEF ReportInv
<1>14. CASE CloseRun
  <2>1. /\ pc = "close" /\ pc' = "done" /\ runStatus' = FinalStatus
        /\ Places' = Places /\ FinalStatus' = FinalStatus
        /\ UNCHANGED <<budget, round, seen, completed, score, incumbent,
                       errored, leaderboard, best>>
    BY <1>14 DEF CloseRun, Places, FinalStatus
  <2>2. BestOf(incumbent, completed)' <=> BestOf(incumbent, completed)
    BY <2>1 DEF BestOf
  <2> QED
    BY <2>1, <2>2 DEF ReportInv
<1>15. CASE Crash
  BY <1>15 DEF Crash, ReportInv
<1>16. CASE Finished
  BY <1>1, <1>16 DEF Finished, vars
<1> QED
  BY <1>2, <1>3, <1>4, <1>5, <1>6, <1>7, <1>8, <1>9, <1>10, <1>11, <1>12,
     <1>13, <1>14, <1>15, <1>16 DEF Next, Controller

\* They do so in every reachable state.
LEMMA ReportInvariance == Run => []ReportInv
<1>1. Init => ReportInv
  BY FS_EmptySet DEF Init, ReportInv
<1>2. TypeOK /\ SearchInv /\ GrowthInv /\ PlanInv /\ ReportInv /\ [Next]_vars
      => ReportInv'
  <2> SUFFICES ASSUME TypeOK, SearchInv, GrowthInv, PlanInv, ReportInv, [Next]_vars
               PROVE  ReportInv'
    OBVIOUS
  <2>1. CASE Next
    BY <2>1, ReportStep
  <2>2. CASE UNCHANGED vars
    BY <2>2 DEF vars, control, search, results, evaluator, evidence, summary,
                ReportInv, Places, BestOf, FinalStatus
  <2> QED
    BY <2>1, <2>2
<1>3. AuditInv => GrowthInv
  BY DEF AuditInv
<1> QED
  BY <1>1, <1>2, <1>3, SearchInvariance, AuditInvariance, PlanInvariance, PTL DEF Run

\* The final run.json, leaderboard.json and best.json agree with the score and
\* error files of the directory, for every set of scores and every id order.
LEMMA FinalReportsTruthful == Run => []FinalReportTruthful
<1>1. TypeOK /\ SearchInv /\ GrowthInv /\ ReportInv => FinalReportTruthful
  <2> SUFFICES ASSUME TypeOK, SearchInv, GrowthInv, ReportInv
               PROVE  FinalReportTruthful
    OBVIOUS
  <2>1. completed = {a[2] : a \in scored} /\ completed \subseteq Points
    BY DEF GrowthInv, TypeOK
  <2>2. ASSUME runStatus \in {"failed", "complete", "no-feasible-candidate"}
        PROVE  /\ pc = "done" /\ runStatus = FinalStatus /\ ~budget.dry
               /\ leaderboard = Places /\ BestOf(incumbent, completed)
               /\ best = IF incumbent = NoPoint THEN NoFile ELSE incumbent
    <3>1. pc = "done" /\ runStatus = FinalStatus
      BY <2>2, TuningAssumption DEF ReportInv
    <3>2. ~budget.dry
      BY <2>2, <3>1 DEF FinalStatus
    <3> QED
      BY <3>1, <3>2 DEF ReportInv
  <2>3. ASSUME runStatus = "failed"
        PROVE  scored = {} /\ <<0, Baseline>> \in errored /\ best = NoFile
    <3>1. incumbent = NoPoint
      BY <2>2, <2>3 DEF FinalStatus
    <3>2. completed = {}
      BY <2>1, <2>2, <2>3, <3>1, TuningAssumption DEF BestOf
    <3> QED
      BY <2>1, <2>2, <2>3, <3>1, <3>2 DEF ReportInv
  <2>4. ASSUME runStatus \in {"complete", "no-feasible-candidate"}
        PROVE  /\ best \in completed /\ DOMAIN leaderboard = completed
               /\ leaderboard[best] = 1
               /\ \A p, q \in completed : leaderboard[p] = leaderboard[q] => p = q
               /\ runStatus = "complete" <=> Feasible(score[best])
               /\ (\E p \in completed : Feasible(score[p])) => Feasible(score[best])
    <3>1. incumbent # NoPoint /\ best = incumbent
      BY <2>2, <2>4 DEF FinalStatus
    <3>2. best \in completed
      BY <2>2, <2>4, <3>1 DEF BestOf
    <3>3. /\ leaderboard[best] = 1
          /\ \A p, q \in completed : leaderboard[p] = leaderboard[q] => p = q
      BY <2>1, <2>2, <2>4, <3>1, <3>2, PlacesOrder DEF ReportInv
    <3>4. runStatus = "complete" <=> Feasible(score[best])
      BY <2>2, <2>4, <3>1 DEF FinalStatus
    <3>5. ASSUME NEW p \in completed, Feasible(score[p]), ~Feasible(score[best])
          PROVE  FALSE
      <4>1. /\ p \in Points /\ best \in Points
            /\ score[p] \in Scores /\ score[best] \in Scores
        BY <2>1, <3>2 DEF ReportInv
      <4>2. Outranks(p, score[p], best, score[best])
        BY <3>5, <4>1, FeasibleFirst
      <4>3. Outranks(best, score[best], p, score[p])
        BY <2>2, <2>4, <3>1, <3>2, <3>5 DEF BestOf
      <4> QED
        BY <4>1, <4>2, <4>3, RankIsStrictTotalOrder
    <3>6. DOMAIN leaderboard = completed
      BY <2>2, <2>4 DEF Places
    <3> QED
      BY <3>2, <3>3, <3>4, <3>5, <3>6
  <2> QED
    BY <2>1, <2>3, <2>4 DEF FinalReportTruthful
<1>2. AuditInv => GrowthInv
  BY DEF AuditInv
<1> QED
  BY <1>1, <1>2, SearchInvariance, AuditInvariance, ReportInvariance, PTL

\* The audit trail fits together, for every search and every crash.
THEOREM AuditTrailHolds == Spec => []AuditTrail
  BY CandidatesOnce, OutcomesAreComplete, RoundsInOrder, AuditTrailTruthful,
     SpecRuns, PTL DEF AuditTrail

\* Plans and reports tell the truth, dry run or not.
THEOREM ReportsAlwaysTruthful == Spec => []ReportsTruthful
  BY FinalReportsTruthful, DryRunsPlanOnly, SpecRuns, PTL DEF ReportsTruthful

\* What a finished run has left is not written again.
LEMMA ClosedStaysUntouched == Run => ClosedRunUntouched
<1>1. ASSUME SearchInv, Next, Closed PROVE Closed' /\ disk' = disk
  <2> USE <1>1 DEF Closed, disk, control, search, results, evaluator, evidence, summary
  <2>1. ASSUME NEW i \in Invocations, Start(i) PROVE Closed' /\ disk' = disk
    BY <2>1 DEF Start, Claim, SearchInv
  <2>2. CASE Controller
    BY <2>2 DEF Controller, OpenRun, BeginRound, Materialise, Materialised,
                Launch, AcceptEvaluation, RejectEvaluation, Decide,
                WriteLeaderboard, WriteBest, CloseRun
  <2>3. CASE EvaluatorExits
    BY <2>3 DEF EvaluatorExits
  <2>4. CASE Crash
    BY <2>4 DEF Crash
  <2>5. CASE Finished
    BY <2>5 DEF Finished, vars
  <2> QED
    BY <1>1, <2>1, <2>2, <2>3, <2>4, <2>5 DEF Next
<1>2. SearchInv /\ [Next]_vars => [Closed => Closed' /\ disk' = disk]_vars
  BY <1>1
<1> QED
  BY <1>2, SearchInvariance, PTL DEF Run, ClosedRunUntouched

\* A directory whose run has ended, or was abandoned, is never written again,
\* by that run or by any later invocation.
THEOREM ClosedRunsUntouched == Spec => ClosedRunUntouched
BY ClosedStaysUntouched, SpecRuns, PTL
----------------------------------------------------------------------------
\* The abstract search that the controller implements

\* select_best is the same operator in both modules.
LEMMA SelectBestAbstract ==
    \A C, sc : Outcome!SelectBest(C, sc) = SelectBest(C, sc)
BY DEF Outcome!SelectBest, SelectBest, Outcome!Outranks, Outranks,
       Outcome!KeyLess, KeyLess, Outcome!RankKey, RankKey, Outcome!Feasible, Feasible

\* Only completed candidates have a score.json, and best.json, from when it
\* is there, names the best of them.
MeasuredInv == \A p \in Points : score[p] # NoScore <=> p \in completed

BestInv ==
    best # NoFile =>
        /\ pc \in {"close", "done", "crashed"}
        /\ best \in completed /\ BestOf(best, completed)

\* The plan of a dry run is on disk before the run is summed up.
DryInv == budget.dry /\ pc \in {"close", "done"} => <<0, Baseline>> \in planned

OutcomeInv == MeasuredInv /\ BestInv /\ DryInv

\* The best candidate is measured, and the best of those measured.
LEMMA OutcomeStep ==
    ASSUME TypeOK, SearchInv, GrowthInv, PlanInv, ReportInv, OutcomeInv, Next
    PROVE  OutcomeInv'
<1> USE DEF control, search, results, evaluator, evidence, summary
<1>1. CASE AcceptEvaluation
  <2>1. PICK c \in todo : /\ score' = [score EXCEPT ![c.point] = report]
                          /\ completed' = completed \cup {c.point}
    BY <1>1 DEF AcceptEvaluation
  <2>2. /\ pc = "evaluate" /\ pc' = pc /\ report \in Scores
        /\ UNCHANGED <<budget, best, planned>>
    BY <1>1 DEF AcceptEvaluation, TypeOK
  <2>3. c.point \in Points /\ score \in [Points -> Scores \cup {NoScore}]
    BY DEF TypeOK, Slots
  <2>4. MeasuredInv'
    BY <2>1, <2>2, <2>3, TuningAssumption DEF OutcomeInv, MeasuredInv
  <2> QED
    BY <2>2, <2>4 DEF OutcomeInv, BestInv, DryInv
<1>2. CASE WriteBest
  <2>1. /\ pc = "best" /\ pc' = "close" /\ best' = incumbent
        /\ UNCHANGED <<budget, score, completed, planned>>
    BY <1>2 DEF WriteBest
  <2>2. ~budget.dry /\ incumbent # NoPoint
    BY <2>1 DEF PlanInv, ReportInv
  <2>3. incumbent \in completed /\ BestOf(incumbent, completed)
    BY <2>1, <2>2 DEF SearchInv
  <2> QED
    BY <2>1, <2>2, <2>3 DEF OutcomeInv, MeasuredInv, BestInv, DryInv, BestOf
<1>3. CASE Materialised
  <2>1. /\ pc = "materialise" /\ todo = {}
        /\ UNCHANGED <<budget, score, completed, planned, best>>
        /\ pc' = IF budget.dry THEN "close" ELSE "evaluate"
    BY <1>3 DEF Materialised, DryRun
  <2>2. budget.dry => <<0, Baseline>> \in planned
    <3> SUFFICES ASSUME budget.dry PROVE <<0, Baseline>> \in planned
      OBVIOUS
    <3>1. round = 0 /\ [slot |-> 1, point |-> Baseline] \in candidates
      BY <2>1 DEF PlanInv, ReportInv
    <3>2. <<round, [slot |-> 1, point |-> Baseline].point>> \in planned
      BY <2>1, <3>1 DEF GrowthInv
    <3> QED
      BY <3>1, <3>2
  <2> QED
    BY <2>1, <2>2 DEF OutcomeInv, MeasuredInv, BestInv, DryInv
<1>4. CASE Materialise
  <2>1. pc = "materialise" /\ pc' = pc /\ UNCHANGED <<score, completed, best>>
    BY <1>4 DEF Materialise
  <2> QED
    BY <2>1 DEF OutcomeInv, MeasuredInv, BestInv, DryInv
<1>5. ASSUME NEW i \in Invocations, Start(i) PROVE OutcomeInv'
  <2>1. /\ UNCHANGED <<budget, score, completed, best, planned>>
        /\ \/ pc' = pc
           \/ pc = "start" /\ pc' = "open"
    BY <1>5 DEF Start, Claim, SearchInv
  <2> QED
    BY <2>1 DEF OutcomeInv, MeasuredInv, BestInv, DryInv, BestOf
\* The steps that change neither the scores nor best.json.
<1>6. CASE \/ OpenRun \/ BeginRound \/ Launch \/ RejectEvaluation \/ Decide
           \/ WriteLeaderboard \/ CloseRun \/ EvaluatorExits \/ Crash \/ Finished
  <2>1. UNCHANGED <<budget, score, completed, best, planned>>
    BY <1>6 DEF OpenRun, BeginRound, Launch, RejectEvaluation, Decide,
                WriteLeaderboard, CloseRun, EvaluatorExits, Crash, Finished, vars
  <2>2. pc \in {"close", "done", "crashed"} => pc' \in {"close", "done", "crashed"}
    BY <1>6 DEF OpenRun, BeginRound, Launch, RejectEvaluation, Decide,
                WriteLeaderboard, CloseRun, EvaluatorExits, Crash, Finished, vars
  <2>3. budget.dry /\ pc' \in {"close", "done"} => pc \in {"close", "done"}
    BY <1>6 DEF OpenRun, BeginRound, Launch, RejectEvaluation, Decide, EvaluatorExits,
                WriteLeaderboard, CloseRun, Crash, Finished, vars, PlanInv, TypeOK
  <2> QED
    BY <2>1, <2>2, <2>3 DEF OutcomeInv, MeasuredInv, BestInv, DryInv, BestOf
<1> QED
  BY <1>1, <1>2, <1>3, <1>4, <1>5, <1>6 DEF Next, Controller

RunInv ==
    TypeOK /\ SearchInv /\ AuditInv /\ PlanInv /\ ReportInv /\ OutcomeInv

\* All of it holds in every reachable state of a run,
LEMMA RunInvariance == Run => []RunInv
<1>1. Init => OutcomeInv
  BY DEF Init, OutcomeInv, MeasuredInv, BestInv, DryInv
<1>2. TypeOK /\ SearchInv /\ AuditInv /\ PlanInv /\ ReportInv /\ OutcomeInv
      /\ [Next]_vars => OutcomeInv'
  <2> SUFFICES ASSUME TypeOK, SearchInv, AuditInv, PlanInv, ReportInv,
                      OutcomeInv, [Next]_vars
               PROVE  OutcomeInv'
    OBVIOUS
  <2>1. CASE Next
    BY <2>1, OutcomeStep DEF AuditInv
  <2>2. CASE UNCHANGED vars
    BY <2>2 DEF vars, control, search, results, evaluator, evidence, summary,
                OutcomeInv, MeasuredInv, BestInv, DryInv, BestOf
  <2> QED
    BY <2>1, <2>2
<1> QED
  BY <1>1, <1>2, SearchInvariance, AuditInvariance, PlanInvariance,
     ReportInvariance, PTL DEF Run, RunInv
\* Every step of the controller is a step of the abstract search or leaves its
\* variables alone: a result is measured when its score.json is written, and
\* the search concludes when the last run.json is.
LEMMA OutcomeSimulates ==
    ASSUME RunInv, [Next]_vars
    PROVE  [Outcome!Next]_Outcome!vars
<1> USE DEF control, search, results, evaluator, evidence, summary
<1> USE DEF RunInv
<1> DEFINE Verdict == IF runStatus \in {NoFile, "running"} THEN "open" ELSE runStatus
           Choice == IF runStatus \in {"complete", "no-feasible-candidate"}
                     THEN best ELSE NoPoint
           Stutters == score' = score /\ Verdict' = Verdict /\ Choice' = Choice
<1>0. Stutters => UNCHANGED Outcome!vars
  BY DEF Outcome!vars
<1>1. ASSUME UNCHANGED <<score, runStatus, best>> PROVE Stutters
  BY <1>1
<1>2. pc \notin {"done"} => runStatus \in {NoFile, "running"}
  BY DEF ReportInv
<1>3. CASE OpenRun
  BY <1>0, <1>2, <1>3, TuningAssumption DEF OpenRun
<1>4. CASE WriteBest
  BY <1>0, <1>2, <1>4, TuningAssumption DEF WriteBest
<1>5. CASE AcceptEvaluation
  <2>1. PICK c \in todo : /\ score' = [score EXCEPT ![c.point] = report]
                          /\ pc = "evaluate" /\ report # NoScore
                          /\ UNCHANGED <<runStatus, best>>
    BY <1>5 DEF AcceptEvaluation
  <2>2. c.point \in Points /\ report \in Scores
    BY <2>1 DEF TypeOK, Slots
  <2>3. score[c.point] = NoScore
    <3>1. c \in candidates /\ <<round, c.point>> \in planned \ scored
      BY <2>1 DEF AuditInv, GrowthInv
    <3>2. ASSUME NEW a \in scored, a[2] = c.point PROVE FALSE
      <4>1. a \in planned /\ a[2] = <<round, c.point>>[2]
        BY <3>2 DEF AuditInv, GrowthInv
      <4>2. a = <<round, c.point>>
        BY <3>1, <4>1 DEF AuditInv, EachCandidateOnce
      <4> QED
        BY <3>1, <3>2, <4>2
    <3>3. c.point \notin completed
      BY <3>2 DEF AuditInv, GrowthInv
    <3> QED
      BY <2>2, <3>3 DEF OutcomeInv, MeasuredInv
  <2>4. Outcome!Measure(c.point)
    BY <1>2, <2>1, <2>2, <2>3 DEF Outcome!Measure
  <2> QED
    BY <2>2, <2>4 DEF Outcome!Next
<1>6. CASE CloseRun
  <2>1. /\ pc = "close" /\ runStatus' = FinalStatus
        /\ UNCHANGED <<score, best, completed, incumbent>>
    BY <1>6 DEF CloseRun
  <2>2. Verdict = "open" /\ Choice = NoPoint
    BY <1>2, <2>1, TuningAssumption
  <2>3. Outcome!Measured = completed
    BY DEF Outcome!Measured, OutcomeInv, MeasuredInv, TypeOK
  <2>4. CASE budget.dry \/ incumbent = NoPoint
    <3>1. completed = {}
      <4>1. CASE budget.dry
        BY <4>1 DEF PlanInv, DryRunPlansOnly, AuditInv, GrowthInv
      <4>2. CASE ~budget.dry /\ incumbent = NoPoint
        BY <2>1, <4>2, TuningAssumption DEF ReportInv, BestOf, TypeOK
      <4> QED
        BY <2>4, <4>1, <4>2
    <3>2. runStatus' \in {"failed", "dry-run"}
      BY <2>1, <2>4 DEF FinalStatus
    <3>3. Verdict' = runStatus' /\ Choice' = NoPoint
      BY <3>2, TuningAssumption
    <3>4. Outcome!ConcludeEmpty
      BY <2>1, <2>2, <2>3, <3>1, <3>2, <3>3 DEF Outcome!ConcludeEmpty
    <3> QED
      BY <3>4 DEF Outcome!Next
  <2>5. CASE ~budget.dry /\ incumbent # NoPoint
    <3>1. best = incumbent /\ BestOf(incumbent, completed)
      BY <2>1, <2>5 DEF ReportInv
    <3>2. incumbent \in SelectBest(completed, score)
      BY <2>5, <3>1 DEF BestOf, SelectBest
    <3>3. incumbent \in Outcome!SelectBest(Outcome!Measured, score)
      BY <2>3, <3>2, SelectBestAbstract
    <3>4. runStatus' = IF Feasible(score[incumbent]) THEN "complete"
                       ELSE "no-feasible-candidate"
      BY <2>1, <2>5 DEF FinalStatus
    <3>5. Verdict' = runStatus' /\ Choice' = incumbent
      BY <2>1, <3>1, <3>4, TuningAssumption
    <3>6. Outcome!Feasible(score[incumbent]) <=> Feasible(score[incumbent])
      BY DEF Outcome!Feasible, Feasible
    <3>7. Outcome!ConcludeBest
      BY <2>1, <2>2, <3>3, <3>4, <3>5, <3>6 DEF Outcome!ConcludeBest
    <3> QED
      BY <3>7 DEF Outcome!Next
  <2> QED
    BY <2>4, <2>5
<1>7. CASE \/ \E i \in Invocations : Start(i)
           \/ BeginRound \/ Materialise \/ Materialised \/ Launch
           \/ RejectEvaluation \/ Decide \/ WriteLeaderboard
           \/ EvaluatorExits \/ Crash \/ Finished \/ UNCHANGED vars
  <2>1. UNCHANGED <<score, runStatus, best>>
    BY <1>7 DEF Start, BeginRound, Materialise, Materialised, Launch,
                RejectEvaluation, Decide, WriteLeaderboard, EvaluatorExits,
                Crash, Finished, vars
  <2> QED
    BY <1>0, <1>1, <2>1
<1> QED
  BY <1>3, <1>4, <1>5, <1>6, <1>7 DEF Next, Controller

\* The whole tuning run, with its rounds, files, failing evaluators and kills,
\* implements the abstract search: each candidate is measured at most once,
\* and the run concludes once, with the best candidate it has measured.
LEMMA RunImplementsBestSoFar == Run => ImplementsBestSoFar
<1>1. Init => Outcome!Init
  BY TuningAssumption DEF Init, Outcome!Init
<1>2. RunInv /\ [Next]_vars => [Outcome!Next]_Outcome!vars
  BY OutcomeSimulates
<1> QED
  BY <1>1, <1>2, RunInvariance, PTL DEF Run, ImplementsBestSoFar, Outcome!Spec

\* Each candidate is measured at most once, and the run concludes once, with
\* the best candidate measured: the controller implements BestSoFar.
THEOREM ImplementationOfBestSoFar == Spec => ImplementsBestSoFar
BY RunImplementsBestSoFar, SpecRuns, PTL
----------------------------------------------------------------------------
\* The commands: what exit codes and printed reports say

\* The commands and reports only watch the run: they take none of its steps.
LEMMA CommandRuns == CommandSpec => Run
<1>1. [CommandNext]_<<vars, command>> => [Next]_vars
  <2> SUFFICES ASSUME [CommandNext]_<<vars, command>>
               PROVE  [Next]_vars
    OBVIOUS
  <2>1. CASE Report
    BY <2>1 DEF Report
  <2>2. CASE \E i \in Invocations : Misconfigured(i) \/ Return(i)
    BY <2>2 DEF Misconfigured, Return
  <2>3. CASE \/ \E i \in Invocations : exit[i] = Open /\ Start(i)
             \/ Controller \/ EvaluatorExits \/ Crash
    BY <2>3 DEF Next
  <2>4. CASE UNCHANGED <<vars, command>>
    BY <2>4
  <2> QED
    BY <2>1, <2>2, <2>3, <2>4 DEF CommandNext
<1>2. CommandInit => Init
  BY DEF CommandInit
<1> QED
  BY <1>1, <1>2, PTL DEF CommandSpec, Run

\* A code that speaks of a result was returned by the command that owns the
\* directory, after the last run.json, whose status it still is; and what a
\* report has printed is what best.json says from then on.
ExitInv ==
    /\ exit \in [Invocations -> {Open, Killed, 0, 1, 2}]
    /\ pc = "done" => runStatus = FinalStatus
    /\ \A i \in Invocations : exit[i] \in {0, 2} =>
          i = owner /\ pc = "done" /\ exit[i] = CodeOf(runStatus)

PrintedInv == printed # NoPoint => best # NoFile /\ printed = best

CommandInv == ExitInv /\ PrintedInv

\* Once best.json is there it stays, and so do the owner and the status of a
\* run that is done.
LEMMA ResultsStay ==
    ASSUME RunInv, ExitInv, Next
    PROVE  /\ best # NoFile => best' = best
           /\ pc = "done" => UNCHANGED <<pc, owner, runStatus>>
           /\ pc' = "done" => runStatus' = FinalStatus'
<1> USE DEF control, search, results, evaluator, evidence, summary
<1>1. best # NoFile => pc \in {"close", "done", "crashed"}
  BY DEF RunInv, OutcomeInv, BestInv
<1>2. ASSUME NEW i \in Invocations, Start(i)
      PROVE  /\ best' = best
             /\ pc = "done" => UNCHANGED <<pc, owner, runStatus>>
             /\ pc' = "done" => runStatus' = FinalStatus'
  <2>1. owner = NoInvocation => pc = "start"
    BY DEF RunInv, SearchInv
  <2> QED
    BY <1>2, <2>1 DEF Start, Claim, ExitInv, FinalStatus
<1>3. CASE CloseRun
  BY <1>3 DEF CloseRun, FinalStatus
<1>4. CASE WriteBest
  BY <1>1, <1>4 DEF WriteBest
<1>5. CASE \/ OpenRun \/ BeginRound \/ Materialise \/ Launch \/ AcceptEvaluation
           \/ RejectEvaluation \/ Decide \/ WriteLeaderboard \/ Crash
  BY <1>5 DEF OpenRun, BeginRound, Materialise, Launch, AcceptEvaluation,
              RejectEvaluation, Decide, WriteLeaderboard, Crash
<1>6. CASE Materialised
  BY <1>6 DEF Materialised
<1>7. CASE EvaluatorExits \/ Finished
  BY <1>7 DEF EvaluatorExits, Finished, vars, ExitInv, FinalStatus
<1> QED
  BY <1>2, <1>3, <1>4, <1>5, <1>6, <1>7 DEF Next, Controller

\* a command prints and returns what the files say,
LEMMA CommandStep ==
    ASSUME RunInv, CommandInv, [CommandNext]_<<vars, command>>
    PROVE  CommandInv'
<1>1. CASE \E i \in Invocations : Misconfigured(i)
  <2>1. PICK i \in Invocations :
          exit' = [exit EXCEPT ![i] = 1] /\ UNCHANGED <<vars, printed>>
    BY <1>1 DEF Misconfigured
  <2> QED
    BY <2>1 DEF CommandInv, ExitInv, PrintedInv, Open, Killed, CodeOf, FinalStatus,
                vars, control, search, results, evaluator, evidence, summary
<1>2. CASE \E i \in Invocations : Return(i)
  <2>0. PICK i \in Invocations : Return(i)
    BY <1>2
  <2>1. PICK code \in Codes(i) :
          exit' = [exit EXCEPT ![i] = code] /\ UNCHANGED <<vars, printed>>
    BY <2>0 DEF Return
  <2>2. /\ code \in {Killed, 0, 1, 2}
        /\ code \in {0, 2} => i = owner /\ pc = "done" /\ code = CodeOf(runStatus)
    BY <2>1 DEF Codes, CodeOf, Killed
  <2>3. ExitInv'
    BY <2>1, <2>2 DEF CommandInv, ExitInv, CodeOf, FinalStatus,
                vars, control, search, results, evaluator, evidence, summary
  <2>4. PrintedInv'
    BY <2>1 DEF CommandInv, PrintedInv, vars, summary
  <2> QED
    BY <2>3, <2>4 DEF CommandInv
<1>3. CASE Report
  BY <1>3 DEF Report, Recommendation, CommandInv, ExitInv, PrintedInv, CodeOf,
              FinalStatus, vars, control, search, results, evaluator, evidence,
              summary
<1>4. CASE /\ \/ \E i \in Invocations : exit[i] = Open /\ Start(i)
              \/ Controller \/ EvaluatorExits \/ Crash
           /\ UNCHANGED command
  <2>1. Next /\ UNCHANGED <<exit, printed>>
    BY <1>4 DEF Next, command
  <2> QED
    BY <2>1, ResultsStay DEF CommandInv, ExitInv, PrintedInv, CodeOf
<1>5. CASE UNCHANGED <<vars, command>>
  BY <1>5 DEF CommandInv, ExitInv, PrintedInv, CodeOf, FinalStatus, command,
              vars, control, search, results, evaluator, evidence, summary
<1> QED
  BY <1>1, <1>2, <1>3, <1>4, <1>5 DEF CommandNext

\* and of any sequence of commands.
LEMMA CommandInvariance == CommandSpec => [](RunInv /\ CommandInv)
<1>1. CommandInit => CommandInv
  BY DEF CommandInit, Init, CommandInv, ExitInv, PrintedInv, Open, Killed
<1>2. RunInv /\ CommandInv /\ [CommandNext]_<<vars, command>> => CommandInv'
  BY CommandStep
<1> QED
  BY <1>1, <1>2, CommandRuns, RunInvariance, PTL DEF CommandSpec

\* Exit code 0 means that the recommendation in the directory is scored and
\* feasible (or that a dry run's plan is there), 2 that no scored candidate is
\* feasible, at most one command on the directory ever returns either, and
\* whatever a report prints is the best of all candidates ever scored.
THEOREM CommandsAlwaysTruthful == CommandSpec => []CommandsTruthful
<1>1. RunInv => {a[2] : a \in scored} = completed
  BY DEF RunInv, AuditInv, GrowthInv
<1>2. RunInv /\ CommandInv /\ FinalReportTruthful /\ DryRunPlansOnly
      => ExitMatchesDirectory
  <2> SUFFICES ASSUME RunInv, CommandInv, FinalReportTruthful, DryRunPlansOnly,
                      NEW i \in Invocations, exit[i] \in {0, 2}
               PROVE  /\ exit[i] = 0 =>
                            IF budget.dry
                            THEN completed = {} /\ planned = {<<0, Baseline>>}
                            ELSE best \in completed /\ Feasible(score[best])
                      /\ exit[i] = 2 => \A p \in completed : ~Feasible(score[p])
                      /\ \A j \in Invocations \ {i} : exit[j] \notin {0, 2}
    BY <1>1 DEF ExitMatchesDirectory
  <2>1. /\ i = owner /\ pc = "done" /\ exit[i] = CodeOf(runStatus)
        /\ runStatus = FinalStatus
    BY DEF CommandInv, ExitInv
  <2>2. \A j \in Invocations \ {i} : exit[j] \notin {0, 2}
    BY <2>1 DEF CommandInv, ExitInv
  <2>3. CASE budget.dry
    <3>1. exit[i] = 0
      BY <2>1, <2>3 DEF FinalStatus, CodeOf
    <3>2. completed = {} /\ planned = {<<0, Baseline>>}
      BY <1>1, <2>1, <2>3 DEF DryRunPlansOnly, RunInv, OutcomeInv, DryInv
    <3> QED
      BY <2>2, <2>3, <3>1, <3>2
  <2>4. CASE ~budget.dry
    <3>1. runStatus \in {"failed", "complete", "no-feasible-candidate"}
      BY <2>1, <2>4 DEF FinalStatus
    <3>2. CASE runStatus = "complete"
      BY <1>1, <2>1, <2>2, <2>4, <3>2 DEF FinalReportTruthful, CodeOf
    <3>3. CASE runStatus = "no-feasible-candidate"
      BY <1>1, <2>1, <2>2, <3>3 DEF FinalReportTruthful, CodeOf
    <3>4. CASE runStatus = "failed"
      BY <1>1, <2>1, <2>2, <3>4 DEF FinalReportTruthful, CodeOf
    <3> QED
      BY <3>1, <3>2, <3>3, <3>4
  <2> QED
    BY <2>3, <2>4
<1>3. RunInv /\ CommandInv => ReportIsFinal
  BY <1>1 DEF RunInv, OutcomeInv, BestInv, CommandInv, PrintedInv, ReportIsFinal
<1> QED
  BY <1>2, <1>3, CommandInvariance, CommandRuns, FinalReportsTruthful,
     DryRunsPlanOnly, PTL DEF CommandsTruthful

\* All that is proved of a run also holds under its commands, with any number
\* of them on the directory, misconfigured, refused or killed.
THEOREM CommandsKeepTheRun ==
    CommandSpec =>
        /\ [](TypeOK /\ IncumbentIsBest /\ AuditTrail /\ ReportsTruthful
              /\ NoDirectionLost)
        /\ IncumbentNeverWorse /\ ClosedRunUntouched /\ ImplementsBestSoFar
<1>1. RunInv => TypeOK /\ IncumbentIsBest
  BY DEF RunInv, SearchInv, IncumbentIsBest
<1>2. RunInv => NoDirectionLost
  BY DEF RunInv, PlanInv
<1> QED
  BY <1>1, <1>2, RunInvariance, CommandRuns, CandidatesOnce, OutcomesAreComplete,
     RoundsInOrder, AuditTrailTruthful, FinalReportsTruthful, DryRunsPlanOnly,
     IncumbentOfRunImproves, ClosedStaysUntouched, RunImplementsBestSoFar, PTL
     DEF AuditTrail, ReportsTruthful
=============================================================================
