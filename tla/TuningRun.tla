----------------------------- MODULE TuningRun -----------------------------
(* run_experiment of tuning/runner.py: the closed tuning loop, one action   *)
(* per step that leaves a trace on disk or hands over to the evaluator      *)
(* subprocess.  The controller may be killed (or stopped by an OSError that *)
(* nothing catches) between any two steps; the evaluator may answer, answer *)
(* nonsense, fail, or hang until its timeout.                               *)
(*                                                                          *)
(* A candidate is the point of the parameter space its id fingerprints.  A  *)
(* candidate list is a set of records [slot, point]: slot is the position.  *)
EXTENDS Scoring, FiniteSets, Sequences

CONSTANTS Baseline,         \* spec.baseline of every parameter
          Dimensions,       \* number of parameters
          Neighborhood(_, _),  \* Neighborhood(c, r): in-bounds coordinate moves of
                            \* round r around c, in generation order
          MaxRounds,        \* config: budget.rounds is at most this
          Budgets,          \* budgets a configuration file may state
          Invocations,      \* runs of "multi-uav-tune run" on one directory
          NoPoint, NoScore, NoDecision, NoInvocation, NoFile

ASSUME TuningAssumption ==
    /\ Baseline \in Points
    /\ Dimensions \in Nat \ {0}
    /\ MaxRounds \in Nat \ {0}
    /\ \A c \in Points, r \in 1..MaxRounds :
          /\ Neighborhood(c, r) \in Seq(Points)
          /\ Len(Neighborhood(c, r)) <= 2 * Dimensions
    /\ \A b \in Budgets : /\ b.rounds \in 1..MaxRounds
                          /\ b.cap \in Nat \ {0}
                          /\ b.dry \in BOOLEAN
    /\ NoPoint \notin Points
    /\ NoScore \notin Scores
    /\ NoInvocation \notin Invocations
    /\ NoFile \notin {"dry-run", "failed", "complete", "no-feasible-candidate"}

Statuses == {"planned", "search-space-exhausted", "no-successful-evaluation",
             "continue", "budget-complete"}

\* What a decision.json says.
Decisions == [status : Statuses, evaluated : Nat, failed : SUBSET Points,
              incumbent : Points \cup {NoPoint}]

ASSUME DecisionAssumption == NoDecision \notin Decisions

VARIABLES
    \* the controller process
    pc, budget, owner, refused, round, center, incumbent, seen,
    candidates, todo, completed, successful, failures,
    \* the evaluator subprocess and the evaluation.json it writes
    child, report,
    \* the run directory (score has the exact scores, which evaluation.json and
    \* the objectives determine; score.json, the leaderboard and best.json give
    \* them rounded to 12 and 6 digits)
    runStatus, planned, scored, errored, score, decision, leaderboard, best

control == <<pc, budget, owner, refused, round, todo>>
search  == <<center, incumbent, seen, candidates>>
results == <<completed, successful, failures>>
evaluator == <<child, report>>
evidence == <<planned, scored, errored, score>>
summary == <<runStatus, decision, leaderboard, best>>
disk == <<evidence, summary>>
vars == <<control, search, results, evaluator, evidence, summary>>

----------------------------------------------------------------------------
\* Configuration and candidate generation

\* Mutant: the cap only has to admit one direction per parameter.
ValidBudgetHalf(b) == b.rounds > 1 => b.cap >= Dimensions

\* load_config: the cap must allow both directions of each parameter.
ValidBudget(b) == b.rounds > 1 => b.cap >= 2 * Dimensions

\* The proposals generate_round keeps: not seen, not already in this round.
Kept(q, s) ==
    {i \in DOMAIN q : q[i] \notin s /\ \A j \in 1..(i - 1) : q[j] # q[i]}

\* generate_round: the baseline alone, then the first `cap` kept proposals.
GenerateRound(r, c, s, cap) ==
    IF r = 0
    THEN {[slot |-> 1, point |-> p] : p \in {Baseline} \ s}
    ELSE LET q == Neighborhood(c, r)
             K == Kept(q, s)
         IN  {[slot |-> i, point |-> q[i]] :
                 i \in {k \in K : Cardinality({j \in K : j < k}) < cap}}

\* The candidate a "for candidate in candidates" loop takes next.
IsFirst(c, list) == c \in list /\ \A d \in list : c.slot <= d.slot

PointsOf(list) == {c.point : c \in list}

----------------------------------------------------------------------------
\* Starting a run

Init ==
    /\ budget \in {b \in Budgets : ValidBudget(b)}
    /\ pc = "start" /\ owner = NoInvocation /\ refused = {}
    /\ round = 0 /\ center = NoPoint /\ incumbent = NoPoint
    /\ seen = {} /\ candidates = {} /\ todo = {}
    /\ completed = {} /\ successful = {} /\ failures = {}
    /\ child = "none" /\ report = NoScore
    /\ runStatus = NoFile /\ planned = {} /\ scored = {} /\ errored = {}
    /\ score = [p \in Points |-> NoScore]
    /\ decision = [r \in 0..(MaxRounds - 1) |-> NoDecision]
    /\ leaderboard = NoFile /\ best = NoFile

\* Mutant: an existing directory is reused by a later invocation.
ClaimReusing(i) ==
    /\ i \notin refused \cup {owner}
    /\ IF owner = NoInvocation \/ pc = "crashed"
       THEN owner' = i /\ pc' = "open" /\ UNCHANGED refused
       ELSE refused' = refused \cup {i} /\ UNCHANGED <<owner, pc>>

\* output.mkdir(exist_ok=False): one invocation makes the directory, every
\* other one, whenever it comes, raises OutputExistsError.
Claim(i) ==
    /\ i \notin refused \cup {owner}
    /\ IF owner = NoInvocation
       THEN owner' = i /\ pc' = "open" /\ UNCHANGED refused
       ELSE refused' = refused \cup {i} /\ UNCHANGED <<owner, pc>>

Start(i) ==
    /\ Claim(i)
    /\ UNCHANGED <<budget, round, todo, search, results, evaluator, evidence,
                   summary>>

\* The pinned inputs, then run.json with status "running".
OpenRun ==
    /\ pc = "open"
    /\ runStatus' = "running"
    /\ pc' = "generate"
    /\ UNCHANGED <<budget, owner, refused, round, todo, search, results,
                   evaluator, evidence, decision, leaderboard, best>>

----------------------------------------------------------------------------
\* One round: generate, materialise, evaluate, decide

BeginRound ==
    /\ pc = "generate"
    /\ candidates' = GenerateRound(round, center, seen, budget.cap)
    /\ todo' = candidates'
    /\ successful' = {} /\ failures' = {}
    /\ pc' = "materialise"
    /\ UNCHANGED <<budget, owner, refused, round, center, incumbent, seen,
                   completed, evaluator, evidence, summary>>

\* seen.add, the candidate directory and its candidate.json.
Materialise ==
    /\ pc = "materialise"
    /\ \E c \in todo :
          /\ IsFirst(c, todo)
          /\ seen' = seen \cup {c.point}
          /\ planned' = planned \cup {<<round, c.point>>}
          /\ todo' = todo \ {c}
    /\ UNCHANGED <<pc, budget, owner, refused, round, center, incumbent,
                   candidates, results, evaluator, scored, errored, score,
                   summary>>

\* The dry_run argument.
DryRun == budget.dry

\* Every candidate.json is on disk: evaluate them, unless this is a dry run.
Materialised ==
    /\ pc = "materialise" /\ todo = {}
    /\ IF DryRun
       THEN /\ pc' = "close"
            /\ decision' = [decision EXCEPT ![round] =
                  [status |-> "planned", evaluated |-> 0, failed |-> {},
                   incumbent |-> NoPoint]]
            /\ UNCHANGED todo
       ELSE pc' = "evaluate" /\ todo' = candidates /\ UNCHANGED decision
    /\ UNCHANGED <<budget, owner, refused, round, search, results, evaluator,
                   evidence, runStatus, leaderboard, best>>

\* subprocess.run starts the evaluator on the next candidate.
Launch ==
    /\ pc = "evaluate" /\ child = "none" /\ todo # {}
    /\ child' = "running" /\ report' = NoScore
    /\ UNCHANGED <<control, search, results, evidence, summary>>

\* The evaluator ends: with exit code 0 and an evaluation.json whose metrics
\* the controller can score, or (NoScore) that _read_evaluation or
\* score_metrics rejects; or with another exit code on any error of its own.
EvaluatorExits ==
    /\ child = "running"
    /\ \/ child' = "exit0" /\ report' \in Scores \cup {NoScore}
       \/ child' = "exit1" /\ UNCHANGED report
    /\ UNCHANGED <<control, search, results, evidence, summary>>

\* A validated result of a clean exit: score.json, then the completed lists.
AcceptEvaluation ==
    /\ pc = "evaluate" /\ child = "exit0" /\ report # NoScore
    /\ \E c \in todo :
          /\ IsFirst(c, todo)
          /\ scored' = scored \cup {<<round, c.point>>}
          /\ score' = [score EXCEPT ![c.point] = report]
          /\ completed' = completed \cup {c.point}
          /\ successful' = successful \cup {c.point}
          /\ todo' = todo \ {c}
    /\ child' = "none" /\ report' = NoScore
    /\ UNCHANGED <<pc, budget, owner, refused, round, search, failures,
                   planned, errored, summary>>

\* Mutant: the timeout covers the start of the evaluator, not its run.
TimeoutExpiresAtStart == child = "none"

\* subprocess.run gives up on the evaluator (kills it and waits for it),
\* whatever the child has done by then.
TimeoutExpires == child # "none"

\* The candidates of the round left after c (the "continue" of the loop).
StillToDo(c) == todo \ {c}

\* EvaluationFailed: the evaluator cannot be started, exits non-zero, has its
\* result rejected, or times out.  The failure joins the round's list and
\* the candidate's error.json.
RejectEvaluation ==
    /\ pc = "evaluate"
    /\ \/ child = "none"
       \/ child = "exit1"
       \/ child = "exit0" /\ report = NoScore
       \/ TimeoutExpires
    /\ \E c \in todo :
          /\ IsFirst(c, todo)
          /\ errored' = errored \cup {<<round, c.point>>}
          /\ failures' = failures \cup {c.point}
          /\ todo' = StillToDo(c)
    /\ child' = "none" /\ report' = NoScore
    /\ UNCHANGED <<pc, budget, owner, refused, round, search, completed,
                   successful, planned, scored, score, summary>>

\* Mutant: the best of this round replaces the incumbent.
RankedThisRound == successful

\* The candidates select_best chooses from: all completed ones, every round.
Ranked == completed

\* incumbent and center after the round (kept when nothing ever completed).
ChooseIncumbent ==
    IF Ranked = {}
    THEN UNCHANGED <<incumbent, center>>
    ELSE \E p \in SelectBest(Ranked, score) : incumbent' = p /\ center' = p

\* The status of the decision once the incumbent is inc.
DecisionStatus(inc) ==
    IF candidates = {} THEN "search-space-exhausted"
    ELSE IF successful = {} /\ inc = NoPoint THEN "no-successful-evaluation"
    ELSE IF round + 1 < budget.rounds THEN "continue" ELSE "budget-complete"

\* Mutant: every round writes its decision to the first round's directory.
DecisionRoundFirst == 0

\* The directory rounds/NNN a decision.json goes to.
DecisionRound == round

\* select_best, decision.json, and on to the next round or out of the loop.
Decide ==
    /\ pc = "evaluate" /\ todo = {}
    /\ ChooseIncumbent
    /\ LET status == DecisionStatus(incumbent')
       IN  /\ decision' = [decision EXCEPT ![DecisionRound] =
                 [status |-> status, evaluated |-> Cardinality(successful),
                  failed |-> failures, incumbent |-> incumbent']]
           /\ IF status = "continue"
              THEN pc' = "generate" /\ round' = round + 1
              ELSE pc' = "leaderboard" /\ UNCHANGED round
    /\ UNCHANGED <<budget, owner, refused, todo, seen, candidates, results,
                   evaluator, evidence, runStatus, leaderboard, best>>

----------------------------------------------------------------------------
\* Closing the run

\* sorted(completed_candidates, key=rank_key): the place of each candidate.
Places ==
    [p \in completed |->
        1 + Cardinality({q \in completed \ {p} :
                            Outranks(q, score[q], p, score[p])})]

WriteLeaderboard ==
    /\ pc = "leaderboard"
    /\ leaderboard' = Places
    /\ pc' = IF incumbent = NoPoint THEN "close" ELSE "best"
    /\ UNCHANGED <<budget, owner, refused, round, todo, search, results,
                   evaluator, evidence, runStatus, decision, best>>

WriteBest ==
    /\ pc = "best"
    /\ best' = incumbent
    /\ pc' = "close"
    /\ UNCHANGED <<budget, owner, refused, round, todo, search, results,
                   evaluator, evidence, runStatus, decision, leaderboard>>

\* Mutant: having a recommendation counts as success.
FinalStatusOptimist ==
    IF budget.dry THEN "dry-run"
    ELSE IF incumbent = NoPoint THEN "failed" ELSE "complete"

\* The status of the last run.json.
FinalStatus ==
    IF budget.dry THEN "dry-run"
    ELSE IF incumbent = NoPoint THEN "failed"
    ELSE IF Feasible(score[incumbent]) THEN "complete"
    ELSE "no-feasible-candidate"

CloseRun ==
    /\ pc = "close"
    /\ runStatus' = FinalStatus
    /\ pc' = "done"
    /\ UNCHANGED <<budget, owner, refused, round, todo, search, results,
                   evaluator, evidence, decision, leaderboard, best>>

----------------------------------------------------------------------------
\* Failure of the controller, and the specification

\* The controller is killed, or an OSError of a write escapes run_experiment.
\* (An evaluator orphaned by a kill can still write its evaluation.json, which
\* nothing reads any more.)
Crash ==
    /\ pc \notin {"start", "done", "crashed"}
    /\ pc' = "crashed" /\ child' = "none" /\ report' = NoScore
    /\ UNCHANGED <<budget, owner, refused, round, todo, search, results,
                   evidence, summary>>

Finished ==
    /\ pc \in {"done", "crashed"}
    /\ Invocations = refused \cup {owner}
    /\ UNCHANGED vars

Controller ==
    \/ OpenRun \/ BeginRound \/ Materialise \/ Materialised
    \/ Launch \/ AcceptEvaluation \/ RejectEvaluation \/ Decide
    \/ WriteLeaderboard \/ WriteBest \/ CloseRun

Next ==
    \/ \E i \in Invocations : Start(i)
    \/ Controller
    \/ EvaluatorExits
    \/ Crash
    \/ Finished

\* An invocation that has begun keeps running; nothing is assumed of the
\* evaluator, which may hang (the controller's timeout is finite).
Spec ==
    /\ Init /\ [][Next]_vars
    /\ WF_vars(Controller)
    /\ \A i \in Invocations : WF_vars(Start(i))

----------------------------------------------------------------------------
\* Properties

Pairs == (0..(MaxRounds - 1)) \X Points
Slots == [slot : Nat, point : Points]

\* Every variable stays in its range.
TypeOK ==
    /\ pc \in {"start", "open", "generate", "materialise", "evaluate",
               "leaderboard", "best", "close", "done", "crashed"}
    /\ budget \in Budgets /\ ValidBudget(budget)
    /\ owner \in Invocations \cup {NoInvocation}
    /\ refused \subseteq Invocations
    /\ round \in 0..(budget.rounds - 1)
    /\ center \in Points \cup {NoPoint}
    /\ incumbent \in Points \cup {NoPoint}
    /\ seen \subseteq Points
    /\ candidates \subseteq Slots /\ todo \subseteq Slots
    /\ completed \subseteq Points /\ successful \subseteq Points
    /\ failures \subseteq Points
    /\ child \in {"none", "running", "exit0", "exit1"}
    /\ report \in Scores \cup {NoScore}
    /\ runStatus \in {NoFile, "running", "dry-run", "complete",
                      "no-feasible-candidate", "failed"}
    /\ planned \subseteq Pairs /\ scored \subseteq Pairs
    /\ errored \subseteq Pairs
    /\ score \in [Points -> Scores \cup {NoScore}]
    /\ decision \in [0..(MaxRounds - 1) -> Decisions \cup {NoDecision}]
    /\ best \in Points \cup {NoPoint, NoFile}

\* p is the best of the set C under the scores on disk.
BestOf(p, C) ==
    IF C = {} THEN p = NoPoint
    ELSE p \in C /\ \A q \in C \ {p} : Outranks(p, score[p], q, score[q])

Decided(r) == decision[r] # NoDecision /\ decision[r].status # "planned"

ScoredUpTo(r) == {p \in Points : \E q \in 0..r : <<q, p>> \in scored}

\* Whenever a round is about to be generated, and when the run is summed up,
\* the incumbent is the best of every candidate completed so far, and it is
\* the center of the next neighbourhood (which therefore never is None after
\* the baseline round: the ValueError of generate_round cannot happen).
IncumbentIsBest ==
    pc \in {"generate", "leaderboard", "best"} =>
        /\ BestOf(incumbent, completed)
        /\ center = incumbent
        /\ pc = "generate" /\ round > 0 => center # NoPoint

\* The audit trail is truthful: the incumbent each decision.json names is the
\* best of exactly the candidates whose score.json lies in that round's
\* directory or an earlier one, whatever happened afterwards.
DecisionsAuditable ==
    \A r \in 0..(MaxRounds - 1) :
        Decided(r) => BestOf(decision[r].incumbent, ScoredUpTo(r))

\* No candidate fingerprint is materialised in two rounds, nor evaluated twice.
EachCandidateOnce ==
    \A a, b \in planned : a[2] = b[2] => a = b

\* Once a round is decided, each of its candidates has exactly one outcome,
\* score.json or error.json, and the decision counts them correctly; outcomes
\* exist only for candidates that were planned.
OutcomesComplete ==
    /\ scored \cap errored = {}
    /\ scored \cup errored \subseteq planned
    /\ \A r \in 0..(MaxRounds - 1) : Decided(r) =>
          /\ {a \in planned : a[1] = r} \subseteq scored \cup errored
          /\ decision[r].failed = {a[2] : a \in {b \in errored : b[1] = r}}
          /\ decision[r].evaluated = Cardinality({a \in scored : a[1] = r})

\* Every round is decided on disk before any candidate of the next one is
\* written (docs/architecture.md: "every round writes an auditable decision
\* artifact before the next neighborhood is generated").
DecidedBeforeNextRound ==
    \A a \in planned : a[1] > 0 =>
        /\ decision[a[1] - 1] # NoDecision
        /\ decision[a[1] - 1].status = "continue"

\* The audit trail as a whole: what is planned, measured, failed and decided
\* fits together across rounds, candidates and crashes.
AuditTrail ==
    /\ EachCandidateOnce /\ OutcomesComplete
    /\ DecidedBeforeNextRound /\ DecisionsAuditable

\* What the final run.json says is what the directory shows: "failed" only
\* when nothing was ever scored and the baseline has an error.json;
\* otherwise best.json heads a leaderboard of every scored candidate, and the
\* run is "complete" exactly when that recommendation is feasible.
FinalReportTruthful ==
    LET all == {a[2] : a \in scored} IN
    /\ runStatus = "failed" =>
          scored = {} /\ <<0, Baseline>> \in errored /\ best = NoFile
    /\ runStatus \in {"complete", "no-feasible-candidate"} =>
          /\ best \in all /\ DOMAIN leaderboard = all
          /\ leaderboard[best] = 1
          /\ \A p, q \in all : leaderboard[p] = leaderboard[q] => p = q
          /\ runStatus = "complete" <=> Feasible(score[best])
          /\ (\E p \in all : Feasible(score[p])) => Feasible(score[best])

\* A dry run plans the baseline and never starts an evaluator.
DryRunPlansOnly ==
    budget.dry => /\ child = "none" /\ scored = {} /\ errored = {}
                  /\ planned \subseteq {<<0, Baseline>>}

\* What a directory claims to be, plan or result, is what lies in it.
ReportsTruthful == FinalReportTruthful /\ DryRunPlansOnly

\* The cap a valid configuration states never costs a direction: every new
\* in-bounds proposal of the round is among its candidates.
NoDirectionLost ==
    pc = "materialise" /\ round > 0 =>
        \A i \in DOMAIN Neighborhood(center, round) :
            \/ Neighborhood(center, round)[i] \in PointsOf(candidates)
            \/ \E a \in planned : /\ a[1] < round
                                  /\ a[2] = Neighborhood(center, round)[i]

\* The incumbent is only ever replaced by a candidate that outranks it.
IncumbentNeverWorse ==
    [][incumbent # NoPoint /\ incumbent' # incumbent =>
          /\ incumbent' # NoPoint
          /\ Outranks(incumbent', score'[incumbent'],
                      incumbent, score'[incumbent])]_vars

Closed == pc \in {"done", "crashed"}

\* A run directory that its invocation has finished or abandoned (run.json may
\* still say "running" then) is evidence: no later invocation of the command
\* resumes it or changes anything in it.
ClosedRunUntouched == [][Closed => Closed' /\ disk' = disk]_vars

\* The abstract view of a run: what was measured, and what run.json concludes.
Outcome == INSTANCE BestSoFar WITH
    measured <- score,
    verdict <- IF runStatus \in {NoFile, "running"} THEN "open" ELSE runStatus,
    choice <- IF runStatus \in {"complete", "no-feasible-candidate"}
              THEN best ELSE NoPoint

\* The controller implements a search that measures each candidate at most
\* once and concludes, in one step, with the best of what it measured.
ImplementsBestSoFar == Outcome!Spec
=============================================================================
