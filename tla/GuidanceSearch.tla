--------------------------- MODULE GuidanceSearch ---------------------------
(***************************************************************************)
(* One evaluation of a reviewed guidance candidate: the checkpointed       *)
(* search over candidates (choruz-evaluation), the workers that claim the  *)
(* evaluation one reserved action at a time under a lease, and the         *)
(* application of a measured winner, while the owner changes the learning  *)
(* settings and workers stall or crash. A score is 0 or 1; the order of    *)
(* training cases and the choice of parents are free choices in place of   *)
(* the seeded generator.                                                   *)
(***************************************************************************)
EXTENDS Integers, FiniteSets, Sequences, SequencesExt

CONSTANTS
    TrainCases, ValidationCases, TestCases,   \* the suite: case numbers by split
    MaxMetricCalls, MaxProposals, MinibatchSize,
    Evaluators,             \* worker tasks
    MaxEvaluatorFaults,     \* bound on crashes and stalls
    MaxPolicyEdits          \* bound on changes of the learning policy

\* Optimization::new refuses any other budget.
ASSUME SearchBudget ==
    /\ MinibatchSize \in 1 .. Cardinality(TrainCases)
    /\ MaxMetricCalls >= 2 * (Cardinality(ValidationCases) + Cardinality(TestCases))

VARIABLES
    evaluation,      \* the experience_evaluation row
    evaluator,       \* worker -> the claim it executes
    learningPolicy,  \* the experience_policy row
    applied,         \* history: the baseline and the active revision at application
    evaluatorFaults, policyEdits

searchVars == <<evaluation, evaluator, learningPolicy, applied, evaluatorFaults, policyEdits>>

NoWinner == -1
Unmeasured == -1
MaxCandidates == 2 + MaxProposals
Candidates == 0 .. (MaxCandidates - 1)
AllCases == TrainCases \cup ValidationCases \cup TestCases
NoAction == [type |-> "none"]
NoClaim == [at |-> "idle"]
NotApplied == [baseline |-> 0, active |-> 0]
Ended == {"completed", "failed", "cancelled"}

\* Pairs of a candidate and a case, candidate by candidate.
QueueOf(cands, cs) ==
    LET sorted == SetToSortSeq(cs, <)
        width == Cardinality(cs)
    IN  [i \in 1 .. (Len(cands) * width) |->
            <<cands[((i - 1) \div width) + 1], sorted[((i - 1) % width) + 1]>>]

NewSearch(cached) ==
    [cached |-> cached, size |-> 2, score |-> [c \in Candidates |-> [k \in AllCases |-> Unmeasured]],
     metric |-> 0, proposals |-> 0, rounds |-> 0, pending |-> NoAction, winner |-> NoWinner,
     stage |-> [at |-> "seeds"], queue |-> QueueOf(<<0, 1>>, ValidationCases), drawn |-> {}]

Measured(s, c, cs) == \A k \in cs : s.score[c][k] # Unmeasured

\* The mean over cs, times the number of cases.
Mean(s, c, cs) == Cardinality({k \in cs : s.score[c][k] = 1})

-----------------------------------------------------------------------------
(* Optimization: selection.                                                *)

\* Wrong version: a candidate equal to an earlier one stays on the frontier, and one that is
\* better somewhere removes it.
DominatesLoosely(s, j, i) ==
    \E k \in ValidationCases : s.score[j][k] > s.score[i][k]

Dominates(s, j, i) ==
    /\ \A k \in ValidationCases : s.score[j][k] >= s.score[i][k]
    /\ \/ \E k \in ValidationCases : s.score[j][k] > s.score[i][k]
       \/ j < i

FullyValidated(s) == {c \in 0 .. (s.size - 1) : Measured(s, c, ValidationCases)}

frontier(s) ==
    LET measured == FullyValidated(s)
    IN  {i \in measured : ~ \E j \in measured \ {i} : Dominates(s, j, i)}

best(s) ==
    CHOOSE i \in FullyValidated(s) : \A j \in FullyValidated(s) :
        \/ Mean(s, i, ValidationCases) > Mean(s, j, ValidationCases)
        \/ Mean(s, i, ValidationCases) = Mean(s, j, ValidationCases) /\ i <= j

application_scores(s) ==
    /\ s.stage.at = "complete" /\ s.pending = NoAction /\ s.winner # NoWinner
    /\ \A c \in {0, s.winner} : Measured(s, c, ValidationCases \cup TestCases)

can_apply(s) ==
    /\ application_scores(s)
    /\ Mean(s, s.winner, ValidationCases) > Mean(s, 0, ValidationCases)
    /\ Mean(s, s.winner, TestCases) >= Mean(s, 0, TestCases)

\* A minibatch: cases not drawn since the last shuffle first.
RECURSIVE batch(_, _)
batch(chosen, drawn) ==
    LET left == IF drawn = TrainCases THEN {} ELSE drawn
    IN  IF Cardinality(chosen) = MinibatchSize
        THEN {[cases |-> chosen, drawn |-> drawn]}
        ELSE UNION {batch(chosen \cup {k}, left \cup {k}) : k \in TrainCases \ left}

-----------------------------------------------------------------------------
(* Optimization: the loop of next_action. Each operator yields the states  *)
(* the loop may be in after one pass over the stage.                       *)

Stops(s) ==
    \/ s.proposals >= MaxProposals
    \/ s.rounds >= 4 * MaxProposals
    \/ s.metric + 3 * MinibatchSize + Cardinality(ValidationCases) + 2 * Cardinality(TestCases)
           > MaxMetricCalls

Finish(s) ==
    [s EXCEPT !.winner = best(s), !.stage = [at |-> "final"],
              !.queue = QueueOf(IF best(s) = 0 THEN <<0>> ELSE <<0, best(s)>>, TestCases)]

ParentLists(s) ==
    LET merging == (s.rounds + 1) % 3 = 0 /\ Cardinality(frontier(s)) > 1
    IN  IF merging
        THEN {<<p, q>> : p \in frontier(s), q \in frontier(s)} \ {<<p, p>> : p \in frontier(s)}
        ELSE {<<p>> : p \in frontier(s)}

Choose(s) ==
    IF Stops(s) THEN {Finish(s)}
    ELSE {[s EXCEPT !.rounds = s.rounds + 1, !.drawn = b.drawn,
                    !.queue = QueueOf(ps, b.cases),
                    !.stage = [at |-> "reflect", parents |-> ps, batch |-> b.cases]]
              : ps \in ParentLists(s), b \in batch({}, s.drawn)}

\* A parent that solves the whole batch leaves nothing to reflect on.
Reflect(s) ==
    LET ps == s.stage.parents
        cs == s.stage.batch
    IN  IF \E i \in DOMAIN ps : Mean(s, ps[i], cs) = Cardinality(cs)
        THEN [s EXCEPT !.stage = [at |-> "choose"]]
        ELSE [s EXCEPT !.proposals = s.proposals + 1,
                       !.pending = [type |-> "propose", parents |-> ps, batch |-> cs]]

Trial(s) ==
    LET child == s.stage.candidate
        cs == s.stage.batch
        better == \A i \in DOMAIN s.stage.parents : Mean(s, child, cs) > Mean(s, s.stage.parents[i], cs)
    IN  IF better
        THEN [s EXCEPT !.queue = QueueOf(<<child>>, ValidationCases), !.stage = [at |-> "validate"]]
        ELSE [s EXCEPT !.stage = [at |-> "choose"]]

Exhausted(s) == [s EXCEPT !.pending = [type |-> "error"]]

\* The states the call may return: one action reserved, none left, or an error.
RECURSIVE Advance(_)
Advance(s) ==
    IF s.queue # <<>>
    THEN LET head == Head(s.queue)
             rest == [s EXCEPT !.queue = Tail(s.queue)]
         IN  IF s.cached /\ s.score[head[1]][head[2]] # Unmeasured THEN Advance(rest)
             ELSE IF s.metric >= MaxMetricCalls THEN {Exhausted(s)}
             ELSE {[rest EXCEPT !.metric = s.metric + 1,
                        !.pending = [type |-> "evaluate", candidate |-> head[1], case |-> head[2]]]}
    ELSE CASE s.stage.at \in {"seeds", "validate"} -> Advance([s EXCEPT !.stage = [at |-> "choose"]])
           [] s.stage.at = "choose" -> UNION {Advance(t) : t \in Choose(s)}
           [] s.stage.at = "reflect" ->
                  LET t == Reflect(s) IN IF t.pending # NoAction THEN {t} ELSE Advance(t)
           [] s.stage.at = "trial" -> Advance(Trial(s))
           [] s.stage.at = "final" -> Advance([s EXCEPT !.stage = [at |-> "complete"]])
           [] s.stage.at = "complete" -> {s}

next_action(s) == IF s.pending # NoAction THEN {Exhausted(s)} ELSE Advance(s)

complete_scored_rollout(s, score) ==
    [s EXCEPT !.score[s.pending.candidate][s.pending.case] = score, !.pending = NoAction]

\* repeats: the proposal equals a candidate the search already has.
complete_proposal(s, repeats) ==
    IF repeats THEN [s EXCEPT !.pending = NoAction, !.stage = [at |-> "choose"]]
    ELSE [s EXCEPT !.pending = NoAction, !.size = s.size + 1,
                   !.queue = QueueOf(<<s.size>>, s.pending.batch),
                   !.stage = [at |-> "trial", candidate |-> s.size,
                              parents |-> s.pending.parents, batch |-> s.pending.batch]]

-----------------------------------------------------------------------------
(* The evaluation row and its workers.                                     *)

GuidanceTypeOK ==
    /\ evaluation.status \in {"none", "queued", "running"} \cup Ended
    /\ evaluation.application \in {"pending", "applied", "no_improvement", "review_rejected",
                                   "failed", "cancelled"}
    /\ evaluation.holder \in {0} \cup Evaluators /\ evaluation.live \in BOOLEAN
    /\ \A w \in Evaluators : evaluator[w].at \in {"idle", "executing"}
    /\ learningPolicy.enabled \in BOOLEAN

GuidanceInit ==
    /\ evaluation = [status |-> "none", application |-> "pending", holder |-> 0, live |-> FALSE,
                     baseline |-> 0, generation |-> 0, final |-> FALSE, search |-> NewSearch(FALSE)]
    /\ evaluator = [w \in Evaluators |-> NoClaim]
    /\ learningPolicy = [enabled |-> TRUE, generation |-> 0, active |-> 1]
    /\ applied = NotApplied
    /\ evaluatorFaults = 0 /\ policyEdits = 0

queue_experience_evaluation(cached) ==
    /\ learningPolicy.enabled
    /\ evaluation.status = "none"
    /\ evaluation' = [evaluation EXCEPT !.status = "queued", !.search = NewSearch(cached),
                          !.baseline = learningPolicy.active, !.generation = learningPolicy.generation]
    /\ UNCHANGED <<evaluator, learningPolicy, applied, evaluatorFaults, policyEdits>>

\* The owner turns learning off, or selects another revision: either starts a new generation
\* (after the end of the evaluation it changes nothing here).
ChangePolicy ==
    /\ policyEdits < MaxPolicyEdits /\ evaluation.status \in {"queued", "running"}
    /\ learningPolicy' \in {[enabled |-> FALSE, generation |-> learningPolicy.generation + 1,
                             active |-> learningPolicy.active],
                            [enabled |-> TRUE, generation |-> learningPolicy.generation + 1, active |-> 2]}
    /\ policyEdits' = policyEdits + 1
    /\ UNCHANGED <<evaluation, evaluator, applied, evaluatorFaults>>

SamePolicy ==
    /\ learningPolicy.enabled
    /\ learningPolicy.generation = evaluation.generation
    /\ learningPolicy.active = evaluation.baseline

\* Wrong version: an evaluation whose lease ran out is queued again.
ExpireRequeues(e) ==
    IF e.status = "running" /\ ~e.live
    THEN [e EXCEPT !.status = "queued", !.holder = 0]
    ELSE e

\* The two clean-up statements of every claim.
Cancel(e) ==
    IF e.status \in {"queued", "running"} /\ ~SamePolicy
    THEN [e EXCEPT !.status = "cancelled", !.application = "cancelled", !.holder = 0, !.live = FALSE]
    ELSE e

Expire(e) ==
    IF e.status = "running" /\ ~e.live
    THEN [e EXCEPT !.status = "failed", !.application = "failed", !.holder = 0]
    ELSE e

\* The reserved action is saved with the lease, before it is dispatched.
Reserve(e, w, s) ==
    LET review == s.pending = NoAction /\ can_apply(s)
    IN  IF s.pending # NoAction \/ review
        THEN [e EXCEPT !.status = "running", !.holder = w, !.live = TRUE, !.search = s, !.final = review]
        ELSE [e EXCEPT !.status = "completed", !.search = s, !.application = "no_improvement"]

claim_experience_evaluation(w) ==
    /\ evaluator[w].at = "idle"
    /\ LET swept == Expire(Cancel(evaluation))
       IN  IF swept.status # "queued"
           THEN /\ evaluation' = swept /\ swept # evaluation
                /\ UNCHANGED evaluator
           ELSE \E s \in next_action(swept.search) :
                   /\ s.pending.type # "error"
                   /\ LET row == Reserve(swept, w, s)
                      IN  /\ evaluation' = row
                          /\ evaluator' = IF row.status = "running"
                                          THEN [evaluator EXCEPT ![w] = [at |-> "executing",
                                                    search |-> row.search, final |-> row.final]]
                                          ELSE evaluator
    /\ UNCHANGED <<learningPolicy, applied, evaluatorFaults, policyEdits>>

\* What the statement that stores a result requires of the row and the policy.
Holds(w) ==
    /\ evaluation.holder = w /\ evaluation.status = "running" /\ evaluation.live
    /\ SamePolicy

\* The search a worker holds, with its reserved action completed.
optimization_step(s) ==
    IF s.pending.type = "evaluate"
    THEN {complete_scored_rollout(s, score) : score \in {0, 1}}
    ELSE {complete_proposal(s, repeats) : repeats \in BOOLEAN}

\* The reports a claim may end with. An error is an inconclusive judge, a failed call, revoked
\* access, or a device, model or analyst that is not the one the evaluation was queued with.
execute(claim) ==
    {[result |-> "error"]} \cup
    IF claim.final THEN {[result |-> "review", passed |-> p] : p \in BOOLEAN}
    ELSE {[result |-> "search", search |-> s] : s \in optimization_step(claim.search)}

\* The policy row is locked first, and the winner becomes active in a new generation.
MayApply(w) == Holds(w)

finish_optimization_review(w, passed) ==
    IF MayApply(w)
    THEN /\ evaluation' = [evaluation EXCEPT !.status = "completed", !.holder = 0, !.live = FALSE,
                               !.application = IF passed THEN "applied" ELSE "review_rejected"]
         /\ applied' = IF passed THEN [baseline |-> evaluation.baseline, active |-> learningPolicy.active]
                       ELSE applied
         /\ learningPolicy' = IF passed
                              THEN [learningPolicy EXCEPT !.active = 3,
                                        !.generation = learningPolicy.generation + 1]
                              ELSE learningPolicy
    ELSE UNCHANGED <<evaluation, applied, learningPolicy>>

finish_experience_evaluation_case(w, report) ==
    IF report.result = "review" THEN finish_optimization_review(w, report.passed)
    ELSE /\ evaluation' =
                IF ~Holds(w) THEN evaluation
                ELSE IF report.result = "error"
                THEN [evaluation EXCEPT !.status = "failed", !.application = "failed",
                          !.holder = 0, !.live = FALSE]
                ELSE [evaluation EXCEPT !.status = "queued", !.search = report.search,
                          !.holder = 0, !.live = FALSE]
         /\ UNCHANGED <<applied, learningPolicy>>

evaluate_case(w) ==
    /\ evaluator[w].at = "executing"
    /\ \E report \in execute(evaluator[w]) : finish_experience_evaluation_case(w, report)
    /\ evaluator' = [evaluator EXCEPT ![w] = NoClaim]
    /\ UNCHANGED <<evaluatorFaults, policyEdits>>

\* external: the process of a worker ends, or a call takes longer than the lease.
EvaluatorCrash(w) ==
    /\ evaluator[w].at = "executing" /\ evaluatorFaults < MaxEvaluatorFaults
    /\ evaluator' = [evaluator EXCEPT ![w] = NoClaim]
    /\ evaluatorFaults' = evaluatorFaults + 1
    /\ UNCHANGED <<evaluation, learningPolicy, applied, policyEdits>>

EvaluatorStalls(w) ==
    /\ evaluator[w].at = "executing" /\ evaluatorFaults < MaxEvaluatorFaults
    /\ evaluation.holder = w /\ evaluation.live
    /\ evaluation' = [evaluation EXCEPT !.live = FALSE]
    /\ evaluatorFaults' = evaluatorFaults + 1
    /\ UNCHANGED <<evaluator, learningPolicy, applied, policyEdits>>

\* The lease of a crashed worker runs out.
AbandonedLeaseEnds ==
    /\ evaluation.live /\ evaluator[evaluation.holder].at = "idle"
    /\ evaluation' = [evaluation EXCEPT !.live = FALSE]
    /\ UNCHANGED <<evaluator, learningPolicy, applied, evaluatorFaults, policyEdits>>

EvaluatorStep(w) ==
    \/ claim_experience_evaluation(w)
    \/ evaluate_case(w)

GuidanceNext ==
    \/ \E cached \in BOOLEAN : queue_experience_evaluation(cached)
    \/ ChangePolicy \/ AbandonedLeaseEnds
    \/ \E w \in Evaluators : EvaluatorStep(w) \/ EvaluatorCrash(w) \/ EvaluatorStalls(w)

-----------------------------------------------------------------------------
(* Properties.                                                             *)

\* A queued evaluation can be claimed: next_action never meets a reserved action or an exhausted
\* budget. Either error would roll the claim back and leave the row at the head of the queue, so
\* that no later evaluation is claimed.
ClaimNeverFails ==
    evaluation.status = "queued" /\ SamePolicy =>
        \A s \in next_action(evaluation.search) : s.pending.type # "error"

\* The winner is chosen among the candidates no other candidate dominates on validation, and no
\* test case was measured before it was chosen: held-out outcomes never select.
SelectionIsHonest ==
    LET s == evaluation.search
    IN  /\ s.winner # NoWinner => s.winner \in frontier(s)
        /\ s.winner = NoWinner => \A c \in Candidates, k \in TestCases : s.score[c][k] = Unmeasured

\* Guidance is applied only over the revision it was measured against, and only when it beat that
\* revision: a selection of the owner during the last review is not overwritten.
AppliedBeatsActive ==
    evaluation.application = "applied" =>
        /\ applied.active = applied.baseline
        /\ can_apply(evaluation.search)

\* Every queued evaluation comes to an end, whatever stalls, crashes and edits happen.
EvaluationEnds == (evaluation.status = "queued") ~> (evaluation.status \in Ended)
=============================================================================
