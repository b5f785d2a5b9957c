------------------------------ MODULE GoalEngine ------------------------------
(* The Goal controller's state machine, src/src/goal/engine.rs.               *)
(* A goal is a plan of milestones, each delivered by one child workflow, with *)
(* a budget over all of them.  An operation that may be refused is a pair: a  *)
(* predicate CanX and the goal (or the set of goals) that X leads to.         *)
EXTENDS Naturals, Sequences, FiniteSets

CONSTANTS
    Criteria,      \* completion criteria: a text and its verifier
    MachineChecks, \* the criteria whose verifier is WorkflowReady
    GoalPlans,     \* the sequences of criteria a user may submit
    Budgets,       \* the budgets the policy accepts
    ChildLimit,    \* the policy's total_model_invocations of one workflow
    None           \* an absent Option

ASSUME PlansAreDuplicateFree ==
    \A plan \in GoalPlans :
        /\ plan \in Seq(Criteria) /\ plan # <<>>
        /\ \A i, j \in DOMAIN plan : plan[i] = plan[j] => i = j

Counters == [workflows : Nat, invocations : Nat]

Budget == [milestones : Nat, workflows : Nat, invocations : Nat, minutes : Nat]

ASSUME BudgetsAreBudgets == Budgets \subseteq Budget

ASSUME ChildLimitIsPositive == ChildLimit \in Nat \ {0}

-----------------------------------------------------------------------------
(* The child workflow, as far as a goal looks at it: whether it works, waits  *)
(* or has ended, what it used, and the limit it was given.                    *)

ChildStates == {"Working", "Blocked", "Ready", "OverLimit", "Rejected", "Cancelled"}

Child == [state : ChildStates, used : Nat, limit : Nat]

ChildEnded(w) == w.state # "Working"   \* WorkflowStage::is_terminal

Used(w) == IF w = None THEN 0 ELSE w.used

\* map_workflow_failure
FailureOf(w) ==
    CASE w.state = "OverLimit" -> "BudgetExhausted"
      [] w.state = "Cancelled" -> "Cancelled"
      [] w.state = "Rejected"  -> "MilestoneFailed"
      [] OTHER                 -> "EngineError"

-----------------------------------------------------------------------------
(* The goal *)

TerminalStages == {"Completed", "Failed", "Cancelled"}

\* Planning, PlanReview and PlanRevision are never entered; Evaluating is left
\* within the operation that enters it.
Stages ==
    {"AwaitingPlanApproval", "RunningMilestone", "AwaitingUserReview",
     "Paused", "Blocked"} \cup TerminalStages

ASSUME NoneIsAbsent == None \notin Stages \cup Child

Evidence == {"Pending", "EvidenceReady", "MachineVerified", "UserAccepted"}

Delivered == Evidence \ {"Pending"}

Outcomes ==
    {"Complete", "BudgetExhausted", "CriteriaUnsatisfied", "MilestoneFailed",
     "EngineError", "Cancelled"}

\* normalize_criteria
FreshCriteria(plan) == [k \in DOMAIN plan |-> [text |-> plan[k], status |-> "Pending"]]

\* milestones_for: milestone k of a plan version is for criterion k of it
MilestonesFor(version, plan) ==
    [k \in DOMAIN plan |->
        [plan |-> version, criterion |-> k, status |-> "Pending", workflow |-> None]]

Current(g) == {i \in DOMAIN g.milestones : g.milestones[i].status # "Superseded"}

Pending(g) == {i \in DOMAIN g.milestones : g.milestones[i].status = "Pending"}

FirstPending(g) == {i \in Pending(g) : \A j \in Pending(g) : i <= j}

ActiveWorkflow(g) == IF g.active = 0 THEN None ELSE g.milestones[g.active].workflow

CanStart(plan, budget) == Len(plan) <= budget.milestones

Start(plan, budget, automatic) ==
    [stage |-> "AwaitingPlanApproval", resume_to |-> None, pause_requested |-> FALSE,
     plan_version |-> 1, criteria |-> FreshCriteria(plan),
     milestones |-> MilestonesFor(1, plan), active |-> 0,
     counters |-> [workflows |-> 0, invocations |-> 0],
     budget |-> budget, automatic |-> automatic, amendment |-> None, outcome |-> None]

\* GoalRun::validate, which GoalCheckpoint::new applies to whatever is stored
Valid(g) ==
    /\ Cardinality(Current(g)) <= g.budget.milestones
    /\ g.active # 0 => g.milestones[g.active].status = "Running"
    /\ g.stage \in TerminalStages => g.active = 0
    /\ g.stage = "Paused" <=> g.resume_to # None

\* effective_counters: the counters with the workflow that is under way
EffectiveCounters(g) ==
    IF g.active = 0 THEN g.counters
    ELSE [workflows   |-> g.counters.workflows + 1,
          invocations |-> g.counters.invocations + Used(ActiveWorkflow(g))]

\* A mutant of Exhausted: a budget that is used up is not yet exhausted.
ExhaustedTooLate(g, now) ==
    \/ g.counters.workflows > g.budget.workflows
    \/ g.counters.invocations > g.budget.invocations
    \/ now >= g.budget.minutes

Exhausted(g, now) ==
    \/ g.counters.workflows >= g.budget.workflows
    \/ g.counters.invocations >= g.budget.invocations
    \/ now >= g.budget.minutes

\* Mutants of Abandon: the usage of the milestone that is left is lost; the
\* milestone that is left stays running.
AbandonUncounted(g) ==
    [g EXCEPT
        !.milestones = [i \in DOMAIN g.milestones |->
            IF i = g.active /\ g.milestones[i].status = "Running"
            THEN [g.milestones[i] EXCEPT !.status = "Failed"]
            ELSE g.milestones[i]],
        !.active = 0, !.resume_to = None, !.pause_requested = FALSE]

AbandonStillRunning(g) ==
    [g EXCEPT !.counters = EffectiveCounters(g),
              !.active = 0, !.resume_to = None, !.pause_requested = FALSE]

\* The part fail() and cancel() share: absorb_active_workflow_usage and
\* mark_active_milestone_failed.
Abandon(g) ==
    [g EXCEPT
        !.counters = EffectiveCounters(g),
        !.milestones = [i \in DOMAIN g.milestones |->
            IF i = g.active /\ g.milestones[i].status = "Running"
            THEN [g.milestones[i] EXCEPT !.status = "Failed"]
            ELSE g.milestones[i]],
        !.active = 0, !.resume_to = None, !.pause_requested = FALSE]

Fail(g, outcome) == [Abandon(g) EXCEPT !.stage = "Failed", !.outcome = outcome]

Cancel(g) == [Abandon(g) EXCEPT !.stage = "Cancelled", !.outcome = "Cancelled"]

StatusesOf(g) == {g.criteria[k].status : k \in DOMAIN g.criteria}

EvaluateCompletion(g) ==
    LET ended == [g EXCEPT !.active = 0]
    IN  IF StatusesOf(g) \subseteq {"MachineVerified", "UserAccepted"}
        THEN [ended EXCEPT !.stage = "Completed", !.outcome = "Complete"]
        ELSE IF StatusesOf(g) \subseteq {"MachineVerified", "EvidenceReady"}
        THEN [ended EXCEPT !.stage = "AwaitingUserReview"]
        ELSE Fail(ended, "CriteriaUnsatisfied")

\* start_next_milestone, called with no active milestone
StartNext(g, now) ==
    IF Exhausted(g, now) THEN {Fail(g, "BudgetExhausted")}
    ELSE IF Pending(g) = {} THEN {EvaluateCompletion(g)}
    ELSE {[g EXCEPT !.milestones[i].status = "Running", !.active = i,
                    !.stage = "RunningMilestone", !.resume_to = None,
                    !.pause_requested = FALSE] : i \in FirstPending(g)}

CanApprovePlan(g) == g.stage = "AwaitingPlanApproval" /\ g.amendment = None

ApprovePlan(g, now) == StartNext(g, now)

RevisePlan(g, plan, budget, automatic) ==
    [g EXCEPT !.criteria = FreshCriteria(plan),
              !.milestones = MilestonesFor(g.plan_version, plan),
              !.automatic = automatic, !.budget = budget]

CheckpointActive(g, w) == [g EXCEPT !.milestones[g.active].workflow = w]

BlockActive(g, w) == [CheckpointActive(g, w) EXCEPT !.stage = "Blocked"]

\* finish_active_workflow when the workflow delivered: its usage is absorbed
\* and its criterion has evidence.
Completes(g, w) ==
    LET m == g.milestones[g.active]
        k == m.criterion
    IN  [g EXCEPT
            !.milestones[g.active] = [m EXCEPT !.workflow = w, !.status = "Completed"],
            !.counters.workflows = @ + 1,
            !.counters.invocations = @ + w.used,
            !.active = 0,
            !.criteria = [c \in DOMAIN g.criteria |->
                IF c = k /\ m.plan = g.plan_version
                THEN [g.criteria[c] EXCEPT !.status =
                        IF g.criteria[c].text \in MachineChecks
                        THEN "MachineVerified" ELSE "EvidenceReady"]
                ELSE g.criteria[c]]]

\* Mutants of Finish: only a rejected workflow fails its goal; the next
\* milestone starts although a pause was asked for.
FinishUnlessRejected(g, w, now) ==
    IF w.state = "Rejected" THEN {Fail(g, FailureOf(w))}
    ELSE LET done == Completes(g, w)
         IN  IF Pending(done) = {} THEN {EvaluateCompletion(done)} ELSE StartNext(done, now)

FinishWithoutPause(g, w, now) ==
    IF w.state # "Ready" THEN {Fail(CheckpointActive(g, w), FailureOf(w))}
    ELSE LET done == Completes(g, w)
         IN  IF Pending(done) = {} THEN {EvaluateCompletion(done)} ELSE StartNext(done, now)

\* finish_active_workflow
Finish(g, w, now) ==
    IF w.state # "Ready"
    THEN {Fail([g EXCEPT
                  !.milestones[g.active] = [@ EXCEPT !.workflow = w, !.status = "Failed"],
                  !.counters.workflows = @ + 1, !.counters.invocations = @ + w.used,
                  !.active = 0], FailureOf(w))}
    ELSE LET done == Completes(g, w)
         IN  IF Pending(done) = {} THEN {EvaluateCompletion(done)}
             ELSE IF g.automatic /\ ~g.pause_requested THEN StartNext(done, now)
             ELSE {[done EXCEPT !.stage = "Paused", !.resume_to = "RunningMilestone",
                                !.pause_requested = FALSE]}

\* request_pause: waiting stages are paused already, a running milestone will be
RestingStages == {"Paused", "Blocked", "AwaitingPlanApproval", "AwaitingUserReview"}

CanRequestPause(g) == g.stage \notin TerminalStages

RequestPause(g) == [g EXCEPT !.pause_requested = g.stage \notin RestingStages]

PauseAtBoundary(g) ==
    [g EXCEPT !.resume_to = IF g.stage = "Paused" THEN @ ELSE g.stage,
              !.stage = "Paused", !.pause_requested = FALSE]

CanResume(g, now) == ~Exhausted(g, now) /\ g.stage \in {"Paused", "Blocked"}

Resume(g, now) ==
    LET back == [g EXCEPT !.stage = IF @ = "Blocked" THEN "RunningMilestone" ELSE g.resume_to,
                          !.resume_to = None, !.pause_requested = FALSE]
    IN  IF g.stage = "Paused" /\ g.active = 0 /\ back.stage = "RunningMilestone"
        THEN StartNext(back, now)
        ELSE {back}

CanAccept(g) == g.stage = "AwaitingUserReview"

Accept(g) ==
    [g EXCEPT !.criteria = [k \in DOMAIN g.criteria |->
                  IF g.criteria[k].status = "EvidenceReady"
                  THEN [g.criteria[k] EXCEPT !.status = "UserAccepted"]
                  ELSE g.criteria[k]],
              !.stage = "Completed", !.outcome = "Complete", !.active = 0]

CanPropose(g, plan, budget) ==
    /\ g.stage \in {"Paused", "AwaitingUserReview"}
    /\ Len(plan) <= budget.milestones

Propose(g, plan, budget, automatic) ==
    [g EXCEPT !.amendment = [plan |-> plan, budget |-> budget, automatic |-> automatic,
                             resume_to |-> IF g.stage = "Paused" THEN g.resume_to ELSE g.stage],
              !.stage = "AwaitingPlanApproval", !.resume_to = None]

\* approve_amendment: milestones that are not completed are superseded; a
\* criterion that is kept keeps its evidence, and a new milestone whose
\* criterion has evidence is completed already.
CarriedStatus(g, text) ==
    LET kept == {k \in DOMAIN g.criteria :
                    g.criteria[k].text = text /\ g.criteria[k].status \in Delivered}
    IN  IF kept = {} THEN "Pending" ELSE g.criteria[CHOOSE k \in kept : TRUE].status

\* A mutant of Amended: delivered milestones are superseded with the others.
AmendedFromNothing(g) ==
    [g EXCEPT
        !.amendment = None, !.automatic = g.amendment.automatic,
        !.budget = g.amendment.budget, !.plan_version = @ + 1, !.active = 0,
        !.milestones = [i \in DOMAIN g.milestones |->
                           [g.milestones[i] EXCEPT !.status = "Superseded"]]
                       \o MilestonesFor(g.plan_version + 1, g.amendment.plan),
        !.criteria = FreshCriteria(g.amendment.plan)]

Amended(g) ==
    LET a == g.amendment
        version == g.plan_version + 1
        superseded == [i \in DOMAIN g.milestones |->
            IF g.milestones[i].status = "Completed" THEN g.milestones[i]
            ELSE [g.milestones[i] EXCEPT !.status = "Superseded"]]
        added == [k \in DOMAIN a.plan |->
            [MilestonesFor(version, a.plan)[k] EXCEPT !.status =
                IF CarriedStatus(g, a.plan[k]) = "Pending" THEN "Pending" ELSE "Completed"]]
    IN  [g EXCEPT
            !.amendment = None, !.automatic = a.automatic, !.budget = a.budget,
            !.plan_version = version, !.active = 0,
            !.milestones = superseded \o added,
            !.criteria = [k \in DOMAIN a.plan |->
                [text |-> a.plan[k], status |-> CarriedStatus(g, a.plan[k])]]]

ApproveAmendment(g, now) == StartNext(Amended(g), now)

DiscardAmendment(g) ==
    [g EXCEPT !.amendment = None, !.stage = "Paused", !.resume_to = g.amendment.resume_to]

=============================================================================
