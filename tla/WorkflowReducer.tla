--------------------------- MODULE WorkflowReducer ---------------------------
(* The delivery workflow's pure reducer, src/src/workflow/engine.rs.          *)
(* A run is a record; every event of WorkflowEvent is a pair of operators: a  *)
(* predicate that holds when reduce() accepts the event and a function that   *)
(* gives the run reduce() returns.  A rejected event leaves the caller's run  *)
(* as it was, so rejection needs no operator of its own.                      *)
EXTENDS Naturals, FiniteSets

CONSTANTS
    Plans,          \* plan envelopes (their id and digest)
    Challenges,     \* ids a plan critic may give its blocking challenges
    Resolves,       \* the challenge ids each plan says it resolves
    Contents,       \* repository content fingerprints
    Checks,         \* configured check ids
    Commits,        \* git object ids of managed commits
    PlanCycles,     \* policy.limits.plan_cycles
    RepairCycles,   \* policy.limits.repair_cycles
    StageSteps,     \* policy.limits.stage_steps
    TotalLimit,     \* the workflow-wide limit of each kind of Totals
    None            \* an absent Option

ASSUME LimitsAreNaturals ==
    /\ PlanCycles \in Nat
    /\ RepairCycles \in Nat
    /\ StageSteps \in Nat

ASSUME ResolvesType == Resolves \in [Plans -> SUBSET Challenges]

-----------------------------------------------------------------------------
(* Stages, outcomes and causes *)

TerminalStages == {"Ready", "Failed", "Blocked", "Cancelled"}

ActiveStages ==
    {"Planning", "PlanReview", "PlanRevision", "Implementing", "Checking",
     "CodeReview", "Repairing", "Committing"}

Stages == ActiveStages \cup TerminalStages

SuccessOutcomes == {"Ready", "NoChange"}

BlockedOutcomes == {"ExecutorUnavailable", "CommitBlocked"}

Outcomes ==
    SuccessOutcomes \cup BlockedOutcomes \cup
    {"PlanRejected", "PlanCyclesExhausted", "ChecksFailed", "ReviewFailed",
     "RepairCyclesExhausted", "ContractUnsatisfied", "StepLimit",
     "InvocationLimit", "TokenLimit", "ContextLimit", "EngineError",
     "Cancelled"}

Causes ==
    {"Other", "PlanningRejected", "GitControlChanged",
     "RepositoryContentChanged", "DeterministicRepeatLimit",
     "ExecutorUnavailable", "CommitBlocked", "Cancelled"}

Totals == {"model_invocations", "generated_tokens", "advisory_calls"}

MaxWorkUnitProgressCredits == 4

ASSUME TotalLimitType == TotalLimit \in [Totals -> Nat]

-----------------------------------------------------------------------------
(* Artifacts: what the reducer's decisions depend on *)

\* validate_disposition: a verdict of Revise has a blocking challenge, Pass none.
PlanReviewArtifact == [plan : Plans, blocking : SUBSET Challenges]

PlanReviewPasses(review) == review.blocking = {}

Implementation == [plan : Plans, content : Contents, no_change : BOOLEAN]

CheckResults == {"absent", "passed", "unsuccessful"}

EvidenceLedger == [Checks -> CheckResults]

NoEvidence == [c \in Checks |-> "absent"]

Verdicts == {"Pass", "Revise"}

CodeReviewArtifact == [content : Contents, verdict : Verdicts]

\* The ledger of work units: the plan it was compiled from and its credits.
WorkUnitLedger ==
    [plan : Plans \cup {None}, credits : 0 .. MaxWorkUnitProgressCredits]

NoUnits == [plan |-> None, credits |-> 0]

ReadyEvidence ==
    [commit : Commits, plan : Plans, review : CodeReviewArtifact,
     checks : SUBSET Checks]

\* Everything downstream of the plan that a new plan or a mutation discards.
NoDelivery ==
    [implementation |-> None, selected |-> {}, checks |-> NoEvidence,
     fingerprint |-> None, code_review |-> None, commit |-> None,
     ready |-> None]

DeliveryType ==
    [implementation : Implementation \cup {None},
     selected       : SUBSET Checks,
     checks         : EvidenceLedger,
     fingerprint    : Contents \cup {None},
     code_review    : CodeReviewArtifact \cup {None},
     commit         : Commits \cup {None},
     ready          : ReadyEvidence \cup {None}]

WorkflowRun ==
    [stage         : Stages,
     paused        : ActiveStages \cup {None},
     planning      : Contents,
     plan          : Plans \cup {None},
     plan_review   : PlanReviewArtifact \cup {None},
     units         : WorkUnitLedger,
     delivery      : DeliveryType,
     plan_cycles   : Nat,
     repair_cycles : Nat,
     steps         : [ActiveStages -> Nat],
     totals        : [Totals -> Nat],
     outcome       : Outcomes \cup {None},
     cause         : Causes \cup {None}]

\* planning is the content the plan in force is about (planning_snapshot).
Start(content) ==
    [stage |-> "Planning", paused |-> None, planning |-> content, plan |-> None,
     plan_review |-> None, units |-> NoUnits, delivery |-> NoDelivery,
     plan_cycles |-> 0, repair_cycles |-> 0,
     steps |-> [s \in ActiveStages |-> 0], totals |-> [t \in Totals |-> 0],
     outcome |-> None, cause |-> None]

IsTerminal(run) == run.stage \in TerminalStages

\* An absent value is not one of the values an Option may hold.
ASSUME NoneIsAbsent ==
    /\ None \notin Plans /\ None \notin Contents /\ None \notin Commits
    /\ None \notin ActiveStages /\ None \notin Outcomes /\ None \notin Causes
    /\ None \notin PlanReviewArtifact /\ None \notin Implementation
    /\ None \notin CodeReviewArtifact /\ None \notin ReadyEvidence

-----------------------------------------------------------------------------
(* Budgets: WorkflowCounters::record *)

WorkflowUsage == [steps : Nat, totals : [Totals -> Nat]]

CyclesGranted(run, stage) ==
    CASE stage \in {"Planning", "PlanRevision", "PlanReview", "Implementing"}
            -> run.plan_cycles
      [] stage \in {"Repairing", "CodeReview"} -> run.repair_cycles
      [] OTHER -> 0

StageStepLimit(run, stage, base) ==
    base * (CyclesGranted(run, stage) + 1)
    + IF stage \in {"Implementing", "Repairing"} THEN run.units.credits ELSE 0

Charged(run, usage) ==
    [run EXCEPT
        !.steps[run.stage] = @ + usage.steps,
        !.totals = [t \in Totals |-> @[t] + usage.totals[t]]]

Over(run, total) == run.totals[total] > TotalLimit[total]

\* What record() reports once the usage has been added, in its order.
Exhausted(run) ==
    IF run.steps[run.stage] > StageStepLimit(run, run.stage, StageSteps)
    THEN "StepLimit"
    ELSE IF Over(run, "model_invocations") THEN "InvocationLimit"
    ELSE IF Over(run, "generated_tokens") THEN "TokenLimit"
    ELSE IF Over(run, "advisory_calls") THEN "InvocationLimit"
    ELSE None

\* The reducer's own failures name an outcome and leave blocked_cause alone.
Exhaust(run, outcome) == [run EXCEPT !.stage = "Failed", !.outcome = outcome]

CanRecordUsage(run) == ~IsTerminal(run)

\* Mutant: the limits are compared before the usage is added.
RecordUsageLate(run, usage) ==
    IF Exhausted(run) = None
    THEN Charged(run, usage)
    ELSE Exhaust(run, Exhausted(run))

RecordUsage(run, usage) ==
    LET charged == Charged(run, usage)
    IN  IF Exhausted(charged) = None
        THEN charged
        ELSE Exhaust(charged, Exhausted(charged))

-----------------------------------------------------------------------------
(* Planning *)

BlockingChallenges(run) ==
    IF run.plan_review = None THEN {} ELSE run.plan_review.blocking

CanSubmitPlan(run, plan) ==
    /\ run.stage \in {"Planning", "PlanRevision"}
    /\ run.stage = "PlanRevision" => BlockingChallenges(run) \subseteq Resolves[plan]

SubmitPlan(run, plan) ==
    [run EXCEPT !.plan = plan, !.plan_review = None, !.units = NoUnits,
                !.delivery = NoDelivery, !.stage = "PlanReview"]

\* Mutant: a critic's verdict is accepted whatever plan it is about.
CanReviewAnyPlan(run, review) == run.stage = "PlanReview" /\ run.plan # None

CanReviewPlan(run, review) ==
    /\ run.stage = "PlanReview"
    /\ run.plan # None
    /\ review.plan = run.plan

ReviewPlan(run, review) ==
    LET reviewed == [run EXCEPT !.plan_review = review]
    IN  IF PlanReviewPasses(review)
        THEN [reviewed EXCEPT !.stage = "Implementing"]
        ELSE IF run.plan_cycles >= PlanCycles
        THEN Exhaust(reviewed, "PlanCyclesExhausted")
        ELSE [reviewed EXCEPT !.plan_cycles = @ + 1, !.stage = "PlanRevision"]

CanRequestReplan(run) == run.stage \in {"Implementing", "Repairing"}

\* Mutant: a replan starts the stage counters afresh.
RequestReplanRefunding(run, content) ==
    [run EXCEPT !.plan_cycles = @ + 1, !.plan = None, !.plan_review = None,
                !.units = NoUnits, !.delivery = NoDelivery, !.stage = "Planning",
                !.planning = content, !.steps = [s \in ActiveStages |-> 0]]

RequestReplan(run, content) ==
    IF run.plan_cycles >= PlanCycles
    THEN Exhaust(run, "PlanCyclesExhausted")
    ELSE [run EXCEPT !.plan_cycles = @ + 1, !.plan = None, !.plan_review = None,
                     !.units = NoUnits, !.delivery = NoDelivery,
                     !.planning = content, !.stage = "Planning"]

CanRouteIntervention(run) ==
    run.stage \in {"PlanReview", "Implementing", "Repairing", "Checking",
                   "CodeReview", "Committing"}

\* Mutant: the work units of the discarded plan survive a user message.
RouteInterventionKeepingUnits(run, content) ==
    LET cleared == [run EXCEPT !.planning = content, !.plan_review = None,
                               !.delivery = NoDelivery]
    IN  IF run.stage = "PlanReview"
        THEN [cleared EXCEPT !.stage = "PlanRevision"]
        ELSE [cleared EXCEPT !.plan = None, !.stage = "Planning"]

RouteIntervention(run, content) ==
    LET cleared == [run EXCEPT !.planning = content, !.plan_review = None,
                               !.units = NoUnits, !.delivery = NoDelivery]
    IN  IF run.stage = "PlanReview"
        THEN [cleared EXCEPT !.stage = "PlanRevision"]
        ELSE [cleared EXCEPT !.plan = None, !.stage = "Planning"]

-----------------------------------------------------------------------------
(* Implementation, checks and review *)

CanSubmitImplementation(run, impl) ==
    /\ run.stage \in {"Implementing", "Repairing"}
    /\ run.plan # None
    /\ impl.plan = run.plan

SubmitImplementation(run, impl) ==
    [run EXCEPT !.delivery = [NoDelivery EXCEPT !.implementation = impl,
                                                !.fingerprint = impl.content],
                !.stage = "Checking"]

EnterRepair(run) ==
    IF run.repair_cycles >= RepairCycles
    THEN Exhaust(run, "RepairCyclesExhausted")
    ELSE [run EXCEPT !.repair_cycles = @ + 1, !.stage = "Repairing"]

\* require_fingerprint: evidence must be about the content in force.
IsCurrent(run, content) ==
    /\ run.delivery.fingerprint # None
    /\ content = run.delivery.fingerprint

AllPassed(selected, evidence) == \A c \in selected : evidence[c] = "passed"

ClaimsNoChange(run) ==
    /\ run.delivery.implementation # None
    /\ run.delivery.implementation.no_change

WithChecks(run, selected, evidence) ==
    [run EXCEPT !.delivery.selected = selected, !.delivery.checks = evidence]

CanPassChecks(run, content, selected, evidence) ==
    /\ run.stage = "Checking"
    /\ IsCurrent(run, content)
    /\ AllPassed(selected, evidence)

PassChecks(run, selected, evidence) ==
    LET checked == WithChecks(run, selected, evidence)
    IN  IF ClaimsNoChange(run)
        THEN [checked EXCEPT !.stage = "Ready", !.outcome = "NoChange",
                             !.delivery.ready = None]
        ELSE [checked EXCEPT !.stage = "CodeReview"]

CanFailChecks(run, content, failed) ==
    /\ run.stage = "Checking"
    /\ IsCurrent(run, content)
    /\ failed # {}

FailChecks(run, selected, evidence) ==
    EnterRepair(WithChecks(run, selected, evidence))

CanReviewCode(run, review) ==
    run.stage = "CodeReview" /\ IsCurrent(run, review.content)

ReviewCode(run, review) ==
    LET reviewed == [run EXCEPT !.delivery.code_review = review]
    IN  IF review.verdict = "Pass"
        THEN [reviewed EXCEPT !.stage = "Committing"]
        ELSE EnterRepair(reviewed)

CanObserveMutation(run) ==
    run.stage \in {"Implementing", "Repairing", "Checking", "CodeReview",
                   "Committing"}

\* Mutant: a mutation moves the fingerprint and leaves the stage and evidence.
ObserveMutationInPlace(run, content) ==
    [run EXCEPT !.delivery.fingerprint = content]

ObserveMutation(run, content) ==
    [run EXCEPT
        !.delivery = [NoDelivery EXCEPT !.implementation = run.delivery.implementation,
                                        !.fingerprint = content],
        !.stage = IF @ \in {"Checking", "CodeReview", "Committing"}
                  THEN "Checking" ELSE @]

-----------------------------------------------------------------------------
(* Commit and its evidence: ReadyEvidenceBundle::from_run *)

CanBundle(run) ==
    /\ run.stage = "Ready" /\ run.outcome = "Ready"
    /\ run.delivery.commit # None
    /\ run.plan # None
    /\ run.delivery.code_review # None
    /\ AllPassed(run.delivery.selected, run.delivery.checks)

Bundle(run) ==
    [commit |-> run.delivery.commit, plan |-> run.plan,
     review |-> run.delivery.code_review, checks |-> run.delivery.selected]

Committed(run, oid) ==
    [run EXCEPT !.delivery.commit = oid,
                !.stage = "Ready", !.outcome = "Ready"]

CanCompleteCommit(run, content, oid) ==
    /\ run.stage = "Committing"
    /\ IsCurrent(run, content)
    /\ run.delivery.code_review = [content |-> content, verdict |-> "Pass"]
    /\ CanBundle(Committed(run, oid))

CompleteCommit(run, oid) ==
    [Committed(run, oid) EXCEPT !.delivery.ready = Bundle(Committed(run, oid))]

-----------------------------------------------------------------------------
(* Stops *)

CanBlock(run, outcome) == ~IsTerminal(run) /\ outcome \in BlockedOutcomes

Block(run, outcome, cause) ==
    [run EXCEPT !.paused = run.stage, !.stage = "Blocked",
                !.outcome = outcome, !.cause = cause]

CanFail(run, outcome) ==
    ~IsTerminal(run) /\ outcome \in Outcomes \ (SuccessOutcomes \cup {"Cancelled"})

Fail(run, outcome, cause) ==
    [run EXCEPT !.stage = "Failed", !.paused = None, !.outcome = outcome,
                !.cause = cause]

CanCancel(run) == ~IsTerminal(run)

Cancel(run) ==
    [run EXCEPT !.stage = "Cancelled", !.paused = None,
                !.outcome = "Cancelled", !.cause = "Cancelled"]

CanResume(run) == run.stage = "Blocked" /\ run.paused # None

Resume(run) ==
    [run EXCEPT !.stage = run.paused, !.paused = None, !.outcome = None,
                !.cause = None]

-----------------------------------------------------------------------------
(* The work-unit ledger as the drivers touch it between events *)

CanInitializeUnits(run) ==
    /\ run.stage \in {"Implementing", "Repairing"}
    /\ run.plan # None
    /\ run.units.plan = None

InitializeUnits(run) ==
    [run EXCEPT !.units = [plan |-> run.plan, credits |-> 0]]

CanCreditProgress(run) ==
    /\ run.stage \in {"Implementing", "Repairing"}
    /\ run.units.plan # None
    /\ run.units.credits < MaxWorkUnitProgressCredits

CreditProgress(run) == [run EXCEPT !.units.credits = @ + 1]

-----------------------------------------------------------------------------
(* WorkflowCheckpoint::validate: what may be saved and restored *)

PausedMatchesStage(run) == (run.stage = "Blocked") <=> (run.paused # None)

UnitsMatchPlan(run) ==
    run.units.plan # None => run.plan # None /\ run.units.plan = run.plan

EvidenceMatchesRun(run) ==
    IF run.delivery.ready # None
    THEN CanBundle(run) /\ run.delivery.ready = Bundle(run)
    ELSE ~(run.stage = "Ready" /\ run.outcome = "Ready")

ValidCheckpoint(run) ==
    /\ PausedMatchesStage(run)
    /\ UnitsMatchPlan(run)
    /\ EvidenceMatchesRun(run)
==============================================================================
