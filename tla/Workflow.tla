------------------------------ MODULE Workflow -------------------------------
(* One delivery workflow under any caller: the reducer of                     *)
(* src/src/workflow/engine.rs driven by every event in every order its own    *)
(* guards allow.  The caller's discipline (when it sends which event, what it *)
(* checks first) is the subject of Delivery; here nothing is assumed of it.   *)
EXTENDS WorkflowReducer

CONSTANTS
    Usages,         \* the usage one UsageRecorded may report
    StopOutcomes,   \* the outcomes the callers give Blocked and Failed
    StopCauses      \* the causes they name

ASSUME UsageType == Usages \subseteq WorkflowUsage

ASSUME StopsType == StopOutcomes \subseteq Outcomes /\ StopCauses \subseteq Causes

VARIABLES
    run,            \* WorkflowRun
    checked         \* history: the content the last passing batch was run on

vars == <<run, checked>>

-----------------------------------------------------------------------------
(* Events *)

UsageRecorded ==
    /\ CanRecordUsage(run)
    /\ \E usage \in Usages : run' = RecordUsage(run, usage)
    /\ UNCHANGED checked

PlanSubmitted ==
    /\ \E plan \in Plans :
            CanSubmitPlan(run, plan) /\ run' = SubmitPlan(run, plan)
    /\ UNCHANGED checked

PlanReviewSubmitted ==
    /\ \E review \in PlanReviewArtifact :
            CanReviewPlan(run, review) /\ run' = ReviewPlan(run, review)
    /\ UNCHANGED checked

ReplanRequested ==
    /\ CanRequestReplan(run)
    /\ \E content \in Contents : run' = RequestReplan(run, content)
    /\ UNCHANGED checked

UserInterventionQueued ==
    /\ CanRouteIntervention(run)
    /\ \E content \in Contents : run' = RouteIntervention(run, content)
    /\ UNCHANGED checked

ImplementationSubmitted ==
    /\ \E impl \in Implementation :
            /\ CanSubmitImplementation(run, impl)
            /\ run' = SubmitImplementation(run, impl)
    /\ UNCHANGED checked

ChecksPassed ==
    \E content \in Contents, selected \in SUBSET Checks, evidence \in EvidenceLedger :
        /\ CanPassChecks(run, content, selected, evidence)
        /\ run' = PassChecks(run, selected, evidence)
        /\ checked' = content

ChecksFailed ==
    /\ \E content \in Contents, selected, failed \in SUBSET Checks,
          evidence \in EvidenceLedger :
            /\ CanFailChecks(run, content, failed)
            /\ run' = FailChecks(run, selected, evidence)
    /\ UNCHANGED checked

CodeReviewSubmitted ==
    /\ \E review \in CodeReviewArtifact :
            CanReviewCode(run, review) /\ run' = ReviewCode(run, review)
    /\ UNCHANGED checked

MutationObserved ==
    /\ CanObserveMutation(run)
    /\ \E content \in Contents : run' = ObserveMutation(run, content)
    /\ UNCHANGED checked

CommitCompleted ==
    /\ \E content \in Contents, oid \in Commits :
            /\ CanCompleteCommit(run, content, oid)
            /\ run' = CompleteCommit(run, oid)
    /\ UNCHANGED checked

Blocked ==
    /\ \E outcome \in StopOutcomes, cause \in StopCauses :
            CanBlock(run, outcome) /\ run' = Block(run, outcome, cause)
    /\ UNCHANGED checked

Failed ==
    /\ \E outcome \in StopOutcomes, cause \in StopCauses :
            CanFail(run, outcome) /\ run' = Fail(run, outcome, cause)
    /\ UNCHANGED checked

Cancelled ==
    /\ CanCancel(run)
    /\ run' = Cancel(run)
    /\ UNCHANGED checked

Resumed ==
    /\ CanResume(run)
    /\ run' = Resume(run)
    /\ UNCHANGED checked

WorkUnitsInitialized ==
    /\ CanInitializeUnits(run)
    /\ run' = InitializeUnits(run)
    /\ UNCHANGED checked

ProgressCredited ==
    /\ CanCreditProgress(run)
    /\ run' = CreditProgress(run)
    /\ UNCHANGED checked

-----------------------------------------------------------------------------
Init ==
    /\ \E content \in Contents : run = Start(content)
    /\ checked = None

Next ==
    \/ UsageRecorded
    \/ PlanSubmitted
    \/ PlanReviewSubmitted
    \/ ReplanRequested
    \/ UserInterventionQueued
    \/ ImplementationSubmitted
    \/ ChecksPassed
    \/ ChecksFailed
    \/ CodeReviewSubmitted
    \/ MutationObserved
    \/ CommitCompleted
    \/ Blocked
    \/ Failed
    \/ Cancelled
    \/ Resumed
    \/ WorkUnitsInitialized
    \/ ProgressCredited

Spec == Init /\ [][Next]_vars

-----------------------------------------------------------------------------
(* Properties *)

WorkStages == {"Implementing", "Repairing", "Checking", "CodeReview", "Committing"}

\* The stage a blocked run will resume at.
StageInForce(r) == IF r.stage = "Blocked" THEN r.paused ELSE r.stage

PlanApproved(r) ==
    r.plan # None /\ r.plan_review = [plan |-> r.plan, blocking |-> {}]

Implemented(r) ==
    /\ r.delivery.fingerprint # None
    /\ r.delivery.implementation # None
    /\ r.delivery.implementation.plan = r.plan

ReviewPassed(r) ==
    r.delivery.code_review = [content |-> r.delivery.fingerprint, verdict |-> "Pass"]

\* The run has the shape of the WorkflowRun struct.
TypeOK ==
    /\ run \in WorkflowRun
    /\ checked \in Contents \cup {None}

\* Whatever order events arrive in, the run can be saved and loaded again: its
\* checkpoint passes WorkflowCheckpoint::validate (paused stage, work units of
\* the plan in force, delivery evidence that matches the run).
CheckpointIsAlwaysValid == ValidCheckpoint(run)

\* A run that ends Ready was planned, reviewed and checked as one piece: the
\* plan in force passed its critic, the implementation is of that plan, and the
\* passing code review and the last passing batch are both of the content the
\* commit names, however often it was mutated, repaired or replanned before.
ReadyIsReviewedAndChecked ==
    run.stage = "Ready" /\ run.outcome = "Ready" =>
        /\ PlanApproved(run)
        /\ Implemented(run)
        /\ ReviewPassed(run)
        /\ checked = run.delivery.fingerprint

\* No stage that may change or deliver the repository is entered, or resumed
\* after a block, without a plan whose own review passed; a rejected plan never
\* reaches an implementer.
WorkStagesHaveApprovedPlan == StageInForce(run) \in WorkStages => PlanApproved(run)

\* The inductive strengthening of the two above: what each stage may rely on.
StagesHaveTheirEvidence ==
    LET stage == StageInForce(run)
    IN  /\ stage \in {"Checking", "CodeReview", "Committing"} => Implemented(run)
        /\ stage \in {"CodeReview", "Committing"} =>
              /\ AllPassed(run.delivery.selected, run.delivery.checks)
              /\ checked = run.delivery.fingerprint
        /\ stage = "Committing" => ReviewPassed(run)

\* The inductive invariant that carries the four invariants above.
EvidenceInv ==
    /\ TypeOK
    /\ CheckpointIsAlwaysValid
    /\ WorkStagesHaveApprovedPlan
    /\ StagesHaveTheirEvidence
    /\ ReadyIsReviewedAndChecked

\* Neither a replan, a user message, a repair nor a resume gives back what a
\* workflow has spent: cycles, steps and totals never fall.
BudgetsAreNeverRefunded ==
    [][ /\ run'.plan_cycles >= run.plan_cycles
        /\ run'.repair_cycles >= run.repair_cycles
        /\ \A s \in ActiveStages : run'.steps[s] >= run.steps[s]
        /\ \A t \in Totals : run'.totals[t] >= run.totals[t] ]_vars

\* A workflow that still runs is inside every workflow-wide limit and both
\* cycle limits: the event that crosses one is the event that fails the run.
RunsInsideItsLimits ==
    /\ run.plan_cycles <= PlanCycles
    /\ run.repair_cycles <= RepairCycles
    /\ run.stage \in ActiveStages \cup {"Ready", "Blocked"} =>
            \A t \in Totals : ~Over(run, t)

\* The only way out of a terminal stage is Resumed from Blocked, and it leads
\* back to the very stage that was blocked with its evidence untouched.
TerminalOnlyResumes ==
    [][ IsTerminal(run) =>
            \/ run' = run
            \/ /\ run.stage = "Blocked"
               /\ run'.stage = run.paused
               /\ run'.delivery = run.delivery
               /\ run'.plan = run.plan ]_vars

\* docs/architecture/workflows.md:573 "Each accepted cycle grants one additional
\* stage-sized cumulative tranche": a cycle that is charged raises the step
\* limit of every stage it pays for by a whole tranche.
AcceptedCycleGrantsTranche ==
    [][ run'.plan_cycles = run.plan_cycles + 1 =>
            \A s \in {"Planning", "PlanRevision", "PlanReview", "Implementing"} :
                StageStepLimit(run', s, StageSteps)
                    >= StageStepLimit(run, s, StageSteps) + StageSteps ]_vars

\* docs/architecture/workflows.md:562 "A later mutation invalidates evidence tied
\* to the earlier state": a run that ends with outcome NoChange still has the
\* content its no-change accounting was submitted for.
NoChangeIsUnchanged ==
    run.outcome = "NoChange" =>
        run.delivery.fingerprint = run.delivery.implementation.content

\* agent_core.rs:16167 "terminal workflow has no producer-authored blocked cause":
\* a stop other than success names its cause.
StopsNameTheirCause ==
    run.stage \in {"Failed", "Blocked", "Cancelled"} => run.cause # None
==============================================================================
