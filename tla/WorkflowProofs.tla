---------------------------- MODULE WorkflowProofs ----------------------------
(* What every run of the delivery workflow satisfies, for all values of the   *)
(* constants.  Each function of the reducer first gets a lemma on its type.   *)
EXTENDS Workflow, TLAPS

LEMMA EmptyTypes ==
    /\ NoDelivery \in DeliveryType
    /\ NoUnits \in WorkUnitLedger
BY DEF NoDelivery, DeliveryType, NoEvidence, EvidenceLedger, CheckResults,
       NoUnits, WorkUnitLedger, MaxWorkUnitProgressCredits

LEMMA StartType ==
    ASSUME NEW content \in Contents
    PROVE  Start(content) \in WorkflowRun
BY EmptyTypes DEF Start, WorkflowRun, Stages, ActiveStages, TerminalStages

LEMMA ExhaustType ==
    ASSUME NEW r \in WorkflowRun, NEW outcome \in Outcomes
    PROVE  Exhaust(r, outcome) \in WorkflowRun
BY DEF Exhaust, WorkflowRun, Stages, TerminalStages

LEMMA RecordUsageType ==
    ASSUME NEW r \in WorkflowRun, NEW usage \in WorkflowUsage, ~IsTerminal(r)
    PROVE  RecordUsage(r, usage) \in WorkflowRun
<1>1. Charged(r, usage) \in WorkflowRun
  <2>1. r.stage \in ActiveStages
    BY DEF IsTerminal, WorkflowRun, Stages
  <2>2. [r.steps EXCEPT ![r.stage] = @ + usage.steps] \in [ActiveStages -> Nat]
    BY <2>1 DEF WorkflowRun, WorkflowUsage
  <2>3. [t \in Totals |-> r.totals[t] + usage.totals[t]] \in [Totals -> Nat]
    BY DEF WorkflowRun, WorkflowUsage
  <2> QED BY <2>2, <2>3 DEF Charged, WorkflowRun
<1>2. Exhausted(Charged(r, usage)) \in Outcomes \cup {None}
  BY DEF Exhausted, Outcomes
<1> QED BY <1>1, <1>2, ExhaustType DEF RecordUsage

LEMMA SubmitPlanType ==
    ASSUME NEW r \in WorkflowRun, NEW plan \in Plans
    PROVE  SubmitPlan(r, plan) \in WorkflowRun
BY EmptyTypes DEF SubmitPlan, WorkflowRun, Stages, ActiveStages

LEMMA CycleTypes ==
    ASSUME NEW r \in WorkflowRun
    PROVE  /\ [r EXCEPT !.plan_cycles = @ + 1, !.stage = "PlanRevision"] \in WorkflowRun
           /\ [r EXCEPT !.repair_cycles = @ + 1, !.stage = "Repairing"] \in WorkflowRun
<1>1. r.plan_cycles + 1 \in Nat /\ r.repair_cycles + 1 \in Nat
  BY DEF WorkflowRun
<1>2. {"PlanRevision", "Repairing"} \subseteq Stages
  BY DEF Stages, ActiveStages
<1> QED BY <1>1, <1>2 DEF WorkflowRun

LEMMA ReviewPlanType ==
    ASSUME NEW r \in WorkflowRun, NEW review \in PlanReviewArtifact
    PROVE  ReviewPlan(r, review) \in WorkflowRun
<1> DEFINE reviewed == [r EXCEPT !.plan_review = review]
<1>1. reviewed \in WorkflowRun
  BY DEF WorkflowRun
<1>2. "PlanCyclesExhausted" \in Outcomes
  BY DEF Outcomes
<1>3. [reviewed EXCEPT !.stage = "Implementing"] \in WorkflowRun
  BY <1>1 DEF WorkflowRun, Stages, ActiveStages
<1> HIDE DEF reviewed
<1>4. Exhaust(reviewed, "PlanCyclesExhausted") \in WorkflowRun
  BY <1>1, <1>2, ExhaustType
<1>5. [reviewed EXCEPT !.plan_cycles = @ + 1, !.stage = "PlanRevision"] \in WorkflowRun
  BY <1>1, CycleTypes
<1> QED BY <1>3, <1>4, <1>5 DEF ReviewPlan, reviewed

LEMMA RequestReplanType ==
    ASSUME NEW r \in WorkflowRun, NEW content \in Contents
    PROVE  RequestReplan(r, content) \in WorkflowRun
<1>1. r.plan_cycles + 1 \in Nat
  BY DEF WorkflowRun
<1>2. "Planning" \in Stages /\ "PlanCyclesExhausted" \in Outcomes
  BY DEF Stages, ActiveStages, Outcomes
<1>3. [r EXCEPT !.plan_cycles = @ + 1, !.plan = None, !.plan_review = None,
                !.units = NoUnits, !.delivery = NoDelivery,
                !.planning = content, !.stage = "Planning"] \in WorkflowRun
  BY <1>1, <1>2, EmptyTypes DEF WorkflowRun
<1> QED BY <1>2, <1>3, ExhaustType DEF RequestReplan

LEMMA RouteInterventionType ==
    ASSUME NEW r \in WorkflowRun, NEW content \in Contents
    PROVE  RouteIntervention(r, content) \in WorkflowRun
<1>1. {"Planning", "PlanRevision"} \subseteq Stages
  BY DEF Stages, ActiveStages
<1> QED BY <1>1, EmptyTypes DEF RouteIntervention, WorkflowRun

LEMMA SubmitImplementationType ==
    ASSUME NEW r \in WorkflowRun, NEW impl \in Implementation
    PROVE  SubmitImplementation(r, impl) \in WorkflowRun
<1>1. [NoDelivery EXCEPT !.implementation = impl, !.fingerprint = impl.content]
        \in DeliveryType
  BY EmptyTypes DEF DeliveryType, Implementation
<1>2. "Checking" \in Stages
  BY DEF Stages, ActiveStages
<1> QED BY <1>1, <1>2 DEF SubmitImplementation, WorkflowRun

LEMMA EnterRepairType ==
    ASSUME NEW r \in WorkflowRun
    PROVE  EnterRepair(r) \in WorkflowRun
<1>1. "RepairCyclesExhausted" \in Outcomes
  BY DEF Outcomes
<1> QED BY <1>1, ExhaustType, CycleTypes DEF EnterRepair

LEMMA ChecksType ==
    ASSUME NEW r \in WorkflowRun, NEW selected \in SUBSET Checks,
           NEW evidence \in EvidenceLedger
    PROVE  /\ WithChecks(r, selected, evidence) \in WorkflowRun
           /\ PassChecks(r, selected, evidence) \in WorkflowRun
           /\ FailChecks(r, selected, evidence) \in WorkflowRun
<1> DEFINE c == WithChecks(r, selected, evidence)
<1>1. c \in WorkflowRun
  <2>1. [r.delivery EXCEPT !.selected = selected, !.checks = evidence] \in DeliveryType
    BY DEF WorkflowRun, DeliveryType
  <2>2. c = [r EXCEPT !.delivery = [r.delivery EXCEPT !.selected = selected,
                                                      !.checks = evidence]]
    BY DEF WithChecks, WorkflowRun, DeliveryType
  <2> HIDE DEF c
  <2> QED
    BY <2>1, <2>2 DEF WorkflowRun
<1>2. "Ready" \in Stages /\ "CodeReview" \in Stages /\ "NoChange" \in Outcomes
  BY DEF Stages, ActiveStages, TerminalStages, Outcomes, SuccessOutcomes
<1> HIDE DEF c
<1>3. [c EXCEPT !.stage = "Ready", !.outcome = "NoChange", !.delivery.ready = None]
        \in WorkflowRun
  <2>1. [c.delivery EXCEPT !.ready = None] \in DeliveryType
    BY <1>1 DEF WorkflowRun, DeliveryType
  <2> QED BY <1>1, <1>2, <2>1 DEF WorkflowRun
<1>4. [c EXCEPT !.stage = "CodeReview"] \in WorkflowRun
  BY <1>1, <1>2 DEF WorkflowRun
<1>5. PassChecks(r, selected, evidence) \in WorkflowRun
  BY <1>3, <1>4 DEF PassChecks, c
<1> QED BY <1>1, <1>5, EnterRepairType DEF FailChecks, c

LEMMA ReviewCodeType ==
    ASSUME NEW r \in WorkflowRun, NEW review \in CodeReviewArtifact
    PROVE  ReviewCode(r, review) \in WorkflowRun
<1> DEFINE reviewed == [r EXCEPT !.delivery.code_review = review]
<1>1. reviewed \in WorkflowRun
  BY DEF WorkflowRun, DeliveryType
<1>2. "Committing" \in Stages
  BY DEF Stages, ActiveStages
<1> HIDE DEF reviewed
<1>3. [reviewed EXCEPT !.stage = "Committing"] \in WorkflowRun
  BY <1>1, <1>2 DEF WorkflowRun
<1> QED BY <1>1, <1>3, EnterRepairType DEF ReviewCode, reviewed

LEMMA ObserveMutationType ==
    ASSUME NEW r \in WorkflowRun, NEW content \in Contents
    PROVE  ObserveMutation(r, content) \in WorkflowRun
<1>1. [NoDelivery EXCEPT !.implementation = r.delivery.implementation,
                         !.fingerprint = content] \in DeliveryType
  BY EmptyTypes DEF DeliveryType, WorkflowRun
<1>2. "Checking" \in Stages
  BY DEF Stages, ActiveStages
<1> QED BY <1>1, <1>2 DEF ObserveMutation, WorkflowRun

LEMMA CompleteCommitType ==
    ASSUME NEW r \in WorkflowRun, NEW oid \in Commits, CanBundle(Committed(r, oid))
    PROVE  CompleteCommit(r, oid) \in WorkflowRun
<1> DEFINE c == Committed(r, oid)
<1>1. "Ready" \in Stages /\ "Ready" \in Outcomes
  BY DEF Stages, TerminalStages, Outcomes, SuccessOutcomes
<1>2. CanBundle(c)
  OBVIOUS
<1>3. c \in WorkflowRun
  BY <1>1 DEF Committed, WorkflowRun, DeliveryType
<1> HIDE DEF c
<1>4. Bundle(c) \in ReadyEvidence
  BY <1>2, <1>3 DEF Bundle, CanBundle, ReadyEvidence, WorkflowRun, DeliveryType
<1>5. [c.delivery EXCEPT !.ready = Bundle(c)] \in DeliveryType
  BY <1>3, <1>4 DEF WorkflowRun, DeliveryType
<1>6. [c EXCEPT !.delivery.ready = Bundle(c)] \in WorkflowRun
  BY <1>3, <1>5 DEF WorkflowRun
<1> QED BY <1>6 DEF CompleteCommit, c

LEMMA StopTypes ==
    ASSUME NEW r \in WorkflowRun, ~IsTerminal(r),
           NEW outcome \in Outcomes, NEW cause \in Causes
    PROVE  /\ Block(r, outcome, cause) \in WorkflowRun
           /\ Fail(r, outcome, cause) \in WorkflowRun
<1>1. {"Blocked", "Failed"} \subseteq Stages
  BY DEF Stages, TerminalStages
<1>2. r.stage \in ActiveStages
  BY DEF IsTerminal, WorkflowRun, Stages
<1> QED BY <1>1, <1>2 DEF Block, Fail, WorkflowRun

LEMMA CancelType ==
    ASSUME NEW r \in WorkflowRun
    PROVE  Cancel(r) \in WorkflowRun
BY DEF Cancel, WorkflowRun, Stages, TerminalStages, Outcomes, Causes

LEMMA ResumeType ==
    ASSUME NEW r \in WorkflowRun, r.paused # None
    PROVE  Resume(r) \in WorkflowRun
BY DEF Resume, WorkflowRun, Stages

LEMMA UnitsTypes ==
    ASSUME NEW r \in WorkflowRun
    PROVE  /\ CanInitializeUnits(r) => InitializeUnits(r) \in WorkflowRun
           /\ CanCreditProgress(r) => CreditProgress(r) \in WorkflowRun
<1>1. ASSUME CanInitializeUnits(r)
      PROVE  InitializeUnits(r) \in WorkflowRun
  <2>1. [plan |-> r.plan, credits |-> 0] \in WorkUnitLedger
    BY <1>1 DEF CanInitializeUnits, WorkflowRun, WorkUnitLedger, MaxWorkUnitProgressCredits
  <2> QED BY <2>1 DEF InitializeUnits, WorkflowRun
<1>2. ASSUME CanCreditProgress(r)
      PROVE  CreditProgress(r) \in WorkflowRun
  <2>1. [r.units EXCEPT !.credits = @ + 1] \in WorkUnitLedger
    BY <1>2 DEF CanCreditProgress, WorkflowRun, WorkUnitLedger, MaxWorkUnitProgressCredits
  <2> QED BY <2>1 DEF CreditProgress, WorkflowRun
<1> QED BY <1>1, <1>2

-----------------------------------------------------------------------------
\* The type invariant: the run keeps the shape of the WorkflowRun struct and
\* the earned credits their cap, whatever events reduce() is given.
THEOREM TypeCorrect == Spec => []TypeOK
<1> USE DEF TypeOK
<1>1. Init => TypeOK
  BY StartType DEF Init
<1>2. TypeOK /\ [Next]_vars => TypeOK'
  <2> SUFFICES ASSUME TypeOK, [Next]_vars PROVE TypeOK'
    OBVIOUS
  <2>1. CASE UsageRecorded
    BY <2>1, RecordUsageType, UsageType DEF UsageRecorded, CanRecordUsage
  <2>2. CASE PlanSubmitted
    BY <2>2, SubmitPlanType DEF PlanSubmitted
  <2>3. CASE PlanReviewSubmitted
    BY <2>3, ReviewPlanType DEF PlanReviewSubmitted
  <2>4. CASE ReplanRequested
    BY <2>4, RequestReplanType DEF ReplanRequested
  <2>5. CASE UserInterventionQueued
    BY <2>5, RouteInterventionType DEF UserInterventionQueued
  <2>6. CASE ImplementationSubmitted
    BY <2>6, SubmitImplementationType DEF ImplementationSubmitted
  <2>7. CASE ChecksPassed
    BY <2>7, ChecksType DEF ChecksPassed
  <2>8. CASE ChecksFailed
    BY <2>8, ChecksType DEF ChecksFailed
  <2>9. CASE CodeReviewSubmitted
    BY <2>9, ReviewCodeType DEF CodeReviewSubmitted
  <2>10. CASE MutationObserved
    BY <2>10, ObserveMutationType DEF MutationObserved
  <2>11. CASE CommitCompleted
    BY <2>11, CompleteCommitType DEF CommitCompleted, CanCompleteCommit
  <2>12. CASE Blocked
    BY <2>12, StopTypes, StopsType DEF Blocked, CanBlock
  <2>13. CASE Failed
    BY <2>13, StopTypes, StopsType DEF Failed, CanFail
  <2>14. CASE Cancelled
    BY <2>14, CancelType DEF Cancelled
  <2>15. CASE Resumed
    BY <2>15, ResumeType DEF Resumed, CanResume
  <2>16. CASE WorkUnitsInitialized
    BY <2>16, UnitsTypes DEF WorkUnitsInitialized
  <2>17. CASE ProgressCredited
    BY <2>17, UnitsTypes DEF ProgressCredited
  <2>18. CASE UNCHANGED vars
    BY <2>18 DEF vars
  <2> QED BY <2>1, <2>2, <2>3, <2>4, <2>5, <2>6, <2>7, <2>8, <2>9, <2>10, <2>11,
             <2>12, <2>13, <2>14, <2>15, <2>16, <2>17, <2>18 DEF Next
<1> QED BY <1>1, <1>2, PTL DEF Spec

-----------------------------------------------------------------------------
(* What the reducer's larger functions do to the fields the invariant reads. *)

LEMMA RecordUsageEffect ==
    ASSUME NEW r \in WorkflowRun, NEW usage \in WorkflowUsage
    PROVE  LET next == RecordUsage(r, usage)
           IN  /\ next.paused = r.paused
               /\ next.plan = r.plan /\ next.plan_review = r.plan_review
               /\ next.units = r.units /\ next.delivery = r.delivery
               /\ \/ next.stage = "Failed"
                  \/ next.stage = r.stage /\ next.outcome = r.outcome
<1> DEFINE charged == Charged(r, usage)
<1>1. /\ charged.paused = r.paused
      /\ charged.plan = r.plan /\ charged.plan_review = r.plan_review
      /\ charged.units = r.units /\ charged.delivery = r.delivery
      /\ charged.stage = r.stage /\ charged.outcome = r.outcome
      /\ DOMAIN charged = DOMAIN r
  BY DEF Charged, WorkflowRun
<1>2. \A outcome : /\ Exhaust(charged, outcome).paused = charged.paused
                   /\ Exhaust(charged, outcome).plan = charged.plan
                   /\ Exhaust(charged, outcome).plan_review = charged.plan_review
                   /\ Exhaust(charged, outcome).units = charged.units
                   /\ Exhaust(charged, outcome).delivery = charged.delivery
                   /\ Exhaust(charged, outcome).stage = "Failed"
  BY <1>1 DEF Exhaust, WorkflowRun
<1> HIDE DEF charged
<1> QED BY <1>1, <1>2 DEF RecordUsage, charged

LEMMA NewDeliveryEffect ==
    ASSUME NEW impl, NEW content
    PROVE  LET d == [NoDelivery EXCEPT !.implementation = impl, !.fingerprint = content]
           IN  /\ d.implementation = impl
               /\ d.fingerprint = content
               /\ d.ready = None
BY DEF NoDelivery

LEMMA SubmitImplementationEffect ==
    ASSUME NEW r \in WorkflowRun, NEW impl \in Implementation
    PROVE  LET next == SubmitImplementation(r, impl)
           IN  /\ next.stage = "Checking" /\ next.paused = r.paused
               /\ next.plan = r.plan /\ next.plan_review = r.plan_review
               /\ next.units = r.units
               /\ next.delivery.implementation = impl
               /\ next.delivery.fingerprint = impl.content
               /\ next.delivery.ready = None
<1> DEFINE d == [NoDelivery EXCEPT !.implementation = impl, !.fingerprint = impl.content]
<1>1. d.implementation = impl /\ d.fingerprint = impl.content /\ d.ready = None
  BY NewDeliveryEffect
<1> HIDE DEF d
<1>2. SubmitImplementation(r, impl) = [r EXCEPT !.delivery = d, !.stage = "Checking"]
  BY DEF SubmitImplementation, d
<1> QED BY <1>1, <1>2 DEF WorkflowRun

LEMMA ObserveMutationEffect ==
    ASSUME NEW r \in WorkflowRun, NEW content \in Contents
    PROVE  LET next == ObserveMutation(r, content)
           IN  /\ next.stage = IF r.stage \in {"Checking", "CodeReview", "Committing"}
                               THEN "Checking" ELSE r.stage
               /\ next.paused = r.paused
               /\ next.plan = r.plan /\ next.plan_review = r.plan_review
               /\ next.units = r.units
               /\ next.delivery.implementation = r.delivery.implementation
               /\ next.delivery.fingerprint = content
               /\ next.delivery.ready = None
<1> DEFINE d == [NoDelivery EXCEPT !.implementation = r.delivery.implementation,
                                   !.fingerprint = content]
           stage == IF r.stage \in {"Checking", "CodeReview", "Committing"}
                    THEN "Checking" ELSE r.stage
<1>1. /\ d.implementation = r.delivery.implementation
      /\ d.fingerprint = content /\ d.ready = None
  BY NewDeliveryEffect
<1>2. ObserveMutation(r, content) = [r EXCEPT !.delivery = d, !.stage = stage]
  BY DEF ObserveMutation
<1> HIDE DEF d, stage
<1>3. LET next == ObserveMutation(r, content)
      IN  /\ next.stage = stage /\ next.paused = r.paused
          /\ next.plan = r.plan /\ next.plan_review = r.plan_review
          /\ next.units = r.units /\ next.delivery = d
  BY <1>2 DEF WorkflowRun
<1> QED BY <1>1, <1>3 DEF stage

LEMMA EnterRepairEffect ==
    ASSUME NEW r \in WorkflowRun
    PROVE  LET next == EnterRepair(r)
           IN  /\ next.stage \in {"Repairing", "Failed"} /\ next.paused = r.paused
               /\ next.plan = r.plan /\ next.plan_review = r.plan_review
               /\ next.units = r.units /\ next.delivery = r.delivery
BY DEF EnterRepair, Exhaust, WorkflowRun

LEMMA FailChecksEffect ==
    ASSUME NEW r \in WorkflowRun, NEW selected \in SUBSET Checks,
           NEW evidence \in EvidenceLedger
    PROVE  LET next == FailChecks(r, selected, evidence)
           IN  /\ next.stage \in {"Repairing", "Failed"} /\ next.paused = r.paused
               /\ next.plan = r.plan /\ next.plan_review = r.plan_review
               /\ next.units = r.units
               /\ next.delivery.ready = r.delivery.ready
<1> DEFINE c == WithChecks(r, selected, evidence)
<1>1. /\ c.paused = r.paused
      /\ c.plan = r.plan /\ c.plan_review = r.plan_review
      /\ c.units = r.units /\ c.delivery.ready = r.delivery.ready
  BY DEF WithChecks, WorkflowRun, DeliveryType
<1>2. c \in WorkflowRun
  BY ChecksType
<1> HIDE DEF c
<1> QED BY <1>1, <1>2, EnterRepairEffect DEF FailChecks, c

LEMMA CompleteCommitEffect ==
    ASSUME NEW r \in WorkflowRun, NEW oid \in Commits, CanBundle(Committed(r, oid))
    PROVE  LET next == CompleteCommit(r, oid)
           IN  /\ next.stage = "Ready" /\ next.outcome = "Ready"
               /\ next.paused = r.paused
               /\ next.plan = r.plan /\ next.plan_review = r.plan_review
               /\ next.units = r.units
               /\ next.delivery.implementation = r.delivery.implementation
               /\ next.delivery.fingerprint = r.delivery.fingerprint
               /\ next.delivery.code_review = r.delivery.code_review
               /\ CanBundle(next) /\ next.delivery.ready = Bundle(next)
<1> DEFINE c == Committed(r, oid)
<1>1. /\ c.stage = "Ready" /\ c.outcome = "Ready" /\ c.paused = r.paused
      /\ c.plan = r.plan /\ c.plan_review = r.plan_review /\ c.units = r.units
      /\ c.delivery.implementation = r.delivery.implementation
      /\ c.delivery.fingerprint = r.delivery.fingerprint
      /\ c.delivery.code_review = r.delivery.code_review
  BY DEF Committed, WorkflowRun, DeliveryType
<1>2. CanBundle(c)
  OBVIOUS
<1>3. c \in WorkflowRun
  <2>1. [r.delivery EXCEPT !.commit = oid] \in DeliveryType
    BY DEF WorkflowRun, DeliveryType
  <2>2. c = [r EXCEPT !.delivery = [r.delivery EXCEPT !.commit = oid],
                      !.stage = "Ready", !.outcome = "Ready"]
    BY DEF Committed, WorkflowRun, DeliveryType
  <2>3. "Ready" \in Stages /\ "Ready" \in Outcomes
    BY DEF Stages, TerminalStages, Outcomes, SuccessOutcomes
  <2> HIDE DEF c
  <2> QED
    BY <2>1, <2>2, <2>3 DEF WorkflowRun
<1> HIDE DEF c
<1> DEFINE next == [c EXCEPT !.delivery.ready = Bundle(c)]
<1>4. /\ next.stage = c.stage /\ next.outcome = c.outcome /\ next.paused = c.paused
      /\ next.plan = c.plan /\ next.plan_review = c.plan_review /\ next.units = c.units
      /\ next.delivery = [c.delivery EXCEPT !.ready = Bundle(c)]
  BY <1>3 DEF WorkflowRun
<1>5. /\ next.delivery.implementation = c.delivery.implementation
      /\ next.delivery.fingerprint = c.delivery.fingerprint
      /\ next.delivery.code_review = c.delivery.code_review
      /\ next.delivery.commit = c.delivery.commit
      /\ next.delivery.selected = c.delivery.selected
      /\ next.delivery.checks = c.delivery.checks
      /\ next.delivery.ready = Bundle(c)
  BY <1>3, <1>4 DEF WorkflowRun, DeliveryType
<1> HIDE DEF next
<1>6. Bundle(next) = Bundle(c) /\ CanBundle(next)
  BY <1>2, <1>4, <1>5 DEF Bundle, CanBundle, AllPassed
<1>7. CompleteCommit(r, oid) = next
  BY DEF CompleteCommit, c, next
<1> QED BY <1>1, <1>4, <1>5, <1>6, <1>7

\* Each event keeps the evidence invariant.  The three stops and the resume are
\* one step each: they move the stage and leave everything the invariant reads.
LEMMA EvidenceStep == EvidenceInv /\ TypeOK' /\ [Next]_vars => EvidenceInv'
<1> SUFFICES ASSUME EvidenceInv, TypeOK', [Next]_vars PROVE EvidenceInv'
  OBVIOUS
<1> USE NoneIsAbsent
    DEF EvidenceInv, TypeOK, WorkflowRun, CheckpointIsAlwaysValid, ValidCheckpoint,
        PausedMatchesStage, UnitsMatchPlan, EvidenceMatchesRun,
        WorkStagesHaveApprovedPlan, StagesHaveTheirEvidence, ReadyIsReviewedAndChecked,
        StageInForce, WorkStages, PlanApproved, Implemented, ReviewPassed,
        Stages, ActiveStages, TerminalStages
<1>0. run.delivery.ready # None => run.stage = "Ready"
  BY DEF CanBundle
<1>1. CASE UsageRecorded
  BY <1>0, <1>1, UsageType, RecordUsageEffect DEF UsageRecorded, CanRecordUsage, IsTerminal
<1>2. CASE PlanSubmitted
  BY <1>2 DEF PlanSubmitted, CanSubmitPlan, SubmitPlan, NoUnits, NoDelivery
<1>3. CASE PlanReviewSubmitted
  BY <1>0, <1>3 DEF PlanReviewSubmitted, CanReviewPlan, ReviewPlan, PlanReviewPasses,
                    PlanReviewArtifact, Exhaust
<1>4. CASE ReplanRequested
  BY <1>0, <1>4 DEF ReplanRequested, CanRequestReplan, RequestReplan, Exhaust,
                    NoUnits, NoDelivery
<1>5. CASE UserInterventionQueued
  BY <1>5 DEF UserInterventionQueued, CanRouteIntervention, RouteIntervention,
              NoUnits, NoDelivery
<1>6. CASE ImplementationSubmitted
  BY <1>6, SubmitImplementationEffect
     DEF ImplementationSubmitted, CanSubmitImplementation, Implementation
<1>7. CASE ChecksPassed
  BY <1>0, <1>7 DEF ChecksPassed, CanPassChecks, PassChecks, WithChecks, IsCurrent,
                    ClaimsNoChange, AllPassed, DeliveryType
<1>8. CASE ChecksFailed
  BY <1>0, <1>8, FailChecksEffect DEF ChecksFailed, CanFailChecks
<1>9. CASE CodeReviewSubmitted
  BY <1>0, <1>9 DEF CodeReviewSubmitted, CanReviewCode, ReviewCode, IsCurrent, EnterRepair,
                    Exhaust, AllPassed, DeliveryType, CodeReviewArtifact
<1>10. CASE MutationObserved
  BY <1>10, ObserveMutationEffect DEF MutationObserved, CanObserveMutation
<1>11. CASE CommitCompleted
  <2>1. PICK content \in Contents, oid \in Commits :
          CanCompleteCommit(run, content, oid) /\ run' = CompleteCommit(run, oid)
    BY <1>11 DEF CommitCompleted
  <2>2. /\ run'.stage = "Ready" /\ run'.outcome = "Ready" /\ run'.paused = run.paused
        /\ run'.plan = run.plan /\ run'.plan_review = run.plan_review
        /\ run'.units = run.units
        /\ run'.delivery.implementation = run.delivery.implementation
        /\ run'.delivery.fingerprint = run.delivery.fingerprint
        /\ run'.delivery.code_review = run.delivery.code_review
        /\ CanBundle(run') /\ run'.delivery.ready = Bundle(run')
    BY <2>1, CompleteCommitEffect DEF CanCompleteCommit
  <2>3. Bundle(run') # None
    <3>1. run' \in WorkflowRun /\ CanBundle(run')
      BY <2>2
    <3>2. Bundle(run') \in ReadyEvidence
      BY <3>1 DEF Bundle, CanBundle, ReadyEvidence, DeliveryType
    <3> QED BY <3>2
  <2>4. run.stage = "Committing" /\ checked' = checked
    BY <1>11, <2>1 DEF CommitCompleted, CanCompleteCommit
  <2> QED BY <2>2, <2>3, <2>4
<1>12. CASE Blocked
  BY <1>0, <1>12 DEF Blocked, CanBlock, Block, IsTerminal
<1>13. CASE Failed
  BY <1>0, <1>13 DEF Failed, CanFail, Fail, IsTerminal
<1>14. CASE Cancelled
  BY <1>0, <1>14 DEF Cancelled, CanCancel, Cancel, IsTerminal
<1>15. CASE Resumed
  BY <1>0, <1>15 DEF Resumed, CanResume, Resume
<1>16. CASE WorkUnitsInitialized
  BY <1>0, <1>16 DEF WorkUnitsInitialized, CanInitializeUnits, InitializeUnits
<1>17. CASE ProgressCredited
  BY <1>0, <1>17 DEF ProgressCredited, CanCreditProgress, CreditProgress, WorkUnitLedger
<1>18. CASE UNCHANGED vars
  BY <1>18 DEF vars
<1> QED BY <1>1, <1>2, <1>3, <1>4, <1>5, <1>6, <1>7, <1>8, <1>9, <1>10, <1>11,
           <1>12, <1>13, <1>14, <1>15, <1>16, <1>17, <1>18 DEF Next

\* Every stage finds the evidence it relies on: checks and reviews are of the plan
\* and the content in force, at the stage itself or at the stage a block paused.
THEOREM EvidenceCorrect == Spec => []EvidenceInv
<1>1. Init => EvidenceInv
  BY StartType, NoneIsAbsent
     DEF Init, EvidenceInv, TypeOK, CheckpointIsAlwaysValid, ValidCheckpoint,
         PausedMatchesStage, UnitsMatchPlan, EvidenceMatchesRun,
         WorkStagesHaveApprovedPlan, StagesHaveTheirEvidence, ReadyIsReviewedAndChecked,
         StageInForce, WorkStages, Start, NoUnits, NoDelivery
<1>2. EvidenceInv /\ TypeOK' /\ [Next]_vars => EvidenceInv'
  BY EvidenceStep
<1> QED BY <1>1, <1>2, TypeCorrect, PTL DEF Spec

\* A run that ends Ready was planned, reviewed and checked as one piece.
THEOREM DeliveryCorrect == Spec => []ReadyIsReviewedAndChecked
<1>1. EvidenceInv => ReadyIsReviewedAndChecked
  BY DEF EvidenceInv
<1> QED BY <1>1, EvidenceCorrect, PTL

\* Every state of a run passes WorkflowCheckpoint::validate: what is saved can
\* be loaded, whenever the process stops.
THEOREM CheckpointCorrect == Spec => []CheckpointIsAlwaysValid
<1>1. EvidenceInv => CheckpointIsAlwaysValid
  BY DEF EvidenceInv
<1> QED BY <1>1, EvidenceCorrect, PTL

\* No work is done, or resumed, on a plan its critic has not passed.
THEOREM ApprovalCorrect == Spec => []WorkStagesHaveApprovedPlan
<1>1. EvidenceInv => WorkStagesHaveApprovedPlan
  BY DEF EvidenceInv
<1> QED BY <1>1, EvidenceCorrect, PTL

-----------------------------------------------------------------------------
(* Budgets *)

\* What an event other than UsageRecorded does to the counters: nothing, or one
\* more plan cycle or repair cycle where the limit still allows it.
SpendsACycle(before, after) ==
    /\ after.steps = before.steps
    /\ after.totals = before.totals
    /\ \/ after.plan_cycles = before.plan_cycles
       \/ before.plan_cycles < PlanCycles /\ after.plan_cycles = before.plan_cycles + 1
    /\ \/ after.repair_cycles = before.repair_cycles
       \/ /\ before.repair_cycles < RepairCycles
          /\ after.repair_cycles = before.repair_cycles + 1
    /\ after.stage \in {"Ready", "Blocked"} \cup ActiveStages =>
          before.stage \in {"Ready", "Blocked"} \cup ActiveStages

LEMMA StepSpends ==
    ASSUME TypeOK, TypeOK', [Next]_vars
    PROVE  UsageRecorded \/ SpendsACycle(run, run')
<1> USE LimitsAreNaturals DEF TypeOK, WorkflowRun, ActiveStages
<1>2. ASSUME PlanSubmitted PROVE SpendsACycle(run, run')
  BY <1>2 DEF PlanSubmitted, CanSubmitPlan, SubmitPlan, SpendsACycle
<1>3. ASSUME PlanReviewSubmitted PROVE SpendsACycle(run, run')
  BY <1>3 DEF PlanReviewSubmitted, CanReviewPlan, ReviewPlan, Exhaust, SpendsACycle
<1>4. ASSUME ReplanRequested PROVE SpendsACycle(run, run')
  BY <1>4 DEF ReplanRequested, CanRequestReplan, RequestReplan, Exhaust, SpendsACycle
<1>5. ASSUME UserInterventionQueued PROVE SpendsACycle(run, run')
  BY <1>5 DEF UserInterventionQueued, CanRouteIntervention, RouteIntervention, SpendsACycle
<1>6. ASSUME ImplementationSubmitted PROVE SpendsACycle(run, run')
  BY <1>6 DEF ImplementationSubmitted, CanSubmitImplementation, SubmitImplementation,
              SpendsACycle
<1>7. ASSUME ChecksPassed PROVE SpendsACycle(run, run')
  BY <1>7 DEF ChecksPassed, CanPassChecks, PassChecks, WithChecks, SpendsACycle
<1>8. ASSUME ChecksFailed PROVE SpendsACycle(run, run')
  BY <1>8 DEF ChecksFailed, CanFailChecks, FailChecks, WithChecks, EnterRepair, Exhaust,
              SpendsACycle
<1>9. ASSUME CodeReviewSubmitted PROVE SpendsACycle(run, run')
  BY <1>9 DEF CodeReviewSubmitted, CanReviewCode, ReviewCode, EnterRepair, Exhaust,
              SpendsACycle
<1>10. ASSUME MutationObserved PROVE SpendsACycle(run, run')
  BY <1>10 DEF MutationObserved, CanObserveMutation, ObserveMutation, SpendsACycle
<1>11. ASSUME CommitCompleted PROVE SpendsACycle(run, run')
  BY <1>11 DEF CommitCompleted, CanCompleteCommit, CompleteCommit, Committed, SpendsACycle
<1>12. ASSUME Blocked \/ Failed \/ Cancelled PROVE SpendsACycle(run, run')
  BY <1>12 DEF Blocked, CanBlock, Block, Failed, CanFail, Fail, Cancelled, CanCancel, Cancel,
               IsTerminal, TerminalStages, Stages, SpendsACycle
<1>13. ASSUME Resumed PROVE SpendsACycle(run, run')
  BY <1>13 DEF Resumed, CanResume, Resume, SpendsACycle
<1>14. ASSUME WorkUnitsInitialized \/ ProgressCredited PROVE SpendsACycle(run, run')
  BY <1>14 DEF WorkUnitsInitialized, CanInitializeUnits, InitializeUnits,
               ProgressCredited, CanCreditProgress, CreditProgress, SpendsACycle
<1>15. ASSUME UNCHANGED vars PROVE SpendsACycle(run, run')
  BY <1>15 DEF vars, SpendsACycle
<1> QED BY <1>2, <1>3, <1>4, <1>5, <1>6, <1>7, <1>8, <1>9, <1>10, <1>11, <1>12, <1>13,
           <1>14, <1>15 DEF Next

LEMMA RecordUsageSpends ==
    ASSUME NEW r \in WorkflowRun, NEW usage \in WorkflowUsage, ~IsTerminal(r)
    PROVE  LET next == RecordUsage(r, usage)
           IN  /\ next.plan_cycles = r.plan_cycles
               /\ next.repair_cycles = r.repair_cycles
               /\ \A s \in ActiveStages : next.steps[s] >= r.steps[s]
               /\ \A t \in Totals : next.totals[t] >= r.totals[t]
               /\ next.stage # "Failed" => \A t \in Totals : ~Over(next, t)
<1> DEFINE charged == Charged(r, usage)
<1>1. /\ charged.plan_cycles = r.plan_cycles
      /\ charged.repair_cycles = r.repair_cycles
      /\ charged.steps = [r.steps EXCEPT ![r.stage] = @ + usage.steps]
      /\ charged.totals = [t \in Totals |-> r.totals[t] + usage.totals[t]]
      /\ DOMAIN charged = DOMAIN r
  BY DEF Charged, WorkflowRun
<1>2. \A s \in ActiveStages : charged.steps[s] >= r.steps[s]
  BY <1>1 DEF WorkflowRun, WorkflowUsage
<1>3. \A t \in Totals : charged.totals[t] >= r.totals[t]
  BY <1>1 DEF WorkflowRun, WorkflowUsage
<1>4. Exhausted(charged) = None => \A t \in Totals : ~Over(charged, t)
  <2>1. None \notin {"StepLimit", "InvocationLimit", "TokenLimit"}
    BY NoneIsAbsent DEF Outcomes
  <2> QED BY <2>1 DEF Exhausted, Totals
<1>5. \A outcome : LET failed == Exhaust(charged, outcome)
                   IN  /\ failed.plan_cycles = charged.plan_cycles
                       /\ failed.repair_cycles = charged.repair_cycles
                       /\ failed.steps = charged.steps /\ failed.totals = charged.totals
                       /\ failed.stage = "Failed"
  BY <1>1 DEF Exhaust, WorkflowRun
<1> HIDE DEF charged
<1> QED BY <1>1, <1>2, <1>3, <1>4, <1>5 DEF RecordUsage, charged

LEMMA UsageRecordedSpends ==
    ASSUME TypeOK, UsageRecorded
    PROVE  /\ run'.plan_cycles = run.plan_cycles
           /\ run'.repair_cycles = run.repair_cycles
           /\ \A s \in ActiveStages : run'.steps[s] >= run.steps[s]
           /\ \A t \in Totals : run'.totals[t] >= run.totals[t]
           /\ run'.stage # "Failed" => \A t \in Totals : ~Over(run', t)
BY UsageType, RecordUsageSpends DEF TypeOK, UsageRecorded, CanRecordUsage

\* Nothing a workflow has spent is ever given back.
THEOREM BudgetsCorrect == Spec => BudgetsAreNeverRefunded
<1>1. TypeOK /\ TypeOK' /\ [Next]_vars =>
        [/\ run'.plan_cycles >= run.plan_cycles
         /\ run'.repair_cycles >= run.repair_cycles
         /\ \A s \in ActiveStages : run'.steps[s] >= run.steps[s]
         /\ \A t \in Totals : run'.totals[t] >= run.totals[t]]_vars
  <2> SUFFICES ASSUME TypeOK, TypeOK', [Next]_vars
               PROVE  /\ run'.plan_cycles >= run.plan_cycles
                      /\ run'.repair_cycles >= run.repair_cycles
                      /\ \A s \in ActiveStages : run'.steps[s] >= run.steps[s]
                      /\ \A t \in Totals : run'.totals[t] >= run.totals[t]
    OBVIOUS
  <2>1. CASE UsageRecorded
    BY <2>1, UsageRecordedSpends DEF TypeOK, WorkflowRun
  <2>2. CASE SpendsACycle(run, run')
    BY <2>2 DEF SpendsACycle, TypeOK, WorkflowRun
  <2> QED BY <2>1, <2>2, StepSpends
<1> QED BY <1>1, TypeCorrect, PTL DEF Spec, BudgetsAreNeverRefunded

\* A workflow that has not failed or been cancelled is inside its limits.
THEOREM LimitsCorrect == Spec => []RunsInsideItsLimits
<1>1. Init => RunsInsideItsLimits
  BY LimitsAreNaturals, TotalLimitType DEF Init, Start, RunsInsideItsLimits, Over
<1>2. RunsInsideItsLimits /\ TypeOK /\ TypeOK' /\ [Next]_vars => RunsInsideItsLimits'
  <2> SUFFICES ASSUME RunsInsideItsLimits, TypeOK, TypeOK', [Next]_vars
               PROVE  RunsInsideItsLimits'
    OBVIOUS
  <2>1. CASE UsageRecorded
    BY <2>1, UsageRecordedSpends DEF RunsInsideItsLimits, ActiveStages
  <2>2. CASE SpendsACycle(run, run')
    BY <2>2, LimitsAreNaturals DEF SpendsACycle, RunsInsideItsLimits, Over, TypeOK, WorkflowRun
  <2> QED BY <2>1, <2>2, StepSpends
<1> QED BY <1>1, <1>2, TypeCorrect, PTL DEF Spec

-----------------------------------------------------------------------------
(* Ends *)

\* What a step of an ended run may do: nothing, or resume what was blocked.
StaysOrResumes ==
    IsTerminal(run) =>
        \/ run' = run
        \/ /\ run.stage = "Blocked"
           /\ run'.stage = run.paused
           /\ run'.delivery = run.delivery
           /\ run'.plan = run.plan

\* A resume takes back the block, and touches neither the plan nor its evidence.
LEMMA ResumeEffect ==
    ASSUME TypeOK, Resumed
    PROVE  StaysOrResumes
BY DEF TypeOK, WorkflowRun, Resumed, CanResume, Resume, StaysOrResumes

\* Every other event asks for a stage that still works.
LEMMA OthersNeedAnActiveRun ==
    ASSUME [Next]_vars, IsTerminal(run)
    PROVE  Resumed \/ run' = run
<1> USE DEF IsTerminal, TerminalStages
<1>1. ~UsageRecorded /\ ~PlanSubmitted /\ ~PlanReviewSubmitted /\ ~ReplanRequested
  BY DEF UsageRecorded, CanRecordUsage, PlanSubmitted, CanSubmitPlan, PlanReviewSubmitted,
         CanReviewPlan, ReplanRequested, CanRequestReplan
<1>2. ~UserInterventionQueued /\ ~ImplementationSubmitted /\ ~ChecksPassed /\ ~ChecksFailed
  BY DEF UserInterventionQueued, CanRouteIntervention, ImplementationSubmitted,
         CanSubmitImplementation, ChecksPassed, CanPassChecks, ChecksFailed, CanFailChecks
<1>3. ~CodeReviewSubmitted /\ ~MutationObserved /\ ~CommitCompleted
  BY DEF CodeReviewSubmitted, CanReviewCode, MutationObserved, CanObserveMutation,
         CommitCompleted, CanCompleteCommit
<1>4. ~Blocked /\ ~Failed /\ ~Cancelled
  BY DEF Blocked, CanBlock, Failed, CanFail, Cancelled, CanCancel
<1>5. ~WorkUnitsInitialized /\ ~ProgressCredited
  BY DEF WorkUnitsInitialized, CanInitializeUnits, ProgressCredited, CanCreditProgress
<1> QED BY <1>1, <1>2, <1>3, <1>4, <1>5 DEF Next, vars

\* The only way out of an ended run is to resume a blocked one where it stopped.
THEOREM EndsCorrect == Spec => TerminalOnlyResumes
<1>1. TypeOK /\ [Next]_vars => [StaysOrResumes]_vars
  BY ResumeEffect, OthersNeedAnActiveRun DEF StaysOrResumes
<1> QED BY <1>1, TypeCorrect, PTL DEF Spec, TerminalOnlyResumes, StaysOrResumes
==============================================================================
