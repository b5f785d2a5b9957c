---------------------------- MODULE DeliveryProofs ----------------------------
(* What holds of a delivery whatever the model submits, the user sends, other  *)
(* programs write and wherever the daemon stops, for all values of the         *)
(* constants.                                                                  *)
EXTENDS Delivery, TLAPS

-----------------------------------------------------------------------------
(* Runs, as the driver makes them *)

\* The stage a run works at, or was blocked at.
WorkStage(r) == IF r.stage = "Blocked" THEN r.paused ELSE r.stage

\* What each stage has of a run: a plan once there is one, a fingerprint from the
\* checks on, and in Committing a review of that content.
Sound(r) ==
    /\ r \in WorkflowRun
    /\ r.units.credits = 0
    /\ r.stage # "Ready" => r.outcome \notin SuccessOutcomes
    /\ IsTerminal(r) => r.outcome # None
    /\ r.stage = "Blocked" => r.paused # None
    /\ WorkStage(r) \in ActiveStages \ {"Planning"} => r.plan # None
    /\ WorkStage(r) \in {"Checking", "CodeReview", "Committing"} =>
          r.delivery.fingerprint # None
    /\ WorkStage(r) = "Committing" =>
          /\ r.delivery.code_review # None
          /\ r.delivery.code_review.content = r.delivery.fingerprint

-----------------------------------------------------------------------------
(* The inductive invariant *)

\* Where the run is what was last stored of it.
SinceLoop == {"loop", "checking", "checked", "sealed", "add", "staged", "landed"}

InStage == {"model", "acted", "boundary", "submission"}

InCommit == {"sealed", "add", "staged", "landed"}

Reporting == {"finish", "return"}

HasRun == SinceLoop \cup InStage \cup Reporting

HeadIsOurs == repo.log[Len(repo.log)].by = "pb"

\* A HEAD of the history that pb knows: the workflow began there, or pb made it.
Anchored(control, from) ==
    /\ control.head \in DOMAIN repo.log
    /\ control.head <= from \/ repo.log[control.head].by = "pb"

\* A driver runs exactly while its session does, with a run that fits its place.
RunFitsPosition ==
    /\ At("off") <=> session.status # "Running"
    /\ driver.pc \in {"off", "start"} => driver.run = None
    /\ driver.run # None => Sound(driver.run)
    /\ driver.pc \in HasRun =>
          /\ driver.run # None /\ driver.base # None /\ driver.control # None
          /\ Anchored(driver.control, driver.from)
    /\ driver.pc \in (SinceLoop \cup InStage) \ {"loop"} => ~IsTerminal(driver.run)
    /\ driver.pc \in Reporting => IsTerminal(driver.run)
    /\ driver.pc \in {"model", "acted"} => Stage \in ModelStages
    /\ driver.pc \in {"boundary", "submission"} => driver.sub \in Submission
    /\ driver.pc \in {"checking", "checked"} => Stage = "Checking"
    /\ driver.pc \in InCommit =>
          Stage = "Committing" /\ ~session.window /\ session.pending = 0

StoredIsSound ==
    session.saved # None =>
        /\ Sound(session.saved.run)
        /\ session.saved.run.stage \in ActiveStages \cup {"Blocked"}
        /\ Anchored(session.saved.control, session.saved.from)

IsStored ==
    driver.pc \in SinceLoop =>
        session.saved =
            IF IsTerminal(driver.run) /\ Stage # "Blocked" THEN None
            ELSE [run |-> driver.run, base |-> driver.base, control |-> driver.control,
                  from |-> driver.from]

\* Inside the commit step, what will be committed is what was reviewed.
CommitIsReviewed ==
    ~driver.raced =>
        /\ At("add") => /\ repo.content = driver.run.delivery.fingerprint
                        /\ driver.control.head = Len(repo.log)
        /\ At("staged") => repo.index = driver.run.delivery.fingerprint
        /\ At("landed") => /\ HeadContent = driver.run.delivery.fingerprint
                           /\ HeadIsOurs

ReadyNamesACommit ==
    driver.run # None /\ driver.run.outcome = "Ready" =>
        driver.run.delivery.commit \in DOMAIN repo.log

\* A commit of pb at HEAD is known to the driver, or it has just made it.
HeadIsKnown ==
    HeadIsOurs =>
        /\ driver.pc \in (SinceLoop \cup InStage) \ {"landed"} /\ ~IsTerminal(driver.run) =>
              driver.control.head = Len(repo.log)
        /\ At("landed") => repo.log[Len(repo.log)].reviewed =
                              driver.run.delivery.code_review.content

\* The queue, and the step that hearing it adds to a stage.
MessagesAreCounted ==
    /\ session.pending <= env["messages"] /\ env["messages"] <= MaxMessages
    /\ driver.left + session.pending <= StageSteps + env["messages"]

DeliveryInv ==
    /\ TypeOK /\ RunFitsPosition /\ StoredIsSound /\ IsStored /\ CommitIsReviewed
    /\ ReadyNamesACommit /\ HeadIsKnown /\ MessagesAreCounted
    /\ CommitsHoldReviewedContent /\ ReadyNamesItsCommit /\ CommitIsRemembered
    /\ StepsAreChargedFirst /\ SuccessHasHeardEveryMessage

-----------------------------------------------------------------------------
(* The functions of the reducer keep a run sound *)

\* The run s that the driver makes of r goes on, or stops short of success.
GoesOn(r, s) == Sound(s) /\ s.stage # "Ready" /\ s.steps = r.steps

LEMMA NoneIsNothing ==
    /\ None \notin Plans /\ None \notin Contents /\ None \notin ActiveStages
    /\ None \notin Outcomes /\ None \notin CodeReviewArtifact
    /\ None \notin {"Ready", "NoChange", "PlanCyclesExhausted", "RepairCyclesExhausted"}
    /\ None \notin {"Checking", "CodeReview", "Committing", "Planning"}
BY NoneIsAbsent DEF Outcomes, SuccessOutcomes, ActiveStages

LEMMA EmptyTypes ==
    /\ NoDelivery \in DeliveryType
    /\ NoUnits \in WorkUnitLedger /\ NoUnits.credits = 0
BY DEF NoDelivery, DeliveryType, NoEvidence, EvidenceLedger, CheckResults,
       NoUnits, WorkUnitLedger, MaxWorkUnitProgressCredits

LEMMA StartIsSound ==
    ASSUME NEW content \in Contents
    PROVE  /\ Sound(Start(content)) /\ Start(content).stage = "Planning"
           /\ Start(content).steps = [s \in ActiveStages |-> 0]
<1>1. Start(content) \in WorkflowRun
  BY EmptyTypes DEF Start, WorkflowRun, Stages, ActiveStages, TerminalStages
<1> QED
  BY <1>1, EmptyTypes, NoneIsNothing
  DEF Start, Sound, WorkStage, IsTerminal, TerminalStages, SuccessOutcomes, Outcomes

\* A run that its budget ends.
LEMMA ExhaustIsSound ==
    ASSUME NEW r \in WorkflowRun, r.units.credits = 0,
           NEW outcome \in Outcomes \ SuccessOutcomes
    PROVE  GoesOn(r, Exhaust(r, outcome)) /\ Exhaust(r, outcome).stage = "Failed"
<1> DEFINE s == Exhaust(r, outcome)
<1>1. s \in WorkflowRun
  BY DEF Exhaust, WorkflowRun, Stages, TerminalStages
<1>2. s.stage = "Failed" /\ s.outcome = outcome /\ s.units = r.units /\ s.steps = r.steps
  BY DEF Exhaust, WorkflowRun
<1> HIDE DEF s
<1>3. Sound(s)
  BY <1>1, <1>2, NoneIsNothing DEF Sound, WorkStage, IsTerminal, TerminalStages, ActiveStages
<1> QED BY <1>2, <1>3 DEF GoesOn, s

LEMMA SubmitPlanIsSound ==
    ASSUME NEW r, Sound(r), ~IsTerminal(r), NEW plan \in Plans
    PROVE  GoesOn(r, SubmitPlan(r, plan))
<1> DEFINE s == SubmitPlan(r, plan)
<1>1. s \in WorkflowRun
  BY EmptyTypes DEF SubmitPlan, Sound, WorkflowRun, Stages, ActiveStages
<1>2. /\ s.stage = "PlanReview" /\ s.outcome = r.outcome /\ s.units = NoUnits
      /\ s.plan = plan /\ s.steps = r.steps
  BY DEF SubmitPlan, Sound, WorkflowRun
<1> HIDE DEF s
<1>3. r.outcome \notin SuccessOutcomes
  BY DEF Sound, IsTerminal, TerminalStages
<1>4. Sound(s)
  BY <1>1, <1>2, <1>3, EmptyTypes, NoneIsNothing DEF Sound, WorkStage, IsTerminal, TerminalStages
<1> QED BY <1>2, <1>4 DEF GoesOn, s

LEMMA ReviewPlanIsSound ==
    ASSUME NEW r, Sound(r), ~IsTerminal(r), NEW review \in PlanReviewArtifact,
           CanReviewPlan(r, review)
    PROVE  GoesOn(r, ReviewPlan(r, review))
<1> DEFINE v == [r EXCEPT !.plan_review = review]
           a == [v EXCEPT !.stage = "Implementing"]
           b == [v EXCEPT !.plan_cycles = @ + 1, !.stage = "PlanRevision"]
<1>1. v \in WorkflowRun
  BY DEF Sound, WorkflowRun
<1>2. /\ v.outcome = r.outcome /\ v.units = r.units /\ v.plan = r.plan
      /\ v.steps = r.steps
  BY DEF Sound, WorkflowRun
<1>3. /\ r.outcome \notin SuccessOutcomes /\ r.plan # None /\ r.units.credits = 0
  BY DEF Sound, IsTerminal, TerminalStages, CanReviewPlan
<1>4. ReviewPlan(r, review) = IF PlanReviewPasses(review) THEN a
        ELSE IF r.plan_cycles >= PlanCycles THEN Exhaust(v, "PlanCyclesExhausted") ELSE b
  BY DEF ReviewPlan
<1> HIDE DEF v
<1>5. GoesOn(r, Exhaust(v, "PlanCyclesExhausted"))
  BY <1>1, <1>2, <1>3, ExhaustIsSound DEF Outcomes, SuccessOutcomes, GoesOn
<1>6. GoesOn(r, a)
  <2>1. a \in WorkflowRun
    BY <1>1 DEF WorkflowRun, Stages, ActiveStages
  <2>2. /\ a.stage = "Implementing" /\ a.outcome = v.outcome /\ a.units = v.units
        /\ a.plan = v.plan /\ a.steps = v.steps
    BY <1>1 DEF WorkflowRun
  <2> HIDE DEF a
  <2> QED
    BY <2>1, <2>2, <1>2, <1>3, NoneIsNothing
    DEF GoesOn, Sound, WorkStage, IsTerminal, TerminalStages
<1>7. GoesOn(r, b)
  <2>1. b \in WorkflowRun
    <3>1. v.plan_cycles + 1 \in Nat
      BY <1>1 DEF WorkflowRun
    <3> QED BY <1>1, <3>1 DEF WorkflowRun, Stages, ActiveStages
  <2>2. /\ b.stage = "PlanRevision" /\ b.outcome = v.outcome /\ b.units = v.units
        /\ b.plan = v.plan /\ b.steps = v.steps
    BY <1>1 DEF WorkflowRun
  <2> HIDE DEF b
  <2> QED
    BY <2>1, <2>2, <1>2, <1>3, NoneIsNothing
    DEF GoesOn, Sound, WorkStage, IsTerminal, TerminalStages
<1> QED BY <1>4, <1>5, <1>6, <1>7

LEMMA RequestReplanIsSound ==
    ASSUME NEW r, Sound(r), ~IsTerminal(r), NEW content \in Contents
    PROVE  GoesOn(r, RequestReplan(r, content))
<1> DEFINE s == [r EXCEPT !.plan_cycles = @ + 1, !.plan = None, !.plan_review = None,
                     !.units = NoUnits, !.delivery = NoDelivery,
                     !.planning = content, !.stage = "Planning"]
<1>1. r \in WorkflowRun /\ r.outcome \notin SuccessOutcomes /\ r.units.credits = 0
  BY DEF Sound, IsTerminal, TerminalStages
<1>2. s \in WorkflowRun
  <2>1. r.plan_cycles + 1 \in Nat /\ "Planning" \in Stages
    BY <1>1 DEF WorkflowRun, Stages, ActiveStages
  <2> QED BY <1>1, <2>1, EmptyTypes DEF WorkflowRun
<1>3. s.stage = "Planning" /\ s.outcome = r.outcome /\ s.units = NoUnits /\ s.steps = r.steps
  BY <1>1 DEF WorkflowRun
<1>4. GoesOn(r, Exhaust(r, "PlanCyclesExhausted"))
  BY <1>1, ExhaustIsSound DEF Outcomes, SuccessOutcomes
<1>5. RequestReplan(r, content) = IF r.plan_cycles >= PlanCycles
                                 THEN Exhaust(r, "PlanCyclesExhausted") ELSE s
  BY DEF RequestReplan
<1> HIDE DEF s
<1>6. GoesOn(r, s)
  BY <1>1, <1>2, <1>3, EmptyTypes, NoneIsNothing
  DEF GoesOn, Sound, WorkStage, IsTerminal, TerminalStages
<1> QED BY <1>4, <1>5, <1>6

LEMMA RouteInterventionIsSound ==
    ASSUME NEW r, Sound(r), ~IsTerminal(r), NEW content \in Contents
    PROVE  GoesOn(r, RouteIntervention(r, content)) /\ ~IsTerminal(RouteIntervention(r, content))
<1> DEFINE v == [r EXCEPT !.planning = content, !.plan_review = None,
                          !.units = NoUnits, !.delivery = NoDelivery]
           a == [v EXCEPT !.stage = "PlanRevision"]
           b == [v EXCEPT !.plan = None, !.stage = "Planning"]
<1>1. /\ r \in WorkflowRun /\ r.outcome \notin SuccessOutcomes
      /\ r.stage = "PlanReview" => r.plan # None
  BY DEF Sound, WorkStage, ActiveStages, IsTerminal, TerminalStages
<1>2. v \in WorkflowRun
  BY <1>1, EmptyTypes DEF WorkflowRun
<1>3. /\ v.outcome = r.outcome /\ v.units = NoUnits /\ v.plan = r.plan /\ v.steps = r.steps
  BY <1>1 DEF WorkflowRun
<1>4. RouteIntervention(r, content) = IF r.stage = "PlanReview" THEN a ELSE b
  BY DEF RouteIntervention
<1> HIDE DEF v
<1>5. /\ a \in WorkflowRun /\ a.stage = "PlanRevision" /\ a.outcome = v.outcome
      /\ a.units = v.units /\ a.plan = v.plan /\ a.steps = v.steps
  BY <1>2 DEF WorkflowRun, Stages, ActiveStages
<1>6. /\ b \in WorkflowRun /\ b.stage = "Planning" /\ b.outcome = v.outcome
      /\ b.units = v.units /\ b.steps = v.steps
  BY <1>2 DEF WorkflowRun, Stages, ActiveStages
<1> HIDE DEF a, b
<1>7. r.stage = "PlanReview" => GoesOn(r, a) /\ ~IsTerminal(a)
  BY <1>1, <1>3, <1>5, EmptyTypes, NoneIsNothing
  DEF GoesOn, Sound, WorkStage, IsTerminal, TerminalStages
<1>8. GoesOn(r, b) /\ ~IsTerminal(b)
  BY <1>1, <1>3, <1>6, EmptyTypes, NoneIsNothing
  DEF GoesOn, Sound, WorkStage, IsTerminal, TerminalStages
<1> QED BY <1>4, <1>7, <1>8

LEMMA SubmitImplementationIsSound ==
    ASSUME NEW r, Sound(r), ~IsTerminal(r), NEW impl \in Implementation, r.plan # None
    PROVE  GoesOn(r, SubmitImplementation(r, impl))
<1> DEFINE d == [NoDelivery EXCEPT !.implementation = impl, !.fingerprint = impl.content]
           s == [r EXCEPT !.delivery = d, !.stage = "Checking"]
<1>1. r \in WorkflowRun /\ r.outcome \notin SuccessOutcomes /\ r.units.credits = 0
  BY DEF Sound, IsTerminal, TerminalStages
<1>2. d \in DeliveryType /\ d.fingerprint = impl.content /\ impl.content \in Contents
  BY EmptyTypes DEF DeliveryType, Implementation
<1>3. SubmitImplementation(r, impl) = s
  BY DEF SubmitImplementation
<1> HIDE DEF d
<1>4. /\ s \in WorkflowRun /\ s.stage = "Checking" /\ s.outcome = r.outcome
      /\ s.units = r.units /\ s.plan = r.plan /\ s.steps = r.steps /\ s.delivery = d
  BY <1>1, <1>2 DEF WorkflowRun, Stages, ActiveStages
<1> HIDE DEF s
<1>5. GoesOn(r, s)
  BY <1>1, <1>2, <1>4, NoneIsNothing
  DEF GoesOn, Sound, WorkStage, IsTerminal, TerminalStages
<1> QED BY <1>3, <1>5

LEMMA WithChecksKeeps ==
    ASSUME NEW r \in WorkflowRun, NEW selected \in SUBSET Checks, NEW evidence \in EvidenceLedger
    PROVE  LET c == WithChecks(r, selected, evidence)
           IN  /\ c \in WorkflowRun /\ c.stage = r.stage /\ c.outcome = r.outcome
               /\ c.units = r.units /\ c.plan = r.plan /\ c.steps = r.steps
               /\ c.delivery.fingerprint = r.delivery.fingerprint
<1> DEFINE d == [r.delivery EXCEPT !.selected = selected, !.checks = evidence]
           c == [r EXCEPT !.delivery = d]
<1>1. d \in DeliveryType /\ d.fingerprint = r.delivery.fingerprint
  BY DEF WorkflowRun, DeliveryType
<1>2. WithChecks(r, selected, evidence) = c
  BY DEF WithChecks, WorkflowRun, DeliveryType
<1> HIDE DEF d
<1>3. /\ c \in WorkflowRun /\ c.stage = r.stage /\ c.outcome = r.outcome
      /\ c.units = r.units /\ c.plan = r.plan /\ c.steps = r.steps /\ c.delivery = d
  BY <1>1 DEF WorkflowRun
<1> QED BY <1>1, <1>2, <1>3

LEMMA BatchTypes ==
    Passing \in EvidenceLedger /\ Failing \in EvidenceLedger
BY DEF Passing, Failing, EvidenceLedger, CheckResults

\* Passed checks lead to the review, or end a run that claims no change.
LEMMA PassChecksIsSound ==
    ASSUME NEW r, Sound(r), r.stage = "Checking"
    PROVE  LET s == PassChecks(r, Checks, Passing)
           IN  /\ Sound(s) /\ s.steps = r.steps
               /\ ClaimsNoChange(r) => s.stage = "Ready" /\ s.outcome = "NoChange"
               /\ ~ClaimsNoChange(r) => s.stage = "CodeReview"
<1> DEFINE c == WithChecks(r, Checks, Passing)
           d == [c.delivery EXCEPT !.ready = None]
           a == [c EXCEPT !.stage = "Ready", !.outcome = "NoChange", !.delivery.ready = None]
           b == [c EXCEPT !.stage = "CodeReview"]
<1>1. /\ r \in WorkflowRun /\ r.outcome \notin SuccessOutcomes /\ r.units.credits = 0
      /\ r.plan # None /\ r.delivery.fingerprint # None
  BY DEF Sound, WorkStage, ActiveStages
<1>2. /\ c \in WorkflowRun /\ c.stage = r.stage /\ c.outcome = r.outcome
      /\ c.units = r.units /\ c.plan = r.plan /\ c.steps = r.steps
      /\ c.delivery.fingerprint = r.delivery.fingerprint
  BY <1>1, BatchTypes, WithChecksKeeps
<1>3. PassChecks(r, Checks, Passing) = IF ClaimsNoChange(r) THEN a ELSE b
  BY DEF PassChecks
<1> HIDE DEF c
<1>4. Sound(a) /\ a.stage = "Ready" /\ a.outcome = "NoChange" /\ a.steps = r.steps
  <2>1. d \in DeliveryType
    BY <1>2 DEF WorkflowRun, DeliveryType
  <2>2. a = [c EXCEPT !.stage = "Ready", !.outcome = "NoChange", !.delivery = d]
    BY <1>2 DEF WorkflowRun, DeliveryType
  <2> HIDE DEF d
  <2>3. /\ a \in WorkflowRun /\ a.stage = "Ready" /\ a.outcome = "NoChange"
        /\ a.units = c.units /\ a.steps = c.steps
    BY <2>1, <2>2, <1>2
    DEF WorkflowRun, Stages, TerminalStages, Outcomes, SuccessOutcomes
  <2> HIDE DEF a
  <2> QED
    BY <2>3, <1>1, <1>2, NoneIsNothing
    DEF Sound, WorkStage, IsTerminal, TerminalStages, ActiveStages
<1>5. Sound(b) /\ b.stage = "CodeReview" /\ b.steps = r.steps
  <2>1. /\ b \in WorkflowRun /\ b.stage = "CodeReview" /\ b.outcome = c.outcome
        /\ b.units = c.units /\ b.plan = c.plan /\ b.steps = c.steps /\ b.delivery = c.delivery
    BY <1>2 DEF WorkflowRun, Stages, ActiveStages
  <2> HIDE DEF b
  <2> QED
    BY <2>1, <1>1, <1>2 DEF Sound, WorkStage, IsTerminal, TerminalStages
<1> QED BY <1>3, <1>4, <1>5

LEMMA EnterRepairIsSound ==
    ASSUME NEW r \in WorkflowRun, r.units.credits = 0, r.outcome \notin SuccessOutcomes,
           r.plan # None
    PROVE  GoesOn(r, EnterRepair(r))
<1> DEFINE s == [r EXCEPT !.repair_cycles = @ + 1, !.stage = "Repairing"]
<1>1. /\ s \in WorkflowRun /\ s.stage = "Repairing" /\ s.outcome = r.outcome
      /\ s.units = r.units /\ s.plan = r.plan /\ s.steps = r.steps
  <2>1. r.repair_cycles + 1 \in Nat
    BY DEF WorkflowRun
  <2> QED BY <2>1 DEF WorkflowRun, Stages, ActiveStages
<1>2. EnterRepair(r) = IF r.repair_cycles >= RepairCycles
                       THEN Exhaust(r, "RepairCyclesExhausted") ELSE s
  BY DEF EnterRepair
<1> HIDE DEF s
<1>3. GoesOn(r, s)
  BY <1>1, NoneIsNothing DEF GoesOn, Sound, WorkStage, IsTerminal, TerminalStages
<1> QED BY <1>2, <1>3, ExhaustIsSound DEF Outcomes, SuccessOutcomes

LEMMA FailChecksIsSound ==
    ASSUME NEW r, Sound(r), r.stage = "Checking"
    PROVE  GoesOn(r, FailChecks(r, Checks, Failing))
<1> DEFINE c == WithChecks(r, Checks, Failing)
<1>1. /\ r \in WorkflowRun /\ r.outcome \notin SuccessOutcomes /\ r.units.credits = 0
      /\ r.plan # None
  BY DEF Sound, WorkStage, ActiveStages
<1>2. /\ c \in WorkflowRun /\ c.outcome = r.outcome
      /\ c.units = r.units /\ c.plan = r.plan /\ c.steps = r.steps
  BY <1>1, BatchTypes, WithChecksKeeps
<1> HIDE DEF c
<1>3. GoesOn(c, EnterRepair(c))
  BY <1>1, <1>2, EnterRepairIsSound
<1> QED BY <1>2, <1>3 DEF FailChecks, GoesOn, c

\* A review that passes is of the content the checks ran on.
LEMMA ReviewCodeIsSound ==
    ASSUME NEW r, Sound(r), NEW review \in CodeReviewArtifact, CanReviewCode(r, review)
    PROVE  GoesOn(r, ReviewCode(r, review))
<1> DEFINE d == [r.delivery EXCEPT !.code_review = review]
           v == [r EXCEPT !.delivery.code_review = review]
           a == [v EXCEPT !.stage = "Committing"]
<1>1. /\ r \in WorkflowRun /\ r.outcome \notin SuccessOutcomes /\ r.units.credits = 0
      /\ r.plan # None /\ r.delivery.fingerprint # None
      /\ review.content = r.delivery.fingerprint
  BY DEF Sound, WorkStage, ActiveStages, CanReviewCode, IsCurrent
<1>2. /\ d \in DeliveryType /\ d.fingerprint = r.delivery.fingerprint
      /\ d.code_review = review
  BY <1>1 DEF WorkflowRun, DeliveryType
<1>3. v = [r EXCEPT !.delivery = d]
  BY <1>1 DEF WorkflowRun, DeliveryType
<1>4. ReviewCode(r, review) = IF review.verdict = "Pass" THEN a ELSE EnterRepair(v)
  BY DEF ReviewCode
<1> HIDE DEF d
<1>5. /\ v \in WorkflowRun /\ v.outcome = r.outcome /\ v.units = r.units
      /\ v.plan = r.plan /\ v.steps = r.steps /\ v.delivery = d
  BY <1>1, <1>2, <1>3 DEF WorkflowRun
<1> HIDE DEF v
<1>6. /\ a \in WorkflowRun /\ a.stage = "Committing" /\ a.outcome = v.outcome
      /\ a.units = v.units /\ a.plan = v.plan /\ a.steps = v.steps /\ a.delivery = v.delivery
  BY <1>5 DEF WorkflowRun, Stages, ActiveStages
<1> HIDE DEF a
<1>7. GoesOn(r, a)
  BY <1>1, <1>2, <1>5, <1>6, NoneIsNothing
  DEF GoesOn, Sound, WorkStage, IsTerminal, TerminalStages
<1>8. GoesOn(v, EnterRepair(v))
  BY <1>1, <1>5, EnterRepairIsSound
<1> QED BY <1>4, <1>5, <1>7, <1>8 DEF GoesOn

LEMMA CompleteCommitIsSound ==
    ASSUME NEW r, Sound(r), r.stage = "Committing", NEW oid \in Nat
    PROVE  LET s == CompleteCommit(r, oid)
           IN  /\ Sound(s) /\ s.stage = "Ready" /\ s.outcome = "Ready" /\ s.steps = r.steps
               /\ s.delivery.commit = oid
               /\ s.delivery.fingerprint = r.delivery.fingerprint
<1> DEFINE b == Bundle(Committed(r, oid))
           d == [r.delivery EXCEPT !.commit = oid]
           c == Committed(r, oid)
           e == [d EXCEPT !.ready = b]
           s == [c EXCEPT !.delivery.ready = b]
<1>1. /\ r \in WorkflowRun /\ r.units.credits = 0
      /\ r.plan \in Plans /\ r.delivery.code_review \in CodeReviewArtifact
      /\ r.delivery.selected \in SUBSET Checks /\ r.delivery \in DeliveryType
  BY DEF Sound, WorkStage, ActiveStages, WorkflowRun, DeliveryType
<1>2. oid \in Commits
  BY CommitsArePlaces
<1>3. /\ d \in DeliveryType /\ d.commit = oid /\ d.fingerprint = r.delivery.fingerprint
      /\ d.code_review = r.delivery.code_review /\ d.selected = r.delivery.selected
  BY <1>1, <1>2 DEF DeliveryType
<1>4. c = [r EXCEPT !.delivery = d, !.stage = "Ready", !.outcome = "Ready"]
  BY <1>1 DEF Committed, WorkflowRun
<1> HIDE DEF d
<1>5. /\ c \in WorkflowRun /\ c.delivery = d /\ c.stage = "Ready" /\ c.outcome = "Ready"
      /\ c.units = r.units /\ c.plan = r.plan /\ c.steps = r.steps
  BY <1>1, <1>3, <1>4
  DEF WorkflowRun, Stages, TerminalStages, Outcomes, SuccessOutcomes
<1>6. b \in ReadyEvidence
  BY <1>1, <1>2, <1>3, <1>5 DEF Bundle, ReadyEvidence
<1>7. s = CompleteCommit(r, oid)
  BY DEF CompleteCommit
<1> HIDE DEF b, c
<1>8. e \in DeliveryType /\ e.commit = oid /\ e.fingerprint = r.delivery.fingerprint
  BY <1>3, <1>6 DEF DeliveryType
<1>9. s = [c EXCEPT !.delivery = e]
  BY <1>5 DEF WorkflowRun
<1> HIDE DEF e
<1>10. /\ s \in WorkflowRun /\ s.delivery = e /\ s.stage = "Ready" /\ s.outcome = "Ready"
       /\ s.units = r.units /\ s.steps = r.steps
  BY <1>5, <1>8, <1>9 DEF WorkflowRun
<1> HIDE DEF s
<1>11. Sound(s)
  BY <1>1, <1>10, NoneIsNothing DEF Sound, WorkStage, IsTerminal, TerminalStages, ActiveStages
<1> QED BY <1>7, <1>8, <1>10, <1>11

\* A block remembers the stage, and with it what the stage had.
LEMMA BlockIsSound ==
    ASSUME NEW r, Sound(r), ~IsTerminal(r), NEW outcome \in BlockedOutcomes,
           NEW cause \in Causes
    PROVE  GoesOn(r, Block(r, outcome, cause)) /\ Block(r, outcome, cause).stage = "Blocked"
<1> DEFINE s == Block(r, outcome, cause)
<1>1. r \in WorkflowRun /\ r.stage \in ActiveStages
  BY DEF Sound, IsTerminal, WorkflowRun, Stages
<1>2. outcome \in Outcomes /\ outcome \notin SuccessOutcomes
  BY DEF BlockedOutcomes, SuccessOutcomes, Outcomes
<1>3. /\ s \in WorkflowRun /\ s.stage = "Blocked" /\ s.paused = r.stage
      /\ s.outcome = outcome /\ s.units = r.units /\ s.plan = r.plan /\ s.steps = r.steps
      /\ s.delivery = r.delivery
  BY <1>1, <1>2 DEF Block, WorkflowRun, Stages, TerminalStages
<1> HIDE DEF s
<1>4. Sound(s)
  BY <1>1, <1>2, <1>3, NoneIsNothing
  DEF Sound, WorkStage, IsTerminal, TerminalStages, ActiveStages
<1> QED BY <1>3, <1>4 DEF GoesOn, s

LEMMA FailIsSound ==
    ASSUME NEW r, Sound(r), NEW outcome \in Outcomes \ SuccessOutcomes, NEW cause \in Causes
    PROVE  GoesOn(r, Fail(r, outcome, cause)) /\ Fail(r, outcome, cause).stage = "Failed"
<1> DEFINE s == Fail(r, outcome, cause)
<1>1. r \in WorkflowRun /\ r.units.credits = 0
  BY DEF Sound
<1>2. /\ s \in WorkflowRun /\ s.stage = "Failed" /\ s.outcome = outcome
      /\ s.units = r.units /\ s.steps = r.steps
  BY <1>1 DEF Fail, WorkflowRun, Stages, TerminalStages
<1> HIDE DEF s
<1>3. Sound(s)
  BY <1>1, <1>2, NoneIsNothing DEF Sound, WorkStage, IsTerminal, TerminalStages, ActiveStages
<1> QED BY <1>2, <1>3 DEF GoesOn, s

LEMMA CancelIsSound ==
    ASSUME NEW r, Sound(r)
    PROVE  GoesOn(r, Cancel(r)) /\ Cancel(r).stage = "Cancelled"
<1> DEFINE s == Cancel(r)
<1>1. r \in WorkflowRun /\ r.units.credits = 0
  BY DEF Sound
<1>2. /\ s \in WorkflowRun /\ s.stage = "Cancelled" /\ s.outcome = "Cancelled"
      /\ s.units = r.units /\ s.steps = r.steps
  BY <1>1 DEF Cancel, WorkflowRun, Stages, TerminalStages, Outcomes, Causes
<1> HIDE DEF s
<1>3. Sound(s)
  BY <1>1, <1>2, NoneIsNothing
  DEF Sound, WorkStage, IsTerminal, TerminalStages, ActiveStages, SuccessOutcomes, Outcomes
<1> QED BY <1>2, <1>3 DEF GoesOn, s

\* A resumed run works at the stage where it was blocked.
LEMMA UnblockedIsSound ==
    ASSUME NEW r, Sound(r), r.stage \in ActiveStages \cup {"Blocked"}
    PROVE  GoesOn(r, Unblocked(r)) /\ ~IsTerminal(Unblocked(r))
<1> DEFINE s == Resume(r)
<1>1. /\ r \in WorkflowRun /\ r.units.credits = 0
      /\ r.stage = "Blocked" => r.paused \in ActiveStages
      /\ r.stage # "Blocked" => ~IsTerminal(r) /\ r.stage # "Ready"
  BY DEF Sound, WorkflowRun, IsTerminal, TerminalStages, ActiveStages
<1>2. CASE r.stage = "Blocked"
  <2>1. /\ s \in WorkflowRun /\ s.stage = r.paused /\ s.outcome = None /\ s.units = r.units
        /\ s.plan = r.plan /\ s.steps = r.steps /\ s.delivery = r.delivery
    BY <1>1, <1>2 DEF Resume, WorkflowRun, Stages
  <2> HIDE DEF s
  <2>2. Sound(s) /\ ~IsTerminal(s) /\ s.stage # "Ready"
    BY <1>1, <1>2, <2>1, NoneIsNothing
    DEF Sound, WorkStage, IsTerminal, TerminalStages, ActiveStages, SuccessOutcomes, Outcomes
  <2> QED BY <1>2, <2>1, <2>2 DEF GoesOn, Unblocked, s
<1>3. CASE r.stage # "Blocked"
  BY <1>1, <1>3 DEF GoesOn, Unblocked
<1> QED BY <1>2, <1>3

LEMMA ReconciledIsSound ==
    ASSUME NEW r, Sound(r), ~IsTerminal(r)
    PROVE  GoesOn(r, Reconciled(r)) /\ Reconciled(r).stage = r.stage /\ Reconciled(r).plan = r.plan
<1> DEFINE u == [plan |-> r.plan, credits |-> 0]
           s == [r EXCEPT !.units = u]
<1>1. /\ r \in WorkflowRun /\ r.stage # "Ready"
  BY DEF Sound, IsTerminal, TerminalStages
<1>2. u \in WorkUnitLedger /\ u.credits = 0
  BY <1>1 DEF WorkflowRun, WorkUnitLedger, MaxWorkUnitProgressCredits
<1>3. Reconciled(r) = IF CanInitializeUnits(r) THEN s ELSE r
  BY DEF Reconciled, InitializeUnits
<1> HIDE DEF u
<1>4. /\ s \in WorkflowRun /\ s.stage = r.stage /\ s.paused = r.paused
      /\ s.outcome = r.outcome /\ s.units = u
      /\ s.plan = r.plan /\ s.steps = r.steps /\ s.delivery = r.delivery
  BY <1>1, <1>2 DEF WorkflowRun
<1> HIDE DEF s
<1>5. GoesOn(r, s)
  BY <1>1, <1>2, <1>4 DEF GoesOn, Sound, WorkStage, IsTerminal
<1> QED BY <1>1, <1>3, <1>4, <1>5 DEF GoesOn

\* A charge keeps the stage or ends the run, and takes nothing back.
LEMMA RecordUsageIsSound ==
    ASSUME NEW r, Sound(r), ~IsTerminal(r)
    PROVE  LET s == RecordUsage(r, StepUsage)
           IN  /\ Sound(s) /\ s.stage # "Ready"
               /\ ~IsTerminal(s) => s.stage = r.stage
               /\ \A x \in ActiveStages : s.steps[x] >= r.steps[x]
<1> DEFINE t == [r.steps EXCEPT ![r.stage] = @ + 1]
           o == [x \in Totals |-> r.totals[x] + StepUsage.totals[x]]
           c == [r EXCEPT !.steps = t, !.totals = o]
<1>1. /\ r \in WorkflowRun /\ r.stage \in ActiveStages /\ r.stage # "Ready"
      /\ r.steps \in [ActiveStages -> Nat] /\ r.totals \in [Totals -> Nat]
      /\ r.units.credits = 0
  BY DEF Sound, IsTerminal, TerminalStages, WorkflowRun, Stages
<1>2. t \in [ActiveStages -> Nat] /\ \A x \in ActiveStages : t[x] >= r.steps[x]
  BY <1>1
<1>3. o \in [Totals -> Nat]
  BY <1>1 DEF StepUsage
<1>4. Charged(r, StepUsage) = c
  BY <1>1 DEF Charged, WorkflowRun, StepUsage
<1> HIDE DEF t, o
<1>5. /\ c \in WorkflowRun /\ c.stage = r.stage /\ c.paused = r.paused
      /\ c.outcome = r.outcome /\ c.units = r.units
      /\ c.plan = r.plan /\ c.steps = t /\ c.delivery = r.delivery
  BY <1>1, <1>2, <1>3 DEF WorkflowRun
<1> HIDE DEF c
<1>6. Sound(c) /\ ~IsTerminal(c)
  BY <1>1, <1>5 DEF Sound, WorkStage, IsTerminal
<1>7. Exhausted(c) \in (Outcomes \ SuccessOutcomes) \cup {None}
  BY DEF Exhausted, Outcomes, SuccessOutcomes
<1>8. RecordUsage(r, StepUsage) = IF Exhausted(c) = None THEN c ELSE Exhaust(c, Exhausted(c))
  BY <1>4 DEF RecordUsage
<1>9. Exhausted(c) # None => /\ GoesOn(c, Exhaust(c, Exhausted(c)))
                             /\ Exhaust(c, Exhausted(c)).stage = "Failed"
  BY <1>1, <1>5, <1>7, ExhaustIsSound
<1> QED BY <1>1, <1>2, <1>5, <1>6, <1>8, <1>9 DEF GoesOn, IsTerminal, TerminalStages

-----------------------------------------------------------------------------
(* How the driver moves *)

\* The driver is at pc with the run s; what it keeps for the stage may change.
GoesTo(pc, s) ==
    /\ driver' \in DriverType /\ driver'.pc = pc /\ driver'.run = s
    /\ driver'.base = driver.base /\ driver'.control = driver.control
    /\ driver'.from = driver.from /\ driver'.raced = driver.raced

\* The session goes on as it was, but for its queue and window.
KeepsStored ==
    /\ session' \in SessionType
    /\ session'.status = session.status /\ session'.baseline = session.baseline
    /\ session'.saved = session.saved /\ session'.archived = session.archived

EndsRun(s) == IsTerminal(s) /\ s.stage # "Blocked"

\* The same, and the run is stored.
Stores(s) ==
    /\ session' \in SessionType
    /\ session'.status = session.status /\ session'.baseline = session.baseline
    /\ session'.saved = IF EndsRun(s) THEN None
                        ELSE [run |-> s, base |-> driver'.base, control |-> driver'.control,
                              from |-> driver'.from]
    /\ session'.archived = IF EndsRun(s) THEN s.outcome ELSE session.archived

\* The run s takes no step back, nor does it go on after an end.
Charges(s) ==
    \/ s = driver.run
    \/ ~IsTerminal(driver.run) /\ \A x \in ActiveStages : s.steps[x] >= driver.run.steps[x]

\* What a step of a run does to what is stored: nothing, or it stores the run it goes
\* on with.
RunStep ==
    \E s : /\ Sound(s) /\ Charges(s)
           /\ driver'.pc \in HasRun => driver'.run = s
           /\ driver'.pc # "start" /\ session'.status \notin {"Queued", "Paused"}
           /\ \/ session'.saved = session.saved /\ session'.archived = session.archived
              \/ EndsRun(s) /\ session'.saved = None /\ session'.archived = s.outcome
              \/ ~EndsRun(s) /\ session'.saved # None /\ session'.saved.run = s

LEMMA GoesOnCharges ==
    ASSUME Sound(driver.run), ~IsTerminal(driver.run), NEW s, GoesOn(driver.run, s)
    PROVE  Charges(s)
BY DEF GoesOn, Charges, Sound, WorkflowRun

LEMMA CheckpointStoresIn ==
    ASSUME NEW h \in SessionType, NEW d \in DriverType, d.run \in WorkflowRun,
           d.base # None, d.control # None,
           NEW t, t = Checkpointed(h, d)
    PROVE  LET s == d.run
           IN  /\ t \in SessionType
               /\ t.status = h.status /\ t.baseline = h.baseline
               /\ t.pending = h.pending /\ t.window = h.window
               /\ t.cancel = h.cancel
               /\ t.saved = IF EndsRun(s) THEN None
                            ELSE [run |-> s, base |-> d.base,
                                  control |-> d.control, from |-> d.from]
               /\ t.archived = IF EndsRun(s) THEN s.outcome ELSE h.archived
<1> DEFINE c == [run |-> d.run, base |-> d.base, control |-> d.control, from |-> d.from]
           o == d.run.outcome
<1>1. d.base \in Baseline /\ d.control \in GitControl /\ d.from \in Nat
  BY DEF DriverType
<1>2. c \in Checkpoint /\ o \in Outcomes \cup {None}
  BY <1>1 DEF Checkpoint, WorkflowRun
<1>3. CASE EndsRun(d.run)
  <2>1. t = [h EXCEPT !.saved = None, !.archived = o]
    BY <1>3 DEF Checkpointed, EndsRun
  <2> HIDE DEF o
  <2>2. /\ t \in SessionType
        /\ t.status = h.status /\ t.baseline = h.baseline
        /\ t.pending = h.pending /\ t.window = h.window
        /\ t.cancel = h.cancel /\ t.saved = None /\ t.archived = o
    BY <1>2, <2>1 DEF SessionType
  <2> QED BY <2>2, <1>3 DEF o
<1>4. CASE ~EndsRun(d.run)
  <2>1. t = [h EXCEPT !.saved = c]
    BY <1>4 DEF Checkpointed, EndsRun
  <2> HIDE DEF c
  <2>2. /\ t \in SessionType
        /\ t.status = h.status /\ t.baseline = h.baseline
        /\ t.pending = h.pending /\ t.window = h.window
        /\ t.cancel = h.cancel /\ t.saved = c /\ t.archived = h.archived
    BY <1>2, <2>1 DEF SessionType
  <2> QED BY <2>2, <1>4 DEF c
<1> QED BY <1>3, <1>4

LEMMA CheckpointStores ==
    ASSUME session \in SessionType, driver' \in DriverType, driver'.run \in WorkflowRun,
           driver'.base # None, driver'.control # None,
           NEW t, t = Checkpointed(session, driver')
    PROVE  LET s == driver'.run
           IN  /\ t \in SessionType
               /\ t.status = session.status /\ t.baseline = session.baseline
               /\ t.pending = session.pending /\ t.window = session.window
               /\ t.cancel = session.cancel
               /\ t.saved = IF EndsRun(s) THEN None
                            ELSE [run |-> s, base |-> driver'.base,
                                  control |-> driver'.control, from |-> driver'.from]
               /\ t.archived = IF EndsRun(s) THEN s.outcome ELSE session.archived
BY CheckpointStoresIn

\* The commit that a Ready run names is of its content, and not another program's
\* that came after the start.
NamesItsCommit(s) ==
    LET commit == repo.log[s.delivery.commit]
    IN  /\ commit.content = s.delivery.fingerprint
        /\ commit.by = "user" => s.delivery.commit <= driver.from

LEMMA LogType ==
    ASSUME repo \in RepoType, repo.log # <<>>
    PROVE  /\ Len(repo.log) \in Nat \ {0} /\ DOMAIN repo.log = 1 .. Len(repo.log)
           /\ repo.log[Len(repo.log)] \in LogEntry
           /\ Len(repo.log) \in DOMAIN repo.log
<1>1. repo.log \in Seq(LogEntry)
  BY DEF RepoType
<1>2. Len(repo.log) \in Nat /\ DOMAIN repo.log = 1 .. Len(repo.log) /\ Len(repo.log) # 0
  BY <1>1
<1> QED BY <1>1, <1>2

\* A step of the driver that stores the run s it goes on with.
LEMMA StoringKeeps ==
    ASSUME DeliveryInv, driver.pc \in HasRun, NEW s, Sound(s),
           NEW pc \in {"loop", "model", "acted", "submission", "finish", "return", "error"},
           GoesTo(pc, s), Stores(s),
           repo' \in RepoType, repo'.log = repo.log, UNCHANGED env,
           session'.pending <= session.pending,
           driver'.left + session'.pending <= StageSteps + env["messages"],
           pc \in {"model", "acted", "submission"} => ~IsTerminal(s),
           pc \in {"model", "acted"} => s.stage \in ModelStages,
           pc = "submission" => driver'.sub \in Submission,
           pc \in Reporting => IsTerminal(s),
           driver.pc = "landed" \/ IsTerminal(driver.run) => IsTerminal(s),
           s.outcome \in SuccessOutcomes => session'.pending = 0 /\ ~session'.window,
           s.outcome = "Ready" =>
               /\ s.delivery.commit \in DOMAIN repo.log
               /\ ~driver.raced => NamesItsCommit(s),
           Charges(s)
    PROVE  DeliveryInv' /\ RunStep
<1>1. /\ driver \in DriverType /\ session \in SessionType /\ repo \in RepoType
      /\ env \in [Events -> Nat] /\ repo.log # <<>>
  BY DEF DeliveryInv, TypeOK
<1>2. /\ driver'.pc = pc /\ driver'.run = s /\ driver'.base = driver.base
      /\ driver'.control = driver.control /\ driver'.from = driver.from
      /\ driver'.raced = driver.raced /\ driver' \in DriverType
  BY DEF GoesTo
<1> DEFINE rec == [run |-> s, base |-> driver.base, control |-> driver.control,
                   from |-> driver.from]
<1>3. /\ session' \in SessionType /\ session'.status = session.status
      /\ session'.saved = IF EndsRun(s) THEN None ELSE rec
      /\ session'.archived = IF EndsRun(s) THEN s.outcome ELSE session.archived
  BY <1>2 DEF Stores
<1>4. /\ session.status = "Running"
      /\ driver.base # None /\ driver.control # None /\ Anchored(driver.control, driver.from)
  BY DEF DeliveryInv, RunFitsPosition, HasRun, SinceLoop, InStage, Reporting, At
<1>5. s \in WorkflowRun /\ rec \in Checkpoint
  <2>1. s \in WorkflowRun
    BY DEF Sound
  <2>2. driver.base \in Baseline /\ driver.control \in GitControl /\ driver.from \in Nat
    BY <1>1, <1>4 DEF DriverType
  <2> QED BY <2>1, <2>2 DEF Checkpoint
<1>6. s # None /\ rec # None
  BY <1>5, NoneIsNoRecord
<1>7. rec.run = s /\ rec.control = driver.control /\ rec.from = driver.from
  OBVIOUS
<1> HIDE DEF rec
<1>8. repo'.log = repo.log /\ env' = env
  OBVIOUS
<1>9. pc \in Positions /\ pc \notin InCommit /\ pc \notin {"off", "start"}
  BY DEF Positions, InCommit
<1>10. TypeOK'
  BY <1>1, <1>2, <1>3, <1>8 DEF TypeOK
<1>11. RunFitsPosition'
  <2>1. Anchored(driver.control, driver.from)'
    BY <1>2, <1>4, <1>8 DEF Anchored
  <2>2. (At("off") <=> session.status # "Running")'
    BY <1>2, <1>3, <1>4 DEF At
  <2>3. driver'.pc \in (SinceLoop \cup InStage) \ {"loop"} => ~IsTerminal(driver'.run)
    BY <1>2 DEF SinceLoop, InStage
  <2>4. driver'.pc \in Reporting => IsTerminal(driver'.run)
    BY <1>2
  <2>5. driver'.pc \in {"model", "acted"} => Stage' \in ModelStages
    BY <1>2 DEF Stage
  <2> QED
    BY <1>2, <1>4, <1>6, <1>9, <2>1, <2>2, <2>3, <2>4, <2>5 DEF RunFitsPosition
<1>12. StoredIsSound'
  <2>1. ~EndsRun(s) => s.stage \in ActiveStages \cup {"Blocked"}
    BY <1>5 DEF EndsRun, IsTerminal, WorkflowRun, Stages
  <2> QED
    BY <1>2, <1>3, <1>4, <1>7, <1>8, <2>1 DEF StoredIsSound, Anchored
<1>13. IsStored'
  BY <1>2, <1>3 DEF IsStored, EndsRun, Stage, rec
<1>14. CommitIsReviewed'
  BY <1>2 DEF CommitIsReviewed, At
<1>15. ReadyNamesACommit' /\ ReadyNamesItsCommit'
  BY <1>2, <1>8 DEF ReadyNamesACommit, ReadyNamesItsCommit, NamesItsCommit
<1>16. ~IsTerminal(s) /\ HeadIsOurs => driver.control.head = Len(repo.log)
  BY DEF DeliveryInv, HeadIsKnown, HasRun, SinceLoop, InStage, Reporting, RunFitsPosition
<1>17. HeadIsKnown'
  BY <1>2, <1>8, <1>16 DEF HeadIsKnown, HeadIsOurs, At
<1>18. CommitIsRemembered'
  <2>1. session'.saved # None => session'.saved = rec /\ ~EndsRun(s)
    BY <1>3
  <2>2. HeadIsOurs /\ ~EndsRun(s) =>
            s.stage = "Blocked" \/ driver.control.head = Len(repo.log)
    BY <1>16 DEF EndsRun
  <2> QED
    BY <1>7, <1>8, <2>1, <2>2 DEF CommitIsRemembered, HeadIsOurs
<1>19. MessagesAreCounted'
  <2>1. session.pending \in Nat /\ session'.pending \in Nat /\ env["messages"] \in Nat
    BY <1>1, <1>3, DriverLimits DEF SessionType, Events
  <2> QED
    BY <1>8, <2>1 DEF MessagesAreCounted, DeliveryInv
<1>20. CommitsHoldReviewedContent'
  BY <1>8 DEF CommitsHoldReviewedContent, DeliveryInv
<1>21. StepsAreChargedFirst'
  BY <1>2, <1>3, <1>6, <1>7 DEF StepsAreChargedFirst, At, EndsRun
<1>22. SuccessHasHeardEveryMessage'
  BY <1>2 DEF SuccessHasHeardEveryMessage
<1>23. RunStep
  BY <1>2, <1>3, <1>4, <1>6, <1>7 DEF RunStep
<1> QED
  BY <1>10, <1>11, <1>12, <1>13, <1>14, <1>15, <1>17, <1>18, <1>19, <1>20, <1>21, <1>22,
     <1>23
  DEF DeliveryInv

\* A stop that is not stored yet: the run ended short of success, or had ended.
LEMMA StoppingKeeps ==
    ASSUME DeliveryInv, driver.pc \in HasRun, NEW s, Sound(s), IsTerminal(s),
           GoesTo("finish", s), driver'.left = driver.left, UNCHANGED <<session, repo, env>>,
           s = driver.run \/ s.outcome \notin SuccessOutcomes, Charges(s)
    PROVE  DeliveryInv' /\ RunStep
<1>1. /\ driver'.pc = "finish" /\ driver'.run = s /\ driver'.base = driver.base
      /\ driver'.control = driver.control /\ driver'.from = driver.from
      /\ driver'.raced = driver.raced /\ driver' \in DriverType
  BY DEF GoesTo
<1>2. /\ session.status = "Running"
      /\ driver.base # None /\ driver.control # None /\ Anchored(driver.control, driver.from)
  BY DEF DeliveryInv, RunFitsPosition, HasRun, SinceLoop, InStage, Reporting, At
<1>3. s # None
  BY NoneIsNoRecord DEF Sound
<1>4. TypeOK'
  BY <1>1 DEF DeliveryInv, TypeOK
<1>5. RunFitsPosition'
  BY <1>1, <1>2, <1>3
  DEF RunFitsPosition, HasRun, SinceLoop, InStage, InCommit, Reporting, At, Anchored
<1>6. StoredIsSound' /\ IsStored'
  BY <1>1 DEF DeliveryInv, StoredIsSound, Anchored, IsStored, SinceLoop
<1>7. CommitIsReviewed' /\ HeadIsKnown' /\ StepsAreChargedFirst'
  BY <1>1 DEF CommitIsReviewed, HeadIsKnown, StepsAreChargedFirst, At, SinceLoop, InStage
<1>8. driver.run # None
  BY DEF DeliveryInv, RunFitsPosition
<1>9. ReadyNamesACommit' /\ ReadyNamesItsCommit' /\ SuccessHasHeardEveryMessage'
  BY <1>1, <1>8
  DEF DeliveryInv, ReadyNamesACommit, ReadyNamesItsCommit, SuccessHasHeardEveryMessage,
      SuccessOutcomes
<1>10. MessagesAreCounted' /\ CommitsHoldReviewedContent' /\ CommitIsRemembered'
  BY DEF DeliveryInv, MessagesAreCounted, CommitsHoldReviewedContent, CommitIsRemembered
<1>11. RunStep
  BY <1>1, <1>2 DEF RunStep
<1> QED
  BY <1>4, <1>5, <1>6, <1>7, <1>9, <1>10, <1>11 DEF DeliveryInv

\* An error of the driver, whether it has a run or not.
LEMMA FailingKeeps ==
    ASSUME DeliveryInv, ~At("off"), RunnerFails, UNCHANGED <<repo, env>>
    PROVE  DeliveryInv' /\ (driver.pc \in HasRun => RunStep)
<1>1. /\ driver'.pc = "error" /\ driver'.run = driver.run /\ driver'.base = driver.base
      /\ driver'.control = driver.control /\ driver'.from = driver.from
      /\ driver'.raced = driver.raced /\ driver' \in DriverType
      /\ driver'.left = driver.left /\ session' = session
  BY DEF RunnerFails, DeliveryInv, TypeOK, DriverType, Positions
<1>2. TypeOK'
  BY <1>1 DEF DeliveryInv, TypeOK
<1>3. RunFitsPosition'
  BY <1>1
  DEF DeliveryInv, RunFitsPosition, HasRun, SinceLoop, InStage, InCommit, Reporting, At
<1>4. StoredIsSound' /\ IsStored'
  BY <1>1 DEF DeliveryInv, StoredIsSound, Anchored, IsStored, SinceLoop
<1>5. CommitIsReviewed' /\ HeadIsKnown' /\ StepsAreChargedFirst'
  BY <1>1 DEF CommitIsReviewed, HeadIsKnown, StepsAreChargedFirst, At, SinceLoop, InStage
<1>6. ReadyNamesACommit' /\ ReadyNamesItsCommit' /\ SuccessHasHeardEveryMessage'
  BY <1>1
  DEF DeliveryInv, ReadyNamesACommit, ReadyNamesItsCommit, SuccessHasHeardEveryMessage
<1>7. MessagesAreCounted' /\ CommitsHoldReviewedContent' /\ CommitIsRemembered'
  BY <1>1 DEF DeliveryInv, MessagesAreCounted, CommitsHoldReviewedContent, CommitIsRemembered
<1>8. ASSUME driver.pc \in HasRun PROVE RunStep
  <2>1. Sound(driver.run) /\ Charges(driver.run) /\ session.status = "Running"
    BY <1>8 DEF DeliveryInv, RunFitsPosition, Charges, At
  <2> QED
    BY <1>1, <2>1 DEF RunStep, HasRun, SinceLoop, InStage, Reporting
<1> QED
  BY <1>2, <1>3, <1>4, <1>5, <1>6, <1>7, <1>8 DEF DeliveryInv

\* A step inside a stage stores nothing; it may hear the queue and edit the tree.
LEMMA StageKeeps ==
    ASSUME DeliveryInv, driver.pc \in {"model", "acted"}, NEW pc \in {"model", "boundary"},
           GoesTo(pc, driver.run), KeepsStored, pc = "boundary" => driver'.sub \in Submission,
           repo' \in RepoType, repo'.log = repo.log, UNCHANGED env,
           session'.pending <= session.pending,
           driver'.left + session'.pending <= StageSteps + env["messages"]
    PROVE  DeliveryInv' /\ RunStep
<1>1. /\ driver'.pc = pc /\ driver'.run = driver.run /\ driver'.base = driver.base
      /\ driver'.control = driver.control /\ driver'.from = driver.from
      /\ driver'.raced = driver.raced /\ driver' \in DriverType
  BY DEF GoesTo
<1>2. /\ session' \in SessionType /\ session'.status = session.status
      /\ session'.saved = session.saved /\ session'.archived = session.archived
  BY DEF KeepsStored
<1>3. /\ session.status = "Running" /\ driver.run # None
      /\ driver.base # None /\ driver.control # None /\ Anchored(driver.control, driver.from)
      /\ ~IsTerminal(driver.run) /\ Stage \in ModelStages /\ Sound(driver.run)
  BY DEF DeliveryInv, RunFitsPosition, HasRun, SinceLoop, InStage, Reporting, At
<1>4. driver.run.outcome \notin SuccessOutcomes
  BY <1>3 DEF Sound, IsTerminal, TerminalStages
<1>5. TypeOK'
  BY <1>1, <1>2 DEF DeliveryInv, TypeOK
<1>6. RunFitsPosition'
  BY <1>1, <1>2, <1>3
  DEF RunFitsPosition, HasRun, SinceLoop, InStage, InCommit, Reporting, At, Anchored, Stage
<1>7. StoredIsSound' /\ IsStored'
  BY <1>1, <1>2 DEF DeliveryInv, StoredIsSound, Anchored, IsStored, SinceLoop
<1>8. CommitIsReviewed' /\ StepsAreChargedFirst'
  BY <1>1 DEF CommitIsReviewed, StepsAreChargedFirst, At
<1>9. HeadIsKnown'
  BY <1>1, <1>3 DEF DeliveryInv, HeadIsKnown, HeadIsOurs, At, SinceLoop, InStage
<1>10. ReadyNamesACommit' /\ ReadyNamesItsCommit' /\ SuccessHasHeardEveryMessage'
  BY <1>1, <1>4
  DEF ReadyNamesACommit, ReadyNamesItsCommit, SuccessHasHeardEveryMessage, SuccessOutcomes
<1>11. CommitsHoldReviewedContent' /\ CommitIsRemembered'
  BY <1>2 DEF DeliveryInv, CommitsHoldReviewedContent, CommitIsRemembered
<1>12. MessagesAreCounted'
  <2>1. session.pending \in Nat /\ session'.pending \in Nat /\ env["messages"] \in Nat
    BY <1>2, DriverLimits DEF DeliveryInv, TypeOK, SessionType, Events
  <2> QED
    BY <2>1 DEF MessagesAreCounted, DeliveryInv
<1>13. RunStep
  BY <1>1, <1>2, <1>3 DEF RunStep, Charges
<1> QED
  BY <1>5, <1>6, <1>7, <1>8, <1>9, <1>10, <1>11, <1>12, <1>13 DEF DeliveryInv

\* A step towards the checks or the commit, from what was stored at the loop.
LEMMA AdvancingKeeps ==
    ASSUME DeliveryInv, driver.pc \in SinceLoop \ {"staged", "landed"},
           ~IsTerminal(driver.run), NEW pc \in {"checking", "checked", "sealed", "add"},
           driver' \in DriverType, driver'.pc = pc, driver'.run = driver.run,
           driver'.base = driver.base, driver'.control = driver.control,
           driver'.from = driver.from, driver'.left = driver.left,
           KeepsStored, session'.pending = session.pending,
           pc \in {"checking", "checked"} => Stage = "Checking",
           pc \in InCommit =>
               Stage = "Committing" /\ ~session'.window /\ session.pending = 0,
           pc = "add" => /\ repo.content = driver.run.delivery.fingerprint
                         /\ driver.control.head = Len(repo.log),
           UNCHANGED <<repo, env>>
    PROVE  DeliveryInv' /\ RunStep
<1>1. /\ session' \in SessionType /\ session'.status = session.status
      /\ session'.saved = session.saved /\ session'.archived = session.archived
  BY DEF KeepsStored
<1>2. /\ session.status = "Running" /\ driver.run # None
      /\ driver.base # None /\ driver.control # None /\ Anchored(driver.control, driver.from)
      /\ Sound(driver.run)
  BY DEF DeliveryInv, RunFitsPosition, HasRun, SinceLoop, InStage, Reporting, At
<1>3. driver.run.outcome \notin SuccessOutcomes
  BY <1>2 DEF Sound, IsTerminal, TerminalStages
<1>4. TypeOK'
  BY <1>1 DEF DeliveryInv, TypeOK
<1>5. RunFitsPosition'
  BY <1>1, <1>2
  DEF RunFitsPosition, HasRun, SinceLoop, InStage, InCommit, Reporting, At, Anchored, Stage
<1>6. StoredIsSound' /\ IsStored'
  BY <1>1 DEF DeliveryInv, StoredIsSound, Anchored, IsStored, SinceLoop, Stage
<1>7. CommitIsReviewed' /\ StepsAreChargedFirst'
  BY DEF CommitIsReviewed, StepsAreChargedFirst, At
<1>8. HeadIsKnown'
  BY DEF DeliveryInv, HeadIsKnown, HeadIsOurs, At, SinceLoop, InStage
<1>9. ReadyNamesACommit' /\ ReadyNamesItsCommit' /\ SuccessHasHeardEveryMessage'
  BY <1>3
  DEF ReadyNamesACommit, ReadyNamesItsCommit, SuccessHasHeardEveryMessage, SuccessOutcomes
<1>10. MessagesAreCounted' /\ CommitsHoldReviewedContent' /\ CommitIsRemembered'
  BY <1>1 DEF DeliveryInv, MessagesAreCounted, CommitsHoldReviewedContent, CommitIsRemembered
<1>11. RunStep
  BY <1>1, <1>2 DEF RunStep, Charges
<1> QED
  BY <1>4, <1>5, <1>6, <1>7, <1>8, <1>9, <1>10, <1>11 DEF DeliveryInv

LEMMA WithRun ==
    ASSUME DeliveryInv, driver.pc \in HasRun
    PROVE  /\ Sound(driver.run) /\ driver.run \in WorkflowRun
           /\ driver.base \in Baseline /\ driver.control \in GitControl
           /\ driver.base # None /\ driver.control # None
           /\ driver \in DriverType /\ session \in SessionType /\ repo \in RepoType
           /\ repo.content \in Contents /\ repo.index \in Contents
           /\ session.status = "Running" /\ session.pending \in Nat
           /\ driver.left + session.pending <= StageSteps + env["messages"]
<1>1. /\ driver \in DriverType /\ session \in SessionType /\ repo \in RepoType
  BY DEF DeliveryInv, TypeOK
<1>2. /\ driver.run # None /\ driver.base # None /\ driver.control # None
      /\ Sound(driver.run) /\ session.status = "Running"
  BY DEF DeliveryInv, RunFitsPosition, HasRun, SinceLoop, InStage, Reporting, At
<1>3. session.pending \in Nat
  BY <1>1, DriverLimits DEF SessionType
<1> QED
  BY <1>1, <1>2, <1>3 DEF DriverType, RepoType, DeliveryInv, MessagesAreCounted

\* The driver stores a run that goes on or stops, and is at pc.
LEMMA SavingKeeps ==
    ASSUME DeliveryInv, driver.pc \in HasRun, ~IsTerminal(driver.run),
           NEW s, GoesOn(driver.run, s),
           NEW pc \in {"loop", "finish"}, pc = "finish" => IsTerminal(s),
           driver.pc = "landed" => IsTerminal(s),
           Saves(pc, s), repo' \in RepoType, repo'.log = repo.log, UNCHANGED env
    PROVE  DeliveryInv' /\ RunStep
<1>1. Sound(s) /\ s \in WorkflowRun /\ s.outcome \notin SuccessOutcomes
  BY DEF GoesOn, Sound
<1>2. /\ driver' \in DriverType /\ driver'.pc = pc /\ driver'.run = s
      /\ driver'.base = driver.base /\ driver'.control = driver.control
      /\ driver'.from = driver.from /\ driver'.raced = driver.raced
      /\ driver'.left = driver.left
  BY <1>1, WithRun DEF Saves, DriverType, Positions
<1>3. GoesTo(pc, s)
  BY <1>2 DEF GoesTo
<1>4. session' = Checkpointed(session, driver')
  BY DEF Saves
<1>5. Stores(s) /\ session'.pending = session.pending
  BY <1>1, <1>2, <1>4, CheckpointStores, WithRun DEF Stores
<1> QED
  BY <1>1, <1>2, <1>3, <1>5, StoringKeeps, GoesOnCharges, WithRun DEF SuccessOutcomes, Reporting

\* The same at the head of the loop, which forgets what a stage was rejected for.
LEMMA LoopingKeeps ==
    ASSUME DeliveryInv, driver.pc \in HasRun \ {"landed"}, ~IsTerminal(driver.run),
           NEW s, GoesOn(driver.run, s), NEW n \in 0 .. MaxIdenticalFailures - 1,
           driver' = [driver EXCEPT !.pc = "loop", !.run = s, !.sub = None, !.rejects = n],
           session' = Checkpointed(session, driver'), UNCHANGED <<repo, env>>
    PROVE  DeliveryInv' /\ RunStep
<1>1. Sound(s) /\ s \in WorkflowRun /\ s.outcome \notin SuccessOutcomes
  BY DEF GoesOn, Sound
<1>2. /\ driver' \in DriverType /\ driver'.pc = "loop" /\ driver'.run = s
      /\ driver'.base = driver.base /\ driver'.control = driver.control
      /\ driver'.from = driver.from /\ driver'.raced = driver.raced
      /\ driver'.left = driver.left
  BY <1>1, WithRun DEF DriverType, Positions
<1>3. GoesTo("loop", s)
  BY <1>2 DEF GoesTo
<1>5. Stores(s) /\ session'.pending = session.pending
  BY <1>1, <1>2, CheckpointStores, WithRun DEF Stores
<1> QED
  BY <1>1, <1>2, <1>3, <1>5, StoringKeeps, GoesOnCharges, WithRun DEF SuccessOutcomes, Reporting

LEMMA StopKeeps ==
    ASSUME DeliveryInv, driver.pc \in HasRun, NEW s, Sound(s), IsTerminal(s),
           Stops(s), UNCHANGED <<repo, env>>,
           s = driver.run \/ s.outcome \notin SuccessOutcomes, Charges(s)
    PROVE  DeliveryInv' /\ RunStep
<1>1. /\ GoesTo("finish", s) /\ driver'.left = driver.left /\ session' = session
  <2>1. s \in WorkflowRun
    BY DEF Sound
  <2> QED BY <2>1, WithRun DEF Stops, GoesTo, DriverType, Positions
<1> QED BY <1>1, StoppingKeeps

LEMMA RoutingKeeps ==
    ASSUME DeliveryInv, driver.pc \in HasRun \ {"landed"}, ~IsTerminal(driver.run),
           RoutesIntervention, UNCHANGED <<repo, env>>
    PROVE  DeliveryInv' /\ RunStep
<1> DEFINE s == RouteIntervention(driver.run, repo.content)
<1>1. GoesOn(driver.run, s)
  BY WithRun, RouteInterventionIsSound
<1>2. /\ driver' = [driver EXCEPT !.pc = "loop", !.run = s, !.sub = None, !.rejects = 0]
      /\ session' = Checkpointed(session, driver')
  BY DEF RoutesIntervention, DriverType
<1>3. 0 \in 0 .. MaxIdenticalFailures - 1
  BY DriverLimits
<1> HIDE DEF s
<1> QED BY <1>1, <1>2, <1>3, LoopingKeeps

-----------------------------------------------------------------------------
(* Starting and resuming *)

LEMMA AtHasRun ==
    /\ \A pc \in HasRun : pc \in Positions
    /\ {"loop", "checking", "checked", "sealed", "add", "staged", "landed", "model",
        "acted", "boundary", "submission", "finish", "return"} = HasRun
BY DEF HasRun, SinceLoop, InStage, Reporting, Positions

LEMMA InitFits == Init => DeliveryInv
<1> SUFFICES ASSUME Init PROVE DeliveryInv
  OBVIOUS
<1> PICK content \in Contents :
        repo = [content |-> content, index |-> content,
                log |-> << [content |-> content, by |-> "user", reviewed |-> None,
                            raced |-> FALSE] >>]
  BY DEF Init
<1> DEFINE entry == [content |-> content, by |-> "user", reviewed |-> None, raced |-> FALSE]
<1>1. entry \in LogEntry /\ entry.by = "user"
  BY DEF LogEntry
<1>2. repo.log = <<entry>> /\ repo.content = content /\ repo.index = content
  OBVIOUS
<1> HIDE DEF entry
<1>3. /\ <<entry>> \in Seq(LogEntry) /\ Len(<<entry>>) = 1 /\ <<entry>>[1] = entry
      /\ <<entry>> # <<>> /\ DOMAIN <<entry>> = {1}
  BY <1>1
<1>4. repo \in RepoType /\ repo.log # <<>> /\ Len(repo.log) = 1 /\ repo.log[1].by = "user"
  BY <1>1, <1>2, <1>3 DEF RepoType, entry
<1>5. CaptureBaseline \in Baseline
  BY <1>4, <1>2 DEF CaptureBaseline, Baseline, Places
<1>6. /\ session \in SessionType /\ session.status = "Queued" /\ session.pending = 0
      /\ session.saved = None /\ session.archived = None
  BY <1>5, DriverLimits DEF Init, SessionType, Statuses
<1>7. driver \in DriverType /\ driver.pc = "off" /\ driver.run = None /\ driver.left = 0
  BY DriverLimits, LimitsAreNaturals DEF Init, Off, DriverType, Positions
<1>8. env \in [Events -> Nat] /\ env["messages"] = 0
  BY DEF Init, Events
<1>9. TypeOK
  BY <1>4, <1>6, <1>7, <1>8 DEF TypeOK
<1>10. RunFitsPosition
  BY <1>6, <1>7
  DEF RunFitsPosition, At, HasRun, SinceLoop, InStage, InCommit, Reporting
<1>11. /\ StoredIsSound /\ IsStored /\ CommitIsReviewed /\ ReadyNamesACommit
       /\ ReadyNamesItsCommit /\ StepsAreChargedFirst /\ SuccessHasHeardEveryMessage
  BY <1>6, <1>7
  DEF StoredIsSound, IsStored, SinceLoop, CommitIsReviewed, At, ReadyNamesACommit,
      ReadyNamesItsCommit, StepsAreChargedFirst, SuccessHasHeardEveryMessage
<1>12. HeadIsKnown /\ CommitsHoldReviewedContent /\ CommitIsRemembered
  BY <1>2, <1>3, <1>4, <1>6
  DEF HeadIsKnown, HeadIsOurs, CommitsHoldReviewedContent, CommitIsRemembered
<1>13. MessagesAreCounted
  BY <1>6, <1>7, <1>8, DriverLimits, LimitsAreNaturals DEF MessagesAreCounted
<1> QED
  BY <1>9, <1>10, <1>11, <1>12, <1>13 DEF DeliveryInv

LEMMA DispatchKeeps == DeliveryInv /\ Dispatch => DeliveryInv'
<1> SUFFICES ASSUME DeliveryInv, Dispatch PROVE DeliveryInv'
  OBVIOUS
<1>1. /\ session \in SessionType /\ driver \in DriverType /\ repo \in RepoType
      /\ driver.pc = "off" /\ driver.run = None
  BY DEF DeliveryInv, TypeOK, Dispatch, At, RunFitsPosition
<1>2. /\ session' \in SessionType /\ session'.status = "Running"
      /\ session'.saved = session.saved /\ session'.archived = session.archived
      /\ session'.pending = session.pending
  BY <1>1 DEF Dispatch, SessionType, Statuses
<1>3. /\ driver' \in DriverType /\ driver'.pc = "start" /\ driver'.run = None
      /\ driver'.left = driver.left
  BY <1>1 DEF Dispatch, DriverType, Positions
<1>4. repo' = repo /\ env' = env
  BY DEF Dispatch
<1>5. TypeOK'
  BY <1>2, <1>3, <1>4 DEF DeliveryInv, TypeOK
<1>6. RunFitsPosition'
  BY <1>2, <1>3
  DEF RunFitsPosition, At, HasRun, SinceLoop, InStage, InCommit, Reporting
<1>7. /\ IsStored' /\ CommitIsReviewed' /\ ReadyNamesACommit' /\ HeadIsKnown'
      /\ ReadyNamesItsCommit' /\ StepsAreChargedFirst' /\ SuccessHasHeardEveryMessage'
  BY <1>3
  DEF IsStored, SinceLoop, InStage, CommitIsReviewed, At, ReadyNamesACommit, HeadIsKnown,
      ReadyNamesItsCommit, StepsAreChargedFirst, SuccessHasHeardEveryMessage
<1>8. StoredIsSound' /\ CommitIsRemembered' /\ CommitsHoldReviewedContent'
  BY <1>2, <1>4
  DEF DeliveryInv, StoredIsSound, Anchored, CommitIsRemembered, CommitsHoldReviewedContent
<1>9. MessagesAreCounted'
  BY <1>2, <1>3, <1>4 DEF DeliveryInv, MessagesAreCounted
<1> QED
  BY <1>5, <1>6, <1>7, <1>8, <1>9 DEF DeliveryInv

\* The driver is at the head of the loop with the run s, which is stored.
TakesUp(s) ==
    /\ Sound(s) /\ s.stage \in ActiveStages \cup {"Blocked"}
    /\ driver'.pc = "loop" /\ driver'.run = s /\ session'.status = "Running"
    /\ session'.saved # None /\ session'.saved.run = s

\* The driver takes up a run, with a HEAD and an index that it knows; a commit at
\* HEAD is known to it unless it blocks the run.
LEMMA TakingUpKeeps ==
    ASSUME DeliveryInv, At("start"), NEW s, Sound(s), s.stage # "Ready",
           s.stage = "Blocked" \/ ~IsTerminal(s),
           NEW base \in Baseline, NEW control \in GitControl, NEW from \in Nat,
           Anchored(control, from),
           HeadIsOurs => control.head = Len(repo.log) \/ s.stage = "Blocked",
           driver' = [driver EXCEPT !.pc = "loop", !.run = s, !.base = base,
                                    !.control = control, !.from = from],
           session' = Checkpointed(session, driver'), UNCHANGED <<repo, env>>
    PROVE  DeliveryInv' /\ TakesUp(s)
<1>1. /\ session \in SessionType /\ driver \in DriverType /\ repo \in RepoType
      /\ repo.log # <<>> /\ s \in WorkflowRun /\ session.status = "Running"
  BY DEF DeliveryInv, TypeOK, Sound, RunFitsPosition, At
<1>2. /\ driver' \in DriverType /\ driver'.pc = "loop" /\ driver'.run = s
      /\ driver'.base = base /\ driver'.control = control /\ driver'.from = from
      /\ driver'.left = driver.left
  BY <1>1 DEF DriverType, Positions
<1> DEFINE rec == [run |-> s, base |-> base, control |-> control, from |-> from]
<1>3. base # None /\ control # None /\ s # None /\ ~EndsRun(s)
  BY <1>1, NoneIsNoRecord DEF EndsRun
<1>4. /\ session' \in SessionType /\ session'.status = "Running"
      /\ session'.saved = rec /\ session'.archived = session.archived
      /\ session'.pending = session.pending
  BY <1>1, <1>2, <1>3, CheckpointStores
<1>5. rec.run = s /\ rec.control = control /\ rec.from = from
  OBVIOUS
<1> HIDE DEF rec
<1>6. TypeOK'
  BY <1>1, <1>2, <1>4 DEF DeliveryInv, TypeOK
<1>7. RunFitsPosition'
  BY <1>2, <1>3, <1>4
  DEF RunFitsPosition, At, HasRun, SinceLoop, InStage, InCommit, Reporting, Anchored
<1>8. StoredIsSound'
  <2>1. s.stage \in ActiveStages \cup {"Blocked"}
    BY <1>1 DEF IsTerminal, WorkflowRun, Stages
  <2> QED BY <1>4, <1>5, <2>1 DEF StoredIsSound, Anchored
<1>9. IsStored'
  BY <1>2, <1>3, <1>4 DEF IsStored, Stage, EndsRun, rec
<1>10. s.outcome \notin SuccessOutcomes
  BY DEF Sound
<1>11. /\ CommitIsReviewed' /\ ReadyNamesACommit' /\ ReadyNamesItsCommit'
       /\ StepsAreChargedFirst' /\ SuccessHasHeardEveryMessage'
  BY <1>2, <1>10
  DEF CommitIsReviewed, At, ReadyNamesACommit, ReadyNamesItsCommit, StepsAreChargedFirst,
      SuccessHasHeardEveryMessage, SuccessOutcomes
<1>12. HeadIsKnown'
  BY <1>2 DEF HeadIsKnown, HeadIsOurs, At, IsTerminal, TerminalStages
<1>13. CommitIsRemembered' /\ CommitsHoldReviewedContent'
  BY <1>4, <1>5
  DEF DeliveryInv, CommitIsRemembered, CommitsHoldReviewedContent, HeadIsOurs
<1>14. MessagesAreCounted'
  BY <1>2, <1>4 DEF DeliveryInv, MessagesAreCounted
<1>15. TakesUp(s)
  <2>1. rec # None
    <3>1. rec \in Checkpoint
      BY <1>1 DEF rec, Checkpoint
    <3> QED BY <3>1, NoneIsNoRecord
  <2>2. s.stage \in ActiveStages \cup {"Blocked"}
    BY <1>1 DEF IsTerminal, WorkflowRun, Stages
  <2> QED BY <1>2, <1>4, <1>5, <2>1, <2>2 DEF TakesUp
<1> QED
  BY <1>6, <1>7, <1>8, <1>9, <1>11, <1>12, <1>13, <1>14, <1>15 DEF DeliveryInv

LEMMA ControlIsAnchored ==
    ASSUME repo \in RepoType, repo.log # <<>>
    PROVE  /\ Control \in GitControl /\ Control.head = Len(repo.log)
           /\ Control.head \in DOMAIN repo.log
           /\ CaptureBaseline \in Baseline
BY LogType DEF Control, GitControl, CaptureBaseline, Baseline, Places, RepoType

LEMMA TaskBaselineType ==
    ASSUME TypeOK
    PROVE  TaskBaseline \in Baseline
BY ControlIsAnchored DEF TypeOK, TaskBaseline, SessionType

LEMMA StartWorkflowKeeps ==
    DeliveryInv /\ StartWorkflow => DeliveryInv' /\ TakesUp(Start(repo.content))
<1> SUFFICES ASSUME DeliveryInv, StartWorkflow
             PROVE  DeliveryInv' /\ TakesUp(Start(repo.content))
  OBVIOUS
<1> DEFINE s == Start(repo.content)
<1>1. TypeOK /\ repo \in RepoType /\ repo.content \in Contents /\ repo.log # <<>>
  BY DEF DeliveryInv, TypeOK, RepoType
<1>2. Sound(s) /\ s.stage = "Planning"
  BY <1>1, StartIsSound
<1>3. /\ Control \in GitControl /\ Control.head = Len(repo.log)
      /\ TaskBaseline \in Baseline /\ Len(repo.log) \in Nat
      /\ Control.head \in DOMAIN repo.log
  BY <1>1, ControlIsAnchored, TaskBaselineType, LogType
<1>4. Anchored(Control, Len(repo.log))
  BY <1>3 DEF Anchored
<1>5. /\ At("start")
      /\ driver' = [driver EXCEPT !.pc = "loop", !.run = s, !.base = TaskBaseline,
                                  !.control = Control, !.from = Len(repo.log)]
      /\ session' = Checkpointed(session, driver') /\ UNCHANGED <<repo, env>>
  BY DEF StartWorkflow
<1>6. s.stage # "Ready" /\ ~IsTerminal(s)
  BY <1>2 DEF IsTerminal, TerminalStages
<1> HIDE DEF s
<1>7. DeliveryInv' /\ TakesUp(s)
  BY <1>2, <1>3, <1>4, <1>5, <1>6, TakingUpKeeps
<1> QED BY <1>7 DEF s

\* A resumed run goes on with the steps that were charged.
LEMMA ResumeWorkflowKeeps ==
    DeliveryInv /\ ResumeWorkflow =>
        DeliveryInv' /\ \E s : TakesUp(s) /\ s.steps = session.saved.run.steps
<1> SUFFICES ASSUME DeliveryInv, ResumeWorkflow
             PROVE  DeliveryInv' /\ \E s : TakesUp(s) /\ s.steps = session.saved.run.steps
  OBVIOUS
<1> DEFINE run == Unblocked(session.saved.run)
           control == session.saved.control
           adopts == control # Control /\ AdoptsCommit(run, control)
           c == IF adopts THEN Control ELSE control
           s == IF control # Control /\ ~adopts THEN ControlBlock(run)
                ELSE IF control = Control /\ ~ContentAllowsResume(run)
                THEN ContentBlock(run) ELSE run
<1>1. TypeOK /\ repo \in RepoType /\ repo.log # <<>> /\ session.saved \in Checkpoint
  BY DEF DeliveryInv, TypeOK, SessionType, ResumeWorkflow
<1>2. /\ Sound(session.saved.run)
      /\ session.saved.run.stage \in ActiveStages \cup {"Blocked"}
      /\ Anchored(session.saved.control, session.saved.from)
  BY DEF DeliveryInv, StoredIsSound, ResumeWorkflow
<1>3. GoesOn(session.saved.run, run) /\ ~IsTerminal(run)
  BY <1>2, UnblockedIsSound
<1>4. /\ session.saved.base \in Baseline /\ control \in GitControl
      /\ session.saved.from \in Nat
  BY <1>1 DEF Checkpoint
<1>5. /\ Control \in GitControl /\ Control.head = Len(repo.log)
      /\ Control.head \in DOMAIN repo.log
  BY <1>1, ControlIsAnchored
<1>6. /\ At("start")
      /\ driver' = [driver EXCEPT !.pc = "loop", !.base = session.saved.base,
                                  !.from = session.saved.from, !.control = c, !.run = s]
      /\ session' = Checkpointed(session, driver') /\ UNCHANGED <<repo, env>>
  BY DEF ResumeWorkflow
<1>7. driver' = [driver EXCEPT !.pc = "loop", !.run = s, !.base = session.saved.base,
                               !.control = c, !.from = session.saved.from]
  <2>1. driver \in DriverType
    BY <1>1 DEF TypeOK
  <2> HIDE DEF s, c
  <2> QED BY <1>6, <2>1 DEF DriverType
<1> HIDE DEF run
<1>8. /\ Sound(ControlBlock(run)) /\ ControlBlock(run).stage = "Blocked"
      /\ Sound(ContentBlock(run)) /\ ContentBlock(run).stage = "Blocked"
      /\ ControlBlock(run).steps = run.steps /\ ContentBlock(run).steps = run.steps
  BY <1>3, BlockIsSound
  DEF GoesOn, ControlBlock, ContentBlock, BlockedOutcomes, Causes
<1>9. /\ Sound(s) /\ s.stage # "Ready" /\ (s.stage = "Blocked" \/ ~IsTerminal(s))
      /\ s.steps = session.saved.run.steps
  BY <1>3, <1>8 DEF GoesOn
<1>10. c \in GitControl /\ Anchored(c, session.saved.from)
  <2>1. adopts => HeadIsOurs
    BY DEF AdoptsCommit, HeadIsOurs
  <2> QED BY <1>2, <1>4, <1>5, <2>1 DEF Anchored, HeadIsOurs
<1>11. c.head = Len(repo.log) \/ s.stage = "Blocked"
  BY <1>5, <1>8
<1> HIDE DEF s, c, control
<1>12. /\ session' = Checkpointed(session, driver') /\ UNCHANGED <<repo, env>> /\ At("start")
       /\ session.saved.base \in Baseline /\ session.saved.from \in Nat
  BY <1>4, <1>6
<1>13. DeliveryInv
  OBVIOUS
<1>14. DeliveryInv' /\ TakesUp(s)
  BY ONLY <1>7, <1>9, <1>10, <1>11, <1>12, <1>13, TakingUpKeeps
<1> QED BY <1>9, <1>14

LEMMA RefuseCheckpointKeeps == DeliveryInv /\ RefuseCheckpoint => DeliveryInv'
BY FailingKeeps DEF RefuseCheckpoint, At

-----------------------------------------------------------------------------
(* The head of the loop *)

LEMMA LoopPosition ==
    ASSUME At("loop")
    PROVE  driver.pc \in HasRun /\ driver.pc \in HasRun \ {"landed"}
BY DEF At, HasRun, SinceLoop

LEMMA LoopCancelledKeeps == DeliveryInv /\ LoopCancelled => DeliveryInv' /\ RunStep
<1> SUFFICES ASSUME DeliveryInv, LoopCancelled PROVE DeliveryInv' /\ RunStep
  OBVIOUS
<1>1. /\ driver.pc = "loop" /\ driver.pc \in HasRun /\ ~IsTerminal(driver.run)
      /\ Saves("finish", Cancel(driver.run)) /\ repo' = repo /\ env' = env
  BY LoopPosition DEF LoopCancelled, At
<1>2. GoesOn(driver.run, Cancel(driver.run)) /\ IsTerminal(Cancel(driver.run))
  BY <1>1, WithRun, CancelIsSound DEF IsTerminal, TerminalStages
<1> QED
  BY <1>1, <1>2, WithRun, SavingKeeps

LEMMA LoopTerminalKeeps == DeliveryInv /\ LoopTerminal => DeliveryInv' /\ RunStep
BY LoopPosition, WithRun, StopKeeps DEF LoopTerminal, Charges

LEMMA LoopRoutesKeeps == DeliveryInv /\ LoopRoutes => DeliveryInv' /\ RunStep
BY LoopPosition, RoutingKeeps DEF LoopRoutes, LoopActive

LEMMA LoopOutOfStepsKeeps == DeliveryInv /\ LoopOutOfSteps => DeliveryInv' /\ RunStep
<1> SUFFICES ASSUME DeliveryInv, LoopOutOfSteps PROVE DeliveryInv' /\ RunStep
  OBVIOUS
<1> DEFINE r == Reconciled(driver.run)
           s == Fail(r, "StepLimit", "Other")
<1>1. /\ driver.pc \in HasRun /\ ~IsTerminal(driver.run) /\ Stops(s)
      /\ UNCHANGED <<repo, env>>
  BY LoopPosition DEF LoopOutOfSteps, LoopActive
<1>2. Sound(driver.run) /\ GoesOn(driver.run, r)
  BY <1>1, WithRun, ReconciledIsSound
<1> HIDE DEF r
<1>3. GoesOn(driver.run, s) /\ s.stage = "Failed"
  <2>1. Sound(r) /\ r.steps = driver.run.steps
    BY <1>2 DEF GoesOn
  <2>2. GoesOn(r, s) /\ s.stage = "Failed"
    BY <2>1, FailIsSound DEF Outcomes, SuccessOutcomes, Causes
  <2> QED BY <2>1, <2>2 DEF GoesOn
<1>4. Sound(s) /\ IsTerminal(s) /\ s.outcome \notin SuccessOutcomes
  BY <1>3 DEF GoesOn, IsTerminal, TerminalStages, Sound
<1> HIDE DEF s
<1> QED BY <1>1, <1>2, <1>3, <1>4, GoesOnCharges, StopKeeps

LEMMA LoopClosesNoChangeKeeps == DeliveryInv /\ LoopClosesNoChange => DeliveryInv' /\ RunStep
<1> SUFFICES ASSUME DeliveryInv, LoopClosesNoChange PROVE DeliveryInv' /\ RunStep
  OBVIOUS
<1> DEFINE r == Reconciled(driver.run)
           impl == [plan |-> driver.run.plan, content |-> repo.content, no_change |-> TRUE]
           s == SubmitImplementation(r, impl)
<1>1. /\ driver.pc \in HasRun /\ driver.pc = "loop" /\ ~IsTerminal(driver.run)
      /\ Saves("loop", s) /\ repo' = repo /\ env' = env
      /\ driver.run.stage = "Implementing"
  BY LoopPosition DEF LoopClosesNoChange, LoopActive, Stage, At
<1>2. GoesOn(driver.run, r) /\ r.plan = driver.run.plan /\ ~IsTerminal(r)
  BY <1>1, WithRun, ReconciledIsSound DEF IsTerminal
<1>3. driver.run.plan # None
  BY <1>1, WithRun DEF Sound, WorkStage, ActiveStages
<1>4. impl \in Implementation
  BY <1>3, <1>1, WithRun DEF Implementation, WorkflowRun
<1> HIDE DEF r, impl
<1>5. GoesOn(driver.run, s)
  BY <1>2, <1>3, <1>4, SubmitImplementationIsSound DEF GoesOn
<1> HIDE DEF s
<1> QED BY <1>1, <1>5, WithRun, SavingKeeps

LEMMA StepsLeftIsBounded ==
    ASSUME NEW r, Sound(r), r.stage \in ActiveStages
    PROVE  StepsLeft(r) \in 0 .. StageSteps
<1>1. /\ r.steps[r.stage] \in Nat /\ r.units.credits = 0
      /\ BaseSteps \in Nat /\ BaseSteps <= StageSteps /\ StageSteps \in Nat
  BY DriverLimits, LimitsAreNaturals DEF Sound, WorkflowRun
<1>2. CyclesGranted(r, r.stage) \in Nat
  BY DEF Sound, WorkflowRun, CyclesGranted
<1>3. BaseSteps * (CyclesGranted(r, r.stage) + 1) \in Nat
  BY <1>1, <1>2
<1>4. StageStepLimit(r, r.stage, BaseSteps) \in Nat
  BY <1>1, <1>3 DEF StageStepLimit
<1> QED
  BY <1>1, <1>4 DEF StepsLeft

LEMMA LoopEntersStageKeeps == DeliveryInv /\ LoopEntersStage => DeliveryInv' /\ RunStep
<1> SUFFICES ASSUME DeliveryInv, LoopEntersStage PROVE DeliveryInv' /\ RunStep
  OBVIOUS
<1> DEFINE s == Reconciled(driver.run)
           t == Checkpointed(session, driver')
<1>1. /\ driver.pc \in HasRun /\ driver.pc = "loop" /\ ~IsTerminal(driver.run)
      /\ driver.run.stage \in ModelStages
      /\ driver' = [driver EXCEPT !.pc = "model", !.run = s, !.left = StepsLeft(s)]
      /\ session' = [t EXCEPT !.window = TRUE]
      /\ repo' = repo /\ env' = env
  BY LoopPosition DEF LoopEntersStage, LoopActive, Stage, At
<1>2. GoesOn(driver.run, s) /\ s.stage = driver.run.stage /\ ~IsTerminal(s)
  BY <1>1, WithRun, ReconciledIsSound DEF IsTerminal
<1>3. Sound(s) /\ s \in WorkflowRun /\ s.outcome \notin SuccessOutcomes
  BY <1>2 DEF GoesOn, Sound
<1>4. StepsLeft(s) \in 0 .. StageSteps
  BY <1>1, <1>2, <1>3, StepsLeftIsBounded
  DEF ModelStages, Authoring, ActiveStages
<1> HIDE DEF s
<1>5. /\ session.pending \in Nat /\ session.pending <= env["messages"]
      /\ env["messages"] \in Nat /\ StageSteps \in Nat /\ MaxMessages \in Nat
  BY <1>1, WithRun, DriverLimits, LimitsAreNaturals
  DEF DeliveryInv, MessagesAreCounted, TypeOK, Events
<1>6. /\ driver' \in DriverType /\ driver'.pc = "model" /\ driver'.run = s
      /\ driver'.base = driver.base /\ driver'.control = driver.control
      /\ driver'.from = driver.from /\ driver'.raced = driver.raced
      /\ driver'.left = StepsLeft(s)
  <2> DEFINE n == StepsLeft(s)
  <2>1. n \in 0 .. StageSteps + MaxMessages
    BY <1>4, <1>5
  <2>2. driver' = [driver EXCEPT !.pc = "model", !.run = s, !.left = n] /\ driver \in DriverType
    BY <1>1, WithRun
  <2> HIDE DEF n
  <2>3. /\ driver' \in DriverType /\ driver'.pc = "model" /\ driver'.run = s
        /\ driver'.base = driver.base /\ driver'.control = driver.control
        /\ driver'.from = driver.from /\ driver'.raced = driver.raced
        /\ driver'.left = n
    BY <1>3, <2>1, <2>2 DEF DriverType, Positions
  <2> QED BY <2>3 DEF n
<1>7. GoesTo("model", s)
  BY <1>6 DEF GoesTo
<1>8. /\ t \in SessionType /\ t.status = session.status /\ t.baseline = session.baseline
      /\ t.pending = session.pending
      /\ t.saved = IF EndsRun(s) THEN None
                   ELSE [run |-> s, base |-> driver'.base, control |-> driver'.control,
                         from |-> driver'.from]
      /\ t.archived = IF EndsRun(s) THEN s.outcome ELSE session.archived
  BY <1>1, <1>3, <1>6, CheckpointStores, WithRun
<1> HIDE DEF t
<1>9. Stores(s) /\ session'.pending = session.pending
  BY <1>1, <1>8 DEF Stores, SessionType
<1>10. driver'.left + session'.pending <= StageSteps + env["messages"]
  BY <1>4, <1>5, <1>6, <1>9
<1> QED
  BY <1>1, <1>2, <1>3, <1>5, <1>7, <1>9, <1>10, StoringKeeps, GoesOnCharges, WithRun
  DEF SuccessOutcomes, Reporting

LEMMA BlocksAreSound ==
    ASSUME NEW r, Sound(r), ~IsTerminal(r)
    PROVE  /\ GoesOn(r, ContentBlock(r)) /\ IsTerminal(ContentBlock(r))
           /\ GoesOn(r, ControlBlock(r)) /\ IsTerminal(ControlBlock(r))
           /\ GoesOn(r, Block(r, "CommitBlocked", "CommitBlocked"))
           /\ IsTerminal(Block(r, "CommitBlocked", "CommitBlocked"))
           /\ GoesOn(r, Block(r, "ExecutorUnavailable", "ExecutorUnavailable"))
           /\ IsTerminal(Block(r, "ExecutorUnavailable", "ExecutorUnavailable"))
BY BlockIsSound
DEF ContentBlock, ControlBlock, BlockedOutcomes, Causes, IsTerminal, TerminalStages

LEMMA LoopFindsDriftKeeps == DeliveryInv /\ LoopFindsDrift => DeliveryInv' /\ RunStep
<1> SUFFICES ASSUME DeliveryInv, LoopFindsDrift PROVE DeliveryInv' /\ RunStep
  OBVIOUS
<1>1. /\ driver.pc \in HasRun /\ ~At("off") /\ ~IsTerminal(driver.run)
      /\ UNCHANGED <<repo, env>>
      /\ Stops(ContentBlock(driver.run)) \/ RunnerFails
  BY LoopPosition DEF LoopFindsDrift, LoopActive, At
<1>2. /\ Sound(ContentBlock(driver.run)) /\ IsTerminal(ContentBlock(driver.run))
      /\ ContentBlock(driver.run).outcome \notin SuccessOutcomes
      /\ Charges(ContentBlock(driver.run))
  <2>1. Sound(driver.run) /\ GoesOn(driver.run, ContentBlock(driver.run))
    BY <1>1, WithRun, BlocksAreSound
  <2> QED BY <1>1, <2>1, BlocksAreSound, GoesOnCharges DEF GoesOn, Sound
<1> QED BY <1>1, <1>2, StopKeeps, FailingKeeps

-----------------------------------------------------------------------------
(* A model stage *)

LEMMA HeardKeeps ==
    ASSUME session \in SessionType
    PROVE  LET t == Heard(session)
           IN  /\ t \in SessionType /\ t.status = session.status
               /\ t.baseline = session.baseline /\ t.saved = session.saved
               /\ t.archived = session.archived /\ t.window = session.window
               /\ t.pending = IF Stage \in Authoring THEN 0 ELSE session.pending
BY DriverLimits DEF Heard, SessionType

LEMMA StagePosition ==
    ASSUME DeliveryInv, driver.pc \in {"model", "acted"}
    PROVE  /\ driver.pc \in HasRun /\ ~IsTerminal(driver.run) /\ Stage \in ModelStages
           /\ session.pending \in 0 .. MaxPending
           /\ driver.left \in 0 .. StageSteps + MaxMessages
           /\ driver.left + session.pending <= StageSteps + env["messages"]
           /\ env["messages"] \in 0 .. MaxMessages
           /\ StageSteps \in Nat /\ MaxMessages \in Nat /\ MaxPending \in Nat
<1>1. driver.pc \in HasRun
  BY DEF HasRun, InStage
<1>2. ~IsTerminal(driver.run) /\ Stage \in ModelStages
  BY DEF DeliveryInv, RunFitsPosition, InStage, SinceLoop
<1>3. env["messages"] \in Nat /\ MaxMessages \in Nat /\ StageSteps \in Nat /\ MaxPending \in Nat
  BY DriverLimits, LimitsAreNaturals DEF DeliveryInv, TypeOK, Events
<1> QED
  BY <1>1, <1>2, <1>3, WithRun DEF DeliveryInv, MessagesAreCounted, SessionType, DriverType

LEMMA StageCancelledKeeps == DeliveryInv /\ StageCancelled => DeliveryInv' /\ RunStep
<1> SUFFICES ASSUME DeliveryInv, StageCancelled PROVE DeliveryInv' /\ RunStep
  OBVIOUS
<1>1. /\ driver.pc = "model" /\ session' = Heard(session)
      /\ driver' = [driver EXCEPT !.pc = "boundary", !.sub = [kind |-> "cancelled"]]
      /\ repo' = repo /\ env' = env
  BY DEF StageCancelled, At
<1>2. [kind |-> "cancelled"] \in Submission
  BY DEF Submission
<1>3. /\ driver' \in DriverType /\ driver'.pc = "boundary" /\ driver'.run = driver.run
      /\ driver'.base = driver.base /\ driver'.control = driver.control
      /\ driver'.from = driver.from /\ driver'.raced = driver.raced
      /\ driver'.left = driver.left
  <2> DEFINE c == [kind |-> "cancelled"]
  <2>1. driver \in DriverType /\ driver' = [driver EXCEPT !.pc = "boundary", !.sub = c]
    BY <1>1, StagePosition, WithRun
  <2>2. c \in Submission
    BY <1>2
  <2> HIDE DEF c
  <2> QED BY <2>1, <2>2 DEF DriverType, Positions
<1>4. GoesTo("boundary", driver.run) /\ driver'.sub \in Submission
  <2>1. driver'.sub = [kind |-> "cancelled"]
    BY <1>1, StagePosition, WithRun DEF DriverType
  <2> QED BY <1>2, <1>3, <2>1 DEF GoesTo
<1>5. KeepsStored /\ session'.pending <= session.pending /\ session'.pending \in Nat
  BY <1>1, HeardKeeps, StagePosition, WithRun DEF KeepsStored
<1>6. driver'.left + session'.pending <= StageSteps + env["messages"]
  BY <1>1, <1>3, <1>5, StagePosition
<1> QED BY <1>1, <1>4, <1>5, <1>6, StagePosition, WithRun, StageKeeps

LEMMA StageStepKeeps == DeliveryInv /\ StageStep => DeliveryInv' /\ RunStep
<1> SUFFICES ASSUME DeliveryInv, StageStep PROVE DeliveryInv' /\ RunStep
  OBVIOUS
<1> DEFINE s == RecordUsage(driver.run, StepUsage)
           h == Heard(session)
           t == Checkpointed(h, driver')
           pc == IF IsTerminal(s) THEN "error" ELSE "acted"
           n == driver.left - 1
<1>1. /\ driver.pc = "model" /\ driver.left > 0
      /\ driver' = [driver EXCEPT !.run = s, !.left = n, !.pc = pc]
      /\ session' = t /\ repo' = repo /\ env' = env
  BY DEF StageStep, At, ChargeCheckpointed, DriverType
<1>2. /\ Sound(s) /\ s.stage # "Ready"
      /\ ~IsTerminal(s) => s.stage = driver.run.stage
      /\ Charges(s)
  BY <1>1, StagePosition, WithRun, RecordUsageIsSound DEF Charges
<1> HIDE DEF s
<1>3. s.outcome \notin SuccessOutcomes /\ s \in WorkflowRun
  BY <1>2 DEF Sound
<1>4. n \in 0 .. StageSteps + MaxMessages /\ n + 1 = driver.left
  BY <1>1, StagePosition
<1> HIDE DEF n
<1>5. pc \in {"error", "acted"} /\ pc \in Positions
  BY DEF Positions
<1>6. /\ driver' \in DriverType /\ driver'.pc = pc /\ driver'.run = s
      /\ driver'.base = driver.base /\ driver'.control = driver.control
      /\ driver'.from = driver.from /\ driver'.raced = driver.raced
      /\ driver'.left = n
  <2>1. driver \in DriverType
    BY <1>1, StagePosition, WithRun
  <2> HIDE DEF pc
  <2> QED BY <1>1, <1>3, <1>4, <1>5, <2>1 DEF DriverType
<1>7. GoesTo(pc, s)
  BY <1>6 DEF GoesTo
<1>8. /\ h \in SessionType /\ h.status = session.status /\ h.baseline = session.baseline
      /\ h.archived = session.archived
      /\ h.pending \in Nat /\ h.pending <= session.pending
  BY <1>1, HeardKeeps, StagePosition, WithRun
<1> HIDE DEF h
<1>9. /\ t \in SessionType /\ t.status = h.status /\ t.baseline = h.baseline
      /\ t.pending = h.pending
      /\ t.saved = IF EndsRun(s) THEN None
                   ELSE [run |-> s, base |-> driver'.base, control |-> driver'.control,
                         from |-> driver'.from]
      /\ t.archived = IF EndsRun(s) THEN s.outcome ELSE h.archived
  <2>1. driver'.run \in WorkflowRun /\ driver'.base # None /\ driver'.control # None
    BY <1>1, <1>3, <1>6, StagePosition, WithRun
  <2> DEFINE d == driver'
  <2>2. d \in DriverType /\ d.run \in WorkflowRun /\ d.base # None /\ d.control # None /\ d.run = s
    BY <1>6, <2>1
  <2>3. t = Checkpointed(h, d)
    OBVIOUS
  <2> HIDE DEF d, t
  <2>4. /\ t \in SessionType /\ t.status = h.status /\ t.baseline = h.baseline
        /\ t.pending = h.pending
        /\ t.saved = IF EndsRun(s) THEN None
                     ELSE [run |-> s, base |-> d.base, control |-> d.control,
                           from |-> d.from]
        /\ t.archived = IF EndsRun(s) THEN s.outcome ELSE h.archived
    BY <1>8, <2>2, <2>3, CheckpointStoresIn
  <2> QED BY <2>4 DEF d
<1> HIDE DEF t
<1>10. Stores(s) /\ session'.pending <= session.pending /\ session'.pending \in Nat
  BY <1>1, <1>8, <1>9 DEF Stores
<1>11. driver'.left + session'.pending <= StageSteps + env["messages"]
  BY <1>4, <1>6, <1>10, <1>1, StagePosition
<1>12. /\ pc \in {"model", "acted", "submission"} => ~IsTerminal(s)
       /\ pc \in {"model", "acted"} => s.stage \in ModelStages
       /\ pc \notin Reporting
  BY <1>1, <1>2, StagePosition DEF Stage, Reporting
<1>13. driver.pc \in HasRun /\ driver.pc # "landed" /\ ~IsTerminal(driver.run) /\ repo \in RepoType
  BY <1>1, StagePosition, WithRun
<1>14. repo' \in RepoType /\ repo'.log = repo.log /\ UNCHANGED env
  BY <1>1, <1>13
<1> HIDE DEF pc
<1> QED
  BY <1>2, <1>3, <1>5, <1>7, <1>10, <1>11, <1>12, <1>13, <1>14, StoringKeeps
  DEF SuccessOutcomes

LEMMA StageWorksKeeps == DeliveryInv /\ StageWorks => DeliveryInv' /\ RunStep
<1> SUFFICES ASSUME DeliveryInv, StageWorks PROVE DeliveryInv' /\ RunStep
  OBVIOUS
<1>1. /\ driver.pc = "acted" /\ driver' = [driver EXCEPT !.pc = "model"]
      /\ session' = session /\ env' = env
  BY DEF StageWorks, At
<1>2. /\ driver \in DriverType /\ session \in SessionType /\ repo \in RepoType
  BY DEF DeliveryInv, TypeOK
<1>3. repo' \in RepoType /\ repo'.log = repo.log
  BY <1>2 DEF StageWorks, RepoType
<1>4. GoesTo("model", driver.run) /\ driver'.left = driver.left
  BY <1>1, <1>2 DEF GoesTo, DriverType, Positions
<1>5. KeepsStored /\ session'.pending = session.pending
  BY <1>1, <1>2 DEF KeepsStored
<1> QED BY <1>1, <1>3, <1>4, <1>5, StagePosition, StageKeeps

LEMMA SubmissionsAreTyped ==
    ASSUME DeliveryInv, At("acted"), NEW sub \in Submissions
    PROVE  sub \in Submission
<1>1. Stage \in ModelStages /\ Sound(driver.run) /\ driver.run \in WorkflowRun
      /\ repo.content \in Contents
  BY StagePosition, WithRun DEF At
<1>2. Stage # "Planning" => driver.run.plan \in Plans
  BY <1>1
  DEF Stage, Sound, WorkStage, ActiveStages, ModelStages, Authoring, WorkflowRun
<1>3. Stage = "CodeReview" => driver.run.delivery.fingerprint \in Contents
  BY <1>1 DEF Stage, Sound, WorkStage, WorkflowRun, DeliveryType
<1>4. CASE Stage \in {"Planning", "PlanRevision"}
  BY <1>4 DEF Submissions, Submission
<1>5. CASE Stage = "PlanReview"
  <2>1. [plan : {driver.run.plan}, blocking : SUBSET Challenges] \subseteq PlanReviewArtifact
    BY <1>2, <1>5 DEF PlanReviewArtifact
  <2>2. sub \in [kind : {"plan_review"}, valid : BOOLEAN,
                 body : [plan : {driver.run.plan}, blocking : SUBSET Challenges]]
    BY <1>5 DEF Submissions
  <2>3. sub \in [kind : {"plan_review"}, body : PlanReviewArtifact, valid : BOOLEAN]
    BY <2>1, <2>2
  <2> QED BY <2>3 DEF Submission
<1>6. CASE Stage \in {"Implementing", "Repairing"}
  <2>1. [plan : {driver.run.plan}, content : {repo.content}, no_change : BOOLEAN]
          \subseteq Implementation
    BY <1>1, <1>2, <1>6 DEF Implementation
  <2>2. \/ sub \in [kind : {"implementation"}, valid : BOOLEAN,
                    body : [plan : {driver.run.plan}, content : {repo.content},
                            no_change : BOOLEAN]]
        \/ sub \in [kind : {"replan"}]
    BY <1>6 DEF Submissions
  <2>3. \/ sub \in [kind : {"implementation"}, body : Implementation, valid : BOOLEAN]
        \/ sub \in [kind : {"cancelled", "replan"}]
    BY <2>1, <2>2
  <2> QED BY <2>3 DEF Submission
<1>7. CASE Stage = "CodeReview"
  <2>1. [content : {driver.run.delivery.fingerprint}, verdict : Verdicts]
          \subseteq CodeReviewArtifact
    BY <1>3, <1>7 DEF CodeReviewArtifact
  <2>2. sub \in [kind : {"code_review"}, valid : BOOLEAN,
                 body : [content : {driver.run.delivery.fingerprint}, verdict : Verdicts]]
    BY <1>7 DEF Submissions
  <2>3. sub \in [kind : {"code_review"}, body : CodeReviewArtifact, valid : BOOLEAN]
    BY <2>1, <2>2
  <2> QED BY <2>3 DEF Submission
<1> QED
  BY <1>1, <1>4, <1>5, <1>6, <1>7 DEF ModelStages, Authoring

LEMMA StageSubmitsKeeps == DeliveryInv /\ StageSubmits => DeliveryInv' /\ RunStep
<1> SUFFICES ASSUME DeliveryInv, StageSubmits PROVE DeliveryInv' /\ RunStep
  OBVIOUS
<1>1. driver.pc = "acted" /\ repo' = repo /\ env' = env
  BY DEF StageSubmits, At
<1>2. /\ driver \in DriverType /\ session \in SessionType /\ repo \in RepoType
  BY DEF DeliveryInv, TypeOK
<1>3. CASE HasMessages /\ Stage \in Authoring
  <2> DEFINE n == driver.left + 1
  <2>1. /\ session' = Heard(session)
        /\ driver' = [driver EXCEPT !.pc = "model", !.left = n]
    BY <1>3 DEF StageSubmits
  <2>2. session'.pending = 0 /\ session.pending > 0 /\ KeepsStored
    BY <1>2, <1>3, <2>1, HeardKeeps DEF HasMessages, KeepsStored
  <2>3. n \in 0 .. StageSteps + MaxMessages /\ n <= StageSteps + env["messages"]
    BY <1>1, <2>2, StagePosition
  <2> HIDE DEF n
  <2>4. GoesTo("model", driver.run) /\ driver'.left = n
    BY <1>2, <2>1, <2>3 DEF GoesTo, DriverType, Positions
  <2>5. session'.pending <= session.pending /\ driver'.left + session'.pending <= StageSteps + env["messages"]
    BY <1>1, <2>2, <2>3, <2>4, StagePosition
  <2> QED BY <1>1, <1>2, <2>2, <2>4, <2>5, StageKeeps
<1>4. CASE ~(HasMessages /\ Stage \in Authoring)
  <2>1. PICK sub \in Submissions : driver' = [driver EXCEPT !.pc = "boundary", !.sub = sub]
    BY <1>4 DEF StageSubmits
  <2>2. sub \in Submission
    BY <1>1, SubmissionsAreTyped DEF At
  <2>3. /\ GoesTo("boundary", driver.run) /\ driver'.left = driver.left
        /\ driver'.sub \in Submission
    BY <1>2, <2>1, <2>2 DEF GoesTo, DriverType, Positions
  <2>4. session' = session /\ KeepsStored
    BY <1>2, <1>4 DEF StageSubmits, KeepsStored
  <2> QED BY <1>1, <1>2, <2>3, <2>4, StagePosition, StageKeeps
<1> QED BY <1>3, <1>4

LEMMA StageGivesUpKeeps == DeliveryInv /\ StageGivesUp => DeliveryInv' /\ RunStep
<1> SUFFICES ASSUME DeliveryInv, StageGivesUp PROVE DeliveryInv' /\ RunStep
  OBVIOUS
<1> DEFINE c == [kind |-> "stopped",
                 cause |-> IF At("model") THEN "Other" ELSE "DeterministicRepeatLimit"]
<1>1. /\ driver.pc \in {"model", "acted"} /\ session' = session /\ repo' = repo /\ env' = env
      /\ driver' = [driver EXCEPT !.pc = "boundary", !.sub = c]
  BY DEF StageGivesUp, At
<1>2. /\ driver \in DriverType /\ session \in SessionType /\ repo \in RepoType
  BY DEF DeliveryInv, TypeOK
<1>3. c \in Submission
  BY DEF Submission
<1> HIDE DEF c
<1>4. /\ GoesTo("boundary", driver.run) /\ driver'.left = driver.left
      /\ driver'.sub \in Submission
  BY <1>1, <1>2, <1>3 DEF GoesTo, DriverType, Positions
<1>5. KeepsStored
  BY <1>1, <1>2 DEF KeepsStored
<1> QED BY <1>1, <1>2, <1>4, <1>5, StagePosition, StageKeeps

-----------------------------------------------------------------------------
(* The boundary after a stage, and what it handed over *)

LEMMA BoundaryPosition ==
    ASSUME DeliveryInv, driver.pc \in {"boundary", "submission"}
    PROVE  /\ driver.pc \in HasRun \ {"landed"} /\ ~IsTerminal(driver.run)
           /\ driver.sub \in Submission
BY DEF DeliveryInv, RunFitsPosition, HasRun, InStage, SinceLoop

LEMMA BoundaryBlocksKeeps == DeliveryInv /\ BoundaryBlocks => DeliveryInv' /\ RunStep
<1> SUFFICES ASSUME DeliveryInv, BoundaryBlocks PROVE DeliveryInv' /\ RunStep
  OBVIOUS
<1>1. /\ driver.pc \in HasRun /\ ~IsTerminal(driver.run) /\ UNCHANGED <<repo, env>>
      /\ Stops(ContentBlock(driver.run)) \/ Stops(ControlBlock(driver.run))
  BY BoundaryPosition DEF BoundaryBlocks, At
<1>2. /\ Sound(ContentBlock(driver.run)) /\ IsTerminal(ContentBlock(driver.run))
      /\ ContentBlock(driver.run).outcome \notin SuccessOutcomes
      /\ Sound(ControlBlock(driver.run)) /\ IsTerminal(ControlBlock(driver.run))
      /\ ControlBlock(driver.run).outcome \notin SuccessOutcomes
      /\ Charges(ContentBlock(driver.run)) /\ Charges(ControlBlock(driver.run))
  <2>1. /\ Sound(driver.run) /\ GoesOn(driver.run, ContentBlock(driver.run))
        /\ GoesOn(driver.run, ControlBlock(driver.run))
    BY <1>1, WithRun, BlocksAreSound
  <2> QED BY <1>1, <2>1, BlocksAreSound, GoesOnCharges DEF GoesOn, Sound
<1> QED BY <1>1, <1>2, StopKeeps

LEMMA GoesOnItself ==
    ASSUME NEW r, Sound(r), ~IsTerminal(r)
    PROVE  GoesOn(r, r)
BY DEF GoesOn, IsTerminal, TerminalStages

LEMMA BoundaryRoutesKeeps == DeliveryInv /\ BoundaryRoutes => DeliveryInv' /\ RunStep
<1> SUFFICES ASSUME DeliveryInv, BoundaryRoutes PROVE DeliveryInv' /\ RunStep
  OBVIOUS
<1>1. /\ driver.pc \in HasRun \ {"landed"} /\ driver.pc \in HasRun /\ ~IsTerminal(driver.run)
      /\ repo' = repo /\ env' = env
      /\ Saves("loop", driver.run) \/ RoutesIntervention
  BY BoundaryPosition DEF BoundaryRoutes, BoundaryIsSound, At
<1>2. GoesOn(driver.run, driver.run) /\ repo \in RepoType
  BY <1>1, WithRun, GoesOnItself
<1> QED BY <1>1, <1>2, SavingKeeps, RoutingKeeps

LEMMA BoundaryPassesKeeps == DeliveryInv /\ BoundaryPasses => DeliveryInv' /\ RunStep
<1> SUFFICES ASSUME DeliveryInv, BoundaryPasses PROVE DeliveryInv' /\ RunStep
  OBVIOUS
<1>1. /\ driver.pc \in HasRun \ {"landed"} /\ driver.pc \in HasRun /\ ~IsTerminal(driver.run)
      /\ repo' = repo /\ env' = env /\ driver.sub \in Submission
      /\ driver' = [driver EXCEPT !.pc = "submission"]
      /\ session' = Checkpointed(session, driver')
  BY BoundaryPosition DEF BoundaryPasses, BoundaryIsSound, At
<1>2. /\ Sound(driver.run) /\ driver.run \in WorkflowRun /\ repo \in RepoType
      /\ driver.run.outcome \notin SuccessOutcomes
  BY <1>1, WithRun DEF Sound, IsTerminal, TerminalStages
<1>3. /\ driver' \in DriverType /\ driver'.pc = "submission" /\ driver'.run = driver.run
      /\ driver'.base = driver.base /\ driver'.control = driver.control
      /\ driver'.from = driver.from /\ driver'.raced = driver.raced
      /\ driver'.left = driver.left /\ driver'.sub = driver.sub
  BY <1>1, WithRun DEF DriverType, Positions
<1>4. GoesTo("submission", driver.run)
  BY <1>3 DEF GoesTo
<1>5. Stores(driver.run) /\ session'.pending = session.pending
  BY <1>1, <1>2, <1>3, CheckpointStores, WithRun DEF Stores
<1> QED
  BY <1>1, <1>2, <1>3, <1>4, <1>5, StoringKeeps, WithRun DEF SuccessOutcomes, Reporting, Charges

LEMMA SubmissionFields ==
    ASSUME NEW sub \in Submission
    PROVE  /\ sub.kind \in {"cancelled", "stopped", "replan", "plan", "plan_review",
                            "implementation", "code_review"}
           /\ sub.kind = "stopped" => sub.cause \in Causes
           /\ sub.kind = "plan" => sub.body \in Plans
           /\ sub.kind = "plan_review" => sub.body \in PlanReviewArtifact
           /\ sub.kind = "implementation" => sub.body \in Implementation
           /\ sub.kind = "code_review" => sub.body \in CodeReviewArtifact
BY DEF Submission, Causes

LEMMA SubmissionMissingKeeps == DeliveryInv /\ SubmissionMissing => DeliveryInv' /\ RunStep
<1> SUFFICES ASSUME DeliveryInv, SubmissionMissing PROVE DeliveryInv' /\ RunStep
  OBVIOUS
<1>1. /\ driver.pc \in HasRun /\ ~IsTerminal(driver.run) /\ driver.sub \in Submission
      /\ UNCHANGED <<repo, env>> /\ driver.sub.kind \in {"cancelled", "stopped"}
      /\ IF driver.sub.kind = "cancelled" THEN Stops(Cancel(driver.run))
         ELSE Stops(Fail(driver.run, "StepLimit", driver.sub.cause))
  BY BoundaryPosition DEF SubmissionMissing, HasSubmission, At
<1>2. CASE driver.sub.kind = "cancelled"
  <2>1. /\ Sound(Cancel(driver.run)) /\ IsTerminal(Cancel(driver.run))
        /\ Cancel(driver.run).outcome \notin SuccessOutcomes
        /\ GoesOn(driver.run, Cancel(driver.run)) /\ Sound(driver.run)
    BY <1>1, WithRun, CancelIsSound DEF GoesOn, Sound, IsTerminal, TerminalStages
  <2> QED BY <1>1, <1>2, <2>1, GoesOnCharges, StopKeeps
<1>3. CASE driver.sub.kind = "stopped"
  <2> DEFINE s == Fail(driver.run, "StepLimit", driver.sub.cause)
  <2>1. driver.sub.cause \in Causes
    BY <1>1, <1>3, SubmissionFields
  <2>2. Sound(driver.run) /\ GoesOn(driver.run, s) /\ s.stage = "Failed"
    BY <1>1, <2>1, WithRun, FailIsSound DEF Outcomes, SuccessOutcomes
  <2>3. Stops(s)
    BY <1>1, <1>3
  <2> HIDE DEF s
  <2>4. Sound(s) /\ IsTerminal(s) /\ s.outcome \notin SuccessOutcomes
    BY <2>2 DEF GoesOn, Sound, IsTerminal, TerminalStages
  <2> QED BY <1>1, <2>2, <2>3, <2>4, GoesOnCharges, StopKeeps
<1> QED BY <1>1, <1>2, <1>3

LEMMA AppliedIsSound ==
    ASSUME DeliveryInv, driver.pc = "submission", driver.sub \in Submission,
           HasSubmission, Accepts(driver.sub)
    PROVE  GoesOn(driver.run, Applied(driver.sub))
<1> DEFINE r == driver.run  sub == driver.sub
<1>1. Sound(r) /\ ~IsTerminal(r) /\ repo.content \in Contents
  BY BoundaryPosition, WithRun
<1>2. /\ sub.kind \in {"replan", "plan", "plan_review", "implementation", "code_review"}
      /\ sub.kind = "plan" => sub.body \in Plans
      /\ sub.kind = "plan_review" => sub.body \in PlanReviewArtifact
      /\ sub.kind = "implementation" => sub.body \in Implementation
      /\ sub.kind = "code_review" => sub.body \in CodeReviewArtifact
  BY SubmissionFields DEF HasSubmission
<1>3. CASE sub.kind = "replan"
  BY <1>1, <1>3, RequestReplanIsSound DEF Applied
<1>4. CASE sub.kind = "plan"
  BY <1>1, <1>2, <1>4, SubmitPlanIsSound DEF Applied
<1>5. CASE sub.kind = "plan_review"
  BY <1>1, <1>2, <1>5, ReviewPlanIsSound DEF Applied, Accepts
<1>6. CASE sub.kind = "implementation"
  BY <1>1, <1>2, <1>6, SubmitImplementationIsSound
  DEF Applied, Accepts, CanSubmitImplementation
<1>7. CASE sub.kind = "code_review"
  BY <1>1, <1>2, <1>7, ReviewCodeIsSound DEF Applied, Accepts
<1> QED BY <1>2, <1>3, <1>4, <1>5, <1>6, <1>7

LEMMA SubmissionAcceptedKeeps == DeliveryInv /\ SubmissionAccepted => DeliveryInv' /\ RunStep
<1> SUFFICES ASSUME DeliveryInv, SubmissionAccepted PROVE DeliveryInv' /\ RunStep
  OBVIOUS
<1> DEFINE s == Applied(driver.sub)
<1>1. /\ driver.pc = "submission" /\ HasSubmission /\ Accepts(driver.sub)
      /\ driver' = [driver EXCEPT !.pc = "loop", !.run = s, !.sub = None, !.rejects = 0]
      /\ session' = Checkpointed(session, driver') /\ UNCHANGED <<repo, env>>
  BY DEF SubmissionAccepted, HasSubmission, SavesAccepted, At
<1>2. /\ driver.pc \in HasRun \ {"landed"} /\ ~IsTerminal(driver.run)
      /\ driver.sub \in Submission
  BY <1>1, BoundaryPosition
<1>3. GoesOn(driver.run, s)
  BY <1>1, <1>2, AppliedIsSound
<1>4. 0 \in 0 .. MaxIdenticalFailures - 1
  BY DriverLimits
<1> HIDE DEF s
<1> QED BY <1>1, <1>2, <1>3, <1>4, LoopingKeeps

LEMMA SubmissionRejectedKeeps == DeliveryInv /\ SubmissionRejected => DeliveryInv' /\ RunStep
<1> SUFFICES ASSUME DeliveryInv, SubmissionRejected PROVE DeliveryInv' /\ RunStep
  OBVIOUS
<1> DEFINE cause == IF Stage \in PlanningStages THEN "PlanningRejected" ELSE "Other"
           s == Fail(driver.run, RejectionOutcome, cause)
<1>1. PICK repeats \in {1, driver.rejects + 1} :
        IF GivesUp(repeats) THEN Stops(s)
        ELSE /\ driver' = [driver EXCEPT !.pc = "loop", !.sub = None, !.rejects = repeats]
             /\ session' = Checkpointed(session, driver')
  BY DEF SubmissionRejected
<1>2. driver.pc = "submission" /\ UNCHANGED <<repo, env>>
  BY DEF SubmissionRejected, HasSubmission, At
<1>3. /\ driver.pc \in HasRun \ {"landed"} /\ ~IsTerminal(driver.run) /\ driver.pc \in HasRun
      /\ Sound(driver.run) /\ driver \in DriverType
  BY <1>2, BoundaryPosition, WithRun
<1>4. CASE GivesUp(repeats)
  <2>1. RejectionOutcome \in Outcomes \ SuccessOutcomes /\ cause \in Causes
    BY DEF RejectionOutcome, Outcomes, SuccessOutcomes, Causes
  <2> HIDE DEF cause
  <2>2. GoesOn(driver.run, s) /\ s.stage = "Failed"
    BY <1>3, <2>1, FailIsSound
  <2>3. Stops(s)
    BY <1>1, <1>4
  <2> HIDE DEF s
  <2>4. Sound(s) /\ IsTerminal(s) /\ s.outcome \notin SuccessOutcomes
    BY <2>2 DEF GoesOn, Sound, IsTerminal, TerminalStages
  <2> QED BY <1>2, <1>3, <2>2, <2>3, <2>4, GoesOnCharges, StopKeeps
<1>5. CASE ~GivesUp(repeats)
  <2>1. repeats \in 0 .. MaxIdenticalFailures - 1
    BY <1>3, <1>5, DriverLimits DEF GivesUp, DriverType
  <2>2. /\ driver' = [driver EXCEPT !.pc = "loop", !.run = driver.run, !.sub = None,
                                    !.rejects = repeats]
        /\ session' = Checkpointed(session, driver')
    BY <1>1, <1>3, <1>5 DEF DriverType
  <2> QED BY <1>2, <1>3, <2>1, <2>2, GoesOnItself, LoopingKeeps
<1> QED BY <1>4, <1>5

-----------------------------------------------------------------------------
(* The checks *)

\* Where a step goes on towards the checks or the commit, with the session as it is.
LEMMA PositionOnly ==
    ASSUME DeliveryInv, driver.pc \in HasRun, NEW pc \in Positions,
           driver' = [driver EXCEPT !.pc = pc]
    PROVE  /\ driver' \in DriverType /\ driver'.pc = pc /\ driver'.run = driver.run
           /\ driver'.base = driver.base /\ driver'.control = driver.control
           /\ driver'.from = driver.from /\ driver'.left = driver.left
           /\ driver'.raced = driver.raced
BY WithRun DEF DriverType

LEMMA UnchangedIsStored ==
    ASSUME DeliveryInv, UNCHANGED session
    PROVE  KeepsStored /\ session'.pending = session.pending
BY DEF KeepsStored, DeliveryInv, TypeOK

LEMMA ChecksPosition ==
    ASSUME DeliveryInv, driver.pc \in {"checking", "checked"}
    PROVE  /\ driver.pc \in HasRun \ {"landed"} /\ driver.pc \in HasRun
           /\ driver.pc \in SinceLoop \ {"staged", "landed"}
           /\ Stage = "Checking" /\ ~IsTerminal(driver.run)
           /\ Sound(driver.run) /\ driver.run.outcome \notin SuccessOutcomes
<1>1. driver.pc \in HasRun
  BY DEF HasRun, SinceLoop
<1> QED
  BY <1>1, WithRun
  DEF DeliveryInv, RunFitsPosition, SinceLoop, Stage, Sound, IsTerminal, TerminalStages

LEMMA ChecksBeginKeeps == DeliveryInv /\ ChecksBegin => DeliveryInv' /\ RunStep
<1> SUFFICES ASSUME DeliveryInv, ChecksBegin PROVE DeliveryInv' /\ RunStep
  OBVIOUS
<1>1. /\ driver.pc = "loop" /\ driver.pc \in HasRun /\ ~IsTerminal(driver.run)
      /\ Stage = "Checking" /\ ~At("off") /\ UNCHANGED <<repo, env>>
      /\ \/ driver' = [driver EXCEPT !.pc = "checking"] /\ UNCHANGED session
         \/ RunnerFails
  BY LoopPosition DEF ChecksBegin, LoopActive, At
<1>2. CASE driver' = [driver EXCEPT !.pc = "checking"] /\ UNCHANGED session
  <2>1. /\ "checking" \in Positions /\ "checking" \notin InCommit
        /\ driver.pc \in SinceLoop \ {"staged", "landed"}
    BY <1>1 DEF Positions, InCommit, SinceLoop
  <2> QED
    BY <1>1, <1>2, <2>1, PositionOnly, UnchangedIsStored, AdvancingKeeps
<1> QED BY <1>1, <1>2, FailingKeeps

LEMMA ExecutorBlocksKeeps == DeliveryInv /\ ExecutorBlocks => DeliveryInv' /\ RunStep
<1> SUFFICES ASSUME DeliveryInv, ExecutorBlocks PROVE DeliveryInv' /\ RunStep
  OBVIOUS
<1> DEFINE s == Block(driver.run, "ExecutorUnavailable", "ExecutorUnavailable")
<1>1. driver.pc = "checking" /\ Saves("loop", s) /\ repo' = repo /\ env' = env
  BY DEF ExecutorBlocks, At
<1>2. GoesOn(driver.run, s)
  BY <1>1, ChecksPosition, BlocksAreSound
<1> HIDE DEF s
<1> QED BY <1>1, <1>2, ChecksPosition, WithRun, SavingKeeps

LEMMA ChecksReturnKeeps == DeliveryInv /\ ChecksReturn => DeliveryInv' /\ RunStep
<1> SUFFICES ASSUME DeliveryInv, ChecksReturn PROVE DeliveryInv' /\ RunStep
  OBVIOUS
<1> DEFINE f == Fail(driver.run, "ChecksFailed", "RepositoryContentChanged")
<1>1. /\ driver.pc = "checking" /\ repo' = repo /\ env' = env
      /\ \/ Saves("loop", ControlBlock(driver.run))
         \/ Saves("loop", f)
         \/ RoutesIntervention
         \/ driver' = [driver EXCEPT !.pc = "checked"] /\ UNCHANGED session
  BY DEF ChecksReturn, At
<1>2. GoesOn(driver.run, ControlBlock(driver.run))
  BY <1>1, ChecksPosition, BlocksAreSound
<1>3. GoesOn(driver.run, f)
  BY <1>1, ChecksPosition, FailIsSound DEF Outcomes, SuccessOutcomes, Causes
<1> HIDE DEF f
<1>4. CASE Saves("loop", ControlBlock(driver.run))
  BY <1>1, <1>2, <1>4, ChecksPosition, WithRun, SavingKeeps
<1>5. CASE Saves("loop", f)
  BY <1>1, <1>3, <1>5, ChecksPosition, WithRun, SavingKeeps
<1>6. CASE RoutesIntervention
  BY <1>1, <1>6, ChecksPosition, RoutingKeeps
<1>7. CASE driver' = [driver EXCEPT !.pc = "checked"] /\ UNCHANGED session
  <2>1. "checked" \in Positions /\ "checked" \notin InCommit
    BY DEF Positions, InCommit
  <2> QED
    BY <1>1, <1>7, <2>1, ChecksPosition, PositionOnly, UnchangedIsStored, AdvancingKeeps
<1> QED BY <1>1, <1>4, <1>5, <1>6, <1>7

\* A run that ends inside the checks hears the queue first, or closes it.
LEMMA SealingKeeps ==
    ASSUME DeliveryInv, driver.pc = "checked", NEW s, Sound(s), s.outcome # "Ready",
           s.steps = driver.run.steps, EndsInsideChecks(s), UNCHANGED <<repo, env>>
    PROVE  DeliveryInv' /\ RunStep
<1>1. CASE HasMessages
  BY <1>1, ChecksPosition, RoutingKeeps DEF EndsInsideChecks, Seals
<1>2. CASE ~HasMessages
  <2> DEFINE t == Checkpointed(session, driver')
  <2>1. /\ driver' = [driver EXCEPT !.pc = "loop", !.run = s]
        /\ session' = [t EXCEPT !.window = FALSE]
    BY <1>2 DEF EndsInsideChecks, Seals
  <2>2. s \in WorkflowRun
    BY DEF Sound
  <2>3. /\ driver' \in DriverType /\ driver'.pc = "loop" /\ driver'.run = s
        /\ driver'.base = driver.base /\ driver'.control = driver.control
        /\ driver'.from = driver.from /\ driver'.raced = driver.raced
        /\ driver'.left = driver.left
    BY <2>1, <2>2, ChecksPosition, WithRun DEF DriverType, Positions
  <2>4. GoesTo("loop", s)
    BY <2>3 DEF GoesTo
  <2>5. /\ t \in SessionType
        /\ t.status = session.status /\ t.baseline = session.baseline
        /\ t.pending = session.pending
        /\ t.saved = IF EndsRun(s) THEN None
                     ELSE [run |-> s, base |-> driver'.base,
                           control |-> driver'.control, from |-> driver'.from]
        /\ t.archived = IF EndsRun(s) THEN s.outcome ELSE session.archived
    BY <2>2, <2>3, CheckpointStores, ChecksPosition, WithRun
  <2> HIDE DEF t
  <2>6. /\ session' \in SessionType
        /\ session'.status = t.status /\ session'.baseline = t.baseline
        /\ session'.pending = t.pending /\ session'.saved = t.saved
        /\ session'.archived = t.archived /\ session'.window = FALSE
    BY <2>1, <2>5 DEF SessionType
  <2>7. Stores(s) /\ session'.pending = session.pending /\ session'.window = FALSE
    BY <2>5, <2>6 DEF Stores
  <2>8. session.pending = 0
    BY <1>2, ChecksPosition, WithRun DEF HasMessages
  <2>9. Charges(s)
    BY ChecksPosition DEF Charges, Sound, WorkflowRun
  <2> QED
    BY <2>3, <2>4, <2>7, <2>8, <2>9, ChecksPosition, WithRun, StoringKeeps DEF Reporting
<1> QED BY <1>1, <1>2

LEMMA ContractRefusesKeeps == DeliveryInv /\ ContractRefuses => DeliveryInv' /\ RunStep
<1> SUFFICES ASSUME DeliveryInv, ContractRefuses PROVE DeliveryInv' /\ RunStep
  OBVIOUS
<1> DEFINE s == Fail(driver.run, "ContractUnsatisfied", "Other")
<1>1. driver.pc = "checked" /\ EndsInsideChecks(s) /\ UNCHANGED <<repo, env>>
  BY DEF ContractRefuses, At
<1>2. Sound(s) /\ s.stage # "Ready" /\ s.steps = driver.run.steps
  BY <1>1, ChecksPosition, FailIsSound DEF GoesOn, Outcomes, SuccessOutcomes, Causes
<1> HIDE DEF s
<1>3. s.outcome # "Ready"
  BY <1>2 DEF Sound, SuccessOutcomes
<1> QED BY <1>1, <1>2, <1>3, SealingKeeps

LEMMA ChecksPassedKeeps == DeliveryInv /\ ChecksPassed => DeliveryInv' /\ RunStep
<1> SUFFICES ASSUME DeliveryInv, ChecksPassed PROVE DeliveryInv' /\ RunStep
  OBVIOUS
<1> DEFINE s == PassChecks(driver.run, Checks, Passing)
<1>1. /\ driver.pc = "checked" /\ repo' = repo /\ env' = env
      /\ IF ClaimsNoChange(driver.run) THEN EndsInsideChecks(s) ELSE Saves("loop", s)
  BY DEF ChecksPassed, At
<1>2. /\ Sound(s) /\ s.steps = driver.run.steps
      /\ ClaimsNoChange(driver.run) => s.outcome = "NoChange"
      /\ ~ClaimsNoChange(driver.run) => s.stage = "CodeReview"
  BY <1>1, ChecksPosition, PassChecksIsSound DEF Stage
<1> HIDE DEF s
<1>3. CASE ClaimsNoChange(driver.run)
  BY <1>1, <1>2, <1>3, SealingKeeps
<1>4. CASE ~ClaimsNoChange(driver.run)
  <2>1. GoesOn(driver.run, s)
    BY <1>2, <1>4 DEF GoesOn
  <2> QED BY <1>1, <1>4, <2>1, ChecksPosition, WithRun, SavingKeeps
<1> QED BY <1>3, <1>4

LEMMA ChecksFailedKeeps == DeliveryInv /\ ChecksFailed => DeliveryInv' /\ RunStep
<1> SUFFICES ASSUME DeliveryInv, ChecksFailed PROVE DeliveryInv' /\ RunStep
  OBVIOUS
<1> DEFINE s == FailChecks(driver.run, Checks, Failing)
<1>1. /\ driver.pc = "checked" /\ repo' = repo /\ env' = env
      /\ EndsInsideChecks(s) \/ Saves("loop", s)
  BY DEF ChecksFailed, At
<1>2. GoesOn(driver.run, s)
  BY <1>1, ChecksPosition, FailChecksIsSound DEF Stage
<1> HIDE DEF s
<1>3. Sound(s) /\ s.outcome # "Ready" /\ s.steps = driver.run.steps
  BY <1>2 DEF GoesOn, Sound, SuccessOutcomes
<1> QED BY <1>1, <1>2, <1>3, ChecksPosition, WithRun, SealingKeeps, SavingKeeps

-----------------------------------------------------------------------------
(* The commit *)

\* What is reviewed when the commit is due.
LEMMA CommitPosition ==
    ASSUME DeliveryInv, driver.pc \in InCommit
    PROVE  /\ driver.pc \in HasRun /\ ~IsTerminal(driver.run)
           /\ driver.run.stage = "Committing"
           /\ Sound(driver.run) /\ driver.run.outcome \notin SuccessOutcomes
           /\ ~session.window /\ session.pending = 0
           /\ driver.run.delivery.code_review.content = driver.run.delivery.fingerprint
<1>1. /\ driver.pc \in HasRun /\ driver.run.stage = "Committing"
      /\ ~session.window /\ session.pending = 0
  BY DEF DeliveryInv, RunFitsPosition, InCommit, HasRun, SinceLoop, Stage
<1>2. Sound(driver.run)
  BY <1>1, WithRun
<1> QED
  BY <1>1, <1>2 DEF Sound, WorkStage, IsTerminal, TerminalStages

LEMMA SealForCommitKeeps == DeliveryInv /\ SealForCommit => DeliveryInv' /\ RunStep
<1> SUFFICES ASSUME DeliveryInv, SealForCommit PROVE DeliveryInv' /\ RunStep
  OBVIOUS
<1>1. /\ driver.pc = "loop" /\ driver.pc \in HasRun /\ ~IsTerminal(driver.run)
      /\ Stage = "Committing" /\ ~HasMessages
      /\ driver' = [driver EXCEPT !.pc = "sealed"]
      /\ session' = [session EXCEPT !.window = FALSE] /\ UNCHANGED <<repo, env>>
  BY LoopPosition DEF SealForCommit, LoopActive, At
<1>2. session.pending = 0
  BY <1>1, WithRun DEF HasMessages
<1>3. KeepsStored /\ session'.pending = session.pending /\ ~session'.window
  BY <1>1, WithRun DEF KeepsStored, SessionType
<1>4. "sealed" \in Positions /\ driver.pc \in SinceLoop \ {"staged", "landed"}
  BY <1>1 DEF Positions, SinceLoop
<1> QED
  BY <1>1, <1>2, <1>3, <1>4, PositionOnly, AdvancingKeeps

LEMMA VerifyCommitKeeps == DeliveryInv /\ VerifyCommit => DeliveryInv' /\ RunStep
<1> SUFFICES ASSUME DeliveryInv, VerifyCommit PROVE DeliveryInv' /\ RunStep
  OBVIOUS
<1>1. /\ driver.pc = "sealed" /\ driver.pc \in InCommit /\ repo' = repo /\ env' = env
  BY DEF VerifyCommit, At, InCommit
<1>2. CASE VerifiedForCommit
  <2>1. /\ driver' = [driver EXCEPT !.pc = "add", !.raced = FALSE] /\ UNCHANGED session
        /\ repo.content = driver.run.delivery.fingerprint
        /\ driver.control.head = Len(repo.log)
    BY <1>2, ControlIsAnchored DEF VerifyCommit, VerifiedForCommit, DeliveryInv, TypeOK
  <2>2. /\ driver' \in DriverType /\ driver'.pc = "add" /\ driver'.run = driver.run
        /\ driver'.base = driver.base /\ driver'.control = driver.control
        /\ driver'.from = driver.from /\ driver'.left = driver.left
    BY <1>1, <2>1, CommitPosition, WithRun DEF DriverType, Positions
  <2>3. driver.pc \in SinceLoop \ {"staged", "landed"}
    BY <1>1 DEF SinceLoop
  <2> QED
    BY <1>1, <2>1, <2>2, <2>3, CommitPosition, UnchangedIsStored, AdvancingKeeps DEF Stage
<1>3. CASE ~VerifiedForCommit
  <2>1. Saves("loop", ControlBlock(driver.run)) \/ Saves("loop", ContentBlock(driver.run))
    BY <1>3 DEF VerifyCommit
  <2>2. /\ GoesOn(driver.run, ControlBlock(driver.run))
        /\ GoesOn(driver.run, ContentBlock(driver.run))
    BY <1>1, CommitPosition, BlocksAreSound
  <2>3. driver.pc # "landed"
    BY <1>1
  <2> QED BY <1>1, <2>1, <2>2, <2>3, CommitPosition, WithRun, SavingKeeps
<1> QED BY <1>2, <1>3

LEMMA CommitBlockKeeps ==
    ASSUME DeliveryInv, driver.pc \in InCommit, Saves("loop", CommitBlock),
           repo' \in RepoType, repo'.log = repo.log, UNCHANGED env
    PROVE  DeliveryInv' /\ RunStep
<1>1. GoesOn(driver.run, CommitBlock) /\ IsTerminal(CommitBlock)
  BY CommitPosition, BlocksAreSound DEF CommitBlock
<1> QED BY <1>1, CommitPosition, SavingKeeps

LEMMA CommitRefusedKeeps == DeliveryInv /\ CommitRefused => DeliveryInv' /\ RunStep
<1> SUFFICES ASSUME DeliveryInv, CommitRefused PROVE DeliveryInv' /\ RunStep
  OBVIOUS
<1>1. driver.pc \in InCommit /\ Saves("loop", CommitBlock) /\ repo' = repo /\ env' = env
  BY DEF CommitRefused, At, InCommit
<1> QED BY <1>1, CommitBlockKeeps, CommitPosition, WithRun

\* The run that is recorded names HEAD, which holds what was reviewed.
LEMMA RecordingKeeps ==
    ASSUME DeliveryInv, driver.pc \in InCommit, RecordsCommit(Len(repo.log)),
           UNCHANGED <<repo, env>>,
           ~driver.raced => /\ HeadContent = driver.run.delivery.fingerprint
                            /\ HeadIsOurs \/ Len(repo.log) <= driver.from
    PROVE  DeliveryInv' /\ RunStep
<1> DEFINE oid == Len(repo.log)
           c == CompleteCommit(driver.run, oid)
           f == Fail(driver.run, "ContractUnsatisfied", "Other")
<1>1. /\ driver.pc \in HasRun /\ Sound(driver.run) /\ ~IsTerminal(driver.run)
      /\ driver.run.stage = "Committing" /\ session.pending = 0 /\ ~session.window
  BY CommitPosition
<1>2. oid \in Nat /\ oid \in DOMAIN repo.log /\ repo.log[oid] \in LogEntry
  BY LogType DEF DeliveryInv, TypeOK
<1>3. CASE Saves("loop", c)
  <2>1. /\ Sound(c) /\ c.stage = "Ready" /\ c.outcome = "Ready"
        /\ c.delivery.commit = oid
        /\ c.delivery.fingerprint = driver.run.delivery.fingerprint
        /\ c.steps = driver.run.steps
    BY <1>1, <1>2, CompleteCommitIsSound
  <2>2. ~driver.raced => NamesItsCommit(c)
    BY <1>2, <2>1 DEF NamesItsCommit, HeadContent, HeadIsOurs
  <2>3. c \in WorkflowRun /\ IsTerminal(c)
    BY <2>1 DEF Sound, IsTerminal, TerminalStages
  <2> HIDE DEF c
  <2>4. /\ driver' \in DriverType /\ driver'.pc = "loop" /\ driver'.run = c
        /\ driver'.base = driver.base /\ driver'.control = driver.control
        /\ driver'.from = driver.from /\ driver'.raced = driver.raced
        /\ driver'.left = driver.left
    BY <1>1, <1>3, <2>3, WithRun DEF Saves, DriverType, Positions
  <2>5. GoesTo("loop", c)
    BY <2>4 DEF GoesTo
  <2>6. session' = Checkpointed(session, driver')
    BY <1>3 DEF Saves
  <2>7. /\ Stores(c) /\ session'.pending = session.pending
        /\ session'.window = session.window
    BY <1>1, <2>3, <2>4, <2>6, CheckpointStores, WithRun DEF Stores
  <2>8. repo' \in RepoType /\ repo'.log = repo.log
    BY <1>1, WithRun
  <2>9. Charges(c)
    BY <1>1, <2>1 DEF Charges, Sound, WorkflowRun
  <2> QED
    BY <1>1, <1>2, <2>1, <2>2, <2>3, <2>4, <2>5, <2>7, <2>8, <2>9, StoringKeeps, WithRun
    DEF Reporting
<1>4. CASE Saves("loop", f)
  <2>1. GoesOn(driver.run, f) /\ f.stage = "Failed"
    BY <1>1, FailIsSound DEF Outcomes, SuccessOutcomes, Causes
  <2> HIDE DEF f
  <2>2. IsTerminal(f)
    BY <2>1 DEF IsTerminal, TerminalStages
  <2> QED BY <1>1, <1>4, <2>1, <2>2, WithRun, SavingKeeps
<1> QED BY <1>3, <1>4 DEF RecordsCommit

LEMMA CommitReusedKeeps == DeliveryInv /\ CommitReused => DeliveryInv' /\ RunStep
<1> SUFFICES ASSUME DeliveryInv, CommitReused PROVE DeliveryInv' /\ RunStep
  OBVIOUS
<1>1. /\ driver.pc = "add" /\ driver.pc \in InCommit /\ IsClean
      /\ RecordsCommit(Len(repo.log)) /\ UNCHANGED <<repo, env>>
  BY DEF CommitReused, At, InCommit
<1>2. ~driver.raced => /\ repo.content = driver.run.delivery.fingerprint
                       /\ driver.control.head = Len(repo.log)
  BY <1>1 DEF DeliveryInv, CommitIsReviewed, At
<1>3. Anchored(driver.control, driver.from)
  BY <1>1, CommitPosition DEF DeliveryInv, RunFitsPosition
<1>4. ~driver.raced => /\ HeadContent = driver.run.delivery.fingerprint
                       /\ HeadIsOurs \/ Len(repo.log) <= driver.from
  BY <1>1, <1>2, <1>3 DEF IsClean, Anchored, HeadIsOurs
<1> QED BY <1>1, <1>4, RecordingKeeps

LEMMA GitCommitFailsKeeps == DeliveryInv /\ GitCommitFails => DeliveryInv' /\ RunStep
<1> SUFFICES ASSUME DeliveryInv, GitCommitFails PROVE DeliveryInv' /\ RunStep
  OBVIOUS
<1>1. /\ driver.pc \in InCommit /\ Saves("loop", CommitBlock) /\ env' = env
      /\ repo' = [repo EXCEPT !.index = HeadContent]
  BY DEF GitCommitFails, At, InCommit
<1>2. HeadContent \in Contents
  BY LogType DEF DeliveryInv, TypeOK, HeadContent, LogEntry
<1>3. repo' \in RepoType /\ repo'.log = repo.log
  BY <1>1, <1>2, CommitPosition, WithRun DEF RepoType
<1> QED BY <1>1, <1>3, CommitBlockKeeps

LEMMA CommitLandedKeeps == DeliveryInv /\ CommitLanded => DeliveryInv' /\ RunStep
<1> SUFFICES ASSUME DeliveryInv, CommitLanded PROVE DeliveryInv' /\ RunStep
  OBVIOUS
<1>1. /\ driver.pc = "landed" /\ driver.pc \in InCommit /\ repo' = repo /\ env' = env
      /\ RecordsCommit(Len(repo.log)) \/ Saves("loop", CommitBlock)
  BY DEF CommitLanded, At, InCommit
<1>2. ~driver.raced => HeadContent = driver.run.delivery.fingerprint /\ HeadIsOurs
  BY <1>1 DEF DeliveryInv, CommitIsReviewed, At
<1> QED
  BY <1>1, <1>2, RecordingKeeps, CommitBlockKeeps, CommitPosition, WithRun

\* The history with one more commit.
LEMMA LogGrows ==
    ASSUME TypeOK, NEW entry \in LogEntry, repo'.log = Append(repo.log, entry)
    PROVE  /\ repo'.log \in Seq(LogEntry) /\ repo'.log # <<>>
           /\ Len(repo'.log) = Len(repo.log) + 1
           /\ repo'.log[Len(repo'.log)] = entry
           /\ DOMAIN repo'.log = DOMAIN repo.log \cup {Len(repo'.log)}
           /\ \A i \in DOMAIN repo.log : repo'.log[i] = repo.log[i]
<1>1. repo.log \in Seq(LogEntry) /\ repo.log # <<>>
  BY DEF TypeOK, RepoType
<1> DEFINE old == repo.log  new == repo'.log
<1>2. old \in Seq(LogEntry) /\ new = Append(old, entry)
  BY <1>1
<1> HIDE DEF old, new
<1>3. /\ Len(old) \in Nat /\ DOMAIN old = 1 .. Len(old)
      /\ new \in Seq(LogEntry) /\ Len(new) = Len(old) + 1 /\ DOMAIN new = 1 .. Len(new)
      /\ new[Len(new)] = entry /\ \A i \in 1 .. Len(old) : new[i] = old[i]
  BY <1>2
<1>4. new # <<>> /\ DOMAIN new = DOMAIN old \cup {Len(new)}
  BY <1>3
<1> QED BY <1>3, <1>4 DEF old, new

LEMMA StageTaskPathsKeeps == DeliveryInv /\ StageTaskPaths => DeliveryInv' /\ RunStep
<1> SUFFICES ASSUME DeliveryInv, StageTaskPaths PROVE DeliveryInv' /\ RunStep
  OBVIOUS
<1>1. /\ driver.pc = "add" /\ driver.pc \in InCommit /\ driver.pc \in HasRun
      /\ driver' = [driver EXCEPT !.pc = "staged"] /\ "staged" \in Positions
      /\ repo' = [repo EXCEPT !.index = repo.content] /\ session' = session /\ env' = env
  BY DEF StageTaskPaths, At, InCommit, HasRun, SinceLoop, Positions
<1>2. /\ ~IsTerminal(driver.run) /\ driver.run.stage = "Committing" /\ Sound(driver.run)
      /\ driver.run.outcome \notin SuccessOutcomes /\ ~session.window /\ session.pending = 0
  BY <1>1, CommitPosition
<1>3. /\ driver' \in DriverType /\ driver'.pc = "staged" /\ driver'.run = driver.run
      /\ driver'.base = driver.base /\ driver'.control = driver.control
      /\ driver'.from = driver.from /\ driver'.left = driver.left
      /\ driver'.raced = driver.raced
  BY <1>1, PositionOnly
<1>4. repo' \in RepoType /\ repo'.log = repo.log /\ repo'.index = repo.content
  BY <1>1, WithRun DEF RepoType
<1>5. TypeOK'
  BY <1>1, <1>3, <1>4 DEF DeliveryInv, TypeOK
<1>6. RunFitsPosition'
  BY <1>1, <1>2, <1>3, <1>4
  DEF DeliveryInv, RunFitsPosition, At, HasRun, SinceLoop, InStage, InCommit, Reporting,
      Anchored, Stage
<1>7. StoredIsSound' /\ IsStored'
  BY <1>1, <1>3, <1>4
  DEF DeliveryInv, StoredIsSound, Anchored, IsStored, SinceLoop, Stage
<1>8. CommitIsReviewed'
  BY <1>1, <1>3, <1>4 DEF DeliveryInv, CommitIsReviewed, At
<1>9. HeadIsKnown'
  BY <1>1, <1>2, <1>3, <1>4 DEF DeliveryInv, HeadIsKnown, HeadIsOurs, At, SinceLoop
<1>10. /\ ReadyNamesACommit' /\ ReadyNamesItsCommit' /\ SuccessHasHeardEveryMessage'
       /\ StepsAreChargedFirst'
  BY <1>2, <1>3
  DEF ReadyNamesACommit, ReadyNamesItsCommit, SuccessHasHeardEveryMessage, SuccessOutcomes,
      StepsAreChargedFirst, At
<1>11. MessagesAreCounted' /\ CommitsHoldReviewedContent' /\ CommitIsRemembered'
  BY <1>1, <1>3, <1>4
  DEF DeliveryInv, MessagesAreCounted, CommitsHoldReviewedContent, CommitIsRemembered
<1>12. RunStep
  BY <1>1, <1>2, <1>3, WithRun DEF RunStep, Charges
<1> QED
  BY <1>5, <1>6, <1>7, <1>8, <1>9, <1>10, <1>11, <1>12 DEF DeliveryInv

\* The commit is of the staged content, which is the reviewed content unless another
\* program interfered; what is stored still says that it is due.
LEMMA GitCommitSucceedsKeeps == DeliveryInv /\ GitCommitSucceeds => DeliveryInv' /\ RunStep
<1> SUFFICES ASSUME DeliveryInv, GitCommitSucceeds PROVE DeliveryInv' /\ RunStep
  OBVIOUS
<1> DEFINE entry == ManagedCommit(driver.run, driver.raced)
<1>1. /\ driver.pc = "staged" /\ driver.pc \in InCommit /\ driver.pc \in HasRun
      /\ driver' = [driver EXCEPT !.pc = "landed"] /\ "landed" \in Positions
      /\ repo' = [repo EXCEPT !.log = Append(@, entry)]
      /\ session' = session /\ env' = env
  BY DEF GitCommitSucceeds, At, InCommit, HasRun, SinceLoop, Positions
<1>2. /\ ~IsTerminal(driver.run) /\ driver.run.stage = "Committing" /\ Sound(driver.run)
      /\ driver.run.outcome \notin SuccessOutcomes /\ ~session.window /\ session.pending = 0
      /\ driver.run.delivery.code_review.content = driver.run.delivery.fingerprint
  BY <1>1, CommitPosition
<1>3. /\ driver' \in DriverType /\ driver'.pc = "landed" /\ driver'.run = driver.run
      /\ driver'.base = driver.base /\ driver'.control = driver.control
      /\ driver'.from = driver.from /\ driver'.left = driver.left
      /\ driver'.raced = driver.raced
  BY <1>1, PositionOnly
<1>4. /\ entry.content = repo.index /\ entry.by = "pb" /\ entry.raced = driver.raced
      /\ entry.reviewed = driver.run.delivery.code_review.content /\ entry \in LogEntry
  <2>1. driver.run.delivery.fingerprint \in Contents \cup {None}
    BY <1>2 DEF Sound, WorkflowRun, DeliveryType
  <2> QED
    BY <1>1, <1>2, <2>1, WithRun DEF ManagedCommit, LogEntry, DriverType
<1> HIDE DEF entry
<1>5. repo.log \in Seq(LogEntry)
  BY <1>1, WithRun DEF RepoType
<1>6. repo' = [repo EXCEPT !.log = Append(repo.log, entry)]
  BY <1>1
<1>7. repo'.log = Append(repo.log, entry)
  BY <1>1, <1>6, WithRun DEF RepoType
<1>8. /\ repo'.log \in Seq(LogEntry) /\ repo'.log # <<>>
      /\ repo'.log[Len(repo'.log)] = entry
      /\ DOMAIN repo'.log = DOMAIN repo.log \cup {Len(repo'.log)}
      /\ \A i \in DOMAIN repo.log : repo'.log[i] = repo.log[i]
  BY <1>4, <1>7, LogGrows DEF DeliveryInv
<1>9. repo' \in RepoType
  BY <1>1, <1>6, <1>7, <1>8, WithRun DEF RepoType
<1>10. TypeOK'
  BY <1>1, <1>3, <1>8, <1>9 DEF DeliveryInv, TypeOK
<1>11. RunFitsPosition'
  BY <1>1, <1>2, <1>3, <1>8
  DEF DeliveryInv, RunFitsPosition, At, HasRun, SinceLoop, InStage, InCommit, Reporting,
      Anchored, Stage
<1>12. StoredIsSound' /\ IsStored'
  BY <1>1, <1>3, <1>8
  DEF DeliveryInv, StoredIsSound, Anchored, IsStored, SinceLoop, Stage
<1>13. CommitIsReviewed'
  BY <1>1, <1>3, <1>4, <1>8
  DEF DeliveryInv, CommitIsReviewed, At, HeadContent, HeadIsOurs
<1>14. HeadIsKnown'
  BY <1>3, <1>4, <1>8 DEF HeadIsKnown, At
<1>15. /\ ReadyNamesACommit' /\ ReadyNamesItsCommit' /\ SuccessHasHeardEveryMessage'
       /\ StepsAreChargedFirst'
  BY <1>2, <1>3
  DEF ReadyNamesACommit, ReadyNamesItsCommit, SuccessHasHeardEveryMessage, SuccessOutcomes,
      StepsAreChargedFirst, At
<1>16. MessagesAreCounted'
  BY <1>1, <1>3 DEF DeliveryInv, MessagesAreCounted
<1>17. CommitsHoldReviewedContent'
  <2>1. ~driver.raced => entry.content = entry.reviewed
    BY <1>1, <1>2, <1>4 DEF DeliveryInv, CommitIsReviewed, At
  <2> QED
    BY <1>4, <1>8, <2>1 DEF DeliveryInv, CommitsHoldReviewedContent
<1>18. CommitIsRemembered'
  <2>1. session.saved # None => session.saved.run = driver.run
    BY <1>1, <1>2 DEF DeliveryInv, IsStored, SinceLoop
  <2> QED
    BY <1>1, <1>2, <1>4, <1>8, <2>1 DEF CommitIsRemembered
<1>19. RunStep
  BY <1>1, <1>2, <1>3, WithRun DEF RunStep, Charges
<1> QED
  BY <1>10, <1>11, <1>12, <1>13, <1>14, <1>15, <1>16, <1>17, <1>18, <1>19 DEF DeliveryInv

-----------------------------------------------------------------------------
(* The end of the driver and of the session's run *)

LEMMA ReportOutcomeKeeps == DeliveryInv /\ ReportOutcome => DeliveryInv' /\ RunStep
<1> SUFFICES ASSUME DeliveryInv, ReportOutcome PROVE DeliveryInv' /\ RunStep
  OBVIOUS
<1> DEFINE s == driver.run
<1>1. /\ driver.pc = "finish" /\ driver.pc \in HasRun /\ ~At("off")
      /\ repo' = repo /\ env' = env /\ "return" \in Positions
      /\ \/ RunnerFails
         \/ /\ driver' = [driver EXCEPT !.pc = "return"]
            /\ session' = Checkpointed(session, driver')
  BY DEF ReportOutcome, At, HasRun, Reporting, Positions
<1>2. CASE RunnerFails
  BY <1>1, <1>2, FailingKeeps
<1>3. CASE driver' = [driver EXCEPT !.pc = "return"] /\ session' = Checkpointed(session, driver')
  <2>1. Sound(s) /\ s \in WorkflowRun /\ IsTerminal(s) /\ s # None
    BY <1>1, WithRun, NoneIsNoRecord DEF DeliveryInv, RunFitsPosition, Reporting
  <2>2. GoesTo("return", s) /\ driver'.run = s /\ driver'.left = driver.left
    BY <1>1, <1>3, PositionOnly DEF GoesTo
  <2>3. /\ Stores(s) /\ session'.pending = session.pending
        /\ session'.window = session.window
    <3>1. /\ driver' \in DriverType /\ driver'.base # None /\ driver'.control # None
          /\ driver'.run \in WorkflowRun
      BY <1>1, <2>1, <2>2, WithRun DEF GoesTo
    <3> QED
      BY <1>1, <1>3, <2>2, <3>1, CheckpointStores, WithRun DEF Stores
  <2>4. s.outcome \in SuccessOutcomes => session.pending = 0 /\ ~session.window
    BY <2>1 DEF DeliveryInv, SuccessHasHeardEveryMessage
  <2>5. s.outcome = "Ready" => /\ s.delivery.commit \in DOMAIN repo.log
                               /\ ~driver.raced => NamesItsCommit(s)
    BY <2>1 DEF DeliveryInv, ReadyNamesACommit, ReadyNamesItsCommit, NamesItsCommit
  <2>6. Charges(s)
    BY DEF Charges
  <2> HIDE DEF s
  <2> QED
    BY <1>1, <2>1, <2>2, <2>3, <2>4, <2>5, <2>6, StoringKeeps, WithRun
<1> QED BY <1>1, <1>2, <1>3

LEMMA OffType ==
    /\ Off \in DriverType /\ Off.pc = "off" /\ Off.run = None /\ Off.left = 0
BY DriverLimits, LimitsAreNaturals DEF Off, DriverType, Positions

\* Without a driver, only what is stored counts.
LEMMA DriverlessKeeps ==
    ASSUME DeliveryInv, driver' \in DriverType, driver'.pc = "off", driver'.run = None,
           driver'.left + session'.pending <= StageSteps + env["messages"],
           session' \in SessionType, session'.status # "Running",
           session'.pending <= session.pending, UNCHANGED repo,
           env' \in [Events -> Nat], env'["messages"] = env["messages"],
           StoredIsSound', CommitIsRemembered'
    PROVE  DeliveryInv'
<1>1. TypeOK'
  BY DEF DeliveryInv, TypeOK
<1>2. RunFitsPosition'
  BY DEF RunFitsPosition, At, HasRun, SinceLoop, InStage, InCommit, Reporting
<1>3. /\ IsStored' /\ CommitIsReviewed' /\ ReadyNamesACommit' /\ HeadIsKnown'
      /\ ReadyNamesItsCommit' /\ StepsAreChargedFirst' /\ SuccessHasHeardEveryMessage'
  BY DEF IsStored, SinceLoop, InStage, CommitIsReviewed, At, ReadyNamesACommit, HeadIsKnown,
         ReadyNamesItsCommit, StepsAreChargedFirst, SuccessHasHeardEveryMessage
<1>4. CommitsHoldReviewedContent'
  BY DEF DeliveryInv, CommitsHoldReviewedContent
<1>5. MessagesAreCounted'
  <2>1. session.pending \in Nat /\ session'.pending \in Nat /\ env["messages"] \in Nat
    BY DriverLimits DEF DeliveryInv, TypeOK, SessionType, Events
  <2> QED BY <2>1 DEF DeliveryInv, MessagesAreCounted
<1> QED
  BY <1>1, <1>2, <1>3, <1>4, <1>5 DEF DeliveryInv

LEMMA Counters ==
    ASSUME DeliveryInv
    PROVE  /\ session.pending \in 0 .. MaxPending /\ session.pending \in Nat
           /\ driver.left \in Nat /\ env["messages"] \in Nat /\ StageSteps \in Nat
           /\ session.pending <= env["messages"] /\ env["messages"] <= MaxMessages
           /\ driver.left + session.pending <= StageSteps + env["messages"]
           /\ 0 + session.pending <= StageSteps + env["messages"]
           /\ session \in SessionType /\ driver \in DriverType /\ repo \in RepoType
           /\ env \in [Events -> Nat]
<1>1. /\ session \in SessionType /\ driver \in DriverType /\ env \in [Events -> Nat]
      /\ repo \in RepoType
  BY DEF DeliveryInv, TypeOK
<1>2. MaxPending \in Nat /\ MaxMessages \in Nat /\ StageSteps \in Nat
  BY DriverLimits, LimitsAreNaturals
<1>3. /\ session.pending \in 0 .. MaxPending /\ driver.left \in 0 .. StageSteps + MaxMessages
      /\ env["messages"] \in Nat
  BY <1>1 DEF SessionType, DriverType, Events
<1>4. MessagesAreCounted
  BY DEF DeliveryInv
<1> QED BY <1>1, <1>2, <1>3, <1>4 DEF MessagesAreCounted

LEMMA RunFinishedKeeps == DeliveryInv /\ RunFinished => DeliveryInv' /\ RunStep
<1> SUFFICES ASSUME DeliveryInv, RunFinished PROVE DeliveryInv' /\ RunStep
  OBVIOUS
<1> DEFINE t == Checkpointed(session, driver)
           status == StatusAfter(driver.run)
<1>1. /\ driver.pc = "return" /\ driver.pc \in HasRun /\ driver' = Off
      /\ repo' = repo /\ env' = env
      /\ session' = [t EXCEPT !.status = status, !.baseline = driver.base, !.cancel = FALSE]
  BY DEF RunFinished, At, HasRun, Reporting
<1>2. IsTerminal(driver.run) /\ Anchored(driver.control, driver.from)
  BY <1>1 DEF DeliveryInv, RunFitsPosition, Reporting
<1>3. status \in Statuses /\ status \in {"Failed", "Completed"}
  BY DEF StatusAfter, Statuses
<1>4. /\ t \in SessionType /\ t.pending = session.pending
      /\ t.archived = IF EndsRun(driver.run) THEN driver.run.outcome ELSE session.archived
      /\ t.saved = IF EndsRun(driver.run) THEN None
                   ELSE [run |-> driver.run, base |-> driver.base,
                         control |-> driver.control, from |-> driver.from]
  BY <1>1, WithRun, CheckpointStoresIn
<1> HIDE DEF t, status
<1>5. /\ session' \in SessionType /\ session'.status = status
      /\ session'.pending = t.pending /\ session'.saved = t.saved
      /\ session'.archived = t.archived
  BY <1>1, <1>3, <1>4, WithRun DEF SessionType
<1>6. ~EndsRun(driver.run) => driver.run.stage = "Blocked"
  BY <1>2 DEF EndsRun
<1>7. StoredIsSound'
  BY <1>1, <1>2, <1>4, <1>5, <1>6, WithRun DEF StoredIsSound, Anchored
<1>8. CommitIsRemembered'
  BY <1>1, <1>4, <1>5, <1>6 DEF CommitIsRemembered
<1>9. driver' \in DriverType /\ driver'.pc = "off" /\ driver'.run = None /\ driver'.left = 0
  BY <1>1, OffType
<1>10. RunStep
  <2> DEFINE rec == [run |-> driver.run, base |-> driver.base, control |-> driver.control,
                     from |-> driver.from]
  <2>1. rec \in Checkpoint /\ rec.run = driver.run
    BY <1>1, WithRun DEF Checkpoint, DriverType
  <2>2. rec # None
    BY <2>1, NoneIsNoRecord
  <2>3. session'.saved = IF EndsRun(driver.run) THEN None ELSE rec
    BY <1>4, <1>5
  <2> HIDE DEF rec
  <2> QED
    BY <1>1, <1>3, <1>4, <1>5, <1>9, <2>1, <2>2, <2>3, WithRun
    DEF RunStep, Charges, HasRun, SinceLoop, InStage, Reporting
<1> QED
  BY <1>1, <1>3, <1>4, <1>5, <1>7, <1>8, <1>9, <1>10, Counters, DriverlessKeeps

LEMMA RunFailedKeeps == DeliveryInv /\ RunFailed => DeliveryInv'
<1> SUFFICES ASSUME DeliveryInv, RunFailed PROVE DeliveryInv'
  OBVIOUS
<1>1. /\ driver' = Off /\ repo' = repo /\ env' = env
      /\ session' = [session EXCEPT !.status = "Failed", !.cancel = FALSE]
  BY DEF RunFailed
<1>2. /\ session' \in SessionType /\ session'.status = "Failed"
      /\ session'.pending = session.pending /\ session'.saved = session.saved
      /\ session'.archived = session.archived
  BY <1>1, Counters DEF SessionType, Statuses
<1>3. StoredIsSound' /\ CommitIsRemembered'
  BY <1>1, <1>2 DEF DeliveryInv, StoredIsSound, Anchored, CommitIsRemembered
<1>4. driver' \in DriverType /\ driver'.pc = "off" /\ driver'.run = None /\ driver'.left = 0
  BY <1>1, OffType
<1> QED
  BY <1>1, <1>2, <1>3, <1>4, Counters, DriverlessKeeps

-----------------------------------------------------------------------------
(* The user, other programs, and the daemon's life *)

LEMMA CountsKeeps ==
    ASSUME DeliveryInv, NEW e \in Events, NEW bound, Counts(e, bound)
    PROVE  /\ env' \in [Events -> Nat]
           /\ env'["messages"] = IF e = "messages" THEN env["messages"] + 1
                                 ELSE env["messages"]
BY Counters DEF Counts, Events

\* A message is accepted while the window is open: not by a run that commits, and not
\* by one that has ended well.
LEMMA SendMessageKeeps == DeliveryInv /\ SendMessage => DeliveryInv'
<1> SUFFICES ASSUME DeliveryInv, SendMessage PROVE DeliveryInv'
  OBVIOUS
<1>1. /\ session.status = "Running" /\ session.window /\ session.pending < MaxPending
      /\ Counts("messages", MaxMessages) /\ "messages" \in Events
      /\ session' = [session EXCEPT !.pending = session.pending + 1]
      /\ driver' = driver /\ repo' = repo
  BY DEF SendMessage, Events
<1>2. /\ env["messages"] < MaxMessages /\ env'["messages"] = env["messages"] + 1
      /\ env' \in [Events -> Nat]
  BY <1>1, CountsKeeps DEF Counts
<1>3. MaxPending \in Nat /\ session.pending + 1 \in 0 .. MaxPending
  BY <1>1, Counters, DriverLimits
<1>4. /\ session' \in SessionType /\ session'.status = session.status
      /\ session'.pending = session.pending + 1 /\ session'.saved = session.saved
      /\ session'.archived = session.archived /\ session'.window = session.window
  BY <1>1, <1>3, Counters DEF SessionType
<1>5. driver.pc \notin InCommit
  BY <1>1 DEF DeliveryInv, RunFitsPosition
<1>6. TypeOK'
  BY <1>1, <1>2, <1>4 DEF DeliveryInv, TypeOK
<1>7. RunFitsPosition'
  BY <1>1, <1>4, <1>5 DEF DeliveryInv, RunFitsPosition, At, Anchored, Stage
<1>8. StoredIsSound' /\ IsStored'
  BY <1>1, <1>4 DEF DeliveryInv, StoredIsSound, Anchored, IsStored, Stage
<1>9. CommitIsReviewed' /\ HeadIsKnown' /\ StepsAreChargedFirst'
  BY <1>1, <1>4
  DEF DeliveryInv, CommitIsReviewed, HeadIsKnown, StepsAreChargedFirst, At, HeadContent,
      HeadIsOurs
<1>10. ReadyNamesACommit' /\ ReadyNamesItsCommit' /\ SuccessHasHeardEveryMessage'
  BY <1>1
  DEF DeliveryInv, ReadyNamesACommit, ReadyNamesItsCommit, SuccessHasHeardEveryMessage
<1>11. MessagesAreCounted'
  BY <1>1, <1>2, <1>4, Counters, DriverLimits DEF MessagesAreCounted
<1>12. CommitsHoldReviewedContent' /\ CommitIsRemembered'
  BY <1>1, <1>4 DEF DeliveryInv, CommitsHoldReviewedContent, CommitIsRemembered
<1> QED
  BY <1>6, <1>7, <1>8, <1>9, <1>10, <1>11, <1>12 DEF DeliveryInv

\* A flag of a running session changes nothing that was promised.
LEMMA CancelSessionKeeps == DeliveryInv /\ CancelSession => DeliveryInv'
<1> SUFFICES ASSUME DeliveryInv, CancelSession PROVE DeliveryInv'
  OBVIOUS
<1>1. /\ Counts("cancels", MaxCancels) /\ "cancels" \in Events
      /\ driver' = driver /\ repo' = repo
  BY DEF CancelSession, Events
<1>2. env' \in [Events -> Nat] /\ env'["messages"] = env["messages"]
  BY <1>1, CountsKeeps
<1>3. CASE session.status = "Running"
  <2>1. session' = [session EXCEPT !.cancel = TRUE]
    BY <1>3 DEF CancelSession
  <2>2. /\ session' \in SessionType /\ session'.status = session.status
        /\ session'.pending = session.pending /\ session'.saved = session.saved
        /\ session'.archived = session.archived /\ session'.window = session.window
    BY <2>1, Counters DEF SessionType
  <2>3. TypeOK'
    BY <1>1, <1>2, <2>2 DEF DeliveryInv, TypeOK
  <2>4. RunFitsPosition'
    BY <1>1, <2>2 DEF DeliveryInv, RunFitsPosition, At, Anchored, Stage
  <2>5. StoredIsSound' /\ IsStored'
    BY <1>1, <2>2 DEF DeliveryInv, StoredIsSound, Anchored, IsStored, Stage
  <2>6. CommitIsReviewed' /\ HeadIsKnown' /\ StepsAreChargedFirst'
    BY <1>1, <2>2
    DEF DeliveryInv, CommitIsReviewed, HeadIsKnown, StepsAreChargedFirst, At, HeadContent,
        HeadIsOurs
  <2>7. ReadyNamesACommit' /\ ReadyNamesItsCommit' /\ SuccessHasHeardEveryMessage'
    BY <1>1, <2>2
    DEF DeliveryInv, ReadyNamesACommit, ReadyNamesItsCommit, SuccessHasHeardEveryMessage
  <2>8. MessagesAreCounted' /\ CommitsHoldReviewedContent' /\ CommitIsRemembered'
    BY <1>1, <1>2, <2>2
    DEF DeliveryInv, MessagesAreCounted, CommitsHoldReviewedContent, CommitIsRemembered
  <2> QED
    BY <2>3, <2>4, <2>5, <2>6, <2>7, <2>8 DEF DeliveryInv
<1>4. CASE session.status # "Running"
  <2> DEFINE archived == IF session.saved = None THEN session.archived ELSE "Cancelled"
  <2>1. session' = [session EXCEPT !.cancel = TRUE, !.status = "Completed", !.saved = None,
                                   !.archived = archived]
    BY <1>4, Counters DEF CancelSession, SessionType
  <2>2. archived \in Outcomes \cup {None}
    BY Counters DEF SessionType, Outcomes
  <2> HIDE DEF archived
  <2>3. /\ session' \in SessionType /\ session'.status = "Completed"
        /\ session'.pending = session.pending /\ session'.saved = None
    BY <2>1, <2>2, Counters DEF SessionType, Statuses
  <2>4. driver.pc = "off" /\ driver.run = None
    BY <1>4 DEF DeliveryInv, RunFitsPosition, At
  <2>5. StoredIsSound' /\ CommitIsRemembered'
    BY <2>3 DEF StoredIsSound, CommitIsRemembered
  <2> QED
    BY <1>1, <1>2, <2>3, <2>4, <2>5, Counters, DriverlessKeeps
<1> QED BY <1>3, <1>4

LEMMA ResumeSessionKeeps == DeliveryInv /\ ResumeSession => DeliveryInv'
<1> SUFFICES ASSUME DeliveryInv, ResumeSession PROVE DeliveryInv'
  OBVIOUS
<1>1. /\ session.status # "Running" /\ driver' = driver /\ repo' = repo /\ env' = env
      /\ session' = [session EXCEPT !.status = "Queued", !.cancel = FALSE]
  BY DEF ResumeSession
<1>2. /\ session' \in SessionType /\ session'.status = "Queued"
      /\ session'.pending = session.pending /\ session'.saved = session.saved
      /\ session'.archived = session.archived
  BY <1>1, Counters DEF SessionType, Statuses
<1>3. driver.pc = "off" /\ driver.run = None
  BY <1>1 DEF DeliveryInv, RunFitsPosition, At
<1>4. StoredIsSound' /\ CommitIsRemembered'
  BY <1>1, <1>2 DEF DeliveryInv, StoredIsSound, Anchored, CommitIsRemembered
<1> QED
  BY <1>1, <1>2, <1>3, <1>4, Counters, DriverlessKeeps

LEMMA RestartDeliveryKeeps == DeliveryInv /\ RestartDelivery => DeliveryInv'
<1> SUFFICES ASSUME DeliveryInv, RestartDelivery PROVE DeliveryInv'
  OBVIOUS
<1>1. /\ session.status # "Running" /\ driver' = driver /\ repo' = repo
      /\ Counts("restarts", MaxRestarts) /\ "restarts" \in Events
      /\ session' = [session EXCEPT !.status = "Queued", !.cancel = FALSE, !.saved = None,
                                    !.archived = None, !.baseline = None]
  BY DEF RestartDelivery, Events
<1>2. env' \in [Events -> Nat] /\ env'["messages"] = env["messages"]
  BY <1>1, CountsKeeps
<1>3. /\ session' \in SessionType /\ session'.status = "Queued"
      /\ session'.pending = session.pending /\ session'.saved = None
  BY <1>1, Counters DEF SessionType, Statuses
<1>4. driver.pc = "off" /\ driver.run = None
  BY <1>1 DEF DeliveryInv, RunFitsPosition, At
<1>5. StoredIsSound' /\ CommitIsRemembered'
  BY <1>3 DEF StoredIsSound, CommitIsRemembered
<1> QED
  BY <1>1, <1>2, <1>3, <1>4, <1>5, Counters, DriverlessKeeps

LEMMA DaemonRestartKeeps == DeliveryInv /\ DaemonRestart => DeliveryInv'
<1> SUFFICES ASSUME DeliveryInv, DaemonRestart PROVE DeliveryInv'
  OBVIOUS
<1>1. /\ driver' = Off /\ repo' = repo /\ session' = Reloaded(session)
      /\ Counts("crashes", MaxCrashes) /\ "crashes" \in Events
      /\ session.status = "Running"
  BY DEF DaemonRestart, Events
<1>2. env' \in [Events -> Nat] /\ env'["messages"] = env["messages"]
  BY <1>1, CountsKeeps
<1>3. /\ session' \in SessionType /\ session'.status = "Paused"
      /\ session'.pending = session.pending /\ session'.saved = session.saved
      /\ session'.archived = session.archived
  BY <1>1, Counters DEF Reloaded, SessionType, Statuses
<1>4. driver' \in DriverType /\ driver'.pc = "off" /\ driver'.run = None /\ driver'.left = 0
  BY <1>1, OffType
<1>5. StoredIsSound' /\ CommitIsRemembered'
  BY <1>1, <1>3 DEF DeliveryInv, StoredIsSound, Anchored, CommitIsRemembered
<1> QED
  BY <1>1, <1>2, <1>3, <1>4, <1>5, Counters, DriverlessKeeps

\* Another program moves the tree or the history; inside the commit step the driver's
\* record of it is kept.
LEMMA OutsideMoves ==
    ASSUME driver \in DriverType, Outside
    PROVE  /\ driver' \in DriverType /\ driver'.pc = driver.pc /\ driver'.run = driver.run
           /\ driver'.base = driver.base /\ driver'.control = driver.control
           /\ driver'.from = driver.from /\ driver'.left = driver.left
           /\ driver'.sub = driver.sub
           /\ driver.pc \in {"add", "staged", "landed"} => driver'.raced
           /\ driver.pc \notin {"add", "staged", "landed"} => driver'.raced = driver.raced
BY DEF Outside, DriverType

LEMMA OutsideKeeps ==
    ASSUME DeliveryInv, Outside, UNCHANGED session,
           env' \in [Events -> Nat], env'["messages"] = env["messages"],
           repo' \in RepoType, repo'.log # <<>>,
           DOMAIN repo.log \subseteq DOMAIN repo'.log,
           \A i \in DOMAIN repo.log : repo'.log[i] = repo.log[i],
           \A i \in DOMAIN repo'.log \ DOMAIN repo.log : repo'.log[i].by = "user",
           HeadIsOurs' => Len(repo'.log) = Len(repo.log) /\ HeadIsOurs
    PROVE  DeliveryInv'
<1>1. driver \in DriverType /\ Len(repo.log) \in DOMAIN repo.log
  BY LogType DEF DeliveryInv, TypeOK
<1>2. /\ driver' \in DriverType /\ driver'.pc = driver.pc /\ driver'.run = driver.run
      /\ driver'.base = driver.base /\ driver'.control = driver.control
      /\ driver'.from = driver.from /\ driver'.left = driver.left
      /\ driver'.sub = driver.sub
      /\ driver.pc \in {"add", "staged", "landed"} => driver'.raced
      /\ driver.pc \notin {"add", "staged", "landed"} => driver'.raced = driver.raced
  BY <1>1, OutsideMoves
<1>3. TypeOK'
  BY <1>2 DEF DeliveryInv, TypeOK
<1>4. RunFitsPosition'
  BY <1>2 DEF DeliveryInv, RunFitsPosition, At, Anchored, Stage
<1>5. StoredIsSound' /\ IsStored'
  BY <1>2 DEF DeliveryInv, StoredIsSound, Anchored, IsStored, Stage
<1>6. CommitIsReviewed' /\ StepsAreChargedFirst'
  BY <1>2 DEF DeliveryInv, CommitIsReviewed, StepsAreChargedFirst, At
<1>7. HeadIsKnown'
  <2>1. HeadIsOurs' => repo'.log[Len(repo'.log)] = repo.log[Len(repo.log)]
    BY <1>1
  <2> QED
    BY <1>2, <2>1 DEF DeliveryInv, HeadIsKnown, At
<1>8. ReadyNamesACommit' /\ SuccessHasHeardEveryMessage'
  BY <1>2 DEF DeliveryInv, ReadyNamesACommit, SuccessHasHeardEveryMessage
<1>9. ReadyNamesItsCommit'
  <2>1. driver.run # None /\ driver.run.outcome = "Ready" =>
            driver.pc \notin {"add", "staged", "landed"}
    BY CommitPosition DEF InCommit, SuccessOutcomes
  <2> QED
    BY <1>2, <2>1 DEF DeliveryInv, ReadyNamesItsCommit, ReadyNamesACommit
<1>10. MessagesAreCounted'
  BY <1>2 DEF DeliveryInv, MessagesAreCounted
<1>11. CommitsHoldReviewedContent'
  BY DEF DeliveryInv, CommitsHoldReviewedContent
<1>12. CommitIsRemembered'
  BY <1>1 DEF DeliveryInv, CommitIsRemembered, HeadIsOurs
<1> QED
  BY <1>3, <1>4, <1>5, <1>6, <1>7, <1>8, <1>9, <1>10, <1>11, <1>12 DEF DeliveryInv

LEMMA OutsideEditKeeps == DeliveryInv /\ OutsideEdit => DeliveryInv'
<1> SUFFICES ASSUME DeliveryInv, OutsideEdit PROVE DeliveryInv'
  OBVIOUS
<1>1. PICK content \in Contents : repo' = [repo EXCEPT !.content = content]
  BY DEF OutsideEdit
<1>2. /\ Outside /\ session' = session
      /\ Counts("edits", MaxEdits) /\ "edits" \in Events
  BY DEF OutsideEdit, Events
<1>3. env' \in [Events -> Nat] /\ env'["messages"] = env["messages"]
  BY <1>2, CountsKeeps
<1>4. repo' \in RepoType /\ repo'.log = repo.log /\ repo.log # <<>>
  BY <1>1 DEF DeliveryInv, TypeOK, RepoType
<1>5. HeadIsOurs' => Len(repo'.log) = Len(repo.log) /\ HeadIsOurs
  BY <1>4 DEF HeadIsOurs
<1> QED BY <1>2, <1>3, <1>4, <1>5, OutsideKeeps

LEMMA OutsideCommitKeeps == DeliveryInv /\ OutsideCommit => DeliveryInv'
<1> SUFFICES ASSUME DeliveryInv, OutsideCommit PROVE DeliveryInv'
  OBVIOUS
<1> DEFINE entry == [content |-> repo.content, by |-> "user", reviewed |-> None,
                     raced |-> FALSE]
<1>1. /\ repo' = [repo EXCEPT !.index = repo.content, !.log = Append(@, entry)]
      /\ Outside /\ session' = session
      /\ Counts("commits", MaxUserCommits) /\ "commits" \in Events
  BY DEF OutsideCommit, Events
<1>2. env' \in [Events -> Nat] /\ env'["messages"] = env["messages"]
  BY <1>1, CountsKeeps
<1>3. entry \in LogEntry /\ entry.by = "user"
  BY Counters DEF LogEntry, RepoType
<1> HIDE DEF entry
<1>4. repo' = [repo EXCEPT !.index = repo.content, !.log = Append(repo.log, entry)]
  BY <1>1
<1>5. repo'.log = Append(repo.log, entry)
  BY <1>4, Counters DEF RepoType
<1>6. /\ repo'.log \in Seq(LogEntry) /\ repo'.log # <<>>
      /\ repo'.log[Len(repo'.log)] = entry
      /\ DOMAIN repo'.log = DOMAIN repo.log \cup {Len(repo'.log)}
      /\ \A i \in DOMAIN repo.log : repo'.log[i] = repo.log[i]
  BY <1>3, <1>5, LogGrows DEF DeliveryInv
<1>7. repo' \in RepoType
  BY <1>4, <1>5, <1>6, Counters DEF RepoType
<1>8. ~HeadIsOurs'
  BY <1>3, <1>6 DEF HeadIsOurs
<1> QED BY <1>1, <1>2, <1>3, <1>6, <1>7, <1>8, OutsideKeeps

-----------------------------------------------------------------------------
(* What holds always *)

LEMMA IdlingKeeps == DeliveryInv /\ UNCHANGED vars => DeliveryInv'
<1> SUFFICES ASSUME DeliveryInv, UNCHANGED vars PROVE DeliveryInv'
  OBVIOUS
<1>1. session' = session /\ driver' = driver /\ repo' = repo /\ env' = env
  BY DEF vars
<1>2. TypeOK' /\ RunFitsPosition'
  BY <1>1 DEF DeliveryInv, TypeOK, RunFitsPosition, At, Anchored, Stage
<1>3. StoredIsSound' /\ IsStored'
  BY <1>1 DEF DeliveryInv, StoredIsSound, Anchored, IsStored, Stage
<1>4. CommitIsReviewed' /\ HeadIsKnown' /\ StepsAreChargedFirst'
  BY <1>1
  DEF DeliveryInv, CommitIsReviewed, HeadIsKnown, StepsAreChargedFirst, At, HeadContent,
      HeadIsOurs
<1>5. ReadyNamesACommit' /\ ReadyNamesItsCommit' /\ SuccessHasHeardEveryMessage'
  BY <1>1
  DEF DeliveryInv, ReadyNamesACommit, ReadyNamesItsCommit, SuccessHasHeardEveryMessage
<1>6. MessagesAreCounted' /\ CommitsHoldReviewedContent' /\ CommitIsRemembered'
  BY <1>1
  DEF DeliveryInv, MessagesAreCounted, CommitsHoldReviewedContent, CommitIsRemembered
<1> QED
  BY <1>2, <1>3, <1>4, <1>5, <1>6 DEF DeliveryInv

\* Every step keeps the invariant.
LEMMA DeliveryStep == DeliveryInv /\ [Next]_vars => DeliveryInv'
<1> SUFFICES ASSUME DeliveryInv, [Next]_vars PROVE DeliveryInv'
  OBVIOUS
<1>1. DeliveryInv
  OBVIOUS
<1>2. CASE StartWorkflow \/ RefuseCheckpoint \/ ResumeWorkflow
  BY ONLY <1>1, <1>2, StartWorkflowKeeps, RefuseCheckpointKeeps, ResumeWorkflowKeeps
<1>3. CASE \/ LoopCancelled \/ LoopTerminal \/ LoopRoutes \/ LoopOutOfSteps
           \/ LoopClosesNoChange \/ LoopEntersStage \/ LoopFindsDrift
  BY ONLY <1>1, <1>3, LoopCancelledKeeps, LoopTerminalKeeps, LoopRoutesKeeps,
     LoopOutOfStepsKeeps, LoopClosesNoChangeKeeps, LoopEntersStageKeeps, LoopFindsDriftKeeps
<1>4. CASE StageCancelled \/ StageStep \/ StageWorks \/ StageSubmits \/ StageGivesUp
  BY ONLY <1>1, <1>4, StageCancelledKeeps, StageStepKeeps, StageWorksKeeps,
     StageSubmitsKeeps, StageGivesUpKeeps
<1>5. CASE \/ BoundaryBlocks \/ BoundaryRoutes \/ BoundaryPasses
           \/ SubmissionMissing \/ SubmissionAccepted \/ SubmissionRejected
  BY ONLY <1>1, <1>5, BoundaryBlocksKeeps, BoundaryRoutesKeeps, BoundaryPassesKeeps,
     SubmissionMissingKeeps, SubmissionAcceptedKeeps, SubmissionRejectedKeeps
<1>6. CASE \/ ChecksBegin \/ ExecutorBlocks \/ ChecksReturn \/ ContractRefuses
           \/ ChecksPassed \/ ChecksFailed
  BY ONLY <1>1, <1>6, ChecksBeginKeeps, ExecutorBlocksKeeps, ChecksReturnKeeps,
     ContractRefusesKeeps, ChecksPassedKeeps, ChecksFailedKeeps
<1>7. CASE \/ SealForCommit \/ VerifyCommit \/ CommitRefused \/ CommitReused
           \/ StageTaskPaths \/ GitCommitSucceeds \/ GitCommitFails \/ CommitLanded
  BY ONLY <1>1, <1>7, SealForCommitKeeps, VerifyCommitKeeps, CommitRefusedKeeps,
     CommitReusedKeeps, StageTaskPathsKeeps, GitCommitSucceedsKeeps, GitCommitFailsKeeps,
     CommitLandedKeeps
<1>8. CASE ReportOutcome \/ RunFinished \/ RunFailed
  BY ONLY <1>1, <1>8, ReportOutcomeKeeps, RunFinishedKeeps, RunFailedKeeps
<1>9. CASE Outsiders
  BY ONLY <1>1, <1>9, SendMessageKeeps, CancelSessionKeeps, ResumeSessionKeeps,
     RestartDeliveryKeeps, OutsideEditKeeps, OutsideCommitKeeps, DaemonRestartKeeps
  DEF Outsiders
<1>10. CASE Dispatch
  BY ONLY <1>1, <1>10, DispatchKeeps
<1>11. CASE UNCHANGED vars
  BY ONLY <1>1, <1>11, IdlingKeeps
<1>12. \/ Dispatch \/ DriverStep \/ Outsiders \/ UNCHANGED vars
  BY DEF Next
<1> QED
  BY ONLY <1>2, <1>3, <1>4, <1>5, <1>6, <1>7, <1>8, <1>9, <1>10, <1>11, <1>12 DEF DriverStep

\* The invariant holds in every reachable state.
LEMMA Reachable == Spec => []DeliveryInv
BY InitFits, DeliveryStep, PTL DEF Spec

\* Every reachable state is well-typed, with the driver's budget and the queue inside
\* their bounds.
THEOREM TypeCorrect == Spec => []TypeOK
BY Reachable, PTL DEF DeliveryInv

\* managed_commit commits what the code review passed, through every resume, repair and
\* edit, unless another program interferes inside the commit step.
THEOREM ReviewedContentIsCommitted == Spec => []CommitsHoldReviewedContent
BY Reachable, PTL DEF DeliveryInv

\* The commit a Ready run reports is of the reviewed content, and is its own or older
\* than the workflow.
THEOREM TheCommitIsTheRuns == Spec => []ReadyNamesItsCommit
BY Reachable, PTL DEF DeliveryInv

\* Wherever the daemon stops, a commit that was made is due or taken over in what is
\* stored.
THEOREM NoCommitIsForgotten == Spec => []CommitIsRemembered
BY Reachable, PTL DEF DeliveryInv

\* A step is in the stored checkpoint before the model acts on it.
THEOREM ChargedBeforeActing == Spec => []StepsAreChargedFirst
BY Reachable, PTL DEF DeliveryInv

\* A run that ends well has no message left and takes none.
THEOREM EveryMessageIsHeard == Spec => []SuccessHasHeardEveryMessage
BY Reachable, PTL DEF DeliveryInv

-----------------------------------------------------------------------------
(* How messages leave the queue *)

QueueStays == session'.pending = session.pending

\* What the driver does to the session is to checkpoint it.
LEMMA DriverKeepsQueue ==
    ASSUME session \in SessionType
    PROVE  /\ \A d : Checkpointed(session, d).pending = session.pending
           /\ \A pc, run : Saves(pc, run) => QueueStays
           /\ \A run : Stops(run) => QueueStays
           /\ RunnerFails => QueueStays
           /\ RoutesIntervention => QueueStays
           /\ \A run : EndsInsideChecks(run) => QueueStays
           /\ \A oid : RecordsCommit(oid) => QueueStays
<1>1. ASSUME NEW d PROVE Checkpointed(session, d).pending = session.pending
  BY DEF Checkpointed, SessionType
<1>2. ASSUME NEW pc, NEW run, Saves(pc, run) PROVE QueueStays
  BY <1>1, <1>2 DEF Saves, QueueStays
<1>3. /\ \A run : Stops(run) => QueueStays
      /\ RunnerFails => QueueStays
  BY DEF Stops, RunnerFails, QueueStays
<1>4. RoutesIntervention => QueueStays
  BY <1>1 DEF RoutesIntervention, QueueStays
<1>5. ASSUME NEW run, EndsInsideChecks(run) PROVE QueueStays
  <2>1. CASE HasMessages
    BY <1>4, <1>5, <2>1 DEF EndsInsideChecks, Seals
  <2>2. CASE ~HasMessages
    <3> DEFINE t == Checkpointed(session, driver')
    <3>1. session' = [t EXCEPT !.window = FALSE]
      BY <1>5, <2>2 DEF EndsInsideChecks, Seals
    <3>2. "pending" \in DOMAIN t /\ t.pending = session.pending
      BY DEF Checkpointed, SessionType
    <3> HIDE DEF t
    <3> QED BY <3>1, <3>2 DEF QueueStays
  <2> QED BY <2>1, <2>2
<1>6. \A oid : RecordsCommit(oid) => QueueStays
  BY <1>2 DEF RecordsCommit
<1> QED BY <1>1, <1>2, <1>3, <1>4, <1>5, <1>6

LEMMA StartingKeepsQueue ==
    ASSUME session \in SessionType, StartWorkflow \/ RefuseCheckpoint \/ ResumeWorkflow
    PROVE  QueueStays
BY DriverKeepsQueue DEF StartWorkflow, RefuseCheckpoint, ResumeWorkflow, QueueStays

LEMMA LoopKeepsQueue ==
    ASSUME session \in SessionType,
           \/ LoopCancelled \/ LoopTerminal \/ LoopRoutes \/ LoopOutOfSteps
           \/ LoopClosesNoChange \/ LoopEntersStage \/ LoopFindsDrift
    PROVE  QueueStays
<1>1. CASE LoopEntersStage
  <2> DEFINE t == Checkpointed(session, driver')
  <2>1. session' = [t EXCEPT !.window = TRUE]
    BY <1>1 DEF LoopEntersStage
  <2>2. "pending" \in DOMAIN t /\ t.pending = session.pending
    BY DEF Checkpointed, SessionType
  <2> HIDE DEF t
  <2> QED BY <2>1, <2>2 DEF QueueStays
<1>2. CASE \/ LoopCancelled \/ LoopTerminal \/ LoopRoutes \/ LoopOutOfSteps
           \/ LoopClosesNoChange \/ LoopFindsDrift
  BY <1>2, DriverKeepsQueue
  DEF LoopCancelled, LoopTerminal, LoopRoutes, LoopOutOfSteps, LoopClosesNoChange,
      LoopFindsDrift
<1> QED BY <1>1, <1>2

LEMMA BoundaryKeepsQueue ==
    ASSUME session \in SessionType,
           \/ BoundaryBlocks \/ BoundaryRoutes \/ BoundaryPasses
           \/ SubmissionMissing \/ SubmissionAccepted \/ SubmissionRejected
    PROVE  QueueStays
BY DriverKeepsQueue
DEF BoundaryBlocks, BoundaryRoutes, BoundaryPasses, SubmissionMissing, SubmissionAccepted,
    SavesAccepted, SubmissionRejected, QueueStays

LEMMA ChecksKeepQueue ==
    ASSUME session \in SessionType,
           \/ ChecksBegin \/ ExecutorBlocks \/ ChecksReturn \/ ContractRefuses
           \/ ChecksPassed \/ ChecksFailed
    PROVE  QueueStays
BY DriverKeepsQueue
DEF ChecksBegin, ExecutorBlocks, ChecksReturn, ContractRefuses, ChecksPassed, ChecksFailed,
    QueueStays

LEMMA CommittingKeepsQueue ==
    ASSUME session \in SessionType,
           \/ SealForCommit \/ VerifyCommit \/ CommitRefused \/ CommitReused
           \/ StageTaskPaths \/ GitCommitSucceeds \/ GitCommitFails \/ CommitLanded
    PROVE  QueueStays
<1>1. CASE SealForCommit
  BY <1>1 DEF SealForCommit, SessionType, QueueStays
<1>2. CASE VerifyCommit
  BY <1>2, DriverKeepsQueue DEF VerifyCommit, QueueStays
<1>3. CASE CommitRefused \/ CommitReused \/ GitCommitFails \/ CommitLanded
  BY <1>3, DriverKeepsQueue DEF CommitRefused, CommitReused, GitCommitFails, CommitLanded
<1>4. CASE StageTaskPaths \/ GitCommitSucceeds
  BY <1>4 DEF StageTaskPaths, GitCommitSucceeds, QueueStays
<1> QED BY <1>1, <1>2, <1>3, <1>4

LEMMA EndKeepsQueue ==
    ASSUME session \in SessionType, ReportOutcome \/ RunFinished \/ RunFailed
    PROVE  QueueStays
<1>1. CASE ReportOutcome
  BY <1>1, DriverKeepsQueue DEF ReportOutcome, QueueStays
<1>2. CASE RunFinished
  <2> DEFINE t == Checkpointed(session, driver)
  <2>1. session' = [t EXCEPT !.status = StatusAfter(driver.run), !.baseline = driver.base,
                             !.cancel = FALSE]
    BY <1>2 DEF RunFinished
  <2>2. "pending" \in DOMAIN t /\ t.pending = session.pending
    BY DEF Checkpointed, SessionType
  <2> HIDE DEF t
  <2> QED BY <2>1, <2>2 DEF QueueStays
<1>3. CASE RunFailed
  BY <1>3 DEF RunFailed, SessionType, QueueStays
<1> QED BY <1>1, <1>2, <1>3

\* An author takes the whole queue, a critic's step leaves it.
LEMMA StageTakesQueue ==
    ASSUME session \in SessionType,
           \/ StageCancelled \/ StageStep \/ StageWorks \/ StageSubmits \/ StageGivesUp
    PROVE  driver.pc \in {"model", "acted"} /\ (Stage \in Authoring \/ QueueStays)
<1>1. /\ Heard(session) \in SessionType
      /\ Stage \notin Authoring => Heard(session) = session
  BY HeardKeeps DEF Heard
<1>2. \A h \in SessionType : \A d : Checkpointed(h, d).pending = h.pending
  BY DEF Checkpointed, SessionType
<1>3. CASE StageCancelled
  BY <1>1, <1>3 DEF StageCancelled, At, QueueStays
<1>4. CASE StageStep
  BY <1>1, <1>2, <1>4 DEF StageStep, ChargeCheckpointed, At, QueueStays
<1>5. CASE StageWorks \/ StageGivesUp
  BY <1>5 DEF StageWorks, StageGivesUp, At, QueueStays
<1>6. CASE StageSubmits
  BY <1>6 DEF StageSubmits, At, QueueStays
<1> QED BY <1>3, <1>4, <1>5, <1>6

LEMMA OutsidersKeepQueue ==
    ASSUME session \in SessionType, Outsiders
    PROVE  session'.pending >= session.pending
<1>1. session.pending \in Nat
  BY DriverLimits DEF SessionType
<1>2. CASE SendMessage
  <2>1. session'.pending = session.pending + 1
    BY <1>2 DEF SendMessage, SessionType
  <2> QED BY <1>1, <2>1
<1>3. CASE CancelSession \/ ResumeSession \/ RestartDelivery \/ DaemonRestart
  <2>1. session'.pending = session.pending
    BY <1>3 DEF CancelSession, ResumeSession, RestartDelivery, DaemonRestart, Reloaded,
                SessionType
  <2> QED BY <1>1, <2>1
<1>4. CASE OutsideEdit \/ OutsideCommit
  BY <1>1, <1>4 DEF OutsideEdit, OutsideCommit
<1> QED BY <1>2, <1>3, <1>4 DEF Outsiders

\* take_user_messages is the only way out of the queue: no cancellation, restart, routed
\* intervention, discarded submission or recovery of the daemon loses a message.
THEOREM MessagesAreNotLost == Spec => MessagesLeaveOnlyToAnAuthor
<1> DEFINE Taken == session'.pending < session.pending =>
                        driver.pc \in {"model", "acted"} /\ Stage \in Authoring
<1>1. DeliveryInv /\ [Next]_vars => [Taken]_vars
  <2> SUFFICES ASSUME DeliveryInv, Next PROVE Taken
    OBVIOUS
  <2>1. session \in SessionType /\ session.pending \in Nat
    BY Counters
  <2>2. QueueStays => Taken
    BY <2>1 DEF QueueStays
  <2>3. CASE Dispatch
    BY <2>1, <2>2, <2>3 DEF Dispatch, SessionType, QueueStays
  <2>4. CASE DriverStep
    <3>1. \/ QueueStays
          \/ driver.pc \in {"model", "acted"} /\ Stage \in Authoring
      BY ONLY <2>1, <2>4, StartingKeepsQueue, LoopKeepsQueue, BoundaryKeepsQueue,
         ChecksKeepQueue, CommittingKeepsQueue, EndKeepsQueue, StageTakesQueue
      DEF DriverStep
    <3> QED BY <2>2, <3>1
  <2>5. CASE Outsiders
    <3>1. session'.pending >= session.pending
      BY <2>1, <2>5, OutsidersKeepQueue
    <3>2. session'.pending \in Nat
      BY DeliveryStep, Counters DEF Next, DeliveryInv, TypeOK, SessionType
    <3> QED BY <2>1, <3>1, <3>2
  <2> QED BY <2>3, <2>4, <2>5 DEF Next
<1> QED BY <1>1, Reachable, PTL DEF Spec, MessagesLeaveOnlyToAnAuthor

-----------------------------------------------------------------------------
(* The stored turn is a delivery, as DeliveryContract has it *)

\* What is stored of the run at hand: it may be behind with the charge, until its end
\* or its block is stored.
StoredAs ==
    \/ /\ session.saved # None /\ session.saved.run.stage \in ActiveStages
       /\ \A x \in ActiveStages : driver.run.steps[x] >= session.saved.run.steps[x]
    \/ EndsRun(driver.run) /\ session.saved = None /\ session.archived = driver.run.outcome
    \/ driver.run.stage = "Blocked" /\ session.saved # None /\ session.saved.run = driver.run

RunIsStored == driver.pc \in HasRun => StoredAs

\* An ended turn is taken up again after a daemon's stop only.
EndIsFinal ==
    session.saved = None /\ session.archived # None
        /\ (session.status \in {"Queued", "Paused"} \/ At("start")) =>
            MaxCrashes > 0 \/ MaxRestarts > 0

ContractInv == RunIsStored /\ EndIsFinal

Moves == [Contract!Next]_StoredDelivery

LEMMA StepsGrow ==
    ASSUME NEW r \in WorkflowRun, NEW s \in WorkflowRun,
           \A x \in ActiveStages : s.steps[x] >= r.steps[x]
    PROVE  /\ StepsTaken(r) \in Nat /\ StepsTaken(s) \in Nat
           /\ StepsTaken(s) >= StepsTaken(r)
<1> DEFINE f == r.steps  g == s.steps
<1>1. f \in [ActiveStages -> Nat] /\ g \in [ActiveStages -> Nat]
  BY DEF WorkflowRun
<1>2. \A x \in ActiveStages : f[x] \in Nat /\ g[x] \in Nat /\ g[x] >= f[x]
  BY <1>1
<1> HIDE DEF f, g
<1>3. /\ f["Planning"] \in Nat /\ g["Planning"] \in Nat /\ g["Planning"] >= f["Planning"]
      /\ f["PlanReview"] \in Nat /\ g["PlanReview"] \in Nat /\ g["PlanReview"] >= f["PlanReview"]
      /\ f["PlanRevision"] \in Nat /\ g["PlanRevision"] \in Nat
      /\ g["PlanRevision"] >= f["PlanRevision"]
      /\ f["Implementing"] \in Nat /\ g["Implementing"] \in Nat
      /\ g["Implementing"] >= f["Implementing"]
      /\ f["Checking"] \in Nat /\ g["Checking"] \in Nat /\ g["Checking"] >= f["Checking"]
      /\ f["CodeReview"] \in Nat /\ g["CodeReview"] \in Nat /\ g["CodeReview"] >= f["CodeReview"]
      /\ f["Repairing"] \in Nat /\ g["Repairing"] \in Nat /\ g["Repairing"] >= f["Repairing"]
      /\ f["Committing"] \in Nat /\ g["Committing"] \in Nat /\ g["Committing"] >= f["Committing"]
  BY <1>2 DEF ActiveStages
<1>4. /\ StepsTaken(r) = f["Planning"] + f["PlanReview"] + f["PlanRevision"]
                         + f["Implementing"] + f["Checking"] + f["CodeReview"]
                         + f["Repairing"] + f["Committing"]
      /\ StepsTaken(s) = g["Planning"] + g["PlanReview"] + g["PlanRevision"]
                         + g["Implementing"] + g["Checking"] + g["CodeReview"]
                         + g["Repairing"] + g["Committing"]
  BY DEF StepsTaken, f, g
<1> QED BY <1>3, <1>4

\* What the owner sees, before and after a step.
LEMMA OwnersView ==
    /\ session.saved # None =>
           StoredDelivery =
               [phase |-> IF session.saved.run.stage = "Blocked" THEN "Blocked" ELSE "Working",
                used |-> StepsTaken(session.saved.run)]
    /\ session.saved = None /\ session.archived = None => StoredDelivery = None
    /\ session.saved = None /\ session.archived # None =>
           StoredDelivery =
               [phase |-> IF session.archived \in SuccessOutcomes THEN "Delivered"
                          ELSE "Stopped", used |-> 0]
BY DEF StoredDelivery

LEMMA OwnersNextView ==
    /\ session'.saved # None =>
           StoredDelivery' =
               [phase |-> IF session'.saved.run.stage = "Blocked" THEN "Blocked" ELSE "Working",
                used |-> StepsTaken(session'.saved.run)]
    /\ session'.saved = None /\ session'.archived = None => StoredDelivery' = None
    /\ session'.saved = None /\ session'.archived # None =>
           StoredDelivery' =
               [phase |-> IF session'.archived \in SuccessOutcomes THEN "Delivered"
                          ELSE "Stopped", used |-> 0]
BY DEF StoredDelivery

LEMMA DeliveryFields ==
    ASSUME NEW n \in Nat, NEW phase \in {"Working", "Blocked"}
    PROVE  [phase |-> phase, used |-> n] # None
BY NoneIsNoDelivery DEF Contract!Children

LEMMA EndFields ==
    ASSUME NEW phase \in {"Delivered", "Stopped"}
    PROVE  [phase |-> phase, used |-> 0] # None
BY NoneIsNoDelivery DEF Contract!Children, Contract!Ended

LEMMA WorkingMoves ==
    ASSUME NEW n \in Nat, StoredDelivery = [phase |-> "Working", used |-> n],
           \/ \E m \in Nat : m >= n /\ StoredDelivery' = [phase |-> "Working", used |-> m]
           \/ \E m \in Nat : m >= n /\ StoredDelivery' = [phase |-> "Blocked", used |-> m]
           \/ StoredDelivery' = [phase |-> "Delivered", used |-> 0]
           \/ StoredDelivery' = [phase |-> "Stopped", used |-> 0]
    PROVE  Moves
<1>1. Contract!IsIn({"Working"}) /\ Contract!IsIn({"Working", "Blocked"})
  BY DeliveryFields DEF Contract!IsIn
<1>2. ASSUME NEW phase, NEW m \in Nat, m >= n, StoredDelivery' = [phase |-> phase, used |-> m]
      PROVE  Contract!Charged(phase)
  BY <1>2 DEF Contract!Charged
<1> QED
  BY <1>1, <1>2
  DEF Moves, Contract!Next, Contract!Works, Contract!Blocks, Contract!Delivers, Contract!Stops

LEMMA BlockedMoves ==
    ASSUME NEW n \in Nat, StoredDelivery = [phase |-> "Blocked", used |-> n],
           \/ StoredDelivery' = [phase |-> "Working", used |-> n]
           \/ StoredDelivery' = [phase |-> "Stopped", used |-> 0]
           \/ StoredDelivery' = None /\ (MaxCrashes > 0 \/ MaxRestarts > 0)
    PROVE  Moves
<1>1. Contract!IsIn({"Blocked"}) /\ Contract!IsIn({"Working", "Blocked"})
  BY DeliveryFields DEF Contract!IsIn
<1>2. [StoredDelivery EXCEPT !.phase = "Working"] = [phase |-> "Working", used |-> n]
  OBVIOUS
<1> QED
  BY <1>1, <1>2
  DEF Moves, Contract!Next, Contract!Resumes, Contract!Stops, Contract!IsDropped

LEMMA BeginningMoves ==
    ASSUME StoredDelivery' = [phase |-> "Working", used |-> 0],
           \/ StoredDelivery = None
           \/ /\ MaxCrashes > 0 \/ MaxRestarts > 0
              /\ \E phase \in {"Delivered", "Stopped"} :
                     StoredDelivery = [phase |-> phase, used |-> 0]
    PROVE  Moves
<1>1. CASE StoredDelivery = None
  BY <1>1 DEF Moves, Contract!Next, Contract!Begins
<1>2. CASE \E phase \in {"Delivered", "Stopped"} :
               StoredDelivery = [phase |-> phase, used |-> 0]
  <2>1. Contract!IsIn(Contract!Ended)
    BY <1>2, EndFields DEF Contract!IsIn, Contract!Ended
  <2>2. CASE MaxCrashes > 0 \/ MaxRestarts > 0
    BY <2>1, <2>2 DEF Moves, Contract!Next, Contract!BeginsAgain
  <2> QED BY <1>1, <2>2
<1> QED BY <1>1, <1>2

LEMMA KeptMoves ==
    ASSUME session'.saved = session.saved, session'.archived = session.archived
    PROVE  Moves
BY DEF Moves, StoredDelivery

\* A step of a run is a step of the delivery: it is charged, blocked or ended, or
\* nothing is stored.
LEMMA RunStepMoves ==
    ASSUME DeliveryInv, ContractInv, driver.pc \in HasRun, RunStep
    PROVE  ContractInv' /\ Moves
<1>1. PICK s :
        /\ Sound(s) /\ Charges(s)
        /\ driver'.pc \in HasRun => driver'.run = s
        /\ driver'.pc # "start" /\ session'.status \notin {"Queued", "Paused"}
        /\ \/ session'.saved = session.saved /\ session'.archived = session.archived
           \/ EndsRun(s) /\ session'.saved = None /\ session'.archived = s.outcome
           \/ ~EndsRun(s) /\ session'.saved # None /\ session'.saved.run = s
  BY DEF RunStep
<1>2. StoredAs /\ Sound(driver.run) /\ driver.run \in WorkflowRun /\ s \in WorkflowRun
  BY <1>1, WithRun DEF ContractInv, RunIsStored, Sound
<1>3. EndIsFinal'
  BY <1>1 DEF EndIsFinal, At
<1>4. EndsRun(s) => s.outcome # None
  BY <1>1 DEF Sound, EndsRun
<1>5. ~EndsRun(s) => s.stage \in ActiveStages \cup {"Blocked"}
  BY <1>2 DEF EndsRun, IsTerminal, WorkflowRun, Stages
<1>6. \A x \in ActiveStages : s.steps[x] \in Nat /\ driver.run.steps[x] \in Nat
  BY <1>2 DEF WorkflowRun
<1>7. "Blocked" \notin ActiveStages /\ "Blocked" \in TerminalStages
  BY DEF ActiveStages, TerminalStages
<1>8. CASE /\ session.saved # None /\ session.saved.run.stage \in ActiveStages
           /\ \A x \in ActiveStages : driver.run.steps[x] >= session.saved.run.steps[x]
  <2> DEFINE r == session.saved.run
  <2>1. r \in WorkflowRun /\ r.stage \in ActiveStages /\ r.stage # "Blocked"
    BY <1>7, <1>8 DEF DeliveryInv, StoredIsSound, Sound
  <2>2. \A x \in ActiveStages : s.steps[x] >= r.steps[x]
    <3>1. \A x \in ActiveStages : r.steps[x] \in Nat
      BY <2>1 DEF WorkflowRun
    <3> QED BY <1>1, <1>6, <1>8, <3>1 DEF Charges
  <2>3. StepsTaken(r) \in Nat /\ StepsTaken(s) \in Nat /\ StepsTaken(s) >= StepsTaken(r)
    BY <1>2, <2>1, <2>2, StepsGrow
  <2>4. StoredDelivery = [phase |-> "Working", used |-> StepsTaken(r)]
    BY <1>8, <2>1, OwnersView
  <2>5. CASE session'.saved = session.saved /\ session'.archived = session.archived
    <3>1. RunIsStored'
      BY <1>1, <1>8, <2>2, <2>5 DEF RunIsStored, StoredAs
    <3> QED BY <1>3, <2>5, <3>1, KeptMoves DEF ContractInv
  <2>6. CASE EndsRun(s) /\ session'.saved = None /\ session'.archived = s.outcome
    <3>1. RunIsStored'
      BY <1>1, <2>6 DEF RunIsStored, StoredAs
    <3>2. \/ StoredDelivery' = [phase |-> "Delivered", used |-> 0]
          \/ StoredDelivery' = [phase |-> "Stopped", used |-> 0]
      BY <1>4, <2>6, OwnersNextView
    <3>3. Moves
      BY <2>3, <2>4, <3>2, WorkingMoves
    <3> QED BY <1>3, <3>1, <3>3 DEF ContractInv
  <2>7. CASE ~EndsRun(s) /\ session'.saved # None /\ session'.saved.run = s
    <3>1. RunIsStored'
      BY <1>1, <1>5, <1>6, <2>7 DEF RunIsStored, StoredAs
    <3>2. \/ StoredDelivery' = [phase |-> "Working", used |-> StepsTaken(s)]
          \/ StoredDelivery' = [phase |-> "Blocked", used |-> StepsTaken(s)]
      BY <2>7, OwnersNextView
    <3>3. Moves
      BY <2>3, <2>4, <3>2, WorkingMoves
    <3> QED BY <1>3, <3>1, <3>3 DEF ContractInv
  <2> QED BY <1>1, <2>5, <2>6, <2>7
<1>9. CASE EndsRun(driver.run) /\ session.saved = None /\ session.archived = driver.run.outcome
  <2>1. s = driver.run /\ session'.saved = session.saved /\ session'.archived = session.archived
    BY <1>1, <1>9 DEF Charges, EndsRun
  <2>2. RunIsStored'
    BY <1>1, <1>9, <2>1 DEF RunIsStored, StoredAs
  <2> QED BY <1>3, <2>1, <2>2, KeptMoves DEF ContractInv
<1>10. CASE driver.run.stage = "Blocked" /\ session.saved # None /\ session.saved.run = driver.run
  <2>1. s = driver.run /\ ~EndsRun(s)
    BY <1>1, <1>7, <1>10 DEF Charges, EndsRun, IsTerminal
  <2>2. session'.saved # None /\ session'.saved.run = s
    BY <1>1, <1>10, <2>1
  <2>3. RunIsStored'
    BY <1>1, <1>10, <2>1, <2>2 DEF RunIsStored, StoredAs
  <2>4. StoredDelivery' = StoredDelivery
    BY <1>10, <2>1, <2>2, OwnersView, OwnersNextView
  <2>5. Moves
    BY <2>4 DEF Moves
  <2> QED BY <1>3, <2>3, <2>5 DEF ContractInv
<1> QED BY <1>2, <1>8, <1>9, <1>10 DEF StoredAs

\* A run is taken up where it was stored, with what it was charged, or it begins.
LEMMA TakingUpMoves ==
    ASSUME DeliveryInv, ContractInv, At("start"), NEW s, TakesUp(s),
           \/ session.saved = None /\ s.stage # "Blocked" /\ StepsTaken(s) = 0
           \/ session.saved # None /\ s.steps = session.saved.run.steps
    PROVE  ContractInv' /\ Moves
<1>1. /\ driver'.pc = "loop" /\ driver'.run = s /\ session'.status = "Running"
      /\ session'.saved # None /\ session'.saved.run = s
      /\ s.stage \in ActiveStages \cup {"Blocked"} /\ s \in WorkflowRun
  BY DEF TakesUp, Sound
<1>2. \A x \in ActiveStages : s.steps[x] \in Nat
  BY <1>1 DEF WorkflowRun
<1>3. RunIsStored'
  BY <1>1, <1>2 DEF RunIsStored, StoredAs
<1>4. EndIsFinal'
  BY <1>1 DEF EndIsFinal
<1>5. StoredDelivery' =
          [phase |-> IF s.stage = "Blocked" THEN "Blocked" ELSE "Working", used |-> StepsTaken(s)]
  BY <1>1, OwnersNextView
<1>6. CASE session.saved = None /\ s.stage # "Blocked" /\ StepsTaken(s) = 0
  <2>1. StoredDelivery' = [phase |-> "Working", used |-> 0]
    BY <1>5, <1>6
  <2>2. session.archived # None => MaxCrashes > 0 \/ MaxRestarts > 0
    BY <1>6 DEF ContractInv, EndIsFinal
  <2>3. \/ StoredDelivery = None
        \/ /\ MaxCrashes > 0 \/ MaxRestarts > 0
           /\ \E phase \in {"Delivered", "Stopped"} :
                  StoredDelivery = [phase |-> phase, used |-> 0]
    BY <1>6, <2>2, OwnersView
  <2>4. Moves
    BY <2>1, <2>3, BeginningMoves
  <2> QED BY <1>3, <1>4, <2>4 DEF ContractInv
<1>7. CASE session.saved # None /\ s.steps = session.saved.run.steps
  <2> DEFINE r == session.saved.run
  <2>1. StepsTaken(r) \in Nat /\ StepsTaken(s) = StepsTaken(r)
    <3>1. StepsTaken(s) \in Nat
      BY <1>1, <1>2, StepsGrow
    <3> QED BY <1>7, <3>1 DEF StepsTaken
  <2>2. StoredDelivery =
            [phase |-> IF r.stage = "Blocked" THEN "Blocked" ELSE "Working", used |-> StepsTaken(r)]
    BY <1>7, OwnersView
  <2> HIDE DEF r
  <2>3. CASE r.stage # "Blocked"
    <3>1. StoredDelivery = [phase |-> "Working", used |-> StepsTaken(r)]
      BY <2>2, <2>3
    <3>2. \/ StoredDelivery' = [phase |-> "Working", used |-> StepsTaken(r)]
          \/ StoredDelivery' = [phase |-> "Blocked", used |-> StepsTaken(r)]
      BY <1>5, <2>1
    <3>3. Moves
      BY <2>1, <3>1, <3>2, WorkingMoves
    <3> QED BY <1>3, <1>4, <3>3 DEF ContractInv
  <2>4. CASE r.stage = "Blocked" /\ s.stage = "Blocked"
    <3>1. StoredDelivery' = StoredDelivery
      BY <1>5, <2>1, <2>2, <2>4
    <3>2. Moves
      BY <3>1 DEF Moves
    <3> QED BY <1>3, <1>4, <3>2 DEF ContractInv
  <2>5. CASE r.stage = "Blocked" /\ s.stage # "Blocked"
    <3>1. /\ StoredDelivery = [phase |-> "Blocked", used |-> StepsTaken(r)]
          /\ StoredDelivery' = [phase |-> "Working", used |-> StepsTaken(r)]
      BY <1>5, <2>1, <2>2, <2>5
    <3>2. Moves
      BY <2>1, <3>1, BlockedMoves
    <3> QED BY <1>3, <1>4, <3>2 DEF ContractInv
  <2> QED BY <2>3, <2>4, <2>5
<1> QED BY <1>6, <1>7

LEMMA NoStepIsTaken ==
    ASSUME NEW content \in Contents
    PROVE  StepsTaken(Start(content)) = 0
<1>1. \A x \in ActiveStages : Start(content).steps[x] = 0
  BY DEF Start
<1> QED BY <1>1 DEF StepsTaken, ActiveStages

\* What happens around the run changes nothing that is stored of it.
LEMMA SameStoreMoves ==
    ASSUME ContractInv, session'.saved = session.saved, session'.archived = session.archived,
           \/ driver'.pc \notin HasRun
           \/ driver'.pc = driver.pc /\ driver'.run = driver.run,
           \/ session'.status \notin {"Queued", "Paused"} /\ driver'.pc # "start"
           \/ session.status \in {"Queued", "Paused"} \/ driver.pc = "start"
           \/ session.saved # None
           \/ MaxCrashes > 0
    PROVE  ContractInv' /\ Moves
<1>1. RunIsStored'
  BY DEF ContractInv, RunIsStored, StoredAs
<1>2. EndIsFinal'
  BY DEF ContractInv, EndIsFinal, At
<1> QED BY <1>1, <1>2, KeptMoves DEF ContractInv

LEMMA StartingMoves ==
    ASSUME DeliveryInv, ContractInv, StartWorkflow \/ RefuseCheckpoint \/ ResumeWorkflow
    PROVE  ContractInv' /\ Moves
<1>1. CASE StartWorkflow
  <2>1. TakesUp(Start(repo.content)) /\ At("start") /\ session.saved = None
    BY <1>1, StartWorkflowKeeps DEF StartWorkflow
  <2>2. repo.content \in Contents
    BY DEF DeliveryInv, TypeOK, RepoType
  <2>3. Start(repo.content).stage # "Blocked" /\ StepsTaken(Start(repo.content)) = 0
    BY <2>2, StartIsSound, NoStepIsTaken
  <2> QED BY <2>1, <2>3, TakingUpMoves
<1>2. CASE RefuseCheckpoint
  <2>1. /\ driver.pc = "start" /\ driver'.pc = "error" /\ session' = session
    BY <1>2 DEF RefuseCheckpoint, RunnerFails, At, DeliveryInv, TypeOK, DriverType
  <2>2. driver'.pc \notin HasRun
    BY <2>1 DEF HasRun, SinceLoop, InStage, Reporting
  <2> QED BY <2>1, <2>2, SameStoreMoves
<1>3. CASE ResumeWorkflow
  <2>1. PICK s : TakesUp(s) /\ s.steps = session.saved.run.steps
    BY <1>3, ResumeWorkflowKeeps
  <2>2. At("start") /\ session.saved # None
    BY <1>3 DEF ResumeWorkflow
  <2> QED BY <2>1, <2>2, TakingUpMoves
<1> QED BY <1>1, <1>2, <1>3

LEMMA EndingMoves ==
    ASSUME DeliveryInv, ContractInv, Dispatch \/ RunFailed
    PROVE  ContractInv' /\ Moves
<1>1. CASE Dispatch
  <2>1. /\ session.status = "Queued" /\ driver'.pc = "start"
        /\ session'.saved = session.saved /\ session'.archived = session.archived
    BY <1>1, Counters DEF Dispatch, SessionType, DriverType
  <2>2. driver'.pc \notin HasRun
    BY <2>1 DEF HasRun, SinceLoop, InStage, Reporting
  <2> QED BY <2>1, <2>2, SameStoreMoves
<1>2. CASE RunFailed
  <2>1. /\ session'.status = "Failed" /\ driver'.pc = "off"
        /\ session'.saved = session.saved /\ session'.archived = session.archived
    BY <1>2, Counters DEF RunFailed, SessionType, Off
  <2>2. driver'.pc \notin HasRun
    BY <2>1 DEF HasRun, SinceLoop, InStage, Reporting
  <2> QED BY <2>1, <2>2, SameStoreMoves
<1> QED BY <1>1, <1>2

\* A session that has no driver is cancelled with what it has stored.
LEMMA CancelSessionMoves ==
    ASSUME DeliveryInv, ContractInv, CancelSession
    PROVE  ContractInv' /\ Moves
<1>1. driver' = driver
  BY DEF CancelSession
<1>2. CASE session.status = "Running"
  <2>1. /\ session'.status = session.status
        /\ session'.saved = session.saved /\ session'.archived = session.archived
    BY <1>2, Counters DEF CancelSession, SessionType
  <2> QED BY <1>1, <1>2, <2>1, SameStoreMoves
<1>3. CASE session.status # "Running" /\ session.saved = None
  <2>1. /\ session'.status = "Completed"
        /\ session'.saved = session.saved /\ session'.archived = session.archived
    BY <1>3, Counters DEF CancelSession, SessionType
  <2> QED BY <1>1, <1>3, <2>1, SameStoreMoves DEF DeliveryInv, RunFitsPosition, At
<1>4. CASE session.status # "Running" /\ session.saved # None
  <2> DEFINE r == session.saved.run
  <2>1. /\ session'.status = "Completed" /\ session'.saved = None
        /\ session'.archived = "Cancelled"
    BY <1>4, Counters DEF CancelSession, SessionType
  <2>2. driver'.pc = "off"
    BY <1>1, <1>4 DEF DeliveryInv, RunFitsPosition, At
  <2>3. ContractInv'
    BY <2>1, <2>2
    DEF ContractInv, RunIsStored, EndIsFinal, At, HasRun, SinceLoop, InStage, Reporting
  <2>4. r \in WorkflowRun
    BY <1>4 DEF DeliveryInv, StoredIsSound, Sound
  <2>5. StepsTaken(r) \in Nat
    <3>1. \A x \in ActiveStages : r.steps[x] \in Nat
      BY <2>4 DEF WorkflowRun
    <3> QED BY <2>4, <3>1, StepsGrow
  <2>6. "Cancelled" # None /\ "Cancelled" \notin SuccessOutcomes
    BY NoneIsNothing DEF Outcomes, SuccessOutcomes
  <2>7. StoredDelivery' = [phase |-> "Stopped", used |-> 0]
    BY <2>1, <2>6, OwnersNextView
  <2>8. \/ StoredDelivery = [phase |-> "Working", used |-> StepsTaken(r)]
        \/ StoredDelivery = [phase |-> "Blocked", used |-> StepsTaken(r)]
    BY <1>4, OwnersView
  <2> QED BY <2>3, <2>5, <2>7, <2>8, WorkingMoves, BlockedMoves
<1> QED BY <1>2, <1>3, <1>4

\* A block is dropped for a new turn.
LEMMA RestartDeliveryMoves ==
    ASSUME DeliveryInv, ContractInv, RestartDelivery
    PROVE  ContractInv' /\ Moves
<1> DEFINE r == session.saved.run
<1>1. /\ session.status = "Failed" /\ session.saved # None /\ r.stage = "Blocked"
      /\ driver' = driver
      /\ session'.saved = None /\ session'.archived = None
  BY Counters DEF RestartDelivery, SavedIsBlocked, SessionType
<1>2. MaxRestarts > 0
  <2>1. env["restarts"] < MaxRestarts /\ env["restarts"] \in Nat /\ MaxRestarts \in Nat
    BY Counters, DriverLimits DEF RestartDelivery, Counts, Events
  <2> QED BY <2>1
<1>3. ContractInv'
  BY <1>1
  DEF DeliveryInv, RunFitsPosition, At, ContractInv, RunIsStored, EndIsFinal, HasRun,
      SinceLoop, InStage, Reporting
<1>4. StepsTaken(r) \in Nat
  <2>1. r \in WorkflowRun
    BY <1>1 DEF DeliveryInv, StoredIsSound, Sound
  <2>2. \A x \in ActiveStages : r.steps[x] \in Nat
    BY <2>1 DEF WorkflowRun
  <2> QED BY <2>1, <2>2, StepsGrow
<1>5. StoredDelivery = [phase |-> "Blocked", used |-> StepsTaken(r)] /\ StoredDelivery' = None
  BY <1>1, OwnersView, OwnersNextView
<1> QED BY <1>2, <1>3, <1>4, <1>5, BlockedMoves

LEMMA OutsidersMove ==
    ASSUME DeliveryInv, ContractInv, Outsiders
    PROVE  ContractInv' /\ Moves
<1>1. CASE SendMessage
  <2>1. /\ driver' = driver /\ session'.status = session.status
        /\ session'.saved = session.saved /\ session'.archived = session.archived
    BY <1>1, Counters DEF SendMessage, SessionType
  <2> QED BY <2>1, SameStoreMoves
<1>2. CASE ResumeSession
  <2>1. /\ driver' = driver
        /\ session'.saved = session.saved /\ session'.archived = session.archived
    BY <1>2, Counters DEF ResumeSession, SessionType
  <2>2. session.status = "Paused" \/ session.saved # None
    BY <1>2 DEF ResumeSession, SavedIsBlocked
  <2> QED BY <2>1, <2>2, SameStoreMoves
<1>3. CASE OutsideEdit \/ OutsideCommit
  <2>1. session' = session /\ driver'.pc = driver.pc /\ driver'.run = driver.run
    BY <1>3, OutsideMoves, Counters DEF OutsideEdit, OutsideCommit
  <2> QED BY <2>1, SameStoreMoves
<1>4. CASE DaemonRestart
  <2>1. /\ driver'.pc = "off"
        /\ session'.saved = session.saved /\ session'.archived = session.archived
    BY <1>4, Counters DEF DaemonRestart, Reloaded, SessionType, Off
  <2>2. MaxCrashes > 0
    <3>1. env["crashes"] < MaxCrashes /\ env["crashes"] \in Nat /\ MaxCrashes \in Nat
      BY <1>4, Counters, DriverLimits DEF DaemonRestart, Counts, Events
    <3> QED BY <3>1
  <2>3. driver'.pc \notin HasRun
    BY <2>1 DEF HasRun, SinceLoop, InStage, Reporting
  <2> QED BY <2>1, <2>2, <2>3, SameStoreMoves
<1> QED
  BY <1>1, <1>2, <1>3, <1>4, CancelSessionMoves, RestartDeliveryMoves DEF Outsiders

LEMMA AtRun ==
    /\ \A pc \in {"loop", "model", "acted", "boundary", "submission", "checking", "checked",
                  "sealed", "add", "staged", "landed", "finish", "return"} : pc \in HasRun
BY DEF HasRun, SinceLoop, InStage, Reporting

\* Every step of the driver between the head of the loop and the end of the run is a
\* step of its run.
LEMMA RunsMove ==
    ASSUME DeliveryInv, DriverStep,
           ~(StartWorkflow \/ RefuseCheckpoint \/ ResumeWorkflow \/ RunFailed)
    PROVE  driver.pc \in HasRun /\ RunStep
<1>1. DeliveryInv
  OBVIOUS
<1>2. CASE \/ LoopCancelled \/ LoopTerminal \/ LoopRoutes \/ LoopOutOfSteps
           \/ LoopClosesNoChange \/ LoopEntersStage \/ LoopFindsDrift
  <2>1. driver.pc \in HasRun
    BY <1>2, AtRun
    DEF LoopCancelled, LoopTerminal, LoopRoutes, LoopOutOfSteps, LoopClosesNoChange,
        LoopEntersStage, LoopFindsDrift, LoopActive, At
  <2> QED
    BY ONLY <1>1, <1>2, <2>1, LoopCancelledKeeps, LoopTerminalKeeps, LoopRoutesKeeps,
       LoopOutOfStepsKeeps, LoopClosesNoChangeKeeps, LoopEntersStageKeeps, LoopFindsDriftKeeps
<1>3. CASE StageCancelled \/ StageStep \/ StageWorks \/ StageSubmits \/ StageGivesUp
  <2>1. driver.pc \in HasRun
    BY <1>3, AtRun DEF StageCancelled, StageStep, StageWorks, StageSubmits, StageGivesUp, At
  <2> QED
    BY ONLY <1>1, <1>3, <2>1, StageCancelledKeeps, StageStepKeeps, StageWorksKeeps,
       StageSubmitsKeeps, StageGivesUpKeeps
<1>4. CASE \/ BoundaryBlocks \/ BoundaryRoutes \/ BoundaryPasses
           \/ SubmissionMissing \/ SubmissionAccepted \/ SubmissionRejected
  <2>1. driver.pc \in HasRun
    BY <1>4, AtRun
    DEF BoundaryBlocks, BoundaryRoutes, BoundaryPasses, BoundaryIsSound, SubmissionMissing,
        SubmissionAccepted, SubmissionRejected, HasSubmission, At
  <2> QED
    BY ONLY <1>1, <1>4, <2>1, BoundaryBlocksKeeps, BoundaryRoutesKeeps, BoundaryPassesKeeps,
       SubmissionMissingKeeps, SubmissionAcceptedKeeps, SubmissionRejectedKeeps
<1>5. CASE \/ ChecksBegin \/ ExecutorBlocks \/ ChecksReturn \/ ContractRefuses
           \/ ChecksPassed \/ ChecksFailed
  <2>1. driver.pc \in HasRun
    BY <1>5, AtRun
    DEF ChecksBegin, ExecutorBlocks, ChecksReturn, ContractRefuses, ChecksPassed,
        ChecksFailed, LoopActive, At
  <2> QED
    BY ONLY <1>1, <1>5, <2>1, ChecksBeginKeeps, ExecutorBlocksKeeps, ChecksReturnKeeps,
       ContractRefusesKeeps, ChecksPassedKeeps, ChecksFailedKeeps
<1>6. CASE \/ SealForCommit \/ VerifyCommit \/ CommitRefused \/ CommitReused
           \/ StageTaskPaths \/ GitCommitSucceeds \/ GitCommitFails \/ CommitLanded
  <2>1. driver.pc \in HasRun
    BY <1>6, AtRun
    DEF SealForCommit, VerifyCommit, CommitRefused, CommitReused, StageTaskPaths,
        GitCommitSucceeds, GitCommitFails, CommitLanded, LoopActive, At
  <2> QED
    BY ONLY <1>1, <1>6, <2>1, SealForCommitKeeps, VerifyCommitKeeps, CommitRefusedKeeps,
       CommitReusedKeeps, StageTaskPathsKeeps, GitCommitSucceedsKeeps, GitCommitFailsKeeps,
       CommitLandedKeeps
<1>7. CASE ReportOutcome \/ RunFinished
  <2>1. driver.pc \in HasRun
    BY <1>7, AtRun DEF ReportOutcome, RunFinished, At
  <2> QED
    BY ONLY <1>1, <1>7, <2>1, ReportOutcomeKeeps, RunFinishedKeeps
<1>8. /\ DriverStep
      /\ ~(StartWorkflow \/ RefuseCheckpoint \/ ResumeWorkflow \/ RunFailed)
  OBVIOUS
<1> QED
  BY ONLY <1>2, <1>3, <1>4, <1>5, <1>6, <1>7, <1>8 DEF DriverStep

LEMMA ContractStep ==
    DeliveryInv /\ ContractInv /\ [Next]_vars => ContractInv' /\ Moves
<1> SUFFICES ASSUME DeliveryInv, ContractInv, [Next]_vars PROVE ContractInv' /\ Moves
  OBVIOUS
<1>1. CASE Dispatch \/ RunFailed
  BY <1>1, EndingMoves
<1>2. CASE StartWorkflow \/ RefuseCheckpoint \/ ResumeWorkflow
  BY <1>2, StartingMoves
<1>3. CASE /\ DriverStep
           /\ ~(StartWorkflow \/ RefuseCheckpoint \/ ResumeWorkflow \/ RunFailed)
  BY <1>3, RunsMove, RunStepMoves
<1>4. CASE Outsiders
  BY <1>4, OutsidersMove
<1>5. CASE UNCHANGED vars
  BY <1>5, SameStoreMoves DEF vars
<1>6. Dispatch \/ DriverStep \/ Outsiders \/ UNCHANGED vars
  BY DEF Next
<1> QED BY ONLY <1>1, <1>2, <1>3, <1>4, <1>5, <1>6

\* The detailed specification implements the abstract one: what is stored of a turn's
\* delivery is begun once, only grows, is blocked and resumed where it was, and ends
\* once, whatever the driver, the user, other programs and a stopping daemon do.
THEOREM TheTurnIsADelivery == Spec => KeepsItsContract
<1>1. Init => ContractInv /\ Contract!Init
  <2> SUFFICES ASSUME Init PROVE ContractInv /\ Contract!Init
    OBVIOUS
  <2>1. session.saved = None /\ session.archived = None /\ driver.pc = "off"
    BY DEF Init, Off
  <2>2. ContractInv
    BY <2>1 DEF ContractInv, RunIsStored, EndIsFinal, HasRun, SinceLoop, InStage, Reporting
  <2>3. Contract!Init
    BY <2>1, OwnersView DEF Contract!Init
  <2> QED BY <2>2, <2>3
<1>2. DeliveryInv /\ ContractInv /\ [Next]_vars => ContractInv' /\ [Contract!Next]_StoredDelivery
  BY ContractStep DEF Moves
<1> QED
  BY <1>1, <1>2, Reachable, PTL DEF Spec, KeepsItsContract, Contract!Spec
=============================================================================
