------------------------------ MODULE Delivery -------------------------------
(* One delivery turn of a session: the daemon's driver of the workflow        *)
(* (run_delivery_workflow in src/src/agent_core.rs), the session record it    *)
(* checkpoints to (src/src/web.rs), the git repository it works in            *)
(* (managed_commit in src/src/handoff.rs), and what may happen to them while  *)
(* it works: user messages, cancellation, outside edits and commits, and a    *)
(* daemon that stops between any two of the driver's steps.                   *)
(* The repository is one task path: its working content, its index entry and  *)
(* the history of commits.  Sessions under a Goal or a Task queue, the only   *)
(* ones that can be paused on request, are not part of this module.           *)
EXTENDS WorkflowReducer, Sequences

CONSTANTS
    BaseSteps,      \* request.max_steps clamped to 1 .. StageSteps
    MaxIdenticalFailures, \* MAX_IDENTICAL_WORKFLOW_VALIDATION_FAILURES (3)
    HasContract,    \* the request carries an acceptance contract
    MaxPending,     \* MAX_PENDING_USER_MESSAGES
    MaxMessages,    \* bound: messages a user sends
    MaxCancels,     \* bound: cancellations
    MaxEdits,       \* bound: outside edits of the working tree
    MaxUserCommits, \* bound: outside commits
    MaxCrashes,     \* bound: daemon restarts
    MaxRestarts     \* bound: deliveries restarted with current files

ASSUME DriverLimits ==
    /\ StageSteps >= 1 /\ BaseSteps \in 1 .. StageSteps
    /\ MaxIdenticalFailures \in Nat \ {0}
    /\ HasContract \in BOOLEAN
    /\ {MaxPending, MaxMessages, MaxCancels, MaxEdits, MaxUserCommits, MaxCrashes,
        MaxRestarts} \subseteq Nat

\* A commit goes by its place in the history.
ASSUME CommitsArePlaces == Commits = Nat

VARIABLES
    session,        \* the SessionRecord and the runtime part that belongs to it;
                    \* archived is how the current turn's last ended workflow ended
    driver,         \* the agent run: its position and its local state
    repo,           \* the working tree, the index and the commits
    env             \* how often each outside event has happened

vars == <<session, driver, repo, env>>

-----------------------------------------------------------------------------
(* The repository *)

HeadContent == repo.log[Len(repo.log)].content

IsClean == repo.content = repo.index /\ repo.index = HeadContent

\* git_control_state: HEAD and the index.
Control == [head |-> Len(repo.log), index |-> repo.index]

\* WorkspaceBaseline::capture: its id digests HEAD, the status and the content.
CaptureBaseline ==
    [head |-> Len(repo.log), index |-> repo.index, content |-> repo.content]

BaselineDirty(base) ==
    base.content # base.index \/ base.index # repo.log[base.head].content

\* A commit is its content and its author.  The rest is history: what the review
\* of a managed commit passed, and whether another program moved the tree or HEAD
\* inside the commit step.
ManagedCommit(run, raced) ==
    [content |-> repo.index, by |-> "pb", reviewed |-> run.delivery.code_review.content,
     raced |-> raced]

-----------------------------------------------------------------------------
(* The session record and the driver's state *)

Statuses == {"Queued", "Running", "Paused", "Failed", "Completed"}

Events == {"messages", "cancels", "edits", "commits", "crashes", "restarts"}

Positions ==
    {"off", "start", "loop", "model", "acted", "boundary", "submission", "checking",
     "checked", "sealed", "add", "staged", "landed", "finish", "return", "error"}

Places == Nat \ {0}

LogEntry ==
    [content : Contents, by : {"pb", "user"}, reviewed : Contents \cup {None},
     raced : BOOLEAN]

GitControl == [head : Places, index : Contents]

Baseline == [head : Places, index : Contents, content : Contents]

\* WorkflowCheckpoint, with the baseline and control of its session.
Checkpoint == [run : WorkflowRun, base : Baseline, control : GitControl, from : Nat]

\* What a stage hands over: an artifact or a request, or why there is none.
Submission ==
    [kind : {"cancelled", "replan"}]
    \cup [kind : {"stopped"}, cause : {"Other", "DeterministicRepeatLimit"}]
    \cup [kind : {"plan"}, body : Plans, valid : BOOLEAN]
    \cup [kind : {"plan_review"}, body : PlanReviewArtifact, valid : BOOLEAN]
    \cup [kind : {"implementation"}, body : Implementation, valid : BOOLEAN]
    \cup [kind : {"code_review"}, body : CodeReviewArtifact, valid : BOOLEAN]

ASSUME NoneIsNoRecord ==
    /\ None \notin WorkflowRun /\ None \notin Baseline /\ None \notin GitControl
    /\ None \notin Checkpoint

\* raced and from (the HEAD at which the workflow started) are history.
Off ==
    [pc |-> "off", run |-> None, base |-> None, control |-> None, left |-> 0,
     sub |-> None, rejects |-> 0, raced |-> FALSE, from |-> 0]

Authoring == {"Planning", "PlanRevision", "Implementing", "Repairing"}
PlanningStages == {"Planning", "PlanRevision", "PlanReview"}
ModelStages == Authoring \cup {"PlanReview", "CodeReview"}
InterventionStages == {"PlanReview", "Checking", "CodeReview", "Committing"}

At(pc) == driver.pc = pc

Stage == driver.run.stage

HasMessages == session.pending > 0

\* checkpoint_workflow: an active or blocked run is stored with the session, any
\* other terminal run is archived and forgotten.
Checkpointed(s, d) ==
    IF IsTerminal(d.run) /\ d.run.stage # "Blocked"
    THEN [s EXCEPT !.saved = None, !.archived = d.run.outcome]
    ELSE [s EXCEPT !.saved = [run |-> d.run, base |-> d.base, control |-> d.control,
                               from |-> d.from]]

\* The driver goes on at pc with this run, which it checkpoints.
Saves(pc, run) ==
    /\ driver' = [driver EXCEPT !.pc = pc, !.run = run, !.sub = None]
    /\ session' = Checkpointed(session, driver')

\* A stop that delivery_terminal_outcome checkpoints when it reports it.
Stops(run) ==
    /\ driver' = [driver EXCEPT !.pc = "finish", !.run = run, !.sub = None]
    /\ UNCHANGED session

\* An error the driver returns: the session fails with its last checkpoint.
RunnerFails ==
    /\ driver' = [driver EXCEPT !.pc = "error"]
    /\ UNCHANGED session

ContentBlock(run) == Block(run, "CommitBlocked", "RepositoryContentChanged")
ControlBlock(run) == Block(run, "CommitBlocked", "GitControlChanged")

\* route_pending_workflow_intervention: queued feedback goes back to an author.
\* The loop also forgets rejections and repair context it was collecting.
RoutesIntervention ==
    /\ driver' = [driver EXCEPT !.pc = "loop", !.sub = None, !.rejects = 0,
                                !.run = RouteIntervention(driver.run, repo.content)]
    /\ session' = Checkpointed(session, driver')

-----------------------------------------------------------------------------
(* Starting and resuming *)

\* claim_next_session: the oldest queued session gets a driver.
Dispatch ==
    /\ session.status = "Queued" /\ At("off")
    /\ session' = [session EXCEPT !.status = "Running", !.window = TRUE]
    /\ driver' = [driver EXCEPT !.pc = "start"]
    /\ UNCHANGED <<repo, env>>

\* The request's repository context is the one an earlier finished run of the
\* session left in its template; without one the tree is captured afresh.
TaskBaseline == IF session.baseline = None THEN CaptureBaseline ELSE session.baseline

StartWorkflow ==
    /\ At("start") /\ session.saved = None
    /\ driver' = [driver EXCEPT !.pc = "loop", !.run = Start(repo.content),
                                !.base = TaskBaseline, !.control = Control,
                                !.from = Len(repo.log)]
    /\ session' = Checkpointed(session, driver')
    /\ UNCHANGED <<repo, env>>

\* "workflow checkpoint repository baseline differs from the resumed workspace"
RefuseCheckpoint ==
    /\ At("start") /\ session.saved # None
    /\ session.saved.base # TaskBaseline
    /\ RunnerFails
    /\ UNCHANGED <<repo, env>>

\* Mutant: any commit over the checkpoint's HEAD is taken for the managed one.
AdoptsAnyCommit(run, control) ==
    /\ run.stage = "Committing"
    /\ IsCurrent(run, repo.content)
    /\ Len(repo.log) = control.head + 1
    /\ IsClean

\* resumed_commit_matches_reviewed_delta: the commit was made, not recorded.
\* The task's subject and paths single out the commit this workflow made.
AdoptsCommit(run, control) ==
    /\ run.stage = "Committing"
    /\ IsCurrent(run, repo.content)
    /\ Len(repo.log) = control.head + 1
    /\ repo.log[Len(repo.log)].by = "pb"
    /\ IsClean

\* validate_resumed_delivery_content
ContentAllowsResume(run) ==
    /\ run.stage \in PlanningStages => repo.content = run.planning
    /\ run.stage \in {"Checking", "CodeReview", "Committing"} =>
          IsCurrent(run, repo.content)

\* Mutant: a blocked run is started from the beginning.
UnblockedAfresh(run) == IF run.stage = "Blocked" THEN Start(repo.content) ELSE run

Unblocked(run) == IF run.stage = "Blocked" THEN Resume(run) ELSE run

ResumeWorkflow ==
    /\ At("start") /\ session.saved # None
    /\ session.saved.base = TaskBaseline
    /\ LET run     == Unblocked(session.saved.run)
           control == session.saved.control
           adopts  == control # Control /\ AdoptsCommit(run, control)
       IN  driver' = [driver EXCEPT
              !.pc = "loop",
              !.base = session.saved.base, !.from = session.saved.from,
              !.control = IF adopts THEN Control ELSE control,
              !.run = IF control # Control /\ ~adopts THEN ControlBlock(run)
                      ELSE IF control = Control /\ ~ContentAllowsResume(run)
                      THEN ContentBlock(run)
                      ELSE run]
    /\ session' = Checkpointed(session, driver')
    /\ UNCHANGED <<repo, env>>

-----------------------------------------------------------------------------
(* The head of the loop *)

LoopCancelled ==
    /\ At("loop") /\ session.cancel /\ ~IsTerminal(driver.run)
    /\ Saves("finish", Cancel(driver.run))
    /\ UNCHANGED <<repo, env>>

LoopTerminal ==
    /\ At("loop") /\ IsTerminal(driver.run)
    /\ Stops(driver.run)
    /\ UNCHANGED <<repo, env>>

LoopActive == At("loop") /\ ~session.cancel /\ ~IsTerminal(driver.run)

LoopRoutes ==
    /\ LoopActive /\ HasMessages /\ Stage \in InterventionStages
    /\ RoutesIntervention
    /\ UNCHANGED <<repo, env>>

\* What is left of the stage's cumulative budget, in this cycle's slice.
StepsLeft(run) ==
    LET limit  == StageStepLimit(run, run.stage, BaseSteps)
        earned == IF run.stage \in {"Implementing", "Repairing"}
                  THEN run.units.credits ELSE 0
        left   == IF limit > run.steps[run.stage] THEN limit - run.steps[run.stage] ELSE 0
    IN  IF left < BaseSteps + earned THEN left ELSE BaseSteps + earned

\* reconcile_work_unit_ledger, run before and after every building stage.
Reconciled(run) == IF CanInitializeUnits(run) THEN InitializeUnits(run) ELSE run

LoopOutOfSteps ==
    /\ LoopActive /\ Stage \in ModelStages
    /\ ~(HasMessages /\ Stage \in InterventionStages)
    /\ StepsLeft(driver.run) = 0
    /\ Stops(Fail(Reconciled(driver.run), "StepLimit", "Other"))
    /\ UNCHANGED <<repo, env>>

\* controller_no_change_implementation: the harness itself accounts for a task
\* whose contract forbids mutation, when nothing was mutated.  Not every contract
\* forbids it, so the stage may be entered instead.
LoopClosesNoChange ==
    /\ LoopActive /\ Stage = "Implementing" /\ HasContract
    /\ StepsLeft(driver.run) > 0
    /\ ~HasMessages
    /\ repo.content = driver.base.content
    /\ Saves("loop",
             SubmitImplementation(Reconciled(driver.run),
                 [plan |-> driver.run.plan, content |-> repo.content, no_change |-> TRUE]))
    /\ UNCHANGED <<repo, env>>

\* The content a critic must find: a plan critic the planning content, a code
\* critic the checked content.
ExpectedContent(run) ==
    CASE run.stage = "PlanReview" -> run.planning
      [] run.stage = "CodeReview" -> run.delivery.fingerprint
      [] OTHER -> repo.content

\* run_stage opens the message window again before its first step.
LoopEntersStage ==
    /\ LoopActive /\ Stage \in ModelStages
    /\ ~(HasMessages /\ Stage \in InterventionStages)
    /\ StepsLeft(driver.run) > 0
    /\ repo.content = ExpectedContent(driver.run)
    /\ LET run == Reconciled(driver.run)
       IN  /\ driver' = [driver EXCEPT !.pc = "model", !.run = run,
                                       !.left = StepsLeft(run)]
           /\ session' = [Checkpointed(session, driver') EXCEPT !.window = TRUE]
    /\ UNCHANGED <<repo, env>>

\* The code critic's drift is a block; a critic whose isolated snapshot differs
\* from what it should be is an error.
LoopFindsDrift ==
    /\ LoopActive /\ Stage \in {"PlanReview", "CodeReview"} /\ ~HasMessages
    /\ StepsLeft(driver.run) > 0
    /\ repo.content # ExpectedContent(driver.run)
    /\ IF Stage = "CodeReview" THEN Stops(ContentBlock(driver.run)) ELSE RunnerFails
    /\ UNCHANGED <<repo, env>>

-----------------------------------------------------------------------------
(* A model stage: run_stage and run_agent_steps *)

\* Mutant: a step of the root agent is taken for a nested one and not charged.
UnchargedStep == [steps |-> 0, totals |-> [t \in Totals |-> 0]]

\* workflow_stage_step_started.  Invocations, tokens and advisory calls are
\* charged the same way; Workflow treats their limits.
StepUsage == [steps |-> 1, totals |-> [t \in Totals |-> 0]]

\* take_user_messages: only an author's stage drains the queue, durably.
Heard(s) == IF Stage \in Authoring THEN [s EXCEPT !.pending = 0] ELSE s

StageCancelled ==
    /\ At("model") /\ driver.left > 0 /\ session.cancel
    /\ session' = Heard(session)
    /\ driver' = [driver EXCEPT !.pc = "boundary", !.sub = [kind |-> "cancelled"]]
    /\ UNCHANGED <<repo, env>>

\* Mutant: the charge of a step stays in memory until the stage ends.
ChargeSaved(s, d) == s

\* record_usage checkpoints what it has charged before the model is called.
ChargeCheckpointed(s, d) == Checkpointed(s, d)

\* One bounded step.  When the charge itself exceeds the reducer's limit the run
\* has failed, and the next usage event (the model call) is refused.
StageStep ==
    /\ At("model") /\ driver.left > 0 /\ ~session.cancel
    /\ LET run == RecordUsage(driver.run, StepUsage)
       IN  driver' = [driver EXCEPT !.run = run, !.left = @ - 1,
                                    !.pc = IF IsTerminal(run) THEN "error" ELSE "acted"]
    /\ session' = ChargeCheckpointed(Heard(session), driver')
    /\ UNCHANGED <<repo, env>>

\* The model used a tool and goes on; a building stage may have edited the task.
StageWorks ==
    /\ At("acted")
    /\ \/ UNCHANGED repo
       \/ /\ Stage \in {"Implementing", "Repairing"}
          /\ \E content \in Contents : repo' = [repo EXCEPT !.content = content]
    /\ driver' = [driver EXCEPT !.pc = "model"]
    /\ UNCHANGED <<session, env>>

\* What the terminal tool of a stage can hand over; valid is FALSE for an
\* artifact that its own validation refuses.
Submissions ==
    CASE Stage \in {"Planning", "PlanRevision"} ->
            [kind : {"plan"}, body : Plans, valid : BOOLEAN]
      [] Stage = "PlanReview" ->
            [kind : {"plan_review"}, valid : BOOLEAN,
             body : [plan : {driver.run.plan}, blocking : SUBSET Challenges]]
      [] Stage \in {"Implementing", "Repairing"} ->
            [kind : {"implementation"}, valid : BOOLEAN,
             body : [plan : {driver.run.plan}, content : {repo.content},
                     no_change : BOOLEAN]]
            \cup [kind : {"replan"}]
      [] OTHER ->
            [kind : {"code_review"}, valid : BOOLEAN,
             body : [content : {driver.run.delivery.fingerprint}, verdict : Verdicts]]

\* apply_user_messages_before_terminal_action: a message that arrived during the
\* step that submits is answered first, in one extra step.
StageSubmits ==
    /\ At("acted")
    /\ IF HasMessages /\ Stage \in Authoring
       THEN /\ session' = Heard(session)
            /\ driver' = [driver EXCEPT !.pc = "model", !.left = @ + 1]
       ELSE /\ \E sub \in Submissions :
                  driver' = [driver EXCEPT !.pc = "boundary", !.sub = sub]
            /\ UNCHANGED session
    /\ UNCHANGED <<repo, env>>

\* The stage ends without a submission: out of steps, or a deterministic repeat.
\* The other reasons (context, tokens, an engine error) differ in the name of the
\* outcome only.
StageGivesUp ==
    /\ \/ At("model") /\ driver.left = 0
       \/ At("acted")
    /\ driver' = [driver EXCEPT
          !.pc = "boundary",
          !.sub = [kind |-> "stopped",
                   cause |-> IF At("model") THEN "Other" ELSE "DeterministicRepeatLimit"]]
    /\ UNCHANGED <<session, repo, env>>

-----------------------------------------------------------------------------
(* The boundary after a stage *)

\* A read-only stage must not have moved the tree under the plan or the review.
StageDrifted ==
    \/ Stage \in PlanningStages /\ repo.content # driver.run.planning
    \/ Stage = "CodeReview" /\ repo.content # driver.run.delivery.fingerprint

BoundaryBlocks ==
    /\ At("boundary")
    /\ \/ StageDrifted /\ Stops(ContentBlock(driver.run))
       \/ Control # driver.control /\ Stops(ControlBlock(driver.run))
    /\ UNCHANGED <<repo, env>>

BoundaryIsSound == At("boundary") /\ ~StageDrifted /\ Control = driver.control

\* A message discards the submission: an author hears it in a new stage, a
\* critic's verdict gives way to the intervention.
BoundaryRoutes ==
    /\ BoundaryIsSound /\ HasMessages
    /\ IF Stage \in Authoring THEN Saves("loop", driver.run) ELSE RoutesIntervention
    /\ UNCHANGED <<repo, env>>

BoundaryPasses ==
    /\ BoundaryIsSound /\ ~HasMessages
    /\ driver' = [driver EXCEPT !.pc = "submission"]
    /\ session' = Checkpointed(session, driver')
    /\ UNCHANGED <<repo, env>>

\* validate_implementation_submission: the accounting is of the tree as it is.
AccountsForTree(impl) ==
    /\ impl.content = repo.content
    /\ impl.no_change = (repo.content = driver.base.content)

Accepts(sub) ==
    CASE sub.kind = "plan" -> sub.valid /\ CanSubmitPlan(driver.run, sub.body)
      [] sub.kind = "plan_review" -> sub.valid /\ CanReviewPlan(driver.run, sub.body)
      [] sub.kind = "implementation" ->
            sub.valid /\ AccountsForTree(sub.body)
                      /\ CanSubmitImplementation(driver.run, sub.body)
      [] sub.kind = "replan" -> CanRequestReplan(driver.run)
      [] sub.kind = "code_review" ->
            sub.valid /\ repo.content = sub.body.content
                      /\ CanReviewCode(driver.run, sub.body)

Applied(sub) ==
    CASE sub.kind = "plan" -> SubmitPlan(driver.run, sub.body)
      [] sub.kind = "plan_review" -> ReviewPlan(driver.run, sub.body)
      [] sub.kind = "implementation" -> SubmitImplementation(driver.run, sub.body)
      [] sub.kind = "replan" -> RequestReplan(driver.run, repo.content)
      [] sub.kind = "code_review" -> ReviewCode(driver.run, sub.body)

HasSubmission == At("submission") /\ driver.sub.kind \notin {"cancelled", "stopped"}

SubmissionMissing ==
    /\ At("submission") /\ ~HasSubmission
    /\ IF driver.sub.kind = "cancelled"
       THEN Stops(Cancel(driver.run))
       ELSE Stops(Fail(driver.run, "StepLimit", driver.sub.cause))
    /\ UNCHANGED <<repo, env>>

\* Mutant: an accepted artifact is not checkpointed until the next stage's usage.
KeepsAccepted(run) ==
    /\ driver' = [driver EXCEPT !.pc = "loop", !.run = run, !.sub = None, !.rejects = 0]
    /\ UNCHANGED session

SavesAccepted(run) ==
    /\ driver' = [driver EXCEPT !.pc = "loop", !.run = run, !.sub = None, !.rejects = 0]
    /\ session' = Checkpointed(session, driver')

SubmissionAccepted ==
    /\ HasSubmission /\ Accepts(driver.sub)
    /\ SavesAccepted(Applied(driver.sub))
    /\ UNCHANGED <<repo, env>>

RejectionOutcome ==
    CASE Stage \in PlanningStages -> "PlanRejected"
      [] Stage = "CodeReview" -> "ReviewFailed"
      [] OTHER -> "EngineError"

\* The limit counts the rejection at hand.
GivesUp(repeats) == repeats >= MaxIdenticalFailures

\* A rejection may repeat the previous one or differ from it.
SubmissionRejected ==
    /\ HasSubmission /\ ~Accepts(driver.sub)
    /\ \E repeats \in {1, driver.rejects + 1} :
          IF GivesUp(repeats)
          THEN Stops(Fail(driver.run, RejectionOutcome,
                          IF Stage \in PlanningStages THEN "PlanningRejected" ELSE "Other"))
          ELSE /\ driver' = [driver EXCEPT !.pc = "loop", !.sub = None, !.rejects = repeats]
               /\ session' = Checkpointed(session, driver')
    /\ UNCHANGED <<repo, env>>

-----------------------------------------------------------------------------
(* Checking: run_delivery_checks *)

ChecksBegin ==
    /\ LoopActive /\ Stage = "Checking" /\ ~HasMessages
    /\ IF repo.content = driver.run.delivery.fingerprint
       THEN driver' = [driver EXCEPT !.pc = "checking"] /\ UNCHANGED session
       ELSE RunnerFails
    /\ UNCHANGED <<repo, env>>

ExecutorBlocks ==
    /\ At("checking")
    /\ Saves("loop", Block(driver.run, "ExecutorUnavailable", "ExecutorUnavailable"))
    /\ UNCHANGED <<repo, env>>

\* After the batch: control, then content, then the queue.
ChecksReturn ==
    /\ At("checking")
    /\ IF Control # driver.control
       THEN Saves("loop", ControlBlock(driver.run))
       ELSE IF repo.content # driver.run.delivery.fingerprint
       THEN Saves("loop", Fail(driver.run, "ChecksFailed", "RepositoryContentChanged"))
       ELSE IF HasMessages
       THEN RoutesIntervention
       ELSE driver' = [driver EXCEPT !.pc = "checked"] /\ UNCHANGED session
    /\ UNCHANGED <<repo, env>>

\* Ends the run inside the checks: only with the message window sealed, which an
\* already queued message prevents.
Seals(run) ==
    IF HasMessages
    THEN RoutesIntervention
    ELSE /\ driver' = [driver EXCEPT !.pc = "loop", !.run = run]
         /\ session' = [Checkpointed(session, driver') EXCEPT !.window = FALSE]

\* Mutant: the run is ended with the window open.
EndsUnsealed(run) ==
    /\ driver' = [driver EXCEPT !.pc = "loop", !.run = run]
    /\ session' = Checkpointed(session, driver')

EndsInsideChecks(run) == Seals(run)

Passing == [c \in Checks |-> "passed"]
Failing == [c \in Checks |-> "unsuccessful"]

ContractRefuses ==
    /\ At("checked") /\ HasContract /\ ClaimsNoChange(driver.run)
    /\ EndsInsideChecks(Fail(driver.run, "ContractUnsatisfied", "Other"))
    /\ UNCHANGED <<repo, env>>

ChecksPassed ==
    /\ At("checked")
    /\ LET run == PassChecks(driver.run, Checks, Passing)
       IN  IF ClaimsNoChange(driver.run) THEN EndsInsideChecks(run) ELSE Saves("loop", run)
    /\ UNCHANGED <<repo, env>>

ChecksFailed ==
    /\ At("checked") /\ Checks # {}
    /\ LET run == FailChecks(driver.run, Checks, Failing)
       IN  IF IsTerminal(run) THEN EndsInsideChecks(run) ELSE Saves("loop", run)
    /\ UNCHANGED <<repo, env>>

-----------------------------------------------------------------------------
(* Committing: run_delivery_commit and managed_commit *)

SealForCommit ==
    /\ LoopActive /\ Stage = "Committing" /\ ~HasMessages
    /\ driver' = [driver EXCEPT !.pc = "sealed"]
    /\ session' = [session EXCEPT !.window = FALSE]
    /\ UNCHANGED <<repo, env>>

\* Mutant: the tree is not compared with the reviewed fingerprint again.
VerifiedControlOnly == Control = driver.control

\* HEAD, the index and the content (and with it the check evidence) are those
\* that were reviewed.
VerifiedForCommit ==
    /\ Control = driver.control
    /\ repo.content = driver.run.delivery.fingerprint

VerifyCommit ==
    /\ At("sealed")
    /\ IF VerifiedForCommit
       THEN /\ driver' = [driver EXCEPT !.pc = "add", !.raced = FALSE]
            /\ UNCHANGED session
       ELSE Saves("loop", IF Control # driver.control
                          THEN ControlBlock(driver.run)
                          ELSE ContentBlock(driver.run))
    /\ UNCHANGED <<repo, env>>

CommitBlock == Block(driver.run, "CommitBlocked", "CommitBlocked")

\* The commit is recorded unless the acceptance contract refuses it.
RecordsCommit(oid) ==
    \/ Saves("loop", CompleteCommit(driver.run, oid))
    \/ HasContract /\ Saves("loop", Fail(driver.run, "ContractUnsatisfied", "Other"))

\* No task change, or a path that was dirty before the task.
CommitRefused ==
    /\ At("add")
    /\ \/ repo.content = driver.base.content
       \/ BaselineDirty(driver.base)
       \/ IsClean /\ driver.base.head = Len(repo.log)
    /\ Saves("loop", CommitBlock)
    /\ UNCHANGED <<repo, env>>

CommitReused ==
    /\ At("add") /\ IsClean
    /\ repo.content # driver.base.content /\ ~BaselineDirty(driver.base)
    /\ driver.base.head # Len(repo.log)
    /\ RecordsCommit(Len(repo.log))
    /\ UNCHANGED <<repo, env>>

StageTaskPaths ==
    /\ At("add") /\ ~IsClean
    /\ repo.content # driver.base.content /\ ~BaselineDirty(driver.base)
    /\ repo' = [repo EXCEPT !.index = repo.content]
    /\ driver' = [driver EXCEPT !.pc = "staged"]
    /\ UNCHANGED <<session, env>>

GitCommitSucceeds ==
    /\ At("staged") /\ repo.index # HeadContent
    /\ repo' = [repo EXCEPT
          !.log = Append(@, ManagedCommit(driver.run, driver.raced))]
    /\ driver' = [driver EXCEPT !.pc = "landed"]
    /\ UNCHANGED <<session, env>>

\* A hook refuses, or there is nothing to commit: the paths are unstaged.
GitCommitFails ==
    /\ At("staged")
    /\ repo' = [repo EXCEPT !.index = HeadContent]
    /\ Saves("loop", CommitBlock)
    /\ UNCHANGED env

\* The commit is read back and must have left no task path dirty.
CommitLanded ==
    /\ At("landed")
    /\ IF IsClean
       THEN RecordsCommit(Len(repo.log))
       ELSE Saves("loop", CommitBlock)
    /\ UNCHANGED <<repo, env>>

-----------------------------------------------------------------------------
(* The end of the driver and of the session's run *)

\* delivery_terminal_outcome: a stop without a cause is an error of its own.
ReportOutcome ==
    /\ At("finish")
    /\ IF driver.run.outcome \notin SuccessOutcomes /\ driver.run.cause = None
       THEN RunnerFails
       ELSE /\ driver' = [driver EXCEPT !.pc = "return"]
            /\ session' = Checkpointed(session, driver')
    /\ UNCHANGED <<repo, env>>

StatusAfter(run) ==
    CASE run.stage = "Blocked" -> "Failed"
      [] run.outcome \in SuccessOutcomes \cup {"Cancelled"} -> "Completed"
      [] OTHER -> "Failed"

\* AgentRunCompletion::Finished: the run's repository context joins the template.
RunFinished ==
    /\ At("return")
    /\ session' = [Checkpointed(session, driver) EXCEPT
                      !.status = StatusAfter(driver.run), !.baseline = driver.base,
                      !.cancel = FALSE]
    /\ driver' = Off
    /\ UNCHANGED <<repo, env>>

\* AgentRunCompletion::RunnerFailed
RunFailed ==
    /\ At("error")
    /\ session' = [session EXCEPT !.status = "Failed", !.cancel = FALSE]
    /\ driver' = Off
    /\ UNCHANGED <<repo, env>>

-----------------------------------------------------------------------------
(* The user, other programs, and the daemon's life *)

Counts(event, bound) == env[event] < bound /\ env' = [env EXCEPT ![event] = @ + 1]

\* send_session_message: acknowledged only by a running session whose window is
\* open and whose queue has room.
SendMessage ==
    /\ session.status = "Running" /\ session.window /\ session.pending < MaxPending
    /\ Counts("messages", MaxMessages)
    /\ session' = [session EXCEPT !.pending = @ + 1]
    /\ UNCHANGED <<driver, repo>>

SavedIsBlocked == session.saved # None /\ session.saved.run.stage = "Blocked"

\* cancel_session: a running driver is asked to stop, anything else ends here.
CancelSession ==
    /\ session.status # "Completed"
    /\ Counts("cancels", MaxCancels)
    /\ session.status = "Failed" => SavedIsBlocked
    /\ session' =
          IF session.status = "Running"
          THEN [session EXCEPT !.cancel = TRUE]
          ELSE [session EXCEPT !.cancel = TRUE, !.status = "Completed", !.saved = None,
                               !.archived = IF session.saved = None THEN @ ELSE "Cancelled"]
    /\ UNCHANGED <<driver, repo>>

\* resume_session: a paused session, or a failed one whose block may be resumed.
ResumeSession ==
    /\ \/ session.status = "Paused"
       \/ session.status = "Failed" /\ SavedIsBlocked
    /\ ~(SavedIsBlocked /\ session.saved.run.outcome = "CommitBlocked")
    /\ session' = [session EXCEPT !.status = "Queued", !.cancel = FALSE]
    /\ UNCHANGED <<driver, repo, env>>

\* restart_delivery: a content-sensitive block is archived and a new turn starts
\* from the files as they are.
RestartDelivery ==
    /\ session.status = "Failed" /\ SavedIsBlocked
    /\ session.saved.run.outcome = "CommitBlocked"
    /\ Counts("restarts", MaxRestarts)
    /\ session' = [session EXCEPT !.status = "Queued", !.cancel = FALSE, !.saved = None,
                                  !.archived = None, !.baseline = None]
    /\ UNCHANGED <<driver, repo>>

Outside == driver' = IF driver.pc \in {"add", "staged", "landed"}
                     THEN [driver EXCEPT !.raced = TRUE] ELSE driver

OutsideEdit ==
    /\ Counts("edits", MaxEdits)
    /\ \E content \in Contents \ {repo.content} :
          repo' = [repo EXCEPT !.content = content]
    /\ Outside
    /\ UNCHANGED session

OutsideCommit ==
    /\ repo.content # HeadContent
    /\ Counts("commits", MaxUserCommits)
    /\ repo' = [repo EXCEPT
          !.index = repo.content,
          !.log = Append(@, [content |-> repo.content, by |-> "user", reviewed |-> None,
                             raced |-> FALSE])]
    /\ Outside
    /\ UNCHANGED session

\* Mutant: the queue lives in memory only.
ReloadedWithoutQueue(s) ==
    [s EXCEPT !.window = FALSE, !.cancel = FALSE, !.pending = 0,
              !.status = IF @ = "Running" THEN "Paused" ELSE @]

\* session_from_persisted
Reloaded(s) ==
    [s EXCEPT !.window = FALSE, !.cancel = FALSE,
              !.status = IF @ = "Running" THEN "Paused" ELSE @]

\* The daemon stops between two steps of the driver and is started again.
DaemonRestart ==
    /\ session.status = "Running"
    /\ Counts("crashes", MaxCrashes)
    /\ session' = Reloaded(session)
    /\ driver' = Off
    /\ UNCHANGED repo

-----------------------------------------------------------------------------
\* A new session has no repository context; one that has already finished a turn
\* in this workspace has the context of that turn.
Init ==
    /\ \E content \in Contents :
          repo = [content |-> content, index |-> content,
                  log |-> << [content |-> content, by |-> "user", reviewed |-> None,
                              raced |-> FALSE] >>]
    /\ \E baseline \in {None, CaptureBaseline} :
          session = [status |-> "Queued", window |-> FALSE, pending |-> 0,
                     cancel |-> FALSE, saved |-> None, archived |-> None,
                     baseline |-> baseline]
    /\ driver = Off
    /\ env = [e \in Events |-> 0]

DriverStep ==
    \/ StartWorkflow \/ RefuseCheckpoint \/ ResumeWorkflow
    \/ LoopCancelled \/ LoopTerminal \/ LoopRoutes \/ LoopOutOfSteps
    \/ LoopClosesNoChange \/ LoopEntersStage \/ LoopFindsDrift
    \/ StageCancelled \/ StageStep \/ StageWorks \/ StageSubmits \/ StageGivesUp
    \/ BoundaryBlocks \/ BoundaryRoutes \/ BoundaryPasses
    \/ SubmissionMissing \/ SubmissionAccepted \/ SubmissionRejected
    \/ ChecksBegin \/ ExecutorBlocks \/ ChecksReturn \/ ContractRefuses
    \/ ChecksPassed \/ ChecksFailed
    \/ SealForCommit \/ VerifyCommit \/ CommitRefused \/ CommitReused
    \/ StageTaskPaths \/ GitCommitSucceeds \/ GitCommitFails \/ CommitLanded
    \/ ReportOutcome \/ RunFinished \/ RunFailed

Outsiders ==
    \/ SendMessage \/ CancelSession \/ ResumeSession \/ RestartDelivery
    \/ OutsideEdit \/ OutsideCommit \/ DaemonRestart

Next == Dispatch \/ DriverStep \/ Outsiders

Spec == Init /\ [][Next]_vars

\* The daemon runs its queue and its driver; nobody else has to do anything.
FairSpec == Spec /\ WF_vars(Dispatch) /\ WF_vars(DriverStep)
-----------------------------------------------------------------------------
(* Properties *)

SessionType ==
    [status : Statuses, window : BOOLEAN, pending : 0 .. MaxPending, cancel : BOOLEAN,
     saved : Checkpoint \cup {None}, archived : Outcomes \cup {None},
     baseline : Baseline \cup {None}]

DriverType ==
    [pc : Positions, run : WorkflowRun \cup {None}, base : Baseline \cup {None},
     control : GitControl \cup {None}, left : 0 .. StageSteps + MaxMessages,
     sub : Submission \cup {None}, rejects : 0 .. MaxIdenticalFailures - 1,
     raced : BOOLEAN, from : Nat]

RepoType == [content : Contents, index : Contents, log : Seq(LogEntry)]

TypeOK ==
    /\ session \in SessionType /\ driver \in DriverType /\ env \in [Events -> Nat]
    /\ repo \in RepoType /\ repo.log # <<>>

\* Every commit pb makes holds the content its code review passed, whatever was
\* edited, committed, resumed or repaired before, unless another program moved the
\* tree inside the commit step itself.
CommitsHoldReviewedContent ==
    \A i \in DOMAIN repo.log :
        LET commit == repo.log[i]
        IN  commit.by = "pb" => commit.content = commit.reviewed \/ commit.raced

\* A run that ends Ready names a commit of the reviewed content, also when it found
\* the commit instead of making it; and never one that somebody else made while the
\* workflow was under way.
ReadyNamesItsCommit ==
    driver.run # None /\ driver.run.outcome = "Ready" /\ ~driver.raced =>
        LET commit == repo.log[driver.run.delivery.commit]
        IN  /\ commit.content = driver.run.delivery.fingerprint
            /\ commit.by = "user" => driver.run.delivery.commit <= driver.from

\* No commit is forgotten: while the turn that made the commit at HEAD is neither
\* over nor blocked, what is stored says that a commit of this content is due, or
\* has taken that HEAD for its own.
CommitIsRemembered ==
    repo.log[Len(repo.log)].by = "pb" /\ session.archived = None /\ session.saved # None =>
        \/ session.saved.run.stage = "Blocked"
        \/ /\ session.saved.run.stage = "Committing"
           /\ session.saved.run.delivery.code_review.content =
                 repo.log[Len(repo.log)].reviewed
        \/ session.saved.control.head = Len(repo.log)

\* A step is durably charged before the model acts on it: a daemon that stops
\* afterwards cannot give the step back.
StepsAreChargedFirst ==
    At("acted") => session.saved # None /\ session.saved.run.steps = driver.run.steps

\* A user message the session acknowledged is never left behind by a successful
\* end: the run that ends Ready or NoChange has no queue and accepts no more.
SuccessHasHeardEveryMessage ==
    driver.run # None /\ driver.run.outcome \in SuccessOutcomes =>
        session.pending = 0 /\ ~session.window

\* Queued messages leave the queue in one way only, to an authoring stage.
MessagesLeaveOnlyToAnAuthor ==
    [][ session'.pending < session.pending =>
            driver.pc \in {"model", "acted"} /\ Stage \in Authoring ]_vars

\* Whatever the model submits and the user sends, a dispatched run ends: its steps
\* are bounded over all replans, repairs, rejections and interventions.
EveryRunEnds == (session.status = "Running") ~> (session.status # "Running")

\* The agent steps of a run, over all its stages
StepsTaken(run) ==
    LET taken == run.steps
    IN  taken["Planning"] + taken["PlanReview"] + taken["PlanRevision"]
        + taken["Implementing"] + taken["Checking"] + taken["CodeReview"]
        + taken["Repairing"] + taken["Committing"]

\* What is stored of the turn's delivery, as its owner sees it
StoredDelivery ==
    LET run == session.saved.run
    IN  IF session.saved # None
        THEN [phase |-> IF run.stage = "Blocked" THEN "Blocked" ELSE "Working",
              used |-> StepsTaken(run)]
        ELSE IF session.archived = None THEN None
        ELSE [phase |-> IF session.archived \in SuccessOutcomes THEN "Delivered" ELSE "Stopped",
              used |-> 0]

Contract ==
    INSTANCE DeliveryContract WITH
        child <- StoredDelivery,
        Renewable <- MaxCrashes > 0 \/ MaxRestarts > 0

ASSUME NoneIsNoDelivery == None \notin Contract!Children

\* The stored turn is a delivery: it is begun once, only grows, and ends once,
\* through cancellations, blocks, resumes and the driver's errors.
KeepsItsContract == Contract!Spec

\* docs/architecture/workflows.md:563 "This makes reviewed mean reviewed at the
\* delivered content": no commit differs from the content its review passed.
ReviewedMeansDelivered ==
    \A i \in DOMAIN repo.log :
        repo.log[i].by = "pb" => repo.log[i].content = repo.log[i].reviewed

\* docs/conversational-delivery-workflow-plan.md:212 "A daemon restart [...]
\* preserves the exact workflow stage, artifacts, budgets, baseline": a run that is
\* started again has the repository baseline of its checkpoint.
RestartPreservesBaseline ==
    At("start") /\ session.saved # None => session.saved.base = TaskBaseline

\* The same sentence, of a workflow that has been archived as delivered: its turn
\* does not start another workflow.
DeliveredTurnIsNotRunAgain ==
    session.archived \in SuccessOutcomes /\ driver.run # None =>
        driver.run.outcome = session.archived
==============================================================================
