--------------------------------- MODULE Goal ---------------------------------
(* One session that pursues a goal: the Goal engine under the handlers of     *)
(* src/src/web.rs, the driver that delivers one milestone after the other     *)
(* (Delivery has its inside), its users, and stops of the daemon.  A handler  *)
(* that refuses a request, or whose result GoalCheckpoint::new refuses,       *)
(* leaves the session as it was, so a refusal is no step.                     *)
EXTENDS GoalEngine

CONSTANTS
    MaxAmendments,      \* amendments approved or discarded
    MaxMishaps,         \* errors of the runner, stops of the daemon, and
                        \* cancellations of the session instead of its goal
    MaxResumes,         \* resumes of the session instead of its goal
    MaxClock            \* the clock's last minute

ASSUME BoundsAreNaturals == {MaxAmendments, MaxMishaps, MaxResumes, MaxClock} \subseteq Nat

VARIABLES
    goal,     \* session.goal, or the last of completed_goals once it is terminal
    session,  \* status, tokens and request template
    run,      \* the driver's task, None when there is none
    env       \* the clock, what has happened (bounds), and history

vars == <<goal, session, run, env>>

-----------------------------------------------------------------------------
(* Types *)

SessionStatus == {"Queued", "Running", "Paused", "Completed", "Failed"}

\* The request template: the workflow it resumes and the policy of a new one
Request == [workflow : Child \cup {None}, limit : Nat]

Run == [phase : {"Starting", "Working", "Finished", "Broken"}, workflow : Child \cup {None}]

Milestone ==
    [plan : Nat, criterion : Nat \ {0},
     status : {"Pending", "Running", "Completed", "Failed", "Superseded"},
     workflow : Child \cup {None}]

Amendment == [plan : GoalPlans, budget : Budgets, automatic : BOOLEAN, resume_to : Stages]

ASSUME NoneRuns == None \notin Run \cup Amendment

Active == goal.stage \notin TerminalStages

MishapAllowed == env.stops + env.failures + env.cancels < MaxMishaps

\* A session that runs has a goal at work, unless ResumeSession queued it.
GoalIsAtWork == run # None => goal.stage = "RunningMilestone"

Late == env.clock >= goal.budget.minutes

-----------------------------------------------------------------------------
(* The session *)

Init ==
    /\ \E plan \in GoalPlans, budget \in Budgets, automatic \in BOOLEAN :
           /\ CanStart(plan, budget)
           /\ goal = Start(plan, budget, automatic)
    /\ session = [status |-> "Paused", pause |-> FALSE, cancel |-> FALSE,
                  request |-> [workflow |-> None, limit |-> 0]]
    /\ run = None
    /\ env = [clock |-> 0, stops |-> 0, failures |-> 0, cancels |-> 0, amendments |-> 0,
              resumes |-> 0, spent |-> 0, dropped |-> 0, delivered |-> {}]

\* A mutant of MilestoneRequest: a milestone that is resumed begins anew.
MilestoneRequestAfresh(g) == [workflow |-> None, limit |-> ChildLimit]

\* configure_goal_milestone_request: a workflow that was begun keeps its policy,
\* a new one gets what the goal's budget leaves it.
MilestoneRequest(g) ==
    LET left == g.budget.invocations - g.counters.invocations
        w == ActiveWorkflow(g)
    IN  [workflow |-> w,
         limit |-> IF w # None THEN w.limit
                   ELSE IF left < 1 THEN 1
                   ELSE IF left < ChildLimit THEN left ELSE ChildLimit]

\* The handlers that set up a milestone need one, and store a valid goal.
Dispatches(g) ==
    /\ g.active # 0
    /\ Valid(g)
    /\ goal' = g

-----------------------------------------------------------------------------
(* What users ask for.  A stale digest is refused before anything else.       *)

ReviseGoalDraft ==
    /\ CanApprovePlan(goal)
    /\ \E plan \in GoalPlans, budget \in Budgets, automatic \in BOOLEAN :
           /\ CanStart(plan, budget)
           /\ goal' = RevisePlan(goal, plan, budget, automatic)
    /\ UNCHANGED <<session, run, env>>

ApproveGoalPlan ==
    /\ CanApprovePlan(goal)
    /\ \E g \in ApprovePlan(goal, env.clock) :
           /\ Dispatches(g)
           /\ session' = [session EXCEPT !.status = "Queued", !.request = MilestoneRequest(g)]
    /\ UNCHANGED <<run, env>>

\* pause_goal, and request_goal_pause and request_goal_change of the model's tools
RequestsPause ==
    /\ CanRequestPause(goal)
    /\ goal' = RequestPause(goal)
    /\ session' = [session EXCEPT
           !.pause = TRUE,
           !.status = IF goal.stage \in RestingStages THEN "Paused" ELSE @]
    /\ UNCHANGED <<run, env>>

PauseGoal == RequestsPause

ResumeGoal ==
    /\ CanResume(goal, env.clock)
    /\ \E g \in Resume(goal, env.clock) :
           /\ Dispatches(g)
           /\ session' = [session EXCEPT !.status = "Queued", !.pause = FALSE,
                                         !.request = MilestoneRequest(g)]
    /\ UNCHANGED <<run, env>>

CancelRunningGoal ==
    /\ Active /\ session.status = "Running"
    /\ session' = [session EXCEPT !.pause = FALSE, !.cancel = TRUE]
    /\ UNCHANGED <<goal, run, env>>

CancelGoal ==
    /\ Active /\ session.status # "Running"
    /\ goal' = Cancel(goal)
    /\ session' = [session EXCEPT !.status = "Completed"]
    /\ UNCHANGED <<run, env>>

AcceptGoal ==
    /\ CanAccept(goal)
    /\ goal' = Accept(goal)
    /\ session' = [session EXCEPT !.status = "Completed"]
    /\ UNCHANGED <<run, env>>

AmendGoal ==
    /\ env.amendments < MaxAmendments
    /\ \E plan \in GoalPlans, budget \in Budgets, automatic \in BOOLEAN :
           /\ CanPropose(goal, plan, budget)
           /\ goal' = Propose(goal, plan, budget, automatic)
    /\ session' = [session EXCEPT !.status = "Paused"]
    /\ env' = [env EXCEPT !.amendments = @ + 1]
    /\ UNCHANGED run

ApproveGoalAmendment ==
    /\ Active /\ goal.amendment # None
    /\ \E g \in ApproveAmendment(goal, env.clock) :
           /\ Dispatches(g)
           /\ session' = [session EXCEPT !.status = "Queued", !.request = MilestoneRequest(g)]
    /\ env' = [env EXCEPT !.dropped = @ + Used(ActiveWorkflow(goal))]
    /\ UNCHANGED run

DiscardGoalAmendment ==
    /\ Active /\ goal.amendment # None
    /\ goal' = DiscardAmendment(goal)
    /\ session' = [session EXCEPT !.status = "Paused"]
    /\ UNCHANGED <<run, env>>

\* cancel_session: meant for the session, it leaves a goal that does not run
CancelSession ==
    /\ MishapAllowed
    /\ session.status \notin {"Completed", "Failed"}
    /\ session' = [session EXCEPT
           !.cancel = TRUE,
           !.status = IF @ = "Running" THEN @ ELSE "Completed",
           !.request.workflow = IF session.status = "Running" THEN @ ELSE None]
    /\ env' = [env EXCEPT !.cancels = @ + 1]
    /\ UNCHANGED <<goal, run>>

\* resume_session: meant for the session, it queues it whatever its goal waits
\* for, and without the workflow of the milestone.  (Before the first plan is
\* approved the session would only talk; that turn is left out.)
ResumeSession ==
    /\ env.resumes < MaxResumes
    /\ session.status = "Paused"
    /\ goal.stage = "AwaitingPlanApproval" => goal.amendment # None
    /\ session' = [session EXCEPT !.status = "Queued", !.cancel = FALSE,
                                  !.request.workflow = None]
    /\ env' = [env EXCEPT !.resumes = @ + 1]
    /\ UNCHANGED <<goal, run>>

-----------------------------------------------------------------------------
(* The driver *)

Claim ==
    /\ session.status = "Queued"
    /\ session' = [session EXCEPT !.status = "Running"]
    /\ run' = [phase |-> "Starting", workflow |-> session.request.workflow]
    /\ UNCHANGED <<goal, env>>

\* checkpoint_workflow: the driver's workflow becomes the active milestone's
Checkpointed(phase, w) ==
    IF goal.active = 0
    THEN /\ run' = [run EXCEPT !.phase = "Broken"]
         /\ UNCHANGED goal
    ELSE /\ run' = [phase |-> phase, workflow |-> w]
         /\ goal' = CheckpointActive(goal, w)

BeginsWorkflow ==
    /\ run # None /\ run.phase = "Starting" /\ run.workflow = None
    /\ Checkpointed("Working", [state |-> "Working", used |-> 0, limit |-> session.request.limit])
    /\ UNCHANGED <<session, env>>

ResumesWorkflow ==
    /\ run # None /\ run.phase = "Starting" /\ run.workflow # None
    /\ run.workflow.state \in {"Working", "Blocked"}
    /\ Checkpointed("Working", [run.workflow EXCEPT !.state = "Working"])
    /\ UNCHANGED <<session, env>>

\* run_delivery_workflow: "completed workflow cannot be resumed"
RefusesWorkflow ==
    /\ run # None /\ run.phase = "Starting" /\ run.workflow # None
    /\ run.workflow.state \notin {"Working", "Blocked"}
    /\ run' = [run EXCEPT !.phase = "Broken"]
    /\ UNCHANGED <<goal, session, env>>

Working == run # None /\ run.phase = "Working"

Interrupted == session.pause \/ session.cancel \/ Late

\* A model call is charged before it is made; a charge over the limit ends the workflow.
CallsModel ==
    /\ Working /\ ~Interrupted
    /\ LET w == run.workflow
           over == w.used + 1 > w.limit
       IN  Checkpointed(IF over THEN "Finished" ELSE "Working",
                        [w EXCEPT !.used = @ + 1, !.state = IF over THEN "OverLimit" ELSE @])
    /\ env' = [env EXCEPT !.spent = @ + 1]
    /\ UNCHANGED session

WorkflowEnds(state) ==
    /\ Working
    /\ run.workflow.used > 0 \/ state = "Blocked"
    /\ Checkpointed("Finished", [run.workflow EXCEPT !.state = state])
    /\ env' = IF state = "Ready"
              THEN [env EXCEPT !.delivered =
                       @ \cup {goal.criteria[goal.milestones[goal.active].criterion].text}]
              ELSE env
    /\ UNCHANGED session

WorkflowDelivers == WorkflowEnds("Ready")

WorkflowIsRejected == WorkflowEnds("Rejected")

WorkflowBlocks == WorkflowEnds("Blocked")

WorkflowPauses ==
    /\ Working /\ (session.pause \/ Late)
    /\ Checkpointed("Finished", run.workflow)
    /\ UNCHANGED <<session, env>>

WorkflowIsCancelled ==
    /\ Working /\ session.cancel
    /\ Checkpointed("Finished", [run.workflow EXCEPT !.state = "Cancelled"])
    /\ UNCHANGED <<session, env>>

ModelRequestsPause == Working /\ GoalIsAtWork /\ RequestsPause

RunnerFails ==
    /\ run # None /\ run.phase \in {"Starting", "Working"}
    /\ MishapAllowed
    /\ run' = [run EXCEPT !.phase = "Broken"]
    /\ env' = [env EXCEPT !.failures = @ + 1]
    /\ UNCHANGED <<goal, session>>

-----------------------------------------------------------------------------
(* The end of a run: apply_goal_run_result and the commit around it *)

StatusAfter(g) ==
    CASE g.stage = "RunningMilestone" -> "Queued"
      [] g.stage \in {"Paused", "Blocked", "AwaitingUserReview"} -> "Paused"
      [] g.stage = "Failed" -> "Failed"
      [] OTHER -> "Completed"

\* fail_active_goal_engine takes what the result left when it cannot be stored.
Stored(g) == IF Valid(g) THEN g ELSE Fail(goal, "EngineError")

EndRun(g) ==
    LET stored == Stored(g)
    IN  /\ goal' = stored
        /\ session' = [session EXCEPT
               !.status = StatusAfter(stored), !.pause = FALSE, !.cancel = FALSE,
               !.request = IF stored.stage = "RunningMilestone" THEN MilestoneRequest(stored)
                           ELSE [@ EXCEPT !.workflow = None]]
        /\ run' = None
        /\ UNCHANGED env

Finished == run # None /\ run.phase = "Finished"

CancelsAtEnd == session.cancel \/ run.workflow.state = "Cancelled"

EndsCancelled == Finished /\ CancelsAtEnd /\ EndRun(Cancel(goal))

EndsAtBoundary ==
    /\ Finished /\ ~CancelsAtEnd
    /\ ~ChildEnded(run.workflow)
    /\ \/ /\ Late
          /\ EndRun(Fail(CheckpointActive(goal, run.workflow), "BudgetExhausted"))
       \/ /\ ~Late /\ goal.pause_requested
          /\ EndRun(PauseAtBoundary(CheckpointActive(goal, run.workflow)))
       \/ /\ ~Late /\ ~goal.pause_requested
          /\ \E g \in Finish(goal, run.workflow, env.clock) : EndRun(g)

\* A mutant of EndsBlocked: a milestone that is blocked is tried again.
EndsBlockedRetries ==
    /\ Finished /\ ~CancelsAtEnd
    /\ run.workflow.state = "Blocked"
    /\ EndRun(CheckpointActive(goal, run.workflow))

EndsBlocked ==
    /\ Finished /\ ~CancelsAtEnd
    /\ run.workflow.state = "Blocked"
    /\ EndRun(BlockActive(goal, run.workflow))

EndsMilestone ==
    /\ Finished /\ ~CancelsAtEnd
    /\ ChildEnded(run.workflow) /\ run.workflow.state # "Blocked"
    /\ \E g \in Finish(goal, run.workflow, env.clock) : EndRun(g)

EndsBroken ==
    /\ run # None /\ run.phase = "Broken"
    /\ EndRun(Fail(goal, "EngineError"))

-----------------------------------------------------------------------------
(* Outside *)

\* restore_project_sessions and session_from_persisted
DaemonRestart ==
    /\ MishapAllowed
    /\ goal' = IF goal.stage = "RunningMilestone" THEN PauseAtBoundary(goal) ELSE goal
    /\ session' = [session EXCEPT
           !.status = IF @ \in {"Running", "Queued"} THEN "Paused" ELSE @,
           !.pause = FALSE, !.cancel = FALSE, !.request.workflow = None]
    /\ run' = None
    /\ env' = [env EXCEPT !.stops = @ + 1]

TimePasses ==
    /\ env.clock < MaxClock
    /\ env' = [env EXCEPT !.clock = @ + 1]
    /\ UNCHANGED <<goal, session, run>>

\* The handlers ask the goal whether it rests, not the session: while a session
\* runs that ResumeSession queued, one of them could queue it a second time.  What
\* is asked of such a session before its run has ended is left out.
UserStep ==
    /\ GoalIsAtWork
    /\ \/ ReviseGoalDraft \/ ApproveGoalPlan \/ PauseGoal \/ ResumeGoal
       \/ CancelRunningGoal \/ CancelGoal \/ AcceptGoal
       \/ AmendGoal \/ ApproveGoalAmendment \/ DiscardGoalAmendment
       \/ CancelSession \/ ResumeSession

DriverStep ==
    \/ BeginsWorkflow \/ ResumesWorkflow \/ RefusesWorkflow
    \/ CallsModel \/ WorkflowDelivers \/ WorkflowIsRejected \/ WorkflowBlocks
    \/ WorkflowPauses \/ WorkflowIsCancelled

EndStep ==
    \/ EndsCancelled \/ EndsAtBoundary \/ EndsBlocked \/ EndsMilestone \/ EndsBroken

Next ==
    \/ UserStep \/ Claim \/ DriverStep \/ ModelRequestsPause \/ RunnerFails
    \/ EndStep \/ DaemonRestart \/ TimePasses

Spec == Init /\ [][Next]_vars

\* The daemon claims queued sessions and its driver runs until it has ended.
FairSpec == Spec /\ WF_vars(Claim \/ DriverStep \/ EndStep)

-----------------------------------------------------------------------------
(* Properties *)

\* The type invariant.
TypeOK ==
    /\ goal \in [stage : Stages, resume_to : Stages \cup {None}, pause_requested : BOOLEAN,
                 plan_version : Nat, criteria : Seq([text : Criteria, status : Evidence]),
                 milestones : Seq(Milestone), active : Nat, counters : Counters,
                 budget : Budgets, automatic : BOOLEAN, amendment : Amendment \cup {None},
                 outcome : Outcomes \cup {None}]
    /\ session \in [status : SessionStatus, pause : BOOLEAN, cancel : BOOLEAN,
                    request : Request]
    /\ run \in Run \cup {None}
    /\ env \in [clock : Nat, stops : Nat, failures : Nat, cancels : Nat, amendments : Nat, resumes : Nat,
                spent : Nat, dropped : Nat, delivered : SUBSET Criteria]

\* Every model call the goal's workflows made is counted exactly once, over
\* milestones, pauses, blocks, cancellations, failures and stops; what an
\* amendment over a workflow in progress drops (engine.rs:871) is kept apart.
UsageIsCountedOnce ==
    EffectiveCounters(goal).invocations + env.dropped = env.spent

\* A goal that awaits its user's acceptance, or is complete, has had every
\* criterion of its current plan delivered by some workflow: evidence is not
\* invented by amendments, resumes or stops (engine.rs:845, 961).
SuccessWasDelivered ==
    goal.stage \in {"AwaitingUserReview", "Completed"} =>
        \A k \in DOMAIN goal.criteria : goal.criteria[k].text \in env.delivered

\* At most one milestone runs, it is the active one, and a session that is
\* queued or running works for it; a goal that is stored passes its own
\* validation whatever order the handlers come in.
OneMilestoneAtATime ==
    /\ Valid(goal)
    /\ \A i \in DOMAIN goal.milestones : goal.milestones[i].status = "Running" <=> i = goal.active
    /\ session.status \in {"Queued", "Running"} =>
           goal.stage = "RunningMilestone" /\ goal.active # 0
    /\ run # None => session.status = "Running"

\* A goal at work is inside its budget, up to the charge that ends its workflow,
\* also when an amendment has lowered the budget.
WorkIsInsideTheBudget ==
    goal.stage = "RunningMilestone" =>
        /\ EffectiveCounters(goal).workflows <= goal.budget.workflows
        /\ EffectiveCounters(goal).invocations <= goal.budget.invocations + 1

\* A milestone that was delivered stays delivered and is not run again, over
\* amendments, failures and stops.
CompletedMilestonesStay ==
    [][\A i \in DOMAIN goal.milestones :
          goal.milestones[i].status = "Completed" =>
              /\ i \in DOMAIN goal'.milestones
              /\ goal'.milestones[i] = goal.milestones[i]]_vars

\* Once a pause has been asked for, the run that hears of it starts no further milestone.
PauseComesFirst ==
    [][session.status = "Running" /\ goal.pause_requested => goal'.active \in {0, goal.active}]_vars

\* A goal that was set to work comes to rest: it waits for its user or has ended.
GoalComesToRest ==
    session.status \in {"Queued", "Running"} ~> session.status \notin {"Queued", "Running"}

\* A milestone's workflow, as the goal stores it
StoredDelivery(i) ==
    LET m == goal.milestones[i]
        ended == m.status # "Running" \/ m.workflow.state \notin {"Working", "Blocked"}
    IN  IF i \notin DOMAIN goal.milestones THEN None
        ELSE IF m.workflow = None THEN None
        ELSE IF ended
        THEN [phase |-> IF m.workflow.state = "Ready" THEN "Delivered" ELSE "Stopped", used |-> 0]
        ELSE [phase |-> m.workflow.state, used |-> m.workflow.used]

First == INSTANCE DeliveryContract WITH child <- StoredDelivery(1), Renewable <- FALSE
Second == INSTANCE DeliveryContract WITH child <- StoredDelivery(2), Renewable <- FALSE
Third == INSTANCE DeliveryContract WITH child <- StoredDelivery(3), Renewable <- FALSE

ASSUME NoneIsNoDelivery == None \notin First!Children

\* Each milestone is delivered by one workflow that is begun once and ends once:
\* no pause, block, amendment, cancellation or daemon stop begins it again, takes
\* back what it was charged, or opens it once it has ended (engine.rs:542).
MilestonesAreDeliveries == First!Spec /\ Second!Spec /\ Third!Spec

\* docs/architecture/user-contracts.md:401: "Goal budgets apply across all child
\* workflows and do not reset between milestones, pause/resume, or amendments."
BudgetCoversAllWork ==
    EffectiveCounters(goal).invocations = env.spent

\* docs/goal-mode-plan.md:660: discarding an amendment "leaves the previous
\* accepted plan paused and resumable" - and a plan that awaited its review
\* has nothing left to resume.
PausedPlanIsResumable ==
    goal.stage = "Paused" /\ ~Exhausted(goal, env.clock) =>
        \E g \in Resume(goal, env.clock) : g.active # 0 /\ Valid(g)

\* docs/goal-mode-plan.md:155: pause "does not [...] abandon evidence": a goal
\* ends with an engine error only when its runner failed.
EngineErrorsAreReal ==
    goal.outcome = "EngineError" => env.failures > 0
=============================================================================
