------------------------------ MODULE TaskEngine ------------------------------
(* The reducer of a multi-Task run, src/src/task_queue/engine.rs: an accepted *)
(* plan of Tasks, each delivered by one child workflow or Goal, one at a      *)
(* time, over one repository and one budget.  An event is a pair: a predicate *)
(* CanX, the conditions under which it is accepted, and the run X leads to.   *)
EXTENDS Naturals, Sequences, FiniteSets, Functions

CONSTANTS
    TaskIds,       \* names of Tasks
    TaskPlans,     \* the plans a reviewer may pass, sequences of specifications
    Repositories,  \* what TaskRepositoryState::capture may see
    Commits,       \* object names
    HeadOf,        \* the HEAD of a repository
    Criteria,      \* what a Goal contract may ask for
    Coordination,  \* a plan's coordination budget
    None           \* an absent Option

TaskSpec ==
    [id : TaskIds, kind : {"Build", "Goal"}, deps : SUBSET TaskIds,
     budget : Nat, contract : SUBSET Criteria]

\* What validate_proposal lets through: distinct names, dependencies within the
\* plan and without a cycle, a contract for each Goal and for nothing else.
WellOrdered(plan) ==
    \E order \in [DOMAIN plan -> 1 .. Len(plan)] :
        \A i, j \in DOMAIN plan : plan[j].id \in plan[i].deps => order[j] < order[i]

ASSUME PlansAreValid ==
    \A plan \in TaskPlans :
        /\ plan \in Seq(TaskSpec) /\ Len(plan) >= 2
        /\ IsInjective([i \in DOMAIN plan |-> plan[i].id])
        /\ \A i \in DOMAIN plan :
               /\ plan[i].deps \subseteq {plan[j].id : j \in DOMAIN plan}
               /\ plan[i].kind = "Goal" <=> plan[i].contract # {}
        /\ WellOrdered(plan)

ASSUME HeadsAreCommits == HeadOf \in [Repositories -> Commits]

ASSUME CoordinationIsBounded == Coordination \in Nat

-----------------------------------------------------------------------------
(* A child, as far as its Task looks at it *)

\* A child that is blocked or has ended otherwise is one that works, to its Task.
ChildStates == {"Initial", "Working", "Delivered"}

\* attempt names the request the child is bound to, commit the last commit of
\* what it delivered, contract the criteria of a Goal.
Child ==
    [attempt : Nat, state : ChildStates, used : Nat, commit : Commits \cup {None},
     contract : SUBSET Criteria]

TaskResult ==
    [base : Repositories, terminal : Repositories, commit : Commits \cup {None}]

TaskStates ==
    {"Queued", "Running", "Committed", "NoChange", "Blocked", "Failed", "Cancelled", "Superseded"}

Successful == {"Committed", "NoChange"}

\* TaskRun; base is the request's base_repository, marks the usage of its
\* children by attempt.
TaskRun ==
    [spec : TaskSpec, revision : Nat, state : TaskStates,
     base : Repositories \cup {None}, contract : SUBSET Criteria,
     child : Child \cup {None}, marks : Seq(Nat), direct : Nat, counters : Nat,
     checkpoint : Repositories \cup {None}, result : TaskResult \cup {None}]

QueuedTask(spec, revision) ==
    [spec |-> spec, revision |-> revision, state |-> "Queued",
     base |-> None, contract |-> spec.contract,
     child |-> None, marks |-> <<>>, direct |-> 0, counters |-> 0,
     checkpoint |-> None, result |-> None]

Attempts(task) == Len(task.marks)

\* TaskRun::recompute_counters
Recounted(task) == [task EXCEPT !.counters = task.direct + SumFunction(task.marks)]

-----------------------------------------------------------------------------
(* The run *)

Stages == {"RunningTask", "Evaluating", "Paused", "Blocked", "Ready", "Failed", "Cancelled"}

TerminalStages == {"Ready", "Failed", "Cancelled"}

Outcomes == {"Ready", "TaskBlocked", "TaskFailed", "BudgetExhausted", "Cancelled"}

ASSUME NoneIsAbsent ==
    None \notin TaskIds \cup Repositories \cup Commits \cup Outcomes \cup Child \cup TaskResult

MultiTaskRun ==
    [stage : Stages, revision : Nat, plan : TaskPlans, tasks : Seq(TaskRun),
     counters : Nat, coordination : Nat, active : TaskIds \cup {None},
     expected : Repositories, outcome : Outcomes \cup {None}]

CurrentTasks(run) == {i \in DOMAIN run.tasks : run.tasks[i].state # "Superseded"}

\* current_task
Named(run, id) == {i \in CurrentTasks(run) : run.tasks[i].spec.id = id}

IsDelivered(run, id) == \E i \in Named(run, id) : run.tasks[i].state \in Successful

\* The budget a plan allocates: the sum of what its Tasks are given
Allocated(plan) == SumFunction([i \in DOMAIN plan |-> plan[i].budget])

RecountedRun(run) ==
    [run EXCEPT !.counters = SumFunction([i \in DOMAIN run.tasks |-> run.tasks[i].counters])]

Over(run, task) ==
    \/ task.counters > task.spec.budget
    \/ run.counters > Allocated(run.plan)

WithTask(run, i, task) == [run EXCEPT !.tasks[i] = task]

\* Mutant: the Tasks run in plan order, whatever they depend on.
ReadyInPlanOrder(run) ==
    {k \in DOMAIN run.plan :
        \E i \in Named(run, run.plan[k].id) : run.tasks[i].state = "Queued"}

\* activate_next: the first Task in plan order whose dependencies are delivered
ReadySpecs(run) ==
    {k \in DOMAIN run.plan :
        /\ \E i \in Named(run, run.plan[k].id) : run.tasks[i].state = "Queued"
        /\ \A id \in run.plan[k].deps : IsDelivered(run, id)}

NextTask(run) ==
    {i \in CurrentTasks(run) :
        \E k \in ReadySpecs(run) :
            /\ \A j \in ReadySpecs(run) : k <= j
            /\ run.tasks[i].spec.id = run.plan[k].id}

\* build_request and what goes with it: a new attempt from the expected repository
Activated(run, i, checkpoint) ==
    LET task == run.tasks[i]
    IN  [WithTask(run, i, [task EXCEPT
            !.state = "Running", !.marks = Append(@, 0), !.base = run.expected,
            !.child = None, !.checkpoint = checkpoint])
         EXCEPT !.active = task.spec.id, !.stage = "RunningTask", !.outcome = None]

EveryTaskIsDelivered(run) == \A k \in DOMAIN run.plan : IsDelivered(run, run.plan[k].id)

ActivateNext(run) ==
    IF NextTask(run) # {} THEN {Activated(run, i, run.expected) : i \in NextTask(run)}
    ELSE IF EveryTaskIsDelivered(run)
    THEN {[run EXCEPT !.stage = "Ready", !.outcome = "Ready"]}
    ELSE {[run EXCEPT !.stage = "Blocked", !.outcome = "TaskBlocked"]}

Start(plan, repository) ==
    ActivateNext(
        [stage |-> "Evaluating", revision |-> 1, plan |-> plan,
         tasks |-> [k \in DOMAIN plan |-> QueuedTask(plan[k], 1)],
         counters |-> 0, coordination |-> 0, active |-> None,
         expected |-> repository, outcome |-> None])

\* stop_for_budget_if_needed, the end of every event that charges a Task
Charged(run, i, task) ==
    LET charged == RecountedRun(WithTask(run, i, Recounted(task)))
    IN  IF Over(charged, charged.tasks[i])
        THEN [charged EXCEPT !.tasks[i].state = "Failed", !.active = None,
                             !.stage = "Failed", !.outcome = "BudgetExhausted"]
        ELSE charged

\* require_running_task: the only Task the events about a Task may name
RunningTask(run) ==
    {i \in Named(run, run.active) :
        run.stage = "RunningTask" /\ run.tasks[i].state = "Running"}

-----------------------------------------------------------------------------
(* The events of MultiTaskEvent; i is a member of RunningTask(run) *)

CanRecordCoordination(run) == run.stage = "Evaluating"

RecordCoordination(run, usage) ==
    LET total == run.coordination + usage
    IN  IF total > Coordination
        THEN [run EXCEPT !.coordination = total,
                         !.stage = "Failed", !.outcome = "BudgetExhausted"]
        ELSE [run EXCEPT !.coordination = total]

RecordDirect(run, i, usage) ==
    Charged(run, i, [run.tasks[i] EXCEPT !.direct = @ + usage])

\* checkpoint_child: the child of the active request, with the contract that was
\* accepted, never with less usage than it had.
IsChildOf(task, child) ==
    /\ child.attempt = Attempts(task)
    /\ child.contract = task.contract
    /\ child.used >= task.marks[child.attempt]

\* Mutant: what a child reports is added to what it reported before.
CheckpointChildAgain(run, i, child, repository) ==
    Charged(run, i, [run.tasks[i] EXCEPT !.child = child, !.checkpoint = repository,
                                         !.marks[child.attempt] = @ + child.used])

CheckpointChild(run, i, child, repository) ==
    Charged(run, i, [run.tasks[i] EXCEPT !.child = child, !.checkpoint = repository,
                                         !.marks[child.attempt] = child.used])

CanStartChild(run, i, child, repository) ==
    /\ child.state = "Initial"
    /\ repository = run.tasks[i].base
    /\ run.tasks[i].child = None
    /\ IsChildOf(run.tasks[i], child)

CanCheckpointChild(run, i, child) ==
    /\ run.tasks[i].child # None
    /\ IsChildOf(run.tasks[i], child)

\* Mutant: a contract may be revised to any other of the same Goal.
CanReplaceContract(run, i, child) ==
    /\ run.tasks[i].spec.kind = "Goal" /\ run.tasks[i].child # None
    /\ IsChildOf([run.tasks[i] EXCEPT !.contract = child.contract], child)

\* validate_goal_task_revision: criteria may be added
CanReviseContract(run, i, child) ==
    /\ run.tasks[i].spec.kind = "Goal" /\ run.tasks[i].child # None
    /\ run.tasks[i].contract \subseteq child.contract
    /\ IsChildOf([run.tasks[i] EXCEPT !.contract = child.contract], child)

ReviseContract(run, i, child, repository) ==
    CheckpointChild(WithTask(run, i, [run.tasks[i] EXCEPT !.contract = child.contract]),
                    i, child, repository)

\* validate_delivered_result
CanDeliver(run, i, commit, repository) ==
    LET task == run.tasks[i]
    IN  /\ task.child # None /\ task.child.state = "Delivered"
        /\ commit = task.child.commit
        /\ repository = task.checkpoint
        /\ IF commit = None THEN repository = task.base ELSE HeadOf[repository] = commit

\* Mutant: the repository that the next Task starts from is not advanced.
DeliverInPlace(run, i, commit, repository) ==
    [WithTask(run, i, [run.tasks[i] EXCEPT
        !.state = IF commit = None THEN "NoChange" ELSE "Committed",
        !.checkpoint = repository,
        !.result = [base |-> run.tasks[i].base, terminal |-> repository, commit |-> commit]])
     EXCEPT !.active = None, !.stage = "Evaluating", !.outcome = None]

Deliver(run, i, commit, repository) ==
    [WithTask(run, i, [run.tasks[i] EXCEPT
        !.state = IF commit = None THEN "NoChange" ELSE "Committed",
        !.checkpoint = repository,
        !.result = [base |-> run.tasks[i].base, terminal |-> repository, commit |-> commit]])
     EXCEPT !.expected = repository, !.active = None, !.stage = "Evaluating",
            !.outcome = None]

StopBlocked(run, i) ==
    [run EXCEPT !.tasks[i].state = "Blocked", !.stage = "Blocked", !.outcome = "TaskBlocked"]

StopFailed(run, i) ==
    [run EXCEPT !.tasks[i].state = "Failed", !.active = None,
                !.stage = "Failed", !.outcome = "TaskFailed"]

CanEvaluate(run, repository) == run.stage = "Evaluating" /\ repository = run.expected

\* revision_expands
Expands(old, new) ==
    \E k \in DOMAIN new :
        \A j \in DOMAIN old :
            \/ old[j].id # new[k].id
            \/ old[j].kind # new[k].kind
            \/ old[j].budget # new[k].budget
            \/ old[j].contract # new[k].contract
            \/ ~(old[j].deps \subseteq new[k].deps)

\* apply_pending_revision
CanRevise(run, plan, approved, repository) ==
    /\ CanEvaluate(run, repository)
    /\ Allocated(plan) = Allocated(run.plan)
    /\ \A i \in CurrentTasks(run) :
           run.tasks[i].state \in Successful => \E k \in DOMAIN plan : plan[k] = run.tasks[i].spec
    /\ Expands(run.plan, plan) => approved

\* The members of a set of positions, in their order
InOrder(positions) ==
    {order \in [1 .. Cardinality(positions) -> positions] :
        \A m, n \in DOMAIN order : m < n => order[m] < order[n]}

Revise(run, plan) ==
    LET kept == [i \in DOMAIN run.tasks |->
            IF run.tasks[i].state = "Queued" /\ \A k \in DOMAIN plan : plan[k] # run.tasks[i].spec
            THEN [run.tasks[i] EXCEPT !.state = "Superseded"] ELSE run.tasks[i]]
        added == {k \in DOMAIN plan :
            \A i \in DOMAIN kept : kept[i].state = "Superseded" \/ kept[i].spec # plan[k]}
    IN  {[run EXCEPT
            !.plan = plan, !.revision = @ + 1,
            !.tasks = kept \o [n \in DOMAIN order |-> QueuedTask(plan[order[n]], run.revision + 1)]] :
         order \in InOrder(added)}

CanPause(run) == run.stage = "RunningTask"

Pause(run) == [run EXCEPT !.stage = "Paused"]

\* validate_reconciliation
Reconciles(run, repository) ==
    \A i \in Named(run, run.active) : repository = run.tasks[i].checkpoint

CanResume(run, repository) ==
    run.stage \in {"Paused", "Blocked"} /\ Reconciles(run, repository)

Resume(run, i) ==
    [run EXCEPT !.tasks[i].state = "Running", !.stage = "RunningTask", !.outcome = None]

CanRetry(run, repository) == run.stage = "Blocked" /\ Reconciles(run, repository)

CanCancel(run) == run.stage \notin TerminalStages

\* Mutant: the Tasks that were delivered are cancelled with the rest.
CancelEverything(run) ==
    [run EXCEPT
        !.tasks = [i \in DOMAIN run.tasks |->
            IF run.tasks[i].state # "Superseded"
            THEN [run.tasks[i] EXCEPT !.state = "Cancelled"] ELSE run.tasks[i]],
        !.active = None, !.stage = "Cancelled", !.outcome = "Cancelled"]

Cancel(run) ==
    [run EXCEPT
        !.tasks = [i \in DOMAIN run.tasks |->
            IF run.tasks[i].state \in {"Queued", "Running", "Blocked"}
            THEN [run.tasks[i] EXCEPT !.state = "Cancelled"] ELSE run.tasks[i]],
        !.active = None, !.stage = "Cancelled", !.outcome = "Cancelled"]

-----------------------------------------------------------------------------
(* MultiTaskRun::validate, which every event and MultiTaskCheckpoint::new apply *)

Untouched(task) ==
    /\ Attempts(task) = 0 /\ task.base = None /\ task.child = None
    /\ task.checkpoint = None /\ task.result = None /\ task.counters = 0

HasRequest(task) == task.base # None /\ Attempts(task) > 0

\* validate_request and validate_current_watermark: the child is the request's,
\* and the usage it reported is the usage it is charged for.
ChildIsBound(task) ==
    task.child # None =>
        /\ task.child.attempt = Attempts(task)
        /\ task.child.contract = task.contract
        /\ task.marks[task.child.attempt] = task.child.used

ResultIsSound(task) ==
    /\ task.result # None
    /\ task.result.base = task.base /\ task.result.terminal = task.checkpoint
    /\ IF task.state = "NoChange"
       THEN task.result.commit = None /\ task.result.terminal = task.base
       ELSE task.result.commit # None /\ HeadOf[task.result.terminal] = task.result.commit

ValidTask(run, task) ==
    /\ task.revision \in 1 .. run.revision
    /\ task.counters = Recounted(task).counters
    /\ task.counters > task.spec.budget =>
           task.state = "Failed" /\ run.outcome = "BudgetExhausted"
    /\ ChildIsBound(task)
    /\ task.state \in {"Queued", "Superseded"} => Untouched(task)
    /\ task.state \in {"Running", "Blocked", "Failed"} => HasRequest(task) /\ task.result = None
    /\ task.state \in Successful => HasRequest(task) /\ ResultIsSound(task)
    /\ task.state = "Cancelled" => task.result = None /\ (HasRequest(task) \/ Untouched(task))
    /\ task.state \notin {"Queued", "Cancelled", "Superseded"} =>
           \A id \in task.spec.deps : IsDelivered(run, id)

TasksMatchPlan(run) ==
    /\ \A k \in DOMAIN run.plan :
           \E i \in CurrentTasks(run) :
               /\ Named(run, run.plan[k].id) = {i}
               /\ run.tasks[i].spec = run.plan[k]
    /\ \A i \in CurrentTasks(run) : \E k \in DOMAIN run.plan : run.plan[k].id = run.tasks[i].spec.id

ActiveIs(run, states) ==
    \E i \in Named(run, run.active) : run.tasks[i].state \in states

Running(run) == {i \in DOMAIN run.tasks : run.tasks[i].state = "Running"}

ValidStage(run) ==
    CASE run.stage \in {"RunningTask", "Paused"} ->
             ActiveIs(run, {"Running"}) /\ run.outcome = None /\ Cardinality(Running(run)) = 1
      [] run.stage = "Blocked" -> ActiveIs(run, {"Blocked"}) /\ run.outcome = "TaskBlocked"
      [] run.stage = "Evaluating" ->
             /\ run.active = None /\ run.outcome = None
             /\ \A i \in CurrentTasks(run) : run.tasks[i].state \in {"Queued"} \cup Successful
      [] run.stage = "Ready" ->
             run.active = None /\ run.outcome = "Ready" /\ EveryTaskIsDelivered(run)
      [] run.stage = "Failed" ->
             /\ run.active = None
             /\ \/ /\ run.outcome = "TaskFailed"
                   /\ \E i \in CurrentTasks(run) : run.tasks[i].state = "Failed"
                \/ /\ run.outcome = "BudgetExhausted"
                   /\ \/ run.coordination > Coordination
                      \/ run.counters > Allocated(run.plan)
                      \/ \E i \in CurrentTasks(run) : run.tasks[i].counters > run.tasks[i].spec.budget
      [] run.stage = "Cancelled" ->
             /\ run.active = None /\ run.outcome = "Cancelled"
             /\ \A i \in CurrentTasks(run) : run.tasks[i].state \in {"Cancelled"} \cup Successful

Valid(run) ==
    /\ TasksMatchPlan(run)
    /\ \A i \in DOMAIN run.tasks : ValidTask(run, run.tasks[i])
    /\ run.counters = RecountedRun(run).counters
    /\ run.counters > Allocated(run.plan) \/ run.coordination > Coordination =>
           run.stage = "Failed" /\ run.outcome = "BudgetExhausted"
    /\ ValidStage(run)

=============================================================================
