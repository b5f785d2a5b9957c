------------------------------ MODULE TaskQueue ------------------------------
(* A multi-Task run under any order of the events its callers can send: the   *)
(* reducer of src/src/task_queue/engine.rs on its own.  An event the reducer  *)
(* refuses leaves the run as it was.  That the run always passes validate is  *)
(* not a guard of any event but a property of them all.                       *)
EXTENDS TaskEngine

CONSTANTS
    Began,         \* the repositories a run may begin with
    Usages,        \* what an event may report or add
    MaxAttempts,   \* attempts at one Task
    MaxRevisions   \* revisions of the plan

ASSUME BeganAreRepositories == Began \subseteq Repositories

ASSUME BoundsAreNaturals ==
    /\ Usages \subseteq Nat
    /\ {MaxAttempts, MaxRevisions} \subseteq Nat

VARIABLES
    run,      \* MultiTaskRun
    history   \* where the run began, the Tasks in the order of their delivery,
              \* and the usage that was reported, by Task and attempt

vars == <<run, history>>

-----------------------------------------------------------------------------
Init ==
    \E plan \in TaskPlans, repository \in Began :
        /\ run \in Start(plan, repository)
        /\ history = [began |-> repository, delivered |-> <<>>, direct |-> 0,
                      children |-> [c \in {} |-> 0]]

\* What is heard of a child, this attempt's or another's: only a child that
\* delivered leaves a commit.
Children ==
    {child \in [attempt : 1 .. MaxAttempts, state : ChildStates, used : Usages,
                commit : Commits \cup {None}, contract : SUBSET Criteria] :
        child.commit # None => child.state = "Delivered"}

\* The most each child was heard to have used
Heard(child, i) ==
    LET c == <<i, child.attempt>>
        heard == history.children
    IN  [d \in DOMAIN heard \cup {c} |->
            IF d # c THEN heard[d]
            ELSE IF c \in DOMAIN heard /\ heard[c] > child.used THEN heard[c] ELSE child.used]

CoordinationUsageRecorded ==
    /\ CanRecordCoordination(run)
    /\ \E usage \in Usages : run' = RecordCoordination(run, usage)
    /\ UNCHANGED history

DirectUsageRecorded ==
    \E i \in RunningTask(run), usage \in Usages \ {0} :
        /\ run' = RecordDirect(run, i, usage)
        /\ history' = [history EXCEPT !.direct = @ + usage]

ChildStarted ==
    \E i \in RunningTask(run), repository \in Repositories : \E child \in Children :
        /\ CanStartChild(run, i, child, repository)
        /\ run' = CheckpointChild(run, i, child, repository)
        /\ history' = [history EXCEPT !.children = Heard(child, i)]

ChildCheckpointed ==
    \E i \in RunningTask(run), repository \in Repositories : \E child \in Children :
        /\ CanCheckpointChild(run, i, child)
        /\ run' = CheckpointChild(run, i, child, repository)
        /\ history' = [history EXCEPT !.children = Heard(child, i)]

GoalContractRevised ==
    \E i \in RunningTask(run), repository \in Repositories : \E child \in Children :
        /\ CanReviseContract(run, i, child)
        /\ run' = ReviseContract(run, i, child, repository)
        /\ history' = [history EXCEPT !.children = Heard(child, i)]

TaskDelivered ==
    \E i \in RunningTask(run), commit \in Commits \cup {None}, repository \in Repositories :
        /\ CanDeliver(run, i, commit, repository)
        /\ run' = Deliver(run, i, commit, repository)
        /\ history' = [history EXCEPT !.delivered = Append(@, i)]

TaskStopped ==
    /\ \E i \in RunningTask(run) :
           run' \in {StopBlocked(run, i), StopFailed(run, i)}
    /\ UNCHANGED history

EvaluationCompleted ==
    /\ \E repository \in Repositories : CanEvaluate(run, repository)
    /\ run' \in ActivateNext(run)
    /\ UNCHANGED history

PendingTasksRevised ==
    /\ run.revision <= MaxRevisions
    /\ \E plan \in TaskPlans, approved \in BOOLEAN, repository \in Repositories :
           /\ CanRevise(run, plan, approved, repository)
           /\ run' \in Revise(run, plan)
    /\ UNCHANGED history

PauseRequested ==
    /\ CanPause(run)
    /\ run' = Pause(run)
    /\ UNCHANGED history

ResumeRequested ==
    /\ \E repository \in Repositories : CanResume(run, repository)
    /\ \E i \in Named(run, run.active) : run' = Resume(run, i)
    /\ UNCHANGED history

RetryBlockedTask ==
    /\ \E repository \in Repositories, i \in Named(run, run.active) :
           /\ CanRetry(run, repository)
           /\ Attempts(run.tasks[i]) < MaxAttempts
           /\ run' = Activated(run, i, repository)
    /\ UNCHANGED history

Cancelled ==
    /\ CanCancel(run)
    /\ run' = Cancel(run)
    /\ UNCHANGED history

Next ==
    \/ CoordinationUsageRecorded \/ DirectUsageRecorded
    \/ ChildStarted \/ ChildCheckpointed \/ GoalContractRevised
    \/ TaskDelivered \/ TaskStopped \/ EvaluationCompleted \/ PendingTasksRevised
    \/ PauseRequested \/ ResumeRequested \/ RetryBlockedTask \/ Cancelled

Spec == Init /\ [][Next]_vars

-----------------------------------------------------------------------------
(* Properties *)

\* The type invariant.
TypeOK ==
    /\ run \in MultiTaskRun
    /\ history \in [began : Repositories, delivered : Seq(Nat), direct : Nat,
                   children : [DOMAIN history.children -> Nat]]

\* Every state the events lead to passes the run's own validation, which every
\* event applies at its end and every load of a session again (engine.rs:913):
\* one Task runs, its dependencies are delivered, its child is its request's,
\* the counters are the sum of what was charged, and each stage has the Tasks
\* and the outcome it stands for.
QueueIsAlwaysValid == Valid(run)

\* The Tasks that were delivered form a chain from the repository the run began
\* with to the one the next Task is given, in the order of their delivery and
\* across retries, revisions and pauses (engine.rs:1431, 756).
DeliveriesFormAChain ==
    LET delivered == history.delivered
        resultOf(n) == run.tasks[delivered[n]].result
    IN  /\ \A n \in DOMAIN delivered :
               /\ run.tasks[delivered[n]].state \in Successful
               /\ resultOf(n).base =
                      IF n = 1 THEN history.began ELSE resultOf(n - 1).terminal
        /\ run.expected =
               IF delivered = <<>> THEN history.began ELSE resultOf(Len(delivered)).terminal
        /\ \A i \in DOMAIN run.tasks :
               run.tasks[i].state \in {"Running", "Blocked"} => run.tasks[i].base = run.expected

\* What the run is charged is what its children and its Tasks were heard to have
\* used, each child once however often its checkpoint is repeated, and retries
\* in addition (docs/multi-task-workflow-plan.md:572).
UsageIsCountedOnce ==
    run.counters = history.direct + SumFunction(history.children)

\* A run that is Ready delivered every Task of its plan, and a Goal that was
\* delivered had every criterion its plan accepted (engine.rs:2011).
ReadyMeetsItsPlan ==
    run.stage = "Ready" =>
        \A k \in DOMAIN run.plan : \E i \in Named(run, run.plan[k].id) :
            /\ run.tasks[i].spec = run.plan[k]
            /\ run.tasks[i].state \in Successful
            /\ run.plan[k].contract \subseteq run.tasks[i].child.contract

\* A Task that was delivered keeps its specification, its result and its usage:
\* no later event touches it (docs/multi-task-workflow-plan.md:576).
CompletedTasksStay ==
    [][\A i \in DOMAIN run.tasks :
          run.tasks[i].state \in Successful =>
              i \in DOMAIN run'.tasks /\ run'.tasks[i] = run.tasks[i]]_vars

=============================================================================
