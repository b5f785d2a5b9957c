# TLA+ models of pb's controllers

pb runs coding agents: a daemon takes a user's request, drives a language model through a delivery workflow (plan, critique,
implementation, checks, review, commit) in a git repository, keeps every session on disk so that it survives a restart, and gives
each session a container of its own. The models cover the controllers, which decide what an agent may do and when its
work counts as delivered. They are translated from the Rust source in `src/src`; paths below are relative to `src/src` unless they start
with `docs/`, and `PROJECT.json` maps every definition to the lines it stands for.

## 1. Inventory

### The parts, what they keep, and what makes them correct

| Part | Source | State | Operations | Hard behaviour | Correct when |
|---|---|---|---|---|---|
| Workflow reducer | `workflow/engine.rs`, `persistence.rs` | one `WorkflowRun`: stage, paused stage, plan and its review, delivery evidence, counters, outcome, cause | `reduce` on 15 kinds of event; `Checkpoint::validate` | events in any order; evidence that outlives the content it is about; budgets over replans, repairs and resumes | a delivered run was planned, reviewed and checked as one piece; budgets only fall; every state can be saved |
| Work units | `workflow/work_units.rs` | a ledger per plan, progress credits | `from_plan`, `reconcile`, `credit_progress` | diagnostics of an older tree | a unit is credited once, for evidence of the current tree |
| Delivery driver | `agent_core.rs` (`run_delivery_workflow`) | the run, the position in the stage, rejections, message window, Git control snapshot | enter a stage, step the model, submit, check, seal, commit, resume | everything outside it moves between two of its steps: messages, cancellation, edits, commits, a stop of the daemon | commits hold the reviewed content; a commit is never lost or taken twice; charges are durable first; a run ends |
| Managed commit | `handoff.rs` | the repository | refuse, reuse, `git add`, `git commit`, read back | another program writes in between | the commit names the tree it was made from |
| Session coordinator | `web.rs` | sessions with status, queue of messages, workflow checkpoint, archive, turns | dispatch, finish, message, cancel, resume, restart, checkpoint, stop | staged commits rebased over events, stops between two commits | what a client was told survives; a turn is run once |
| Session store and events | `session_store.rs`, `events.rs`, `web.rs` | the saved session, its event history, the broadcast channel and what each terminal has seen | commit, trim, save, publish, watch, reset, restore | a history trimmed under its readers; a lag, a reset and a new turn at once; references to what was trimmed | a terminal skips nothing that is retained and shows nothing that is not saved; what is saved can be restored |
| Environment supervisor | `session_environment.rs` | lease record on disk, map of leases, operation lock, use counts, container and sidecars | acquire, mark idle, release, terminate, reap, retry, reconcile | decisions made outside the operation lock; partial failure; stops between record and container | nothing exists without its record; a turn keeps its container; nothing unused stays |
| Session worktrees | `session_workspace.rs` | worktree, its record | prepare, remove, force | removal races preparation | dirty work is never removed unasked |
| Goal engine | `goal/engine.rs` | plan of milestones, active workflow, budget, amendment, pause | start, approve, milestone, amend, pause, resume, cancel | amendments over an active workflow, pauses and stops at a milestone's end, exhausted budgets | usage is counted once; a success was delivered; no milestone is repeated or skipped; a goal at work comes to rest |
| Task queue | `task_queue/engine.rs` | ordered tasks, active child, revisions, evaluation | 13 kinds of event | late child results, revisions and pauses in any order | it passes its own validation; each task starts from the repository the last one left; usage is counted once; delivered tasks stay |
| Check ledger | `checks.rs` | evidence per check: what it read, what it wrote, whether it passed | run in dependency order, skip, reuse; hand over to the next stage, turn or restart | an input or an output of a dependency changed, here or before a restart; a failure in the middle of a plan | evidence that is taken for current is true; what checks accepted, the review accepts; nothing rests on a failure |
| Cache manager | `cache_manager.rs` | a record per volume: attachments, preparing owner, last use | attach, detach, collect, reconcile, re-attach | counts are memory of leases that fail, stop and are revived; the tick that collects also fails | what is mounted is counted; a lease names known caches; unused caches are collected |
| Model session cache | `inference/flashmoe/session_cache.rs` | cached prefixes on disk | persist, prune, read | read without the lock | a hit is an entry of that prefix |
| Stdio clients | `jsonrpc.rs`, `lsp.rs`, `mcp.rs` | pending requests, a bounded queue | request, answer, deadline | an answer after its deadline | an answer reaches its own request or nobody |

Locks (`state_lock.rs`), containers and images (`container.rs`, `environment*.rs`) appear in the model of the environment supervisor
as what they do to it. The rest (inference kernels, semantic analyses and decoding grammars, context compaction, configuration,
transports and services, qualification harnesses, user interfaces) keeps no state that these controllers rely on; `PROJECT.json`
lists each with the reason it is left out, and every hazard with the line where it bites and the properties that cover it.

### How they interact

```
 client ──message/cancel/resume──▶ coordinator (web.rs) ──dispatch──▶ delivery driver (agent_core.rs)
                                     │    ▲                              │  events        │ managed commit
                                     │    └──── checkpoint, finish ──────┘     ▼          ▼
                            session store (disk)                     workflow reducer   git repository ◀── other programs
                                     │
                 cleanup tick, session commits ──▶ environment supervisor ──▶ container, sidecar, worktree
 Goal engine, task queue ── one delivery workflow after the other ──▶ coordinator
```

The check ledger is the driver's and is handed on by the coordinator; caches are attached by turns, held by leases and collected by the cleanup tick; terminals watch what the coordinator publishes.
The driver owns the run while it works; the coordinator only sees it through checkpoints, a message window and a cancellation flag.
The repository is shared with the user and with anything else on the machine. The supervisor serves turns, the daemon's
cleanup tick and session commits at the same time.

## 2. Modules

| Module | Models | Theorems |
|---|---|---|
| `WorkflowReducer` | the pure reducer of a delivery: a predicate and a function per event, budgets, checkpoint validation | |
| `Workflow` | a run under any caller | `WorkflowProofs` |
| `DeliveryContract` | what an owner may rely on of a delivery, whoever the owner is | |
| `Delivery` | the driver, the session it checkpoints to, the repository, and what happens outside; implements `DeliveryContract` | `DeliveryProofs` |
| `GoalEngine` | the pure functions of a goal: milestones, budget, criteria, amendments | `GoalProofs` |
| `Goal` | a session that pursues a goal under its handlers; each milestone implements `DeliveryContract` | `GoalProofs` |
| `TaskEngine` | the pure reducer of a multi-Task run | `TaskProofs` |
| `TaskQueue` | a multi-Task run under any order of events | `TaskProofs` |
| `SessionHistory` | the commit of a session, its publication, the terminals, the restore | `HistoryProofs` |
| `CheckLedger` | the evidence of checks, and where it is handed on | `CheckLedgerProofs` |
| `CheckPlan` | the depth-first order of a plan, for TLC | |
| `SessionLease` | the environment lease of one session | `SessionLeaseProofs` |
| `CacheManager` | the caches that the leases of several sessions share | `CacheProofs` |
| `MC...` | instances for TLC | |

### WorkflowReducer and Workflow

A run is a record with the fields of `WorkflowRun` that its decisions read. For an event `E` of `WorkflowEvent` there is `CanE(run, ...)`,
the conjunction of the guards of its arm of `reduce()` and the helpers it calls, and `E(run, ...)`, the run it returns, including the
order of limits in `WorkflowCounters::record`. A rejected event returns an error and leaves the caller's run alone, so rejection is no step.
Texts, digests and time stamps are gone: a plan is an id with the challenges it resolves, a critique its set of blocking challenges,
an implementation a plan, a content fingerprint and a claim of no change, a review a content and a verdict. `ValidCheckpoint` is
`WorkflowCheckpoint::validate`.

`Workflow` sends every event in every order its guards allow, with any content and any evidence. Nothing is assumed of the caller; what holds here
is the reducer's own merit. `checked` is a history variable: the content of the last passing batch of checks.

### DeliveryContract and Delivery

`DeliveryContract` is the abstract specification: a delivery is begun once, charged for more and more while it works, may be blocked and go on
where it was, and ends once, delivered or stopped. What an owner sees of it is what is stored. `Renewable` says whether the owner may give up a blocked delivery, or begin again after
the end.

`Delivery` extends the reducer with its real caller. Its four variables:

* `session`: status, the message window and queue, the cancellation flag, the stored workflow (`saved`: run, baseline, Git control) and how
  the turn's last ended workflow ended (`archived`);
* `driver`: a position in `run_delivery_workflow` (`pc`) and the locals that survive from one step to another;
* `repo`: working content, index and log of commits, each with its author and, for pb's commits, the content its review passed;
* `env`: how often each outside event has happened.

Each action is the code between two points at which something else can be seen to happen: a checkpoint, a model call, a run of checks, a
Git command. So `git add` (`StageTaskPaths`), `git commit` (`GitCommitSucceeds`), the reading back (`CommitLanded`) and the record of the commit are
four steps and the daemon may stop, and another program may write, between any two. A stage of the
model is a loop of `StageStep` (charge, checkpoint), `StageWorks` (the model acts on the tree) and `StageSubmits`; what it submits is any
artifact. The boundary after a stage (`Boundary*`) compares content and Git control, as the code does, before the
submission counts. Outside the driver are `SendMessage`, `CancelSession`, `ResumeSession`, `RestartDelivery`, `OutsideEdit`, `OutsideCommit`
and `DaemonRestart`. An outside write while pb is between its last comparison and the end of the commit sets `raced` on the commit: the code
has that window (see section 6), and the properties say what holds outside it.

`KeepsItsContract` maps the stored workflow of `Delivery` to `DeliveryContract`. `Renewable` holds where a restart may give up what was blocked (`MaxRestarts > 0`) or a stop hide the end from its owner
(`MaxCrashes > 0`, `Delivery_again.cfg`); without either a delivery ends once and for all.

### GoalEngine and Goal

`GoalEngine` has the operations of `GoalRun` that change it as functions of a record, `Valid` is `GoalCheckpoint::validate`. `Goal` runs them under every handler of
`web.rs` that touches a goal (approve, pause, resume, amend, discard, accept, cancel, the resume of the session instead of its goal), with the
driver that delivers one milestone after the other: `Claim` takes a queued session, the driver steps report what a child's workflow
may report (progress, a block, a delivery, an end), `EndStep` is the end of the runner's task. The request template of a session is state, because a resume
reads it. A handler whose result is refused leaves the session alone. `MilestonesAreDeliveries` states that every milestone implements `DeliveryContract` with
`Renewable = FALSE`: so the composition of `Goal` with `Delivery` goes through the contract.

### TaskEngine and TaskQueue

Each `MultiTaskEvent` is a predicate and a function, as in the workflow reducer; `TaskQueue` sends them in every order. A repository is a value with
a HEAD (`HeadOf`), so that uncommitted edits are told from commits. `history` holds where the run began, the order of deliveries and, per child, the most it was heard to have used. `Valid` is
`MultiTaskRun::validate`; it is not a guard but the property `QueueIsAlwaysValid`.

### SessionHistory

An event is its sequence, the earlier events it refers to, and whether a run starts with it. A commit appends, trims (`TrimEventHistory`), saves and publishes in
one step, because it holds the sessions lock throughout; `PublishFinished` is apart from it, because it comes after the lock and the environment's cleanup (`due`). A terminal has what it has shown, its place in the
bounded channel, and the steps of `stream_session`: a snapshot, an event, a lag, a reset, `Finished`. `DaemonRestart` accepts a saved history only if it is
closed under its references, as `session_from_persisted` does.

### CheckLedger and CheckPlan

The world is what each check reads and what it wrote; a command's verdict is an operator of both and of its dependencies' outputs. `RunChecks` orders a plan; `SkipCheck`, `ReuseCheck`, `BeginCheck` and `FinishCheck` are the
arms of `run_plan`, and whoever edits, edits between any two. There are several ledgers, as in the code: the runtimes' of a delivery and of its stage (`ledgers`), the one the workflow was given (`accepted`), the
request's (`prior`), and the check results in the session's events (`history`); `StageBegins`, `FollowUp`, `DeliveryResumes`, `BeginsAfresh`, `HistoryTrimmed` and `DaemonStop` hand them on or lose them.
The order of a plan is a constant operator `Ordered` that is assumed to be topological. `CheckPlan` has the code's depth-first search, which TLC runs with and
whose result the assumption then checks; it is a recursive operator, so the proofs do not see it.

### SessionLease

One session, its turns, its `SessionEnvironmentLease` objects, the record on disk, the container, one sidecar and the worktree. Operations take
the session's operation lock (`op`), and each step an operation takes under it (record, create, remove, forget) is an action, because the daemon may
stop or a step may fail in between. The decisions that come before the lock are actions of their own: the use count that a release
lowers (`TurnEnds`, then `MarkIdle` or `TerminateBegins`), the list of expired leases (`ReaperLists`), the session commit that decides to
terminate (`UserTerminates`). `memory` keeps the record inside each lease object apart from `record`: `transition` writes the object's
copy over whatever is on disk. `env.races` is history: a turn acquired the lease while such a decision was pending.
With `Overlap = FALSE` the turns of the session follow each other, as they do in the daemon; `TRUE` is what the supervisor's use counts and
tests provide for.

### CacheManager

Several sessions, their lease records and attachments, the durable record of every volume, the volumes and containers of the runtime, and the daemon's cleanup
tick. `Prepare`, `EnsureVolume` and `Attach` are the three writes of `CacheManager::acquire` under its lock; attachments are dropped one by one (`DropFresh`, `ClearAttachments`); the collector removes volume and
record in two steps. A start of the daemon forgets counts (`BootForgetsAttachments`), then takes leases up or cleans them up one by one; an error starts it over. Operations on one session
follow one another here (their races are `SessionLease`'s); sessions, the tick and stops interleave. The sidecar's index volume is attached while a turn
uses its lease (`StartSidecar`, `RegisterIndex`); for its other caches it mounts the environment's own volumes (`Served`), which the lease counts
already. A removal that fails may have removed any of the containers (`SomeRemoved`), since shutdown and cleanup go on after the first error. Abstractions: thirty days outlast any operation, so a cache ages only while none is under way; the collector's order is any order; sizes are
gone, because nothing but a test calls `update_size_estimate`; the sidecar's volumes, an index and the environment's own, are those of the first lock of the instance; one daemon at a time works on a state directory (a second one
would reconcile, and so set the counts of the first to zero, before it finds the port taken, `web.rs:1331`).

## 3. What the runs check

Sizes are distinct states.

| Run | Instance | What it shows |
|---|---|---|
| `workflow_events` | two plans (one resolves the critic's challenge), two contents, one check, one replan, one repair, two model calls; 3.6 million | evidence, approval, checkpoints and budgets under every order of events |
| `delivery_repository` | three contents, an outside edit, an outside commit, a daemon stop, a fresh restart; 2.4 million | commits hold what their review passed; a Ready run names its own commit |
| `delivery_messages` | two messages, a cancellation, a daemon stop, an acceptance contract; 3.2 million | no acknowledged message is left behind by a success; a commit is remembered; steps are charged first; the stored workflow implements `DeliveryContract` |
| `delivery_ends` | a replan, a message, liveness; 0.6 million | a dispatched session stops running |
| `lease_turns` | two turns that overlap, three lease objects, the tick, a session commit, a failure, a daemon stop; 3.1 million | the sidecar is recorded, an unowned record is retried, a turn keeps its lease unless a decision about it was pending |
| `lease_cleanup` | one turn at a time, a failure, a lock timeout, a lost container, a daemon stop, liveness; 0.8 million | no container without its record; an unused container is removed in the end |
| `goal_budget` | two criteria, a wide and a narrow budget, an amendment, two mishaps; 3.0 million | usage is counted once, a success was delivered, one milestone at a time, delivered ones stay, a pause comes first, every milestone implements `DeliveryContract` |
| `goal_rest` | the same without the amendment, with a mishap and a resume of the session, liveness; 189 thousand | a goal that was set to work ends or waits for somebody |
| `task_events` | two Tasks, with and without a dependency, two attempts, one revision, two commits; 0.9 million | the queue passes its validation, deliveries chain, usage is counted once, a Ready run meets its plan, delivered Tasks stay |
| `history_watch` | a history of three, six events, a channel of two, one terminal, a daemon stop, liveness; 158 thousand | the terminal shows the history, what is saved can be restored, a watch ends |
| `checks_reuse` | a chain and a join of three checks, two plans, an edit, two turns or stops; 5.7 million | evidence is true, a passed plan stays current until somebody writes, nothing rests on a failure |
| `caches_volumes` | two sessions, two locks, three volumes, two turns, an edit, a failure, a daemon stop, liveness; 0.7 million | mounts are counted, leased caches are known, unused caches are collected |

**Why the bounds are enough.** The reducers have no loop that depends on a size: two plans and two contents tell the plan or content in force
from one before it, which is all their guards compare, and one cycle of each kind reaches the limit and the step past it. One check is either absent, passed or
unsuccessful, and a batch is any set of them. In `Delivery` three contents are the base, what the agent wrote, and what somebody else wrote;
one outside event of each kind at every point covers each window between a comparison and its use, and two windows in a row are covered by the
edit and the commit together. Steps (two per stage) allow a step that works and one that submits, a rejection and the exhaustion of
the stage. Two rejections instead of three keep the threshold at a distance from one. Two milestones have a first, a next and a last; the narrow budget is reached inside the second. Two Tasks make a dependency against plan
order, a second attempt and a repository between them. A history of three keeps one event that refers, one that is referred to and one in between, and six events trim it twice; a channel of two lags. Three checks are the
least with a transitive dependency, in a chain, and with two dependencies, in a join. Two sessions share each volume or use one each. Three lease objects serve two turns and the supervisor's entry; an unreferenced
object is used again. Every bound is a constant whose name begins with `Max`. Contents, turns and lease objects are symmetric in safety runs; the runs with
liveness use no symmetry. Runs that really may stop (an ended session, a daemon nobody calls) say so with `CHECK_DEADLOCK FALSE`.
`TypeOK` is stated in each module; it is proved for `Workflow`, `Delivery`, `SessionLease`, `CheckLedger`, `TaskQueue`, `SessionHistory`, `CacheManager` and, while nobody resumes
the session instead of its goal, `Goal`.

**Fairness.** `Delivery!FairSpec` has weak fairness of `Dispatch` and `DriverStep`: the daemon polls its queue and its driver is one task that runs whenever it
can; a model call, a check and a Git command are assumed to return. `Goal!FairSpec` has the same of `Claim`, the driver's step and the end of its task together. `SessionHistory!FairSpec` has weak fairness of
`PublishFinished` and of each terminal's stream, tasks of the daemon that wait for nobody. `SessionLease!FairSpec` has weak fairness of the cleanup tick (a periodic task of the daemon), of a termination once it has begun, of the
daemon's reconciliation at its start, and of the passing of time. `CacheManager!FairSpec` has it of the tick, of the start of a daemon that stopped, and of an operation of a session that has begun. Users, turns and other programs owe
nothing, so `UnusedContainerIsRemoved` is about containers no turn comes back to, and `UnusedCachesAreCollected` about caches nobody attaches.

## 4. What is proved

`WorkflowProofs` proves about `Workflow`, for all plans, contents, checks, limits and usages (assumptions: the constants have their types and `None` is
no value):

* `TypeCorrect`: each function of the reducer has a lemma on its type, then one step per event.
* `EvidenceCorrect`: `[]EvidenceInv`. That a Ready run was reviewed and checked is not inductive: `CommitCompleted` sees only
  the stage it leaves. The invariant adds what every stage may rely on (`StagesHaveTheirEvidence`: an implementation of the plan from Checking on, passed
  checks of the fingerprint from CodeReview on, a passing review of it in Committing), for the paused stage of a blocked run as well, because
  `Resumed` returns to it. `DeliveryCorrect`, `ApprovalCorrect` and `CheckpointCorrect` follow from it.
* `BudgetsCorrect` and `LimitsCorrect`: `StepSpends` says that every event but `UsageRecorded` leaves steps and totals alone and adds at most one cycle, where
  the limit allows; `RecordUsageSpends` says what a charge adds, and that a run over a limit has failed.
* `EndsCorrect`: every event but a resume needs a stage that still works; a resume goes back to the paused stage with plan and evidence untouched.

`CheckLedgerProofs` proves about `CheckLedger`, for any checks, any acyclic graphs, any contents and verdicts, and any number of edits, plans and turns
(assumptions: the graphs are acyclic, `GraphsAreAcyclic`; the order of a plan is topological, `OrderIsTopological`; a verdict is a Boolean; the initial trees
and the bounds have their types; `None` is no content, check or evidence):

* `CurrentEvidenceHolds`: evidence that `check_evidence_is_current` accepts is true of the tree as it is. An entry that passed says what it found then; the invariant says that a known fingerprint
  determines the verdict (`EvidenceInv`, for every ledger), unless somebody wrote while its plan ran.
* `PassedPlansAreCurrent`: what a plan passed stays current until somebody writes. It needs what is known in the middle of a plan (`PlanInv`: the order, what is done and what has failed) and of the results so far
  (`ResultInv`, `PassedInv`).
* `NothingRestsOnFailure`: a check that passed or ran has no dependency that failed or was skipped, by the topological order, transitively.
* `CheckTypesCorrect`. `Inv`, the conjunction of these parts, is the inductive invariant; every action has a lemma that it preserves it, and TLC checked it on the instance of `checks_reuse` before the proof.

`DeliveryProofs` proves about `Delivery`, for any plans, contents, artifacts and checks, any limits of steps and cycles, any room in the queue and any number of messages, cancellations, edits, commits,
stops and restarts (assumptions: commits go by their place in the history, `CommitsArePlaces`; the bounds are numbers and a stage has a step, `DriverLimits`, `LimitsAreNaturals`; `None` is no value, `NoneIsAbsent`,
`NoneIsNoRecord`, `NoneIsNoDelivery`). Every action has a lemma that it preserves the inductive invariant `DeliveryInv`, whose parts say at each position of the driver what the next step relies on:

* what a run has (`Sound`): an outcome exactly where it may have one, a plan once there is one, a fingerprint from Checking on, and in Committing a review of that fingerprint, also for the stage a blocked run returns to. Each function of the reducer has a
  lemma that it keeps a run sound and its steps charged (`GoesOn`);
* where the driver may be with it (`RunFitsPosition`), that what is stored is sound (`StoredIsSound`), and that from the head of the loop to the end of a commit it is what the driver has (`IsStored`): a stop there loses nothing but the position;
* inside the commit step the tree, then the index, then HEAD is the reviewed content, unless `raced` (`CommitIsReviewed`); the HEAD that the driver or the stored workflow expects is one it started from or made (`Anchored`), and a commit of pb's at HEAD is known
  to it, or was made in this very step (`HeadIsKnown`);
* a message adds a step to the stage that hears it, so budget and queue are bounded together (`MessagesAreCounted`).

TLC checked `DeliveryInv` on the instances of the three runs (2.4, 3.2 and 0.6 million states) before the proof. From it follow `TypeCorrect`, `ReviewedContentIsCommitted`, `TheCommitIsTheRuns`, `NoCommitIsForgotten`, `ChargedBeforeActing` and
`EveryMessageIsHeard`; `MessagesAreNotLost` is an action property: no step but one of an authoring stage shortens the queue.

* `TheTurnIsADelivery`: `Spec => KeepsItsContract`, the refinement of `DeliveryContract`. What the contract sees is the stored run, and the driver may be ahead of it, so the proof needs `ContractInv`: what is stored is never charged more than the driver's run, and an
  end or a block, once stored, is the driver's own (`RunIsStored`); an ended turn begins again only where a daemon may stop (`EndIsFinal`). The lemma of each driver action says what it does to what is stored (`RunStep`: nothing, or it stores a run that has taken no
  step back and did not go on after its end), and `RunStepMoves` and `TakingUpMoves` turn that into a step of the contract or a stutter. That the charge grows is `StepsGrow`: no stage's count goes back, so neither does their sum.

`SessionLeaseProofs` proves about `SessionLease`, for any number of turns and lease objects, overlapping or not, retained or not, and
any bounds on failures, timeouts, losses, terminations and stops (assumptions `LeaseAssumption` and `NothingIsNone`):

* `ContainerAlwaysRecorded`: no container without its record. The record is written by lease objects, by acquires and by cleanups, so `ContainerIsRecorded`
  needs: whoever is inside an operation holds the lock (`LockIsHeld`), the lease being shut down is no longer the session's
  (`ShutdownOwnsLease`), nothing is created between the removal of the container and of its record (`RecordOutlivesContainer`), and a
  turn that registers a sidecar has a lease whose record exists (`HoldersHaveLeases`). `LeaseInv` is their conjunction; TLC checked it on the instances of `lease_turns` and
  `lease_cleanup` before the proof, and every action has a lemma that it preserves it.
* `LeaseTypeCorrect`: the type invariant, with the claim that a supervised lease is in use or idle.
* `ServiceAlwaysRecorded`, `UnownedRecordAlwaysRetried` and `LeaseAlwaysKept` speak of executions in which no turn acquired a lease whose removal was pending and no container was removed from outside;
  each says so in its own premise, because section 6 shows that the rest is false. They need a second invariant, `CalmInv`, of exactly those states: an acquire, a release and a removal exclude each other
  (`TurnsTakeTurns`), the supervised lease object and the record on disk agree (`LeaseIsItsRecord`), a record without an owner is Failed (`OrphansAreFailed`), nothing is being removed under a
  turn that uses it (`UsersAreUndisturbed`), and a sidecar is known to the record, to the object, or to the operation in between (`ServicesAreListed`, `OperationsKnowServices`). TLC checked it on instances with and without
  overlap and retention (up to 7.7 million states) before the proof.

`HistoryProofs` proves about `SessionHistory`, for any bound on the history and any number of events, terminals and stops (assumption `HistoryHoldsTwo`):

* `StoredHistoryClosed`: what is saved can be restored. A trim keeps the least closed set around the newest events, so it keeps the last event and everything that what it keeps refers to (`TrimIsClosed`); a new event refers to what is there (`AppendedIsClosed`).
  The invariant `HistoryInv` adds that the daemon's own history is closed as well, that the events a run will supersede are in it, and that only an active run has any. It is about runs that do not outlast their history (`LongRuns = FALSE`); the others
  break it (section 6).
* `WatchesShowTheHistory`: what a terminal has shown contains everything retained up to its place. The last event that is saved bounds what a commit has published, what still lies in a terminal's channel, and the terminal's place; and the daemon's
  history ends where the saved one does (`WatchInv`), so that a lag or a reset, which read one of the two, skip nothing. TLC checked it on the instance of `history_watch`.

`TaskProofs` proves about `TaskQueue`, for any plans, repositories, usages, children and any number of attempts and revisions (assumptions: plans are valid and their dependencies too, `PlansAreValid`; coordination is
limited, `CoordinationIsBounded`; a run begins at a repository, `BeganAreRepositories`; `NoneIsAbsent`, `BoundsAreNaturals`):

* `QueueStaysValid`, `DeliveriesAreChained`, `ReadyRunMetItsPlan` and `QueueIsTyped`. The inductive invariant strengthens validity to what each stage may rely on (`Good`), for the stage a paused or blocked run returns to as well,
  because validation does not look at it; it adds that deliveries name Tasks there are (`DeliveredAreTasks`) and that what is under way began with the repository the queue expects (`IsKept`). TLC checked it on the instance of `task_events` (865 thousand states).
* `QueueCountsUsageOnce`: the counter is a sum over all children of the most that each reported. A report replaces what was recorded of its child, so the proof is about how a sum changes when one of its terms does; the first part of `TaskProofs` proves that
  from the definition of the fold, by the least set on which it fails (`HeardMarks` ties the record in the queue to the history).
* `DeliveredTasksStay`: the action property, one lemma per event.

`GoalProofs` proves about `Goal`, for any plans, budgets, children and bounds (assumptions: milestones of a plan have distinct names, `PlansAreDuplicateFree`; budgets are numbers of each kind, `BudgetsAreBudgets`; a child may report something, `ChildLimitIsPositive`;
`None` is no value of the model, `NoneIsAbsent`, `NoneRuns`, `NoneIsNoDelivery`; `BoundsAreNaturals`). All are about executions in which nobody resumes the session instead of its goal (`[](env.resumes = 0)`), because `Goal_resumed.cfg` shows that such
a resume breaks them:

* `GoalInvariant`: `GoalInv`, the inductive invariant. Exactly the active milestone runs and what has not begun has no workflow (`Sound`), each stage has what it needs and can only return where that still holds (`Placed`), the active milestone and its
  workflow were begun inside the budget (`InBudget`), the evidence of a criterion comes from a workflow that delivered (`EvidenceIn`), a session that is queued or runs has the active milestone's workflow and a limit its budget leaves (`SessionServesTheGoal`), and so has the driver's run (`RunServesTheGoal`).
  TLC checked it on the instance of `goal_budget` (3.0 million states).
* `UsageAlwaysCountedOnce`, `SuccessAlwaysDelivered`, `AlwaysOneMilestone`, `WorkAlwaysInBudget` follow from it; `DeliveredMilestonesStay` and `PauseAlwaysFirst` are action properties with a lemma per handler.
* `MilestonesAlwaysDeliveries`: each milestone implements `DeliveryContract`. The delivery of a milestone is a function of the stored goal and the history of its evidence; `EveryStepMoves` says of each handler and of the milestone at any place that its delivery stays, begins,
  is charged, is blocked, continues or ends as the contract allows. The property TLC checks names the first three places, the lemma is about all.

`CacheProofs` proves about `CacheManager`, for any number of sessions, locks, volumes, turns, failures and stops (assumptions: sessions are finitely many, each lock names its volumes, an index that is none of its own and which of its own a sidecar mounts, `CacheAssumption`;
`None` is no value, `NoneIsNoRecord`). `IInv` is the inductive invariant; every action has a lemma that it preserves it, and TLC checked it on the instance of `caches_volumes` (0.7 million states) before the proof.

* `MountsStayCounted`: the count of a record is at least the number of leases that have its volume mounted. What is inductive is about holders instead: the count is at least the sessions whose lease holds the cache and those whose turn
  holds it before its lease does (`CountInv`), as cardinalities, so that attaching, handing over and dropping each move one session. A lease in use or idle holds what its containers can mount (`Keeps`, `Records`), and the collector
  works on records without a holder, under the manager's lock, to the end (`ManagerInv`). A lease that was revived after a shutdown that failed is left out, as in the property, because section 6 shows that it breaks it.
* `LeasedCachesStayKnown`: while a shutdown gives up attachments, and between a stop of the daemon and the reconciliation of the lease, nobody holds the caches that its record names. They are safe because they are young: an attachment that goes makes
  the cache new (`Rests`), and a start attaches again before it collects.
* `TypeCorrect`.

Out of the prover's reach and left to TLC: liveness and everything
that speaks of fairness or of ENABLED; what the recursive search of `CheckPlan` computes, which is the assumption `OrderIsTopological` of the proofs.

## 5. What is not modelled

* Of `Delivery`: later turns of a session, questions to the user, replan proposals
  and advisors other than through what they submit, transcripts (so whether a message a stage has taken is answered), more than one task path, Git
  notes and pushes, failures of the state directory.
* Of `Goal`: planning with the model before the goal starts, the texts of criteria, a resume of the goal while a session that was resumed on its own still runs (a second driver).
* Of `TaskQueue`: what turns a Task into a request, and the dispatch and synchronisation by `web.rs` (3143 to 6389). Three events, `RetryBlockedTask`, `PendingTasksRevised` and
  `CoordinationUsageRecorded`, have no caller outside the engine and its tests; they are modelled because `reduce` accepts them. One counter stands for the ten of `TaskCounters`.
* Of `SessionHistory`: the payload of events and the projections recomputed from them, forks, deletion, the browser's event stream, a save that fails (it changes nothing).
* Of `CheckLedger`: the selection of affected components, file patterns and their digests, the start and protocol of executors. What identifies a command does not cover the content of its environment or
  executor (`command_fingerprint`), so neither does the model's input.
* Of `SessionLease`: leases without a container, deletion of a session with its forced removal of a dirty worktree, networks, errors of the state
  directory. The branch of `TurnEnds` for environments that are not retained is in the module and in the proof; the runs use the daemon's setting.
* Of `CacheManager`: size budgets (never in force, section 6), two runtimes, errors of the state directory, a second daemon.
* The reconciliation of work units, the model's session cache and the stdio clients: planned, section 7. Inference kernels, decoding grammars and semantic analyses (most of the
  source by lines) are numerical or textual algorithms with no protocol state; they are outside the reach of a model checker, and no model is claimed for them.

## 6. Where code and documents disagree

Each configuration below ends in a violation when TLC runs it, and is kept beside the others as the record of a known window or divergence. None is among the runs
of section 3, whose properties say what holds outside of it.

Workflow and delivery:

* `Workflow_cause.cfg`: the reducer's own budget failures (`workflow/engine.rs:285`, 353, 372, 629) leave no cause, and the driver's terminal outcome
  (`agent_core.rs:16161`) reports the missing cause instead of the outcome (`docs/architecture/workflows.md:813`).
* `Workflow_tranche.cfg`: a replan charges a cycle and drops the progress credits of the old ledger, so that the step limit of Implementing grows by
  less than the tranche `docs/architecture/workflows.md:573` grants.
* `Workflow_nochange.cfg`: a mutation keeps the no-change claim made for the content before it (`workflow/engine.rs:531`,
  `docs/architecture/workflows.md:561`).
* `Delivery_baseline.cfg`: a first delivery that is resumed after a stop captures its baseline afresh (`agent_core.rs:13882`) and refuses its own checkpoint, against
  `docs/conversational-delivery-workflow-plan.md:212` ("preserves the exact workflow stage, artifacts, budgets, baseline, and evidence references").
* `Delivery_again.cfg`: `checkpoint_workflow` archives a run that ended and clears the session's workflow (`web.rs:5271`) before the session is completed (5669 to 5870); after a stop in
  between, a resume (3890) delivers the turn again, against the same sentence.
* `Delivery_reviewed.cfg`: an edit between the last comparison (`agent_core.rs:15379`) and `git add` (`handoff.rs:427`) is committed as reviewed.

Goals:

* `Goal_resumed.cfg`: a session whose milestone was blocked or paused can be resumed instead of its goal (`web.rs:3984`); it is queued without the milestone's workflow, a new workflow takes its place
  (`goal/engine.rs:542`) and the usage of the old one is never absorbed, against `docs/architecture/user-contracts.md:401`.
* `Goal_amended.cfg`: an amendment over an active milestone drops the usage of its workflow that was not yet absorbed (`goal/engine.rs:477`), against the same sentence.
* `Goal_discarded.cfg`: an amendment proposed to a goal that awaits its review, and discarded, leaves a paused goal that no resume takes up (`goal/engine.rs:658`).
* `Goal_paused.cfg`: a pause before the plan is approved makes the later approval an error of the engine.
* Seen while modelling, without a configuration: a stop between a milestone's terminal checkpoint and its completion leaves a Ready workflow that the resume refuses, so the goal fails although it was delivered; an amendment that
  carries all its criteria forward cannot be approved; `cancel_session` on a queued goal completes the session and leaves the goal at its milestone.

Tasks (without a configuration): a retry after partial changes can never start its child; a stop while a stage edits files makes the run unresumable until the content is restored; after an error of the runner the queue
stays at RunningTask in a failed session; usage by elapsed time can fail a Task whose child was delivered; after a restart the checkpoint of a Goal Task that awaits its plan's approval is not synchronised
(`web.rs:3143`, `docs/multi-task-workflow-plan.md:571`).

Session history:

* `SessionHistory_lost.cfg`: a run that outlasts its history supersedes an event that was trimmed; the commit saves it and no restore accepts the session
  (`session_store.rs:513`, `agent_core.rs:16159`; `docs/architecture/user-contracts.md:410`).
* `SessionHistory_finish.cfg`: `Finished` of a turn is published after the lock and the cleanup (`web.rs:1027`), and ends the watch of the next one (`docs/architecture/overview.md:32`).

Checks:

* `CheckLedger_component.cfg`: evidence of a check that declares no inputs is reused although its component has changed (`docs/agent-handoff-workspace-plan.md:76`, `docs/architecture/workflows.md:386`).
* The key of an evidence is taken before the command runs (`checks.rs:809`), so an edit under the command that is taken back goes unnoticed; `calm` sets such plans apart in the properties. Two checks that declare the same outputs can never both be current.

Environments and caches:

* `SessionLease_reaped.cfg`: the tick lists an expired lease, a turn acquires it, the tick removes its container
  (`session_environment.rs:1087`, `terminate` at 1103 does not look again; `docs/session-environment-control-plane.md:224`).
* `SessionLease_overlapping.cfg`: a release lowers the use count before it takes the lock (`session_environment.rs:915`); an acquire in between is marked idle
  (test at 2280).
* `SessionLease_recovery.cfg`: the record of a cleanup that failed over a dirty worktree is forgotten by a restart or a
  termination (`docs/architecture/local-privacy.md:330`).
* `CacheManager_age.cfg`: a failed cleanup whose worktree has changes fails `retry_failed_cleanup` at every tick, and the `?` of `web.rs:1343` keeps the tick from the collector, so that "garbage collection enforces age and size
  budgets" (`docs/session-environment-control-plane.md:266`) does not hold; the size budget applies to nothing, as no size is ever recorded.
* `CacheManager_revived.cfg`: a shutdown that failed clears the attachments and keeps the record with its container; the next turn revives the lease (`session_environment.rs:695`) and attaches the
  environment's own caches only, while its sidecar finds its index cache in the record (348) and mounts it uncounted.

## 7. Plan

1. `TaskSession`: the queue under the handlers of `web.rs` (3143 to 6389) with a child delivery or Goal behind `DeliveryContract`; a stop between the child's checkpoint and the queue's record of it.
2. `WorkUnits` (reconciliation of units with changed paths and diagnostics), `JsonRpc` (pending requests, deadlines, late answers), `SessionCache` (files pruned under a lock and read without it).
3. Proofs about the modules of 1 and 2; the refinement of an abstract collector (what is held is never removed) by `CacheManager`, from the same invariant.
