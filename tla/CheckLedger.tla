----------------------------- MODULE CheckLedger -----------------------------
(* The evidence of a workspace's checks (src/src/checks.rs): how a plan of     *)
(* checks is run over a working tree, when the evidence of an earlier run is   *)
(* reused, and what the delivery driver (src/src/agent_core.rs) takes for      *)
(* current.  Whoever edits the tree or an output while a plan is under way is  *)
(* another program.                                                           *)
EXTENDS Naturals, Sequences, FiniteSets

CONSTANTS
    Checks,         \* of the workspace graph
    Graphs,         \* what each check depends on, and which declare inputs and outputs
    Contents,       \* of what a check reads (its command, executor, inputs) or writes
    Trees,          \* what the checks may read to begin with
    None,
    Verdict(_, _),  \* whether a command passes, over its inputs and its dependencies
    Ordered(_, _),  \* stable_topological_checks
    MaxEdits,       \* of the tree and of outputs, by whoever
    MaxPlans,       \* plans that are run
    MaxTurns        \* follow-up turns, resumes, stops of the daemon and trims of its events

Acyclic(depends) == \A s \in SUBSET Checks \ {{}} : \E c \in s : depends[c] \cap s = {}

\* WorkspaceConfigDocument::normalize refuses any other graph.
ASSUME GraphsAreAcyclic ==
    /\ Graphs \subseteq [depends : [Checks -> SUBSET Checks], inputs : SUBSET Checks,
                     outputs : SUBSET Checks]
    /\ \A g \in Graphs : Acyclic(g.depends)

\* A sequence of the checks in s, each once and after all it depends on
IsPlan(p, depends, s) ==
    /\ p \in Seq(Checks)
    /\ {p[i] : i \in DOMAIN p} = s
    /\ \A i \in DOMAIN p : \A j \in DOMAIN p : i # j => p[i] # p[j]
    /\ \A i \in DOMAIN p : \A d \in depends[p[i]] : \E j \in DOMAIN p : j < i /\ p[j] = d

ClosedIn(s, depends) == \A c \in s : depends[c] \subseteq s

ASSUME OrderIsTopological ==
    \A g \in Graphs : \A s \in SUBSET Checks :
        ClosedIn(s, g.depends) => IsPlan(Ordered(g.depends, s), g.depends, s)

ASSUME TreesAreTrees == Trees \subseteq [Checks -> Contents]

ASSUME NoneIsNoContent == None \notin Contents /\ None \notin Checks

ASSUME CheckBoundsAreNaturals == {MaxEdits, MaxPlans, MaxTurns} \subseteq Nat

VARIABLES
    graph,     \* the workspace graph
    tree,      \* what each check reads of the repository
    out,       \* what is on disk of each check's declared outputs
    ledgers,   \* of the delivery's runtime, and of the stage's
    accepted,  \* WorkflowRun::checks: the evidence the workflow was given
    prior,     \* prior_check_evidence of the session's request
    history,   \* the last CheckResult of each check that the session's events hold
    runner,    \* run_plan
    passed,    \* selected_checks of a workflow that is past its checks
    env        \* bounds, and whether anybody else wrote since the last plan began

vars == <<graph, tree, out, ledgers, accepted, prior, history, runner, passed, env>>

-----------------------------------------------------------------------------
Runtimes == {"delivery", "stage"}

Fingerprints == UNION {[s -> Contents \cup {None}] : s \in SUBSET Checks}

\* calm is not part of the evidence: nobody else wrote since its plan began.
CheckEvidence ==
    [input : Contents \cup {None}, deps : Fingerprints, output : Contents \cup {None},
     success : BOOLEAN, calm : BOOLEAN]

ASSUME VerdictIsBoolean ==
    \A input \in Contents : \A deps \in Fingerprints : Verdict(input, deps) \in BOOLEAN

ASSUME NoneIsNoEvidence == None \notin CheckEvidence

Ledgers == [Checks -> CheckEvidence \cup {None}]

EmptyLedger == [c \in Checks |-> None]

NoFingerprints == [d \in {} |-> None]

Idle == [by |-> "delivery", plan |-> <<>>, selected |-> {}, failed |-> {}, check |-> None,
         input |-> None, deps |-> NoFingerprints, before |-> <<>>, running |-> FALSE]

WithDependencies(s) ==
    {c \in Checks : \A t \in SUBSET Checks : s \subseteq t /\ ClosedIn(t, graph.depends) => c \in t}

-----------------------------------------------------------------------------
(* Evidence *)

\* input_fingerprint: of no content where a check declares no inputs
InputFingerprint(c) == IF c \in graph.inputs THEN tree[c] ELSE None

\* Mutant: a dependency is known by what it read, whatever it wrote.
KnownByInput(l, d) == l[d].input

\* What a consumer's evidence records of a dependency
Stands(l, d) == IF l[d].output # None THEN l[d].output ELSE l[d].input

DependencyOutputs(l, c) ==
    [d \in {e \in graph.depends[c] : l[e] # None} |-> Stands(l, d)]

\* CheckEvidenceLedger::current
Matches(l, c) ==
    /\ l[c] # None
    /\ l[c].success
    /\ l[c].input = InputFingerprint(c)
    /\ l[c].deps = DependencyOutputs(l, c)
    /\ l[c].output = out[c]

\* check_evidence_is_current, which asks the same of every dependency first
IsCurrent(l, c) == Matches(l, c) /\ \A d \in WithDependencies({c}) : Matches(l, d)

\* What the command of a check finds of its dependencies
Found(c) == [d \in graph.depends[c] |-> IF d \in graph.outputs THEN out[d] ELSE tree[d]]

-----------------------------------------------------------------------------
Init ==
    /\ graph \in Graphs
    /\ tree \in Trees
    /\ out = EmptyLedger
    /\ ledgers = [r \in Runtimes |-> EmptyLedger]
    /\ accepted = EmptyLedger
    /\ prior = EmptyLedger
    /\ history = EmptyLedger
    /\ runner = Idle
    /\ passed = {}
    /\ env = [edits |-> 0, plans |-> 0, turns |-> 0, calm |-> TRUE]

ledger == ledgers[runner.by]

Planned(by, s) ==
    [by |-> by, plan |-> Ordered(graph.depends, s), selected |-> s, failed |-> {}, check |-> None,
     input |-> None, deps |-> NoFingerprints, before |-> tree, running |-> TRUE]

\* run_plan of the selected checks and their dependencies: plan_checks_with_required
\* in the driver, run_named of one check in a stage
Runs(by, wanted) ==
    /\ ~runner.running /\ env.plans < MaxPlans
    /\ runner' = Planned(by, WithDependencies(wanted))
    /\ passed' = {}
    /\ env' = [env EXCEPT !.plans = @ + 1, !.calm = TRUE]
    /\ UNCHANGED <<graph, tree, out, ledgers, accepted, prior, history>>

RunChecks == \E wanted \in SUBSET Checks : Runs("delivery", wanted)

RunNamed == \E c \in Checks : Runs("stage", {c})

\* The check that is next in the plan
IsNext(c) == runner.running /\ runner.check = None /\ runner.plan # <<>> /\ c = Head(runner.plan)

FailedDependencies(c) == graph.depends[c] \cap runner.failed

\* Mutant: a skipped check does not count as failed.
SkipsOnly(c) == runner' = [runner EXCEPT !.plan = Tail(@)]

Skips(c) == runner' = [runner EXCEPT !.plan = Tail(@), !.failed = @ \cup {c}]

SkipCheck ==
    \E c \in Checks :
        /\ IsNext(c) /\ FailedDependencies(c) # {}
        /\ Skips(c)
        /\ UNCHANGED <<graph, tree, out, ledgers, accepted, prior, history, passed, env>>

\* A reused result is an event like any other.
ReuseCheck ==
    \E c \in Checks :
        /\ IsNext(c) /\ FailedDependencies(c) = {} /\ Matches(ledger, c)
        /\ runner' = [runner EXCEPT !.plan = Tail(@)]
        /\ history' = [history EXCEPT ![c] = ledger[c]]
        /\ UNCHANGED <<graph, tree, out, ledgers, accepted, prior, passed, env>>

\* The key of the evidence is taken before the command runs.
BeginCheck ==
    \E c \in Checks :
        /\ IsNext(c) /\ FailedDependencies(c) = {} /\ ~Matches(ledger, c)
        /\ runner' = [runner EXCEPT !.plan = Tail(@), !.check = c, !.input = InputFingerprint(c),
                                    !.deps = DependencyOutputs(ledger, c)]
        /\ UNCHANGED <<graph, tree, out, ledgers, accepted, prior, history, passed, env>>

\* What a command leaves of the outputs its check declares
Produces(c) == IF c \in graph.outputs THEN Contents \cup {None} ELSE {None}

\* What a command says, over what it finds; while others write, anything
Says(c) == IF env.calm THEN {Verdict(tree[c], Found(c))} ELSE BOOLEAN

\* Mutant: the outputs are looked at before the command runs.
EvidenceBefore(c, o, success) ==
    [input |-> runner.input, deps |-> runner.deps, output |-> out[c],
     success |-> success, calm |-> env.calm]

Evidence(c, o, success) ==
    [input |-> runner.input, deps |-> runner.deps, output |-> o,
     success |-> success, calm |-> env.calm]

\* The command ends, or times out, and its result is recorded and emitted.
FinishCheck ==
    /\ runner.running /\ runner.check # None
    /\ \E o \in Produces(runner.check), says \in Says(runner.check), timed_out \in BOOLEAN :
           LET c == runner.check
               success == says /\ ~timed_out /\ (c \in graph.outputs => o # None)
               evidence == Evidence(c, o, success)
           IN  /\ out' = [out EXCEPT ![c] = o]
               /\ ledgers' = [ledgers EXCEPT ![runner.by][c] = evidence]
               /\ history' = [history EXCEPT ![c] = evidence]
               /\ runner' = [runner EXCEPT !.check = None, !.input = None, !.deps = NoFingerprints,
                                !.failed = IF success THEN @ ELSE @ \cup {c}]
    /\ UNCHANGED <<graph, tree, accepted, prior, passed, env>>

\* A command that is cut off leaves anything of its outputs.
CommandIsCutOff ==
    IF runner.check = None THEN UNCHANGED out
    ELSE \E o \in Produces(runner.check) : out' = [out EXCEPT ![runner.check] = o]

\* The executor cannot be started, or cannot run the command: the plan is given up.
ExecutorFails ==
    /\ runner.running /\ runner.check # None
    /\ CommandIsCutOff
    /\ runner' = Idle
    /\ UNCHANGED <<graph, tree, ledgers, accepted, prior, history, passed, env>>

\* run_delivery_checks after its plan: over a changed tree the workflow fails, and an
\* intervention or a changed Git control keep the evidence from it; otherwise it is
\* given the evidence.  A stage's run_named just returns.
PlanEnds ==
    /\ runner.running /\ runner.check = None /\ runner.plan = <<>>
    /\ \/ /\ runner.by = "delivery" /\ runner.before = tree
          /\ accepted' = ledgers["delivery"]
          /\ passed' = IF runner.failed = {} THEN runner.selected ELSE {}
       \/ UNCHANGED <<accepted, passed>>
    /\ runner' = Idle
    /\ UNCHANGED <<graph, tree, out, ledgers, prior, history, env>>

\* WorkflowRun::apply of a plan, a replan, an intervention, an implementation or a
\* mutation: what was checked before does not count.
ChecksAreCleared ==
    /\ ~runner.running /\ accepted # EmptyLedger
    /\ accepted' = EmptyLedger
    /\ passed' = {}
    /\ UNCHANGED <<graph, tree, out, ledgers, prior, history, runner, env>>

\* run_delivery_workflow starts a stage: its runtime begins with the workflow's evidence.
StageBegins ==
    /\ ~runner.running
    /\ ledgers' = [ledgers EXCEPT !["stage"] = accepted]
    /\ UNCHANGED <<graph, tree, out, accepted, prior, history, runner, passed, env>>

TurnsGoOn ==
    /\ env.turns < MaxTurns
    /\ env' = [env EXCEPT !.turns = @ + 1]

\* continue_session: the next turn begins with the evidence of the session's events.
FollowUp ==
    /\ TurnsGoOn
    /\ ~runner.running
    /\ prior' = history
    /\ accepted' = EmptyLedger
    /\ ledgers' = [ledgers EXCEPT !["delivery"] = history]
    /\ passed' = {}
    /\ UNCHANGED <<graph, tree, out, history, runner>>

\* A paused or blocked delivery is run again: its runtime begins afresh.
DeliveryResumes ==
    /\ TurnsGoOn
    /\ ~runner.running
    /\ ledgers' = [ledgers EXCEPT !["delivery"] = prior]
    /\ UNCHANGED <<graph, tree, out, accepted, prior, history, runner, passed>>

\* A blocked delivery is restarted, or a Goal or Task takes the session: no evidence
\* of earlier turns goes with the request.
BeginsAfresh ==
    /\ TurnsGoOn
    /\ ~runner.running
    /\ prior' = EmptyLedger
    /\ accepted' = EmptyLedger
    /\ ledgers' = [ledgers EXCEPT !["delivery"] = EmptyLedger]
    /\ passed' = {}
    /\ UNCHANGED <<graph, tree, out, history, runner>>

\* A restored session has its request, its workflow and its events; a command may
\* have been under way.
DaemonStop ==
    /\ TurnsGoOn
    /\ ledgers' = [r \in Runtimes |-> IF r = "delivery" THEN prior ELSE EmptyLedger]
    /\ runner' = Idle
    /\ CommandIsCutOff
    /\ UNCHANGED <<graph, tree, accepted, prior, history, passed>>

\* The last result of a check is trimmed from the session's history.
HistoryTrimmed ==
    \E c \in Checks :
        /\ TurnsGoOn /\ history[c] # None
        /\ history' = [history EXCEPT ![c] = None]
        /\ UNCHANGED <<graph, tree, out, ledgers, accepted, prior, runner, passed>>

\* A stage, a user or another program changes what checks read.
Edit ==
    /\ env.edits < MaxEdits
    /\ \E c \in Checks, x \in Contents : tree[c] # x /\ tree' = [tree EXCEPT ![c] = x]
    /\ env' = [env EXCEPT !.edits = @ + 1, !.calm = FALSE]
    /\ UNCHANGED <<graph, out, ledgers, accepted, prior, history, runner, passed>>

\* Somebody removes or replaces what a check wrote.
OutputChanges ==
    /\ env.edits < MaxEdits
    /\ \E c \in graph.outputs, x \in Contents \cup {None} :
           out[c] # x /\ out' = [out EXCEPT ![c] = x]
    /\ env' = [env EXCEPT !.edits = @ + 1, !.calm = FALSE]
    /\ UNCHANGED <<graph, tree, ledgers, accepted, prior, history, runner, passed>>

Next ==
    \/ RunChecks \/ RunNamed \/ SkipCheck \/ ReuseCheck \/ BeginCheck \/ FinishCheck
    \/ ExecutorFails \/ PlanEnds \/ ChecksAreCleared \/ StageBegins \/ FollowUp
    \/ DeliveryResumes \/ BeginsAfresh \/ DaemonStop \/ HistoryTrimmed \/ Edit \/ OutputChanges

Spec == Init /\ [][Next]_vars

-----------------------------------------------------------------------------
(* Properties *)

\* The type invariant.
TypeOK ==
    /\ graph \in Graphs
    /\ tree \in [Checks -> Contents]
    /\ out \in [Checks -> Contents \cup {None}]
    /\ ledgers \in [Runtimes -> Ledgers]
    /\ {accepted, prior, history} \subseteq Ledgers
    /\ runner \in [by : Runtimes, plan : Seq(Checks), selected : SUBSET Checks,
                   failed : SUBSET Checks, check : Checks \cup {None},
                   input : Contents \cup {None}, deps : Fingerprints,
                   before : [Checks -> Contents] \cup {<<>>}, running : BOOLEAN]
    /\ passed \subseteq Checks
    /\ env \in [edits : Nat, plans : Nat, turns : Nat, calm : BOOLEAN]

\* What a check reads is part of its key.
IsDeclared(c) ==
    c \in graph.inputs /\ graph.depends[c] \subseteq graph.inputs \cup graph.outputs

\* Whoever asks, of whichever ledger, after whatever edits, restarts and follow-up
\* turns: a check whose evidence is current would pass if it were run now, over
\* the tree and the outputs as they are.  Evidence whose command ran while another
\* program wrote is left out, its key was taken before the command; and so are checks
\* over what nobody has declared.
CurrentEvidenceIsTrue ==
    \A l \in {ledgers["delivery"], ledgers["stage"], accepted, prior, history} :
        \A c \in Checks :
            IsDeclared(c) /\ IsCurrent(l, c) /\ l[c].calm => Verdict(tree[c], Found(c))

\* docs/agent-handoff-workspace-plan.md:76: "Successful check evidence is reusable only
\* while its component, command, inputs, dependency inputs, and declared outputs still
\* match": a check of a component that declares no inputs is reusable only while it passes.
EvidenceKeepsItsComponent ==
    \A c \in Checks :
        IsCurrent(accepted, c) /\ accepted[c].calm => Verdict(tree[c], Found(c))

\* A plan that passed left current evidence for all that it selected, so that the
\* review and the commit that ask for it cannot refuse what the checks accepted.
PassedPlanIsCurrent ==
    env.calm => \A c \in passed : IsCurrent(accepted, c)

\* The checks of a plan that are over
Settled == runner.selected \ ({runner.plan[i] : i \in DOMAIN runner.plan} \cup {runner.check})

\* Whatever a check rests on, however indirectly, was settled before it in the same
\* plan and did not fail: neither its result nor its reuse rests on a failure.
PassedRestsOnPassed ==
    \A c \in (Settled \ runner.failed) \cup ({runner.check} \ {None}) :
        WithDependencies({c}) \ {c} \subseteq Settled \ runner.failed
=============================================================================
