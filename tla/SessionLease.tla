----------------------------- MODULE SessionLease ------------------------------
(* The environment lease of one session (src/src/session_environment.rs): its *)
(* record on disk, the supervisor's entry for it, the container and one       *)
(* service sidecar, and the session's worktree.  Turns acquire and release    *)
(* it, the daemon's cleanup tick reaps it and retries failed cleanups, session*)
(* commits terminate it, and a daemon that stopped reconciles it.             *)
(* Operations on a session exclude each other by its operation lock (op), but *)
(* not from the decisions that precede them: the use count, the list of       *)
(* expired leases, the session commit.  Input/output errors of the state      *)
(* directory and service-only leases are not part of this module.             *)
EXTENDS Naturals

CONSTANTS
    Turns,           \* agent runs of the session
    Leases,          \* SessionEnvironmentLease objects, reused when unreferenced
    None,
    Retain,          \* retain_after_turn: TRUE in the daemon, FALSE in one-shot runs
    Overlap,         \* turns may overlap, which the supervisor supports
    IdleTtl,         \* leases may outlive their idle TTL
    MaxFailures,     \* bound: container removals and creations that fail
    MaxTimeouts,     \* bound: waits for the operation lock that time out
    MaxLosses,       \* bound: containers removed by somebody else
    MaxTerminations, \* bound: session commits that terminate the environment
    MaxCrashes       \* bound: daemon stops

ASSUME LeaseAssumption ==
    /\ {Retain, Overlap, IdleTtl} \subseteq BOOLEAN
    /\ {MaxFailures, MaxTimeouts, MaxLosses, MaxTerminations, MaxCrashes} \subseteq Nat
    /\ None \notin Leases
    /\ Turns \cap {"reaper", "user"} = {}

VARIABLES
    record,    \* the lease record on disk
    memory,    \* the record inside each lease object
    map,       \* the supervisor's lease of the session
    op,        \* the operation that holds the session's lock
    pc,        \* where each actor is
    holds,     \* the lease each turn's handle refers to
    world,     \* the container, the service sidecar and the worktree
    up,        \* the daemon has reconciled and runs
    env        \* how often each outside event has happened, and races: whether a
               \* turn has acquired the lease while a decision about it was pending

vars == <<record, memory, map, op, pc, holds, world, up, env>>

-----------------------------------------------------------------------------
Actors == Turns \cup {"reaper", "user"}

\* Ready and Reconciling are never assigned.
LeaseState == {"New", "Preparing", "InUse", "Idle", "Stopping", "Stopped", "Failed"}

LeaseRecord ==
    [desired : LeaseState, observed : LeaseState, expired : BOOLEAN, service : BOOLEAN]

Pcs == {"off", "prepared", "replace", "reserve", "creating", "created", "using",
        "spawning", "releasing", "terminate", "shutdown", "removed", "cleanup",
        "cleaned", "sweep", "retry"}

Operation ==
    [by : Actors, lease : Leases \cup {None},
     then : {"reserve", "prepared", "off", "sweep", "retry"}]

ASSUME NothingIsNone == None \notin LeaseRecord /\ None \notin Operation

\* Where an actor holds the session's operation lock.
LockedPcs ==
    {"reserve", "creating", "created", "shutdown", "removed", "cleanup", "cleaned"}

At(a, label) == up /\ pc[a] = label
Goto(a, label) == pc' = [pc EXCEPT ![a] = label]
Counts(event, bound) == env[event] < bound /\ env' = [env EXCEPT ![event] = @ + 1]

Holders(o) == {t \in Turns : holds[t] = o}

\* A lease object that nothing refers to.
Fresh(o) == o # map /\ Holders(o) = {} /\ (op # None => op.lease # o)

\* Both writes of SessionEnvironmentLease::transition; the record is the object's,
\* whatever is on disk.
Transitioned(rec, desired, observed) ==
    [rec EXCEPT !.desired = desired, !.observed = observed]

Transition(o, desired, observed) ==
    /\ memory' = [memory EXCEPT ![o] = Transitioned(@, desired, observed)]
    /\ record' = memory'[o]

\* cleanup_recorded_resources: what the record lists.
Cleaned(rec) ==
    [world EXCEPT !.container = FALSE, !.service = @ /\ ~rec.service]

World ==
    [container : BOOLEAN, service : BOOLEAN, worktree : {"none", "clean", "dirty"}]

\* What a cleanup that fails may have removed.
PartlyCleaned(rec) ==
    {w \in [container : BOOLEAN, service : BOOLEAN, worktree : {world.worktree}] :
        /\ w.container => world.container
        /\ w.service => world.service
        /\ (world.service /\ ~w.service) => rec.service}

\* A decision about the session has been made and not yet carried out.
DecisionPending(t) ==
    \E a \in Actors \ {t} : pc[a] \in {"releasing", "terminate", "replace"}

-----------------------------------------------------------------------------
(* EnvironmentSupervisor::acquire *)

\* WorkspaceManager::prepare comes first: it creates or adopts the worktree.
TurnPrepares(t) ==
    /\ At(t, "off")
    /\ Overlap \/ \A u \in Turns : pc[u] = "off"
    /\ world' = [world EXCEPT !.worktree = IF @ = "none" THEN "clean" ELSE @]
    /\ Goto(t, "prepared")
    /\ UNCHANGED <<record, memory, map, op, holds, up, env>>

\* The environment's identity lock changed: the old lease is terminated first.
EnvironmentChanged(t) ==
    /\ At(t, "prepared") /\ map # None /\ ~Overlap
    /\ Goto(t, "replace")
    /\ UNCHANGED <<record, memory, map, op, holds, world, up, env>>

Holds(t, o) ==
    /\ holds' = [holds EXCEPT ![t] = o]
    /\ env' = IF DecisionPending(t) THEN [env EXCEPT !.races = 1] ELSE env
    /\ Goto(t, "using")

AcquireReuses(t) ==
    /\ At(t, "prepared") /\ op = None
    /\ map # None /\ world.container
    /\ Transition(map, "InUse", "InUse")
    /\ Holds(t, map)
    /\ UNCHANGED <<map, op, world, up>>

\* The supervised container is gone: what is left of the lease is shut down.
AcquireRetires(t) ==
    /\ At(t, "prepared") /\ op = None
    /\ map # None /\ ~world.container
    /\ Transition(map, "Stopping", "Stopping")
    /\ op' = [by |-> t, lease |-> map, then |-> "reserve"]
    /\ map' = None
    /\ Goto(t, "shutdown")
    /\ UNCHANGED <<holds, world, up, env>>

\* A record without a supervised lease is adopted if its container is there.
Adoptable == record # None /\ ~record.expired /\ world.container

AcquireAdopts(t) ==
    /\ At(t, "prepared") /\ op = None
    /\ map = None /\ Adoptable
    /\ \E o \in Leases :
          /\ Fresh(o)
          /\ map' = o
          /\ memory' = [memory EXCEPT ![o] = Transitioned(record, "InUse", "InUse")]
          /\ record' = memory'[o]
          /\ Holds(t, o)
    /\ UNCHANGED <<op, world, up>>

AcquireDiscards(t) ==
    /\ At(t, "prepared") /\ op = None
    /\ map = None /\ record # None /\ ~Adoptable
    /\ op' = [by |-> t, lease |-> None, then |-> "reserve"]
    /\ Goto(t, "cleanup")
    /\ UNCHANGED <<record, memory, map, holds, world, up, env>>

AcquireStarts(t) ==
    /\ At(t, "prepared") /\ op = None
    /\ map = None /\ record = None
    /\ op' = [by |-> t, lease |-> None, then |-> "reserve"]
    /\ Goto(t, "reserve")
    /\ UNCHANGED <<record, memory, map, holds, world, up, env>>

\* The intent is recorded before anything is created.
Reserve(t) ==
    /\ At(t, "reserve")
    /\ record' = [desired |-> "Preparing", observed |-> "New", expired |-> FALSE,
                  service |-> FALSE]
    /\ Goto(t, "creating")
    /\ UNCHANGED <<memory, map, op, holds, world, up, env>>

CreateContainer(t) ==
    /\ At(t, "creating")
    /\ world' = [world EXCEPT !.container = TRUE]
    /\ Goto(t, "created")
    /\ UNCHANGED <<record, memory, map, op, holds, up, env>>

FailedRecord == [desired |-> "Failed", observed |-> "Failed", expired |-> FALSE,
                 service |-> FALSE]

\* Creation or a session command fails; dropping the handle removes what it can.
CreateFails(t) ==
    /\ At(t, "creating") \/ At(t, "created")
    /\ Counts("failures", MaxFailures)
    /\ record' = FailedRecord
    /\ \E container \in {FALSE, world.container} :
          world' = [world EXCEPT !.container = container]
    /\ op' = None
    /\ Goto(t, "sweep")
    /\ UNCHANGED <<memory, map, holds, up>>

AcquireFinishes(t) ==
    /\ At(t, "created")
    /\ \E o \in Leases :
          /\ Fresh(o)
          /\ map' = o
          /\ memory' = [memory EXCEPT ![o] =
                [desired |-> "InUse", observed |-> "InUse", expired |-> FALSE,
                 service |-> FALSE]]
          /\ record' = memory'[o]
          /\ Holds(t, o)
    /\ op' = None
    /\ UNCHANGED <<world, up>>

-----------------------------------------------------------------------------
(* A turn that holds its lease *)

TurnWorks(t) ==
    /\ At(t, "using") /\ world.worktree # "none"
    /\ \E state \in {"clean", "dirty"} : world' = [world EXCEPT !.worktree = state]
    /\ UNCHANGED <<record, memory, map, op, pc, holds, up, env>>

\* Mutant: the sidecar is started without a resource record.
RegisterNothing(t) ==
    /\ At(t, "using")
    /\ Goto(t, "spawning")
    /\ UNCHANGED <<record, memory, map, op, holds, world, up, env>>

\* spawn_service registers the sidecar in its lease's record and starts it after
\* that, without the operation lock.
RegisterService(t) ==
    /\ At(t, "using")
    /\ memory' = [memory EXCEPT ![holds[t]].service = TRUE]
    /\ record' = IF memory[holds[t]].service THEN record ELSE memory'[holds[t]]
    /\ Goto(t, "spawning")
    /\ UNCHANGED <<map, op, holds, world, up, env>>

SpawnService(t) ==
    /\ At(t, "spawning")
    /\ \/ world' = [world EXCEPT !.service = TRUE]
       \/ UNCHANGED world
    /\ Goto(t, "using")
    /\ UNCHANGED <<record, memory, map, op, holds, up, env>>

\* Mutant: every release counts as the last.
AnyRelease(t) == TRUE

\* The use count that fetch_sub returns.
IsLastRelease(t) == Holders(holds[t]) = {t}

\* release_handle lowers the use count before it waits for the operation lock.
TurnEnds(t) ==
    /\ At(t, "using")
    /\ holds' = [holds EXCEPT ![t] = None]
    /\ Goto(t, IF ~IsLastRelease(t) THEN "off"
               ELSE IF Retain THEN "releasing" ELSE "terminate")
    /\ UNCHANGED <<record, memory, map, op, world, up, env>>

MarkIdle(t) ==
    /\ At(t, "releasing") /\ op = None
    /\ IF map = None
       THEN UNCHANGED <<record, memory>>
       ELSE /\ memory' = [memory EXCEPT
                  ![map] = [Transitioned(@, "Idle", "Idle") EXCEPT !.expired = FALSE]]
            /\ record' = memory'[map]
    /\ Goto(t, "off")
    /\ UNCHANGED <<map, op, holds, world, up, env>>

-----------------------------------------------------------------------------
(* EnvironmentSupervisor::terminate and SessionEnvironmentLease::shutdown *)

\* What an actor does after it has terminated the environment.
AfterTerminate(a) ==
    CASE pc[a] = "replace" -> "prepared"
      [] a = "user" -> "off"
      [] OTHER -> "sweep"

TakesFromMap == map' = None

TerminateBegins(a) ==
    /\ At(a, "terminate") \/ At(a, "replace")
    /\ op = None
    /\ IF map # None
       THEN /\ Transition(map, "Stopping", "Stopping")
            /\ op' = [by |-> a, lease |-> map, then |-> AfterTerminate(a)]
            /\ Goto(a, "shutdown")
       ELSE /\ op' = IF record = None THEN None
                     ELSE [by |-> a, lease |-> None, then |-> AfterTerminate(a)]
            /\ Goto(a, IF record = None THEN AfterTerminate(a) ELSE "cleanup")
            /\ UNCHANGED <<record, memory>>
    /\ TakesFromMap
    /\ UNCHANGED <<holds, world, up, env>>

\* Where an operation that failed leaves its actor: the reaper and a session commit
\* give up, a turn's worktree is swept all the same.
AfterFailure(a) == IF a \in Turns THEN "sweep" ELSE "off"

Releases(a, label) ==
    /\ op' = IF label = "reserve" THEN op ELSE None
    /\ Goto(a, label)

ShutdownRemoves(a) ==
    /\ At(a, "shutdown")
    /\ world' = Cleaned(memory[op.lease])
    /\ Goto(a, "removed")
    /\ UNCHANGED <<record, memory, map, op, holds, up, env>>

\* Mutant: desired and observed state swapped.
RecordsSwapped(o) == Transition(o, "Failed", "Stopped")

\* Mutant: a shutdown that failed removes the record like one that succeeded.
ForgetsFailure(o) ==
    /\ memory' = [memory EXCEPT ![o] = Transitioned(@, "Stopped", "Stopped")]
    /\ record' = None

RecordsFailure(o) == Transition(o, "Stopped", "Failed")

ShutdownFails(a) ==
    /\ At(a, "shutdown")
    /\ Counts("failures", MaxFailures)
    /\ world' \in PartlyCleaned(memory[op.lease])
    /\ RecordsFailure(op.lease)
    /\ op' = None
    /\ Goto(a, AfterFailure(a))
    /\ UNCHANGED <<map, holds, up>>

ShutdownForgets(a) ==
    /\ At(a, "removed")
    /\ memory' = [memory EXCEPT ![op.lease] = Transitioned(@, "Stopped", "Stopped")]
    /\ record' = None
    /\ Releases(a, op.then)
    /\ UNCHANGED <<map, holds, world, up, env>>

\* The same for a record that no supervised lease owns.
CleanupRemoves(a) ==
    /\ At(a, "cleanup")
    /\ world' = Cleaned(record)
    /\ Goto(a, "cleaned")
    /\ UNCHANGED <<record, memory, map, op, holds, up, env>>

CleanupFails(a) ==
    /\ At(a, "cleanup")
    /\ Counts("failures", MaxFailures)
    /\ world' \in PartlyCleaned(record)
    /\ op' = None
    /\ Goto(a, AfterFailure(a))
    /\ UNCHANGED <<record, memory, map, holds, up>>

CleanupForgets(a) ==
    /\ At(a, "cleaned") /\ op.then # "retry"
    /\ record' = None
    /\ Releases(a, op.then)
    /\ UNCHANGED <<memory, map, holds, world, up, env>>

\* WorkspaceManager::remove without force: a dirty worktree stays.
Swept == [world EXCEPT !.worktree = IF @ = "clean" THEN "none" ELSE @]

Sweep(a) ==
    /\ At(a, "sweep")
    /\ world' = Swept
    /\ Goto(a, IF a = "reaper" THEN "retry" ELSE "off")
    /\ UNCHANGED <<record, memory, map, op, holds, up, env>>

\* A wait for the operation lock gives up: an acquire fails, an idle mark is
\* ignored, a termination is reported.
LockTimesOut(a) ==
    /\ op # None /\ op.by # a
    /\ pc[a] \in {"prepared", "releasing", "terminate", "replace", "retry"}
    /\ Counts("timeouts", MaxTimeouts)
    /\ Goto(a, IF a \in Turns /\ pc[a] # "releasing" THEN "sweep" ELSE "off")
    /\ UNCHANGED <<record, memory, map, op, holds, world, up>>

-----------------------------------------------------------------------------
(* The cleanup tick, session commits, and the daemon's life *)

Expirable(rec) == rec.observed = "Idle" /\ rec.expired

\* reap_expired lists the leases without the operation lock.
ReaperLists ==
    /\ At("reaper", "off")
    /\ Goto("reaper", IF map # None /\ Expirable(memory[map]) THEN "terminate" ELSE "retry")
    /\ UNCHANGED <<record, memory, map, op, holds, world, up, env>>

\* Mutant: the desired state is asked.
RetryableByDesire(rec) == rec.desired = "Failed"

Retryable(rec) == rec.observed = "Failed"

\* retry_failed_cleanup reads the record again under the lock.
RetryBegins ==
    /\ At("reaper", "retry") /\ op = None
    /\ IF record # None /\ Retryable(record)
       THEN /\ op' = [by |-> "reaper", lease |-> None, then |-> "retry"]
            /\ Goto("reaper", "cleanup")
       ELSE /\ Goto("reaper", "off")
            /\ UNCHANGED op
    /\ UNCHANGED <<record, memory, map, holds, world, up, env>>

\* The worktree goes with the record; a dirty one keeps it.
RetryFinishes ==
    /\ At("reaper", "cleaned") /\ op.then = "retry"
    /\ IF world.worktree = "dirty"
       THEN UNCHANGED <<record, world>>
       ELSE record' = None /\ world' = Swept
    /\ op' = None
    /\ Goto("reaper", "off")
    /\ UNCHANGED <<memory, map, holds, up, env>>

\* A commit of a session that is not running terminates its environment after the
\* commit: cancelled, deleted, or completed as cancelled.
UserTerminates ==
    /\ At("user", "off")
    /\ \A t \in Turns : pc[t] = "off"
    /\ Counts("terminations", MaxTerminations)
    /\ Goto("user", "terminate")
    /\ UNCHANGED <<record, memory, map, op, holds, world, up>>

\* The idle TTL passes; it runs from the creation or the last idle mark.
Expire ==
    /\ IdleTtl /\ record # None /\ ~record.expired
    /\ record' = [record EXCEPT !.expired = TRUE]
    /\ memory' = [o \in Leases |->
          IF memory[o] = None THEN None ELSE [memory[o] EXCEPT !.expired = TRUE]]
    /\ UNCHANGED <<map, op, pc, holds, world, up, env>>

ContainerLost ==
    /\ world.container
    /\ Counts("losses", MaxLosses)
    /\ world' = [world EXCEPT !.container = FALSE]
    /\ UNCHANGED <<record, memory, map, op, pc, holds, up>>

DaemonStops ==
    /\ up /\ Counts("crashes", MaxCrashes)
    /\ up' = FALSE
    /\ memory' = [o \in Leases |-> None]
    /\ map' = None /\ op' = None
    /\ pc' = [a \in Actors |-> "off"]
    /\ holds' = [t \in Turns |-> None]
    /\ UNCHANGED <<record, world>>

Valid(rec) ==
    /\ ~rec.expired /\ world.container
    /\ rec.desired \notin {"Stopped", "Failed"}

\* reconcile: recorded services go first, a valid lease is adopted as idle, and
\* managed containers that no adopted lease names are removed as far as possible.
ReconcileAdopts ==
    /\ ~up /\ record # None /\ Valid(record)
    /\ record' = [Transitioned(record, "Idle", "Idle") EXCEPT !.service = FALSE]
    /\ \E o \in Leases : map' = o /\ memory' = [memory EXCEPT ![o] = record']
    /\ \E service \in {FALSE, world.service /\ ~record.service} :
          world' = [world EXCEPT !.service = service]
    /\ up' = TRUE
    /\ UNCHANGED <<op, pc, holds, env>>

ReconcileCleans ==
    /\ ~up /\ record # None /\ ~Valid(record)
    /\ world.container \/ (world.service /\ record.service)
    /\ world' = Cleaned(record)
    /\ UNCHANGED <<record, memory, map, op, pc, holds, up, env>>

ReconcileForgets ==
    /\ ~up
    /\ \/ record = None
       \/ /\ record # None /\ ~Valid(record)
          /\ ~world.container /\ ~(world.service /\ record.service)
    /\ record' = None
    /\ world' \in PartlyCleaned([service |-> TRUE])
    /\ up' = TRUE
    /\ UNCHANGED <<memory, map, op, pc, holds, env>>

-----------------------------------------------------------------------------
Init ==
    /\ record = None
    /\ memory = [o \in Leases |-> None]
    /\ map = None /\ op = None
    /\ pc = [a \in Actors |-> "off"]
    /\ holds = [t \in Turns |-> None]
    /\ world = [container |-> FALSE, service |-> FALSE, worktree |-> "none"]
    /\ up = TRUE
    /\ env = [e \in {"failures", "timeouts", "losses", "terminations", "crashes",
                       "races"} |-> 0]

TurnStep(t) ==
    \/ TurnPrepares(t) \/ EnvironmentChanged(t) \/ AcquireReuses(t) \/ AcquireRetires(t)
    \/ AcquireAdopts(t) \/ AcquireDiscards(t) \/ AcquireStarts(t) \/ Reserve(t)
    \/ CreateContainer(t) \/ CreateFails(t) \/ AcquireFinishes(t) \/ TurnWorks(t)
    \/ RegisterService(t) \/ SpawnService(t) \/ TurnEnds(t) \/ MarkIdle(t)

Terminates(a) ==
    \/ TerminateBegins(a) \/ ShutdownRemoves(a) \/ ShutdownFails(a) \/ ShutdownForgets(a)
    \/ CleanupRemoves(a) \/ CleanupFails(a) \/ CleanupForgets(a) \/ Sweep(a)

Tick == ReaperLists \/ RetryBegins \/ RetryFinishes \/ Terminates("reaper")

Reconcile == ReconcileAdopts \/ ReconcileCleans \/ ReconcileForgets

Next ==
    \/ \E t \in Turns : TurnStep(t)
    \/ \E a \in Actors : Terminates(a) \/ LockTimesOut(a)
    \/ ReaperLists \/ RetryBegins \/ RetryFinishes
    \/ UserTerminates \/ Expire \/ ContainerLost \/ DaemonStops \/ Reconcile

Spec == Init /\ [][Next]_vars

\* The daemon runs its cleanup tick, finishes what it has begun and is started
\* again; time passes.
FairSpec ==
    /\ Spec
    /\ WF_vars(Tick) /\ WF_vars(Terminates("user")) /\ WF_vars(Reconcile) /\ WF_vars(Expire)

-----------------------------------------------------------------------------
(* Properties *)

TypeOK ==
    /\ record \in LeaseRecord \cup {None}
    /\ memory \in [Leases -> LeaseRecord \cup {None}]
    /\ map \in Leases \cup {None}
    /\ map # None => memory[map] # None /\ memory[map].desired \in {"InUse", "Idle"}
    /\ op \in Operation \cup {None}
    /\ pc \in [Actors -> Pcs]
    /\ holds \in [Turns -> Leases \cup {None}]
    /\ world \in World
    /\ up \in BOOLEAN

\* Whatever fails, races or stops between two steps of an acquire, a shutdown or a
\* reconciliation, the container never exists without the record that names it.
ContainerIsRecorded == world.container => record # None

\* What makes it hold: an actor that is inside an operation has the lock,
LockIsHeld == \A a \in Actors : pc[a] \in LockedPcs => op # None /\ op.by = a

\* the lease that is shut down is no longer the session's,
ShutdownOwnsLease ==
    \A a \in Actors : pc[a] \in {"shutdown", "removed"} =>
        op.lease \in Leases /\ op.lease # map /\ memory[op.lease] # None

\* nothing is created between the removal of the container and of its record, and no
\* record is removed while a container is created or cleaned up,
RecordOutlivesContainer ==
    \A a \in Actors :
        /\ pc[a] \in {"removed", "cleaned"} => ~world.container
        /\ pc[a] \in {"creating", "cleanup"} => record # None

\* a turn that works has a lease, and a daemon that is down has no actors.
HoldersHaveLeases ==
    /\ \A t \in Turns : pc[t] \in {"using", "spawning"} =>
          holds[t] \in Leases /\ memory[holds[t]] # None
    /\ ~up => \A a \in Actors : pc[a] = "off"

\* The inductive invariant.
LeaseInv ==
    /\ TypeOK /\ LockIsHeld /\ ShutdownOwnsLease /\ RecordOutlivesContainer
    /\ HoldersHaveLeases /\ ContainerIsRecorded

\* The sidecar, which is started without the operation lock, is in the record too,
\* as long as no turn has acquired a lease that was about to be taken away.
ServiceIsRecorded ==
    world.service /\ env.races = 0 /\ env.losses = 0 =>
        record # None /\ record.service

\* retry_failed_cleanup looks for Failed records only.  That is enough: between two
\* operations a record that no supervised lease owns is Failed.
UnownedRecordIsRetried ==
    up /\ op = None /\ map = None /\ record # None /\ env.races = 0 /\ env.losses = 0 =>
        record.observed = "Failed"

Using(t) == up /\ pc[t] \in {"using", "spawning"}

\* A turn keeps the container and the lease it acquired, in use, until it ends,
\* unless a release, a reap or a termination was already decided when it acquired.
LeaseIsKeptUnlessRaced ==
    \A t \in Turns : Using(t) /\ env.races = 0 /\ env.losses = 0 =>
        world.container /\ map = holds[t] /\ memory[map].observed = "InUse"

\* A container that no turn comes back to does not stay: its lease expires, is
\* reaped, and a cleanup that failed is retried.
UnusedContainerIsRemoved ==
    (\A t \in Turns : pc[t] = "off") /\ world.container
        ~> (\E t \in Turns : pc[t] # "off") \/ ~world.container

\* docs/session-environment-control-plane.md:224, "Continuation: validate fingerprints
\* and reuse the lease", with :379, "Kernel-backed session/image/cache locks [...]
\* prevent name-only adoption or deletion": a lease that a turn reuses stays with it.
InUseLeaseIsKept == \A t \in Turns : Using(t) => world.container

\* overlapping_handles_keep_the_lease_in_use_until_the_last_release
\* (session_environment.rs:2280): as long as a turn holds it, the lease is in use.
OverlappingHandlesKeepInUse ==
    \A t \in Turns : Using(t) => memory[holds[t]].observed = "InUse"

\* docs/architecture/local-privacy.md:331: "a dirty or otherwise unremovable
\* workspace keeps that recovery record intact".
DirtyWorkspaceKeepsRecord ==
    [][ record # None /\ record.observed = "Failed" /\ world.worktree = "dirty"
            /\ (\A t \in Turns : pc[t] = "off") => record' # None ]_vars
==============================================================================
