------------------------------ MODULE CacheManager ------------------------------
(* The cache volumes that the sessions of a project share                      *)
(* (src/src/cache_manager.rs), attached by the environment leases of those     *)
(* sessions (src/src/session_environment.rs) and collected by the daemon's     *)
(* cleanup tick (src/src/web.rs): the record of each cache on disk with its    *)
(* count of attachments and its preparing owner, the volumes, the lease        *)
(* records that name caches, the attachments in memory, and the containers     *)
(* that have a volume mounted.                                                 *)
(* One daemon at a time works on a state directory.  The operations on one     *)
(* session follow one another here, their races are SessionLease's; what       *)
(* interleaves is sessions, the tick and stops of the daemon.  Sizes are left  *)
(* out: no caller ever records one, so age alone makes a cache collectable.    *)
EXTENDS Naturals, FiniteSets

CONSTANTS
    Sessions,    \* sessions of the project
    Locks,       \* environment locks: configuration, image and key files
    Volumes,     \* names of cache volumes, derived from a lock
    Base,        \* the volumes that an environment mounts into its container
    Index,       \* the index volume that a language server's sidecar mounts, if any
    Served,      \* the environment's own volumes that the sidecar mounts as well
    None,
    MaxTurns,    \* bound: turns of all sessions
    MaxEdits,    \* bound: changes of a session's key files
    MaxMishaps,  \* bound: container and volume operations that fail, containers lost
    MaxCrashes   \* bound: daemon stops

ASSUME CacheAssumption ==
    /\ Base \in [Locks -> SUBSET Volumes]
    /\ Index \in [Locks -> Volumes \cup {None}]
    /\ Served \in [Locks -> SUBSET Volumes]
    /\ \A k \in Locks : Index[k] \notin Base[k] /\ Served[k] \subseteq Base[k]
    /\ {MaxTurns, MaxEdits, MaxMishaps, MaxCrashes} \subseteq Nat
    /\ IsFiniteSet(Sessions) /\ "gc" \notin Sessions
    /\ None \notin Sessions \cup Locks \cup Volumes

VARIABLES
    caches,    \* the durable record of each volume
    volumes,   \* the volumes that the container runtime has
    manager,   \* the operation of the cache manager under way
    lease,     \* the lease record of each session, on disk
    held,      \* the attachments of each lease in memory
    turn,      \* where each session's operation is, and its own attachments
    running,   \* each session's task container and sidecar
    tree,      \* each session's worktree: its lock, and whether it has changes
    tick,      \* the daemon's cleanup tick, or its start
    env        \* how often each outside event has happened; sessions revived

vars == <<caches, volumes, manager, lease, held, turn, running, tree, tick, env>>

-----------------------------------------------------------------------------
CacheRecord == [count : Nat, preparing : Sessions \cup {None}, old : BOOLEAN]
LeaseRecord ==
    [lock : Locks, caches : SUBSET Volumes,
     state : {"Preparing", "InUse", "Idle", "Stopping", "Failed"}]

ManagerRecord == [by : Sessions \cup {"gc"}, volume : Volumes \cup {None}, done : BOOLEAN]

\* None is no value of the records and no set of volumes.
ASSUME NoneIsNoRecord ==
    /\ None \notin CacheRecord \cup LeaseRecord \cup ManagerRecord
    /\ \A V \in SUBSET Volumes : V # None

Pcs == {"off", "attach", "lease", "create", "created", "reused", "using", "index",
        "stop", "clear", "giveup", "failed"}

TurnRecord == [pc : Pcs, then : {"off", "attach", "lease"}, fresh : SUBSET Volumes]

Ticks == {"reap", "retry", "gc", "collect"}
Up == tick.at \in Ticks
Resting == [at |-> "reap", todo |-> {}, failed |-> FALSE]
Reaped(s) == tick.at = "reap" /\ s \in tick.todo
At(s, pc) == Up /\ turn[s].pc = pc
Goto(s, pc) == turn' = [turn EXCEPT ![s].pc = pc]
Counts(event, bound) == env[event] < bound /\ env' = [env EXCEPT ![event] = @ + 1]
Mishap == Counts("mishaps", MaxMishaps)

NewCache == [count |-> 0, preparing |-> None, old |-> FALSE]
Attached(c) == [c EXCEPT !.count = @ + 1, !.preparing = None, !.old = FALSE]

\* CacheManager::detach
Released(c) ==
    IF c = None THEN None
    ELSE [c EXCEPT !.count = IF @ = 0 THEN 0 ELSE @ - 1, !.old = FALSE]
Detached(v) == caches' = [caches EXCEPT ![v] = Released(@)]

NoContainers == [task |-> None, sidecar |-> FALSE]

\* managed_container_matches
Managed(s) == running[s].task # None

\* A service's own copy of an index cache, and the environment's volume of any other.
ServedVolumes(k) == Served[k] \cup ({Index[k]} \ {None})

Mounted(s, v) ==
    \/ running[s].task # None /\ v \in Base[running[s].task]
    \/ running[s].sidecar /\ v \in ServedVolumes(lease[s].lock)

\* cleanup_recorded_resources and shutdown go on after a container that cannot be
\* removed: what fails may have removed any of them.
SomeRemoved(s) == \E task \in {running[s].task, None}, kept \in BOOLEAN :
    running' = [running EXCEPT ![s] = [task |-> task, sidecar |-> @.sidecar /\ kept]]

-----------------------------------------------------------------------------
(* CacheManager::acquire, under the manager's lock: the owner is recorded, the *)
(* volume is ensured, and the attachment is counted.                           *)

\* The volumes that the session still has to attach.
Wanted(s) ==
    CASE turn[s].pc = "attach" -> Base[tree[s].lock] \ turn[s].fresh
      [] turn[s].pc = "index" -> {Index[lease[s].lock]} \ turn[s].fresh
      [] OTHER -> {}

Prepare(s) == \E v \in Wanted(s) :
    /\ Up /\ manager = None
    /\ caches' = [caches EXCEPT ![v] =
                    [IF @ = None THEN NewCache ELSE @ EXCEPT !.preparing = s]]
    /\ manager' = [by |-> s, volume |-> v, done |-> FALSE]
    /\ UNCHANGED <<volumes, lease, held, turn, running, tree, tick, env>>

Holding(s) == Up /\ manager # None /\ manager.by = s

EnsureVolume(s) ==
    /\ Holding(s) /\ ~manager.done
    /\ volumes' = volumes \cup {manager.volume}
    /\ manager' = [manager EXCEPT !.done = TRUE]
    /\ UNCHANGED <<caches, lease, held, turn, running, tree, tick, env>>

\* Mutant of EnsureFails: the owner of a preparation that failed stays in the record.
EnsureFailsForGood(s) ==
    /\ Holding(s) /\ ~manager.done /\ Mishap
    /\ manager' = None
    /\ Goto(s, IF turn[s].pc = "index" THEN "using" ELSE "failed")
    /\ UNCHANGED <<caches, volumes, lease, held, running, tree, tick>>

\* A cache that a service cannot have is the service's failure, not the turn's.
EnsureFails(s) ==
    /\ Holding(s) /\ ~manager.done /\ Mishap
    /\ caches' = [caches EXCEPT ![manager.volume].preparing = None]
    /\ manager' = None
    /\ Goto(s, IF turn[s].pc = "index" THEN "using" ELSE "failed")
    /\ UNCHANGED <<volumes, lease, held, running, tree, tick>>

Attach(s) ==
    /\ Holding(s) /\ manager.done
    /\ caches' = [caches EXCEPT ![manager.volume] = Attached(@)]
    /\ manager' = None
    /\ turn' = [turn EXCEPT ![s].fresh = @ \cup {manager.volume}]
    /\ UNCHANGED <<volumes, lease, held, running, tree, tick, env>>

-----------------------------------------------------------------------------
(* A turn: attach what the environment declares, then the lease               *)

\* EnvironmentSupervisor::terminate with the lease in memory
Stops(s, then) == turn' = [turn EXCEPT ![s].pc = "stop", ![s].then = then]

TurnStarts(s) ==
    /\ At(s, "off") /\ Counts("turns", MaxTurns)
    /\ IF held[s] # None /\ lease[s].lock # tree[s].lock
          THEN Stops(s, "attach")
          ELSE Goto(s, "attach")
    /\ UNCHANGED <<caches, volumes, manager, lease, held, running, tree, tick>>

EverythingAttached(s) ==
    /\ At(s, "attach") /\ Wanted(s) = {}
    /\ Goto(s, "lease")
    /\ UNCHANGED <<caches, volumes, manager, lease, held, running, tree, tick, env>>

\* EnvironmentSupervisor::acquire.  The lease keeps its own attachments, those that
\* were passed in are dropped.
AcquireReuses(s) ==
    /\ At(s, "lease") /\ held[s] # None /\ Managed(s)
    /\ lease' = [lease EXCEPT ![s].state = "InUse"]
    /\ Goto(s, "reused")
    /\ UNCHANGED <<caches, volumes, manager, held, running, tree, tick, env>>

AcquireReplaces(s) ==
    /\ At(s, "lease") /\ held[s] # None /\ ~Managed(s)
    /\ Stops(s, "lease")
    /\ UNCHANGED <<caches, volumes, manager, lease, held, running, tree, tick, env>>

\* A record that no lease in memory owns, with its container.
AcquireRevives(s) ==
    /\ At(s, "lease") /\ held[s] = None /\ lease[s] # None
    /\ lease[s].lock = tree[s].lock /\ Managed(s)
    /\ lease' = [lease EXCEPT ![s].state = "InUse"]
    /\ held' = [held EXCEPT ![s] = turn[s].fresh]
    /\ turn' = [turn EXCEPT ![s].pc = "using", ![s].fresh = {}]
    /\ env' = [env EXCEPT !.revived = @ \cup {s}]
    /\ UNCHANGED <<caches, volumes, manager, running, tree, tick>>

\* The record has expired, or does not match.
AcquireCleansUp(s) ==
    /\ At(s, "lease") /\ held[s] = None /\ lease[s] # None
    /\ \/ /\ running' = [running EXCEPT ![s] = NoContainers]
          /\ lease' = [lease EXCEPT ![s] = None]
          /\ UNCHANGED <<turn, env>>
       \/ /\ Mishap
          /\ SomeRemoved(s)
          /\ Goto(s, "failed")
          /\ UNCHANGED lease
    /\ UNCHANGED <<caches, volumes, manager, held, tree, tick>>

AcquireRecords(s) ==
    /\ At(s, "lease") /\ held[s] = None /\ lease[s] = None
    /\ lease' = [lease EXCEPT ![s] =
                    [lock |-> tree[s].lock, caches |-> turn[s].fresh,
                     state |-> "Preparing"]]
    /\ env' = [env EXCEPT !.revived = @ \ {s}]
    /\ Goto(s, "create")
    /\ UNCHANGED <<caches, volumes, manager, held, running, tree, tick>>

AcquireCreates(s) ==
    /\ At(s, "create")
    /\ \/ /\ running' = [running EXCEPT ![s].task = lease[s].lock]
          /\ Goto(s, "created")
          /\ UNCHANGED <<lease, env>>
       \/ /\ Mishap
          /\ lease' = [lease EXCEPT ![s].state = "Failed"]
          /\ Goto(s, "failed")
          /\ UNCHANGED running
    /\ UNCHANGED <<caches, volumes, manager, held, tree, tick>>

AcquireEnds(s) ==
    /\ At(s, "created")
    /\ lease' = [lease EXCEPT ![s].state = "InUse"]
    /\ held' = [held EXCEPT ![s] = turn[s].fresh]
    /\ turn' = [turn EXCEPT ![s].pc = "using", ![s].fresh = {}]
    /\ UNCHANGED <<caches, volumes, manager, running, tree, tick, env>>

\* Attachments are dropped one by one.
DropFresh(s) ==
    /\ \E pc \in {"reused", "failed"} : At(s, pc)
    /\ IF turn[s].fresh = {}
          THEN /\ Goto(s, IF turn[s].pc = "reused" THEN "using" ELSE "off")
               /\ UNCHANGED caches
          ELSE \E v \in turn[s].fresh :
                /\ manager = None /\ Detached(v)
                /\ turn' = [turn EXCEPT ![s].fresh = @ \ {v}]
    /\ UNCHANGED <<volumes, manager, lease, held, running, tree, tick, env>>

-----------------------------------------------------------------------------
(* While a turn uses its lease                                                 *)

\* spawn_service of a service with caches: the lease's record says whether its index is
\* attached.
StartSidecar(s) ==
    /\ At(s, "using") /\ ~running[s].sidecar /\ ServedVolumes(lease[s].lock) # {}
    /\ IF Index[lease[s].lock] \in lease[s].caches \cup {None}
          THEN /\ \A v \in ServedVolumes(lease[s].lock) : caches[v] # None
               /\ running' = [running EXCEPT ![s].sidecar = TRUE]
               /\ UNCHANGED turn
          ELSE Goto(s, "index") /\ UNCHANGED running
    /\ UNCHANGED <<caches, volumes, manager, lease, held, tree, tick, env>>

\* register_resource, and the attachment becomes the lease's.
RegisterIndex(s) ==
    /\ At(s, "index") /\ turn[s].fresh # {}
    /\ lease' = [lease EXCEPT ![s].caches = @ \cup turn[s].fresh]
    /\ held' = [held EXCEPT ![s] = @ \cup turn[s].fresh]
    /\ turn' = [turn EXCEPT ![s].pc = "using", ![s].fresh = {}]
    /\ UNCHANGED <<caches, volumes, manager, running, tree, tick, env>>

SidecarStops(s) ==
    /\ running[s].sidecar
    /\ running' = [running EXCEPT ![s].sidecar = FALSE]
    /\ UNCHANGED <<caches, volumes, manager, lease, held, turn, tree, tick, env>>

\* Key files are edited, which is another lock from the next turn on.
Edit(s) ==
    /\ At(s, "using") /\ Counts("edits", MaxEdits)
    /\ \E k \in Locks : tree' = [tree EXCEPT ![s] = [lock |-> k, dirty |-> TRUE]]
    /\ UNCHANGED <<caches, volumes, manager, lease, held, turn, running, tick>>

\* mark_idle; what the turn has changed may have been committed.
TurnEnds(s) ==
    /\ At(s, "using")
    /\ lease' = [lease EXCEPT ![s].state = "Idle"]
    /\ \E d \in BOOLEAN : tree' = [tree EXCEPT ![s].dirty = @ /\ d]
    /\ Goto(s, "off")
    /\ UNCHANGED <<caches, volumes, manager, held, running, tick, env>>

ContainerLost(s) ==
    /\ Managed(s) /\ Mishap
    /\ running' = [running EXCEPT ![s].task = None]
    /\ UNCHANGED <<caches, volumes, manager, lease, held, turn, tree, tick>>

-----------------------------------------------------------------------------
(* SessionEnvironmentLease::shutdown: containers, then attachments, whatever   *)
(* became of the containers, then the record.                                  *)

StopContainers(s) ==
    /\ At(s, "stop")
    /\ lease' = [lease EXCEPT ![s].state = "Stopping"]
    /\ \/ /\ running' = [running EXCEPT ![s] = NoContainers]
          /\ Goto(s, "clear")
          /\ UNCHANGED env
       \/ /\ Mishap
          /\ SomeRemoved(s)
          /\ Goto(s, "giveup")
    /\ UNCHANGED <<caches, volumes, manager, held, tree, tick>>

ClearAttachments(s) ==
    /\ \E pc \in {"clear", "giveup"} : At(s, pc)
    /\ manager = None
    /\ \E v \in held[s] :
        /\ Detached(v)
        /\ held' = [held EXCEPT ![s] = @ \ {v}]
    /\ UNCHANGED <<volumes, manager, lease, turn, running, tree, tick, env>>

\* A failure of reap_expired ends the tick.
StopEnds(s) ==
    /\ \E pc \in {"clear", "giveup"} : At(s, pc)
    /\ held[s] = {}
    /\ held' = [held EXCEPT ![s] = None]
    /\ IF turn[s].pc = "clear"
          THEN /\ lease' = [lease EXCEPT ![s] = None]
               /\ Goto(s, turn[s].then)
               /\ tick' = IF Reaped(s) THEN [tick EXCEPT !.todo = {}] ELSE tick
          ELSE /\ lease' = [lease EXCEPT ![s].state = "Failed"]
               /\ Goto(s, IF turn[s].then = "off" THEN "off" ELSE "failed")
               /\ tick' = IF Reaped(s) THEN Resting ELSE tick
    /\ UNCHANGED <<caches, volumes, manager, running, tree, env>>

\* The user ends the session's environment; without a lease in memory its record is
\* cleaned up.
Terminate(s) ==
    /\ At(s, "off") /\ lease[s] # None
    /\ IF held[s] # None
          THEN Stops(s, "off") /\ UNCHANGED <<lease, running, env>>
          ELSE /\ \/ /\ running' = [running EXCEPT ![s] = NoContainers]
                     /\ lease' = [lease EXCEPT ![s] = None]
                     /\ UNCHANGED env
                  \/ Mishap /\ SomeRemoved(s) /\ UNCHANGED lease
               /\ UNCHANGED turn
    /\ UNCHANGED <<caches, volumes, manager, held, tree, tick>>

-----------------------------------------------------------------------------
(* The daemon's cleanup tick: expired leases, then cleanups that failed, then  *)
(* caches; an error ends it.                                                   *)

\* reap_expired, with which every tick starts; time is not modelled, any idle lease
\* may have expired.
Reap(s) ==
    /\ tick.at = "reap" /\ tick.todo = {}
    /\ At(s, "off") /\ held[s] # None /\ lease[s].state = "Idle"
    /\ Stops(s, "off")
    /\ tick' = [tick EXCEPT !.todo = {s}]
    /\ UNCHANGED <<caches, volumes, manager, lease, held, running, tree, env>>

FailedCleanup(s) == lease[s] # None /\ lease[s].state = "Failed"

ReapEnds ==
    /\ tick.at = "reap" /\ tick.todo = {}
    /\ LET failed == {s \in Sessions : FailedCleanup(s)}
       IN  tick' = [tick EXCEPT !.at = IF failed = {} THEN "gc" ELSE "retry",
                                !.todo = failed]
    /\ UNCHANGED <<caches, volumes, manager, lease, held, turn, running, tree, env>>

\* retry_failed_cleanup.  A worktree with changes is preserved, and so is the record.
Retry(s) ==
    /\ tick.at = "retry" /\ s \in tick.todo
    /\ turn[s].pc \in {"off", "attach", "using", "index", "failed"}
    /\ IF ~FailedCleanup(s)
          THEN /\ tick' = [tick EXCEPT !.todo = @ \ {s}]
               /\ UNCHANGED <<lease, running, env>>
          ELSE \/ /\ running' = [running EXCEPT ![s] = NoContainers]
                  /\ lease' = IF tree[s].dirty THEN lease ELSE [lease EXCEPT ![s] = None]
                  /\ tick' = [tick EXCEPT !.todo = @ \ {s}, !.failed = @ \/ tree[s].dirty]
                  /\ UNCHANGED env
               \/ /\ Mishap
                  /\ SomeRemoved(s)
                  /\ tick' = [tick EXCEPT !.todo = @ \ {s}, !.failed = TRUE]
                  /\ UNCHANGED lease
    /\ UNCHANGED <<caches, volumes, manager, held, turn, tree>>

RetryEnds ==
    /\ tick.at = "retry" /\ tick.todo = {}
    /\ tick' = IF tick.failed THEN Resting ELSE [tick EXCEPT !.at = "gc"]
    /\ UNCHANGED <<caches, volumes, manager, lease, held, turn, running, tree, env>>

\* Mutant of Collectable: age alone decides.
CollectableThoughAttached(v) ==
    caches[v] # None /\ caches[v].preparing = None /\ caches[v].old

\* What CacheManager::gc removes; a record is judged by what is on disk alone.
Collectable(v) ==
    /\ caches[v] # None
    /\ caches[v].count = 0 /\ caches[v].preparing = None
    /\ caches[v].old

GcStarts ==
    /\ tick.at = "gc" /\ manager = None
    /\ LET unused == {v \in Volumes : Collectable(v)}
       IN  IF unused = {}
             THEN tick' = Resting /\ UNCHANGED manager
             ELSE /\ tick' = [tick EXCEPT !.at = "collect", !.todo = unused]
                  /\ manager' = [by |-> "gc", volume |-> None, done |-> FALSE]
    /\ UNCHANGED <<caches, volumes, lease, held, turn, running, tree, env>>

\* The runtime refuses to remove a volume that a container has mounted.
GcRemovesVolume ==
    /\ tick.at = "collect" /\ ~manager.done
    /\ \E v \in tick.todo :
        \/ /\ \A s \in Sessions : ~Mounted(s, v)
           /\ volumes' = volumes \ {v}
           /\ manager' = [manager EXCEPT !.volume = v, !.done = TRUE]
           /\ UNCHANGED <<tick, env>>
        \/ /\ IF \E s \in Sessions : Mounted(s, v) THEN UNCHANGED env ELSE Mishap
           /\ manager' = None /\ tick' = Resting
           /\ UNCHANGED volumes
    /\ UNCHANGED <<caches, lease, held, turn, running, tree>>

GcRemovesRecord ==
    /\ tick.at = "collect" /\ manager.done
    /\ caches' = [caches EXCEPT ![manager.volume] = None]
    /\ tick' = [tick EXCEPT !.todo = @ \ {manager.volume}]
    /\ manager' = [manager EXCEPT !.volume = None, !.done = FALSE]
    /\ UNCHANGED <<volumes, lease, held, turn, running, tree, env>>

GcEnds ==
    /\ tick.at = "collect" /\ ~manager.done /\ tick.todo = {}
    /\ manager' = None /\ tick' = Resting
    /\ UNCHANGED <<caches, volumes, lease, held, turn, running, tree, env>>

\* Thirty days without an attachment coming or going; they outlast every operation.
Ages(v) ==
    /\ manager = None /\ \A s \in Sessions : turn[s].pc \in {"off", "using"}
    /\ caches[v] # None /\ ~caches[v].old
    /\ caches' = [caches EXCEPT ![v].old = TRUE]
    /\ UNCHANGED <<volumes, manager, lease, held, turn, running, tree, tick, env>>

-----------------------------------------------------------------------------
(* Stops of the daemon, and initialize_global_supervisor                       *)

Down == [at |-> "down", todo |-> {}, failed |-> FALSE]
NoTurn == [pc |-> "off", then |-> "off", fresh |-> {}]

\* What was in memory is gone; the runtime's containers stay.
MemoryLost ==
    /\ held' = [s \in Sessions |-> None]
    /\ turn' = [s \in Sessions |-> NoTurn]
    /\ manager' = None

DaemonStops ==
    /\ tick # Down /\ Counts("crashes", MaxCrashes)
    /\ MemoryLost /\ tick' = Down
    /\ UNCHANGED <<caches, volumes, lease, running, tree>>

\* CacheManager::reconcile
BootForgetsAttachments ==
    /\ tick = Down
    /\ caches' = [v \in Volumes |->
                    IF caches[v] = None THEN None
                    ELSE [caches[v] EXCEPT !.count = 0, !.preparing = None]]
    /\ tick' = [tick EXCEPT !.at = "boot", !.todo = {s \in Sessions : lease[s] # None}]
    /\ UNCHANGED <<volumes, manager, lease, held, turn, running, tree, env>>

\* Mutant of BootAdopts: a start attaches the environment's own caches only.
BootAdoptsBase(s) ==
    /\ tick.at = "boot" /\ s \in tick.todo
    /\ lease[s].state # "Failed" /\ Managed(s)
    /\ running' = [running EXCEPT ![s].sidecar = FALSE]
    /\ lease' = [lease EXCEPT ![s].state = "Idle"]
    /\ LET base == lease[s].caches \cap Base[lease[s].lock]
       IN  /\ caches' = [v \in Volumes |->
                            IF v \in base THEN Attached(caches[v]) ELSE caches[v]]
           /\ held' = [held EXCEPT ![s] = base]
    /\ tick' = [tick EXCEPT !.todo = @ \ {s}]
    /\ UNCHANGED <<turn, manager, volumes, tree, env>>

\* EnvironmentSupervisor::reconcile of one lease that is taken up again.  A cache it
\* names without a record fails the start.
BootAdopts(s) ==
    /\ tick.at = "boot" /\ s \in tick.todo
    /\ lease[s].state # "Failed" /\ Managed(s)
    /\ running' = [running EXCEPT ![s].sidecar = FALSE]
    /\ lease' = [lease EXCEPT ![s].state = "Idle"]
    /\ IF \A v \in lease[s].caches : caches[v] # None
          THEN /\ caches' = [v \in Volumes |->
                                IF v \in lease[s].caches THEN Attached(caches[v]) ELSE caches[v]]
               /\ held' = [held EXCEPT ![s] = lease[s].caches]
               /\ tick' = [tick EXCEPT !.todo = @ \ {s}]
               /\ UNCHANGED <<turn, manager>>
          ELSE MemoryLost /\ tick' = Down /\ UNCHANGED caches
    /\ UNCHANGED <<volumes, tree, env>>

\* A lease that has expired, failed, or lost its container.
BootCleansUp(s) ==
    /\ tick.at = "boot" /\ s \in tick.todo
    /\ \/ /\ running' = [running EXCEPT ![s] = NoContainers]
          /\ lease' = [lease EXCEPT ![s] = None]
          /\ tick' = [tick EXCEPT !.todo = @ \ {s}]
          /\ UNCHANGED <<held, turn, manager, env>>
       \/ Mishap /\ SomeRemoved(s) /\ MemoryLost /\ tick' = Down /\ UNCHANGED lease
    /\ UNCHANGED <<caches, volumes, tree>>

BootEnds ==
    /\ tick.at = "boot" /\ tick.todo = {}
    /\ tick' = Resting
    /\ UNCHANGED <<caches, volumes, manager, lease, held, turn, running, tree, env>>

-----------------------------------------------------------------------------
Init ==
    /\ caches = [v \in Volumes |-> None] /\ volumes = {}
    /\ manager = None
    /\ lease = [s \in Sessions |-> None] /\ held = [s \in Sessions |-> None]
    /\ turn = [s \in Sessions |-> NoTurn]
    /\ running = [s \in Sessions |-> NoContainers]
    /\ \E k \in Locks : tree = [s \in Sessions |-> [lock |-> k, dirty |-> FALSE]]
    /\ tick = Down
    /\ env = [turns |-> 0, edits |-> 0, mishaps |-> 0, crashes |-> 0, revived |-> {}]

\* What a session's operation does once it has begun.
Work(s) ==
    \/ Prepare(s) \/ EnsureVolume(s) \/ EnsureFails(s) \/ Attach(s)
    \/ EverythingAttached(s) \/ AcquireReuses(s) \/ AcquireReplaces(s)
    \/ AcquireRevives(s) \/ AcquireCleansUp(s) \/ AcquireRecords(s)
    \/ AcquireCreates(s) \/ AcquireEnds(s) \/ DropFresh(s) \/ RegisterIndex(s)
    \/ StopContainers(s) \/ ClearAttachments(s) \/ StopEnds(s)

Tick ==
    \/ ReapEnds \/ RetryEnds
    \/ GcStarts \/ GcRemovesVolume \/ GcRemovesRecord \/ GcEnds
    \/ \E s \in Sessions : Reap(s) \/ Retry(s)

Boot ==
    \/ BootForgetsAttachments \/ BootEnds
    \/ \E s \in Sessions : BootAdopts(s) \/ BootCleansUp(s)

Outside ==
    \/ DaemonStops
    \/ \E v \in Volumes : Ages(v)
    \/ \E s \in Sessions :
        \/ TurnStarts(s) \/ StartSidecar(s) \/ SidecarStops(s) \/ Edit(s)
        \/ TurnEnds(s) \/ ContainerLost(s) \/ Terminate(s)

Next == Tick \/ Boot \/ Outside \/ \E s \in Sessions : Work(s)

Spec == Init /\ [][Next]_vars

\* Threads of the daemon get on with what they have begun, its interval ticks, and a
\* daemon that stopped is started again.  Nobody has to start a turn or end one.
FairSpec ==
    /\ Spec
    /\ WF_vars(Tick) /\ WF_vars(Boot)
    /\ \A s \in Sessions : WF_vars(Work(s))

-----------------------------------------------------------------------------
Lease(s) == held[s] # None /\ lease[s].state \in {"InUse", "Idle"}

\* Every value is of its type.
TypeOK ==
    /\ caches \in [Volumes -> CacheRecord \cup {None}]
    /\ volumes \subseteq Volumes
    /\ manager \in ManagerRecord \cup {None}
    /\ lease \in [Sessions -> LeaseRecord \cup {None}]
    /\ held \in [Sessions -> {None} \cup SUBSET Volumes]
    /\ turn \in [Sessions -> TurnRecord]
    /\ running \in [Sessions -> [task : Locks \cup {None}, sidecar : BOOLEAN]]
    /\ tree \in [Sessions -> [lock : Locks, dirty : BOOLEAN]]
    /\ tick \in [at : Ticks \cup {"down", "boot"}, todo : SUBSET (Sessions \cup Volumes),
                 failed : BOOLEAN]
    /\ env \in [turns : Nat, edits : Nat, mishaps : Nat, crashes : Nat,
                revived : SUBSET Sessions]

\* While the daemon runs, the record of a cache counts at least the leases whose
\* containers have its volume mounted, whatever order sessions, reconciliation and
\* drops came in; this is all that keeps the collector away from it.  A lease that
\* was revived after a shutdown that failed is not meant: its record names an index
\* cache that nobody attaches again (session_environment.rs:348).
MountsAreCounted ==
    Up => \A v \in Volumes :
        LET mounts == {s \in Sessions \ env.revived : Lease(s) /\ Mounted(s, v)}
        IN  mounts # {} => /\ v \in volumes /\ caches[v] # None
                           /\ caches[v].count >= Cardinality(mounts)

\* As MountsAreCounted, of every lease.
EveryMountIsCounted ==
    Up => \A v \in Volumes, s \in Sessions :
        Lease(s) /\ Mounted(s, v) => caches[v] # None /\ caches[v].count > 0

\* Every cache that a lease names, and that a start of the daemon would attach again,
\* has its record: otherwise no daemon would start any more.
LeasedCachesAreKnown ==
    \A s \in Sessions \ env.revived :
        lease[s] # None /\ lease[s].state # "Failed" /\ Managed(s)
        => \A v \in lease[s].caches : caches[v] # None

\* A cache that no lease and no turn has attached or is attaching.
Unused(v) ==
    /\ Up /\ caches[v] # None /\ caches[v].old
    /\ \A s \in Sessions :
        /\ held[s] # None => v \notin held[s]
        /\ v \notin turn[s].fresh \cup Wanted(s)
        /\ ~Mounted(s, v)

\* What keeps a tick from the caches: retry_failed_cleanup fails again for work that it
\* preserves, or the runtime refuses an index volume that nobody counted.
Obstructed ==
    \/ \E s \in Sessions : FailedCleanup(s) /\ tree[s].dirty
    \/ \E s \in Sessions, v \in Volumes : Collectable(v) /\ Mounted(s, v)

\* A cache that went unused for its age is collected or used again: no count leaks and
\* no owner stays behind, in any order of sessions, failures and daemon stops, as long
\* as the tick is not kept from the caches.
UnusedCachesAreCollected ==
    \A v \in Volumes : Unused(v) ~> ~Unused(v) \/ Obstructed

\* The document's sentence without the exception: garbage collection enforces the age
\* (docs/session-environment-control-plane.md:266).
AgeIsEnforced == \A v \in Volumes : Unused(v) ~> ~Unused(v)

=============================================================================
