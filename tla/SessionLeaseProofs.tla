-------------------------- MODULE SessionLeaseProofs --------------------------
(* For any number of turns and lease objects and any bounds on what goes      *)
(* wrong: no container exists without its record; and while no turn has       *)
(* acquired a lease that was about to be taken away and no container was      *)
(* removed from outside, turns keep what they acquired and nothing that ran   *)
(* is forgotten.  Each action has a lemma that it preserves LeaseInv: first   *)
(* what it does to each variable, with its type, then the invariant; and a    *)
(* second one that it preserves CalmInv, with a step for each part.           *)
EXTENDS SessionLease, TLAPS

-----------------------------------------------------------------------------
(* Turns *)

LEMMA TurnPreparesStep ==
    ASSUME NEW t \in Turns, LeaseInv, TurnPrepares(t)
    PROVE  LeaseInv'
<1>1. world' \in World /\ world'.container = world.container
  BY DEF LeaseInv, TypeOK, World, TurnPrepares
<1>2. /\ UNCHANGED <<record, memory, map, op, holds, up>>
      /\ up /\ pc[t] = "off" /\ pc' = [pc EXCEPT ![t] = "prepared"]
  BY DEF TurnPrepares, At, Goto
<1> QED BY NothingIsNone, <1>1, <1>2 DEF LeaseInv, TypeOK, LockIsHeld,
      ShutdownOwnsLease, RecordOutlivesContainer, HoldersHaveLeases,
      ContainerIsRecorded, At, Goto, LockedPcs, Pcs, Operation, Actors

LEMMA EnvironmentChangedStep ==
    ASSUME NEW t \in Turns, LeaseInv, EnvironmentChanged(t)
    PROVE  LeaseInv'
<1>1. /\ UNCHANGED <<record, memory, map, op, holds, world, up>>
      /\ up /\ pc[t] = "prepared" /\ pc' = [pc EXCEPT ![t] = "replace"]
  BY DEF EnvironmentChanged, At, Goto
<1> QED BY NothingIsNone, <1>1 DEF LeaseInv, TypeOK, LockIsHeld, ShutdownOwnsLease,
      RecordOutlivesContainer, HoldersHaveLeases, ContainerIsRecorded, At, Goto,
      LockedPcs, Pcs, Operation, Actors

LEMMA AcquireReusesStep ==
    ASSUME NEW t \in Turns, LeaseInv, AcquireReuses(t)
    PROVE  LeaseInv'
<1>1. map \in Leases /\ memory[map] \in LeaseRecord
  BY DEF LeaseInv, TypeOK, AcquireReuses
<1>2. Transitioned(memory[map], "InUse", "InUse") \in LeaseRecord
      /\ Transitioned(memory[map], "InUse", "InUse").desired = "InUse"
  BY <1>1 DEF Transitioned, LeaseRecord, LeaseState
<1>3. /\ memory' = [memory EXCEPT ![map] = Transitioned(@, "InUse", "InUse")]
      /\ record' = memory'[map] /\ holds' = [holds EXCEPT ![t] = map]
      /\ op = None /\ UNCHANGED <<map, op, world, up>>
      /\ up /\ pc[t] = "prepared" /\ pc' = [pc EXCEPT ![t] = "using"]
  BY DEF AcquireReuses, Transition, Holds, At, Goto
<1>4. /\ memory' \in [Leases -> LeaseRecord \cup {None}]
      /\ \A l \in Leases : memory[l] # None => memory'[l] # None
      /\ record' \in LeaseRecord /\ record' # None /\ record' = memory'[map]
      /\ record'.desired = "InUse"
  BY NothingIsNone, <1>1, <1>2, <1>3 DEF LeaseInv, TypeOK
<1> QED BY NothingIsNone, <1>1, <1>2, <1>3, <1>4 DEF LeaseInv, TypeOK, LockIsHeld,
      ShutdownOwnsLease, RecordOutlivesContainer, HoldersHaveLeases,
      ContainerIsRecorded, At, Goto, LockedPcs, Pcs, Operation, Actors

LEMMA AcquireRetiresStep ==
    ASSUME NEW t \in Turns, LeaseInv, AcquireRetires(t)
    PROVE  LeaseInv'
<1>1. map \in Leases /\ memory[map] \in LeaseRecord
  BY DEF LeaseInv, TypeOK, AcquireRetires
<1>2. Transitioned(memory[map], "Stopping", "Stopping") \in LeaseRecord
  BY <1>1 DEF Transitioned, LeaseRecord, LeaseState
<1>3. /\ memory' = [memory EXCEPT ![map] = Transitioned(@, "Stopping", "Stopping")]
      /\ record' = memory'[map] /\ map' = None
      /\ op = None /\ op' = [by |-> t, lease |-> map, then |-> "reserve"]
      /\ UNCHANGED <<holds, world, up>>
      /\ up /\ pc[t] = "prepared" /\ pc' = [pc EXCEPT ![t] = "shutdown"]
  BY DEF AcquireRetires, Transition, At, Goto
<1>4. /\ memory' \in [Leases -> LeaseRecord \cup {None}]
      /\ \A l \in Leases : memory[l] # None => memory'[l] # None
      /\ record' \in LeaseRecord /\ record' # None /\ memory'[map] # None
  BY NothingIsNone, <1>1, <1>2, <1>3 DEF LeaseInv, TypeOK
<1>5. op' \in Operation /\ op' # None /\ op'.by = t /\ op'.lease = map /\ map # None
  BY NothingIsNone, LeaseAssumption, <1>1, <1>3 DEF Operation, Actors
<1> QED BY NothingIsNone, <1>1, <1>2, <1>3, <1>4, <1>5 DEF LeaseInv, TypeOK,
      LockIsHeld, ShutdownOwnsLease, RecordOutlivesContainer, HoldersHaveLeases,
      ContainerIsRecorded, At, Goto, LockedPcs, Pcs, Operation, Actors

LEMMA AcquireAdoptsStep ==
    ASSUME NEW t \in Turns, LeaseInv, AcquireAdopts(t)
    PROVE  LeaseInv'
<1>1. record \in LeaseRecord /\ Transitioned(record, "InUse", "InUse") \in LeaseRecord
      /\ Transitioned(record, "InUse", "InUse").desired = "InUse"
  BY DEF LeaseInv, TypeOK, AcquireAdopts, Adoptable, Transitioned, LeaseRecord,
     LeaseState
<1>2. PICK o \in Leases :
      /\ memory' = [memory EXCEPT ![o] = Transitioned(record, "InUse", "InUse")]
      /\ map' = o /\ record' = memory'[o] /\ holds' = [holds EXCEPT ![t] = o]
      /\ op = None /\ UNCHANGED <<op, world, up>>
      /\ up /\ pc[t] = "prepared" /\ pc' = [pc EXCEPT ![t] = "using"]
  BY DEF AcquireAdopts, Holds, At, Goto
<1>3. /\ memory' \in [Leases -> LeaseRecord \cup {None}]
      /\ \A l \in Leases : memory[l] # None => memory'[l] # None
      /\ record' \in LeaseRecord /\ record' # None /\ record' = memory'[o]
      /\ record'.desired = "InUse"
  BY NothingIsNone, <1>1, <1>2 DEF LeaseInv, TypeOK
<1> QED BY NothingIsNone, <1>1, <1>2, <1>3 DEF LeaseInv, TypeOK, LockIsHeld,
      ShutdownOwnsLease, RecordOutlivesContainer, HoldersHaveLeases,
      ContainerIsRecorded, At, Goto, LockedPcs, Pcs, Operation, Actors

LEMMA AcquireDiscardsStep ==
    ASSUME NEW t \in Turns, LeaseInv, AcquireDiscards(t)
    PROVE  LeaseInv'
<1>1. /\ op = None /\ op' = [by |-> t, lease |-> None, then |-> "reserve"]
      /\ record # None
      /\ UNCHANGED <<record, memory, map, holds, world, up>>
      /\ up /\ pc[t] = "prepared" /\ pc' = [pc EXCEPT ![t] = "cleanup"]
  BY DEF AcquireDiscards, At, Goto
<1>2. op' \in Operation /\ op' # None /\ op'.by = t
  BY NothingIsNone, <1>1 DEF Operation, Actors
<1> QED BY NothingIsNone, <1>1, <1>2 DEF LeaseInv, TypeOK, LockIsHeld,
      ShutdownOwnsLease, RecordOutlivesContainer, HoldersHaveLeases,
      ContainerIsRecorded, At, Goto, LockedPcs, Pcs, Operation, Actors

LEMMA AcquireStartsStep ==
    ASSUME NEW t \in Turns, LeaseInv, AcquireStarts(t)
    PROVE  LeaseInv'
<1>1. /\ op = None /\ op' = [by |-> t, lease |-> None, then |-> "reserve"]
      /\ UNCHANGED <<record, memory, map, holds, world, up>>
      /\ up /\ pc[t] = "prepared" /\ pc' = [pc EXCEPT ![t] = "reserve"]
  BY DEF AcquireStarts, At, Goto
<1>2. op' \in Operation /\ op' # None /\ op'.by = t
  BY NothingIsNone, <1>1 DEF Operation, Actors
<1> QED BY NothingIsNone, <1>1, <1>2 DEF LeaseInv, TypeOK, LockIsHeld,
      ShutdownOwnsLease, RecordOutlivesContainer, HoldersHaveLeases,
      ContainerIsRecorded, At, Goto, LockedPcs, Pcs, Operation, Actors

LEMMA ReserveStep ==
    ASSUME NEW t \in Turns, LeaseInv, Reserve(t)
    PROVE  LeaseInv'
<1>1. record' \in LeaseRecord
  BY DEF Reserve, LeaseRecord, LeaseState
<1>2. record' # None
  BY NothingIsNone, <1>1
<1>3. /\ UNCHANGED <<memory, map, op, holds, world, up>>
      /\ up /\ pc[t] = "reserve" /\ pc' = [pc EXCEPT ![t] = "creating"]
  BY DEF Reserve, At, Goto, Counts
<1> QED BY NothingIsNone, <1>1, <1>2, <1>3 DEF LeaseInv, TypeOK, LockIsHeld,
      ShutdownOwnsLease, RecordOutlivesContainer, HoldersHaveLeases,
      ContainerIsRecorded, At, Goto, LockedPcs, Pcs, Operation, Actors

LEMMA CreateContainerStep ==
    ASSUME NEW t \in Turns, LeaseInv, CreateContainer(t)
    PROVE  LeaseInv'
<1>1. world' \in World /\ world'.container
  BY DEF LeaseInv, TypeOK, World, CreateContainer
<1>2. /\ UNCHANGED <<record, memory, map, op, holds, up>>
      /\ up /\ pc[t] = "creating" /\ pc' = [pc EXCEPT ![t] = "created"]
  BY DEF CreateContainer, At, Goto
<1> QED BY NothingIsNone, <1>1, <1>2 DEF LeaseInv, TypeOK, LockIsHeld,
      ShutdownOwnsLease, RecordOutlivesContainer, HoldersHaveLeases,
      ContainerIsRecorded, At, Goto, LockedPcs, Pcs, Operation, Actors

LEMMA CreateFailsStep ==
    ASSUME NEW t \in Turns, LeaseInv, CreateFails(t)
    PROVE  LeaseInv'
<1>1. record' \in LeaseRecord
  BY DEF CreateFails, FailedRecord, LeaseRecord, LeaseState
<1>2. record' # None
  BY NothingIsNone, <1>1
<1>3. world' \in World /\ (world'.container => world.container)
  BY DEF LeaseInv, TypeOK, World, CreateFails
<1>4. /\ op' = None /\ UNCHANGED <<memory, map, holds, up>>
      /\ up /\ pc[t] \in {"creating", "created"} /\ pc' = [pc EXCEPT ![t] = "sweep"]
  BY DEF CreateFails, At, Goto, Counts
<1> QED BY NothingIsNone, <1>1, <1>2, <1>3, <1>4 DEF LeaseInv, TypeOK, LockIsHeld,
      ShutdownOwnsLease, RecordOutlivesContainer, HoldersHaveLeases,
      ContainerIsRecorded, At, Goto, LockedPcs, Pcs, Operation, Actors

LEMMA AcquireFinishesStep ==
    ASSUME NEW t \in Turns, LeaseInv, AcquireFinishes(t)
    PROVE  LeaseInv'
<1>1. PICK o \in Leases :
      /\ map' = o /\ record' = memory'[o] /\ holds' = [holds EXCEPT ![t] = o]
      /\ memory' = [memory EXCEPT ![o] =
            [desired |-> "InUse", observed |-> "InUse", expired |-> FALSE,
             service |-> FALSE]]
  BY DEF AcquireFinishes, Holds
<1>2. [desired |-> "InUse", observed |-> "InUse", expired |-> FALSE, service |-> FALSE]
          \in LeaseRecord
  BY DEF LeaseRecord, LeaseState
<1>3. /\ memory' \in [Leases -> LeaseRecord \cup {None}]
      /\ \A l \in Leases : memory[l] # None => memory'[l] # None
      /\ record' \in LeaseRecord /\ record' # None /\ record' = memory'[o]
      /\ record'.desired = "InUse"
  BY NothingIsNone, <1>1, <1>2 DEF LeaseInv, TypeOK
<1>4. /\ op' = None /\ UNCHANGED <<world, up>>
      /\ up /\ pc[t] = "created" /\ pc' = [pc EXCEPT ![t] = "using"]
  BY DEF AcquireFinishes, Holds, At, Goto
<1> QED BY NothingIsNone, <1>1, <1>2, <1>3, <1>4 DEF LeaseInv, TypeOK, LockIsHeld,
      ShutdownOwnsLease, RecordOutlivesContainer, HoldersHaveLeases,
      ContainerIsRecorded, At, Goto, LockedPcs, Pcs, Operation, Actors

LEMMA TurnWorksStep ==
    ASSUME NEW t \in Turns, LeaseInv, TurnWorks(t)
    PROVE  LeaseInv'
<1>1. world' \in World /\ world'.container = world.container
  BY DEF LeaseInv, TypeOK, World, TurnWorks
<1>2. UNCHANGED <<record, memory, map, op, pc, holds, up>>
  BY DEF TurnWorks, At, Goto, Counts
<1> QED BY NothingIsNone, <1>1, <1>2 DEF LeaseInv, TypeOK, LockIsHeld,
      ShutdownOwnsLease, RecordOutlivesContainer, HoldersHaveLeases,
      ContainerIsRecorded, At, Goto, LockedPcs, Pcs, Operation, Actors

LEMMA RegisterServiceStep ==
    ASSUME NEW t \in Turns, LeaseInv, RegisterService(t)
    PROVE  LeaseInv'
<1>1. holds[t] \in Leases /\ memory[holds[t]] \in LeaseRecord
  BY DEF LeaseInv, TypeOK, HoldersHaveLeases, RegisterService, At
<1>2. /\ [memory[holds[t]] EXCEPT !.service = TRUE] \in LeaseRecord
      /\ [memory[holds[t]] EXCEPT !.service = TRUE].desired = memory[holds[t]].desired
  BY <1>1 DEF LeaseRecord
<1>3. /\ memory' \in [Leases -> LeaseRecord \cup {None}]
      /\ \A l \in Leases : /\ memory[l] # None => memory'[l] # None
                           /\ l # holds[t] => memory'[l] = memory[l]
      /\ memory'[holds[t]] \in LeaseRecord
      /\ memory'[holds[t]].desired = memory[holds[t]].desired
  BY NothingIsNone, <1>1, <1>2 DEF LeaseInv, TypeOK, RegisterService
<1>4. /\ record' \in LeaseRecord \cup {None}
      /\ record # None => record' # None
  BY NothingIsNone, <1>3 DEF LeaseInv, TypeOK, RegisterService
<1>5. /\ UNCHANGED <<map, op, holds, world, up>>
      /\ up /\ pc[t] = "using" /\ pc' = [pc EXCEPT ![t] = "spawning"]
  BY DEF RegisterService, At, Goto
<1> QED BY NothingIsNone, <1>1, <1>2, <1>3, <1>4, <1>5 DEF LeaseInv, TypeOK,
      LockIsHeld, ShutdownOwnsLease, RecordOutlivesContainer, HoldersHaveLeases,
      ContainerIsRecorded, At, Goto, LockedPcs, Pcs, Operation, Actors

LEMMA SpawnServiceStep ==
    ASSUME NEW t \in Turns, LeaseInv, SpawnService(t)
    PROVE  LeaseInv'
<1>1. world' \in World /\ world'.container = world.container
  BY DEF LeaseInv, TypeOK, World, SpawnService
<1>2. /\ UNCHANGED <<record, memory, map, op, holds, up>>
      /\ up /\ pc[t] = "spawning" /\ pc' = [pc EXCEPT ![t] = "using"]
  BY DEF SpawnService, At, Goto
<1> QED BY NothingIsNone, <1>1, <1>2 DEF LeaseInv, TypeOK, LockIsHeld,
      ShutdownOwnsLease, RecordOutlivesContainer, HoldersHaveLeases,
      ContainerIsRecorded, At, Goto, LockedPcs, Pcs, Operation, Actors

LEMMA TurnEndsStep ==
    ASSUME NEW t \in Turns, LeaseInv, TurnEnds(t)
    PROVE  LeaseInv'
<1>1. PICK label \in {"off", "releasing", "terminate"} :
      /\ holds' = [holds EXCEPT ![t] = None]
      /\ UNCHANGED <<record, memory, map, op, world, up>>
      /\ up /\ pc[t] = "using" /\ pc' = [pc EXCEPT ![t] = label]
  BY DEF TurnEnds, At, Goto
<1> QED BY NothingIsNone, <1>1 DEF LeaseInv, TypeOK, LockIsHeld, ShutdownOwnsLease,
      RecordOutlivesContainer, HoldersHaveLeases, ContainerIsRecorded, At, Goto,
      LockedPcs, Pcs, Operation, Actors

LEMMA MarkIdleStep ==
    ASSUME NEW t \in Turns, LeaseInv, MarkIdle(t)
    PROVE  LeaseInv'
<1>1. map # None =>
      [Transitioned(memory[map], "Idle", "Idle") EXCEPT !.expired = FALSE] \in
          {rec \in LeaseRecord : rec.desired = "Idle"}
  BY DEF LeaseInv, TypeOK, Transitioned, LeaseRecord, LeaseState
<1>2. /\ memory' \in [Leases -> LeaseRecord \cup {None}]
      /\ \A l \in Leases : memory[l] # None => memory'[l] # None
      /\ map # None => memory'[map] # None /\ memory'[map].desired = "Idle"
  BY NothingIsNone, <1>1 DEF LeaseInv, TypeOK, MarkIdle
<1>3. /\ record' \in LeaseRecord \cup {None}
      /\ record # None => record' # None
  BY NothingIsNone, <1>2 DEF LeaseInv, TypeOK, MarkIdle
<1>4. /\ UNCHANGED <<map, op, holds, world, up>>
      /\ up /\ pc[t] = "releasing" /\ pc' = [pc EXCEPT ![t] = "off"]
  BY DEF MarkIdle, At, Goto
<1> QED BY NothingIsNone, <1>1, <1>2, <1>3, <1>4 DEF LeaseInv, TypeOK, LockIsHeld,
      ShutdownOwnsLease, RecordOutlivesContainer, HoldersHaveLeases,
      ContainerIsRecorded, At, Goto, LockedPcs, Pcs, Operation, Actors

-----------------------------------------------------------------------------
(* EnvironmentSupervisor::terminate and what it calls *)

LEMMA TerminateBeginsStep ==
    ASSUME NEW a \in Actors, LeaseInv, TerminateBegins(a)
    PROVE  LeaseInv'
<1>1. /\ UNCHANGED <<holds, world, up>>
      /\ up /\ pc[a] \in {"terminate", "replace"} /\ op = None /\ map' = None
  BY DEF TerminateBegins, TakesFromMap, At
<1>2. AfterTerminate(a) \in {"prepared", "off", "sweep"}
  BY DEF AfterTerminate
<1>3. CASE map # None
  <2>1. map \in Leases /\ memory[map] \in LeaseRecord
    BY <1>3 DEF LeaseInv, TypeOK
  <2>2. Transitioned(memory[map], "Stopping", "Stopping") \in LeaseRecord
    BY <2>1 DEF Transitioned, LeaseRecord, LeaseState
  <2>3. /\ memory' = [memory EXCEPT ![map] = Transitioned(@, "Stopping", "Stopping")]
        /\ record' = memory'[map] /\ pc' = [pc EXCEPT ![a] = "shutdown"]
        /\ op' = [by |-> a, lease |-> map, then |-> AfterTerminate(a)]
    BY <1>3 DEF TerminateBegins, Transition, Goto
  <2>4. /\ memory' \in [Leases -> LeaseRecord \cup {None}]
        /\ \A l \in Leases : memory[l] # None => memory'[l] # None
        /\ record' \in LeaseRecord /\ record' # None /\ memory'[map] # None
    BY NothingIsNone, <2>1, <2>2, <2>3 DEF LeaseInv, TypeOK
  <2>5. op' \in Operation /\ op' # None /\ op'.by = a /\ op'.lease = map
    BY NothingIsNone, <1>2, <2>1, <2>3 DEF Operation
  <2> QED BY NothingIsNone, <1>1, <1>3, <2>1, <2>3, <2>4, <2>5 DEF LeaseInv, TypeOK,
        LockIsHeld, ShutdownOwnsLease, RecordOutlivesContainer, HoldersHaveLeases,
        ContainerIsRecorded, At, Goto, LockedPcs, Pcs, Operation, Actors
<1>4. CASE map = None
  <2>1. UNCHANGED <<record, memory>>
    BY <1>4 DEF TerminateBegins
  <2>2. CASE record = None
    <3>1. op' = None /\ pc' = [pc EXCEPT ![a] = AfterTerminate(a)]
      BY <1>4, <2>2 DEF TerminateBegins, Goto
    <3> QED BY NothingIsNone, <1>1, <1>2, <1>4, <2>1, <3>1 DEF LeaseInv, TypeOK,
          LockIsHeld, ShutdownOwnsLease, RecordOutlivesContainer, HoldersHaveLeases,
          ContainerIsRecorded, At, Goto, LockedPcs, Pcs, Operation, Actors
  <2>3. CASE record # None
    <3>1. /\ op' = [by |-> a, lease |-> None, then |-> AfterTerminate(a)]
          /\ pc' = [pc EXCEPT ![a] = "cleanup"]
      BY <1>4, <2>3 DEF TerminateBegins, Goto
    <3>2. op' \in Operation /\ op' # None /\ op'.by = a
      BY NothingIsNone, <1>2, <3>1 DEF Operation
    <3> QED BY NothingIsNone, <1>1, <1>4, <2>1, <2>3, <3>1, <3>2 DEF LeaseInv,
          TypeOK, LockIsHeld, ShutdownOwnsLease, RecordOutlivesContainer,
          HoldersHaveLeases, ContainerIsRecorded, At, Goto, LockedPcs, Pcs,
          Operation, Actors
  <2> QED BY <2>2, <2>3
<1> QED BY <1>3, <1>4

LEMMA ShutdownRemovesStep ==
    ASSUME NEW a \in Actors, LeaseInv, ShutdownRemoves(a)
    PROVE  LeaseInv'
<1>1. memory[op.lease] \in LeaseRecord
  BY DEF LeaseInv, TypeOK, ShutdownOwnsLease, ShutdownRemoves, At
<1>2. world' \in World /\ ~world'.container
  BY <1>1 DEF LeaseInv, TypeOK, World, LeaseRecord, Cleaned, ShutdownRemoves
<1>3. /\ UNCHANGED <<record, memory, map, op, holds, up>>
      /\ up /\ pc[a] = "shutdown" /\ pc' = [pc EXCEPT ![a] = "removed"]
  BY DEF ShutdownRemoves, At, Goto
<1> QED BY NothingIsNone, <1>1, <1>2, <1>3 DEF LeaseInv, TypeOK, LockIsHeld,
      ShutdownOwnsLease, RecordOutlivesContainer, HoldersHaveLeases,
      ContainerIsRecorded, At, Goto, LockedPcs, Pcs, Operation, Actors

LEMMA ShutdownFailsStep ==
    ASSUME NEW a \in Actors, LeaseInv, ShutdownFails(a)
    PROVE  LeaseInv'
<1>1. world' \in World /\ (world'.container => world.container)
  BY DEF LeaseInv, TypeOK, World, PartlyCleaned, ShutdownFails
<1>2. op.lease \in Leases /\ op.lease # map /\ memory[op.lease] \in LeaseRecord
  BY DEF LeaseInv, TypeOK, ShutdownOwnsLease, ShutdownFails, At
<1>3. Transitioned(memory[op.lease], "Stopped", "Failed") \in LeaseRecord
  BY <1>2 DEF Transitioned, LeaseRecord, LeaseState
<1>4. /\ memory' \in [Leases -> LeaseRecord \cup {None}]
      /\ \A l \in Leases : /\ memory[l] # None => memory'[l] # None
                           /\ l # op.lease => memory'[l] = memory[l]
  BY NothingIsNone, <1>2, <1>3 DEF LeaseInv, TypeOK, ShutdownFails, RecordsFailure,
     Transition
<1>5. record' \in LeaseRecord /\ record' # None
  BY NothingIsNone, <1>2, <1>3 DEF LeaseInv, TypeOK, ShutdownFails, RecordsFailure,
     Transition
<1>6. /\ op' = None /\ UNCHANGED <<map, holds, up>>
      /\ up /\ pc[a] = "shutdown" /\ pc' = [pc EXCEPT ![a] = AfterFailure(a)]
      /\ AfterFailure(a) \in {"sweep", "off"}
  BY DEF ShutdownFails, At, Goto, AfterFailure
<1> QED BY NothingIsNone, <1>1, <1>2, <1>3, <1>4, <1>5, <1>6 DEF LeaseInv, TypeOK,
      LockIsHeld, ShutdownOwnsLease, RecordOutlivesContainer, HoldersHaveLeases,
      ContainerIsRecorded, At, Goto, LockedPcs, Pcs, Operation, Actors

LEMMA ShutdownForgetsStep ==
    ASSUME NEW a \in Actors, LeaseInv, ShutdownForgets(a)
    PROVE  LeaseInv'
<1>1. op \in Operation /\ op.lease \in Leases /\ op.lease # map /\ memory[op.lease] \in LeaseRecord
  BY NothingIsNone DEF LeaseInv, TypeOK, LockIsHeld, ShutdownOwnsLease,
     ShutdownForgets, At, LockedPcs
<1>2. Transitioned(memory[op.lease], "Stopped", "Stopped") \in LeaseRecord
  BY <1>1 DEF Transitioned, LeaseRecord, LeaseState
<1>3. /\ memory' \in [Leases -> LeaseRecord \cup {None}]
      /\ \A l \in Leases : /\ memory[l] # None => memory'[l] # None
                           /\ l # op.lease => memory'[l] = memory[l]
  BY NothingIsNone, <1>1, <1>2 DEF LeaseInv, TypeOK, ShutdownForgets
<1>4. /\ op' = (IF op.then = "reserve" THEN op ELSE None) /\ record' = None
      /\ UNCHANGED <<map, holds, world, up>>
      /\ up /\ pc[a] = "removed" /\ pc' = [pc EXCEPT ![a] = op.then]
  BY DEF ShutdownForgets, Releases, At, Goto
<1>5. op.then \in {"reserve", "prepared", "off", "sweep", "retry"}
  BY <1>1 DEF Operation
<1> QED BY NothingIsNone, <1>1, <1>2, <1>3, <1>4, <1>5 DEF LeaseInv, TypeOK,
      LockIsHeld, ShutdownOwnsLease, RecordOutlivesContainer, HoldersHaveLeases,
      ContainerIsRecorded, At, Goto, LockedPcs, Pcs, Operation, Actors

LEMMA CleanupRemovesStep ==
    ASSUME NEW a \in Actors, LeaseInv, CleanupRemoves(a)
    PROVE  LeaseInv'
<1>1. record \in LeaseRecord
  BY DEF LeaseInv, TypeOK, RecordOutlivesContainer, CleanupRemoves, At
<1>2. world' \in World /\ ~world'.container
  BY <1>1 DEF LeaseInv, TypeOK, World, LeaseRecord, Cleaned, CleanupRemoves
<1>3. /\ UNCHANGED <<record, memory, map, op, holds, up>>
      /\ up /\ pc[a] = "cleanup" /\ pc' = [pc EXCEPT ![a] = "cleaned"]
  BY DEF CleanupRemoves, At, Goto
<1> QED BY NothingIsNone, <1>1, <1>2, <1>3 DEF LeaseInv, TypeOK, LockIsHeld,
      ShutdownOwnsLease, RecordOutlivesContainer, HoldersHaveLeases,
      ContainerIsRecorded, At, Goto, LockedPcs, Pcs, Operation, Actors

LEMMA CleanupFailsStep ==
    ASSUME NEW a \in Actors, LeaseInv, CleanupFails(a)
    PROVE  LeaseInv'
<1>1. world' \in World /\ (world'.container => world.container)
  BY DEF LeaseInv, TypeOK, World, PartlyCleaned, CleanupFails
<1>2. /\ op' = None /\ AfterFailure(a) \in {"sweep", "off"}
      /\ UNCHANGED <<record, memory, map, holds, up>>
      /\ up /\ pc[a] = "cleanup" /\ pc' = [pc EXCEPT ![a] = AfterFailure(a)]
  BY DEF CleanupFails, At, Goto, AfterFailure
<1> QED BY NothingIsNone, <1>1, <1>2 DEF LeaseInv, TypeOK, LockIsHeld,
      ShutdownOwnsLease, RecordOutlivesContainer, HoldersHaveLeases,
      ContainerIsRecorded, At, Goto, LockedPcs, Pcs, Operation, Actors

LEMMA CleanupForgetsStep ==
    ASSUME NEW a \in Actors, LeaseInv, CleanupForgets(a)
    PROVE  LeaseInv'
<1>1. op \in Operation /\ op.then \in {"reserve", "prepared", "off", "sweep", "retry"}
  BY DEF LeaseInv, TypeOK, LockIsHeld, CleanupForgets, At, LockedPcs, Operation
<1>2. /\ op' = (IF op.then = "reserve" THEN op ELSE None) /\ record' = None
      /\ UNCHANGED <<memory, map, holds, world, up>>
      /\ up /\ pc[a] = "cleaned" /\ pc' = [pc EXCEPT ![a] = op.then]
  BY DEF CleanupForgets, Releases, At, Goto
<1> QED BY NothingIsNone, <1>1, <1>2 DEF LeaseInv, TypeOK, LockIsHeld,
      ShutdownOwnsLease, RecordOutlivesContainer, HoldersHaveLeases,
      ContainerIsRecorded, At, Goto, LockedPcs, Pcs, Operation, Actors

LEMMA SweepStep ==
    ASSUME NEW a \in Actors, LeaseInv, Sweep(a)
    PROVE  LeaseInv'
<1>1. world' \in World /\ world'.container = world.container
  BY DEF LeaseInv, TypeOK, World, Sweep, Swept
<1>2. PICK label \in {"retry", "off"} :
      /\ UNCHANGED <<record, memory, map, op, holds, up>>
      /\ up /\ pc[a] = "sweep" /\ pc' = [pc EXCEPT ![a] = label]
  BY DEF Sweep, At, Goto
<1> QED BY NothingIsNone, <1>1, <1>2 DEF LeaseInv, TypeOK, LockIsHeld,
      ShutdownOwnsLease, RecordOutlivesContainer, HoldersHaveLeases,
      ContainerIsRecorded, At, Goto, LockedPcs, Pcs, Operation, Actors

LEMMA LockTimesOutStep ==
    ASSUME NEW a \in Actors, LeaseInv, LockTimesOut(a)
    PROVE  LeaseInv'
<1> DEFINE label == IF a \in Turns /\ pc[a] # "releasing" THEN "sweep" ELSE "off"
<1>1. /\ UNCHANGED <<record, memory, map, op, holds, world, up>>
      /\ pc[a] \in {"prepared", "releasing", "terminate", "replace", "retry"}
      /\ pc' = [pc EXCEPT ![a] = label]
  BY DEF LockTimesOut, Goto
<1>2. up
  BY <1>1 DEF LeaseInv, HoldersHaveLeases
<1>3. label \in {"sweep", "off"}
  OBVIOUS
<1> HIDE DEF label
<1> QED BY NothingIsNone, <1>1, <1>2, <1>3 DEF LeaseInv, TypeOK, LockIsHeld,
      ShutdownOwnsLease, RecordOutlivesContainer, HoldersHaveLeases,
      ContainerIsRecorded, At, Goto, LockedPcs, Pcs, Operation, Actors

-----------------------------------------------------------------------------
(* The cleanup tick, session commits, and the daemon's life *)

LEMMA ReaperListsStep ==
    ASSUME LeaseInv, ReaperLists
    PROVE  LeaseInv'
<1>1. PICK label \in {"terminate", "retry"} :
      /\ UNCHANGED <<record, memory, map, op, holds, world, up>>
      /\ up /\ pc["reaper"] = "off" /\ pc' = [pc EXCEPT !["reaper"] = label]
  BY DEF ReaperLists, At, Goto
<1> QED BY NothingIsNone, <1>1 DEF LeaseInv, TypeOK, LockIsHeld, ShutdownOwnsLease,
      RecordOutlivesContainer, HoldersHaveLeases, ContainerIsRecorded, At, Goto,
      LockedPcs, Pcs, Operation, Actors

LEMMA RetryBeginsStep ==
    ASSUME LeaseInv, RetryBegins
    PROVE  LeaseInv'
<1>1. /\ UNCHANGED <<record, memory, map, holds, world, up>>
      /\ up /\ pc["reaper"] = "retry" /\ op = None
  BY DEF RetryBegins, At
<1>2. CASE /\ op' = None /\ pc' = [pc EXCEPT !["reaper"] = "off"]
  BY NothingIsNone, <1>1, <1>2 DEF LeaseInv, TypeOK, LockIsHeld, ShutdownOwnsLease,
     RecordOutlivesContainer, HoldersHaveLeases, ContainerIsRecorded, At, Goto,
     LockedPcs, Pcs, Operation, Actors
<1>3. CASE /\ op' = [by |-> "reaper", lease |-> None, then |-> "retry"]
           /\ pc' = [pc EXCEPT !["reaper"] = "cleanup"] /\ record # None
  <2>1. op' \in Operation /\ op' # None /\ op'.by = "reaper"
    BY NothingIsNone, <1>3 DEF Operation, Actors
  <2> QED BY NothingIsNone, <1>1, <1>3, <2>1 DEF LeaseInv, TypeOK, LockIsHeld,
        ShutdownOwnsLease, RecordOutlivesContainer, HoldersHaveLeases,
        ContainerIsRecorded, At, Goto, LockedPcs, Pcs, Operation, Actors
<1> QED BY <1>1, <1>2, <1>3 DEF RetryBegins, Goto

LEMMA RetryFinishesStep ==
    ASSUME LeaseInv, RetryFinishes
    PROVE  LeaseInv'
<1>1. world' \in World /\ world'.container = world.container
  BY DEF LeaseInv, TypeOK, World, RetryFinishes, Swept
<1>2. /\ op' = None /\ record' \in {record, None} /\ UNCHANGED <<memory, map, holds, up>>
      /\ up /\ pc["reaper"] = "cleaned" /\ pc' = [pc EXCEPT !["reaper"] = "off"]
  BY DEF RetryFinishes, At, Goto
<1> QED BY NothingIsNone, <1>1, <1>2 DEF LeaseInv, TypeOK, LockIsHeld,
      ShutdownOwnsLease, RecordOutlivesContainer, HoldersHaveLeases,
      ContainerIsRecorded, At, Goto, LockedPcs, Pcs, Operation, Actors

LEMMA UserTerminatesStep ==
    ASSUME LeaseInv, UserTerminates
    PROVE  LeaseInv'
<1>1. /\ UNCHANGED <<record, memory, map, op, holds, world, up>>
      /\ up /\ pc["user"] = "off" /\ pc' = [pc EXCEPT !["user"] = "terminate"]
  BY DEF UserTerminates, At, Goto
<1> QED BY NothingIsNone, <1>1 DEF LeaseInv, TypeOK, LockIsHeld, ShutdownOwnsLease,
      RecordOutlivesContainer, HoldersHaveLeases, ContainerIsRecorded, At, Goto,
      LockedPcs, Pcs, Operation, Actors

LEMMA ExpireStep ==
    ASSUME LeaseInv, Expire
    PROVE  LeaseInv'
<1>1. [record EXCEPT !.expired = TRUE] \in LeaseRecord
  BY DEF LeaseInv, TypeOK, Expire, LeaseRecord
<1>2. \A rec \in LeaseRecord :
      /\ [rec EXCEPT !.expired = TRUE] \in LeaseRecord
      /\ [rec EXCEPT !.expired = TRUE].desired = rec.desired
  BY DEF LeaseRecord
<1>3. \A l \in Leases :
      /\ memory[l] = None => memory'[l] = None
      /\ memory[l] # None => /\ memory'[l] \in LeaseRecord /\ memory'[l] # None
                             /\ memory'[l].desired = memory[l].desired
  BY NothingIsNone, <1>2 DEF LeaseInv, TypeOK, Expire
<1>4. memory' \in [Leases -> LeaseRecord \cup {None}] /\ record' \in LeaseRecord
  BY <1>1, <1>3 DEF LeaseInv, TypeOK, Expire
<1>5. UNCHANGED <<map, op, pc, holds, world, up>>
  BY DEF Expire
<1> QED BY NothingIsNone, <1>1, <1>2, <1>3, <1>4, <1>5 DEF LeaseInv, TypeOK,
      LockIsHeld, ShutdownOwnsLease, RecordOutlivesContainer, HoldersHaveLeases,
      ContainerIsRecorded, At, Goto, LockedPcs, Pcs, Operation, Actors

LEMMA ContainerLostStep ==
    ASSUME LeaseInv, ContainerLost
    PROVE  LeaseInv'
<1>1. world' \in World /\ (world'.container => world.container)
  BY DEF LeaseInv, TypeOK, World, ContainerLost
<1>2. UNCHANGED <<record, memory, map, op, pc, holds, up>>
  BY DEF ContainerLost, At, Goto, Counts
<1> QED BY NothingIsNone, <1>1, <1>2 DEF LeaseInv, TypeOK, LockIsHeld,
      ShutdownOwnsLease, RecordOutlivesContainer, HoldersHaveLeases,
      ContainerIsRecorded, At, Goto, LockedPcs, Pcs, Operation, Actors

LEMMA DaemonStopsStep ==
    ASSUME LeaseInv, DaemonStops
    PROVE  LeaseInv'
<1>1. memory' \in [Leases -> LeaseRecord \cup {None}]
  BY DEF DaemonStops
<1>2. /\ pc' = [a \in Actors |-> "off"] /\ holds' = [t \in Turns |-> None]
      /\ map' = None /\ op' = None /\ up' = FALSE /\ UNCHANGED <<record, world>>
  BY DEF DaemonStops
<1> QED BY NothingIsNone, <1>1, <1>2 DEF LeaseInv, TypeOK, LockIsHeld,
      ShutdownOwnsLease, RecordOutlivesContainer, HoldersHaveLeases,
      ContainerIsRecorded, At, Goto, LockedPcs, Pcs, Operation, Actors

LEMMA ReconcileAdoptsStep ==
    ASSUME LeaseInv, ReconcileAdopts
    PROVE  LeaseInv'
<1>1. world' \in World /\ world'.container = world.container
  BY DEF LeaseInv, TypeOK, World, LeaseRecord, ReconcileAdopts
<1>2. record' \in LeaseRecord /\ record'.desired = "Idle"
  BY DEF LeaseInv, TypeOK, ReconcileAdopts, Transitioned, LeaseRecord, LeaseState
<1>3. record' # None
  BY NothingIsNone, <1>2
<1>4. \E o \in Leases : map' = o /\ memory' = [memory EXCEPT ![o] = record']
  BY DEF ReconcileAdopts
<1>5. /\ memory' \in [Leases -> LeaseRecord \cup {None}]
      /\ map' \in Leases /\ memory'[map'] = record'
      /\ \A l \in Leases : memory[l] # None => memory'[l] # None
  BY <1>2, <1>3, <1>4 DEF LeaseInv, TypeOK
<1>6. /\ ~up /\ up' = TRUE /\ UNCHANGED <<op, pc, holds>>
  BY DEF ReconcileAdopts
<1> QED BY NothingIsNone, <1>1, <1>2, <1>3, <1>4, <1>5, <1>6 DEF LeaseInv, TypeOK,
      LockIsHeld, ShutdownOwnsLease, RecordOutlivesContainer, HoldersHaveLeases,
      ContainerIsRecorded, At, Goto, LockedPcs, Pcs, Operation, Actors

LEMMA ReconcileCleansStep ==
    ASSUME LeaseInv, ReconcileCleans
    PROVE  LeaseInv'
<1>1. record \in LeaseRecord
  BY DEF LeaseInv, TypeOK, ReconcileCleans
<1>2. world' \in World /\ ~world'.container
  BY <1>1 DEF LeaseInv, TypeOK, World, LeaseRecord, Cleaned, ReconcileCleans
<1>3. ~up /\ UNCHANGED <<record, memory, map, op, pc, holds, up>>
  BY DEF ReconcileCleans
<1> QED BY NothingIsNone, <1>1, <1>2, <1>3 DEF LeaseInv, TypeOK, LockIsHeld,
      ShutdownOwnsLease, RecordOutlivesContainer, HoldersHaveLeases,
      ContainerIsRecorded, At, Goto, LockedPcs, Pcs, Operation, Actors

LEMMA ReconcileForgetsStep ==
    ASSUME LeaseInv, ReconcileForgets
    PROVE  LeaseInv'
<1>1. world' \in World /\ ~world'.container
  BY DEF LeaseInv, TypeOK, ContainerIsRecorded, World, PartlyCleaned,
     ReconcileForgets
<1>2. ~up /\ up' = TRUE /\ record' = None /\ UNCHANGED <<memory, map, op, pc, holds>>
  BY DEF ReconcileForgets
<1> QED BY NothingIsNone, <1>1, <1>2 DEF LeaseInv, TypeOK, LockIsHeld,
      ShutdownOwnsLease, RecordOutlivesContainer, HoldersHaveLeases,
      ContainerIsRecorded, At, Goto, LockedPcs, Pcs, Operation, Actors
-----------------------------------------------------------------------------
LEMMA InitInv == Init => LeaseInv
<1> SUFFICES ASSUME Init PROVE LeaseInv
  OBVIOUS
<1>1. world \in World /\ ~world.container /\ up
  BY DEF Init, World
<1>2. /\ pc = [a \in Actors |-> "off"] /\ holds = [t \in Turns |-> None]
      /\ memory = [o \in Leases |-> None]
      /\ record = None /\ map = None /\ op = None
  BY DEF Init
<1>3. TypeOK
  BY <1>1, <1>2 DEF TypeOK, Pcs
<1>4. \A a \in Actors : pc[a] = "off"
  BY <1>2
<1>5. Turns \subseteq Actors
  BY DEF Actors
<1> QED BY <1>1, <1>2, <1>3, <1>4, <1>5
    DEF LeaseInv, LockIsHeld, ShutdownOwnsLease, RecordOutlivesContainer,
        HoldersHaveLeases, ContainerIsRecorded, LockedPcs

LEMMA StutterStep ==
    ASSUME LeaseInv, UNCHANGED vars
    PROVE  LeaseInv'
BY DEF vars, LeaseInv, TypeOK, LockIsHeld, ShutdownOwnsLease, RecordOutlivesContainer,
       HoldersHaveLeases, ContainerIsRecorded

LEMMA LeaseStep == LeaseInv /\ [Next]_vars => LeaseInv'
<1> SUFFICES ASSUME LeaseInv, [Next]_vars PROVE LeaseInv'
  OBVIOUS
<1>1. ASSUME NEW t \in Turns, TurnStep(t) PROVE LeaseInv'
  BY <1>1, TurnPreparesStep, EnvironmentChangedStep, AcquireReusesStep,
     AcquireRetiresStep, AcquireAdoptsStep, AcquireDiscardsStep, AcquireStartsStep,
     ReserveStep, CreateContainerStep, CreateFailsStep, AcquireFinishesStep,
     TurnWorksStep, RegisterServiceStep, SpawnServiceStep, TurnEndsStep, MarkIdleStep
     DEF TurnStep
<1>2. ASSUME NEW a \in Actors, Terminates(a) PROVE LeaseInv'
  BY <1>2, TerminateBeginsStep, ShutdownRemovesStep, ShutdownFailsStep,
     ShutdownForgetsStep, CleanupRemovesStep, CleanupFailsStep, CleanupForgetsStep,
     SweepStep DEF Terminates
<1>3. ASSUME NEW a \in Actors, LockTimesOut(a) PROVE LeaseInv'
  BY <1>3, LockTimesOutStep
<1>4. CASE ReaperLists \/ RetryBegins \/ RetryFinishes
  BY <1>4, ReaperListsStep, RetryBeginsStep, RetryFinishesStep
<1>5. CASE UserTerminates \/ Expire \/ ContainerLost \/ DaemonStops
  BY <1>5, UserTerminatesStep, ExpireStep, ContainerLostStep, DaemonStopsStep
<1>6. CASE Reconcile
  BY <1>6, ReconcileAdoptsStep, ReconcileCleansStep, ReconcileForgetsStep DEF Reconcile
<1>7. CASE UNCHANGED vars
  BY <1>7, StutterStep
<1> QED BY <1>1, <1>2, <1>3, <1>4, <1>5, <1>6, <1>7 DEF Next

\* The inductive invariant, and with it the typing of the record, the lease objects
\* and the operation lock, holds whatever fails, races or stops.
THEOREM LeaseCorrect == Spec => []LeaseInv
<1> QED BY InitInv, LeaseStep, PTL DEF Spec

\* Every state is typed, and the supervised lease is in use or idle.
THEOREM LeaseTypeCorrect == Spec => []TypeOK
<1>1. LeaseInv => TypeOK
  BY DEF LeaseInv
<1> QED BY <1>1, LeaseCorrect, PTL

\* The container never exists without the record that names it.
THEOREM ContainerAlwaysRecorded == Spec => []ContainerIsRecorded
<1>1. LeaseInv => ContainerIsRecorded
  BY DEF LeaseInv
<1> QED BY <1>1, LeaseCorrect, PTL

-----------------------------------------------------------------------------
(* What nothing but a race or a lost container can break *)

\* No decision about the lease was pending when a turn acquired it, and nobody else
\* has removed its container.
Calm == env.races = 0 /\ env.losses = 0

Events == {"failures", "timeouts", "losses", "terminations", "crashes", "races"}

\* Turns overlap only where they may, and a daemon that is down supervises nothing.
TurnsTakeTurns ==
    /\ env \in [Events -> Nat]
    /\ Overlap \/ \A t, u \in Turns : t # u => pc[t] = "off" \/ pc[u] = "off"
    /\ ~up => map = None /\ op = None

\* A supervised lease and its record agree, and no operation is under way.
LeaseIsItsRecord ==
    /\ op # None => map = None
    /\ map # None => record = memory[map] /\ record.observed \in {"InUse", "Idle"}

\* A record that no lease owns is there to be cleaned up.
OrphansAreFailed ==
    /\ up /\ op = None /\ map = None /\ record # None => record.observed = "Failed"
    /\ \A a \in Actors : pc[a] \in {"cleanup", "cleaned"} =>
           record # None /\ record.observed = "Failed"

\* A turn that works has a container and its lease, and nobody has decided to take it.
UsersAreUndisturbed ==
    /\ \A a \in Actors : pc[a] = "created" => world.container
    /\ \A t \in Turns : Using(t) =>
           /\ world.container /\ map = holds[t] /\ record.observed = "InUse"
           /\ \A a \in Actors : pc[a] \notin {"releasing", "terminate", "replace"}

\* The sidecar, and one that is about to be started, is in the record.
ServicesAreListed ==
    /\ world.service => record # None /\ record.service
    /\ \A t \in Turns : pc[t] = "spawning" => record.service

\* Whoever shuts a lease down knows of the sidecar, and it is gone before anybody
\* writes a record that does not list it.
OperationsKnowServices ==
    \A a \in Actors :
        /\ pc[a] = "shutdown" /\ world.service => memory[op.lease].service
        /\ pc[a] \in {"reserve", "creating", "created", "removed", "cleaned"} =>
               ~world.service

CalmInv ==
    /\ TurnsTakeTurns
    /\ Calm => /\ LeaseIsItsRecord /\ OrphansAreFailed /\ UsersAreUndisturbed
               /\ ServicesAreListed /\ OperationsKnowServices

LEMMA TurnPreparesCalm ==
    ASSUME NEW t \in Turns, LeaseInv, LeaseInv', CalmInv, TurnPrepares(t)
    PROVE  CalmInv'
<1>1. TurnsTakeTurns' /\ (Calm' => Calm)
  BY DEF TurnPrepares, At, Goto, CalmInv, TurnsTakeTurns, Calm
<1>2. Calm' => LeaseIsItsRecord'
  BY <1>1 DEF TurnPrepares, CalmInv, LeaseIsItsRecord
<1>3. Calm' => OrphansAreFailed'
  BY <1>1 DEF TurnPrepares, At, Goto, CalmInv, OrphansAreFailed
<1>4. Calm' => UsersAreUndisturbed'
  BY <1>1 DEF TurnPrepares, At, Goto, CalmInv, UsersAreUndisturbed, Using
<1>5. Calm' => ServicesAreListed'
  BY <1>1 DEF TurnPrepares, At, Goto, CalmInv, ServicesAreListed
<1>6. Calm' => OperationsKnowServices'
  BY <1>1 DEF TurnPrepares, At, Goto, CalmInv, OperationsKnowServices
<1> QED BY <1>1, <1>2, <1>3, <1>4, <1>5, <1>6 DEF CalmInv

LEMMA EnvironmentChangedCalm ==
    ASSUME NEW t \in Turns, LeaseInv, LeaseInv', CalmInv, EnvironmentChanged(t)
    PROVE  CalmInv'
<1>1. TurnsTakeTurns' /\ (Calm' => Calm)
  BY DEF EnvironmentChanged, At, Goto, CalmInv, TurnsTakeTurns, Calm
<1>2. Calm' => LeaseIsItsRecord'
  BY <1>1 DEF EnvironmentChanged, CalmInv, LeaseIsItsRecord
<1>3. Calm' => OrphansAreFailed'
  BY <1>1 DEF EnvironmentChanged, At, Goto, CalmInv, OrphansAreFailed
<1>4. Calm' => UsersAreUndisturbed'
  BY <1>1 DEF EnvironmentChanged, At, Goto, CalmInv, UsersAreUndisturbed, Using,
    TurnsTakeTurns
<1>5. Calm' => ServicesAreListed'
  BY <1>1 DEF EnvironmentChanged, At, Goto, CalmInv, ServicesAreListed
<1>6. Calm' => OperationsKnowServices'
  BY <1>1 DEF EnvironmentChanged, At, Goto, CalmInv, OperationsKnowServices
<1> QED BY <1>1, <1>2, <1>3, <1>4, <1>5, <1>6 DEF CalmInv

LEMMA AcquireReusesCalm ==
    ASSUME NEW t \in Turns, LeaseInv, LeaseInv', CalmInv, AcquireReuses(t)
    PROVE  CalmInv'
<1>1. TurnsTakeTurns' /\ (Calm' => Calm)
  BY DEF AcquireReuses, At, Transition, Holds, Goto, CalmInv, TurnsTakeTurns, Calm
<1>2. Calm' => LeaseIsItsRecord'
  BY <1>1 DEF AcquireReuses, At, Transition, Holds, Transitioned, CalmInv,
    LeaseIsItsRecord
<1>3. Calm' => OrphansAreFailed'
  BY <1>1 DEF AcquireReuses, At, Transition, Holds, Transitioned, DecisionPending, Goto,
    CalmInv, OrphansAreFailed, TurnsTakeTurns, LeaseIsItsRecord, UsersAreUndisturbed
<1>4. Calm' => UsersAreUndisturbed'
  BY DEF AcquireReuses, Transition, Holds, Transitioned, DecisionPending, Goto, CalmInv,
    UsersAreUndisturbed, Using, Calm, LeaseInv, TypeOK
<1>5. Calm' => ServicesAreListed'
  BY <1>1 DEF AcquireReuses, Transition, Holds, Transitioned, Goto, CalmInv,
    ServicesAreListed, LeaseIsItsRecord, LeaseInv, TypeOK
<1>6. Calm' => OperationsKnowServices'
  BY <1>1 DEF AcquireReuses, At, Transition, Holds, Transitioned, DecisionPending, Goto,
    CalmInv, OperationsKnowServices
<1> QED BY <1>1, <1>2, <1>3, <1>4, <1>5, <1>6 DEF CalmInv

LEMMA AcquireRetiresCalm ==
    ASSUME NEW t \in Turns, LeaseInv, LeaseInv', CalmInv, AcquireRetires(t)
    PROVE  CalmInv'
<1>1. TurnsTakeTurns' /\ (Calm' => Calm)
  BY DEF AcquireRetires, At, Transition, Goto, Transitioned, CalmInv, TurnsTakeTurns,
    Calm
<1>2. Calm' => LeaseIsItsRecord'
  BY <1>1 DEF AcquireRetires, CalmInv, LeaseIsItsRecord
<1>3. Calm' => OrphansAreFailed'
  BY <1>1, NothingIsNone DEF AcquireRetires, Goto, CalmInv, OrphansAreFailed,
    LeaseIsItsRecord, LeaseInv, TypeOK, Operation
<1>4. Calm' => UsersAreUndisturbed'
  BY <1>1 DEF AcquireRetires, At, Transition, Goto, Transitioned, CalmInv,
    UsersAreUndisturbed, Using
<1>5. Calm' => ServicesAreListed'
  BY <1>1 DEF AcquireRetires, Transition, Goto, Transitioned, CalmInv,
    ServicesAreListed, LeaseIsItsRecord, LeaseInv, TypeOK, ShutdownOwnsLease
<1>6. Calm' => OperationsKnowServices'
  BY <1>1 DEF AcquireRetires, At, Transition, Goto, Transitioned, CalmInv,
    OperationsKnowServices, TurnsTakeTurns, LeaseIsItsRecord, OrphansAreFailed,
    UsersAreUndisturbed, ServicesAreListed
<1> QED BY <1>1, <1>2, <1>3, <1>4, <1>5, <1>6 DEF CalmInv

LEMMA AcquireAdoptsCalm ==
    ASSUME NEW t \in Turns, LeaseInv, LeaseInv', CalmInv, AcquireAdopts(t)
    PROVE  CalmInv'
<1>1. TurnsTakeTurns' /\ (Calm' => Calm)
  BY DEF AcquireAdopts, At, Adoptable, Fresh, Transitioned, Holds, Goto, CalmInv,
    TurnsTakeTurns, Calm
<1>2. Calm' => LeaseIsItsRecord'
  BY DEF AcquireAdopts, Transitioned, LeaseIsItsRecord, LeaseInv, TypeOK
<1>3. Calm' => OrphansAreFailed'
  BY LeaseAssumption DEF AcquireAdopts, OrphansAreFailed, LeaseInv, LockIsHeld,
    LockedPcs
<1>4. Calm' => UsersAreUndisturbed'
  BY DEF AcquireAdopts, Adoptable, Transitioned, Holds, DecisionPending, Goto, CalmInv,
    UsersAreUndisturbed, Using, OrphansAreFailed, Calm, LeaseInv, TypeOK
<1>5. Calm' => ServicesAreListed'
  BY <1>1 DEF AcquireAdopts, Fresh, Transitioned, Holds, Goto, CalmInv,
    ServicesAreListed, LeaseInv, TypeOK
<1>6. Calm' => OperationsKnowServices'
  BY <1>1 DEF AcquireAdopts, At, Adoptable, Fresh, Transitioned, Holds, Holders,
    DecisionPending, Goto, CalmInv, OperationsKnowServices, TurnsTakeTurns,
    UsersAreUndisturbed, ServicesAreListed
<1> QED BY <1>1, <1>2, <1>3, <1>4, <1>5, <1>6 DEF CalmInv

LEMMA AcquireDiscardsCalm ==
    ASSUME NEW t \in Turns, LeaseInv, LeaseInv', CalmInv, AcquireDiscards(t)
    PROVE  CalmInv'
<1>1. TurnsTakeTurns' /\ (Calm' => Calm)
  BY DEF AcquireDiscards, At, Adoptable, Goto, CalmInv, TurnsTakeTurns, Calm
<1>2. Calm' => LeaseIsItsRecord'
  BY DEF AcquireDiscards, At, CalmInv, LeaseIsItsRecord
<1>3. Calm' => OrphansAreFailed'
  BY <1>1 DEF AcquireDiscards, At, CalmInv, OrphansAreFailed
<1>4. Calm' => UsersAreUndisturbed'
  BY <1>1 DEF AcquireDiscards, Goto, CalmInv, UsersAreUndisturbed, Using
<1>5. Calm' => ServicesAreListed'
  BY <1>1 DEF AcquireDiscards, At, Adoptable, Goto, CalmInv, ServicesAreListed
<1>6. Calm' => OperationsKnowServices'
  BY <1>1 DEF AcquireDiscards, Goto, CalmInv, OperationsKnowServices, LeaseInv,
    ShutdownOwnsLease
<1> QED BY <1>1, <1>2, <1>3, <1>4, <1>5, <1>6 DEF CalmInv

LEMMA AcquireStartsCalm ==
    ASSUME NEW t \in Turns, LeaseInv, LeaseInv', CalmInv, AcquireStarts(t)
    PROVE  CalmInv'
<1>1. TurnsTakeTurns' /\ (Calm' => Calm)
  BY DEF AcquireStarts, At, Goto, CalmInv, TurnsTakeTurns, Calm
<1>2. Calm' => LeaseIsItsRecord'
  BY <1>1 DEF AcquireStarts, CalmInv, LeaseIsItsRecord
<1>3. Calm' => OrphansAreFailed'
  BY <1>1 DEF AcquireStarts, At, Goto, CalmInv, OrphansAreFailed
<1>4. Calm' => UsersAreUndisturbed'
  BY <1>1 DEF AcquireStarts, At, Goto, CalmInv, UsersAreUndisturbed, Using
<1>5. Calm' => ServicesAreListed'
  BY <1>1 DEF AcquireStarts, At, Goto, CalmInv, ServicesAreListed
<1>6. Calm' => OperationsKnowServices'
  BY <1>1 DEF AcquireStarts, At, Goto, CalmInv, OperationsKnowServices, TurnsTakeTurns,
    UsersAreUndisturbed, ServicesAreListed
<1> QED BY <1>1, <1>2, <1>3, <1>4, <1>5, <1>6 DEF CalmInv

LEMMA ReserveCalm ==
    ASSUME NEW t \in Turns, LeaseInv, LeaseInv', CalmInv, Reserve(t)
    PROVE  CalmInv'
<1>1. TurnsTakeTurns' /\ (Calm' => Calm)
  BY DEF Reserve, At, Goto, CalmInv, TurnsTakeTurns, Calm
<1>2. Calm' => LeaseIsItsRecord'
  BY <1>1 DEF Reserve, Goto, CalmInv, LeaseIsItsRecord, LeaseInv, TypeOK, LockIsHeld,
    LockedPcs
<1>3. Calm' => OrphansAreFailed'
  BY DEF Reserve, Goto, OrphansAreFailed, LeaseInv, TypeOK, LockIsHeld, LockedPcs
<1>4. Calm' => UsersAreUndisturbed'
  BY <1>1, LeaseAssumption DEF Reserve, Goto, CalmInv, UsersAreUndisturbed, Using,
    LeaseIsItsRecord, LeaseInv, TypeOK, LockIsHeld, HoldersHaveLeases, LockedPcs
<1>5. Calm' => ServicesAreListed'
  BY <1>1, LeaseAssumption DEF Reserve, At, Goto, CalmInv, ServicesAreListed,
    LeaseIsItsRecord, UsersAreUndisturbed, OperationsKnowServices, LeaseInv, TypeOK,
    LockIsHeld, HoldersHaveLeases, LockedPcs, Using
<1>6. Calm' => OperationsKnowServices'
  BY <1>1 DEF Reserve, At, Goto, CalmInv, OperationsKnowServices
<1> QED BY <1>1, <1>2, <1>3, <1>4, <1>5, <1>6 DEF CalmInv

LEMMA CreateContainerCalm ==
    ASSUME NEW t \in Turns, LeaseInv, LeaseInv', CalmInv, CreateContainer(t)
    PROVE  CalmInv'
<1>1. TurnsTakeTurns' /\ (Calm' => Calm)
  BY DEF CreateContainer, At, Goto, CalmInv, TurnsTakeTurns, Calm
<1>2. Calm' => LeaseIsItsRecord'
  BY <1>1 DEF CreateContainer, CalmInv, LeaseIsItsRecord
<1>3. Calm' => OrphansAreFailed'
  BY <1>1 DEF CreateContainer, At, Goto, CalmInv, OrphansAreFailed
<1>4. Calm' => UsersAreUndisturbed'
  BY <1>1 DEF CreateContainer, At, Goto, CalmInv, UsersAreUndisturbed, Using
<1>5. Calm' => ServicesAreListed'
  BY <1>1 DEF CreateContainer, At, Goto, CalmInv, ServicesAreListed
<1>6. Calm' => OperationsKnowServices'
  BY <1>1 DEF CreateContainer, At, Goto, CalmInv, OperationsKnowServices
<1> QED BY <1>1, <1>2, <1>3, <1>4, <1>5, <1>6 DEF CalmInv

LEMMA CreateFailsCalm ==
    ASSUME NEW t \in Turns, LeaseInv, LeaseInv', CalmInv, CreateFails(t)
    PROVE  CalmInv'
<1>1. TurnsTakeTurns' /\ (Calm' => Calm)
  BY DEF CreateFails, At, Counts, Goto, CalmInv, TurnsTakeTurns, Calm, Events
<1>2. Calm' => LeaseIsItsRecord'
  BY DEF CreateFails, At, Counts, Goto, CalmInv, LeaseIsItsRecord, LeaseInv, TypeOK,
    LockIsHeld, LockedPcs, Calm
<1>3. Calm' => OrphansAreFailed'
  BY DEF CreateFails, FailedRecord, OrphansAreFailed, LeaseInv, LockIsHeld, LockedPcs
<1>4. Calm' => UsersAreUndisturbed'
  BY LeaseAssumption DEF CreateFails, At, Counts, Goto, CalmInv, UsersAreUndisturbed,
    Using, LeaseIsItsRecord, LeaseInv, TypeOK, LockIsHeld, HoldersHaveLeases, LockedPcs,
    Calm
<1>5. Calm' => ServicesAreListed'
  BY LeaseAssumption DEF CreateFails, At, Counts, Goto, CalmInv, ServicesAreListed,
    LeaseIsItsRecord, UsersAreUndisturbed, OperationsKnowServices, LeaseInv, TypeOK,
    LockIsHeld, HoldersHaveLeases, LockedPcs, Calm, Using
<1>6. Calm' => OperationsKnowServices'
  BY DEF CreateFails, At, Counts, Goto, CalmInv, OperationsKnowServices, Calm, LeaseInv,
    TypeOK
<1> QED BY <1>1, <1>2, <1>3, <1>4, <1>5, <1>6 DEF CalmInv

LEMMA AcquireFinishesCalm ==
    ASSUME NEW t \in Turns, LeaseInv, LeaseInv', CalmInv, AcquireFinishes(t)
    PROVE  CalmInv'
<1>1. TurnsTakeTurns' /\ (Calm' => Calm)
  BY DEF AcquireFinishes, At, Fresh, Holds, Goto, CalmInv, TurnsTakeTurns, Calm
<1>2. Calm' => LeaseIsItsRecord'
  BY DEF AcquireFinishes, LeaseIsItsRecord, LeaseInv, TypeOK
<1>3. Calm' => OrphansAreFailed'
  BY LeaseAssumption DEF AcquireFinishes, OrphansAreFailed, LeaseInv, LockIsHeld,
    LockedPcs
<1>4. Calm' => UsersAreUndisturbed'
  BY LeaseAssumption DEF AcquireFinishes, At, Holds, DecisionPending, Goto, CalmInv,
    UsersAreUndisturbed, Using, LeaseIsItsRecord, LeaseInv, TypeOK, LockIsHeld,
    HoldersHaveLeases, LockedPcs, Calm
<1>5. Calm' => ServicesAreListed'
  BY LeaseAssumption DEF AcquireFinishes, At, Holds, Goto, CalmInv, ServicesAreListed,
    LeaseIsItsRecord, UsersAreUndisturbed, OperationsKnowServices, LeaseInv, TypeOK,
    LockIsHeld, HoldersHaveLeases, LockedPcs, Calm, Using
<1>6. Calm' => OperationsKnowServices'
  BY <1>1 DEF AcquireFinishes, At, Holds, Goto, CalmInv, OperationsKnowServices,
    LeaseInv, TypeOK
<1> QED BY <1>1, <1>2, <1>3, <1>4, <1>5, <1>6 DEF CalmInv

LEMMA TurnWorksCalm ==
    ASSUME NEW t \in Turns, LeaseInv, LeaseInv', CalmInv, TurnWorks(t)
    PROVE  CalmInv'
<1>1. TurnsTakeTurns' /\ (Calm' => Calm)
  BY DEF TurnWorks, At, CalmInv, TurnsTakeTurns, Calm
<1>2. Calm' => LeaseIsItsRecord'
  BY <1>1 DEF TurnWorks, At, CalmInv, LeaseIsItsRecord
<1>3. Calm' => OrphansAreFailed'
  BY <1>1 DEF TurnWorks, At, CalmInv, OrphansAreFailed
<1>4. Calm' => UsersAreUndisturbed'
  BY <1>1 DEF TurnWorks, At, CalmInv, UsersAreUndisturbed, Using
<1>5. Calm' => ServicesAreListed'
  BY <1>1 DEF TurnWorks, At, CalmInv, ServicesAreListed
<1>6. Calm' => OperationsKnowServices'
  BY <1>1 DEF TurnWorks, At, CalmInv, OperationsKnowServices
<1> QED BY <1>1, <1>2, <1>3, <1>4, <1>5, <1>6 DEF CalmInv

LEMMA RegisterServiceCalm ==
    ASSUME NEW t \in Turns, LeaseInv, LeaseInv', CalmInv, RegisterService(t)
    PROVE  CalmInv'
<1>1. TurnsTakeTurns' /\ (Calm' => Calm)
  BY DEF RegisterService, At, Goto, CalmInv, TurnsTakeTurns, Calm
<1>2. Calm' => LeaseIsItsRecord'
  BY DEF RegisterService, At, CalmInv, LeaseIsItsRecord, UsersAreUndisturbed, LeaseInv,
    TypeOK, LeaseRecord, Calm, Using
<1>3. Calm' => OrphansAreFailed'
  BY <1>1, LeaseAssumption DEF RegisterService, At, Goto, CalmInv, OrphansAreFailed,
    UsersAreUndisturbed, LeaseInv, TypeOK, Using
<1>4. Calm' => UsersAreUndisturbed'
  BY <1>1, LeaseAssumption DEF RegisterService, At, Goto, CalmInv, UsersAreUndisturbed,
    Using, LeaseIsItsRecord, LeaseInv, TypeOK
<1>5. Calm' => ServicesAreListed'
  BY <1>1, LeaseAssumption DEF RegisterService, At, CalmInv, ServicesAreListed,
    LeaseIsItsRecord, UsersAreUndisturbed, LeaseInv, TypeOK, Using
<1>6. Calm' => OperationsKnowServices'
  BY <1>1 DEF RegisterService, At, Goto, CalmInv, OperationsKnowServices
<1> QED BY <1>1, <1>2, <1>3, <1>4, <1>5, <1>6 DEF CalmInv

LEMMA SpawnServiceCalm ==
    ASSUME NEW t \in Turns, LeaseInv, LeaseInv', CalmInv, SpawnService(t)
    PROVE  CalmInv'
<1>1. TurnsTakeTurns' /\ (Calm' => Calm)
  BY DEF SpawnService, At, Goto, CalmInv, TurnsTakeTurns, Calm
<1>2. Calm' => LeaseIsItsRecord'
  BY <1>1 DEF SpawnService, CalmInv, LeaseIsItsRecord
<1>3. Calm' => OrphansAreFailed'
  BY <1>1 DEF SpawnService, At, Goto, CalmInv, OrphansAreFailed
<1>4. Calm' => UsersAreUndisturbed'
  BY <1>1 DEF SpawnService, At, Goto, CalmInv, UsersAreUndisturbed, Using, LeaseInv,
    TypeOK, World
<1>5. Calm' => ServicesAreListed'
  BY DEF SpawnService, At, CalmInv, ServicesAreListed, UsersAreUndisturbed, LeaseInv,
    ContainerIsRecorded, Calm, Using
<1>6. Calm' => OperationsKnowServices'
  BY <1>1, LeaseAssumption DEF SpawnService, At, CalmInv, OperationsKnowServices,
    LeaseIsItsRecord, UsersAreUndisturbed, LeaseInv, LockIsHeld, HoldersHaveLeases,
    LockedPcs, Using
<1> QED BY <1>1, <1>2, <1>3, <1>4, <1>5, <1>6 DEF CalmInv

LEMMA TurnEndsCalm ==
    ASSUME NEW t \in Turns, LeaseInv, LeaseInv', CalmInv, TurnEnds(t)
    PROVE  CalmInv'
<1>1. TurnsTakeTurns' /\ (Calm' => Calm)
  BY DEF TurnEnds, At, Goto, IsLastRelease, Holders, CalmInv, TurnsTakeTurns, Calm
<1>2. Calm' => LeaseIsItsRecord'
  BY <1>1 DEF TurnEnds, CalmInv, LeaseIsItsRecord
<1>3. Calm' => OrphansAreFailed'
  BY <1>1 DEF TurnEnds, At, Goto, CalmInv, OrphansAreFailed
<1>4. Calm' => UsersAreUndisturbed'
  BY DEF TurnEnds, At, Goto, IsLastRelease, Holders, CalmInv, UsersAreUndisturbed,
    Using, Calm, LeaseInv, TypeOK
<1>5. Calm' => ServicesAreListed'
  BY <1>1 DEF TurnEnds, At, Goto, CalmInv, ServicesAreListed
<1>6. Calm' => OperationsKnowServices'
  BY <1>1 DEF TurnEnds, At, Goto, CalmInv, OperationsKnowServices
<1> QED BY <1>1, <1>2, <1>3, <1>4, <1>5, <1>6 DEF CalmInv

LEMMA MarkIdleCalm ==
    ASSUME NEW t \in Turns, LeaseInv, LeaseInv', CalmInv, MarkIdle(t)
    PROVE  CalmInv'
<1>1. TurnsTakeTurns' /\ (Calm' => Calm)
  BY DEF MarkIdle, Goto, CalmInv, TurnsTakeTurns, Calm
<1>2. /\ map' = map /\ op' = op /\ op = None /\ world' = world
      /\ pc' = [pc EXCEPT ![t] = "off"]
  BY DEF MarkIdle, Goto
<1>3. ASSUME map # None
      PROVE  /\ record' = memory'[map] /\ record'.observed = "Idle"
             /\ record'.service = memory[map].service
  <2>1. map \in Leases /\ memory[map] \in LeaseRecord
    BY <1>3 DEF LeaseInv, TypeOK
  <2>2. /\ record' = memory'[map]
        /\ memory'[map] =
              [Transitioned(memory[map], "Idle", "Idle") EXCEPT !.expired = FALSE]
    BY <1>3, <2>1 DEF MarkIdle, LeaseInv, TypeOK
  <2> QED BY <2>1, <2>2 DEF Transitioned, LeaseRecord
<1>4. map = None => record' = record
  BY DEF MarkIdle
<1>5. Calm' => LeaseIsItsRecord'
  BY <1>2, <1>3 DEF LeaseIsItsRecord
<1>6. Calm' => OrphansAreFailed'
  BY <1>1 DEF MarkIdle, At, Transitioned, Goto, CalmInv, OrphansAreFailed,
    TurnsTakeTurns, LeaseIsItsRecord, UsersAreUndisturbed
<1>7. Calm' => UsersAreUndisturbed'
  BY <1>1 DEF MarkIdle, At, Goto, CalmInv, UsersAreUndisturbed, Using, LeaseInv, TypeOK
<1>8. Calm' => ServicesAreListed'
  <2>1. Calm => \A u \in Turns : pc'[u] # "spawning"
    BY <1>2 DEF CalmInv, UsersAreUndisturbed, Using, LeaseInv, TypeOK, Actors, MarkIdle,
      At
  <2>2. Calm /\ world.service => record # None /\ record.service
    BY DEF CalmInv, ServicesAreListed
  <2>3. Calm /\ map # None => record = memory[map] /\ record' \in LeaseRecord
    BY <1>2, <1>3, NothingIsNone DEF CalmInv, LeaseIsItsRecord, LeaseInv, TypeOK
  <2> QED BY NothingIsNone, <1>1, <1>2, <1>3, <1>4, <2>1, <2>2, <2>3 DEF ServicesAreListed
<1>9. Calm' => OperationsKnowServices'
  BY <1>1 DEF MarkIdle, Goto, CalmInv, OperationsKnowServices, LeaseInv, TypeOK,
    ShutdownOwnsLease
<1> QED BY <1>1, <1>5, <1>6, <1>7, <1>8, <1>9 DEF CalmInv

LEMMA TerminateBeginsCalm ==
    ASSUME NEW a \in Actors, LeaseInv, LeaseInv', CalmInv, TerminateBegins(a)
    PROVE  CalmInv'
<1>1. TurnsTakeTurns' /\ (Calm' => Calm)
  BY DEF TerminateBegins, At, Goto, CalmInv, TurnsTakeTurns, Calm, LeaseInv, TypeOK,
    Actors
<1>2. /\ op = None /\ world' = world /\ holds' = holds /\ up
      /\ pc[a] \in {"terminate", "replace"}
  BY DEF TerminateBegins, At
<1>3. ASSUME map # None
      PROVE  /\ Calm' => ServicesAreListed'
             /\ Calm' => OperationsKnowServices'
  <2>1. map \in Leases /\ memory[map] \in LeaseRecord
    BY <1>3 DEF LeaseInv, TypeOK
  <2>2. /\ memory' = [memory EXCEPT ![map] = Transitioned(@, "Stopping", "Stopping")]
        /\ record' = memory'[map] /\ pc' = [pc EXCEPT ![a] = "shutdown"]
        /\ op' = [by |-> a, lease |-> map, then |-> AfterTerminate(a)]
    BY <1>3 DEF TerminateBegins, Transition, Goto
  <2>3. memory'[map] = Transitioned(memory[map], "Stopping", "Stopping")
    BY <2>1, <2>2 DEF LeaseInv, TypeOK
  <2>4. memory'[map].service = memory[map].service
    BY <2>1, <2>3 DEF Transitioned, LeaseRecord
  <2>5. op'.lease = map
    BY <2>2
  <2>6. record' # None
    <3>1. Transitioned(memory[map], "Stopping", "Stopping") \in LeaseRecord
      BY <2>1 DEF Transitioned, LeaseRecord, LeaseState
    <3> QED BY NothingIsNone, <2>2, <2>3, <3>1
  <2>7. Calm' => ServicesAreListed'
    BY <1>1, <1>2, <1>3, <2>2, <2>4, <2>6 DEF CalmInv, LeaseIsItsRecord,
      ServicesAreListed, LeaseInv, TypeOK
  <2>8. Calm' => OperationsKnowServices'
    BY <1>1, <1>2, <1>3, <2>2, <2>4, <2>5 DEF CalmInv, LeaseIsItsRecord,
      ServicesAreListed, OperationsKnowServices, LeaseInv, TypeOK, LockIsHeld, LockedPcs
  <2> QED BY <2>7, <2>8
<1>4. ASSUME map = None
      PROVE  /\ Calm' => ServicesAreListed'
             /\ Calm' => OperationsKnowServices'
  <2>1. /\ record' = record
        /\ \/ pc' = [pc EXCEPT ![a] = "cleanup"]
           \/ pc' = [pc EXCEPT ![a] = AfterTerminate(a)]
    BY <1>4 DEF TerminateBegins, Goto
  <2>2. AfterTerminate(a) \in {"prepared", "off", "sweep"}
    BY DEF AfterTerminate
  <2>3. \A b \in Actors :
            pc'[b] \in {"spawning", "shutdown", "reserve", "creating", "created",
                        "removed", "cleaned"} => pc[b] = pc'[b]
    BY <2>1, <2>2 DEF LeaseInv, TypeOK
  <2>4. Calm' => ServicesAreListed'
    BY <1>1, <1>2, <2>1, <2>3 DEF CalmInv, ServicesAreListed, Actors
  <2>5. Calm' => OperationsKnowServices'
    BY <1>1, <1>2, <2>3 DEF CalmInv, OperationsKnowServices, LeaseInv, LockIsHeld,
      LockedPcs
  <2> QED BY <2>4, <2>5
<1>5. Calm' => LeaseIsItsRecord'
  BY <1>1 DEF TerminateBegins, TakesFromMap, Transitioned, CalmInv, LeaseIsItsRecord
<1>6. Calm' => OrphansAreFailed'
  BY <1>1, NothingIsNone DEF TerminateBegins, At, AfterTerminate, Goto, CalmInv,
    OrphansAreFailed, LeaseIsItsRecord, LeaseInv, TypeOK, Operation
<1>7. Calm' => UsersAreUndisturbed'
  BY <1>1 DEF TerminateBegins, At, AfterTerminate, Goto, CalmInv, UsersAreUndisturbed,
    Using, LeaseInv, TypeOK, Actors
<1>8. Calm' => ServicesAreListed'
  BY <1>3, <1>4
<1>9. Calm' => OperationsKnowServices'
  BY <1>3, <1>4
<1> QED BY <1>1, <1>5, <1>6, <1>7, <1>8, <1>9 DEF CalmInv

LEMMA ShutdownRemovesCalm ==
    ASSUME NEW a \in Actors, LeaseInv, LeaseInv', CalmInv, ShutdownRemoves(a)
    PROVE  CalmInv'
<1>1. TurnsTakeTurns' /\ (Calm' => Calm)
  BY DEF ShutdownRemoves, At, Cleaned, Goto, CalmInv, TurnsTakeTurns, Calm
<1>2. /\ pc[a] = "shutdown" /\ pc' = [pc EXCEPT ![a] = "removed"]
      /\ op' = op /\ memory' = memory /\ world' = Cleaned(memory[op.lease])
  BY DEF ShutdownRemoves, At, Goto
<1>3. world'.service <=> world.service /\ ~memory[op.lease].service
  <2>1. memory[op.lease] \in LeaseRecord /\ world \in World
    BY <1>2 DEF LeaseInv, TypeOK, ShutdownOwnsLease
  <2> QED BY <1>2, <2>1 DEF Cleaned, World, LeaseRecord
<1>4. \A b \in Actors \ {a} : pc[b] \notin LockedPcs
  BY <1>2 DEF LeaseInv, LockIsHeld, LockedPcs
<1>5. Calm' => LeaseIsItsRecord'
  BY <1>1 DEF ShutdownRemoves, At, CalmInv, LeaseIsItsRecord
<1>6. Calm' => OrphansAreFailed'
  BY <1>1 DEF ShutdownRemoves, At, Cleaned, Goto, CalmInv, OrphansAreFailed
<1>7. Calm' => UsersAreUndisturbed'
  BY LeaseAssumption DEF ShutdownRemoves, At, Goto, CalmInv, UsersAreUndisturbed, Using,
    LeaseIsItsRecord, LeaseInv, LockIsHeld, HoldersHaveLeases, LockedPcs, Calm
<1>8. Calm' => ServicesAreListed'
  BY <1>1 DEF ShutdownRemoves, Cleaned, Goto, CalmInv, ServicesAreListed, LeaseInv,
    TypeOK, World
<1>9. Calm' => OperationsKnowServices'
  BY <1>1, <1>2, <1>3, <1>4 DEF CalmInv, OperationsKnowServices, LeaseInv, TypeOK,
    LockedPcs
<1> QED BY <1>1, <1>5, <1>6, <1>7, <1>8, <1>9 DEF CalmInv

LEMMA ShutdownFailsCalm ==
    ASSUME NEW a \in Actors, LeaseInv, LeaseInv', CalmInv, ShutdownFails(a)
    PROVE  CalmInv'
<1>1. TurnsTakeTurns' /\ (Calm' => Calm)
  BY DEF ShutdownFails, At, Counts, Goto, CalmInv, TurnsTakeTurns, Calm, Events
<1>2. /\ pc[a] = "shutdown" /\ pc' = [pc EXCEPT ![a] = AfterFailure(a)]
      /\ AfterFailure(a) \in {"sweep", "off"} /\ op' = None
      /\ world' \in PartlyCleaned(memory[op.lease])
      /\ memory' = [memory EXCEPT ![op.lease] = Transitioned(@, "Stopped", "Failed")]
      /\ record' = memory'[op.lease]
  BY DEF ShutdownFails, RecordsFailure, Transition, At, Goto, AfterFailure
<1>3. op.lease \in Leases /\ memory[op.lease] \in LeaseRecord
  BY <1>2 DEF LeaseInv, TypeOK, ShutdownOwnsLease
<1>4. record' = Transitioned(memory[op.lease], "Stopped", "Failed")
  BY <1>2, <1>3 DEF LeaseInv, TypeOK
<1>5. record' # None /\ record'.service = memory[op.lease].service
  BY NothingIsNone, <1>3, <1>4 DEF Transitioned, LeaseRecord, LeaseState
<1>6. world'.service => world.service
  BY <1>2 DEF PartlyCleaned
<1>7. Calm' => \A t \in Turns : pc'[t] # "spawning"
  <2>1. \A t \in Turns : pc'[t] = "spawning" => pc[t] = "spawning"
    BY <1>2 DEF LeaseInv, TypeOK, Actors
  <2>2. op # None => map = None \/ ~Calm
    BY DEF CalmInv, LeaseIsItsRecord
  <2>3. op # None /\ up
    BY <1>2 DEF LeaseInv, LockIsHeld, LockedPcs, ShutdownFails, At
  <2>4. ASSUME Calm, NEW t \in Turns, pc[t] = "spawning" PROVE FALSE
    BY NothingIsNone, LeaseAssumption, <2>2, <2>3, <2>4 DEF CalmInv,
      UsersAreUndisturbed, Using, LeaseInv, HoldersHaveLeases
  <2> QED BY <1>1, <2>1, <2>4
<1>8. Calm' => LeaseIsItsRecord'
  BY <1>1 DEF ShutdownFails, At, CalmInv, LeaseIsItsRecord, LeaseInv, LockIsHeld,
    LockedPcs
<1>9. Calm' => OrphansAreFailed'
  BY DEF ShutdownFails, RecordsFailure, Transition, Transitioned, OrphansAreFailed,
    LeaseInv, TypeOK, LockIsHeld, LockedPcs
<1>10. Calm' => UsersAreUndisturbed'
  BY <1>1, LeaseAssumption DEF ShutdownFails, At, Goto, AfterFailure, CalmInv,
    UsersAreUndisturbed, Using, LeaseIsItsRecord, LeaseInv, LockIsHeld,
    HoldersHaveLeases, LockedPcs
<1>11. Calm' => ServicesAreListed'
  BY <1>1, <1>2, <1>5, <1>6, <1>7 DEF CalmInv, ServicesAreListed, OperationsKnowServices
<1>12. Calm' => OperationsKnowServices'
  BY DEF ShutdownFails, OperationsKnowServices, LeaseInv, LockIsHeld, LockedPcs
<1> QED BY <1>1, <1>8, <1>9, <1>10, <1>11, <1>12 DEF CalmInv

LEMMA ShutdownForgetsCalm ==
    ASSUME NEW a \in Actors, LeaseInv, LeaseInv', CalmInv, ShutdownForgets(a)
    PROVE  CalmInv'
<1>1. TurnsTakeTurns' /\ (Calm' => Calm)
  BY DEF ShutdownForgets, At, Transitioned, Releases, Goto, CalmInv, TurnsTakeTurns,
    Calm
<1>2. Calm' => LeaseIsItsRecord'
  BY DEF ShutdownForgets, At, CalmInv, LeaseIsItsRecord, LeaseInv, LockIsHeld,
    LockedPcs, Calm
<1>3. Calm' => OrphansAreFailed'
  BY DEF ShutdownForgets, At, Releases, Goto, OrphansAreFailed, LeaseInv, LockIsHeld,
    LockedPcs
<1>4. Calm' => UsersAreUndisturbed'
  BY DEF ShutdownForgets, At, Releases, Goto, CalmInv, UsersAreUndisturbed, Using,
    LeaseInv, TypeOK, LockIsHeld, RecordOutlivesContainer, Operation, LockedPcs, Calm
<1>5. Calm' => ServicesAreListed'
  BY DEF ShutdownForgets, At, Releases, Goto, CalmInv, ServicesAreListed,
    UsersAreUndisturbed, OperationsKnowServices, LeaseInv, TypeOK, LockIsHeld,
    RecordOutlivesContainer, Operation, LockedPcs, Calm, Using
<1>6. Calm' => OperationsKnowServices'
  BY <1>1 DEF ShutdownForgets, At, Transitioned, CalmInv, OperationsKnowServices
<1> QED BY <1>1, <1>2, <1>3, <1>4, <1>5, <1>6 DEF CalmInv

LEMMA CleanupRemovesCalm ==
    ASSUME NEW a \in Actors, LeaseInv, LeaseInv', CalmInv, CleanupRemoves(a)
    PROVE  CalmInv'
<1>1. TurnsTakeTurns' /\ (Calm' => Calm)
  BY DEF CleanupRemoves, At, Cleaned, Goto, CalmInv, TurnsTakeTurns, Calm
<1>2. Calm' => LeaseIsItsRecord'
  BY <1>1 DEF CleanupRemoves, At, CalmInv, LeaseIsItsRecord
<1>3. Calm' => OrphansAreFailed'
  BY <1>1 DEF CleanupRemoves, At, CalmInv, OrphansAreFailed
<1>4. Calm' => UsersAreUndisturbed'
  BY DEF CleanupRemoves, At, Goto, CalmInv, UsersAreUndisturbed, Using,
    OrphansAreFailed, LeaseInv, LockIsHeld, LockedPcs, Calm
<1>5. Calm' => ServicesAreListed'
  BY <1>1 DEF CleanupRemoves, At, Cleaned, Goto, CalmInv, ServicesAreListed,
    OrphansAreFailed, LeaseInv, TypeOK, LeaseRecord
<1>6. Calm' => OperationsKnowServices'
  <2>1. /\ pc[a] = "cleanup" /\ pc' = [pc EXCEPT ![a] = "cleaned"]
        /\ world' = Cleaned(record)
    BY DEF CleanupRemoves, At, Goto
  <2>2. Calm => record # None /\ (world.service => record.service)
    BY <2>1 DEF CalmInv, OrphansAreFailed, ServicesAreListed
  <2>3. Calm => ~world'.service
    BY <2>1, <2>2 DEF Cleaned, LeaseInv, TypeOK, World
  <2> QED BY <1>1, <2>3 DEF OperationsKnowServices
<1> QED BY <1>1, <1>2, <1>3, <1>4, <1>5, <1>6 DEF CalmInv

LEMMA CleanupFailsCalm ==
    ASSUME NEW a \in Actors, LeaseInv, LeaseInv', CalmInv, CleanupFails(a)
    PROVE  CalmInv'
<1>1. TurnsTakeTurns' /\ (Calm' => Calm)
  BY DEF CleanupFails, At, Counts, Goto, CalmInv, TurnsTakeTurns, Calm, Events
<1>2. Calm' => LeaseIsItsRecord'
  BY <1>1 DEF CleanupFails, At, CalmInv, LeaseIsItsRecord
<1>3. Calm' => OrphansAreFailed'
  BY <1>1 DEF CleanupFails, At, CalmInv, OrphansAreFailed
<1>4. Calm' => UsersAreUndisturbed'
  BY DEF CleanupFails, At, Counts, Goto, AfterFailure, CalmInv, UsersAreUndisturbed,
    Using, OrphansAreFailed, LeaseInv, LockIsHeld, LockedPcs, Calm
<1>5. Calm' => ServicesAreListed'
  BY <1>1 DEF CleanupFails, At, Counts, PartlyCleaned, Goto, AfterFailure, CalmInv,
    ServicesAreListed
<1>6. Calm' => OperationsKnowServices'
  BY DEF CleanupFails, OperationsKnowServices, LeaseInv, LockIsHeld, LockedPcs
<1> QED BY <1>1, <1>2, <1>3, <1>4, <1>5, <1>6 DEF CalmInv

LEMMA CleanupForgetsCalm ==
    ASSUME NEW a \in Actors, LeaseInv, LeaseInv', CalmInv, CleanupForgets(a)
    PROVE  CalmInv'
<1>1. TurnsTakeTurns' /\ (Calm' => Calm)
  BY DEF CleanupForgets, At, Releases, Goto, CalmInv, TurnsTakeTurns, Calm
<1>2. Calm' => LeaseIsItsRecord'
  BY <1>1 DEF CleanupForgets, At, Releases, Goto, CalmInv, LeaseIsItsRecord,
    TurnsTakeTurns, OrphansAreFailed, UsersAreUndisturbed
<1>3. Calm' => OrphansAreFailed'
  BY DEF CleanupForgets, Releases, Goto, OrphansAreFailed, LeaseInv, TypeOK, LockIsHeld,
    LockedPcs
<1>4. Calm' => UsersAreUndisturbed'
  BY DEF CleanupForgets, At, Releases, Goto, CalmInv, UsersAreUndisturbed, Using,
    OrphansAreFailed, LeaseInv, TypeOK, LockIsHeld, Operation, LockedPcs, Calm
<1>5. Calm' => ServicesAreListed'
  BY DEF CleanupForgets, At, Releases, Goto, CalmInv, ServicesAreListed,
    OrphansAreFailed, UsersAreUndisturbed, OperationsKnowServices, LeaseInv, TypeOK,
    LockIsHeld, Operation, LockedPcs, Calm, Using
<1>6. Calm' => OperationsKnowServices'
  BY <1>1 DEF CleanupForgets, At, CalmInv, OperationsKnowServices
<1> QED BY <1>1, <1>2, <1>3, <1>4, <1>5, <1>6 DEF CalmInv

LEMMA SweepCalm ==
    ASSUME NEW a \in Actors, LeaseInv, LeaseInv', CalmInv, Sweep(a)
    PROVE  CalmInv'
<1>1. TurnsTakeTurns' /\ (Calm' => Calm)
  BY DEF Sweep, At, Swept, Goto, CalmInv, TurnsTakeTurns, Calm
<1>2. Calm' => LeaseIsItsRecord'
  BY <1>1 DEF Sweep, At, CalmInv, LeaseIsItsRecord
<1>3. Calm' => OrphansAreFailed'
  BY <1>1 DEF Sweep, At, Swept, Goto, CalmInv, OrphansAreFailed
<1>4. Calm' => UsersAreUndisturbed'
  BY <1>1 DEF Sweep, At, Swept, Goto, CalmInv, UsersAreUndisturbed, Using
<1>5. Calm' => ServicesAreListed'
  BY <1>1 DEF Sweep, At, Swept, Goto, CalmInv, ServicesAreListed
<1>6. Calm' => OperationsKnowServices'
  BY <1>1 DEF Sweep, At, Swept, Goto, CalmInv, OperationsKnowServices
<1> QED BY <1>1, <1>2, <1>3, <1>4, <1>5, <1>6 DEF CalmInv

LEMMA LockTimesOutCalm ==
    ASSUME NEW a \in Actors, LeaseInv, LeaseInv', CalmInv, LockTimesOut(a)
    PROVE  CalmInv'
<1>1. TurnsTakeTurns' /\ (Calm' => Calm)
  BY DEF LockTimesOut, Counts, Goto, CalmInv, TurnsTakeTurns, Calm, Events
<1>2. Calm' => LeaseIsItsRecord'
  BY <1>1 DEF LockTimesOut, CalmInv, LeaseIsItsRecord
<1>3. Calm' => OrphansAreFailed'
  BY <1>1 DEF LockTimesOut, Counts, Goto, CalmInv, OrphansAreFailed
<1>4. Calm' => UsersAreUndisturbed'
  BY <1>1 DEF LockTimesOut, Counts, Goto, CalmInv, UsersAreUndisturbed, Using
<1>5. Calm' => ServicesAreListed'
  BY <1>1 DEF LockTimesOut, Counts, Goto, CalmInv, ServicesAreListed
<1>6. Calm' => OperationsKnowServices'
  BY <1>1 DEF LockTimesOut, Counts, Goto, CalmInv, OperationsKnowServices
<1> QED BY <1>1, <1>2, <1>3, <1>4, <1>5, <1>6 DEF CalmInv

LEMMA ReaperListsCalm ==
    ASSUME LeaseInv, LeaseInv', CalmInv, ReaperLists
    PROVE  CalmInv'
<1>1. TurnsTakeTurns' /\ (Calm' => Calm)
  BY LeaseAssumption DEF ReaperLists, Goto, CalmInv, TurnsTakeTurns, Calm
<1>2. Calm' => LeaseIsItsRecord'
  BY <1>1 DEF ReaperLists, At, CalmInv, LeaseIsItsRecord
<1>3. Calm' => OrphansAreFailed'
  BY <1>1 DEF ReaperLists, At, Goto, Expirable, CalmInv, OrphansAreFailed
<1>4. Calm' => UsersAreUndisturbed'
  BY <1>1 DEF ReaperLists, At, Goto, Expirable, CalmInv, UsersAreUndisturbed, Using,
    TurnsTakeTurns, LeaseIsItsRecord
<1>5. Calm' => ServicesAreListed'
  BY <1>1 DEF ReaperLists, At, Goto, Expirable, CalmInv, ServicesAreListed
<1>6. Calm' => OperationsKnowServices'
  BY <1>1 DEF ReaperLists, At, Goto, Expirable, CalmInv, OperationsKnowServices
<1> QED BY <1>1, <1>2, <1>3, <1>4, <1>5, <1>6 DEF CalmInv

LEMMA RetryBeginsCalm ==
    ASSUME LeaseInv, LeaseInv', CalmInv, RetryBegins
    PROVE  CalmInv'
<1>1. TurnsTakeTurns' /\ (Calm' => Calm)
  BY DEF RetryBegins, At, Goto, CalmInv, TurnsTakeTurns, Calm, LeaseInv, TypeOK, Actors
<1>2. Calm' => LeaseIsItsRecord'
  BY <1>1 DEF RetryBegins, At, Retryable, Goto, CalmInv, LeaseIsItsRecord
<1>3. Calm' => OrphansAreFailed'
  BY <1>1 DEF RetryBegins, Retryable, Goto, CalmInv, OrphansAreFailed, LeaseInv, TypeOK
<1>4. Calm' => UsersAreUndisturbed'
  BY DEF RetryBegins, Goto, CalmInv, UsersAreUndisturbed, Using, LeaseInv, TypeOK,
    Actors, Calm
<1>5. Calm' => ServicesAreListed'
  BY DEF RetryBegins, Goto, CalmInv, ServicesAreListed, LeaseInv, TypeOK, Actors, Calm
<1>6. Calm' => OperationsKnowServices'
  BY <1>1, LeaseAssumption DEF RetryBegins, Goto, CalmInv, OperationsKnowServices,
    LeaseInv, TypeOK, ShutdownOwnsLease
<1> QED BY <1>1, <1>2, <1>3, <1>4, <1>5, <1>6 DEF CalmInv

LEMMA RetryFinishesCalm ==
    ASSUME LeaseInv, LeaseInv', CalmInv, RetryFinishes
    PROVE  CalmInv'
<1>1. TurnsTakeTurns' /\ (Calm' => Calm)
  BY DEF RetryFinishes, Goto, CalmInv, TurnsTakeTurns, Calm
<1>2. Calm' => LeaseIsItsRecord'
  BY <1>1 DEF RetryFinishes, At, Goto, CalmInv, LeaseIsItsRecord, OrphansAreFailed,
    LeaseInv, TypeOK
<1>3. Calm' => OrphansAreFailed'
  BY DEF RetryFinishes, At, Goto, CalmInv, OrphansAreFailed, LeaseInv, TypeOK,
    LockIsHeld, LockedPcs, Calm
<1>4. Calm' => UsersAreUndisturbed'
  BY <1>1 DEF RetryFinishes, At, Goto, CalmInv, UsersAreUndisturbed, Using, LeaseInv,
    TypeOK, RecordOutlivesContainer
<1>5. Calm' => ServicesAreListed'
  BY DEF RetryFinishes, At, Swept, Goto, CalmInv, ServicesAreListed, OrphansAreFailed,
    UsersAreUndisturbed, OperationsKnowServices, LeaseInv, TypeOK, World, Calm, Using
<1>6. Calm' => OperationsKnowServices'
  BY <1>1 DEF RetryFinishes, At, Swept, Goto, CalmInv, OperationsKnowServices, LeaseInv,
    TypeOK, World
<1> QED BY <1>1, <1>2, <1>3, <1>4, <1>5, <1>6 DEF CalmInv

LEMMA UserTerminatesCalm ==
    ASSUME LeaseInv, LeaseInv', CalmInv, UserTerminates
    PROVE  CalmInv'
<1>1. TurnsTakeTurns' /\ (Calm' => Calm)
  BY DEF UserTerminates, Counts, Goto, CalmInv, TurnsTakeTurns, Calm, Events
<1>2. Calm' => LeaseIsItsRecord'
  BY <1>1 DEF UserTerminates, At, CalmInv, LeaseIsItsRecord
<1>3. Calm' => OrphansAreFailed'
  BY <1>1 DEF UserTerminates, At, Counts, Goto, CalmInv, OrphansAreFailed
<1>4. Calm' => UsersAreUndisturbed'
  BY <1>1 DEF UserTerminates, Goto, CalmInv, UsersAreUndisturbed, Using
<1>5. Calm' => ServicesAreListed'
  BY <1>1 DEF UserTerminates, At, Counts, Goto, CalmInv, ServicesAreListed
<1>6. Calm' => OperationsKnowServices'
  BY <1>1 DEF UserTerminates, At, Counts, Goto, CalmInv, OperationsKnowServices
<1> QED BY <1>1, <1>2, <1>3, <1>4, <1>5, <1>6 DEF CalmInv

LEMMA ExpireCalm ==
    ASSUME LeaseInv, LeaseInv', CalmInv, Expire
    PROVE  CalmInv'
<1>1. TurnsTakeTurns' /\ (Calm' => Calm)
  BY DEF Expire, CalmInv, TurnsTakeTurns, Calm
<1>2. /\ record \in LeaseRecord /\ record' = [record EXCEPT !.expired = TRUE]
      /\ UNCHANGED <<map, op, pc, holds, world, up, env>>
  BY DEF Expire, LeaseInv, TypeOK
<1>3. /\ record' # None /\ record'.observed = record.observed
      /\ record'.service = record.service
  BY NothingIsNone, <1>2 DEF LeaseRecord
<1>4. Calm' => LeaseIsItsRecord'
  BY <1>1 DEF Expire, CalmInv, LeaseIsItsRecord, LeaseInv, TypeOK, LeaseRecord
<1>5. Calm' => OrphansAreFailed'
  <2>1. Calm => OrphansAreFailed /\ record # None
    BY DEF CalmInv, Expire
  <2> QED BY <1>1, <1>2, <1>3, <2>1 DEF OrphansAreFailed
<1>6. Calm' => UsersAreUndisturbed'
  BY <1>1 DEF Expire, CalmInv, UsersAreUndisturbed, Using
<1>7. Calm' => ServicesAreListed'
  BY <1>1, <1>2, <1>3 DEF CalmInv, ServicesAreListed, Expire
<1>8. Calm' => OperationsKnowServices'
  BY <1>1 DEF Expire, CalmInv, OperationsKnowServices, LeaseInv, ShutdownOwnsLease
<1> QED BY <1>1, <1>4, <1>5, <1>6, <1>7, <1>8 DEF CalmInv

LEMMA ContainerLostCalm ==
    ASSUME LeaseInv, LeaseInv', CalmInv, ContainerLost
    PROVE  CalmInv'
<1>1. TurnsTakeTurns' /\ (Calm' => Calm)
  BY DEF ContainerLost, Counts, CalmInv, TurnsTakeTurns, Calm, Events
<1>2. Calm' => LeaseIsItsRecord'
  BY <1>1 DEF ContainerLost, Counts, CalmInv, LeaseIsItsRecord
<1>3. Calm' => OrphansAreFailed'
  BY <1>1 DEF ContainerLost, Counts, CalmInv, OrphansAreFailed
<1>4. Calm' => UsersAreUndisturbed'
  BY DEF ContainerLost, Counts, CalmInv, TurnsTakeTurns, Events, Calm
<1>5. Calm' => ServicesAreListed'
  BY <1>1 DEF ContainerLost, Counts, CalmInv, ServicesAreListed
<1>6. Calm' => OperationsKnowServices'
  BY <1>1 DEF ContainerLost, Counts, CalmInv, OperationsKnowServices
<1> QED BY <1>1, <1>2, <1>3, <1>4, <1>5, <1>6 DEF CalmInv

LEMMA DaemonStopsCalm ==
    ASSUME LeaseInv, LeaseInv', CalmInv, DaemonStops
    PROVE  CalmInv'
<1>1. TurnsTakeTurns' /\ (Calm' => Calm)
  BY DEF DaemonStops, Counts, CalmInv, TurnsTakeTurns, Calm, Actors, Events
<1>2. Calm' => LeaseIsItsRecord'
  BY DEF DaemonStops, Counts, CalmInv, LeaseIsItsRecord
<1>3. Calm' => OrphansAreFailed'
  BY DEF DaemonStops, Counts, CalmInv, OrphansAreFailed
<1>4. Calm' => UsersAreUndisturbed'
  BY <1>1 DEF DaemonStops, UsersAreUndisturbed, Using
<1>5. Calm' => ServicesAreListed'
  BY <1>1 DEF DaemonStops, CalmInv, ServicesAreListed, LeaseInv, HoldersHaveLeases
<1>6. Calm' => OperationsKnowServices'
  BY DEF DaemonStops, Counts, CalmInv, OperationsKnowServices
<1> QED BY <1>1, <1>2, <1>3, <1>4, <1>5, <1>6 DEF CalmInv

LEMMA ReconcileAdoptsCalm ==
    ASSUME LeaseInv, LeaseInv', CalmInv, ReconcileAdopts
    PROVE  CalmInv'
<1>1. TurnsTakeTurns' /\ (Calm' => Calm)
  BY DEF ReconcileAdopts, Valid, Transitioned, CalmInv, TurnsTakeTurns, Calm
<1>2. Calm' => LeaseIsItsRecord'
  BY DEF ReconcileAdopts, Transitioned, CalmInv, LeaseIsItsRecord, TurnsTakeTurns,
    LeaseInv, TypeOK
<1>3. Calm' => OrphansAreFailed'
  BY LeaseAssumption DEF ReconcileAdopts, OrphansAreFailed, LeaseInv, HoldersHaveLeases
<1>4. Calm' => UsersAreUndisturbed'
  BY DEF ReconcileAdopts, UsersAreUndisturbed, Using, LeaseInv, HoldersHaveLeases,
    Actors
<1>5. Calm' => ServicesAreListed'
  <2>1. PICK service \in {FALSE, world.service /\ ~record.service} :
            world' = [world EXCEPT !.service = service]
    BY DEF ReconcileAdopts
  <2>2. world'.service = service
    BY <2>1 DEF LeaseInv, TypeOK, World
  <2>3. Calm /\ world.service => record.service
    BY DEF CalmInv, ServicesAreListed
  <2>4. \A t \in Turns : pc'[t] = "off"
    BY DEF ReconcileAdopts, LeaseInv, HoldersHaveLeases, Actors
  <2>5. Calm => ~world'.service
    BY <2>1, <2>2, <2>3
  <2> QED BY <1>1, <2>4, <2>5 DEF ServicesAreListed
<1>6. Calm' => OperationsKnowServices'
  BY DEF ReconcileAdopts, OperationsKnowServices, LeaseInv, HoldersHaveLeases
<1> QED BY <1>1, <1>2, <1>3, <1>4, <1>5, <1>6 DEF CalmInv

LEMMA ReconcileCleansCalm ==
    ASSUME LeaseInv, LeaseInv', CalmInv, ReconcileCleans
    PROVE  CalmInv'
<1>1. TurnsTakeTurns' /\ (Calm' => Calm)
  BY DEF ReconcileCleans, Valid, Cleaned, CalmInv, TurnsTakeTurns, Calm
<1>2. Calm' => LeaseIsItsRecord'
  BY <1>1 DEF ReconcileCleans, CalmInv, LeaseIsItsRecord
<1>3. Calm' => OrphansAreFailed'
  BY <1>1 DEF ReconcileCleans, CalmInv, OrphansAreFailed
<1>4. Calm' => UsersAreUndisturbed'
  BY DEF ReconcileCleans, UsersAreUndisturbed, Using, LeaseInv, HoldersHaveLeases
<1>5. Calm' => ServicesAreListed'
  BY <1>1 DEF ReconcileCleans, Cleaned, CalmInv, ServicesAreListed, LeaseInv, TypeOK
<1>6. Calm' => OperationsKnowServices'
  BY DEF ReconcileCleans, OperationsKnowServices, LeaseInv, HoldersHaveLeases
<1> QED BY <1>1, <1>2, <1>3, <1>4, <1>5, <1>6 DEF CalmInv

LEMMA ReconcileForgetsCalm ==
    ASSUME LeaseInv, LeaseInv', CalmInv, ReconcileForgets
    PROVE  CalmInv'
<1>1. TurnsTakeTurns' /\ (Calm' => Calm)
  BY DEF ReconcileForgets, Valid, PartlyCleaned, CalmInv, TurnsTakeTurns, Calm
<1>2. Calm' => LeaseIsItsRecord'
  BY DEF ReconcileForgets, Valid, PartlyCleaned, CalmInv, LeaseIsItsRecord,
    TurnsTakeTurns
<1>3. Calm' => OrphansAreFailed'
  BY DEF ReconcileForgets, OrphansAreFailed, LeaseInv, HoldersHaveLeases
<1>4. Calm' => UsersAreUndisturbed'
  BY DEF ReconcileForgets, UsersAreUndisturbed, Using, LeaseInv, HoldersHaveLeases,
    Actors
<1>5. Calm' => ServicesAreListed'
  BY <1>1 DEF ReconcileForgets, PartlyCleaned, CalmInv, ServicesAreListed, LeaseInv,
    HoldersHaveLeases, Actors
<1>6. Calm' => OperationsKnowServices'
  BY <1>1 DEF ReconcileForgets, Valid, PartlyCleaned, CalmInv, OperationsKnowServices
<1> QED BY <1>1, <1>2, <1>3, <1>4, <1>5, <1>6 DEF CalmInv

LEMMA CalmAtFirst == Init => CalmInv
<1> SUFFICES ASSUME Init PROVE CalmInv
  OBVIOUS
<1>1. /\ env \in [Events -> Nat] /\ up /\ map = None /\ op = None /\ record = None
      /\ \A a \in Actors : pc[a] = "off"
      /\ ~world.service
  BY DEF Init, Events
<1>2. Turns \subseteq Actors
  BY DEF Actors
<1> QED BY <1>1, <1>2
    DEF CalmInv, TurnsTakeTurns, LeaseIsItsRecord, OrphansAreFailed,
        UsersAreUndisturbed, Using, ServicesAreListed, OperationsKnowServices

LEMMA CalmStutters ==
    ASSUME CalmInv, UNCHANGED vars
    PROVE  CalmInv'
BY DEF vars, CalmInv, TurnsTakeTurns, Calm, LeaseIsItsRecord, OrphansAreFailed,
       UsersAreUndisturbed, Using, ServicesAreListed, OperationsKnowServices

LEMMA CalmStep == LeaseInv /\ LeaseInv' /\ CalmInv /\ [Next]_vars => CalmInv'
<1> SUFFICES ASSUME LeaseInv, LeaseInv', CalmInv, [Next]_vars PROVE CalmInv'
  OBVIOUS
<1>1. ASSUME NEW t \in Turns, TurnStep(t) PROVE CalmInv'
  BY <1>1, TurnPreparesCalm, EnvironmentChangedCalm, AcquireReusesCalm,
     AcquireRetiresCalm, AcquireAdoptsCalm, AcquireDiscardsCalm, AcquireStartsCalm,
     ReserveCalm, CreateContainerCalm, CreateFailsCalm, AcquireFinishesCalm,
     TurnWorksCalm, RegisterServiceCalm, SpawnServiceCalm, TurnEndsCalm, MarkIdleCalm
     DEF TurnStep
<1>2. ASSUME NEW a \in Actors, Terminates(a) PROVE CalmInv'
  BY <1>2, TerminateBeginsCalm, ShutdownRemovesCalm, ShutdownFailsCalm,
     ShutdownForgetsCalm, CleanupRemovesCalm, CleanupFailsCalm, CleanupForgetsCalm,
     SweepCalm DEF Terminates
<1>3. ASSUME NEW a \in Actors, LockTimesOut(a) PROVE CalmInv'
  BY <1>3, LockTimesOutCalm
<1>4. CASE ReaperLists \/ RetryBegins \/ RetryFinishes
  BY <1>4, ReaperListsCalm, RetryBeginsCalm, RetryFinishesCalm
<1>5. CASE UserTerminates \/ Expire \/ ContainerLost \/ DaemonStops
  BY <1>5, UserTerminatesCalm, ExpireCalm, ContainerLostCalm, DaemonStopsCalm
<1>6. CASE Reconcile
  BY <1>6, ReconcileAdoptsCalm, ReconcileCleansCalm, ReconcileForgetsCalm DEF Reconcile
<1>7. CASE UNCHANGED vars
  BY <1>7, CalmStutters
<1> QED BY <1>1, <1>2, <1>3, <1>4, <1>5, <1>6, <1>7 DEF Next

\* While no turn has acquired a lease that was about to be taken away, and no
\* container was removed from outside, users, operations and orphans are kept apart.
THEOREM CalmCorrect == Spec => [](LeaseInv /\ CalmInv)
<1>1. Init => LeaseInv /\ CalmInv
  BY InitInv, CalmAtFirst
<1>2. LeaseInv /\ CalmInv /\ [Next]_vars => (LeaseInv /\ CalmInv)'
  BY LeaseStep, CalmStep
<1> QED BY <1>1, <1>2, PTL DEF Spec

\* The sidecar, which a turn starts without the operation lock, is in the record on
\* disk: a cleanup that reads the record after a crash or a failure finds it.
THEOREM ServiceAlwaysRecorded == Spec => []ServiceIsRecorded
<1>1. CalmInv => ServiceIsRecorded
  BY DEF CalmInv, Calm, ServicesAreListed, ServiceIsRecorded
<1> QED BY <1>1, CalmCorrect, PTL

\* Between two operations a record without a supervised lease is Failed, which is
\* what retry_failed_cleanup looks for: none is left behind.
THEOREM UnownedRecordAlwaysRetried == Spec => []UnownedRecordIsRetried
<1>1. CalmInv => UnownedRecordIsRetried
  BY DEF CalmInv, Calm, OrphansAreFailed, UnownedRecordIsRetried
<1> QED BY <1>1, CalmCorrect, PTL

\* A turn keeps the container and the lease that it acquired until it ends, unless
\* somebody had already decided to take them when it acquired.
THEOREM LeaseAlwaysKept == Spec => []LeaseIsKeptUnlessRaced
<1>1. LeaseInv /\ CalmInv => LeaseIsKeptUnlessRaced
  <2> SUFFICES ASSUME LeaseInv, CalmInv, NEW t \in Turns, Using(t), Calm
               PROVE  world.container /\ map = holds[t] /\ memory[map].observed = "InUse"
    BY DEF LeaseIsKeptUnlessRaced, Calm
  <2>1. world.container /\ map = holds[t] /\ record.observed = "InUse"
    BY DEF CalmInv, UsersAreUndisturbed
  <2>2. map # None
    BY LeaseAssumption, <2>1 DEF LeaseInv, HoldersHaveLeases, Using
  <2> QED BY <2>1, <2>2 DEF CalmInv, LeaseIsItsRecord
<1> QED BY <1>1, CalmCorrect, PTL
===============================================================================
