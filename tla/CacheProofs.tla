------------------------------ MODULE CacheProofs ------------------------------
(* For any number of sessions, locks and volumes and any bounds on what goes  *)
(* wrong: a volume that a lease's containers have mounted is counted as often *)
(* as it is mounted, and the caches that a lease names have their records.    *)
(* The count of a record is compared with two sets of sessions: those whose   *)
(* lease holds the cache, and those whose turn holds it before its lease      *)
(* does.  LocalStep is what most actions of one session come down to: it      *)
(* leaves caches, the manager and the other sessions alone.                   *)
EXTENDS CacheManager, FiniteSetTheorems, TLAPS

-----------------------------------------------------------------------------
(* Sessions, one at a time *)

\* A session while its operation works on its lease, as its lease record l, what it
\* has attached h, its operation t, its containers r and its worktree's lock k.
Records(l, r) ==
    /\ l = None => r = NoContainers
    /\ l # None => Base[l.lock] \subseteq l.caches
    /\ r.task # None => r.task = l.lock

Owns(l, h, t) ==
    h # None =>
        /\ l # None
        /\ l.state \in (IF t.pc \in {"clear", "giveup"} THEN {"Stopping"} ELSE {"InUse", "Idle"})
        /\ t.pc \notin {"create", "created"}

Works(l, h, t, r, k) ==
    /\ t.pc \in {"using", "index", "reused", "stop", "clear", "giveup"} => h # None
    /\ t.pc \in {"create", "created"} =>
          /\ l # None /\ l.state = "Preparing" /\ l.caches \subseteq t.fresh /\ ~r.sidecar
    /\ t.pc \in {"off", "using"} => t.fresh = {}
    /\ t.pc = "index" => Index[l.lock] # None /\ t.fresh \subseteq {Index[l.lock]}
    /\ t.pc = "lease" => Base[k] \subseteq t.fresh
    /\ t.pc \in {"stop", "clear", "giveup"} =>
          IF t.then = "lease" THEN Base[k] \subseteq t.fresh ELSE t.fresh = {}
    /\ t.pc = "clear" => r = NoContainers

\* The attachments of a lease that was not revived
Keeps(l, h, t, r) ==
    h # None /\ t.pc \notin {"clear", "giveup"} =>
        /\ l.caches \subseteq h
        /\ r.sidecar => ServedVolumes(l.lock) \subseteq h

SessionInv(s) ==
    /\ Records(lease[s], running[s])
    /\ Owns(lease[s], held[s], turn[s])
    /\ Works(lease[s], held[s], turn[s], running[s], tree[s].lock)
    /\ Up /\ held[s] = None /\ lease[s] # None =>
          lease[s].state = "Failed" \/ turn[s].pc \in {"create", "created"}
    /\ s \notin env.revived => Keeps(lease[s], held[s], turn[s], running[s])

-----------------------------------------------------------------------------
(* What they share *)

TickInv ==
    /\ ~Up => /\ manager = None
              /\ \A s \in Sessions : turn[s].pc = "off"
    /\ tick.at = "down" => tick = Down /\ \A s \in Sessions : held[s] = None
    /\ tick.at = "boot" =>
          \A s \in Sessions : IF s \in tick.todo THEN lease[s] # None /\ held[s] = None
                              ELSE lease[s] # None => held[s] # None

ManagerInv ==
    /\ tick.at = "collect" <=> manager # None /\ manager.by = "gc"
    /\ tick.at = "collect" => /\ \A v \in tick.todo : v \in Volumes /\ Collectable(v)
                              /\ manager.done => manager.volume \in tick.todo
    /\ \A s \in Sessions : manager # None /\ manager.by = s =>
          /\ manager.volume \in Wanted(s) /\ caches[manager.volume] # None
          /\ manager.done => manager.volume \in volumes

HeldBy(v) == {s \in Sessions : held[s] # None /\ v \in held[s]}
FreshBy(v) == {s \in Sessions : v \in turn[s].fresh}

CountInv == \A v \in Volumes :
    /\ HeldBy(v) # {} \/ FreshBy(v) # {} => caches[v] # None
    /\ (HeldBy(v) \ env.revived) \cup FreshBy(v) # {} => v \in volumes
    /\ caches[v] # None => caches[v].count >= Cardinality(HeldBy(v)) + Cardinality(FreshBy(v))

\* The caches that a lease names, while their attachments are given up and after a
\* stop of the daemon
Rests(s, v) ==
    /\ turn[s].pc = "giveup" => v \in held[s] \/ (caches[v] # None /\ ~caches[v].old /\ v \in volumes)
    /\ ~Up /\ lease[s].state # "Failed" /\ Managed(s) => caches[v] # None /\ v \in volumes

KeepInv == \A s \in Sessions \ env.revived :
    lease[s] # None => \A v \in lease[s].caches : Rests(s, v)

IInv == TypeOK /\ TickInv /\ (\A s \in Sessions : SessionInv(s)) /\ ManagerInv /\ CountInv /\ KeepInv
-----------------------------------------------------------------------------
(* Types *)

LEMMA NoneIsNothing ==
    /\ None \notin CacheRecord /\ None \notin LeaseRecord /\ None \notin ManagerRecord
    /\ None \notin Sessions /\ None \notin Locks /\ None \notin Volumes
    /\ \A V \in SUBSET Volumes : V # None
BY CacheAssumption, NoneIsNoRecord

LEMMA SessionTypes ==
    ASSUME TypeOK, NEW s \in Sessions
    PROVE  /\ lease[s] # None => /\ lease[s] \in LeaseRecord /\ lease[s].lock \in Locks
                                 /\ lease[s].caches \in SUBSET Volumes
           /\ held[s] # None => held[s] \in SUBSET Volumes
           /\ turn[s].pc \in Pcs /\ turn[s].then \in {"off", "attach", "lease"}
           /\ turn[s].fresh \in SUBSET Volumes
           /\ running[s].task \in Locks \cup {None} /\ running[s].sidecar \in BOOLEAN
           /\ tree[s].lock \in Locks /\ Base[tree[s].lock] \in SUBSET Volumes
BY CacheAssumption DEF TypeOK, LeaseRecord, TurnRecord

LEMMA GotoMoves ==
    ASSUME TypeOK, NEW s \in Sessions, NEW p \in Pcs, Goto(s, p)
    PROVE  /\ turn' \in [Sessions -> TurnRecord]
           /\ turn'[s].pc = p /\ turn'[s].then = turn[s].then /\ turn'[s].fresh = turn[s].fresh
           /\ \A t \in Sessions \ {s} : turn'[t] = turn[t]
<1>1. turn[s] \in TurnRecord
  BY DEF TypeOK
<1>2. [turn[s] EXCEPT !.pc = p] \in TurnRecord
  BY <1>1 DEF TurnRecord
<1> QED BY <1>1, <1>2 DEF TypeOK, Goto, TurnRecord

LEMMA StopsMoves ==
    ASSUME TypeOK, NEW s \in Sessions, NEW n \in {"off", "attach", "lease"}, Stops(s, n)
    PROVE  /\ turn' \in [Sessions -> TurnRecord]
           /\ turn'[s].pc = "stop" /\ turn'[s].then = n /\ turn'[s].fresh = turn[s].fresh
           /\ \A t \in Sessions \ {s} : turn'[t] = turn[t]
<1>1. turn[s] \in TurnRecord
  BY DEF TypeOK
<1>2. [turn[s] EXCEPT !.pc = "stop", !.then = n] \in TurnRecord
  BY <1>1 DEF TurnRecord, Pcs
<1>3. turn' = [turn EXCEPT ![s] = [turn[s] EXCEPT !.pc = "stop", !.then = n]]
  BY <1>1 DEF TypeOK, Stops
<1> QED BY <1>1, <1>2, <1>3 DEF TypeOK, TurnRecord

LEMMA EnvTypes ==
    ASSUME TypeOK, NEW event \in {"turns", "edits", "mishaps", "crashes"}, NEW bound,
           Counts(event, bound)
    PROVE  /\ env' \in [turns : Nat, edits : Nat, mishaps : Nat, crashes : Nat,
                        revived : SUBSET Sessions]
           /\ env'.revived = env.revived
<1> DEFINE n == env[event] + 1
<1>1. n \in Nat
  <2>1. event = "turns" \/ event = "edits" \/ event = "mishaps" \/ event = "crashes"
    OBVIOUS
  <2> QED BY <2>1 DEF TypeOK
<1>2. env' = [env EXCEPT ![event] = n]
  BY DEF TypeOK, Counts
<1> HIDE DEF n
<1>3. CASE event = "turns"
  BY <1>1, <1>2, <1>3 DEF TypeOK
<1>4. CASE event = "edits"
  BY <1>1, <1>2, <1>4 DEF TypeOK
<1>5. CASE event = "mishaps"
  BY <1>1, <1>2, <1>5 DEF TypeOK
<1>6. CASE event = "crashes"
  BY <1>1, <1>2, <1>6 DEF TypeOK
<1> QED BY <1>3, <1>4, <1>5, <1>6

LEMMA LeaseMoves ==
    ASSUME TypeOK, NEW s \in Sessions, lease[s] # None,
           NEW x \in {"Preparing", "InUse", "Idle", "Stopping", "Failed"},
           lease' = [lease EXCEPT ![s].state = x]
    PROVE  /\ lease' \in [Sessions -> LeaseRecord \cup {None}] /\ lease'[s] # None
           /\ lease'[s].state = x /\ lease'[s].lock = lease[s].lock
           /\ lease'[s].caches = lease[s].caches
           /\ \A t \in Sessions \ {s} : lease'[t] = lease[t]
<1>1. lease[s] \in LeaseRecord
  BY DEF TypeOK
<1>2. [lease[s] EXCEPT !.state = x] \in LeaseRecord
  BY <1>1 DEF LeaseRecord
<1> QED BY <1>1, <1>2, NoneIsNothing DEF TypeOK, LeaseRecord

LEMMA ContainersMove ==
    ASSUME TypeOK, NEW s \in Sessions, NEW r \in [task : Locks \cup {None}, sidecar : BOOLEAN],
           running' = [running EXCEPT ![s] = r]
    PROVE  /\ running' \in [Sessions -> [task : Locks \cup {None}, sidecar : BOOLEAN]]
           /\ running'[s] = r
           /\ \A t \in Sessions \ {s} : running'[t] = running[t]
BY DEF TypeOK

LEMMA SomeRemovedMoves ==
    ASSUME TypeOK, NEW s \in Sessions, SomeRemoved(s)
    PROVE  /\ running' \in [Sessions -> [task : Locks \cup {None}, sidecar : BOOLEAN]]
           /\ running'[s].task \in {running[s].task, None}
           /\ running'[s].sidecar => running[s].sidecar
           /\ \A t \in Sessions \ {s} : running'[t] = running[t]
<1>1. running[s].task \in Locks \cup {None} /\ running[s].sidecar \in BOOLEAN
  BY SessionTypes
<1>2. PICK task \in {running[s].task, None}, kept \in BOOLEAN :
          running' = [running EXCEPT ![s] = [task |-> task, sidecar |-> @.sidecar /\ kept]]
  BY DEF SomeRemoved
<1> DEFINE r == [task |-> task, sidecar |-> running[s].sidecar /\ kept]
<1>3. running' = [running EXCEPT ![s] = r]
  BY <1>2 DEF TypeOK
<1>4. /\ r \in [task : Locks \cup {None}, sidecar : BOOLEAN]
      /\ r.task \in {running[s].task, None} /\ (r.sidecar => running[s].sidecar)
  BY <1>1
<1> HIDE DEF r
<1> QED BY <1>3, <1>4, ContainersMove

\* Only s has moved.
Local(s) == \A t \in Sessions \ {s} :
    /\ lease'[t] = lease[t] /\ held'[t] = held[t] /\ turn'[t] = turn[t]
    /\ running'[t] = running[t] /\ tree'[t] = tree[t]
    /\ t \in env'.revived <=> t \in env.revived

LEMMA OthersKeepTheirs ==
    ASSUME NEW s \in Sessions, Local(s), Up <=> Up', NEW t \in Sessions \ {s}, SessionInv(t)
    PROVE  SessionInv(t)'
<1>1. /\ lease'[t] = lease[t] /\ held'[t] = held[t] /\ turn'[t] = turn[t]
      /\ running'[t] = running[t] /\ tree'[t] = tree[t]
      /\ t \in env'.revived <=> t \in env.revived
  BY DEF Local
<1> QED BY <1>1 DEF SessionInv, Records, Owns, Works, Keeps

\* No cache is lost or grows old.
CachesStay ==
    /\ \A v \in Volumes : caches[v] # None =>
          caches'[v] # None /\ (caches'[v].old => caches[v].old)
    /\ volumes \subseteq volumes'

\* A session's step, when what it does to the manager and to the counts is known
LEMMA OwnStep ==
    ASSUME IInv, TypeOK', NEW s \in Sessions, Up, Up', Local(s), SessionInv(s)', CachesStay,
           ManagerInv', CountInv',
           s \notin env'.revived /\ lease'[s] # None /\ turn'[s].pc = "giveup" =>
               \A v \in lease'[s].caches : Rests(s, v)'
    PROVE  IInv'
<1>1. TickInv'
  BY DEF Up, Ticks, TickInv
<1>2. ASSUME NEW t \in Sessions PROVE SessionInv(t)'
  <2>1. CASE t = s
    BY <2>1
  <2>2. CASE t # s
    BY <2>2, OthersKeepTheirs DEF IInv
  <2> QED BY <2>1, <2>2
<1>3. KeepInv'
  <2> SUFFICES ASSUME NEW t \in Sessions, t \notin env'.revived, lease'[t] # None,
                      NEW v \in lease'[t].caches, turn'[t].pc = "giveup"
               PROVE  Rests(t, v)'
    BY DEF KeepInv, Rests
  <2>1. CASE t = s
    BY <2>1
  <2>2. CASE t # s
    <3>1. /\ lease'[t] = lease[t] /\ held'[t] = held[t] /\ turn'[t] = turn[t]
          /\ t \notin env.revived
      BY <2>2 DEF Local
    <3>2. v \in Volumes /\ Rests(t, v)
      BY <3>1, SessionTypes DEF IInv, KeepInv
    <3>3. v \in held[t] \/ (caches[v] # None /\ ~caches[v].old /\ v \in volumes)
      BY <3>1, <3>2 DEF Rests
    <3> QED BY <3>1, <3>2, <3>3 DEF Rests, CachesStay
  <2> QED BY <2>1, <2>2
<1> QED BY <1>1, <1>2, <1>3 DEF IInv

\* The collector goes on with what it is collecting.
CollectorStays ==
    tick.at = "collect" \/ tick'.at = "collect" =>
        tick'.at = tick.at /\ tick'.todo = tick.todo

LEMMA ManagerStays ==
    ASSUME IInv, NEW s \in Sessions, Local(s), UNCHANGED <<caches, volumes, manager>>,
           CollectorStays,
           manager # None /\ manager.by = s /\ Wanted(s) # {} => Wanted(s)' = Wanted(s)
    PROVE  ManagerInv'
<1>1. ManagerInv /\ TypeOK
  BY DEF IInv
<1>2. ASSUME tick.at = "collect" \/ tick'.at = "collect"
      PROVE  /\ tick'.at = "collect" /\ tick.at = "collect" /\ tick'.todo = tick.todo
             /\ manager' # None /\ manager'.by = "gc"
             /\ \A v \in tick'.todo : v \in Volumes /\ Collectable(v)'
             /\ manager'.done => manager'.volume \in tick'.todo
  BY <1>1, <1>2 DEF ManagerInv, Collectable, CollectorStays
<1>3. ASSUME NEW t \in Sessions, manager # None, manager.by = t
      PROVE  /\ manager.volume \in Wanted(t)' /\ caches[manager.volume] # None
             /\ manager.done => manager.volume \in volumes
  <2>1. /\ manager.volume \in Wanted(t) /\ caches[manager.volume] # None
        /\ manager.done => manager.volume \in volumes
    BY <1>1, <1>3 DEF ManagerInv
  <2>2. Wanted(t)' = Wanted(t)
    <3>1. CASE t = s
      BY <1>3, <2>1, <3>1
    <3>2. CASE t # s
      BY <3>2 DEF Local, Wanted
    <3> QED BY <3>1, <3>2
  <2> QED BY <2>1, <2>2
<1>4. manager' = manager /\ caches' = caches /\ volumes' = volumes
  OBVIOUS
<1>5. tick'.at = "collect" <=> manager' # None /\ manager'.by = "gc"
  BY <1>1 DEF ManagerInv, CollectorStays
<1> QED BY <1>2, <1>3, <1>4, <1>5 DEF ManagerInv

\* A session's step that attaches nothing and detaches nothing
LEMMA LocalStep ==
    ASSUME IInv, TypeOK', NEW s \in Sessions, Up, Up', Local(s), SessionInv(s)',
           UNCHANGED <<caches, volumes, manager>>,
           CollectorStays,
           manager # None /\ manager.by = s /\ Wanted(s) # {} => Wanted(s)' = Wanted(s),
           turn'[s].fresh = turn[s].fresh,
           held'[s] = held[s] \/ {held[s], held'[s]} = {{}, None},
           s \in env.revived => s \in env'.revived \/ held'[s] = None,
           turn'[s].pc = "giveup" /\ s \notin env'.revived =>
               lease'[s].caches \subseteq held'[s]
    PROVE  IInv'
<1>1. ManagerInv'
  BY ManagerStays
<1>2. CountInv'
  <2> SUFFICES ASSUME NEW v \in Volumes
               PROVE  /\ HeldBy(v)' = HeldBy(v) /\ FreshBy(v)' = FreshBy(v)
                      /\ \A t \in HeldBy(v) : t \in env.revived => t \in env'.revived
    BY DEF IInv, CountInv
  <2>1. \A t \in Sessions : turn'[t].fresh = turn[t].fresh
    BY DEF Local
  <2>2. \A t \in Sessions : held'[t] # None /\ v \in held'[t] <=> held[t] # None /\ v \in held[t]
    BY DEF Local
  <2>3. \A t \in Sessions : held[t] # None /\ v \in held[t] =>
            (t \in env.revived => t \in env'.revived)
    BY DEF Local
  <2> QED BY <2>1, <2>2, <2>3 DEF HeldBy, FreshBy
<1>3. CachesStay
  BY DEF CachesStay
<1>4. s \notin env'.revived /\ lease'[s] # None /\ turn'[s].pc = "giveup" =>
          \A v \in lease'[s].caches : Rests(s, v)'
  BY DEF Rests
<1> QED BY <1>1, <1>2, <1>3, <1>4, OwnStep

-----------------------------------------------------------------------------
(* A session's own steps *)

LEMMA TurnStartsStep ==
    ASSUME IInv, NEW s \in Sessions, TurnStarts(s)
    PROVE  IInv'
<1>1. \/ held[s] # None /\ Stops(s, "attach")
      \/ Goto(s, "attach")
  BY DEF TurnStarts
<1>2. /\ turn' \in [Sessions -> TurnRecord] /\ turn'[s].fresh = turn[s].fresh
      /\ \A t \in Sessions \ {s} : turn'[t] = turn[t]
      /\ \/ held[s] # None /\ turn'[s].pc = "stop" /\ turn'[s].then = "attach"
         \/ turn'[s].pc = "attach"
  BY <1>1, StopsMoves, GotoMoves DEF IInv, Pcs
<1>3. /\ UNCHANGED <<caches, volumes, manager, lease, held, running, tree, tick>>
      /\ Up /\ turn[s].pc = "off"
  BY DEF TurnStarts, At
<1>4. TypeOK' /\ Local(s) /\ env'.revived = env.revived
  BY <1>2, <1>3, EnvTypes DEF IInv, TypeOK, TurnStarts, Local
<1>5. SessionInv(s)'
  BY <1>2, <1>3, <1>4 DEF IInv, SessionInv, Records, Owns, Works, Keeps, Up
<1> QED BY <1>2, <1>3, <1>4, <1>5, LocalStep DEF Wanted, Up, CollectorStays

LEMMA EverythingAttachedStep ==
    ASSUME IInv, NEW s \in Sessions, EverythingAttached(s)
    PROVE  IInv'
<1>1. /\ UNCHANGED <<caches, volumes, manager, lease, held, running, tree, tick, env>>
      /\ Up /\ turn[s].pc = "attach" /\ Goto(s, "lease") /\ Wanted(s) = {}
  BY DEF EverythingAttached, At
<1>2. /\ turn' \in [Sessions -> TurnRecord] /\ turn'[s].fresh = turn[s].fresh
      /\ \A t \in Sessions \ {s} : turn'[t] = turn[t]
      /\ turn'[s].pc = "lease"
  BY <1>1, GotoMoves DEF IInv, Pcs
<1>3. TypeOK' /\ Local(s)
  BY <1>1, <1>2 DEF IInv, TypeOK, Local
<1>4. Base[tree[s].lock] \subseteq turn[s].fresh
  BY <1>1 DEF Wanted
<1>5. SessionInv(s)'
  BY <1>1, <1>2, <1>4 DEF IInv, SessionInv, Records, Owns, Works, Keeps, Up
<1> QED BY <1>1, <1>2, <1>3, <1>5, LocalStep DEF Up, CollectorStays

LEMMA AcquireReusesStep ==
    ASSUME IInv, NEW s \in Sessions, AcquireReuses(s)
    PROVE  IInv'
<1>1. /\ UNCHANGED <<caches, volumes, manager, held, running, tree, tick, env>>
      /\ Up /\ turn[s].pc = "lease" /\ Goto(s, "reused") /\ held[s] # None
      /\ lease' = [lease EXCEPT ![s].state = "InUse"]
  BY DEF AcquireReuses, At
<1>2. /\ turn' \in [Sessions -> TurnRecord] /\ turn'[s].fresh = turn[s].fresh
      /\ \A t \in Sessions \ {s} : turn'[t] = turn[t]
      /\ turn'[s].pc = "reused"
  BY <1>1, GotoMoves DEF IInv, Pcs
<1>3. /\ lease' \in [Sessions -> LeaseRecord \cup {None}] /\ lease'[s] # None
      /\ lease'[s].state = "InUse" /\ lease'[s].lock = lease[s].lock
      /\ lease'[s].caches = lease[s].caches
      /\ \A t \in Sessions \ {s} : lease'[t] = lease[t]
  BY <1>1, LeaseMoves DEF IInv, SessionInv, Owns
<1>4. TypeOK' /\ Local(s)
  BY <1>1, <1>2, <1>3 DEF IInv, TypeOK, Local
<1>5. SessionInv(s)'
  BY <1>1, <1>2, <1>3 DEF IInv, SessionInv, Records, Owns, Works, Keeps, Up
<1> QED BY <1>1, <1>2, <1>4, <1>5, LocalStep DEF Up, Wanted, CollectorStays

LEMMA AcquireReplacesStep ==
    ASSUME IInv, NEW s \in Sessions, AcquireReplaces(s)
    PROVE  IInv'
<1>1. /\ UNCHANGED <<caches, volumes, manager, lease, held, running, tree, tick, env>>
      /\ Up /\ turn[s].pc = "lease" /\ Stops(s, "lease") /\ held[s] # None
  BY DEF AcquireReplaces, At
<1>2. /\ turn' \in [Sessions -> TurnRecord] /\ turn'[s].fresh = turn[s].fresh
      /\ \A t \in Sessions \ {s} : turn'[t] = turn[t]
      /\ turn'[s].pc = "stop" /\ turn'[s].then = "lease"
  BY <1>1, StopsMoves DEF IInv
<1>3. TypeOK' /\ Local(s)
  BY <1>1, <1>2 DEF IInv, TypeOK, Local
<1>4. SessionInv(s)'
  BY <1>1, <1>2 DEF IInv, SessionInv, Records, Owns, Works, Keeps, Up
<1> QED BY <1>1, <1>2, <1>3, <1>4, LocalStep DEF Up, Wanted, CollectorStays

LEMMA AcquireCleansUpStep ==
    ASSUME IInv, NEW s \in Sessions, AcquireCleansUp(s)
    PROVE  IInv'
<1>1. /\ UNCHANGED <<caches, volumes, manager, held, tree, tick>>
      /\ Up /\ turn[s].pc = "lease" /\ held[s] = None /\ lease[s] # None
  BY DEF AcquireCleansUp, At
<1>2. CASE /\ running' = [running EXCEPT ![s] = NoContainers]
           /\ lease' = [lease EXCEPT ![s] = None]
           /\ UNCHANGED <<turn, env>>
  <2>1. /\ lease' \in [Sessions -> LeaseRecord \cup {None}] /\ lease'[s] = None
        /\ \A t \in Sessions \ {s} : lease'[t] = lease[t]
    BY <1>2 DEF IInv, TypeOK
  <2>2. /\ running' \in [Sessions -> [task : Locks \cup {None}, sidecar : BOOLEAN]]
        /\ running'[s] = NoContainers
        /\ \A t \in Sessions \ {s} : running'[t] = running[t]
    BY <1>2, ContainersMove DEF IInv, NoContainers
  <2>3. TypeOK' /\ Local(s)
    BY <1>1, <1>2, <2>1, <2>2 DEF IInv, TypeOK, Local
  <2>4. SessionInv(s)'
    BY <1>1, <1>2, <2>1, <2>2 DEF IInv, SessionInv, Records, Owns, Works, Keeps, Up, NoContainers
  <2> QED BY <1>1, <1>2, <2>3, <2>4, LocalStep DEF Up, Wanted, CollectorStays
<1>3. CASE Mishap /\ SomeRemoved(s) /\ Goto(s, "failed") /\ UNCHANGED lease
  <2>1. /\ turn' \in [Sessions -> TurnRecord] /\ turn'[s].fresh = turn[s].fresh
        /\ \A t \in Sessions \ {s} : turn'[t] = turn[t]
        /\ turn'[s].pc = "failed"
    BY <1>3, GotoMoves DEF IInv, Pcs
  <2>2. /\ running' \in [Sessions -> [task : Locks \cup {None}, sidecar : BOOLEAN]]
        /\ running'[s].task \in {running[s].task, None}
        /\ \A t \in Sessions \ {s} : running'[t] = running[t]
    BY <1>3, SomeRemovedMoves DEF IInv
  <2>3. TypeOK' /\ Local(s) /\ env'.revived = env.revived
    BY <1>1, <1>3, <2>1, <2>2, EnvTypes DEF IInv, TypeOK, Mishap, Local
  <2>4. SessionInv(s)'
    BY <1>1, <1>3, <2>1, <2>2, <2>3 DEF IInv, SessionInv, Records, Owns, Works, Keeps, Up
  <2> QED BY <1>1, <1>3, <2>1, <2>3, <2>4, LocalStep DEF Up, Wanted, CollectorStays
<1> QED BY <1>2, <1>3 DEF AcquireCleansUp

LEMMA AcquireRecordsStep ==
    ASSUME IInv, NEW s \in Sessions, AcquireRecords(s)
    PROVE  IInv'
<1> DEFINE l == [lock |-> tree[s].lock, caches |-> turn[s].fresh, state |-> "Preparing"]
<1>1. /\ UNCHANGED <<caches, volumes, manager, held, running, tree, tick>>
      /\ Up /\ turn[s].pc = "lease" /\ Goto(s, "create") /\ held[s] = None /\ lease[s] = None
      /\ lease' = [lease EXCEPT ![s] = l]
      /\ env' = [env EXCEPT !.revived = @ \ {s}]
  BY DEF AcquireRecords, At
<1>2. /\ turn' \in [Sessions -> TurnRecord] /\ turn'[s].fresh = turn[s].fresh
      /\ \A t \in Sessions \ {s} : turn'[t] = turn[t]
      /\ turn'[s].pc = "create"
  BY <1>1, GotoMoves DEF IInv, Pcs
<1>3. l \in LeaseRecord /\ l # None
  BY NoneIsNothing, SessionTypes DEF IInv, LeaseRecord
<1>4. /\ lease' \in [Sessions -> LeaseRecord \cup {None}] /\ lease'[s] = l
      /\ \A t \in Sessions \ {s} : lease'[t] = lease[t]
  BY <1>1, <1>3 DEF IInv, TypeOK
<1>5. TypeOK' /\ Local(s) /\ s \notin env'.revived
  BY <1>1, <1>2, <1>4 DEF IInv, TypeOK, Local
<1>6. SessionInv(s)'
  BY <1>1, <1>2, <1>3, <1>4
  DEF IInv, SessionInv, Records, Owns, Works, Keeps, Up, NoContainers
<1> HIDE DEF l
<1> QED BY <1>1, <1>2, <1>5, <1>6, LocalStep DEF Up, Wanted, CollectorStays

LEMMA AcquireCreatesStep ==
    ASSUME IInv, NEW s \in Sessions, AcquireCreates(s)
    PROVE  IInv'
<1>1. /\ UNCHANGED <<caches, volumes, manager, held, tree, tick>>
      /\ Up /\ turn[s].pc = "create"
  BY DEF AcquireCreates, At
<1>2. lease[s] # None /\ held[s] = None
  BY <1>1 DEF IInv, SessionInv, Works, Owns
<1>3. CASE /\ running' = [running EXCEPT ![s].task = lease[s].lock]
           /\ Goto(s, "created") /\ UNCHANGED <<lease, env>>
  <2>1. /\ turn' \in [Sessions -> TurnRecord] /\ turn'[s].fresh = turn[s].fresh
        /\ \A t \in Sessions \ {s} : turn'[t] = turn[t]
        /\ turn'[s].pc = "created"
    BY <1>3, GotoMoves DEF IInv, Pcs
  <2>2. /\ running' \in [Sessions -> [task : Locks \cup {None}, sidecar : BOOLEAN]]
        /\ running'[s].task = lease[s].lock /\ running'[s].sidecar = running[s].sidecar
        /\ \A t \in Sessions \ {s} : running'[t] = running[t]
    <3> DEFINE r == [running[s] EXCEPT !.task = lease[s].lock]
    <3>1. running[s] \in [task : Locks \cup {None}, sidecar : BOOLEAN] /\ lease[s].lock \in Locks
      BY <1>2, SessionTypes DEF IInv, TypeOK
    <3>2. /\ r \in [task : Locks \cup {None}, sidecar : BOOLEAN]
          /\ r.task = lease[s].lock /\ r.sidecar = running[s].sidecar
      BY <3>1
    <3>3. running' = [running EXCEPT ![s] = r]
      BY <1>3 DEF IInv, TypeOK
    <3> HIDE DEF r
    <3> QED BY <3>2, <3>3, ContainersMove DEF IInv
  <2>3. TypeOK' /\ Local(s)
    BY <1>1, <1>3, <2>1, <2>2 DEF IInv, TypeOK, Local
  <2>4. SessionInv(s)'
    BY <1>1, <1>2, <1>3, <2>1, <2>2 DEF IInv, SessionInv, Records, Owns, Works, Keeps, Up
  <2> QED BY <1>1, <1>3, <2>1, <2>3, <2>4, LocalStep DEF Up, Wanted, CollectorStays
<1>4. CASE /\ Mishap /\ Goto(s, "failed") /\ UNCHANGED running
           /\ lease' = [lease EXCEPT ![s].state = "Failed"]
  <2>1. /\ turn' \in [Sessions -> TurnRecord] /\ turn'[s].fresh = turn[s].fresh
        /\ \A t \in Sessions \ {s} : turn'[t] = turn[t]
        /\ turn'[s].pc = "failed"
    BY <1>4, GotoMoves DEF IInv, Pcs
  <2>2. /\ lease' \in [Sessions -> LeaseRecord \cup {None}] /\ lease'[s] # None
        /\ lease'[s].state = "Failed" /\ lease'[s].lock = lease[s].lock
        /\ lease'[s].caches = lease[s].caches
        /\ \A t \in Sessions \ {s} : lease'[t] = lease[t]
    BY <1>2, <1>4, LeaseMoves DEF IInv
  <2>3. TypeOK' /\ Local(s) /\ env'.revived = env.revived
    BY <1>1, <1>4, <2>1, <2>2, EnvTypes DEF IInv, TypeOK, Mishap, Local
  <2>4. SessionInv(s)'
    BY <1>1, <1>2, <1>4, <2>1, <2>2 DEF IInv, SessionInv, Records, Owns, Works, Keeps, Up
  <2> QED BY <1>1, <1>2, <2>1, <2>3, <2>4, LocalStep DEF Up, Wanted, CollectorStays
<1> QED BY <1>3, <1>4 DEF AcquireCreates

LEMMA StartSidecarStep ==
    ASSUME IInv, NEW s \in Sessions, StartSidecar(s)
    PROVE  IInv'
<1>1. /\ UNCHANGED <<caches, volumes, manager, lease, held, tree, tick, env>>
      /\ Up /\ turn[s].pc = "using"
  BY DEF StartSidecar, At
<1>2. held[s] # None /\ lease[s] # None /\ turn[s].fresh = {}
  BY <1>1 DEF IInv, SessionInv, Works, Owns
<1>3. CASE /\ Index[lease[s].lock] \in lease[s].caches \cup {None}
           /\ running' = [running EXCEPT ![s].sidecar = TRUE] /\ UNCHANGED turn
  <2>1. /\ running' \in [Sessions -> [task : Locks \cup {None}, sidecar : BOOLEAN]]
        /\ running'[s].task = running[s].task /\ running'[s].sidecar
        /\ \A t \in Sessions \ {s} : running'[t] = running[t]
    BY <1>3 DEF IInv, TypeOK
  <2>2. TypeOK' /\ Local(s)
    BY <1>1, <1>3, <2>1 DEF IInv, TypeOK, Local
  <2>3. ServedVolumes(lease[s].lock) \subseteq lease[s].caches
    <3>1. lease[s].lock \in Locks /\ Base[lease[s].lock] \subseteq lease[s].caches
      BY <1>2, SessionTypes DEF IInv, SessionInv, Records
    <3> QED BY <1>3, <3>1, CacheAssumption DEF ServedVolumes
  <2>4. SessionInv(s)'
    BY <1>1, <1>2, <1>3, <2>1, <2>3 DEF IInv, SessionInv, Records, Owns, Works, Keeps, Up
  <2> QED BY <1>1, <1>3, <2>2, <2>4, LocalStep DEF Up, Wanted, CollectorStays
<1>4. CASE /\ Index[lease[s].lock] \notin lease[s].caches \cup {None}
           /\ Goto(s, "index") /\ UNCHANGED running
  <2>1. /\ turn' \in [Sessions -> TurnRecord] /\ turn'[s].fresh = turn[s].fresh
        /\ \A t \in Sessions \ {s} : turn'[t] = turn[t]
        /\ turn'[s].pc = "index"
    BY <1>4, GotoMoves DEF IInv, Pcs
  <2>2. TypeOK' /\ Local(s)
    BY <1>1, <1>4, <2>1 DEF IInv, TypeOK, Local
  <2>3. SessionInv(s)'
    BY <1>1, <1>2, <1>4, <2>1 DEF IInv, SessionInv, Records, Owns, Works, Keeps, Up
  <2> QED BY <1>1, <1>4, <2>1, <2>2, <2>3, LocalStep DEF Up, Wanted, CollectorStays
<1> QED BY <1>3, <1>4 DEF StartSidecar

LEMMA EditStep ==
    ASSUME IInv, NEW s \in Sessions, Edit(s)
    PROVE  IInv'
<1>1. /\ UNCHANGED <<caches, volumes, manager, lease, held, turn, running, tick>>
      /\ Up /\ turn[s].pc = "using" /\ Counts("edits", MaxEdits)
  BY DEF Edit, At
<1>2. PICK k \in Locks : tree' = [tree EXCEPT ![s] = [lock |-> k, dirty |-> TRUE]]
  BY DEF Edit
<1>3. TypeOK' /\ Local(s) /\ env'.revived = env.revived
  BY <1>1, <1>2, EnvTypes DEF IInv, TypeOK, Local
<1>4. SessionInv(s)'
  BY <1>1, <1>3 DEF IInv, SessionInv, Records, Owns, Works, Keeps, Up
<1> QED BY <1>1, <1>3, <1>4, LocalStep DEF Up, Wanted, CollectorStays

LEMMA TurnEndsStep ==
    ASSUME IInv, NEW s \in Sessions, TurnEnds(s)
    PROVE  IInv'
<1>1. /\ UNCHANGED <<caches, volumes, manager, held, running, tick, env>>
      /\ Up /\ turn[s].pc = "using" /\ Goto(s, "off")
      /\ lease' = [lease EXCEPT ![s].state = "Idle"]
  BY DEF TurnEnds, At
<1>2. /\ turn' \in [Sessions -> TurnRecord] /\ turn'[s].fresh = turn[s].fresh
      /\ \A t \in Sessions \ {s} : turn'[t] = turn[t]
      /\ turn'[s].pc = "off"
  BY <1>1, GotoMoves DEF IInv, Pcs
<1>3. held[s] # None /\ lease[s] # None
  BY <1>1 DEF IInv, SessionInv, Works, Owns
<1>4. /\ lease' \in [Sessions -> LeaseRecord \cup {None}] /\ lease'[s] # None
      /\ lease'[s].state = "Idle" /\ lease'[s].lock = lease[s].lock
      /\ lease'[s].caches = lease[s].caches
      /\ \A t \in Sessions \ {s} : lease'[t] = lease[t]
  BY <1>1, <1>3, LeaseMoves DEF IInv
<1>5. PICK d \in BOOLEAN : tree' = [tree EXCEPT ![s].dirty = @ /\ d]
  BY DEF TurnEnds
<1>6. /\ tree' \in [Sessions -> [lock : Locks, dirty : BOOLEAN]]
      /\ \A t \in Sessions \ {s} : tree'[t] = tree[t]
  BY <1>5 DEF IInv, TypeOK
<1>7. TypeOK' /\ Local(s)
  BY <1>1, <1>2, <1>4, <1>6 DEF IInv, TypeOK, Local
<1>8. SessionInv(s)'
  BY <1>1, <1>2, <1>3, <1>4 DEF IInv, SessionInv, Records, Owns, Works, Keeps, Up
<1> QED BY <1>1, <1>2, <1>7, <1>8, LocalStep DEF Up, Wanted, CollectorStays

LEMMA StopContainersStep ==
    ASSUME IInv, NEW s \in Sessions, StopContainers(s)
    PROVE  IInv'
<1>1. /\ UNCHANGED <<caches, volumes, manager, held, tree, tick>>
      /\ Up /\ turn[s].pc = "stop"
      /\ lease' = [lease EXCEPT ![s].state = "Stopping"]
  BY DEF StopContainers, At
<1>2. held[s] # None /\ lease[s] # None
  BY <1>1 DEF IInv, SessionInv, Works, Owns
<1>3. /\ lease' \in [Sessions -> LeaseRecord \cup {None}] /\ lease'[s] # None
      /\ lease'[s].state = "Stopping" /\ lease'[s].lock = lease[s].lock
      /\ lease'[s].caches = lease[s].caches
      /\ \A t \in Sessions \ {s} : lease'[t] = lease[t]
  BY <1>1, <1>2, LeaseMoves DEF IInv
<1>4. CASE /\ running' = [running EXCEPT ![s] = NoContainers]
           /\ Goto(s, "clear") /\ UNCHANGED env
  <2>1. /\ turn' \in [Sessions -> TurnRecord] /\ turn'[s].fresh = turn[s].fresh
        /\ \A t \in Sessions \ {s} : turn'[t] = turn[t]
        /\ turn'[s].pc = "clear" /\ turn'[s].then = turn[s].then
    BY <1>4, GotoMoves DEF IInv, Pcs
  <2>2. /\ running' \in [Sessions -> [task : Locks \cup {None}, sidecar : BOOLEAN]]
        /\ running'[s] = NoContainers
        /\ \A t \in Sessions \ {s} : running'[t] = running[t]
    BY <1>4, ContainersMove DEF IInv, NoContainers
  <2>3. TypeOK' /\ Local(s)
    BY <1>1, <1>3, <1>4, <2>1, <2>2 DEF IInv, TypeOK, Local
  <2>4. SessionInv(s)'
    BY <1>1, <1>2, <1>3, <1>4, <2>1, <2>2
    DEF IInv, SessionInv, Records, Owns, Works, Keeps, Up, NoContainers
  <2> QED BY <1>1, <1>4, <2>1, <2>3, <2>4, LocalStep DEF Up, Wanted, CollectorStays
<1>5. CASE Mishap /\ SomeRemoved(s) /\ Goto(s, "giveup")
  <2>1. /\ turn' \in [Sessions -> TurnRecord] /\ turn'[s].fresh = turn[s].fresh
        /\ \A t \in Sessions \ {s} : turn'[t] = turn[t]
        /\ turn'[s].pc = "giveup" /\ turn'[s].then = turn[s].then
    BY <1>5, GotoMoves DEF IInv, Pcs
  <2>2. /\ running' \in [Sessions -> [task : Locks \cup {None}, sidecar : BOOLEAN]]
        /\ running'[s].task \in {running[s].task, None}
        /\ \A t \in Sessions \ {s} : running'[t] = running[t]
    BY <1>5, SomeRemovedMoves DEF IInv
  <2>3. TypeOK' /\ Local(s) /\ env'.revived = env.revived
    BY <1>1, <1>3, <1>5, <2>1, <2>2, EnvTypes DEF IInv, TypeOK, Mishap, Local
  <2>4. SessionInv(s)'
    BY <1>1, <1>2, <1>3, <1>5, <2>1, <2>2, <2>3
    DEF IInv, SessionInv, Records, Owns, Works, Keeps, Up
  <2>5. s \notin env'.revived => lease'[s].caches \subseteq held'[s]
    BY <1>1, <1>2, <1>3, <2>3 DEF IInv, SessionInv, Keeps
  <2> QED BY <1>1, <1>5, <2>1, <2>3, <2>4, <2>5, LocalStep DEF Up, Wanted, CollectorStays
<1> QED BY <1>4, <1>5 DEF StopContainers

LEMMA StopEndsStep ==
    ASSUME IInv, NEW s \in Sessions, StopEnds(s)
    PROVE  IInv'
<1>1. /\ UNCHANGED <<caches, volumes, manager, running, tree, env>>
      /\ Up /\ turn[s].pc \in {"clear", "giveup"} /\ held[s] = {}
      /\ held' = [held EXCEPT ![s] = None]
  BY DEF StopEnds, At
<1>2. lease[s] # None
  BY <1>1, NoneIsNothing DEF IInv, SessionInv, Owns
<1>3. /\ held' \in [Sessions -> {None} \cup SUBSET Volumes] /\ held'[s] = None
      /\ \A t \in Sessions \ {s} : held'[t] = held[t]
  BY <1>1 DEF IInv, TypeOK
<1>4. /\ tick' \in [at : Ticks \cup {"down", "boot"}, todo : SUBSET (Sessions \cup Volumes),
                    failed : BOOLEAN]
      /\ tick'.at = tick.at
      /\ tick.at = "collect" => tick'.todo = tick.todo
  <2>1. \/ tick' = tick
        \/ tick.at = "reap" /\ tick' = [tick EXCEPT !.todo = {}]
        \/ tick.at = "reap" /\ tick' = Resting
    BY DEF StopEnds, Reaped
  <2>2. tick \in [at : Ticks \cup {"down", "boot"}, todo : SUBSET (Sessions \cup Volumes),
                  failed : BOOLEAN]
    BY DEF IInv, TypeOK
  <2>3. CASE tick.at = "reap" /\ tick' = [tick EXCEPT !.todo = {}]
    BY <2>2, <2>3
  <2>4. CASE tick.at = "reap" /\ tick' = Resting
    BY <2>4 DEF Resting, Ticks
  <2> QED BY <2>1, <2>2, <2>3, <2>4
<1>5. CASE turn[s].pc = "clear"
  <2>1. lease' = [lease EXCEPT ![s] = None] /\ Goto(s, turn[s].then)
    BY <1>5 DEF StopEnds
  <2>2. /\ turn' \in [Sessions -> TurnRecord] /\ turn'[s].fresh = turn[s].fresh
        /\ \A t \in Sessions \ {s} : turn'[t] = turn[t]
        /\ turn'[s].pc = turn[s].then /\ turn[s].then \in {"off", "attach", "lease"}
    BY <2>1, GotoMoves, SessionTypes DEF IInv, Pcs
  <2>3. /\ lease' \in [Sessions -> LeaseRecord \cup {None}] /\ lease'[s] = None
        /\ \A t \in Sessions \ {s} : lease'[t] = lease[t]
    BY <2>1 DEF IInv, TypeOK
  <2>4. TypeOK' /\ Local(s)
    BY <1>1, <1>3, <1>4, <2>2, <2>3 DEF IInv, TypeOK, Local
  <2>5. SessionInv(s)'
    <3>1. running'[s] = NoContainers /\ tree'[s] = tree[s]
      BY <1>1, <1>5 DEF IInv, SessionInv, Works
    <3>2. IF turn[s].then = "lease" THEN Base[tree[s].lock] \subseteq turn[s].fresh
                                    ELSE turn[s].fresh = {}
      BY <1>5 DEF IInv, SessionInv, Works
    <3>3. Records(lease[s], running[s])' /\ Owns(lease[s], held[s], turn[s])'
      BY <1>3, <2>3, <3>1 DEF Records, Owns, NoContainers
    <3>4. Works(lease[s], held[s], turn[s], running[s], tree[s].lock)'
      BY <1>3, <2>2, <3>1, <3>2 DEF Works
    <3> QED BY <1>3, <2>3, <3>3, <3>4 DEF SessionInv, Keeps
  <2> QED BY <1>1, <1>3, <1>4, <1>5, <2>2, <2>4, <2>5, LocalStep DEF Up, Wanted, CollectorStays
<1>6. CASE turn[s].pc = "giveup"
  <2>1. /\ lease' = [lease EXCEPT ![s].state = "Failed"]
        /\ Goto(s, IF turn[s].then = "off" THEN "off" ELSE "failed")
    BY <1>6 DEF StopEnds
  <2>2. /\ turn' \in [Sessions -> TurnRecord] /\ turn'[s].fresh = turn[s].fresh
        /\ \A t \in Sessions \ {s} : turn'[t] = turn[t]
        /\ turn'[s].pc = IF turn[s].then = "off" THEN "off" ELSE "failed"
    BY <2>1, GotoMoves DEF IInv, Pcs
  <2>3. /\ lease' \in [Sessions -> LeaseRecord \cup {None}] /\ lease'[s] # None
        /\ lease'[s].state = "Failed" /\ lease'[s].lock = lease[s].lock
        /\ lease'[s].caches = lease[s].caches
        /\ \A t \in Sessions \ {s} : lease'[t] = lease[t]
    BY <1>2, <2>1, LeaseMoves DEF IInv
  <2>4. TypeOK' /\ Local(s)
    BY <1>1, <1>3, <1>4, <2>2, <2>3 DEF IInv, TypeOK, Local
  <2>5. SessionInv(s)'
    BY <1>1, <1>2, <1>3, <1>6, <2>2, <2>3 DEF IInv, SessionInv, Records, Owns, Works, Keeps, Up
  <2> QED BY <1>1, <1>3, <1>4, <1>6, <2>2, <2>4, <2>5, LocalStep DEF Up, Wanted, CollectorStays
<1> QED BY <1>1, <1>5, <1>6

LEMMA TerminateStep ==
    ASSUME IInv, NEW s \in Sessions, Terminate(s)
    PROVE  IInv'
<1>1. /\ UNCHANGED <<caches, volumes, manager, held, tree, tick>>
      /\ Up /\ turn[s].pc = "off" /\ lease[s] # None
  BY DEF Terminate, At
<1>2. CASE held[s] # None
  <2>1. Stops(s, "off") /\ UNCHANGED <<lease, running, env>>
    BY <1>2 DEF Terminate
  <2>2. /\ turn' \in [Sessions -> TurnRecord] /\ turn'[s].fresh = turn[s].fresh
        /\ \A t \in Sessions \ {s} : turn'[t] = turn[t]
        /\ turn'[s].pc = "stop" /\ turn'[s].then = "off"
    BY <2>1, StopsMoves DEF IInv
  <2>3. TypeOK' /\ Local(s)
    BY <1>1, <2>1, <2>2 DEF IInv, TypeOK, Local
  <2>4. SessionInv(s)'
    BY <1>1, <1>2, <2>1, <2>2 DEF IInv, SessionInv, Records, Owns, Works, Keeps, Up
  <2> QED BY <1>1, <2>1, <2>2, <2>3, <2>4, LocalStep DEF Up, Wanted, CollectorStays
<1>3. CASE /\ held[s] = None /\ UNCHANGED <<turn, env>>
           /\ running' = [running EXCEPT ![s] = NoContainers]
           /\ lease' = [lease EXCEPT ![s] = None]
  <2>1. /\ lease' \in [Sessions -> LeaseRecord \cup {None}] /\ lease'[s] = None
        /\ \A t \in Sessions \ {s} : lease'[t] = lease[t]
    BY <1>3 DEF IInv, TypeOK
  <2>2. /\ running' \in [Sessions -> [task : Locks \cup {None}, sidecar : BOOLEAN]]
        /\ running'[s] = NoContainers
        /\ \A t \in Sessions \ {s} : running'[t] = running[t]
    BY <1>3, ContainersMove DEF IInv, NoContainers
  <2>3. TypeOK' /\ Local(s)
    BY <1>1, <1>3, <2>1, <2>2 DEF IInv, TypeOK, Local
  <2>4. SessionInv(s)'
    BY <1>1, <1>3, <2>1, <2>2 DEF IInv, SessionInv, Records, Owns, Works, Keeps, Up, NoContainers
  <2> QED BY <1>1, <1>3, <2>3, <2>4, LocalStep DEF Up, Wanted, CollectorStays
<1>4. CASE held[s] = None /\ Mishap /\ SomeRemoved(s) /\ UNCHANGED <<turn, lease>>
  <2>1. /\ running' \in [Sessions -> [task : Locks \cup {None}, sidecar : BOOLEAN]]
        /\ running'[s].task \in {running[s].task, None}
        /\ \A t \in Sessions \ {s} : running'[t] = running[t]
    BY <1>4, SomeRemovedMoves DEF IInv
  <2>2. TypeOK' /\ Local(s) /\ env'.revived = env.revived
    BY <1>1, <1>4, <2>1, EnvTypes DEF IInv, TypeOK, Mishap, Local
  <2>3. SessionInv(s)'
    BY <1>1, <1>4, <2>1, <2>2 DEF IInv, SessionInv, Records, Owns, Works, Keeps, Up
  <2> QED BY <1>1, <1>4, <2>2, <2>3, LocalStep DEF Up, Wanted, CollectorStays
<1> QED BY <1>2, <1>3, <1>4 DEF Terminate

\* A step of the containers alone, which stops some of them, in any state of the daemon
LEMMA ContainersStep ==
    ASSUME IInv, NEW s \in Sessions, TypeOK',
           UNCHANGED <<caches, volumes, manager, lease, held, turn, tree, tick>>,
           env'.revived = env.revived,
           \A t \in Sessions \ {s} : running'[t] = running[t],
           running'[s].task \in {running[s].task, None},
           running'[s].sidecar => running[s].sidecar,
           turn[s].pc # "clear", lease[s] # None
    PROVE  IInv'
<1>1. Local(s)
  BY DEF Local
<1>2. ASSUME NEW t \in Sessions PROVE SessionInv(t)'
  <2>1. CASE t = s
    BY <2>1 DEF IInv, SessionInv, Records, Owns, Works, Keeps, Up
  <2>2. CASE t # s
    BY <1>1, <2>2, OthersKeepTheirs DEF IInv, Up
  <2> QED BY <2>1, <2>2
<1>3. TickInv' /\ ManagerInv' /\ CountInv'
  BY DEF IInv, TickInv, Up, ManagerInv, Collectable, Wanted, CountInv, HeldBy, FreshBy
<1>4. \A t \in Sessions : Managed(t)' => Managed(t)
  BY DEF Managed
<1>5. KeepInv'
  BY <1>4 DEF IInv, KeepInv, Rests, Up
<1> QED BY <1>2, <1>3, <1>5 DEF IInv

LEMMA SidecarStopsStep ==
    ASSUME IInv, NEW s \in Sessions, SidecarStops(s)
    PROVE  IInv'
<1>1. /\ running[s].sidecar /\ running' = [running EXCEPT ![s].sidecar = FALSE]
      /\ UNCHANGED <<caches, volumes, manager, lease, held, turn, tree, tick, env>>
  BY DEF SidecarStops
<1>2. /\ running' \in [Sessions -> [task : Locks \cup {None}, sidecar : BOOLEAN]]
      /\ running'[s].task = running[s].task /\ ~running'[s].sidecar
      /\ \A t \in Sessions \ {s} : running'[t] = running[t]
  BY <1>1 DEF IInv, TypeOK
<1>3. TypeOK'
  BY <1>1, <1>2 DEF IInv, TypeOK
<1>4. turn[s].pc # "clear" /\ lease[s] # None
  BY <1>1 DEF IInv, SessionInv, Records, Works, NoContainers
<1> QED BY <1>1, <1>2, <1>3, <1>4, ContainersStep

LEMMA ContainerLostStep ==
    ASSUME IInv, NEW s \in Sessions, ContainerLost(s)
    PROVE  IInv'
<1>1. /\ running[s].task # None /\ running' = [running EXCEPT ![s].task = None] /\ Mishap
      /\ UNCHANGED <<caches, volumes, manager, lease, held, turn, tree, tick>>
  BY DEF ContainerLost, Managed
<1>2. /\ running' \in [Sessions -> [task : Locks \cup {None}, sidecar : BOOLEAN]]
      /\ running'[s].task = None /\ running'[s].sidecar = running[s].sidecar
      /\ \A t \in Sessions \ {s} : running'[t] = running[t]
  BY <1>1 DEF IInv, TypeOK
<1>3. TypeOK' /\ env'.revived = env.revived
  BY <1>1, <1>2, EnvTypes DEF IInv, TypeOK, Mishap
<1>4. turn[s].pc # "clear" /\ lease[s] # None
  BY <1>1 DEF IInv, SessionInv, Records, Works, NoContainers
<1> QED BY <1>1, <1>2, <1>3, <1>4, ContainersStep

-----------------------------------------------------------------------------
(* The tick, on one session *)

LEMMA ReapStep ==
    ASSUME IInv, NEW s \in Sessions, Reap(s)
    PROVE  IInv'
<1>1. /\ UNCHANGED <<caches, volumes, manager, lease, held, running, tree, env>>
      /\ Up /\ tick.at = "reap" /\ turn[s].pc = "off" /\ held[s] # None /\ Stops(s, "off")
      /\ tick' = [tick EXCEPT !.todo = {s}]
  BY DEF Reap, At
<1>2. /\ turn' \in [Sessions -> TurnRecord] /\ turn'[s].fresh = turn[s].fresh
      /\ \A t \in Sessions \ {s} : turn'[t] = turn[t]
      /\ turn'[s].pc = "stop" /\ turn'[s].then = "off"
  BY <1>1, StopsMoves DEF IInv
<1>3. /\ tick' \in [at : Ticks \cup {"down", "boot"}, todo : SUBSET (Sessions \cup Volumes),
                    failed : BOOLEAN]
      /\ tick'.at = "reap"
  BY <1>1 DEF IInv, TypeOK
<1>4. TypeOK' /\ Local(s)
  BY <1>1, <1>2, <1>3 DEF IInv, TypeOK, Local
<1>5. SessionInv(s)'
  BY <1>1, <1>2 DEF IInv, SessionInv, Records, Owns, Works, Keeps, Up
<1> QED BY <1>1, <1>2, <1>3, <1>4, <1>5, LocalStep DEF Up, Ticks, Wanted, CollectorStays

LEMMA RetryStep ==
    ASSUME IInv, NEW s \in Sessions, Retry(s)
    PROVE  IInv'
<1>1. /\ UNCHANGED <<caches, volumes, manager, held, turn, tree>>
      /\ tick.at = "retry" /\ turn[s].pc \in {"off", "attach", "using", "index", "failed"}
  BY DEF Retry
<1>2. /\ tick' \in [at : Ticks \cup {"down", "boot"}, todo : SUBSET (Sessions \cup Volumes),
                    failed : BOOLEAN]
      /\ tick'.at = "retry"
  <2> DEFINE todo == tick.todo \ {s}
             type == [at : Ticks \cup {"down", "boot"}, todo : SUBSET (Sessions \cup Volumes),
                      failed : BOOLEAN]
  <2>1. /\ tree[s].dirty \in BOOLEAN /\ tick \in type
        /\ todo \in SUBSET (Sessions \cup Volumes)
    BY DEF IInv, TypeOK
  <2>2. PICK b \in BOOLEAN : tick' = [tick EXCEPT !.todo = todo, !.failed = b]
    <3>1. CASE tick' = [tick EXCEPT !.todo = @ \ {s}]
      BY <2>1, <3>1
    <3>2. CASE tick' = [tick EXCEPT !.todo = @ \ {s}, !.failed = @ \/ tree[s].dirty]
      <4>1. (tick.failed \/ tree[s].dirty) \in BOOLEAN
        OBVIOUS
      <4> QED BY <3>2, <4>1
    <3>3. CASE tick' = [tick EXCEPT !.todo = @ \ {s}, !.failed = TRUE]
      BY <3>3
    <3> QED BY <3>1, <3>2, <3>3 DEF Retry
  <2> HIDE DEF todo
  <2> QED BY <1>1, <2>1, <2>2
<1>3. Up /\ Up' /\ tick'.at = tick.at /\ tick.at # "collect"
  BY <1>1, <1>2 DEF Up, Ticks
<1>4. CASE UNCHANGED <<lease, running, env>>
  <2>1. TypeOK' /\ Local(s)
    BY <1>1, <1>2, <1>4 DEF IInv, TypeOK, Local
  <2>2. SessionInv(s)'
    BY <1>1, <1>3, <1>4 DEF IInv, SessionInv, Records, Owns, Works, Keeps
  <2> QED BY <1>1, <1>3, <1>4, <2>1, <2>2, LocalStep DEF Wanted, CollectorStays
<1>5. CASE FailedCleanup(s) /\ Mishap /\ SomeRemoved(s) /\ UNCHANGED lease
  <2>1. /\ running' \in [Sessions -> [task : Locks \cup {None}, sidecar : BOOLEAN]]
        /\ running'[s].task \in {running[s].task, None}
        /\ running'[s].sidecar => running[s].sidecar
        /\ \A t \in Sessions \ {s} : running'[t] = running[t]
    BY <1>5, SomeRemovedMoves DEF IInv
  <2>2. TypeOK' /\ Local(s) /\ env'.revived = env.revived
    BY <1>1, <1>2, <1>5, <2>1, EnvTypes DEF IInv, TypeOK, Mishap, Local
  <2>3. SessionInv(s)'
    <3>1. held[s] = None /\ lease[s] # None
      BY <1>1, <1>5 DEF IInv, SessionInv, Owns, FailedCleanup
    <3> QED BY <1>1, <1>3, <1>5, <2>1, <2>2, <3>1
        DEF IInv, SessionInv, Records, Owns, Works, Keeps
  <2> QED BY <1>1, <1>3, <1>5, <2>2, <2>3, LocalStep DEF Wanted, CollectorStays
<1>6. CASE /\ FailedCleanup(s) /\ UNCHANGED env
           /\ running' = [running EXCEPT ![s] = NoContainers]
           /\ lease' = lease \/ lease' = [lease EXCEPT ![s] = None]
  <2>1. /\ running' \in [Sessions -> [task : Locks \cup {None}, sidecar : BOOLEAN]]
        /\ running'[s] = NoContainers
        /\ \A t \in Sessions \ {s} : running'[t] = running[t]
    BY <1>6, ContainersMove DEF IInv, NoContainers
  <2>2. /\ lease' \in [Sessions -> LeaseRecord \cup {None}] /\ lease'[s] \in {lease[s], None}
        /\ \A t \in Sessions \ {s} : lease'[t] = lease[t]
    BY <1>6 DEF IInv, TypeOK
  <2>3. held[s] = None /\ lease[s] # None /\ lease[s].state = "Failed"
    BY <1>1, <1>6 DEF IInv, SessionInv, Owns, FailedCleanup
  <2>4. TypeOK' /\ Local(s)
    BY <1>1, <1>2, <1>6, <2>1, <2>2 DEF IInv, TypeOK, Local
  <2>5. SessionInv(s)'
    BY <1>1, <1>3, <1>6, <2>1, <2>2, <2>3
    DEF IInv, SessionInv, Records, Owns, Works, Keeps, NoContainers
  <2>6. turn[s].pc # "index"
    BY <2>3 DEF IInv, SessionInv, Works
  <2> QED BY <1>1, <1>3, <1>6, <2>4, <2>5, <2>6, LocalStep DEF Wanted, CollectorStays
<1> QED BY <1>4, <1>5, <1>6 DEF Retry

-----------------------------------------------------------------------------
(* Counts *)

LEMMA HoldersAreFinite ==
    ASSUME NEW v
    PROVE  /\ IsFiniteSet(HeldBy(v)) /\ IsFiniteSet(FreshBy(v))
           /\ Cardinality(HeldBy(v)) \in Nat /\ Cardinality(FreshBy(v)) \in Nat
<1>1. IsFiniteSet(HeldBy(v)) /\ IsFiniteSet(FreshBy(v))
  BY FS_Subset, CacheAssumption DEF HeldBy, FreshBy
<1> QED BY <1>1, FS_CardinalityType

\* Holders(v)' are Holders(v) and s, or without s.
LEMMA OneMore ==
    ASSUME NEW S, IsFiniteSet(S), NEW s, NEW T, T = S \cup {s}
    PROVE  /\ Cardinality(T) \in Nat /\ Cardinality(S) \in Nat
           /\ Cardinality(T) <= Cardinality(S) + 1
<1>1. /\ IsFiniteSet(T)
      /\ Cardinality(T) = IF s \in S THEN Cardinality(S) ELSE Cardinality(S) + 1
  BY FS_AddElement
<1>2. Cardinality(T) \in Nat /\ Cardinality(S) \in Nat
  BY <1>1, FS_CardinalityType
<1> QED BY <1>1, <1>2

LEMMA OneLess ==
    ASSUME NEW S, IsFiniteSet(S), NEW s \in S, NEW T, T = S \ {s}
    PROVE  /\ Cardinality(T) \in Nat /\ Cardinality(S) \in Nat
           /\ Cardinality(T) = Cardinality(S) - 1 /\ Cardinality(S) >= 1
<1>1. IsFiniteSet(T) /\ Cardinality(T) = Cardinality(S) - 1
  BY FS_RemoveElement
<1>2. Cardinality(T) \in Nat /\ Cardinality(S) \in Nat
  BY <1>1, FS_CardinalityType
<1> QED BY <1>1, <1>2

\* The lease takes over what the turn has attached.
LEMMA HandOver ==
    ASSUME IInv, TypeOK', NEW s \in Sessions, Up, Local(s), SessionInv(s)',
           UNCHANGED <<caches, volumes, manager, tick>>,
           held'[s] = (IF held[s] = None THEN {} ELSE held[s]) \cup turn[s].fresh,
           turn'[s].fresh = {}, turn'[s].pc = "using", Wanted(s) = {},
           s \in env.revived => s \in env'.revived
    PROVE  IInv'
<1>1. ManagerInv'
  BY ManagerStays DEF CollectorStays
<1>2. CountInv'
  <2> SUFFICES ASSUME NEW v \in Volumes
               PROVE  /\ HeldBy(v)' # {} \/ FreshBy(v)' # {} => caches[v] # None
                      /\ (HeldBy(v)' \ env'.revived) \cup FreshBy(v)' # {} => v \in volumes
                      /\ caches[v] # None => caches[v].count >=
                                Cardinality(HeldBy(v)') + Cardinality(FreshBy(v)')
    BY DEF CountInv
  <2>1. /\ HeldBy(v) # {} \/ FreshBy(v) # {} => caches[v] # None
        /\ (HeldBy(v) \ env.revived) \cup FreshBy(v) # {} => v \in volumes
        /\ caches[v] # None => /\ caches[v].count \in Nat
                               /\ caches[v].count >= Cardinality(HeldBy(v)) + Cardinality(FreshBy(v))
    BY DEF IInv, CountInv, TypeOK, CacheRecord
  <2>2. held'[s] # None
    <3>1. held'[s] \in SUBSET Volumes
      BY SessionTypes DEF IInv
    <3> QED BY <3>1, NoneIsNothing
  <2>3. CASE v \in turn[s].fresh
    <3>1. HeldBy(v)' = HeldBy(v) \cup {s}
      BY <2>2, <2>3 DEF HeldBy, Local
    <3>2. FreshBy(v)' = FreshBy(v) \ {s} /\ s \in FreshBy(v)
      BY <2>3 DEF FreshBy, Local
    <3>3. Cardinality(HeldBy(v)') \in Nat /\ Cardinality(HeldBy(v)') <= Cardinality(HeldBy(v)) + 1
      BY <3>1, HoldersAreFinite, OneMore
    <3>4. /\ Cardinality(FreshBy(v)') \in Nat /\ Cardinality(FreshBy(v)) \in Nat
          /\ Cardinality(FreshBy(v)') = Cardinality(FreshBy(v)) - 1
      BY <3>2, HoldersAreFinite, OneLess
    <3>5. Cardinality(HeldBy(v)) \in Nat
      BY HoldersAreFinite
    <3>6. caches[v] # None /\ v \in volumes
      BY <2>1, <3>2
    <3> QED BY <2>1, <3>3, <3>4, <3>5, <3>6
  <2>4. CASE v \notin turn[s].fresh
    <3>1. HeldBy(v)' = HeldBy(v)
      BY <2>2, <2>4 DEF HeldBy, Local
    <3>2. FreshBy(v)' = FreshBy(v)
      BY <2>4 DEF FreshBy, Local
    <3>3. \A t \in HeldBy(v) : t \in env.revived => t \in env'.revived
      BY DEF HeldBy, Local
    <3> QED BY <2>1, <3>1, <3>2, <3>3
  <2> QED BY <2>3, <2>4
<1>3. CachesStay /\ Up'
  BY DEF CachesStay, Up
<1> QED BY <1>1, <1>2, <1>3, OwnStep

LEMMA HoldMoves ==
    ASSUME TypeOK, NEW s \in Sessions, NEW h \in SUBSET Volumes,
           held' = [held EXCEPT ![s] = h],
           turn' = [turn EXCEPT ![s].pc = "using", ![s].fresh = {}]
    PROVE  /\ held' \in [Sessions -> {None} \cup SUBSET Volumes] /\ held'[s] = h
           /\ turn' \in [Sessions -> TurnRecord] /\ turn'[s].fresh = {} /\ turn'[s].pc = "using"
           /\ \A t \in Sessions \ {s} : turn'[t] = turn[t] /\ held'[t] = held[t]
<1>1. turn[s] \in TurnRecord
  BY DEF TypeOK
<1>2. [turn[s] EXCEPT !.pc = "using", !.fresh = {}] \in TurnRecord
  BY <1>1 DEF TurnRecord, Pcs
<1>3. turn' = [turn EXCEPT ![s] = [turn[s] EXCEPT !.pc = "using", !.fresh = {}]]
  BY <1>1 DEF TypeOK
<1> QED BY <1>1, <1>2, <1>3 DEF TypeOK, TurnRecord

LEMMA AcquireRevivesStep ==
    ASSUME IInv, NEW s \in Sessions, AcquireRevives(s)
    PROVE  IInv'
<1>1. /\ UNCHANGED <<caches, volumes, manager, running, tree, tick>>
      /\ Up /\ turn[s].pc = "lease" /\ held[s] = None /\ lease[s] # None
      /\ lease' = [lease EXCEPT ![s].state = "InUse"]
      /\ held' = [held EXCEPT ![s] = turn[s].fresh]
      /\ turn' = [turn EXCEPT ![s].pc = "using", ![s].fresh = {}]
      /\ env' = [env EXCEPT !.revived = @ \cup {s}]
  BY DEF AcquireRevives, At
<1>2. /\ held' \in [Sessions -> {None} \cup SUBSET Volumes] /\ held'[s] = turn[s].fresh
      /\ turn' \in [Sessions -> TurnRecord] /\ turn'[s].fresh = {} /\ turn'[s].pc = "using"
      /\ \A t \in Sessions \ {s} : turn'[t] = turn[t] /\ held'[t] = held[t]
  BY <1>1, HoldMoves, SessionTypes DEF IInv
<1>3. /\ lease' \in [Sessions -> LeaseRecord \cup {None}] /\ lease'[s] # None
      /\ lease'[s].state = "InUse" /\ lease'[s].lock = lease[s].lock
      /\ lease'[s].caches = lease[s].caches
      /\ \A t \in Sessions \ {s} : lease'[t] = lease[t]
  BY <1>1, LeaseMoves DEF IInv
<1>4. TypeOK' /\ Local(s) /\ s \in env'.revived
  BY <1>1, <1>2, <1>3 DEF IInv, TypeOK, Local
<1>5. held'[s] # None
  BY <1>2, NoneIsNothing, SessionTypes DEF IInv
<1>6. SessionInv(s)'
  BY <1>1, <1>2, <1>3, <1>4, <1>5 DEF IInv, SessionInv, Records, Owns, Works, Up
<1> QED BY <1>1, <1>2, <1>4, <1>6, HandOver DEF Wanted

LEMMA AcquireEndsStep ==
    ASSUME IInv, NEW s \in Sessions, AcquireEnds(s)
    PROVE  IInv'
<1>1. /\ UNCHANGED <<caches, volumes, manager, running, tree, tick, env>>
      /\ Up /\ turn[s].pc = "created"
      /\ lease' = [lease EXCEPT ![s].state = "InUse"]
      /\ held' = [held EXCEPT ![s] = turn[s].fresh]
      /\ turn' = [turn EXCEPT ![s].pc = "using", ![s].fresh = {}]
  BY DEF AcquireEnds, At
<1>2. /\ held[s] = None /\ lease[s] # None /\ ~running[s].sidecar
      /\ lease[s].caches \subseteq turn[s].fresh
  BY <1>1 DEF IInv, SessionInv, Works, Owns
<1>3. /\ held' \in [Sessions -> {None} \cup SUBSET Volumes] /\ held'[s] = turn[s].fresh
      /\ turn' \in [Sessions -> TurnRecord] /\ turn'[s].fresh = {} /\ turn'[s].pc = "using"
      /\ \A t \in Sessions \ {s} : turn'[t] = turn[t] /\ held'[t] = held[t]
  BY <1>1, HoldMoves, SessionTypes DEF IInv
<1>4. /\ lease' \in [Sessions -> LeaseRecord \cup {None}] /\ lease'[s] # None
      /\ lease'[s].state = "InUse" /\ lease'[s].lock = lease[s].lock
      /\ lease'[s].caches = lease[s].caches
      /\ \A t \in Sessions \ {s} : lease'[t] = lease[t]
  BY <1>1, <1>2, LeaseMoves DEF IInv
<1>5. TypeOK' /\ Local(s)
  BY <1>1, <1>3, <1>4 DEF IInv, TypeOK, Local
<1>6. held'[s] # None
  BY <1>3, NoneIsNothing, SessionTypes DEF IInv
<1>7. SessionInv(s)'
  BY <1>1, <1>2, <1>3, <1>4, <1>6 DEF IInv, SessionInv, Records, Owns, Works, Keeps, Up
<1> QED BY <1>1, <1>2, <1>3, <1>5, <1>7, HandOver DEF Wanted

LEMMA RegisterIndexStep ==
    ASSUME IInv, NEW s \in Sessions, RegisterIndex(s)
    PROVE  IInv'
<1>1. /\ UNCHANGED <<caches, volumes, manager, running, tree, tick, env>>
      /\ Up /\ turn[s].pc = "index" /\ turn[s].fresh # {}
      /\ lease' = [lease EXCEPT ![s].caches = @ \cup turn[s].fresh]
      /\ held' = [held EXCEPT ![s] = @ \cup turn[s].fresh]
      /\ turn' = [turn EXCEPT ![s].pc = "using", ![s].fresh = {}]
  BY DEF RegisterIndex, At
<1>2. /\ held[s] # None /\ lease[s] # None /\ turn[s].fresh \subseteq {Index[lease[s].lock]}
  BY <1>1 DEF IInv, SessionInv, Works, Owns
<1>3. /\ held[s] \in SUBSET Volumes /\ turn[s].fresh \in SUBSET Volumes
      /\ lease[s] \in LeaseRecord
  BY <1>2, SessionTypes DEF IInv
<1>4. /\ held' \in [Sessions -> {None} \cup SUBSET Volumes] /\ held'[s] = held[s] \cup turn[s].fresh
      /\ turn' \in [Sessions -> TurnRecord] /\ turn'[s].fresh = {} /\ turn'[s].pc = "using"
      /\ \A t \in Sessions \ {s} : turn'[t] = turn[t] /\ held'[t] = held[t]
  <2> DEFINE h == held[s] \cup turn[s].fresh
  <2>1. h \in SUBSET Volumes /\ held' = [held EXCEPT ![s] = h]
    BY <1>1, <1>3
  <2> HIDE DEF h
  <2>2. /\ held' \in [Sessions -> {None} \cup SUBSET Volumes] /\ held'[s] = h
        /\ turn' \in [Sessions -> TurnRecord] /\ turn'[s].fresh = {} /\ turn'[s].pc = "using"
        /\ \A t \in Sessions \ {s} : turn'[t] = turn[t] /\ held'[t] = held[t]
    BY <1>1, <2>1, HoldMoves DEF IInv
  <2> QED BY <2>2 DEF h
<1>5. /\ lease' \in [Sessions -> LeaseRecord \cup {None}] /\ lease'[s] # None
      /\ lease'[s].state = lease[s].state /\ lease'[s].lock = lease[s].lock
      /\ lease'[s].caches = lease[s].caches \cup turn[s].fresh
      /\ \A t \in Sessions \ {s} : lease'[t] = lease[t]
  <2> DEFINE C == lease[s].caches \cup turn[s].fresh
             l == [lease[s] EXCEPT !.caches = C]
  <2>1. l \in LeaseRecord /\ l.state = lease[s].state /\ l.lock = lease[s].lock /\ l.caches = C
    BY <1>3 DEF LeaseRecord
  <2>2. lease' = [lease EXCEPT ![s] = l]
    BY <1>1, <1>3
  <2> HIDE DEF l
  <2> QED BY <2>1, <2>2, NoneIsNothing DEF IInv, TypeOK
<1>6. TypeOK' /\ Local(s)
  BY <1>1, <1>4, <1>5 DEF IInv, TypeOK, Local
<1>7. held'[s] # None
  BY <1>3, <1>4, NoneIsNothing
<1>8. SessionInv(s)'
  BY <1>1, <1>2, <1>4, <1>5, <1>7 DEF IInv, SessionInv, Records, Owns, Works, Keeps, Up
<1>9. Wanted(s) = {}
  BY <1>1, <1>2 DEF Wanted
<1> QED BY <1>1, <1>2, <1>4, <1>6, <1>8, <1>9, HandOver

-----------------------------------------------------------------------------
(* CacheManager::acquire *)

LEMMA CachesMove ==
    ASSUME TypeOK, NEW v \in Volumes, NEW c \in CacheRecord, caches' = [caches EXCEPT ![v] = c]
    PROVE  /\ caches' \in [Volumes -> CacheRecord \cup {None}]
           /\ caches'[v] = c /\ c # None
           /\ \A w \in Volumes \ {v} : caches'[w] = caches[w]
BY NoneIsNothing DEF TypeOK

\* Nobody comes to hold a cache or ceases to.
LEMMA SameHolders ==
    ASSUME IInv, TypeOK', NEW s \in Sessions, Local(s), held'[s] = held[s],
           turn'[s].fresh = turn[s].fresh, s \in env.revived => s \in env'.revived,
           CachesStay, \A v \in Volumes : caches[v] # None => caches'[v].count = caches[v].count
    PROVE  CountInv'
<1> SUFFICES ASSUME NEW v \in Volumes
             PROVE  /\ HeldBy(v)' # {} \/ FreshBy(v)' # {} => caches'[v] # None
                    /\ (HeldBy(v)' \ env'.revived) \cup FreshBy(v)' # {} => v \in volumes'
                    /\ caches'[v] # None => caches'[v].count >=
                              Cardinality(HeldBy(v)') + Cardinality(FreshBy(v)')
  BY DEF CountInv
<1>1. HeldBy(v)' = HeldBy(v) /\ FreshBy(v)' = FreshBy(v)
  BY DEF HeldBy, FreshBy, Local
<1>2. \A t \in HeldBy(v) : t \in env.revived => t \in env'.revived
  BY DEF HeldBy, Local
<1>3. /\ HeldBy(v) # {} \/ FreshBy(v) # {} => caches[v] # None
      /\ (HeldBy(v) \ env.revived) \cup FreshBy(v) # {} => v \in volumes
      /\ caches[v] # None => caches[v].count >= Cardinality(HeldBy(v)) + Cardinality(FreshBy(v))
  BY DEF IInv, CountInv
<1>4. ASSUME caches[v] = None, caches'[v] # None
      PROVE  caches'[v].count >= Cardinality(HeldBy(v)) + Cardinality(FreshBy(v))
  <2>1. HeldBy(v) = {} /\ FreshBy(v) = {}
    BY <1>3, <1>4
  <2>2. Cardinality(HeldBy(v)) = 0 /\ Cardinality(FreshBy(v)) = 0
    BY <2>1, FS_EmptySet
  <2>3. caches'[v].count \in Nat
    BY <1>4 DEF TypeOK, CacheRecord
  <2> QED BY <2>2, <2>3
<1> QED BY <1>1, <1>2, <1>3, <1>4 DEF CachesStay

LEMMA WantedTypes ==
    ASSUME IInv, NEW s \in Sessions
    PROVE  /\ Wanted(s) \in SUBSET Volumes
           /\ Wanted(s) # {} => turn[s].pc \in {"attach", "index"}
<1>1. CASE turn[s].pc = "attach"
  BY <1>1, SessionTypes DEF IInv, Wanted
<1>2. CASE turn[s].pc = "index"
  <2>1. Index[lease[s].lock] # None /\ lease[s].lock \in Locks
    BY <1>2, SessionTypes DEF IInv, SessionInv, Works, Owns
  <2> QED BY <1>2, <2>1, CacheAssumption DEF Wanted
<1> QED BY <1>1, <1>2 DEF Wanted

LEMMA PrepareStep ==
    ASSUME IInv, NEW s \in Sessions, Prepare(s)
    PROVE  IInv'
<1>1. PICK v \in Wanted(s) :
      /\ caches' = [caches EXCEPT ![v] =
                      [IF @ = None THEN NewCache ELSE @ EXCEPT !.preparing = s]]
      /\ manager' = [by |-> s, volume |-> v, done |-> FALSE]
      /\ Up /\ manager = None
      /\ UNCHANGED <<volumes, lease, held, turn, running, tree, tick, env>>
  BY DEF Prepare
<1>2. v \in Volumes
  BY WantedTypes
<1> DEFINE b == IF caches[v] = None THEN NewCache ELSE caches[v]
           c == [b EXCEPT !.preparing = s]
<1>3. b \in CacheRecord /\ (caches[v] # None => b = caches[v])
  BY <1>2 DEF NewCache, CacheRecord, IInv, TypeOK
<1>4. c \in CacheRecord /\ c.count = b.count /\ c.old = b.old
  BY <1>3 DEF CacheRecord
<1>5. caches' = [caches EXCEPT ![v] = c]
  BY <1>1, <1>2 DEF IInv, TypeOK
<1> HIDE DEF b, c
<1>6. /\ caches' \in [Volumes -> CacheRecord \cup {None}] /\ caches'[v] = c /\ c # None
      /\ \A w \in Volumes \ {v} : caches'[w] = caches[w]
  BY <1>2, <1>4, <1>5, CachesMove DEF IInv
<1>7. manager' \in ManagerRecord /\ manager' # None /\ manager'.by = s /\ manager'.volume = v
      /\ ~manager'.done
  <2>1. [by |-> s, volume |-> v, done |-> FALSE] \in ManagerRecord
    BY <1>2 DEF ManagerRecord
  <2>2. [by |-> s, volume |-> v, done |-> FALSE] # None
    BY <2>1, NoneIsNothing
  <2> QED BY <1>1, <2>1, <2>2
<1>8. TypeOK' /\ Local(s) /\ Up'
  BY <1>1, <1>6, <1>7 DEF IInv, TypeOK, Local, Up
<1>9. CachesStay
  BY <1>1, <1>3, <1>4, <1>6 DEF CachesStay
<1>10. CountInv'
  <2>1. \A w \in Volumes : caches[w] # None => caches'[w].count = caches[w].count
    BY <1>3, <1>4, <1>6
  <2> QED BY <1>1, <1>8, <1>9, <2>1, SameHolders
<1>11. ManagerInv'
  <2>1. tick'.at # "collect" /\ manager'.by # "gc"
    BY <1>1, <1>7, CacheAssumption DEF IInv, ManagerInv
  <2>2. v \in Wanted(s)'
    BY <1>1 DEF Wanted
  <2> QED BY <1>6, <1>7, <2>1, <2>2 DEF ManagerInv
<1>12. SessionInv(s)'
  BY <1>1 DEF IInv, SessionInv, Records, Owns, Works, Keeps, Up
<1>13. turn'[s].pc # "giveup"
  BY <1>1, WantedTypes
<1> QED BY <1>1, <1>8, <1>9, <1>10, <1>11, <1>12, <1>13, OwnStep

\* What is known of the session that the manager works for
LEMMA HolderOf ==
    ASSUME IInv, NEW s \in Sessions, Holding(s)
    PROVE  /\ Up /\ manager # None /\ manager \in ManagerRecord /\ manager.by = s
           /\ tick.at # "collect"
           /\ manager.volume \in Volumes /\ manager.volume \in Wanted(s)
           /\ turn[s].pc \in {"attach", "index"}
           /\ caches[manager.volume] # None /\ caches[manager.volume] \in CacheRecord
           /\ manager.done => manager.volume \in volumes
<1>1. Up /\ manager # None /\ manager \in ManagerRecord /\ manager.by = s
  BY DEF Holding, IInv, TypeOK
<1>2. /\ manager.volume \in Wanted(s) /\ caches[manager.volume] # None
      /\ manager.done => manager.volume \in volumes
  BY <1>1 DEF IInv, ManagerInv
<1>3. manager.volume \in Volumes /\ turn[s].pc \in {"attach", "index"}
  BY <1>2, WantedTypes
<1>4. tick.at # "collect"
  BY <1>1, CacheAssumption DEF IInv, ManagerInv
<1> QED BY <1>1, <1>2, <1>3, <1>4 DEF IInv, TypeOK

LEMMA EnsureVolumeStep ==
    ASSUME IInv, NEW s \in Sessions, EnsureVolume(s)
    PROVE  IInv'
<1>1. /\ Holding(s) /\ ~manager.done
      /\ volumes' = volumes \cup {manager.volume}
      /\ manager' = [manager EXCEPT !.done = TRUE]
      /\ UNCHANGED <<caches, lease, held, turn, running, tree, tick, env>>
  BY DEF EnsureVolume
<1>2. /\ Up /\ manager # None /\ manager \in ManagerRecord /\ manager.by = s
      /\ tick.at # "collect"
      /\ manager.volume \in Volumes /\ manager.volume \in Wanted(s)
      /\ turn[s].pc \in {"attach", "index"} /\ caches[manager.volume] # None
  BY <1>1, HolderOf
<1>3. /\ manager' \in ManagerRecord /\ manager' # None /\ manager'.by = s
      /\ manager'.volume = manager.volume /\ manager'.done
  BY <1>1, <1>2, NoneIsNothing DEF ManagerRecord
<1>4. TypeOK' /\ Local(s) /\ Up' /\ CachesStay
  BY <1>1, <1>2, <1>3 DEF IInv, TypeOK, Local, Up, CachesStay
<1>5. CountInv'
  BY <1>1, <1>4, SameHolders
<1>6. ManagerInv'
  <2>1. tick'.at # "collect" /\ manager'.by # "gc"
    BY <1>1, <1>2, <1>3, CacheAssumption
  <2>2. manager'.volume \in Wanted(s)' /\ caches'[manager'.volume] # None
        /\ manager'.volume \in volumes'
    BY <1>1, <1>2, <1>3 DEF Wanted
  <2> QED BY <1>3, <2>1, <2>2 DEF ManagerInv
<1>7. SessionInv(s)'
  BY <1>1 DEF IInv, SessionInv, Records, Owns, Works, Keeps, Up
<1> QED BY <1>1, <1>2, <1>4, <1>5, <1>6, <1>7, OwnStep

\* An index that its session still wants
LEMMA NothingFresh ==
    ASSUME IInv, NEW s \in Sessions, turn[s].pc = "index", Wanted(s) # {}
    PROVE  turn[s].fresh = {}
BY DEF IInv, SessionInv, Works, Wanted

LEMMA EnsureFailsStep ==
    ASSUME IInv, NEW s \in Sessions, EnsureFails(s)
    PROVE  IInv'
<1>1. /\ Holding(s) /\ Mishap
      /\ caches' = [caches EXCEPT ![manager.volume].preparing = None]
      /\ manager' = None
      /\ Goto(s, IF turn[s].pc = "index" THEN "using" ELSE "failed")
      /\ UNCHANGED <<volumes, lease, held, running, tree, tick>>
  BY DEF EnsureFails
<1>2. /\ Up /\ manager # None /\ manager \in ManagerRecord /\ manager.by = s
      /\ tick.at # "collect"
      /\ manager.volume \in Volumes /\ manager.volume \in Wanted(s)
      /\ turn[s].pc \in {"attach", "index"}
      /\ caches[manager.volume] # None /\ caches[manager.volume] \in CacheRecord
  BY <1>1, HolderOf
<1> DEFINE v == manager.volume
           c == [caches[v] EXCEPT !.preparing = None]
<1>3. c \in CacheRecord /\ c.count = caches[v].count /\ c.old = caches[v].old
  BY <1>2 DEF CacheRecord
<1>4. caches' = [caches EXCEPT ![v] = c]
  BY <1>1, <1>2 DEF IInv, TypeOK
<1> HIDE DEF c
<1>5. /\ caches' \in [Volumes -> CacheRecord \cup {None}] /\ caches'[v] = c /\ c # None
      /\ \A w \in Volumes \ {v} : caches'[w] = caches[w]
  BY <1>2, <1>3, <1>4, CachesMove DEF IInv
<1>6. /\ turn' \in [Sessions -> TurnRecord] /\ turn'[s].fresh = turn[s].fresh
      /\ \A t \in Sessions \ {s} : turn'[t] = turn[t]
      /\ turn'[s].pc = IF turn[s].pc = "index" THEN "using" ELSE "failed"
  BY <1>1, GotoMoves DEF IInv, Pcs
<1>7. TypeOK' /\ Local(s) /\ Up' /\ env'.revived = env.revived
  BY <1>1, <1>2, <1>5, <1>6, EnvTypes DEF IInv, TypeOK, Local, Up, Mishap
<1>8. CachesStay /\ \A w \in Volumes : caches[w] # None => caches'[w].count = caches[w].count
  BY <1>1, <1>2, <1>3, <1>5 DEF CachesStay
<1>9. CountInv'
  BY <1>1, <1>6, <1>7, <1>8, SameHolders
<1>10. ManagerInv'
  BY <1>1, <1>2 DEF ManagerInv
<1>11. turn[s].pc = "index" => turn[s].fresh = {}
  BY <1>2, NothingFresh
<1>12. SessionInv(s)'
  BY <1>1, <1>2, <1>6, <1>7, <1>11 DEF IInv, SessionInv, Records, Owns, Works, Keeps, Up
<1> QED BY <1>2, <1>6, <1>7, <1>8, <1>9, <1>10, <1>12, OwnStep

LEMMA FreshMoves ==
    ASSUME TypeOK, NEW s \in Sessions, NEW f \in SUBSET Volumes,
           turn' = [turn EXCEPT ![s].fresh = f]
    PROVE  /\ turn' \in [Sessions -> TurnRecord] /\ turn'[s].fresh = f
           /\ turn'[s].pc = turn[s].pc /\ turn'[s].then = turn[s].then
           /\ \A t \in Sessions \ {s} : turn'[t] = turn[t]
<1>1. turn[s] \in TurnRecord
  BY DEF TypeOK
<1>2. [turn[s] EXCEPT !.fresh = f] \in TurnRecord
  BY <1>1 DEF TurnRecord
<1> QED BY <1>1, <1>2 DEF TypeOK, TurnRecord

LEMMA AttachStep ==
    ASSUME IInv, NEW s \in Sessions, Attach(s)
    PROVE  IInv'
<1> DEFINE v == manager.volume
           c == Attached(caches[v])
           f == turn[s].fresh \cup {v}
<1>1. /\ Holding(s) /\ manager.done
      /\ caches' = [caches EXCEPT ![v] = Attached(@)]
      /\ manager' = None
      /\ turn' = [turn EXCEPT ![s].fresh = @ \cup {v}]
      /\ UNCHANGED <<volumes, lease, held, running, tree, tick, env>>
  BY DEF Attach
<1>2. /\ Up /\ tick.at # "collect" /\ v \in Volumes /\ v \in Wanted(s)
      /\ turn[s].pc \in {"attach", "index"}
      /\ caches[v] # None /\ caches[v] \in CacheRecord /\ v \in volumes
  BY <1>1, HolderOf
<1>3. c \in CacheRecord /\ c.count = caches[v].count + 1 /\ ~c.old
  <2> DEFINE n == caches[v].count + 1
  <2>1. n \in Nat
    BY <1>2 DEF CacheRecord
  <2>2. c = [caches[v] EXCEPT !.count = n, !.preparing = None, !.old = FALSE]
    BY DEF Attached
  <2> HIDE DEF n, c
  <2>3. c \in CacheRecord /\ c.count = n /\ ~c.old
    BY <1>2, <2>1, <2>2 DEF CacheRecord
  <2> QED BY <2>3 DEF n
<1>4. caches' = [caches EXCEPT ![v] = c]
  BY <1>1, <1>2 DEF IInv, TypeOK
<1> HIDE DEF c
<1>5. /\ caches' \in [Volumes -> CacheRecord \cup {None}] /\ caches'[v] = c /\ c # None
      /\ \A w \in Volumes \ {v} : caches'[w] = caches[w]
  BY <1>2, <1>3, <1>4, CachesMove DEF IInv
<1>6. /\ turn' \in [Sessions -> TurnRecord] /\ turn'[s].fresh = f
      /\ turn'[s].pc = turn[s].pc /\ turn'[s].then = turn[s].then
      /\ \A t \in Sessions \ {s} : turn'[t] = turn[t]
  <2>1. f \in SUBSET Volumes /\ turn' = [turn EXCEPT ![s].fresh = f]
    BY <1>1, <1>2, SessionTypes DEF IInv, TypeOK
  <2> HIDE DEF f
  <2> QED BY <2>1, FreshMoves DEF IInv
<1> HIDE DEF v
<1>7. TypeOK' /\ Local(s) /\ Up' /\ CachesStay
  BY <1>1, <1>2, <1>3, <1>5, <1>6 DEF IInv, TypeOK, Local, Up, CachesStay
<1>8. CountInv'
  <2> SUFFICES ASSUME NEW w \in Volumes
               PROVE  /\ HeldBy(w)' # {} \/ FreshBy(w)' # {} => caches'[w] # None
                      /\ (HeldBy(w)' \ env'.revived) \cup FreshBy(w)' # {} => w \in volumes'
                      /\ caches'[w] # None => caches'[w].count >=
                                Cardinality(HeldBy(w)') + Cardinality(FreshBy(w)')
    BY DEF CountInv
  <2>1. /\ HeldBy(w) # {} \/ FreshBy(w) # {} => caches[w] # None
        /\ (HeldBy(w) \ env.revived) \cup FreshBy(w) # {} => w \in volumes
        /\ caches[w] # None => /\ caches[w].count \in Nat
                               /\ caches[w].count >= Cardinality(HeldBy(w)) + Cardinality(FreshBy(w))
    BY DEF IInv, CountInv, TypeOK, CacheRecord
  <2>2. HeldBy(w)' = HeldBy(w)
    BY <1>1 DEF HeldBy
  <2>3. CASE w = v
    <3>1. FreshBy(w)' = FreshBy(w) \cup {s}
      BY <1>6, <2>3 DEF FreshBy
    <3>2. /\ Cardinality(FreshBy(w)') \in Nat /\ Cardinality(FreshBy(w)) \in Nat
          /\ Cardinality(FreshBy(w)') <= Cardinality(FreshBy(w)) + 1
      BY <3>1, HoldersAreFinite, OneMore
    <3>3. Cardinality(HeldBy(w)) \in Nat
      BY HoldersAreFinite
    <3> QED BY <1>1, <1>2, <1>3, <1>5, <2>1, <2>2, <2>3, <3>2, <3>3
  <2>4. CASE w # v
    <3>1. FreshBy(w)' = FreshBy(w)
      BY <1>6, <2>4 DEF FreshBy
    <3> QED BY <1>1, <1>5, <2>1, <2>2, <2>4, <3>1
  <2> QED BY <2>3, <2>4
<1>9. ManagerInv'
  BY <1>1, <1>2 DEF ManagerInv
<1>10. SessionInv(s)'
  <2>1. turn[s].pc = "index" => v = Index[lease[s].lock]
    BY <1>2 DEF Wanted
  <2> QED BY <1>1, <1>2, <1>6, <2>1 DEF IInv, SessionInv, Records, Owns, Works, Keeps, Up
<1> QED BY <1>2, <1>6, <1>7, <1>8, <1>9, <1>10, OwnStep

-----------------------------------------------------------------------------
(* CacheManager::detach *)

LEMMA DetachMoves ==
    ASSUME IInv, NEW v \in Volumes, caches[v] # None, Detached(v)
    PROVE  /\ caches' \in [Volumes -> CacheRecord \cup {None}] /\ caches'[v] # None
           /\ ~caches'[v].old /\ caches'[v].count \in Nat /\ caches[v].count \in Nat
           /\ caches[v].count >= 1 => caches'[v].count = caches[v].count - 1
           /\ \A w \in Volumes \ {v} : caches'[w] = caches[w]
<1> DEFINE n == IF caches[v].count = 0 THEN 0 ELSE caches[v].count - 1
           c == Released(caches[v])
<1>1. caches[v] \in CacheRecord
  BY DEF IInv, TypeOK
<1>2. /\ n \in Nat /\ caches[v].count \in Nat
      /\ caches[v].count >= 1 => n = caches[v].count - 1
  BY <1>1 DEF CacheRecord
<1>3. c \in CacheRecord /\ c.count = n /\ ~c.old
  <2>1. c = [caches[v] EXCEPT !.count = n, !.old = FALSE]
    BY DEF Released
  <2> HIDE DEF n, c
  <2> QED BY <1>1, <1>2, <2>1 DEF CacheRecord
<1>4. caches' = [caches EXCEPT ![v] = c]
  BY DEF Detached, IInv, TypeOK
<1> HIDE DEF c
<1>5. /\ caches' \in [Volumes -> CacheRecord \cup {None}] /\ caches'[v] = c /\ c # None
      /\ \A w \in Volumes \ {v} : caches'[w] = caches[w]
  BY <1>3, <1>4, CachesMove DEF IInv
<1> QED BY <1>2, <1>3, <1>5

LEMMA DropFreshStep ==
    ASSUME IInv, NEW s \in Sessions, DropFresh(s)
    PROVE  IInv'
<1>1. /\ UNCHANGED <<volumes, manager, lease, held, running, tree, tick, env>>
      /\ Up /\ turn[s].pc \in {"reused", "failed"}
  BY DEF DropFresh, At
<1>2. CASE turn[s].fresh = {}
  <2>1. UNCHANGED caches /\ Goto(s, IF turn[s].pc = "reused" THEN "using" ELSE "off")
    BY <1>2 DEF DropFresh
  <2>2. /\ turn' \in [Sessions -> TurnRecord] /\ turn'[s].fresh = turn[s].fresh
        /\ \A t \in Sessions \ {s} : turn'[t] = turn[t]
        /\ turn'[s].pc = IF turn[s].pc = "reused" THEN "using" ELSE "off"
    BY <2>1, GotoMoves DEF IInv, Pcs
  <2>3. TypeOK' /\ Local(s)
    BY <1>1, <2>1, <2>2 DEF IInv, TypeOK, Local
  <2>4. SessionInv(s)'
    BY <1>1, <1>2, <2>1, <2>2 DEF IInv, SessionInv, Records, Owns, Works, Keeps, Up
  <2> QED BY <1>1, <2>1, <2>2, <2>3, <2>4, LocalStep DEF Up, Wanted, CollectorStays
<1>3. CASE turn[s].fresh # {}
  <2>1. PICK v \in turn[s].fresh :
        manager = None /\ Detached(v) /\ turn' = [turn EXCEPT ![s].fresh = @ \ {v}]
    BY <1>3 DEF DropFresh
  <2>2. v \in Volumes /\ s \in FreshBy(v) /\ caches[v] # None
    <3>1. v \in Volumes /\ s \in FreshBy(v)
      BY SessionTypes DEF IInv, FreshBy
    <3> QED BY <3>1 DEF IInv, CountInv
  <2>3. /\ caches' \in [Volumes -> CacheRecord \cup {None}] /\ caches'[v] # None
        /\ ~caches'[v].old /\ caches'[v].count \in Nat /\ caches[v].count \in Nat
        /\ caches[v].count >= 1 => caches'[v].count = caches[v].count - 1
        /\ \A w \in Volumes \ {v} : caches'[w] = caches[w]
    BY <2>1, <2>2, DetachMoves
  <2> DEFINE f == turn[s].fresh \ {v}
  <2>4. /\ turn' \in [Sessions -> TurnRecord] /\ turn'[s].fresh = f
        /\ turn'[s].pc = turn[s].pc /\ turn'[s].then = turn[s].then
        /\ \A t \in Sessions \ {s} : turn'[t] = turn[t]
    <3>1. f \in SUBSET Volumes /\ turn' = [turn EXCEPT ![s].fresh = f]
      BY <2>1, SessionTypes DEF IInv, TypeOK
    <3> HIDE DEF f
    <3> QED BY <3>1, FreshMoves DEF IInv
  <2>5. TypeOK' /\ Local(s) /\ Up' /\ CachesStay
    BY <1>1, <2>2, <2>3, <2>4 DEF IInv, TypeOK, Local, Up, CachesStay
  <2>6. CountInv'
    <3> SUFFICES ASSUME NEW w \in Volumes
                 PROVE  /\ HeldBy(w)' # {} \/ FreshBy(w)' # {} => caches'[w] # None
                        /\ (HeldBy(w)' \ env'.revived) \cup FreshBy(w)' # {} => w \in volumes'
                        /\ caches'[w] # None => caches'[w].count >=
                                  Cardinality(HeldBy(w)') + Cardinality(FreshBy(w)')
      BY DEF CountInv
    <3>1. /\ HeldBy(w) # {} \/ FreshBy(w) # {} => caches[w] # None
          /\ (HeldBy(w) \ env.revived) \cup FreshBy(w) # {} => w \in volumes
          /\ caches[w] # None => caches[w].count >= Cardinality(HeldBy(w)) + Cardinality(FreshBy(w))
      BY DEF IInv, CountInv
    <3>2. HeldBy(w)' = HeldBy(w)
      BY <1>1 DEF HeldBy
    <3>3. CASE w = v
      <4>1. FreshBy(w)' = FreshBy(w) \ {s} /\ s \in FreshBy(w)
        BY <2>2, <2>4, <3>3 DEF FreshBy
      <4>2. /\ Cardinality(FreshBy(w)') \in Nat /\ Cardinality(FreshBy(w)) \in Nat
            /\ Cardinality(FreshBy(w)') = Cardinality(FreshBy(w)) - 1
            /\ Cardinality(FreshBy(w)) >= 1
        BY <4>1, HoldersAreFinite, OneLess
      <4>3. Cardinality(HeldBy(w)) \in Nat
        BY HoldersAreFinite
      <4>4. (HeldBy(w)' \ env'.revived) \cup FreshBy(w)' # {} => w \in volumes'
        BY <1>1, <3>1, <4>1
      <4> QED BY <2>2, <2>3, <3>1, <3>2, <3>3, <4>2, <4>3, <4>4
    <3>4. CASE w # v
      <4>1. FreshBy(w)' = FreshBy(w)
        BY <2>4, <3>4 DEF FreshBy
      <4> QED BY <1>1, <2>3, <3>1, <3>2, <3>4, <4>1
    <3> QED BY <3>3, <3>4
  <2>7. ManagerInv'
    BY <1>1, <2>1 DEF IInv, ManagerInv
  <2>8. SessionInv(s)'
    BY <1>1, <2>4 DEF IInv, SessionInv, Records, Owns, Works, Keeps, Up
  <2> QED BY <1>1, <2>4, <2>5, <2>6, <2>7, <2>8, OwnStep
<1> QED BY <1>2, <1>3

LEMMA ClearAttachmentsStep ==
    ASSUME IInv, NEW s \in Sessions, ClearAttachments(s)
    PROVE  IInv'
<1>1. /\ UNCHANGED <<volumes, manager, lease, turn, running, tree, tick, env>>
      /\ Up /\ turn[s].pc \in {"clear", "giveup"} /\ manager = None
  BY DEF ClearAttachments, At
<1>2. held[s] # None /\ held[s] \in SUBSET Volumes
  BY <1>1, SessionTypes DEF IInv, SessionInv, Works
<1>3. PICK v \in held[s] : Detached(v) /\ held' = [held EXCEPT ![s] = @ \ {v}]
  BY DEF ClearAttachments
<1>4. v \in Volumes /\ s \in HeldBy(v) /\ caches[v] # None
  <2>1. v \in Volumes /\ s \in HeldBy(v)
    BY <1>2 DEF HeldBy
  <2> QED BY <2>1 DEF IInv, CountInv
<1>5. /\ caches' \in [Volumes -> CacheRecord \cup {None}] /\ caches'[v] # None
      /\ ~caches'[v].old /\ caches'[v].count \in Nat /\ caches[v].count \in Nat
      /\ caches[v].count >= 1 => caches'[v].count = caches[v].count - 1
      /\ \A w \in Volumes \ {v} : caches'[w] = caches[w]
  BY <1>3, <1>4, DetachMoves
<1> DEFINE h == held[s] \ {v}
<1>6. h \in SUBSET Volumes /\ h # None
  BY <1>2, NoneIsNothing
<1>7. /\ held' \in [Sessions -> {None} \cup SUBSET Volumes] /\ held'[s] = h
      /\ \A t \in Sessions \ {s} : held'[t] = held[t]
  <2>1. held' = [held EXCEPT ![s] = h]
    BY <1>3 DEF IInv, TypeOK
  <2> HIDE DEF h
  <2> QED BY <1>6, <2>1 DEF IInv, TypeOK
<1>8. TypeOK' /\ Local(s) /\ Up' /\ CachesStay
  BY <1>1, <1>4, <1>5, <1>7 DEF IInv, TypeOK, Local, Up, CachesStay
<1>9. CountInv'
  <2> SUFFICES ASSUME NEW w \in Volumes
               PROVE  /\ HeldBy(w)' # {} \/ FreshBy(w)' # {} => caches'[w] # None
                      /\ (HeldBy(w)' \ env'.revived) \cup FreshBy(w)' # {} => w \in volumes'
                      /\ caches'[w] # None => caches'[w].count >=
                                Cardinality(HeldBy(w)') + Cardinality(FreshBy(w)')
    BY DEF CountInv
  <2>1. /\ HeldBy(w) # {} \/ FreshBy(w) # {} => caches[w] # None
        /\ (HeldBy(w) \ env.revived) \cup FreshBy(w) # {} => w \in volumes
        /\ caches[w] # None => caches[w].count >= Cardinality(HeldBy(w)) + Cardinality(FreshBy(w))
    BY DEF IInv, CountInv
  <2>2. FreshBy(w)' = FreshBy(w)
    BY <1>1 DEF FreshBy
  <2>3. CASE w = v
    <3>1. HeldBy(w)' = HeldBy(w) \ {s} /\ s \in HeldBy(w)
      BY <1>4, <1>7, <2>3 DEF HeldBy
    <3>2. /\ Cardinality(HeldBy(w)') \in Nat /\ Cardinality(HeldBy(w)) \in Nat
          /\ Cardinality(HeldBy(w)') = Cardinality(HeldBy(w)) - 1
          /\ Cardinality(HeldBy(w)) >= 1
      BY <3>1, HoldersAreFinite, OneLess
    <3>3. Cardinality(FreshBy(w)) \in Nat
      BY HoldersAreFinite
    <3>4. (HeldBy(w)' \ env'.revived) \cup FreshBy(w)' # {} => w \in volumes'
      BY <1>1, <2>1, <2>2, <3>1
    <3> QED BY <1>4, <1>5, <2>1, <2>2, <2>3, <3>2, <3>3, <3>4
  <2>4. CASE w # v
    <3>1. HeldBy(w)' = HeldBy(w)
      BY <1>2, <1>6, <1>7, <2>4 DEF HeldBy
    <3> QED BY <1>1, <1>5, <2>1, <2>2, <2>4, <3>1
  <2> QED BY <2>3, <2>4
<1>10. ManagerInv'
  BY <1>1 DEF IInv, ManagerInv
<1>11. SessionInv(s)'
  BY <1>1, <1>2, <1>6, <1>7 DEF IInv, SessionInv, Records, Owns, Works, Keeps, Up
<1>12. ASSUME s \notin env'.revived, lease'[s] # None, turn'[s].pc = "giveup",
             NEW w \in lease'[s].caches
      PROVE  Rests(s, w)'
  <2>1. w \in Volumes
    BY <1>1, <1>12, SessionTypes DEF IInv
  <2>2. w \in held[s] \/ (caches[w] # None /\ ~caches[w].old /\ w \in volumes)
    BY <1>1, <1>12 DEF IInv, KeepInv, Rests
  <2>3. v \in volumes
    BY <1>1, <1>4, <1>12 DEF IInv, CountInv
  <2>4. w \in held'[s] \/ (caches'[w] # None /\ ~caches'[w].old /\ w \in volumes)
    BY <1>5, <1>7, <2>1, <2>2, <2>3
  <2> QED BY <1>1, <1>8, <2>4 DEF Rests
<1> QED BY <1>1, <1>8, <1>9, <1>10, <1>11, <1>12, OwnStep

-----------------------------------------------------------------------------
(* The tick, on caches *)

\* Sessions stay what they are.
LEMMA TickStep ==
    ASSUME IInv, TypeOK', Up, Up', UNCHANGED <<lease, held, turn, running, tree>>,
           env'.revived = env.revived, ManagerInv', CountInv', KeepInv'
    PROVE  IInv'
<1>1. TickInv'
  BY DEF Up, Ticks, TickInv
<1>2. ASSUME NEW s \in Sessions PROVE SessionInv(s)'
  BY DEF IInv, SessionInv, Records, Owns, Works, Keeps
<1> QED BY <1>1, <1>2 DEF IInv

\* Neither sessions nor caches change, and nothing is being collected.
LEMMA QuietTick ==
    ASSUME IInv, TypeOK', Up, Up', UNCHANGED <<caches, volumes, lease, held, turn, running, tree>>,
           env'.revived = env.revived, tick'.at # "collect",
           manager' = IF tick.at = "collect" THEN None ELSE manager
    PROVE  IInv'
<1>1. ManagerInv'
  BY DEF IInv, ManagerInv, Wanted
<1>2. CountInv'
  BY DEF IInv, CountInv, HeldBy, FreshBy
<1>3. KeepInv'
  BY DEF IInv, KeepInv, Rests
<1> QED BY <1>1, <1>2, <1>3, TickStep

LEMMA ReapEndsStep ==
    ASSUME IInv, ReapEnds
    PROVE  IInv'
<1>1. PICK a \in {"gc", "retry"}, S \in SUBSET Sessions :
          tick' = [tick EXCEPT !.at = a, !.todo = S]
  <2> DEFINE S == {s \in Sessions : FailedCleanup(s)}
             a == IF S = {} THEN "gc" ELSE "retry"
  <2>1. tick' = [tick EXCEPT !.at = a, !.todo = S]
    BY DEF ReapEnds
  <2>2. S \in SUBSET Sessions /\ a \in {"gc", "retry"}
    OBVIOUS
  <2> HIDE DEF S, a
  <2> QED BY <2>1, <2>2
<1>2. /\ tick' \in [at : Ticks \cup {"down", "boot"}, todo : SUBSET (Sessions \cup Volumes),
                    failed : BOOLEAN]
      /\ tick'.at \in {"gc", "retry"}
  BY <1>1 DEF IInv, TypeOK, Ticks
<1>3. /\ UNCHANGED <<caches, volumes, manager, lease, held, turn, running, tree, env>>
      /\ tick.at = "reap"
  BY DEF ReapEnds
<1>4. TypeOK' /\ Up /\ Up'
  BY <1>2, <1>3 DEF IInv, TypeOK, Up, Ticks
<1> QED BY <1>2, <1>3, <1>4, QuietTick

LEMMA RetryEndsStep ==
    ASSUME IInv, RetryEnds
    PROVE  IInv'
<1>1. /\ UNCHANGED <<caches, volumes, manager, lease, held, turn, running, tree, env>>
      /\ tick.at = "retry"
      /\ tick' = Resting \/ tick' = [tick EXCEPT !.at = "gc"]
  BY DEF RetryEnds
<1>2. /\ tick' \in [at : Ticks \cup {"down", "boot"}, todo : SUBSET (Sessions \cup Volumes),
                    failed : BOOLEAN]
      /\ tick'.at \in {"reap", "gc"}
  <2>1. CASE tick' = Resting
    BY <2>1 DEF Resting, Ticks
  <2>2. CASE tick' = [tick EXCEPT !.at = "gc"]
    BY <2>2 DEF IInv, TypeOK, Ticks
  <2> QED BY <1>1, <2>1, <2>2
<1>3. TypeOK' /\ Up /\ Up'
  BY <1>1, <1>2 DEF IInv, TypeOK, Up, Ticks
<1> QED BY <1>1, <1>2, <1>3, QuietTick

LEMMA GcEndsStep ==
    ASSUME IInv, GcEnds
    PROVE  IInv'
<1>1. /\ UNCHANGED <<caches, volumes, lease, held, turn, running, tree, env>>
      /\ tick.at = "collect" /\ manager' = None /\ tick' = Resting
  BY DEF GcEnds
<1>2. /\ tick' \in [at : Ticks \cup {"down", "boot"}, todo : SUBSET (Sessions \cup Volumes),
                    failed : BOOLEAN]
      /\ tick'.at = "reap"
  BY <1>1 DEF Resting, Ticks
<1>3. TypeOK' /\ Up /\ Up'
  BY <1>1, <1>2 DEF IInv, TypeOK, Up, Ticks
<1> QED BY <1>1, <1>2, <1>3, QuietTick

LEMMA GcStartsStep ==
    ASSUME IInv, GcStarts
    PROVE  IInv'
<1> DEFINE unused == {v \in Volumes : Collectable(v)}
           gc == [by |-> "gc", volume |-> None, done |-> FALSE]
<1>1. /\ UNCHANGED <<caches, volumes, lease, held, turn, running, tree, env>>
      /\ tick.at = "gc" /\ manager = None
      /\ \/ tick' = Resting /\ UNCHANGED manager
         \/ tick' = [tick EXCEPT !.at = "collect", !.todo = unused] /\ manager' = gc
  BY DEF GcStarts
<1>2. Up
  BY <1>1 DEF Up, Ticks
<1>3. CASE tick' = Resting /\ UNCHANGED manager
  <2>1. /\ tick' \in [at : Ticks \cup {"down", "boot"}, todo : SUBSET (Sessions \cup Volumes),
                      failed : BOOLEAN]
        /\ tick'.at = "reap"
    BY <1>3 DEF Resting, Ticks
  <2>2. TypeOK' /\ Up'
    BY <1>1, <1>3, <2>1 DEF IInv, TypeOK, Up, Ticks
  <2> QED BY <1>1, <1>2, <1>3, <2>1, <2>2, QuietTick
<1>4. CASE tick' = [tick EXCEPT !.at = "collect", !.todo = unused] /\ manager' = gc
  <2>1. unused \in SUBSET Volumes /\ \A v \in unused : Collectable(v)
    OBVIOUS
  <2>2. gc \in ManagerRecord /\ gc.by = "gc" /\ ~gc.done
    BY DEF ManagerRecord
  <2>3. gc # None
    BY <2>2, NoneIsNothing
  <2> HIDE DEF unused, gc
  <2>4. /\ tick' \in [at : Ticks \cup {"down", "boot"}, todo : SUBSET (Sessions \cup Volumes),
                      failed : BOOLEAN]
        /\ tick'.at = "collect" /\ tick'.todo = unused
    BY <1>4, <2>1 DEF IInv, TypeOK, Ticks
  <2>5. TypeOK' /\ Up'
    BY <1>1, <1>4, <2>2, <2>4 DEF IInv, TypeOK, Up, Ticks
  <2>6. ManagerInv'
    <3>1. \A v \in unused : v \in Volumes /\ Collectable(v)'
      BY <1>1, <2>1 DEF Collectable
    <3>2. \A s \in Sessions : manager'.by # s
      BY <1>4, <2>2, CacheAssumption
    <3> QED BY <1>4, <2>2, <2>3, <2>4, <3>1, <3>2 DEF ManagerInv
  <2>7. CountInv' /\ KeepInv'
    BY <1>1, <1>2, <2>5 DEF IInv, CountInv, HeldBy, FreshBy, KeepInv, Rests
  <2> QED BY <1>1, <1>2, <2>5, <2>6, <2>7, TickStep
<1> QED BY <1>1, <1>3, <1>4

LEMMA NobodyHolds ==
    ASSUME IInv, NEW v \in Volumes, Collectable(v)
    PROVE  HeldBy(v) = {} /\ FreshBy(v) = {}
<1>1. /\ caches[v].count = 0
      /\ caches[v].count >= Cardinality(HeldBy(v)) + Cardinality(FreshBy(v))
  BY DEF Collectable, IInv, CountInv
<1>2. Cardinality(HeldBy(v)) = 0 /\ Cardinality(FreshBy(v)) = 0
  BY <1>1, HoldersAreFinite
<1> QED BY <1>2, HoldersAreFinite, FS_EmptySet

LEMMA GcRemovesVolumeStep ==
    ASSUME IInv, GcRemovesVolume
    PROVE  IInv'
<1>1. /\ UNCHANGED <<caches, lease, held, turn, running, tree>>
      /\ tick.at = "collect" /\ Up
  BY DEF GcRemovesVolume, Up, Ticks
<1>2. /\ manager # None /\ manager.by = "gc" /\ manager \in ManagerRecord
      /\ \A v \in tick.todo : v \in Volumes /\ Collectable(v)
  BY <1>1 DEF IInv, TypeOK, ManagerInv
<1>3. PICK v \in tick.todo :
        \/ /\ volumes' = volumes \ {v}
           /\ manager' = [manager EXCEPT !.volume = v, !.done = TRUE]
           /\ UNCHANGED <<tick, env>>
        \/ /\ env' = env \/ Mishap
           /\ manager' = None /\ tick' = Resting /\ UNCHANGED volumes
  BY DEF GcRemovesVolume
<1>4. CASE /\ volumes' = volumes \ {v}
           /\ manager' = [manager EXCEPT !.volume = v, !.done = TRUE]
           /\ UNCHANGED <<tick, env>>
  <2>1. /\ manager' \in ManagerRecord /\ manager'.by = "gc" /\ manager'.volume = v
    BY <1>2, <1>4 DEF ManagerRecord
  <2>2. manager' # None
    BY <2>1, NoneIsNothing
  <2>3. TypeOK' /\ Up'
    BY <1>1, <1>4, <2>1 DEF IInv, TypeOK, Up
  <2>4. ManagerInv'
    <3>1. \A w \in tick.todo : w \in Volumes /\ Collectable(w)'
      BY <1>1, <1>2 DEF Collectable
    <3>2. \A s \in Sessions : manager'.by # s
      BY <2>1, CacheAssumption
    <3> QED BY <1>1, <1>4, <2>1, <2>2, <3>1, <3>2 DEF ManagerInv
  <2>5. HeldBy(v) = {} /\ FreshBy(v) = {}
    BY <1>2, NobodyHolds
  <2>6. CountInv'
    BY <1>1, <1>4, <2>5 DEF IInv, CountInv, HeldBy, FreshBy
  <2>7. KeepInv'
    BY <1>1, <1>2, <1>4, <2>3 DEF IInv, KeepInv, Rests, Collectable
  <2> QED BY <1>1, <1>4, <2>3, <2>4, <2>6, <2>7, TickStep
<1>5. CASE /\ env' = env \/ Mishap
           /\ manager' = None /\ tick' = Resting /\ UNCHANGED volumes
  <2>1. /\ tick' \in [at : Ticks \cup {"down", "boot"}, todo : SUBSET (Sessions \cup Volumes),
                      failed : BOOLEAN]
        /\ tick'.at = "reap"
    BY <1>5 DEF Resting, Ticks
  <2>2. /\ env'.revived = env.revived
        /\ env' \in [turns : Nat, edits : Nat, mishaps : Nat, crashes : Nat,
                     revived : SUBSET Sessions]
    BY <1>5, EnvTypes DEF IInv, TypeOK, Mishap
  <2>3. TypeOK' /\ Up'
    BY <1>1, <1>5, <2>1, <2>2 DEF IInv, TypeOK, Up, Ticks
  <2> QED BY <1>1, <1>5, <2>1, <2>2, <2>3, QuietTick
<1> QED BY <1>3, <1>4, <1>5

LEMMA GcRemovesRecordStep ==
    ASSUME IInv, GcRemovesRecord
    PROVE  IInv'
<1> DEFINE v == manager.volume
           todo == tick.todo \ {v}
<1>1. /\ UNCHANGED <<volumes, lease, held, turn, running, tree, env>>
      /\ tick.at = "collect" /\ Up /\ manager.done
      /\ caches' = [caches EXCEPT ![v] = None]
      /\ tick' = [tick EXCEPT !.todo = todo]
      /\ manager' = [manager EXCEPT !.volume = None, !.done = FALSE]
  BY DEF GcRemovesRecord, Up, Ticks
<1>2. /\ manager # None /\ manager.by = "gc" /\ manager \in ManagerRecord /\ v \in tick.todo
      /\ \A w \in tick.todo : w \in Volumes /\ Collectable(w)
  BY <1>1 DEF IInv, TypeOK, ManagerInv
<1>3. manager' \in ManagerRecord /\ manager'.by = "gc" /\ ~manager'.done
  BY <1>1, <1>2 DEF ManagerRecord
<1>4. manager' # None
  BY <1>3, NoneIsNothing
<1>5. todo \subseteq tick.todo /\ v \notin todo
  OBVIOUS
<1> HIDE DEF todo, v
<1>6. /\ tick' \in [at : Ticks \cup {"down", "boot"}, todo : SUBSET (Sessions \cup Volumes),
                    failed : BOOLEAN]
      /\ tick'.at = "collect" /\ tick'.todo = todo
  BY <1>1, <1>5 DEF IInv, TypeOK
<1>7. /\ caches' \in [Volumes -> CacheRecord \cup {None}] /\ caches'[v] = None
      /\ \A w \in Volumes \ {v} : caches'[w] = caches[w]
  BY <1>1, <1>2 DEF IInv, TypeOK
<1>8. TypeOK' /\ Up'
  BY <1>1, <1>3, <1>6, <1>7 DEF IInv, TypeOK, Up, Ticks
<1>9. ManagerInv'
  <2>1. \A w \in todo : w \in Volumes /\ Collectable(w)'
    BY <1>2, <1>5, <1>7 DEF Collectable
  <2>2. \A s \in Sessions : manager'.by # s
    BY <1>3, CacheAssumption
  <2> QED BY <1>3, <1>4, <1>6, <2>1, <2>2 DEF ManagerInv
<1>10. HeldBy(v) = {} /\ FreshBy(v) = {} /\ v \in Volumes /\ caches[v].old
  BY <1>2, NobodyHolds DEF Collectable
<1>11. CountInv'
  <2> SUFFICES ASSUME NEW w \in Volumes
               PROVE  /\ HeldBy(w)' # {} \/ FreshBy(w)' # {} => caches'[w] # None
                      /\ (HeldBy(w)' \ env'.revived) \cup FreshBy(w)' # {} => w \in volumes'
                      /\ caches'[w] # None => caches'[w].count >=
                                Cardinality(HeldBy(w)') + Cardinality(FreshBy(w)')
    BY DEF CountInv
  <2>1. HeldBy(w)' = HeldBy(w) /\ FreshBy(w)' = FreshBy(w)
    BY <1>1 DEF HeldBy, FreshBy
  <2> QED BY <1>1, <1>7, <1>10, <2>1 DEF IInv, CountInv
<1>12. KeepInv'
  <2> SUFFICES ASSUME NEW s \in Sessions, s \notin env.revived, lease[s] # None,
                      NEW w \in lease[s].caches, turn[s].pc = "giveup"
               PROVE  w \in held[s] \/ (caches'[w] # None /\ ~caches'[w].old /\ w \in volumes)
    BY <1>1, <1>8 DEF KeepInv, Rests
  <2>1. w \in Volumes
    BY SessionTypes DEF IInv
  <2>2. w \in held[s] \/ (caches[w] # None /\ ~caches[w].old /\ w \in volumes)
    BY DEF IInv, KeepInv, Rests
  <2> QED BY <1>7, <1>10, <2>1, <2>2
<1> QED BY <1>1, <1>8, <1>9, <1>11, <1>12, TickStep

LEMMA AgesStep ==
    ASSUME IInv, NEW v \in Volumes, Ages(v)
    PROVE  IInv'
<1> DEFINE c == [caches[v] EXCEPT !.old = TRUE]
<1>1. /\ UNCHANGED <<volumes, manager, lease, held, turn, running, tree, tick, env>>
      /\ manager = None /\ \A s \in Sessions : turn[s].pc \in {"off", "using"}
      /\ caches[v] # None /\ caches' = [caches EXCEPT ![v] = c]
  BY DEF Ages, IInv, TypeOK
<1>2. c \in CacheRecord /\ c.count = caches[v].count
  <2>1. caches[v] \in CacheRecord
    BY <1>1 DEF IInv, TypeOK
  <2> QED BY <2>1 DEF CacheRecord
<1> HIDE DEF c
<1>3. /\ caches' \in [Volumes -> CacheRecord \cup {None}] /\ caches'[v] = c /\ c # None
      /\ \A w \in Volumes \ {v} : caches'[w] = caches[w]
  BY <1>1, <1>2, CachesMove DEF IInv
<1>4. TypeOK' /\ (Up <=> Up')
  BY <1>1, <1>3 DEF IInv, TypeOK, Up
<1>5. TickInv'
  BY <1>1 DEF IInv, TickInv, Up
<1>6. ASSUME NEW s \in Sessions PROVE SessionInv(s)'
  BY <1>1 DEF IInv, SessionInv, Records, Owns, Works, Keeps, Up
<1>7. ManagerInv'
  BY <1>1 DEF IInv, ManagerInv
<1>8. \A w \in Volumes : /\ caches'[w] # None <=> caches[w] # None
                         /\ caches[w] # None => caches'[w].count = caches[w].count
  BY <1>1, <1>2, <1>3
<1>9. CountInv'
  <2> SUFFICES ASSUME NEW w \in Volumes
               PROVE  /\ HeldBy(w)' # {} \/ FreshBy(w)' # {} => caches'[w] # None
                      /\ (HeldBy(w)' \ env'.revived) \cup FreshBy(w)' # {} => w \in volumes'
                      /\ caches'[w] # None => caches'[w].count >=
                                Cardinality(HeldBy(w)') + Cardinality(FreshBy(w)')
    BY DEF CountInv
  <2>1. HeldBy(w)' = HeldBy(w) /\ FreshBy(w)' = FreshBy(w)
    BY <1>1 DEF HeldBy, FreshBy
  <2> QED BY <1>1, <1>8, <2>1 DEF IInv, CountInv
<1>10. KeepInv'
  <2> SUFFICES ASSUME NEW s \in Sessions, s \notin env.revived, lease[s] # None,
                      NEW w \in lease[s].caches
               PROVE  Rests(s, w)'
    BY <1>1 DEF KeepInv
  <2>1. w \in Volumes /\ Rests(s, w) /\ turn[s].pc # "giveup"
    BY <1>1, SessionTypes DEF IInv, KeepInv
  <2> QED BY <1>1, <1>8, <2>1 DEF Rests, Up, Managed
<1> QED BY <1>4, <1>5, <1>6, <1>7, <1>9, <1>10 DEF IInv

-----------------------------------------------------------------------------
(* Stops and starts of the daemon *)

\* The caches of a lease whose container is there are those that the lease holds, or
\* that it has just attached, or that nobody has given up for long.
LEMMA LeaseKeepsCaches ==
    ASSUME IInv, NEW s \in Sessions, s \notin env.revived, lease[s] # None,
           lease[s].state # "Failed", Managed(s), NEW v \in lease[s].caches
    PROVE  caches[v] # None /\ v \in volumes
<1>1. v \in Volumes /\ Rests(s, v)
  BY SessionTypes DEF IInv, KeepInv
<1>2. ASSUME s \in HeldBy(v) \/ s \in FreshBy(v)
      PROVE  caches[v] # None /\ v \in volumes
  BY <1>1, <1>2 DEF IInv, CountInv
<1>4. CASE ~Up
  BY <1>1, <1>4 DEF Rests
<1>5. CASE Up /\ held[s] = None
  <2>1. turn[s].pc \in {"create", "created"}
    BY <1>5 DEF IInv, SessionInv
  <2>2. s \in FreshBy(v)
    BY <2>1 DEF IInv, SessionInv, Works, FreshBy
  <2> QED BY <1>2, <2>2
<1>6. CASE Up /\ held[s] # None
  <2>1. CASE turn[s].pc \notin {"clear", "giveup"}
    <3>1. s \in HeldBy(v)
      BY <1>6, <2>1 DEF IInv, SessionInv, Keeps, HeldBy
    <3> QED BY <1>2, <3>1
  <2>2. CASE turn[s].pc = "clear"
    BY <2>2, NoneIsNothing DEF IInv, SessionInv, Works, Managed, NoContainers
  <2>3. CASE turn[s].pc = "giveup"
    BY <1>1, <1>2, <1>6, <2>3 DEF Rests, HeldBy
  <2> QED BY <2>1, <2>2, <2>3
<1> QED BY <1>4, <1>5, <1>6

\* What a daemon leaves behind that stops: leases and containers as they were, and for
\* the one it was working on what Survives says.
Survives(s) ==
    /\ lease'[s] = None => running'[s] = NoContainers
    /\ lease'[s] # None =>
          /\ lease[s] # None
          /\ lease'[s].lock = lease[s].lock /\ lease'[s].caches = lease[s].caches
          /\ lease'[s].state # "Failed" => lease[s].state # "Failed"
          /\ running'[s].task \in {running[s].task, None}

LEMMA Crash ==
    ASSUME IInv, TypeOK', MemoryLost, tick' = Down, UNCHANGED <<caches, volumes, tree>>,
           env'.revived = env.revived, \A s \in Sessions : Survives(s)
    PROVE  IInv'
<1>1. /\ ~Up' /\ manager' = None
      /\ \A s \in Sessions : held'[s] = None /\ turn'[s] = NoTurn
  BY DEF MemoryLost, Down, Up, Ticks
<1>2. TickInv'
  BY <1>1 DEF TickInv, NoTurn, Down
<1>3. ASSUME NEW s \in Sessions PROVE SessionInv(s)'
  <2>1. Records(lease[s], running[s]) /\ Survives(s)
    BY DEF IInv, SessionInv
  <2>2. Records(lease'[s], running'[s])
    BY <2>1 DEF Records, Survives, NoContainers
  <2> QED BY <1>1, <2>2 DEF SessionInv, Owns, Works, Keeps, NoTurn
<1>4. ManagerInv'
  BY <1>1 DEF ManagerInv, Down
<1>5. CountInv'
  <2> SUFFICES ASSUME NEW v \in Volumes
               PROVE  /\ HeldBy(v)' = {} /\ FreshBy(v)' = {}
                      /\ caches'[v] # None => caches'[v].count \in Nat
    BY FS_EmptySet DEF CountInv
  <2> QED BY <1>1 DEF HeldBy, FreshBy, NoTurn, TypeOK, CacheRecord
<1>6. KeepInv'
  <2> SUFFICES ASSUME NEW s \in Sessions, s \notin env.revived, lease'[s] # None,
                      NEW v \in lease'[s].caches, lease'[s].state # "Failed", Managed(s)'
               PROVE  caches[v] # None /\ v \in volumes
    BY <1>1 DEF KeepInv, Rests, NoTurn
  <2>1. lease[s] # None /\ v \in lease[s].caches /\ lease[s].state # "Failed" /\ Managed(s)
    BY DEF Survives, Managed
  <2> QED BY <2>1, LeaseKeepsCaches
<1> QED BY <1>2, <1>3, <1>4, <1>5, <1>6 DEF IInv

LEMMA NothingInMemory ==
    ASSUME TypeOK, MemoryLost, tick' = Down
    PROVE  /\ manager' \in ManagerRecord \cup {None}
           /\ held' \in [Sessions -> {None} \cup SUBSET Volumes]
           /\ turn' \in [Sessions -> TurnRecord]
           /\ tick' \in [at : Ticks \cup {"down", "boot"}, todo : SUBSET (Sessions \cup Volumes),
                         failed : BOOLEAN]
BY DEF MemoryLost, Down, NoTurn, TurnRecord, Pcs

LEMMA DaemonStopsStep ==
    ASSUME IInv, DaemonStops
    PROVE  IInv'
<1>1. /\ UNCHANGED <<caches, volumes, lease, running, tree>>
      /\ MemoryLost /\ tick' = Down
      /\ env'.revived = env.revived
      /\ env' \in [turns : Nat, edits : Nat, mishaps : Nat, crashes : Nat,
                   revived : SUBSET Sessions]
  BY EnvTypes DEF DaemonStops, IInv
<1>2. TypeOK'
  BY <1>1, NothingInMemory DEF IInv, TypeOK
<1>3. ASSUME NEW s \in Sessions PROVE Survives(s)
  BY <1>1 DEF IInv, SessionInv, Records, Survives
<1> QED BY <1>1, <1>2, <1>3, Crash

LEMMA BootForgetsAttachmentsStep ==
    ASSUME IInv, BootForgetsAttachments
    PROVE  IInv'
<1>1. /\ UNCHANGED <<volumes, manager, lease, held, turn, running, tree, env>>
      /\ tick = Down
      /\ caches' = [v \in Volumes |->
                      IF caches[v] = None THEN None
                      ELSE [caches[v] EXCEPT !.count = 0, !.preparing = None]]
  BY DEF BootForgetsAttachments
<1>2. ~Up /\ manager = None /\ \A s \in Sessions : held[s] = None /\ turn[s].pc = "off"
  BY <1>1 DEF IInv, TickInv, Down, Up, Ticks
<1>3. /\ tick' \in [at : Ticks \cup {"down", "boot"}, todo : SUBSET (Sessions \cup Volumes),
                    failed : BOOLEAN]
      /\ tick'.at = "boot" /\ tick'.todo = {s \in Sessions : lease[s] # None}
  <2> DEFINE S == {s \in Sessions : lease[s] # None}
  <2>1. S \in SUBSET Sessions /\ tick' = [tick EXCEPT !.at = "boot", !.todo = S]
    BY DEF BootForgetsAttachments
  <2> HIDE DEF S
  <2>2. /\ tick' \in [at : Ticks \cup {"down", "boot"}, todo : SUBSET (Sessions \cup Volumes),
                      failed : BOOLEAN]
        /\ tick'.at = "boot" /\ tick'.todo = S
    BY <2>1 DEF IInv, TypeOK
  <2> QED BY <2>2 DEF S
<1>4. ASSUME NEW v \in Volumes
      PROVE  /\ caches'[v] \in CacheRecord \cup {None}
             /\ caches'[v] # None <=> caches[v] # None
             /\ caches'[v] # None => caches'[v].count = 0
  <2>1. CASE caches[v] = None
    BY <1>1, <2>1
  <2>2. CASE caches[v] # None
    <3> DEFINE c == [caches[v] EXCEPT !.count = 0, !.preparing = None]
    <3>1. caches[v] \in CacheRecord
      BY <2>2 DEF IInv, TypeOK
    <3>2. c \in CacheRecord /\ c.count = 0
      BY <3>1 DEF CacheRecord
    <3>3. caches'[v] = c
      BY <1>1, <2>2
    <3> HIDE DEF c
    <3> QED BY <2>2, <3>2, <3>3, NoneIsNothing
  <2> QED BY <2>1, <2>2
<1>5. caches' \in [Volumes -> CacheRecord \cup {None}]
  BY <1>1, <1>4
<1>6. TypeOK' /\ ~Up'
  BY <1>1, <1>3, <1>5 DEF IInv, TypeOK, Up, Ticks
<1>7. TickInv'
  BY <1>1, <1>2, <1>3 DEF TickInv
<1>8. ASSUME NEW s \in Sessions PROVE SessionInv(s)'
  BY <1>1, <1>2, <1>6 DEF IInv, SessionInv, Records, Owns, Works, Keeps
<1>9. ManagerInv'
  BY <1>1, <1>2, <1>3 DEF ManagerInv
<1>10. CountInv'
  <2> SUFFICES ASSUME NEW v \in Volumes
               PROVE  /\ HeldBy(v)' = {} /\ FreshBy(v)' = {}
                      /\ caches'[v] # None => caches'[v].count = 0
    BY FS_EmptySet DEF CountInv
  <2>1. \A s \in Sessions : turn[s].fresh = {}
    BY <1>2 DEF IInv, SessionInv, Works
  <2> QED BY <1>1, <1>2, <1>4, <2>1 DEF HeldBy, FreshBy
<1>11. KeepInv'
  <2> SUFFICES ASSUME NEW s \in Sessions, s \notin env.revived, lease[s] # None,
                      NEW v \in lease[s].caches
               PROVE  Rests(s, v)'
    BY <1>1 DEF KeepInv
  <2>1. v \in Volumes /\ Rests(s, v)
    BY SessionTypes DEF IInv, KeepInv
  <2> QED BY <1>1, <1>2, <1>4, <2>1 DEF Rests, Managed
<1> QED BY <1>6, <1>7, <1>8, <1>9, <1>10, <1>11 DEF IInv

LEMMA TodoMoves ==
    ASSUME TypeOK, NEW s, tick' = [tick EXCEPT !.todo = @ \ {s}]
    PROVE  /\ tick' \in [at : Ticks \cup {"down", "boot"}, todo : SUBSET (Sessions \cup Volumes),
                         failed : BOOLEAN]
           /\ tick'.at = tick.at /\ tick'.todo = tick.todo \ {s}
<1> DEFINE todo == tick.todo \ {s}
<1>1. todo \subseteq tick.todo
  OBVIOUS
<1>2. tick' = [tick EXCEPT !.todo = todo]
  BY DEF TypeOK
<1> HIDE DEF todo
<1>3. /\ tick' \in [at : Ticks \cup {"down", "boot"}, todo : SUBSET (Sessions \cup Volumes),
                    failed : BOOLEAN]
      /\ tick'.at = tick.at /\ tick'.todo = todo
  BY <1>1, <1>2 DEF TypeOK
<1> QED BY <1>3 DEF todo

\* A start has come to one lease.
LEMMA Starting ==
    ASSUME IInv, tick.at = "boot", NEW s \in tick.todo, s \in Sessions
    PROVE  /\ ~Up /\ manager = None /\ lease[s] # None /\ held[s] = None
           /\ \A t \in Sessions : turn[t].pc = "off" /\ turn[t].fresh = {}
BY DEF IInv, TickInv, SessionInv, Works, Up, Ticks

\* The start has dealt with a lease, has attached what the lease holds then, and the
\* caches are as they were else.
LEMMA StartStep ==
    ASSUME IInv, TypeOK', tick.at = "boot", NEW s \in Sessions, s \in tick.todo,
           tick'.at = "boot", tick'.todo = tick.todo \ {s},
           UNCHANGED <<volumes, manager, turn, tree>>, env'.revived = env.revived,
           Local(s), Records(lease[s], running[s])',
           IF lease'[s] = None THEN held'[s] = None
           ELSE /\ held'[s] # None /\ held'[s] = lease'[s].caches /\ ~running'[s].sidecar
                /\ lease'[s].state = "Idle" /\ lease'[s].caches = lease[s].caches
                /\ lease[s].state # "Failed" /\ Managed(s)
                /\ \A v \in lease[s].caches : caches[v] # None,
           \A v \in Volumes :
               /\ caches'[v] # None <=> caches[v] # None
               /\ caches[v] # None => caches'[v].count =
                     IF held'[s] # None /\ v \in held'[s] THEN caches[v].count + 1 ELSE caches[v].count
    PROVE  IInv'
<1>1. /\ ~Up /\ manager = None /\ lease[s] # None /\ held[s] = None
      /\ \A t \in Sessions : turn[t].pc = "off" /\ turn[t].fresh = {}
  BY Starting
<1>2. ~Up'
  BY DEF Up, Ticks
<1>3. TickInv'
  <2>1. ASSUME NEW t \in Sessions
        PROVE  IF t \in tick'.todo THEN lease'[t] # None /\ held'[t] = None
               ELSE lease'[t] # None => held'[t] # None
    <3>1. CASE t = s
      BY <3>1
    <3>2. CASE t # s
      BY <3>2 DEF IInv, TickInv, Local
    <3> QED BY <3>1, <3>2
  <2> QED BY <1>1, <1>2, <2>1 DEF TickInv
<1>4. ASSUME NEW t \in Sessions PROVE SessionInv(t)'
  <2>1. CASE t = s
    BY <1>1, <1>2, <2>1 DEF SessionInv, Owns, Works, Keeps
  <2>2. CASE t # s
    BY <1>1, <1>2, <2>2, OthersKeepTheirs DEF IInv
  <2> QED BY <2>1, <2>2
<1>5. ManagerInv'
  BY <1>1 DEF ManagerInv
<1>6. CountInv'
  <2> SUFFICES ASSUME NEW v \in Volumes
               PROVE  /\ HeldBy(v)' # {} \/ FreshBy(v)' # {} => caches'[v] # None
                      /\ (HeldBy(v)' \ env'.revived) \cup FreshBy(v)' # {} => v \in volumes'
                      /\ caches'[v] # None => caches'[v].count >=
                                Cardinality(HeldBy(v)') + Cardinality(FreshBy(v)')
    BY DEF CountInv
  <2>1. FreshBy(v)' = FreshBy(v)
    BY DEF FreshBy
  <2>2. /\ HeldBy(v) # {} \/ FreshBy(v) # {} => caches[v] # None
        /\ (HeldBy(v) \ env.revived) \cup FreshBy(v) # {} => v \in volumes
        /\ caches[v] # None => /\ caches[v].count \in Nat
                               /\ caches[v].count >= Cardinality(HeldBy(v)) + Cardinality(FreshBy(v))
    BY DEF IInv, CountInv, TypeOK, CacheRecord
  <2>3. CASE held'[s] # None /\ v \in held'[s]
    <3>1. HeldBy(v)' = HeldBy(v) \cup {s}
      BY <2>3 DEF HeldBy, Local
    <3>2. /\ Cardinality(HeldBy(v)') \in Nat /\ Cardinality(HeldBy(v)) \in Nat
          /\ Cardinality(HeldBy(v)') <= Cardinality(HeldBy(v)) + 1
      BY <3>1, HoldersAreFinite, OneMore
    <3>3. Cardinality(FreshBy(v)) \in Nat
      BY HoldersAreFinite
    <3>4. caches[v] # None /\ (s \notin env.revived => v \in volumes)
      BY <1>1, <2>3, LeaseKeepsCaches
    <3>5. caches'[v] # None /\ caches'[v].count = caches[v].count + 1
      BY <2>3, <3>4
    <3> QED BY <2>1, <2>2, <3>1, <3>2, <3>3, <3>4, <3>5
  <2>4. CASE ~(held'[s] # None /\ v \in held'[s])
    <3>1. HeldBy(v)' = HeldBy(v)
      BY <1>1, <2>4 DEF HeldBy, Local
    <3> QED BY <2>1, <2>2, <2>4, <3>1
  <2> QED BY <2>3, <2>4
<1>7. KeepInv'
  <2> SUFFICES ASSUME NEW t \in Sessions, t \notin env.revived, lease'[t] # None,
                      NEW v \in lease'[t].caches, lease'[t].state # "Failed", Managed(t)'
               PROVE  caches'[v] # None /\ v \in volumes
    BY <1>1 DEF KeepInv, Rests
  <2>1. /\ lease[t] # None /\ lease[t].state # "Failed" /\ Managed(t)
        /\ v \in lease[t].caches
    <3>1. CASE t = s
      BY <1>1, <3>1
    <3>2. CASE t # s
      BY <3>2 DEF Local, Managed
    <3> QED BY <3>1, <3>2
  <2>2. v \in Volumes /\ caches[v] # None /\ v \in volumes
    BY <2>1, LeaseKeepsCaches, SessionTypes DEF IInv
  <2> QED BY <2>2
<1> QED BY <1>3, <1>4, <1>5, <1>6, <1>7 DEF IInv

LEMMA BootEndsStep ==
    ASSUME IInv, BootEnds
    PROVE  IInv'
<1>1. /\ UNCHANGED <<caches, volumes, manager, lease, held, turn, running, tree, env>>
      /\ tick.at = "boot" /\ tick.todo = {} /\ tick' = Resting
  BY DEF BootEnds
<1>2. /\ ~Up /\ manager = None
      /\ \A s \in Sessions : turn[s].pc = "off" /\ (lease[s] # None => held[s] # None)
  BY <1>1 DEF IInv, TickInv, Up, Ticks
<1>3. TypeOK' /\ Up' /\ tick'.at = "reap"
  BY <1>1 DEF IInv, TypeOK, Up, Ticks, Resting
<1>4. TickInv'
  BY <1>3 DEF TickInv
<1>5. ASSUME NEW s \in Sessions PROVE SessionInv(s)'
  BY <1>1, <1>2 DEF IInv, SessionInv, Records, Owns, Works, Keeps
<1>6. ManagerInv'
  BY <1>1, <1>2, <1>3 DEF ManagerInv
<1>7. CountInv'
  BY <1>1 DEF IInv, CountInv, HeldBy, FreshBy
<1>8. KeepInv'
  BY <1>1, <1>2, <1>3 DEF KeepInv, Rests
<1> QED BY <1>3, <1>4, <1>5, <1>6, <1>7, <1>8 DEF IInv

LEMMA BootAdoptsStep ==
    ASSUME IInv, NEW s \in Sessions, BootAdopts(s)
    PROVE  IInv'
<1>1. /\ tick.at = "boot" /\ s \in tick.todo
      /\ lease[s].state # "Failed" /\ Managed(s)
      /\ running' = [running EXCEPT ![s].sidecar = FALSE]
      /\ lease' = [lease EXCEPT ![s].state = "Idle"]
      /\ UNCHANGED <<volumes, tree, env>>
  BY DEF BootAdopts
<1>2. /\ ~Up /\ manager = None /\ lease[s] # None /\ held[s] = None
  BY <1>1, Starting
<1>3. /\ lease' \in [Sessions -> LeaseRecord \cup {None}] /\ lease'[s] # None
      /\ lease'[s].state = "Idle" /\ lease'[s].lock = lease[s].lock
      /\ lease'[s].caches = lease[s].caches
      /\ \A t \in Sessions \ {s} : lease'[t] = lease[t]
  BY <1>1, <1>2, LeaseMoves DEF IInv
<1>4. /\ running' \in [Sessions -> [task : Locks \cup {None}, sidecar : BOOLEAN]]
      /\ ~running'[s].sidecar /\ running'[s].task = running[s].task
      /\ \A t \in Sessions \ {s} : running'[t] = running[t]
  <2> DEFINE r == [running[s] EXCEPT !.sidecar = FALSE]
  <2>1. running[s] \in [task : Locks \cup {None}, sidecar : BOOLEAN]
    BY DEF IInv, TypeOK
  <2>2. /\ r \in [task : Locks \cup {None}, sidecar : BOOLEAN]
        /\ ~r.sidecar /\ r.task = running[s].task
    BY <2>1
  <2>3. running' = [running EXCEPT ![s] = r]
    BY <1>1 DEF IInv, TypeOK
  <2> HIDE DEF r
  <2> QED BY <2>2, <2>3, ContainersMove DEF IInv
<1>5. Records(lease[s], running[s])'
  BY <1>2, <1>3, <1>4 DEF IInv, SessionInv, Records
<1>6. CASE /\ \A v \in lease[s].caches : caches[v] # None
           /\ caches' = [v \in Volumes |->
                            IF v \in lease[s].caches THEN Attached(caches[v]) ELSE caches[v]]
           /\ held' = [held EXCEPT ![s] = lease[s].caches]
           /\ tick' = [tick EXCEPT !.todo = @ \ {s}]
           /\ UNCHANGED <<turn, manager>>
  <2>1. lease[s].caches \in SUBSET Volumes
    BY <1>2, SessionTypes DEF IInv
  <2>2. /\ held' \in [Sessions -> {None} \cup SUBSET Volumes]
        /\ held'[s] = lease[s].caches /\ held'[s] # None
        /\ \A t \in Sessions \ {s} : held'[t] = held[t]
    BY <1>6, <2>1, NoneIsNothing DEF IInv, TypeOK
  <2>3. /\ tick' \in [at : Ticks \cup {"down", "boot"}, todo : SUBSET (Sessions \cup Volumes),
                      failed : BOOLEAN]
        /\ tick'.at = tick.at /\ tick'.todo = tick.todo \ {s}
    BY <1>6, TodoMoves DEF IInv
  <2>4. ASSUME NEW v \in Volumes
        PROVE  /\ caches'[v] \in CacheRecord \cup {None}
               /\ caches'[v] # None <=> caches[v] # None
               /\ caches[v] # None => caches'[v].count =
                     IF v \in lease[s].caches THEN caches[v].count + 1 ELSE caches[v].count
    <3>1. CASE v \in lease[s].caches
      <4> DEFINE n == caches[v].count + 1
                 c == Attached(caches[v])
      <4>1. caches[v] \in CacheRecord
        BY <1>6, <3>1 DEF IInv, TypeOK
      <4>2. n \in Nat
        BY <4>1 DEF CacheRecord
      <4>3. c = [caches[v] EXCEPT !.count = n, !.preparing = None, !.old = FALSE]
        BY DEF Attached
      <4>4. caches'[v] = c
        BY <1>6, <3>1
      <4> HIDE DEF n, c
      <4>5. c \in CacheRecord /\ c.count = n
        BY <4>1, <4>2, <4>3 DEF CacheRecord
      <4> QED BY <1>6, <3>1, <4>4, <4>5, NoneIsNothing DEF n
    <3>2. CASE v \notin lease[s].caches
      BY <1>6, <3>2 DEF IInv, TypeOK
    <3> QED BY <3>1, <3>2
  <2>5. caches' \in [Volumes -> CacheRecord \cup {None}]
    BY <1>6, <2>4
  <2>6. TypeOK' /\ Local(s)
    BY <1>1, <1>3, <1>4, <1>6, <2>2, <2>3, <2>5 DEF IInv, TypeOK, Local
  <2>7. \A v \in Volumes :
            /\ caches'[v] # None <=> caches[v] # None
            /\ caches[v] # None => caches'[v].count =
                  IF held'[s] # None /\ v \in held'[s] THEN caches[v].count + 1 ELSE caches[v].count
    BY <2>2, <2>4
  <2> QED BY <1>1, <1>3, <1>4, <1>5, <1>6, <2>2, <2>3, <2>6, <2>7, StartStep
<1>7. CASE MemoryLost /\ tick' = Down /\ UNCHANGED caches
  <2>1. TypeOK'
    BY <1>1, <1>3, <1>4, <1>7, NothingInMemory DEF IInv, TypeOK
  <2>2. ASSUME NEW t \in Sessions PROVE Survives(t)
    <3>1. CASE t = s
      BY <1>1, <1>2, <1>3, <1>4, <3>1 DEF Survives
    <3>2. CASE t # s
      BY <1>3, <1>4, <3>2 DEF IInv, SessionInv, Records, Survives
    <3> QED BY <3>1, <3>2
  <2> QED BY <1>1, <1>7, <2>1, <2>2, Crash
<1> QED BY <1>1, <1>6, <1>7 DEF BootAdopts

LEMMA BootCleansUpStep ==
    ASSUME IInv, NEW s \in Sessions, BootCleansUp(s)
    PROVE  IInv'
<1>1. /\ UNCHANGED <<caches, volumes, tree>>
      /\ tick.at = "boot" /\ s \in tick.todo
  BY DEF BootCleansUp
<1>2. held[s] = None
  BY <1>1, Starting
<1>3. CASE /\ running' = [running EXCEPT ![s] = NoContainers]
           /\ lease' = [lease EXCEPT ![s] = None]
           /\ tick' = [tick EXCEPT !.todo = @ \ {s}]
           /\ UNCHANGED <<held, turn, manager, env>>
  <2>1. /\ lease' \in [Sessions -> LeaseRecord \cup {None}] /\ lease'[s] = None
        /\ \A t \in Sessions \ {s} : lease'[t] = lease[t]
    BY <1>3 DEF IInv, TypeOK
  <2>2. /\ running' \in [Sessions -> [task : Locks \cup {None}, sidecar : BOOLEAN]]
        /\ running'[s] = NoContainers
        /\ \A t \in Sessions \ {s} : running'[t] = running[t]
    BY <1>3, ContainersMove DEF IInv, NoContainers
  <2>3. /\ tick' \in [at : Ticks \cup {"down", "boot"}, todo : SUBSET (Sessions \cup Volumes),
                      failed : BOOLEAN]
        /\ tick'.at = tick.at /\ tick'.todo = tick.todo \ {s}
    BY <1>3, TodoMoves DEF IInv
  <2>4. TypeOK' /\ Local(s)
    BY <1>1, <1>3, <2>1, <2>2, <2>3 DEF IInv, TypeOK, Local
  <2>5. Records(lease[s], running[s])'
    BY <2>1, <2>2 DEF Records, NoContainers
  <2>6. \A v \in Volumes :
            /\ caches'[v] # None <=> caches[v] # None
            /\ caches[v] # None => caches'[v].count =
                  IF held'[s] # None /\ v \in held'[s] THEN caches[v].count + 1 ELSE caches[v].count
    BY <1>1, <1>2, <1>3
  <2>7. held'[s] = None
    BY <1>2, <1>3
  <2> QED BY <1>1, <1>3, <2>1, <2>3, <2>4, <2>5, <2>6, <2>7, StartStep
<1>4. CASE Mishap /\ SomeRemoved(s) /\ MemoryLost /\ tick' = Down /\ UNCHANGED lease
  <2>1. /\ env'.revived = env.revived
        /\ env' \in [turns : Nat, edits : Nat, mishaps : Nat, crashes : Nat,
                     revived : SUBSET Sessions]
    BY <1>4, EnvTypes DEF IInv, Mishap
  <2>2. /\ running' \in [Sessions -> [task : Locks \cup {None}, sidecar : BOOLEAN]]
        /\ running'[s].task \in {running[s].task, None}
        /\ \A t \in Sessions \ {s} : running'[t] = running[t]
    BY <1>4, SomeRemovedMoves DEF IInv
  <2>3. TypeOK'
    BY <1>1, <1>4, <2>1, <2>2, NothingInMemory DEF IInv, TypeOK
  <2>4. ASSUME NEW t \in Sessions PROVE Survives(t)
    <3>1. CASE t = s
      BY <1>1, <1>4, <2>2, <3>1, Starting DEF Survives
    <3>2. CASE t # s
      BY <1>4, <2>2, <3>2 DEF IInv, SessionInv, Records, Survives
    <3> QED BY <3>1, <3>2
  <2> QED BY <1>1, <1>4, <2>1, <2>3, <2>4, Crash
<1> QED BY <1>3, <1>4 DEF BootCleansUp

-----------------------------------------------------------------------------
(* The invariant, and what it gives *)

LEMMA InitHolds == Init => IInv
<1> SUFFICES ASSUME Init PROVE IInv
  OBVIOUS
<1>1. /\ ~Up /\ manager = None
      /\ \A s \in Sessions : /\ lease[s] = None /\ held[s] = None /\ running[s] = NoContainers
                             /\ turn[s].pc = "off" /\ turn[s].fresh = {}
      /\ \A v \in Volumes : caches[v] = None
  BY DEF Init, Up, Ticks, Down, NoTurn
<1>2. TypeOK
  BY DEF Init, TypeOK, Down, NoTurn, TurnRecord, Pcs, NoContainers
<1>3. TickInv
  BY <1>1 DEF Init, TickInv, Down
<1>4. ASSUME NEW s \in Sessions PROVE SessionInv(s)
  <2>1. Records(lease[s], running[s]) /\ Owns(lease[s], held[s], turn[s])
    <3>1. running[s].task = None
      BY <1>1 DEF NoContainers
    <3> QED BY <1>1, <3>1 DEF Records, Owns
  <2>2. Works(lease[s], held[s], turn[s], running[s], tree[s].lock)
    BY <1>1 DEF Works
  <2> QED BY <1>1, <2>1, <2>2 DEF SessionInv, Keeps
<1>5. ManagerInv
  BY <1>1 DEF Init, ManagerInv, Down
<1>6. CountInv
  BY <1>1 DEF CountInv, HeldBy, FreshBy
<1>7. KeepInv
  BY <1>1 DEF KeepInv
<1> QED BY <1>2, <1>3, <1>4, <1>5, <1>6, <1>7 DEF IInv

LEMMA NextStep ==
    ASSUME IInv, [Next]_vars
    PROVE  IInv'
<1>1. CASE UNCHANGED vars
  <2>1. TypeOK' /\ TickInv' /\ ManagerInv'
    BY <1>1 DEF vars, IInv, TypeOK, TickInv, ManagerInv, Wanted, Collectable, Up
  <2>2. \A s \in Sessions : SessionInv(s)'
    BY <1>1 DEF vars, IInv, SessionInv, Records, Owns, Works, Keeps, Up
  <2>3. CountInv'
    BY <1>1 DEF vars, IInv, CountInv, HeldBy, FreshBy
  <2>4. KeepInv'
    BY <1>1 DEF vars, IInv, KeepInv, Rests, Managed, Up
  <2> QED BY <2>1, <2>2, <2>3, <2>4 DEF IInv
<1>2. CASE Tick
  BY <1>2, ReapEndsStep, RetryEndsStep, GcStartsStep, GcRemovesVolumeStep, GcRemovesRecordStep,
     GcEndsStep, ReapStep, RetryStep DEF Tick
<1>3. CASE Boot
  BY <1>3, BootForgetsAttachmentsStep, BootEndsStep, BootAdoptsStep, BootCleansUpStep DEF Boot
<1>4. CASE Outside
  BY <1>4, DaemonStopsStep, AgesStep, TurnStartsStep, StartSidecarStep, SidecarStopsStep,
     EditStep, TurnEndsStep, ContainerLostStep, TerminateStep DEF Outside
<1>5. ASSUME NEW s \in Sessions, Work(s) PROVE IInv'
  BY <1>5, PrepareStep, EnsureVolumeStep, EnsureFailsStep, AttachStep, EverythingAttachedStep,
     AcquireReusesStep, AcquireReplacesStep, AcquireRevivesStep, AcquireCleansUpStep,
     AcquireRecordsStep, AcquireCreatesStep, AcquireEndsStep, DropFreshStep, RegisterIndexStep,
     StopContainersStep, ClearAttachmentsStep, StopEndsStep DEF Work
<1> QED BY <1>1, <1>2, <1>3, <1>4, <1>5 DEF Next

LEMMA Invariance == Spec => []IInv
BY InitHolds, NextStep, PTL DEF Spec

LEMMA LeasesAreKnown == IInv => LeasedCachesAreKnown
BY LeaseKeepsCaches DEF LeasedCachesAreKnown

\* A lease in use or idle holds what its containers have mounted.
LEMMA MountsAreHeld ==
    ASSUME IInv, NEW v \in Volumes, NEW s \in Sessions \ env.revived, Lease(s), Mounted(s, v)
    PROVE  s \in HeldBy(v) \ env.revived
<1>1. /\ held[s] # None /\ lease[s] # None /\ turn[s].pc \notin {"clear", "giveup"}
  BY DEF Lease, IInv, SessionInv, Owns
<1>2. Records(lease[s], running[s]) /\ Keeps(lease[s], held[s], turn[s], running[s])
  BY DEF IInv, SessionInv
<1>3. v \in held[s]
  BY <1>1, <1>2 DEF Mounted, Records, Keeps
<1> QED BY <1>1, <1>3 DEF HeldBy

LEMMA MountsCounted == IInv => MountsAreCounted
<1> SUFFICES ASSUME IInv, NEW v \in Volumes,
                    {s \in Sessions \ env.revived : Lease(s) /\ Mounted(s, v)} # {}
             PROVE  /\ v \in volumes /\ caches[v] # None
                    /\ caches[v].count >=
                       Cardinality({s \in Sessions \ env.revived : Lease(s) /\ Mounted(s, v)})
  BY DEF MountsAreCounted
<1> DEFINE mounts == {s \in Sessions \ env.revived : Lease(s) /\ Mounted(s, v)}
<1>1. mounts \subseteq HeldBy(v) \ env.revived
  BY MountsAreHeld
<1>2. v \in volumes /\ caches[v] # None
  BY <1>1 DEF IInv, CountInv
<1>3. /\ caches[v].count \in Nat
      /\ caches[v].count >= Cardinality(HeldBy(v)) + Cardinality(FreshBy(v))
  BY <1>2 DEF IInv, CountInv, TypeOK, CacheRecord
<1>4. /\ Cardinality(mounts) \in Nat /\ Cardinality(HeldBy(v)) \in Nat
      /\ Cardinality(FreshBy(v)) \in Nat
      /\ Cardinality(mounts) <= Cardinality(HeldBy(v))
  BY <1>1, HoldersAreFinite, FS_Subset, FS_CardinalityType
<1> HIDE DEF mounts
<1>5. caches[v].count >= Cardinality(mounts)
  BY <1>3, <1>4
<1> QED BY <1>2, <1>5 DEF mounts

\* Every value stays of its type, in every order of sessions, ticks, failures and stops
\* of the daemon.
THEOREM TypeCorrect == Spec => []TypeOK
BY Invariance, PTL DEF IInv

\* While the daemon runs, the record of a cache counts at least the leases whose
\* containers have its volume mounted, a volume that is there: whatever order attach,
\* reuse, drops, shutdown, retry, collection and reconciliation came in.  This is what
\* keeps CacheManager::gc from the caches in use.
THEOREM MountsStayCounted == Spec => []MountsAreCounted
BY Invariance, MountsCounted, PTL

\* A cache that a lease record names and that a start of the daemon would attach again
\* has its record, so that EnvironmentSupervisor::reconcile does not fail over it:
\* neither the collector nor a shutdown that failed has taken it.
THEOREM LeasedCachesStayKnown == Spec => []LeasedCachesAreKnown
BY Invariance, LeasesAreKnown, PTL
=============================================================================
