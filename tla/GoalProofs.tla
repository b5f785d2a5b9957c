------------------------------ MODULE GoalProofs ------------------------------
(* For any plans, budgets and bounds: what a goal counts, delivers and spends *)
(* is right after every step, as long as nobody resumes its session behind    *)
(* its back (web.rs:3984, which drops the milestone's workflow).  First the   *)
(* lemmas about the engine's operations, each of which leads from a good goal *)
(* to a good goal; then one about each step of the session and its driver.    *)
EXTENDS Goal, FiniteSetTheorems, TLAPS

-----------------------------------------------------------------------------
(* The inductive invariant *)

Goals ==
    [stage : Stages, resume_to : Stages \cup {None}, pause_requested : BOOLEAN,
     plan_version : Nat, criteria : Seq([text : Criteria, status : Evidence]),
     milestones : Seq(Milestone), active : Nat, counters : Counters,
     budget : Budgets, automatic : BOOLEAN, amendment : Amendment \cup {None},
     outcome : Outcomes \cup {None}]

Resumable == {"RunningMilestone", "AwaitingUserReview"}

\* Exactly the active milestone runs, what has not ended is for a criterion of the
\* current plan, and what has not begun has no workflow.
Sound(g) ==
    /\ g \in Goals
    /\ Cardinality(Current(g)) <= g.budget.milestones
    /\ g.active # 0 => g.active \in DOMAIN g.milestones
    /\ g.amendment # None => g.amendment.resume_to \in Resumable
    /\ \A i \in DOMAIN g.milestones :
          /\ g.milestones[i].status = "Running" <=> i = g.active
          /\ g.milestones[i].status \in {"Pending", "Running"} =>
                /\ g.milestones[i].plan = g.plan_version
                /\ g.milestones[i].criterion \in DOMAIN g.criteria
          /\ g.milestones[i].status = "Pending" => g.milestones[i].workflow = None

\* Where a goal can be, and where it can return to.
Placed(g) ==
    /\ g.stage \in TerminalStages => g.active = 0
    /\ g.stage = "Paused" <=> g.resume_to # None
    /\ g.resume_to \in {None} \cup Resumable
    /\ g.stage \in {"RunningMilestone", "Blocked"} => g.active # 0
    /\ g.stage = "AwaitingUserReview" \/ g.resume_to = "AwaitingUserReview" => g.active = 0
    /\ g.amendment # None =>
          /\ g.stage \in {"AwaitingPlanApproval"} \cup TerminalStages
          /\ g.amendment.resume_to = "AwaitingUserReview" => g.active = 0
    /\ g.stage = "AwaitingPlanApproval" /\ g.amendment = None =>
          \A i \in DOMAIN g.milestones : g.milestones[i].status = "Pending"
    /\ g.stage \in {"AwaitingUserReview", "Completed"} =>
          \A k \in DOMAIN g.criteria : g.criteria[k].status # "Pending"

\* A workflow, and what it was charged, keeps to its limit up to the charge that ends it.
FitsBudget(g, w) ==
    /\ g.counters.invocations + w.limit <= g.budget.invocations
    /\ w.used <= w.limit + 1
    /\ w.state \in {"Working", "Blocked"} => w.used <= w.limit

\* The active milestone was begun inside the budget, and so was its workflow.
InBudget(g) ==
    g.active # 0 =>
        /\ g.counters.workflows + 1 <= g.budget.workflows
        /\ g.counters.invocations + 1 <= g.budget.invocations
        /\ ActiveWorkflow(g) # None => FitsBudget(g, ActiveWorkflow(g))

GoodGoal(g) == Sound(g) /\ Placed(g) /\ InBudget(g)

\* Evidence comes from workflows that delivered.
EvidenceIn(g, delivered) ==
    \A k \in DOMAIN g.criteria :
        g.criteria[k].status # "Pending" => g.criteria[k].text \in delivered

\* A session that is queued or runs works for its goal, with the workflow of its
\* active milestone and a limit that the goal's budget leaves it.
SessionServesTheGoal ==
    /\ session.status \in {"Queued", "Running"} =>
          /\ goal.stage = "RunningMilestone"
          /\ goal.counters.invocations + session.request.limit <= goal.budget.invocations
    /\ session.status = "Queued" => session.request.workflow = ActiveWorkflow(goal)

RunServesTheGoal ==
    run # None =>
        /\ session.status = "Running"
        /\ run.workflow = ActiveWorkflow(goal)
        /\ run.phase \in {"Working", "Finished"} => run.workflow # None
        /\ run.phase = "Working" => run.workflow.state = "Working"
        /\ run.phase = "Finished" /\ run.workflow.state = "Ready" =>
              goal.criteria[goal.milestones[goal.active].criterion].text \in env.delivered

GoalInv ==
    /\ TypeOK /\ GoodGoal(goal) /\ EvidenceIn(goal, env.delivered)
    /\ SessionServesTheGoal /\ RunServesTheGoal /\ UsageIsCountedOnce

\* What holds of every step besides: delivered milestones stay.
KeepsDelivered(g, r) ==
    \A i \in DOMAIN g.milestones :
        g.milestones[i].status = "Completed" =>
            i \in DOMAIN r.milestones /\ r.milestones[i] = g.milestones[i]

WorkflowAt(g, i) == IF i \in DOMAIN g.milestones THEN g.milestones[i].workflow ELSE None
RunningAt(g, i) == i \in DOMAIN g.milestones /\ g.milestones[i].status = "Running"

\* A step that stores no workflow leaves those of the milestones, and opens none again.
KeepsWorkflows(g, r) ==
    \A i \in Nat :
        /\ WorkflowAt(r, i) = WorkflowAt(g, i)
        /\ RunningAt(r, i) => RunningAt(g, i) \/ WorkflowAt(g, i) = None

Keeps(g, r) == KeepsDelivered(g, r) /\ KeepsWorkflows(g, r)

\* What a checkpoint makes of the workflow v that the active milestone has.
Continues(v, w) ==
    \/ v = None /\ w.state = "Working" /\ w.used = 0
    \/ v # None /\ v.state = "Working" /\ w.used >= v.used
    \/ v # None /\ v.state = "Blocked" /\ w.state = "Working" /\ w.used = v.used

LEMMA KeepingIsTransitive ==
    /\ \A g, h, r : Keeps(g, h) /\ Keeps(h, r) => Keeps(g, r)
    /\ \A g, h, r : KeepsDelivered(g, h) /\ KeepsDelivered(h, r) => KeepsDelivered(g, r)
<1>1. \A g, h, r : KeepsDelivered(g, h) /\ KeepsDelivered(h, r) => KeepsDelivered(g, r)
  BY DEF KeepsDelivered
<1>2. \A g, h, r : KeepsWorkflows(g, h) /\ KeepsWorkflows(h, r) => KeepsWorkflows(g, r)
  BY DEF KeepsWorkflows
<1> QED BY <1>1, <1>2 DEF Keeps

LEMMA SameMilestonesAreKept ==
    ASSUME NEW g, NEW r, r.milestones = g.milestones
    PROVE  Keeps(g, r)
  BY DEF Keeps, KeepsDelivered, KeepsWorkflows, WorkflowAt, RunningAt

-----------------------------------------------------------------------------
(* Goals *)

LEMMA NoneIsNothing ==
    /\ None \notin Stages /\ None \notin Child /\ None \notin Run /\ None \notin Amendment
    /\ None \notin Resumable
  BY NoneIsAbsent, NoneRuns DEF Resumable, Stages

LEMMA GoalFields ==
    ASSUME NEW g \in Goals
    PROVE  /\ g.stage \in Stages /\ g.resume_to \in Stages \cup {None}
           /\ g.pause_requested \in BOOLEAN /\ g.plan_version \in Nat
           /\ g.criteria \in Seq([text : Criteria, status : Evidence])
           /\ g.milestones \in Seq(Milestone) /\ g.active \in Nat
           /\ g.counters \in Counters /\ g.budget \in Budget
           /\ g.budget \in Budgets /\ g.automatic \in BOOLEAN
           /\ g.amendment \in Amendment \cup {None}
           /\ g.outcome \in Outcomes \cup {None}
  BY BudgetsAreBudgets DEF Goals

LEMMA StageNames ==
    {"AwaitingPlanApproval", "RunningMilestone", "AwaitingUserReview", "Paused",
     "Blocked", "Completed", "Failed", "Cancelled"} \subseteq Stages
  BY DEF Stages, TerminalStages

LEMMA Numbers ==
    ASSUME NEW g \in Goals
    PROVE  /\ g.counters.workflows \in Nat /\ g.counters.invocations \in Nat
           /\ g.budget.milestones \in Nat /\ g.budget.workflows \in Nat
           /\ g.budget.invocations \in Nat /\ g.budget.minutes \in Nat
<1>1. g.counters \in Counters /\ g.budget \in Budget
  BY GoalFields
<1> QED BY <1>1 DEF Counters, Budget

LEMMA Indices ==
    ASSUME NEW g \in Goals
    PROVE  /\ Len(g.milestones) \in Nat /\ DOMAIN g.milestones = 1 .. Len(g.milestones)
           /\ Len(g.criteria) \in Nat /\ DOMAIN g.criteria = 1 .. Len(g.criteria)
           /\ \A i \in DOMAIN g.milestones : g.milestones[i] \in Milestone
           /\ \A k \in DOMAIN g.criteria :
                 g.criteria[k].text \in Criteria /\ g.criteria[k].status \in Evidence
           /\ 0 \notin DOMAIN g.milestones
<1>1. /\ Len(g.milestones) \in Nat /\ DOMAIN g.milestones = 1 .. Len(g.milestones)
      /\ \A i \in DOMAIN g.milestones : g.milestones[i] \in Milestone
  <2>1. g.milestones \in Seq(Milestone)
    BY GoalFields
  <2> QED BY <2>1
<1>2. /\ Len(g.criteria) \in Nat /\ DOMAIN g.criteria = 1 .. Len(g.criteria)
      /\ \A k \in DOMAIN g.criteria :
            g.criteria[k] \in [text : Criteria, status : Evidence]
  <2> DEFINE T == [text : Criteria, status : Evidence]
  <2>1. g.criteria \in Seq(T)
    BY GoalFields
  <2> HIDE DEF T
  <2>2. /\ Len(g.criteria) \in Nat /\ DOMAIN g.criteria = 1 .. Len(g.criteria)
        /\ \A k \in DOMAIN g.criteria : g.criteria[k] \in T
    BY <2>1
  <2> QED BY <2>2 DEF T
<1> QED BY <1>1, <1>2

LEMMA MilestoneFields ==
    ASSUME NEW m \in Milestone
    PROVE  /\ m.plan \in Nat /\ m.criterion \in Nat \ {0}
           /\ m.status \in {"Pending", "Running", "Completed", "Failed", "Superseded"}
           /\ m.workflow \in Child \cup {None}
  BY DEF Milestone

LEMMA ChildFields ==
    ASSUME NEW w \in Child
    PROVE  w.state \in ChildStates /\ w.used \in Nat /\ w.limit \in Nat /\ w # None
<1>1. w # None
  BY NoneIsNothing
<1> QED BY <1>1 DEF Child

\* A function on the indices of a sequence is a sequence of the same length.
LEMMA MappedSequence ==
    ASSUME NEW S, NEW T, NEW s \in Seq(S), NEW f \in [DOMAIN s -> T]
    PROVE  f \in Seq(T) /\ DOMAIN f = DOMAIN s /\ Len(f) = Len(s)
<1>1. Len(s) \in Nat /\ DOMAIN s = 1 .. Len(s)
  OBVIOUS
<1>2. f \in [1 .. Len(s) -> T]
  BY <1>1
<1>3. f \in Seq(T)
  BY <1>1, <1>2
<1> QED BY <1>1, <1>2, <1>3

LEMMA Concatenated ==
    ASSUME NEW S, NEW s \in Seq(S), NEW t \in Seq(S)
    PROVE  /\ DOMAIN (s \o t) = 1 .. Len(s) + Len(t)
           /\ \A i \in 1 .. Len(s) : (s \o t)[i] = s[i]
           /\ \A i \in Len(s) + 1 .. Len(s) + Len(t) : (s \o t)[i] = t[i - Len(s)]
<1>1. s \o t \in Seq(S) /\ Len(s \o t) = Len(s) + Len(t)
  OBVIOUS
<1>2. \A i \in 1 .. Len(s) : (s \o t)[i] = s[i]
  OBVIOUS
<1>3. \A i \in Len(s) + 1 .. Len(s) + Len(t) : (s \o t)[i] = t[i - Len(s)]
  OBVIOUS
<1> QED BY <1>1, <1>2, <1>3

\* The workflow of the active milestone, and the usage that counts.
LEMMA ActiveFields ==
    ASSUME NEW g, Sound(g)
    PROVE  /\ ActiveWorkflow(g) \in Child \cup {None}
           /\ Used(ActiveWorkflow(g)) \in Nat
           /\ EffectiveCounters(g) \in Counters
           /\ g.active = 0 => EffectiveCounters(g) = g.counters
           /\ EffectiveCounters(g).invocations =
                 g.counters.invocations
                 + (IF g.active = 0 THEN 0 ELSE Used(ActiveWorkflow(g)))
           /\ EffectiveCounters(g).workflows =
                 g.counters.workflows + (IF g.active = 0 THEN 0 ELSE 1)
<1>1. g \in Goals /\ (g.active # 0 => g.active \in DOMAIN g.milestones)
  BY DEF Sound
<1>2. ActiveWorkflow(g) \in Child \cup {None}
  BY <1>1, Indices, MilestoneFields DEF ActiveWorkflow
<1>3. Used(ActiveWorkflow(g)) \in Nat
  BY <1>2, ChildFields DEF Used
<1>4. g.counters.workflows \in Nat /\ g.counters.invocations \in Nat /\ g.counters \in Counters
  BY <1>1, Numbers, GoalFields
<1>5. CASE g.active = 0
  BY <1>2, <1>3, <1>4, <1>5 DEF EffectiveCounters
<1>6. CASE g.active # 0
  <2>1. EffectiveCounters(g) =
            [workflows |-> g.counters.workflows + 1,
             invocations |-> g.counters.invocations + Used(ActiveWorkflow(g))]
    BY <1>6 DEF EffectiveCounters
  <2> QED BY <1>2, <1>3, <1>4, <1>6, <2>1 DEF Counters
<1> QED BY <1>5, <1>6

-----------------------------------------------------------------------------
(* What an operation does to the milestones *)

\* The milestones of r are those of g, with other statuses and workflows.
SameMilestones(g, r) ==
    /\ r.milestones \in Seq(Milestone)
    /\ DOMAIN r.milestones = DOMAIN g.milestones
    /\ \A i \in DOMAIN g.milestones :
          /\ r.milestones[i].plan = g.milestones[i].plan
          /\ r.milestones[i].criterion = g.milestones[i].criterion
          /\ r.milestones[i].status = "Superseded" <=> g.milestones[i].status = "Superseded"
          /\ r.milestones[i].status = "Pending" => r.milestones[i] = g.milestones[i]
          /\ r.milestones[i].status = "Running" =>
                g.milestones[i].status \in {"Pending", "Running"}
          /\ g.milestones[i].status = "Completed" => r.milestones[i] = g.milestones[i]

SameWorkflows(g, r) ==
    \A i \in DOMAIN g.milestones : r.milestones[i].workflow = g.milestones[i].workflow

\* An operation that leaves the plan, the budget and the amendment.
LEMMA SoundStays ==
    ASSUME NEW g, NEW r, Sound(g), r \in Goals, SameMilestones(g, r),
           r.plan_version = g.plan_version, r.budget = g.budget,
           r.amendment = g.amendment, DOMAIN r.criteria = DOMAIN g.criteria,
           r.active # 0 => r.active \in DOMAIN g.milestones,
           \A i \in DOMAIN g.milestones :
               r.milestones[i].status = "Running" <=> i = r.active
    PROVE  /\ Sound(r) /\ KeepsDelivered(g, r)
           /\ SameWorkflows(g, r) => Keeps(g, r)
<1>1. Current(r) = Current(g)
  BY DEF Current, SameMilestones
<1>2. KeepsDelivered(g, r)
  BY DEF KeepsDelivered, SameMilestones
<1>5. ASSUME SameWorkflows(g, r)
      PROVE  KeepsWorkflows(g, r)
  <2>1. ASSUME NEW i \in Nat
        PROVE  /\ WorkflowAt(r, i) = WorkflowAt(g, i)
               /\ RunningAt(r, i) => RunningAt(g, i) \/ WorkflowAt(g, i) = None
    BY <1>5 DEF WorkflowAt, RunningAt, SameWorkflows, SameMilestones, Sound
  <2> QED BY <2>1 DEF KeepsWorkflows
<1>3. \A i \in DOMAIN r.milestones :
         /\ r.milestones[i].status \in {"Pending", "Running"} =>
                /\ r.milestones[i].plan = r.plan_version
                /\ r.milestones[i].criterion \in DOMAIN r.criteria
         /\ r.milestones[i].status = "Pending" => r.milestones[i].workflow = None
  BY DEF Sound, SameMilestones
<1>4. DOMAIN r.milestones = DOMAIN g.milestones
  BY DEF SameMilestones
<1>6. Sound(r)
  BY <1>1, <1>3, <1>4 DEF Sound
<1> QED BY <1>2, <1>5, <1>6 DEF Keeps

\* What fail() and cancel() make of the milestones.
Left(g) ==
    [i \in DOMAIN g.milestones |->
        IF i = g.active /\ g.milestones[i].status = "Running"
        THEN [g.milestones[i] EXCEPT !.status = "Failed"]
        ELSE g.milestones[i]]

LEMMA LeftMilestones ==
    ASSUME NEW g, NEW r, Sound(g), r.milestones = Left(g)
    PROVE  /\ SameMilestones(g, r) /\ SameWorkflows(g, r)
           /\ \A i \in DOMAIN g.milestones : r.milestones[i].status # "Running"
<1>1. g \in Goals /\ g.milestones \in Seq(Milestone)
  BY GoalFields DEF Sound
<1>2. \A i \in DOMAIN g.milestones : g.milestones[i] \in Milestone
  BY <1>1, Indices
<1>3. \A m \in Milestone :
         /\ [m EXCEPT !.status = "Failed"] \in Milestone
         /\ [m EXCEPT !.status = "Failed"].plan = m.plan
         /\ [m EXCEPT !.status = "Failed"].criterion = m.criterion
         /\ [m EXCEPT !.status = "Failed"].status = "Failed"
         /\ [m EXCEPT !.status = "Failed"].workflow = m.workflow
  BY DEF Milestone
<1>4. r.milestones \in [DOMAIN g.milestones -> Milestone]
  BY <1>2, <1>3 DEF Left
<1>5. r.milestones \in Seq(Milestone) /\ DOMAIN r.milestones = DOMAIN g.milestones
  BY <1>1, <1>4, MappedSequence
<1>6. ASSUME NEW i \in DOMAIN g.milestones
      PROVE  /\ i = g.active =>
                    /\ r.milestones[i].plan = g.milestones[i].plan
                    /\ r.milestones[i].criterion = g.milestones[i].criterion
                    /\ r.milestones[i].workflow = g.milestones[i].workflow
                    /\ r.milestones[i].status = "Failed"
                    /\ g.milestones[i].status = "Running"
             /\ i # g.active => /\ r.milestones[i] = g.milestones[i]
                                /\ g.milestones[i].status # "Running"
  BY <1>2, <1>3, <1>6 DEF Left, Sound
<1> QED BY <1>5, <1>6 DEF SameMilestones, SameWorkflows

Leaves(g, stage, outcome) == [Abandon(g) EXCEPT !.stage = stage, !.outcome = outcome]

\* GoalRun::fail and GoalRun::cancel: the usage of the milestone that is left is
\* absorbed, and it is no longer active.
LEMMA LeavingIsGood ==
    ASSUME NEW g, Sound(g), NEW stage \in {"Failed", "Cancelled"},
           NEW outcome \in Outcomes, NEW r,
           r = Leaves(g, stage, outcome)
    PROVE  /\ GoodGoal(r) /\ Keeps(g, r)
           /\ r.stage = stage /\ r.active = 0 /\ r.criteria = g.criteria
           /\ r.counters = EffectiveCounters(g)
           /\ EffectiveCounters(r) = EffectiveCounters(g)
<1>1. g \in Goals
  BY DEF Sound
<1>2. /\ r.stage = stage /\ r.active = 0 /\ r.criteria = g.criteria
      /\ r.counters = EffectiveCounters(g) /\ r.milestones = Left(g)
      /\ r.plan_version = g.plan_version /\ r.budget = g.budget
      /\ r.amendment = g.amendment /\ r.resume_to = None
  BY <1>1 DEF Leaves, Abandon, Left, Goals
<1>10. Sound(g) /\ r.milestones = Left(g)
  BY <1>2
<1>3. /\ SameMilestones(g, r) /\ SameWorkflows(g, r)
      /\ \A i \in DOMAIN g.milestones : r.milestones[i].status # "Running"
  BY ONLY <1>10, LeftMilestones
<1>4. Left(g) \in Seq(Milestone) /\ EffectiveCounters(g) \in Counters
  BY <1>2, <1>3, ActiveFields DEF SameMilestones
<1>5. r \in Goals
  BY <1>1, <1>4 DEF Leaves, Abandon, Left, Goals, Stages, TerminalStages
<1>6. 0 \notin DOMAIN g.milestones
  BY <1>1, Indices
<1>7. Sound(r) /\ Keeps(g, r)
  BY <1>2, <1>3, <1>5, <1>6, SoundStays
<1>8. Placed(r)
  BY <1>2 DEF Placed, TerminalStages
<1>9. InBudget(r)
  BY <1>2 DEF InBudget
<1> QED BY <1>2, <1>7, <1>8, <1>9, ActiveFields DEF GoodGoal

LEMMA FailIsGood ==
    ASSUME NEW g, Sound(g), NEW outcome \in Outcomes, NEW r, r = Fail(g, outcome)
    PROVE  /\ GoodGoal(r) /\ Keeps(g, r)
           /\ r.stage = "Failed" /\ r.active = 0 /\ r.criteria = g.criteria
           /\ EffectiveCounters(r) = EffectiveCounters(g)
<1>1. r = Leaves(g, "Failed", outcome)
  BY DEF Fail, Leaves
<1> QED BY ONLY Sound(g), outcome \in Outcomes, <1>1, LeavingIsGood

LEMMA CancelIsGood ==
    ASSUME NEW g, Sound(g), NEW r, r = Cancel(g)
    PROVE  /\ GoodGoal(r) /\ Keeps(g, r)
           /\ r.stage = "Cancelled" /\ r.active = 0 /\ r.criteria = g.criteria
           /\ EffectiveCounters(r) = EffectiveCounters(g)
<1>1. r = Leaves(g, "Cancelled", "Cancelled")
  BY DEF Cancel, Leaves
<1>2. "Cancelled" \in Outcomes
  BY DEF Outcomes
<1> QED BY ONLY Sound(g), <1>1, <1>2, LeavingIsGood

-----------------------------------------------------------------------------
(* start_next_milestone *)

LEMMA RunningIsPlaced ==
    ASSUME NEW r, r.stage = "RunningMilestone", r.resume_to = None, r.active # 0,
           r.amendment = None
    PROVE  Placed(r)
  BY NoneIsNothing DEF Placed, TerminalStages, Resumable

Started(g, i) ==
    [g EXCEPT !.milestones[i].status = "Running", !.active = i,
              !.stage = "RunningMilestone", !.resume_to = None,
              !.pause_requested = FALSE]

LEMMA StartedFields ==
    ASSUME NEW g \in Goals, NEW i \in DOMAIN g.milestones, NEW r, r = Started(g, i)
    PROVE  /\ r \in Goals
           /\ r.stage = "RunningMilestone" /\ r.active = i /\ r.criteria = g.criteria
           /\ r.resume_to = None /\ r.plan_version = g.plan_version
           /\ r.budget = g.budget /\ r.amendment = g.amendment
           /\ r.counters = g.counters
           /\ r.milestones \in Seq(Milestone)
           /\ DOMAIN r.milestones = DOMAIN g.milestones
           /\ r.milestones[i].plan = g.milestones[i].plan
           /\ r.milestones[i].criterion = g.milestones[i].criterion
           /\ r.milestones[i].workflow = g.milestones[i].workflow
           /\ r.milestones[i].status = "Running"
           /\ \A j \in DOMAIN g.milestones \ {i} : r.milestones[j] = g.milestones[j]
<1>1. /\ r.stage = "RunningMilestone" /\ r.active = i /\ r.criteria = g.criteria
      /\ r.resume_to = None /\ r.plan_version = g.plan_version
      /\ r.budget = g.budget /\ r.amendment = g.amendment
      /\ r.counters = g.counters /\ r.pause_requested = FALSE
      /\ r.milestones = [g.milestones EXCEPT ![i].status = "Running"]
  BY DEF Started, Goals
<1>2. /\ g.milestones \in Seq(Milestone) /\ g.milestones[i] \in Milestone
      /\ DOMAIN g.milestones = 1 .. Len(g.milestones) /\ Len(g.milestones) \in Nat
  BY GoalFields, Indices
<1>3. [g.milestones[i] EXCEPT !.status = "Running"] \in Milestone
  BY <1>2 DEF Milestone
<1>4. [g.milestones EXCEPT ![i].status = "Running"] \in Seq(Milestone)
  BY <1>2, <1>3
<1>5. r \in Goals
  <2> DEFINE ms == [g.milestones EXCEPT ![i].status = "Running"]
  <2>1. r = [g EXCEPT !.milestones = ms, !.active = i, !.stage = "RunningMilestone",
                      !.resume_to = None, !.pause_requested = FALSE]
    BY DEF Started
  <2>2. ms \in Seq(Milestone) /\ i \in Nat
    BY <1>2, <1>4
  <2> HIDE DEF ms
  <2> QED BY <2>1, <2>2 DEF Goals, Stages
<1>6. /\ DOMAIN r.milestones = DOMAIN g.milestones
      /\ r.milestones[i] = [g.milestones[i] EXCEPT !.status = "Running"]
      /\ \A j \in DOMAIN g.milestones \ {i} : r.milestones[j] = g.milestones[j]
  BY <1>1, <1>2
<1>7. /\ r.milestones[i].plan = g.milestones[i].plan
      /\ r.milestones[i].criterion = g.milestones[i].criterion
      /\ r.milestones[i].workflow = g.milestones[i].workflow
      /\ r.milestones[i].status = "Running"
  BY <1>2, <1>6 DEF Milestone
<1> QED BY <1>1, <1>4, <1>5, <1>6, <1>7

\* The next milestone is begun inside the budget.
LEMMA StartedIsGood ==
    ASSUME NEW g, Sound(g), g.active = 0, g.amendment = None, NEW now \in Nat,
           ~Exhausted(g, now), NEW i \in Pending(g), NEW r, r = Started(g, i)
    PROVE  /\ GoodGoal(r) /\ Keeps(g, r)
           /\ r.stage = "RunningMilestone" /\ r.active # 0 /\ r.criteria = g.criteria
           /\ ActiveWorkflow(r) = None
           /\ EffectiveCounters(r).invocations = g.counters.invocations
<1>1. g \in Goals /\ i \in DOMAIN g.milestones /\ g.milestones[i].status = "Pending"
  BY DEF Sound, Pending
<1> DEFINE S == Started(g, i)
<1> HIDE DEF S
<1>2. /\ r \in Goals
      /\ r.stage = "RunningMilestone" /\ r.active = i /\ r.criteria = g.criteria
      /\ r.resume_to = None /\ r.plan_version = g.plan_version
      /\ r.budget = g.budget /\ r.amendment = g.amendment
      /\ r.counters = g.counters
      /\ r.milestones \in Seq(Milestone)
      /\ DOMAIN r.milestones = DOMAIN g.milestones
      /\ r.milestones[i].plan = g.milestones[i].plan
      /\ r.milestones[i].criterion = g.milestones[i].criterion
      /\ r.milestones[i].workflow = g.milestones[i].workflow
      /\ r.milestones[i].status = "Running"
      /\ \A j \in DOMAIN g.milestones \ {i} : r.milestones[j] = g.milestones[j]
  BY <1>1, StartedFields
<1>3. \A j \in DOMAIN g.milestones : g.milestones[j].status # "Running"
  BY <1>1, Indices DEF Sound
<1>4. SameMilestones(g, r) /\ SameWorkflows(g, r)
  BY <1>1, <1>2, <1>3 DEF SameMilestones, SameWorkflows
<1>5. \A j \in DOMAIN g.milestones : r.milestones[j].status = "Running" <=> j = r.active
  BY <1>2, <1>3
<1>6. Sound(r) /\ Keeps(g, r)
  BY <1>1, <1>2, <1>4, <1>5, SoundStays
<1>7. g.milestones[i].workflow = None /\ i # 0
  BY <1>1, Indices DEF Sound
<1>8. ActiveWorkflow(r) = None
  BY <1>2, <1>7 DEF ActiveWorkflow
<1>9. Placed(r)
  BY <1>2, <1>7, RunningIsPlaced
<1>10. InBudget(r)
  <2>1. /\ ~(g.counters.workflows >= g.budget.workflows)
        /\ ~(g.counters.invocations >= g.budget.invocations)
    BY DEF Exhausted
  <2> QED BY <1>1, <1>2, <1>8, <2>1, Numbers DEF InBudget
<1>11. EffectiveCounters(r).invocations = g.counters.invocations
  <2>1. r.counters.invocations \in Nat /\ Used(ActiveWorkflow(r)) = 0
    BY <1>2, <1>8, Numbers DEF Used
  <2> QED BY <1>2, <1>6, <1>7, <2>1, ActiveFields
<1> QED BY <1>2, <1>6, <1>7, <1>8, <1>9, <1>10, <1>11 DEF GoodGoal

\* A change of the stage alone, or of the outcome with it.
Evaluated(g, stage, outcome) == [g EXCEPT !.active = 0, !.stage = stage, !.outcome = outcome]

LEMMA EvaluatedFields ==
    ASSUME NEW g \in Goals, NEW stage \in Stages, NEW outcome \in Outcomes \cup {None},
           NEW r, r = Evaluated(g, stage, outcome)
    PROVE  /\ r \in Goals /\ r.stage = stage /\ r.active = 0
           /\ r.milestones = g.milestones /\ r.criteria = g.criteria
           /\ r.plan_version = g.plan_version /\ r.budget = g.budget
           /\ r.amendment = g.amendment /\ r.counters = g.counters
           /\ r.resume_to = g.resume_to
  BY DEF Evaluated, Goals

\* evaluate_completion, called with no milestone left to deliver.
LEMMA EvaluationIsGood ==
    ASSUME NEW g, Sound(g), g.active = 0, g.amendment = None, g.resume_to = None,
           NEW r, r = EvaluateCompletion(g)
    PROVE  /\ GoodGoal(r) /\ Keeps(g, r)
           /\ r.stage # "RunningMilestone" /\ r.active = 0 /\ r.criteria = g.criteria
           /\ EffectiveCounters(r).invocations = g.counters.invocations
<1>1. g \in Goals
  BY DEF Sound
<1> DEFINE ended == [g EXCEPT !.active = 0]
<1>2. ended = g
  BY <1>1 DEF Goals
<1>3. ASSUME NEW stage \in {"Completed", "AwaitingUserReview"},
             NEW outcome \in Outcomes \cup {None},
             r = Evaluated(g, stage, outcome),
             \A k \in DOMAIN g.criteria : g.criteria[k].status # "Pending"
      PROVE  /\ GoodGoal(r) /\ Keeps(g, r)
             /\ r.stage # "RunningMilestone" /\ r.active = 0 /\ r.criteria = g.criteria
             /\ EffectiveCounters(r).invocations = g.counters.invocations
  <2>6. stage \in Stages
    BY DEF Stages, TerminalStages
  <2>1. /\ r \in Goals /\ r.stage = stage /\ r.active = 0
        /\ r.milestones = g.milestones /\ r.criteria = g.criteria
        /\ r.plan_version = g.plan_version /\ r.budget = g.budget
        /\ r.amendment = g.amendment /\ r.counters = g.counters
        /\ r.resume_to = g.resume_to
    BY <1>1, <1>3, <2>6, EvaluatedFields
  <2>2. Sound(r) /\ Keeps(g, r)
    BY <2>1, SameMilestonesAreKept DEF Sound, Current
  <2>3. Placed(r)
    BY <1>3, <2>1 DEF Placed, TerminalStages
  <2>4. InBudget(r)
    BY <2>1 DEF InBudget
  <2>5. EffectiveCounters(r) = g.counters
    BY <2>1 DEF EffectiveCounters
  <2> QED BY <1>3, <2>1, <2>2, <2>3, <2>4, <2>5 DEF GoodGoal
<1>4. CASE StatusesOf(g) \subseteq {"MachineVerified", "UserAccepted"}
  <2>1. r = Evaluated(g, "Completed", "Complete")
    BY <1>4 DEF EvaluateCompletion, Evaluated
  <2>2. \A k \in DOMAIN g.criteria : g.criteria[k].status # "Pending"
    BY <1>4 DEF StatusesOf
  <2> QED BY <1>3, <2>1, <2>2 DEF Outcomes
<1>5. CASE /\ ~(StatusesOf(g) \subseteq {"MachineVerified", "UserAccepted"})
           /\ StatusesOf(g) \subseteq {"MachineVerified", "EvidenceReady"}
  <2>1. r = [ended EXCEPT !.stage = "AwaitingUserReview"]
    BY <1>5 DEF EvaluateCompletion
  <2>2. r = Evaluated(g, "AwaitingUserReview", g.outcome)
    BY <1>1, <2>1 DEF Goals, Evaluated
  <2>3. \A k \in DOMAIN g.criteria : g.criteria[k].status # "Pending"
    BY <1>5 DEF StatusesOf
  <2> QED BY <1>1, <1>3, <2>2, <2>3, GoalFields
<1>6. CASE /\ ~(StatusesOf(g) \subseteq {"MachineVerified", "UserAccepted"})
           /\ ~(StatusesOf(g) \subseteq {"MachineVerified", "EvidenceReady"})
  <2>1. r = Fail(g, "CriteriaUnsatisfied")
    BY <1>2, <1>6 DEF EvaluateCompletion
  <2>2. /\ GoodGoal(r) /\ Keeps(g, r) /\ r.stage = "Failed" /\ r.active = 0
        /\ r.criteria = g.criteria /\ EffectiveCounters(r) = EffectiveCounters(g)
    BY <2>1, FailIsGood DEF Outcomes
  <2>3. EffectiveCounters(g) = g.counters
    BY DEF EffectiveCounters
  <2> QED BY <2>2, <2>3
<1> QED BY <1>4, <1>5, <1>6

LEMMA FirstPendingIsPending ==
    ASSUME NEW g, NEW i \in FirstPending(g)
    PROVE  i \in Pending(g)
  BY DEF FirstPending

LEMMA StartNextIsGood ==
    ASSUME NEW g, Sound(g), g.active = 0, g.amendment = None, g.resume_to = None,
           NEW now \in Nat, NEW r \in StartNext(g, now)
    PROVE  /\ GoodGoal(r) /\ Keeps(g, r) /\ r.criteria = g.criteria
           /\ r.active # 0 => r.stage = "RunningMilestone"
           /\ ActiveWorkflow(r) = None
           /\ EffectiveCounters(r).invocations = g.counters.invocations
<1>1. CASE Exhausted(g, now)
  <2>1. r = Fail(g, "BudgetExhausted")
    BY <1>1 DEF StartNext
  <2>2. /\ GoodGoal(r) /\ Keeps(g, r) /\ r.active = 0
        /\ r.criteria = g.criteria /\ EffectiveCounters(r) = EffectiveCounters(g)
    BY <2>1, FailIsGood DEF Outcomes
  <2>3. EffectiveCounters(g) = g.counters /\ ActiveWorkflow(r) = None
    BY <2>2 DEF EffectiveCounters, ActiveWorkflow
  <2> QED BY <2>2, <2>3
<1>2. CASE ~Exhausted(g, now) /\ Pending(g) = {}
  <2>1. r = EvaluateCompletion(g)
    BY <1>2 DEF StartNext
  <2>2. /\ GoodGoal(r) /\ Keeps(g, r) /\ r.active = 0 /\ r.criteria = g.criteria
        /\ EffectiveCounters(r).invocations = g.counters.invocations
    BY <2>1, EvaluationIsGood
  <2> QED BY <2>2 DEF ActiveWorkflow
<1>3. CASE ~Exhausted(g, now) /\ Pending(g) # {}
  <2>1. PICK i \in FirstPending(g) : r = Started(g, i)
    BY <1>3 DEF StartNext, Started
  <2>2. i \in Pending(g)
    BY FirstPendingIsPending
  <2> QED BY <1>3, <2>1, <2>2, StartedIsGood
<1> QED BY <1>1, <1>2, <1>3

-----------------------------------------------------------------------------
(* The active milestone's workflow *)

LEMMA CheckpointIsSound ==
    ASSUME NEW g, Sound(g), g.active # 0, NEW w \in Child, NEW r, r = CheckpointActive(g, w)
    PROVE  /\ Sound(r) /\ KeepsDelivered(g, r) /\ ActiveWorkflow(r) = w
           /\ w = ActiveWorkflow(g) => Keeps(g, r)
           /\ r.stage = g.stage /\ r.active = g.active /\ r.criteria = g.criteria
           /\ r.resume_to = g.resume_to /\ r.budget = g.budget
           /\ r.amendment = g.amendment /\ r.counters = g.counters
           /\ r.milestones[g.active].criterion = g.milestones[g.active].criterion
           /\ r.pause_requested = g.pause_requested /\ r.automatic = g.automatic
<1> DEFINE a == g.active
           ms == [g.milestones EXCEPT ![a].workflow = w]
<1>1. g \in Goals /\ a \in DOMAIN g.milestones
  BY DEF Sound
<1>2. r = [g EXCEPT !.milestones = ms]
  BY DEF CheckpointActive
<1>3. /\ g.milestones \in Seq(Milestone) /\ g.milestones[a] \in Milestone
      /\ DOMAIN g.milestones = 1 .. Len(g.milestones) /\ Len(g.milestones) \in Nat
  BY <1>1, GoalFields, Indices
<1>4. /\ [g.milestones[a] EXCEPT !.workflow = w] \in Milestone
      /\ [g.milestones[a] EXCEPT !.workflow = w].plan = g.milestones[a].plan
      /\ [g.milestones[a] EXCEPT !.workflow = w].criterion = g.milestones[a].criterion
      /\ [g.milestones[a] EXCEPT !.workflow = w].status = g.milestones[a].status
      /\ [g.milestones[a] EXCEPT !.workflow = w].workflow = w
  BY <1>3 DEF Milestone
<1>5. /\ ms \in Seq(Milestone) /\ DOMAIN ms = DOMAIN g.milestones
      /\ ms[a] = [g.milestones[a] EXCEPT !.workflow = w]
      /\ \A i \in DOMAIN g.milestones \ {a} : ms[i] = g.milestones[i]
  BY <1>1, <1>3, <1>4
<1>6. /\ ms[a].plan = g.milestones[a].plan /\ ms[a].criterion = g.milestones[a].criterion
      /\ ms[a].status = g.milestones[a].status /\ ms[a].workflow = w
  BY <1>4, <1>5
<1> HIDE DEF ms
<1>7. /\ r \in Goals /\ r.milestones = ms
      /\ r.stage = g.stage /\ r.active = a /\ r.criteria = g.criteria
      /\ r.resume_to = g.resume_to /\ r.budget = g.budget
      /\ r.amendment = g.amendment /\ r.counters = g.counters
      /\ r.plan_version = g.plan_version
      /\ r.pause_requested = g.pause_requested /\ r.automatic = g.automatic
  BY <1>1, <1>2, <1>5 DEF Goals
<1>8. g.milestones[a].status = "Running"
  BY <1>1 DEF Sound
<1>12. ASSUME NEW i \in DOMAIN g.milestones
       PROVE  /\ i # a => r.milestones[i] = g.milestones[i]
                          /\ g.milestones[i].status # "Running"
              /\ i = a => /\ r.milestones[i].plan = g.milestones[i].plan
                          /\ r.milestones[i].criterion = g.milestones[i].criterion
                          /\ r.milestones[i].status = "Running"
                          /\ g.milestones[i].status = "Running"
  <2>1. g.milestones[i].status = "Running" <=> i = a
    BY <1>12 DEF Sound
  <2> QED BY ONLY <1>5, <1>6, <1>7, <1>12, <2>1
<1>9. SameMilestones(g, r)
  BY <1>5, <1>7, <1>12 DEF SameMilestones
<1>10. \A i \in DOMAIN g.milestones : r.milestones[i].status = "Running" <=> i = r.active
  BY <1>7, <1>12
<1>13. w = ActiveWorkflow(g) => SameWorkflows(g, r)
  BY <1>1, <1>6, <1>7, <1>12 DEF SameWorkflows, ActiveWorkflow
<1>11. Sound(r) /\ KeepsDelivered(g, r) /\ (SameWorkflows(g, r) => Keeps(g, r))
  BY <1>1, <1>7, <1>9, <1>10, SoundStays
<1> QED BY <1>6, <1>7, <1>11, <1>13 DEF ActiveWorkflow

Restaged(g, stage, resume_to, pause) ==
    [g EXCEPT !.stage = stage, !.resume_to = resume_to, !.pause_requested = pause]

\* What a change of the stage leaves.
LEMMA RestagedIsSound ==
    ASSUME NEW g, Sound(g), NEW stage \in Stages, NEW resume_to \in Stages \cup {None},
           NEW pause \in BOOLEAN, NEW r, r = Restaged(g, stage, resume_to, pause)
    PROVE  /\ Sound(r) /\ Keeps(g, r) /\ ActiveWorkflow(r) = ActiveWorkflow(g)
           /\ r.stage = stage /\ r.resume_to = resume_to /\ r.active = g.active
           /\ r.criteria = g.criteria /\ r.counters = g.counters
           /\ r.milestones = g.milestones
           /\ r.amendment = g.amendment /\ r.budget = g.budget
           /\ EffectiveCounters(r) = EffectiveCounters(g)
           /\ InBudget(g) => InBudget(r)
<1>1. g \in Goals
  BY DEF Sound
<1>2. /\ r \in Goals /\ r.stage = stage /\ r.resume_to = resume_to /\ r.active = g.active
      /\ r.milestones = g.milestones /\ r.criteria = g.criteria
      /\ r.plan_version = g.plan_version /\ r.budget = g.budget
      /\ r.amendment = g.amendment /\ r.counters = g.counters
  BY <1>1 DEF Restaged, Goals
<1>3. Sound(r) /\ Keeps(g, r)
  BY <1>2, SameMilestonesAreKept DEF Sound, Current
<1>4. ActiveWorkflow(r) = ActiveWorkflow(g)
  BY <1>2 DEF ActiveWorkflow
<1>5. EffectiveCounters(r) = EffectiveCounters(g)
  BY <1>2, <1>4 DEF EffectiveCounters
<1>6. InBudget(g) => InBudget(r)
  BY <1>2, <1>4 DEF InBudget, FitsBudget
<1> QED BY <1>2, <1>3, <1>4, <1>5, <1>6

\* A workflow of which a goal at work keeps the checkpoint.
LEMMA CheckpointIsGood ==
    ASSUME NEW g, GoodGoal(g), g.stage = "RunningMilestone", NEW w \in Child,
           FitsBudget(g, w), NEW r, r = CheckpointActive(g, w)
    PROVE  /\ GoodGoal(r) /\ KeepsDelivered(g, r) /\ ActiveWorkflow(r) = w
           /\ w = ActiveWorkflow(g) => Keeps(g, r)
           /\ r.stage = "RunningMilestone" /\ r.active = g.active
           /\ r.criteria = g.criteria /\ r.counters = g.counters
           /\ r.milestones[g.active].criterion = g.milestones[g.active].criterion
           /\ r.budget = g.budget /\ r.pause_requested = g.pause_requested
           /\ EffectiveCounters(r).invocations = g.counters.invocations + w.used
<1>1. Sound(g) /\ Placed(g) /\ InBudget(g) /\ g.active # 0
  BY DEF GoodGoal, Placed
<1>2. /\ Sound(r) /\ KeepsDelivered(g, r) /\ ActiveWorkflow(r) = w
      /\ w = ActiveWorkflow(g) => Keeps(g, r)
      /\ r.stage = g.stage /\ r.active = g.active /\ r.criteria = g.criteria
      /\ r.resume_to = g.resume_to /\ r.budget = g.budget
      /\ r.amendment = g.amendment /\ r.counters = g.counters
      /\ r.milestones[g.active].criterion = g.milestones[g.active].criterion
      /\ r.pause_requested = g.pause_requested
  BY <1>1, CheckpointIsSound
<1>3. Placed(r)
  <2>1. g.resume_to = None /\ g.amendment = None
    BY <1>1 DEF Placed, TerminalStages
  <2> QED BY <1>1, <1>2, <2>1, RunningIsPlaced
<1>4. InBudget(r)
  BY <1>1, <1>2 DEF InBudget, FitsBudget
<1>5. EffectiveCounters(r).invocations = g.counters.invocations + w.used
  BY <1>1, <1>2, ActiveFields, ChildFields DEF Used
<1> QED BY <1>2, <1>3, <1>4, <1>5 DEF GoodGoal

-----------------------------------------------------------------------------
(* finish_active_workflow *)

Criterion == [text : Criteria, status : Evidence]

Closed(g, w, status, criteria) ==
    [g EXCEPT !.milestones[g.active] = [@ EXCEPT !.workflow = w, !.status = status],
              !.counters.workflows = @ + 1, !.counters.invocations = @ + w.used,
              !.active = 0, !.criteria = criteria]

LEMMA ClosedIsSound ==
    ASSUME NEW g, Sound(g), g.active # 0, NEW w \in Child, w = ActiveWorkflow(g),
           NEW status \in {"Completed", "Failed"}, NEW criteria \in Seq(Criterion),
           DOMAIN criteria = DOMAIN g.criteria,
           NEW r, r = Closed(g, w, status, criteria)
    PROVE  /\ Sound(r) /\ Keeps(g, r)
           /\ r.stage = g.stage /\ r.active = 0 /\ r.criteria = criteria
           /\ r.resume_to = g.resume_to /\ r.amendment = g.amendment
           /\ r.counters.invocations = g.counters.invocations + w.used
           /\ r.pause_requested = g.pause_requested
<1> DEFINE a == g.active
           ms == [g.milestones EXCEPT ![a] = [@ EXCEPT !.workflow = w, !.status = status]]
           cs == [g.counters EXCEPT !.workflows = @ + 1, !.invocations = @ + w.used]
<1>1. g \in Goals /\ a \in DOMAIN g.milestones
  BY DEF Sound
<1>2. g.counters \in Counters /\ w.used \in Nat
  BY <1>1, GoalFields, ChildFields
<1>4. cs \in Counters /\ cs.invocations = g.counters.invocations + w.used
  <2>1. g.counters.workflows + 1 \in Nat /\ g.counters.invocations + w.used \in Nat
    BY <1>2 DEF Counters
  <2> QED BY <1>2, <2>1 DEF Counters
<1>5. r = [g EXCEPT !.milestones = ms, !.counters = cs, !.active = 0, !.criteria = criteria]
  BY <1>1, <1>2 DEF Closed, Goals, Counters
<1>6. /\ g.milestones \in Seq(Milestone) /\ g.milestones[a] \in Milestone
      /\ DOMAIN g.milestones = 1 .. Len(g.milestones) /\ Len(g.milestones) \in Nat
  BY <1>1, GoalFields, Indices
<1> DEFINE m == [g.milestones[a] EXCEPT !.workflow = w, !.status = status]
<1>7. /\ m \in Milestone /\ m.plan = g.milestones[a].plan
      /\ m.criterion = g.milestones[a].criterion /\ m.status = status
      /\ m.workflow = g.milestones[a].workflow
  BY <1>6 DEF Milestone, ActiveWorkflow
<1>8. /\ ms \in Seq(Milestone) /\ DOMAIN ms = DOMAIN g.milestones /\ ms[a] = m
      /\ \A i \in DOMAIN g.milestones \ {a} : ms[i] = g.milestones[i]
  BY <1>1, <1>6, <1>7
<1> HIDE DEF ms, m, cs
<1>9. /\ r \in Goals /\ r.milestones = ms
      /\ r.stage = g.stage /\ r.active = 0 /\ r.criteria = criteria
      /\ r.resume_to = g.resume_to /\ r.budget = g.budget
      /\ r.amendment = g.amendment /\ r.counters = cs
      /\ r.plan_version = g.plan_version
      /\ r.pause_requested = g.pause_requested
  <2>1. /\ r.milestones = ms /\ r.stage = g.stage /\ r.active = 0
        /\ r.criteria = criteria /\ r.resume_to = g.resume_to /\ r.budget = g.budget
        /\ r.amendment = g.amendment /\ r.counters = cs
        /\ r.plan_version = g.plan_version
        /\ r.pause_requested = g.pause_requested
    BY <1>1, <1>5 DEF Goals
  <2>2. r \in Goals
    <3>1. criteria \in Seq([text : Criteria, status : Evidence])
      BY DEF Criterion
    <3> QED BY ONLY <1>1, <1>4, <1>5, <1>8, <3>1 DEF Goals
  <2> QED BY <2>1, <2>2
<1>10. ASSUME NEW i \in DOMAIN g.milestones
       PROVE  /\ i # a => r.milestones[i] = g.milestones[i]
                          /\ g.milestones[i].status # "Running"
              /\ i = a => /\ r.milestones[i].plan = g.milestones[i].plan
                          /\ r.milestones[i].criterion = g.milestones[i].criterion
                          /\ r.milestones[i].workflow = g.milestones[i].workflow
                          /\ r.milestones[i].status = status
                          /\ g.milestones[i].status = "Running"
  <2>1. g.milestones[i].status = "Running" <=> i = a
    BY <1>10 DEF Sound
  <2> QED BY ONLY <1>7, <1>8, <1>9, <1>10, <2>1
<1>11. SameMilestones(g, r) /\ SameWorkflows(g, r)
  BY <1>8, <1>9, <1>10 DEF SameMilestones, SameWorkflows
<1>12. \A i \in DOMAIN g.milestones : r.milestones[i].status = "Running" <=> i = r.active
  <2>1. 0 \notin DOMAIN g.milestones
    BY <1>1, Indices
  <2> QED BY <1>9, <1>10, <2>1
<1>13. Sound(r) /\ Keeps(g, r)
  BY <1>9, <1>11, <1>12, SoundStays
<1> QED BY <1>4, <1>9, <1>13

\* The criteria with the evidence that a delivered milestone has for its own.
Evidenced(g) ==
    LET k == g.milestones[g.active].criterion
    IN  [c \in DOMAIN g.criteria |->
            IF c = k /\ g.milestones[g.active].plan = g.plan_version
            THEN [g.criteria[c] EXCEPT !.status =
                    IF g.criteria[c].text \in MachineChecks
                    THEN "MachineVerified" ELSE "EvidenceReady"]
            ELSE g.criteria[c]]

LEMMA EvidencedFields ==
    ASSUME NEW g, Sound(g), NEW delivered, EvidenceIn(g, delivered),
           g.active # 0 =>
               g.criteria[g.milestones[g.active].criterion].text \in delivered,
           g.active # 0
    PROVE  /\ Evidenced(g) \in Seq(Criterion) /\ DOMAIN Evidenced(g) = DOMAIN g.criteria
           /\ \A k \in DOMAIN g.criteria :
                 Evidenced(g)[k].status # "Pending" => Evidenced(g)[k].text \in delivered
<1>1. g \in Goals
  BY DEF Sound
<1>2. /\ g.criteria \in Seq(Criterion)
      /\ \A k \in DOMAIN g.criteria : g.criteria[k] \in Criterion
  <2>1. g.criteria \in Seq(Criterion)
    BY <1>1, GoalFields DEF Criterion
  <2> QED BY <2>1
<1>3. ASSUME NEW c \in Criterion, NEW status \in {"MachineVerified", "EvidenceReady"}
      PROVE  /\ [c EXCEPT !.status = status] \in Criterion
             /\ [c EXCEPT !.status = status].text = c.text
  BY DEF Criterion, Evidence
<1>4. ASSUME NEW c \in DOMAIN g.criteria
      PROVE  /\ Evidenced(g)[c] \in Criterion
             /\ Evidenced(g)[c].text = g.criteria[c].text
             /\ \/ c = g.milestones[g.active].criterion
                \/ Evidenced(g)[c] = g.criteria[c]
  BY <1>2, <1>3, <1>4 DEF Evidenced
<1>5. Evidenced(g) \in [DOMAIN g.criteria -> Criterion]
  BY <1>4 DEF Evidenced
<1>6. Evidenced(g) \in Seq(Criterion) /\ DOMAIN Evidenced(g) = DOMAIN g.criteria
  BY <1>2, <1>5, MappedSequence
<1> QED BY <1>4, <1>6 DEF EvidenceIn

\* A workflow that ended without a delivery fails its goal.
LEMMA FailingIsGood ==
    ASSUME NEW g, GoodGoal(g), g.stage = "RunningMilestone", NEW w \in Child,
           w = ActiveWorkflow(g), w.state # "Ready",
           NEW now \in Nat, NEW r \in Finish(g, w, now)
    PROVE  /\ GoodGoal(r) /\ Keeps(g, r) /\ r.active = 0 /\ r.criteria = g.criteria
           /\ EffectiveCounters(r).invocations = g.counters.invocations + w.used
<1> DEFINE c == Closed(g, w, "Failed", g.criteria)
<1>1. Sound(g) /\ g.active # 0 /\ g \in Goals
  BY DEF GoodGoal, Placed, Sound
<1>2. g.criteria \in Seq(Criterion)
  BY <1>1, GoalFields DEF Criterion
<1>3. /\ Sound(c) /\ Keeps(g, c) /\ c.active = 0 /\ c.criteria = g.criteria
      /\ c.counters.invocations = g.counters.invocations + w.used
  BY <1>1, <1>2, ClosedIsSound
<1>4. r = Fail(c, FailureOf(w))
  BY <1>1 DEF Finish, Closed, Goals
<1>5. FailureOf(w) \in Outcomes
  BY DEF FailureOf, Outcomes
<1> HIDE DEF c
<1>6. /\ GoodGoal(r) /\ Keeps(c, r) /\ r.active = 0 /\ r.criteria = c.criteria
      /\ EffectiveCounters(r) = EffectiveCounters(c)
  BY <1>3, <1>4, <1>5, FailIsGood
<1>7. EffectiveCounters(c) = c.counters
  BY <1>3 DEF EffectiveCounters
<1>8. Keeps(g, r)
  BY <1>3, <1>6, KeepingIsTransitive
<1> QED BY <1>3, <1>6, <1>7, <1>8

\* A workflow that delivered: its criterion has evidence, and the goal goes on, pauses
\* as it was asked to, or is evaluated.
LEMMA DeliveringIsGood ==
    ASSUME NEW g, GoodGoal(g), g.stage = "RunningMilestone", NEW w \in Child,
           w = ActiveWorkflow(g), w.state = "Ready",
           NEW now \in Nat, NEW r \in Finish(g, w, now),
           NEW delivered, EvidenceIn(g, delivered),
           g.criteria[g.milestones[g.active].criterion].text \in delivered
    PROVE  /\ GoodGoal(r) /\ Keeps(g, r) /\ EvidenceIn(r, delivered)
           /\ EffectiveCounters(r).invocations = g.counters.invocations + w.used
           /\ ActiveWorkflow(r) = None
           /\ r.active # 0 => r.stage = "RunningMilestone"
           /\ g.pause_requested => r.active = 0
<1> DEFINE c == Closed(g, w, "Completed", Evidenced(g))
<1>1. /\ Sound(g) /\ g.active # 0 /\ g \in Goals
      /\ g.resume_to = None /\ g.amendment = None
  BY DEF GoodGoal, Placed, Sound, TerminalStages
<1>2. /\ Evidenced(g) \in Seq(Criterion) /\ DOMAIN Evidenced(g) = DOMAIN g.criteria
      /\ \A k \in DOMAIN g.criteria :
            Evidenced(g)[k].status # "Pending" => Evidenced(g)[k].text \in delivered
  BY <1>1, EvidencedFields
<1>3. /\ Sound(c) /\ Keeps(g, c) /\ c.active = 0 /\ c.criteria = Evidenced(g)
      /\ c.counters.invocations = g.counters.invocations + w.used
      /\ c.resume_to = None /\ c.amendment = None
  BY <1>1, <1>2, ClosedIsSound
<1>4. EvidenceIn(c, delivered)
  BY <1>2, <1>3 DEF EvidenceIn
<1>5. c = Completes(g, w)
  BY <1>1 DEF Closed, Completes, Evidenced, Goals
<1> HIDE DEF c
<1>6. ASSUME NEW s, GoodGoal(s), Keeps(c, s), s.criteria = c.criteria,
             EffectiveCounters(s).invocations = c.counters.invocations
      PROVE  /\ GoodGoal(s) /\ Keeps(g, s) /\ EvidenceIn(s, delivered)
             /\ EffectiveCounters(s).invocations = g.counters.invocations + w.used
  BY <1>3, <1>4, <1>6, KeepingIsTransitive DEF EvidenceIn
<1>7. CASE Pending(c) = {}
  <2>1. r = EvaluateCompletion(c)
    BY <1>5, <1>7 DEF Finish
  <2>2. /\ GoodGoal(r) /\ Keeps(c, r) /\ r.active = 0 /\ r.criteria = c.criteria
        /\ EffectiveCounters(r).invocations = c.counters.invocations
    BY <1>3, <2>1, EvaluationIsGood
  <2>3. ActiveWorkflow(r) = None
    BY <2>2 DEF ActiveWorkflow
  <2> QED BY <1>6, <2>2, <2>3
<1>8. CASE Pending(c) # {} /\ g.automatic /\ ~g.pause_requested
  <2>1. r \in StartNext(c, now)
    BY <1>5, <1>8 DEF Finish
  <2>2. /\ GoodGoal(r) /\ Keeps(c, r) /\ r.criteria = c.criteria
        /\ r.active # 0 => r.stage = "RunningMilestone"
        /\ ActiveWorkflow(r) = None
        /\ EffectiveCounters(r).invocations = c.counters.invocations
    BY <1>3, <2>1, StartNextIsGood
  <2> QED BY <1>6, <1>8, <2>2
<1>9. CASE Pending(c) # {} /\ ~(g.automatic /\ ~g.pause_requested)
  <2> DEFINE pause == FALSE
  <2>1. r = Restaged(c, "Paused", "RunningMilestone", pause)
    BY <1>5, <1>9 DEF Finish, Restaged
  <2>5. "Paused" \in Stages /\ "RunningMilestone" \in Stages \cup {None} /\ pause \in BOOLEAN
    BY StageNames
  <2> HIDE DEF pause
  <2>2. /\ Sound(r) /\ Keeps(c, r) /\ ActiveWorkflow(r) = ActiveWorkflow(c)
        /\ r.stage = "Paused" /\ r.resume_to = "RunningMilestone" /\ r.active = 0
        /\ r.criteria = c.criteria /\ r.amendment = None
        /\ EffectiveCounters(r) = EffectiveCounters(c)
    BY ONLY <1>3, <2>1, <2>5, RestagedIsSound
  <2>3. /\ EffectiveCounters(c) = c.counters /\ ActiveWorkflow(c) = None
    BY <1>3 DEF EffectiveCounters, ActiveWorkflow
  <2>4. GoodGoal(r)
    BY <2>2, NoneIsNothing DEF GoodGoal, Placed, InBudget, Resumable, TerminalStages
  <2> QED BY <1>6, <2>2, <2>3, <2>4
<1> QED BY <1>7, <1>8, <1>9

-----------------------------------------------------------------------------
(* The other operations *)

LEMMA BlockingIsGood ==
    ASSUME NEW g, GoodGoal(g), g.stage = "RunningMilestone", NEW w \in Child,
           w = ActiveWorkflow(g), FitsBudget(g, w), NEW r, r = BlockActive(g, w)
    PROVE  /\ GoodGoal(r) /\ Keeps(g, r) /\ r.stage = "Blocked" /\ r.criteria = g.criteria
           /\ r.active = g.active /\ ActiveWorkflow(r) = w
           /\ EffectiveCounters(r).invocations = g.counters.invocations + w.used
<1> DEFINE c == CheckpointActive(g, w)
<1>1. /\ GoodGoal(c) /\ Keeps(g, c) /\ c.active = g.active /\ c.criteria = g.criteria
      /\ c.stage = "RunningMilestone" /\ ActiveWorkflow(c) = w
      /\ EffectiveCounters(c).invocations = g.counters.invocations + w.used
  BY CheckpointIsGood
<1>2. r = [c EXCEPT !.stage = "Blocked"]
  BY DEF BlockActive
<1> HIDE DEF c
<1>3. /\ c \in Goals /\ Sound(c) /\ InBudget(c) /\ c.active # 0
      /\ c.resume_to = None /\ c.amendment = None
  BY <1>1 DEF GoodGoal, Sound, Placed, TerminalStages
<1>4. r = Restaged(c, "Blocked", c.resume_to, c.pause_requested)
  BY <1>2, <1>3 DEF Goals, Restaged
<1>8. /\ "Blocked" \in Stages /\ c.resume_to \in Stages \cup {None}
      /\ c.pause_requested \in BOOLEAN
  BY <1>3, StageNames, GoalFields
<1>5. /\ Sound(r) /\ Keeps(c, r) /\ ActiveWorkflow(r) = w
      /\ r.stage = "Blocked" /\ r.resume_to = None /\ r.active = g.active
      /\ r.criteria = g.criteria /\ r.amendment = None
      /\ EffectiveCounters(r) = EffectiveCounters(c) /\ InBudget(r)
  BY ONLY <1>1, <1>3, <1>4, <1>8, RestagedIsSound
<1>6. Placed(r)
  BY <1>1, <1>3, <1>5, NoneIsNothing DEF Placed, Resumable, TerminalStages
<1>7. Keeps(g, r)
  BY <1>1, <1>5, KeepingIsTransitive
<1> QED BY <1>1, <1>5, <1>6, <1>7 DEF GoodGoal

LEMMA PausingIsGood ==
    ASSUME NEW g, GoodGoal(g), g.stage = "RunningMilestone", NEW r, r = PauseAtBoundary(g)
    PROVE  /\ GoodGoal(r) /\ Keeps(g, r) /\ r.stage = "Paused" /\ r.criteria = g.criteria
           /\ r.active = g.active /\ ActiveWorkflow(r) = ActiveWorkflow(g)
           /\ EffectiveCounters(r) = EffectiveCounters(g)
<1>1. Sound(g) /\ InBudget(g) /\ g.active # 0 /\ g.amendment = None
  BY DEF GoodGoal, Placed, TerminalStages
<1> DEFINE pause == FALSE
<1>2. r = Restaged(g, "Paused", "RunningMilestone", pause)
  BY DEF PauseAtBoundary, Restaged
<1>5. "Paused" \in Stages /\ "RunningMilestone" \in Stages \cup {None} /\ pause \in BOOLEAN
  BY StageNames
<1> HIDE DEF pause
<1>3. /\ Sound(r) /\ Keeps(g, r) /\ ActiveWorkflow(r) = ActiveWorkflow(g)
      /\ r.stage = "Paused" /\ r.resume_to = "RunningMilestone" /\ r.active = g.active
      /\ r.criteria = g.criteria /\ r.amendment = None
      /\ EffectiveCounters(r) = EffectiveCounters(g) /\ InBudget(r)
  BY ONLY <1>1, <1>2, <1>5, RestagedIsSound
<1>4. Placed(r)
  BY <1>3, NoneIsNothing DEF Placed, Resumable, TerminalStages
<1> QED BY <1>3, <1>4 DEF GoodGoal

LEMMA PauseRequestIsGood ==
    ASSUME NEW g, GoodGoal(g), NEW r, r = RequestPause(g)
    PROVE  /\ GoodGoal(r) /\ Keeps(g, r) /\ r.criteria = g.criteria
           /\ r.stage = g.stage /\ r.active = g.active /\ r.milestones = g.milestones
           /\ r.counters = g.counters /\ r.budget = g.budget
           /\ ActiveWorkflow(r) = ActiveWorkflow(g)
           /\ EffectiveCounters(r) = EffectiveCounters(g)
<1> DEFINE pause == g.stage \notin RestingStages
<1>1. g \in Goals /\ Sound(g) /\ Placed(g) /\ InBudget(g)
  BY DEF GoodGoal, Sound
<1>2. r = [g EXCEPT !.pause_requested = pause] /\ pause \in BOOLEAN
  BY DEF RequestPause
<1> HIDE DEF pause
<1>3. r = Restaged(g, g.stage, g.resume_to, pause)
  BY <1>1, <1>2 DEF Goals, Restaged
<1>4. /\ Sound(r) /\ Keeps(g, r) /\ ActiveWorkflow(r) = ActiveWorkflow(g)
      /\ r.stage = g.stage /\ r.resume_to = g.resume_to /\ r.active = g.active
      /\ r.criteria = g.criteria /\ r.counters = g.counters
      /\ r.milestones = g.milestones /\ r.amendment = g.amendment /\ r.budget = g.budget
      /\ EffectiveCounters(r) = EffectiveCounters(g) /\ InBudget(r)
  <2>1. g.stage \in Stages /\ g.resume_to \in Stages \cup {None}
    BY <1>1, GoalFields
  <2> QED BY ONLY <1>1, <1>2, <1>3, <2>1, RestagedIsSound
<1>5. Placed(r)
  BY <1>1, <1>4 DEF Placed
<1> QED BY <1>4, <1>5 DEF GoodGoal

Accepted(g) ==
    [k \in DOMAIN g.criteria |->
        IF g.criteria[k].status = "EvidenceReady"
        THEN [g.criteria[k] EXCEPT !.status = "UserAccepted"]
        ELSE g.criteria[k]]

LEMMA AcceptIsGood ==
    ASSUME NEW g, GoodGoal(g), CanAccept(g), NEW delivered, EvidenceIn(g, delivered),
           NEW r, r = Accept(g)
    PROVE  /\ GoodGoal(r) /\ Keeps(g, r) /\ EvidenceIn(r, delivered)
           /\ r.stage = "Completed" /\ r.active = 0
           /\ EffectiveCounters(r) = EffectiveCounters(g)
<1>1. /\ g \in Goals /\ Sound(g) /\ g.active = 0 /\ g.amendment = None /\ g.resume_to = None
      /\ \A k \in DOMAIN g.criteria : g.criteria[k].status # "Pending"
  BY DEF GoodGoal, Sound, Placed, CanAccept, TerminalStages
<1>2. /\ g.criteria \in Seq(Criterion)
      /\ \A k \in DOMAIN g.criteria : g.criteria[k] \in Criterion
  <2>1. g.criteria \in Seq(Criterion)
    BY <1>1, GoalFields DEF Criterion
  <2> QED BY <2>1
<1>3. ASSUME NEW c \in Criterion
      PROVE  /\ [c EXCEPT !.status = "UserAccepted"] \in Criterion
             /\ [c EXCEPT !.status = "UserAccepted"].text = c.text
             /\ [c EXCEPT !.status = "UserAccepted"].status = "UserAccepted"
  BY DEF Criterion, Evidence
<1>4. ASSUME NEW k \in DOMAIN g.criteria
      PROVE  /\ Accepted(g)[k] \in Criterion /\ Accepted(g)[k].text = g.criteria[k].text
             /\ Accepted(g)[k].status # "Pending"
  BY <1>1, <1>2, <1>3, <1>4 DEF Accepted
<1>5. Accepted(g) \in [DOMAIN g.criteria -> Criterion]
  BY <1>4 DEF Accepted
<1>6. Accepted(g) \in Seq(Criterion) /\ DOMAIN Accepted(g) = DOMAIN g.criteria
  BY <1>2, <1>5, MappedSequence
<1>7. r = [g EXCEPT !.criteria = Accepted(g), !.stage = "Completed",
                    !.outcome = "Complete", !.active = 0]
  BY DEF Accept, Accepted
<1>8. Accepted(g) \in Seq([text : Criteria, status : Evidence])
  BY <1>6 DEF Criterion
<1>9. /\ r \in Goals /\ r.criteria = Accepted(g) /\ r.stage = "Completed"
      /\ r.active = 0 /\ r.milestones = g.milestones /\ r.budget = g.budget
      /\ r.amendment = None /\ r.resume_to = None /\ r.plan_version = g.plan_version
      /\ r.counters = g.counters
  <2>1. "Completed" \in Stages /\ "Complete" \in Outcomes
    BY StageNames DEF Outcomes
  <2> HIDE DEF Accepted
  <2>2. /\ r.criteria = Accepted(g) /\ r.stage = "Completed"
        /\ r.active = 0 /\ r.milestones = g.milestones /\ r.budget = g.budget
        /\ r.amendment = None /\ r.resume_to = None /\ r.plan_version = g.plan_version
        /\ r.counters = g.counters
    BY <1>1, <1>7 DEF Goals
  <2>3. r \in Goals
    BY ONLY <1>1, <1>7, <1>8, <2>1 DEF Goals
  <2> QED BY <2>2, <2>3
<1>10. Sound(r) /\ Keeps(g, r)
  BY <1>1, <1>6, <1>9, SameMilestonesAreKept DEF Sound, Current
<1>11. Placed(r)
  BY <1>4, <1>6, <1>9 DEF Placed, TerminalStages
<1>12. EvidenceIn(r, delivered)
  BY <1>1, <1>4, <1>6, <1>9 DEF EvidenceIn
<1>13. EffectiveCounters(r) = EffectiveCounters(g)
  BY <1>1, <1>9 DEF EffectiveCounters
<1> QED BY <1>9, <1>10, <1>11, <1>12, <1>13 DEF GoodGoal, InBudget

\* A change of the stage and the amendment.
Proposed(g, stage, resume_to, amendment) ==
    [g EXCEPT !.amendment = amendment, !.stage = stage, !.resume_to = resume_to]

LEMMA ProposedIsSound ==
    ASSUME NEW g, Sound(g), InBudget(g), NEW stage \in Stages,
           NEW resume_to \in Stages \cup {None}, NEW amendment \in Amendment \cup {None},
           amendment # None => amendment.resume_to \in Resumable,
           NEW r, r = Proposed(g, stage, resume_to, amendment)
    PROVE  /\ Sound(r) /\ InBudget(r) /\ Keeps(g, r)
           /\ r.stage = stage /\ r.resume_to = resume_to /\ r.amendment = amendment
           /\ r.active = g.active /\ r.criteria = g.criteria
           /\ EffectiveCounters(r) = EffectiveCounters(g)
<1>1. g \in Goals
  BY DEF Sound
<1>2. /\ r \in Goals /\ r.stage = stage /\ r.resume_to = resume_to
      /\ r.amendment = amendment /\ r.active = g.active
      /\ r.milestones = g.milestones /\ r.criteria = g.criteria
      /\ r.plan_version = g.plan_version /\ r.budget = g.budget
      /\ r.counters = g.counters
  BY <1>1 DEF Proposed, Goals
<1>3. Sound(r) /\ Keeps(g, r)
  BY <1>2, SameMilestonesAreKept DEF Sound, Current
<1>4. ActiveWorkflow(r) = ActiveWorkflow(g)
  BY <1>2 DEF ActiveWorkflow
<1>5. EffectiveCounters(r) = EffectiveCounters(g) /\ InBudget(r)
  BY <1>2, <1>4 DEF EffectiveCounters, InBudget, FitsBudget
<1> QED BY <1>2, <1>3, <1>5

LEMMA ProposeIsGood ==
    ASSUME NEW g, GoodGoal(g), NEW plan \in GoalPlans, NEW budget \in Budgets,
           NEW automatic \in BOOLEAN, CanPropose(g, plan, budget),
           NEW r, r = Propose(g, plan, budget, automatic)
    PROVE  /\ GoodGoal(r) /\ Keeps(g, r) /\ r.criteria = g.criteria
           /\ r.stage = "AwaitingPlanApproval"
           /\ EffectiveCounters(r) = EffectiveCounters(g)
<1> DEFINE back == IF g.stage = "Paused" THEN g.resume_to ELSE g.stage
           amendment == [plan |-> plan, budget |-> budget, automatic |-> automatic,
                         resume_to |-> back]
<1>1. /\ Sound(g) /\ InBudget(g) /\ g \in Goals
      /\ back \in Resumable /\ (back = "AwaitingUserReview" => g.active = 0)
  BY DEF GoodGoal, Sound, Placed, CanPropose, Resumable
<1>2. r = Proposed(g, "AwaitingPlanApproval", None, amendment)
  BY DEF Propose, Proposed
<1>3. back \in Stages
  BY <1>1, StageNames DEF Resumable
<1> HIDE DEF back
<1>4. amendment \in Amendment /\ amendment.resume_to = back
  BY <1>3 DEF Amendment
<1> HIDE DEF amendment
<1>5. amendment # None
  BY <1>4, NoneIsNothing
<1>6. "AwaitingPlanApproval" \in Stages
  BY StageNames
<1>7. /\ Sound(r) /\ InBudget(r) /\ Keeps(g, r)
      /\ r.stage = "AwaitingPlanApproval" /\ r.resume_to = None /\ r.amendment = amendment
      /\ r.active = g.active /\ r.criteria = g.criteria
      /\ EffectiveCounters(r) = EffectiveCounters(g)
  BY <1>1, <1>2, <1>4, <1>5, <1>6, ProposedIsSound
<1>8. Placed(r)
  BY <1>1, <1>4, <1>5, <1>7, NoneIsNothing DEF Placed, TerminalStages, Resumable
<1> QED BY <1>7, <1>8 DEF GoodGoal

LEMMA DiscardIsGood ==
    ASSUME NEW g, GoodGoal(g), g.stage \notin TerminalStages, g.amendment # None,
           NEW r, r = DiscardAmendment(g)
    PROVE  /\ GoodGoal(r) /\ Keeps(g, r) /\ r.criteria = g.criteria
           /\ r.stage = "Paused"
           /\ EffectiveCounters(r) = EffectiveCounters(g)
<1> DEFINE back == g.amendment.resume_to
<1>1. /\ Sound(g) /\ InBudget(g) /\ g \in Goals
      /\ back \in Resumable /\ (back = "AwaitingUserReview" => g.active = 0)
  BY DEF GoodGoal, Sound, Placed
<1>2. r = Proposed(g, "Paused", back, None)
  BY DEF DiscardAmendment, Proposed
<1>3. "Paused" \in Stages /\ back \in Stages
  BY <1>1, StageNames DEF Resumable
<1> HIDE DEF back
<1>4. /\ Sound(r) /\ InBudget(r) /\ Keeps(g, r)
      /\ r.stage = "Paused" /\ r.resume_to = back /\ r.amendment = None
      /\ r.active = g.active /\ r.criteria = g.criteria
      /\ EffectiveCounters(r) = EffectiveCounters(g)
  BY <1>1, <1>2, <1>3, ProposedIsSound
<1>5. Placed(r)
  BY <1>1, <1>4, NoneIsNothing DEF Placed, TerminalStages, Resumable
<1> QED BY <1>4, <1>5 DEF GoodGoal

LEMMA ResumeIsGood ==
    ASSUME NEW g, GoodGoal(g), NEW now \in Nat, CanResume(g, now),
           NEW r \in Resume(g, now), r.active # 0
    PROVE  /\ GoodGoal(r) /\ Keeps(g, r) /\ r.criteria = g.criteria
           /\ r.stage = "RunningMilestone"
           /\ EffectiveCounters(r).invocations = EffectiveCounters(g).invocations
<1> DEFINE to == IF g.stage = "Blocked" THEN "RunningMilestone" ELSE g.resume_to
           pause == FALSE
           back == [g EXCEPT !.stage = to, !.resume_to = None, !.pause_requested = pause]
<1>1. /\ Sound(g) /\ InBudget(g) /\ g \in Goals /\ g.amendment = None
      /\ to \in Resumable /\ (to = "AwaitingUserReview" => g.active = 0)
      /\ g.stage = "Blocked" => g.active # 0
  BY DEF GoodGoal, Sound, Placed, CanResume, Resumable, TerminalStages
<1>2. r \in IF g.stage = "Paused" /\ g.active = 0 /\ back.stage = "RunningMilestone"
            THEN StartNext(back, now) ELSE {back}
  BY DEF Resume
<1>3. back = Restaged(g, to, None, pause) /\ pause \in BOOLEAN
  BY DEF Restaged
<1>4. to \in Stages
  BY <1>1, StageNames DEF Resumable
<1> HIDE DEF to, pause, back
<1>5. /\ Sound(back) /\ Keeps(g, back) /\ ActiveWorkflow(back) = ActiveWorkflow(g)
      /\ back.stage = to /\ back.resume_to = None /\ back.active = g.active
      /\ back.criteria = g.criteria /\ back.counters = g.counters
      /\ back.amendment = None /\ InBudget(back)
      /\ EffectiveCounters(back) = EffectiveCounters(g)
  BY <1>1, <1>3, <1>4, RestagedIsSound
<1>6. CASE r = back
  <2>1. r.stage = "RunningMilestone"
    BY <1>1, <1>5, <1>6 DEF Resumable
  <2>2. Placed(r)
    BY <1>5, <1>6, <2>1, RunningIsPlaced
  <2> QED BY <1>5, <1>6, <2>1, <2>2 DEF GoodGoal
<1>7. CASE r \in StartNext(back, now) /\ g.active = 0
  <2>1. /\ GoodGoal(r) /\ Keeps(back, r) /\ r.criteria = back.criteria
        /\ r.stage = "RunningMilestone"
        /\ EffectiveCounters(r).invocations = back.counters.invocations
    BY <1>5, <1>7, StartNextIsGood
  <2>2. EffectiveCounters(back) = back.counters
    BY <1>5, <1>7 DEF EffectiveCounters
  <2>3. Keeps(g, r)
    BY <1>5, <2>1, KeepingIsTransitive
  <2> QED BY <1>5, <2>1, <2>2, <2>3
<1> QED BY <1>2, <1>6, <1>7

-----------------------------------------------------------------------------
(* Plans and amendments *)

LEMMA PlanFields ==
    ASSUME NEW plan \in GoalPlans
    PROVE  /\ plan \in Seq(Criteria) /\ Len(plan) \in Nat
           /\ DOMAIN plan = 1 .. Len(plan)
           /\ \A k \in DOMAIN plan : plan[k] \in Criteria
<1>1. plan \in Seq(Criteria)
  BY PlansAreDuplicateFree
<1> QED BY <1>1

LEMMA FreshPlan ==
    ASSUME NEW plan \in GoalPlans, NEW version \in Nat
    PROVE  /\ FreshCriteria(plan) \in Seq(Criterion)
           /\ DOMAIN FreshCriteria(plan) = DOMAIN plan
           /\ \A k \in DOMAIN plan : FreshCriteria(plan)[k].status = "Pending"
           /\ MilestonesFor(version, plan) \in Seq(Milestone)
           /\ DOMAIN MilestonesFor(version, plan) = DOMAIN plan
           /\ \A k \in DOMAIN plan :
                 /\ MilestonesFor(version, plan)[k].plan = version
                 /\ MilestonesFor(version, plan)[k].criterion = k
                 /\ MilestonesFor(version, plan)[k].status = "Pending"
                 /\ MilestonesFor(version, plan)[k].workflow = None
<1>1. /\ plan \in Seq(Criteria) /\ DOMAIN plan = 1 .. Len(plan) /\ Len(plan) \in Nat
      /\ \A k \in DOMAIN plan : plan[k] \in Criteria
  BY PlanFields
<1>2. FreshCriteria(plan) \in [DOMAIN plan -> Criterion]
  BY <1>1 DEF FreshCriteria, Criterion, Evidence
<1>3. ASSUME NEW k \in DOMAIN plan
      PROVE  [plan |-> version, criterion |-> k, status |-> "Pending", workflow |-> None]
                 \in Milestone
  <2>1. k \in Nat \ {0}
    BY <1>1
  <2> QED BY <2>1 DEF Milestone
<1>4. MilestonesFor(version, plan) \in [DOMAIN plan -> Milestone]
  BY <1>3 DEF MilestonesFor
<1>5. /\ FreshCriteria(plan) \in Seq(Criterion)
      /\ DOMAIN FreshCriteria(plan) = DOMAIN plan
  BY <1>1, <1>2, MappedSequence
<1>6. /\ MilestonesFor(version, plan) \in Seq(Milestone)
      /\ DOMAIN MilestonesFor(version, plan) = DOMAIN plan
  BY <1>1, <1>4, MappedSequence
<1>7. \A k \in DOMAIN plan : FreshCriteria(plan)[k].status = "Pending"
  BY DEF FreshCriteria
<1>8. \A k \in DOMAIN plan :
         /\ MilestonesFor(version, plan)[k].plan = version
         /\ MilestonesFor(version, plan)[k].criterion = k
         /\ MilestonesFor(version, plan)[k].status = "Pending"
         /\ MilestonesFor(version, plan)[k].workflow = None
  BY DEF MilestonesFor
<1> QED BY <1>5, <1>6, <1>7, <1>8

\* A goal whose plan is a draft that its budget has room for.
LEMMA DraftIsGood ==
    ASSUME NEW r \in Goals, NEW plan \in GoalPlans, Len(plan) <= r.budget.milestones,
           r.stage = "AwaitingPlanApproval", r.resume_to = None, r.active = 0,
           r.amendment = None, r.criteria = FreshCriteria(plan),
           r.milestones = MilestonesFor(r.plan_version, plan), NEW delivered
    PROVE  GoodGoal(r) /\ EvidenceIn(r, delivered)
<1>1. r.plan_version \in Nat /\ r.budget.milestones \in Nat
  BY GoalFields, Numbers
<1>2. /\ DOMAIN r.criteria = DOMAIN plan /\ DOMAIN r.milestones = DOMAIN plan
      /\ \A k \in DOMAIN plan :
            /\ r.criteria[k].status = "Pending"
            /\ r.milestones[k].plan = r.plan_version /\ r.milestones[k].criterion = k
            /\ r.milestones[k].status = "Pending" /\ r.milestones[k].workflow = None
  BY <1>1, FreshPlan
<1>3. Current(r) = 1 .. Len(plan) /\ Len(plan) \in Nat
  BY <1>2, PlanFields DEF Current
<1>4. Cardinality(Current(r)) = Len(plan)
  BY <1>3, FS_Interval
<1>5. 0 \notin DOMAIN r.milestones
  BY Indices
<1>6. Sound(r)
  BY <1>2, <1>4, <1>5 DEF Sound
<1>7. Placed(r)
  BY <1>2, NoneIsNothing DEF Placed, TerminalStages, Resumable
<1> QED BY <1>2, <1>6, <1>7 DEF GoodGoal, InBudget, EvidenceIn

LEMMA StartIsGood ==
    ASSUME NEW plan \in GoalPlans, NEW budget \in Budgets, NEW automatic \in BOOLEAN,
           CanStart(plan, budget), NEW r, r = Start(plan, budget, automatic), NEW delivered
    PROVE  /\ GoodGoal(r) /\ EvidenceIn(r, delivered)
           /\ EffectiveCounters(r).invocations = 0
<1>1. /\ FreshCriteria(plan) \in Seq([text : Criteria, status : Evidence])
      /\ MilestonesFor(1, plan) \in Seq(Milestone)
  BY FreshPlan DEF Criterion
<1>2. "AwaitingPlanApproval" \in Stages
  BY StageNames
<1>3. /\ r.stage = "AwaitingPlanApproval" /\ r.resume_to = None /\ r.active = 0
      /\ r.amendment = None /\ r.criteria = FreshCriteria(plan)
      /\ r.plan_version = 1 /\ r.milestones = MilestonesFor(1, plan)
      /\ r.budget = budget /\ r.counters = [workflows |-> 0, invocations |-> 0]
  BY DEF Start
<1>4. r \in Goals
  <2>1. [workflows |-> 0, invocations |-> 0] \in Counters
    BY DEF Counters
  <2> QED BY <1>1, <1>2, <2>1 DEF Start, Goals
<1>5. Len(plan) <= r.budget.milestones
  BY <1>3 DEF CanStart
<1>6. GoodGoal(r) /\ EvidenceIn(r, delivered)
  BY <1>3, <1>4, <1>5, DraftIsGood
<1> QED BY <1>3, <1>6 DEF EffectiveCounters

LEMMA RevisePlanIsGood ==
    ASSUME NEW g, GoodGoal(g), CanApprovePlan(g), NEW plan \in GoalPlans,
           NEW budget \in Budgets, NEW automatic \in BOOLEAN, CanStart(plan, budget),
           NEW r, r = RevisePlan(g, plan, budget, automatic), NEW delivered
    PROVE  /\ GoodGoal(r) /\ EvidenceIn(r, delivered) /\ Keeps(g, r)
           /\ r.stage = "AwaitingPlanApproval" /\ r.active = 0
           /\ EffectiveCounters(r) = EffectiveCounters(g)
<1>1. /\ g \in Goals /\ g.stage = "AwaitingPlanApproval" /\ g.amendment = None
      /\ g.resume_to = None /\ g.active = 0
      /\ \A i \in DOMAIN g.milestones : g.milestones[i].status = "Pending"
  BY DEF GoodGoal, Sound, Placed, CanApprovePlan
<1>2. /\ FreshCriteria(plan) \in Seq([text : Criteria, status : Evidence])
      /\ MilestonesFor(g.plan_version, plan) \in Seq(Milestone)
  BY <1>1, GoalFields, FreshPlan DEF Criterion
<1>3. /\ r.stage = "AwaitingPlanApproval" /\ r.resume_to = None /\ r.active = 0
      /\ r.amendment = None /\ r.criteria = FreshCriteria(plan)
      /\ r.plan_version = g.plan_version /\ r.budget = budget
      /\ r.milestones = MilestonesFor(g.plan_version, plan) /\ r.counters = g.counters
  BY <1>1 DEF RevisePlan, Goals
<1>4. r \in Goals
  BY <1>1, <1>2 DEF RevisePlan, Goals
<1>5. Len(plan) <= r.budget.milestones
  BY <1>3 DEF CanStart
<1>6. GoodGoal(r) /\ EvidenceIn(r, delivered)
  BY <1>3, <1>4, <1>5, DraftIsGood
<1>7. EffectiveCounters(r) = EffectiveCounters(g)
  BY <1>1, <1>3 DEF EffectiveCounters
<1>8. Keeps(g, r)
  <2>1. \A i \in DOMAIN r.milestones :
           r.milestones[i].status = "Pending" /\ r.milestones[i].workflow = None
    BY <1>1, <1>3, GoalFields, FreshPlan
  <2>2. \A i \in DOMAIN g.milestones : g.milestones[i].workflow = None
    BY <1>1 DEF GoodGoal, Sound
  <2>3. KeepsDelivered(g, r)
    BY <1>1 DEF KeepsDelivered
  <2>4. KeepsWorkflows(g, r)
    BY <2>1, <2>2 DEF KeepsWorkflows, WorkflowAt, RunningAt
  <2> QED BY <2>3, <2>4 DEF Keeps
<1> QED BY <1>3, <1>6, <1>7, <1>8

LEMMA CarriedIsEvidence ==
    ASSUME NEW g \in Goals, NEW text
    PROVE  /\ CarriedStatus(g, text) \in Evidence
           /\ CarriedStatus(g, text) # "Pending" =>
                 \E k \in DOMAIN g.criteria :
                     g.criteria[k].text = text /\ g.criteria[k].status # "Pending"
<1> DEFINE kept == {k \in DOMAIN g.criteria :
                       g.criteria[k].text = text /\ g.criteria[k].status \in Delivered}
           k0 == CHOOSE k \in kept : TRUE
<1>1. CASE kept = {}
  <2>1. CarriedStatus(g, text) = "Pending"
    BY <1>1 DEF CarriedStatus
  <2> QED BY <2>1 DEF Evidence
<1>2. CASE kept # {}
  <2>1. CarriedStatus(g, text) = g.criteria[k0].status
    BY <1>2 DEF CarriedStatus
  <2>2. k0 \in kept
    BY <1>2
  <2>3. /\ k0 \in DOMAIN g.criteria /\ g.criteria[k0].text = text
        /\ g.criteria[k0].status \in Delivered
    BY <2>2
  <2> QED BY <2>1, <2>3 DEF Delivered, Evidence
<1> QED BY <1>1, <1>2

\* What an amendment makes of the milestones, and of the criteria.
Superseded(g) ==
    [i \in DOMAIN g.milestones |->
        IF g.milestones[i].status = "Completed" THEN g.milestones[i]
        ELSE [g.milestones[i] EXCEPT !.status = "Superseded"]]

Added(g) ==
    [k \in DOMAIN g.amendment.plan |->
        [MilestonesFor(g.plan_version + 1, g.amendment.plan)[k] EXCEPT !.status =
            IF CarriedStatus(g, g.amendment.plan[k]) = "Pending"
            THEN "Pending" ELSE "Completed"]]

Carried(g) ==
    [k \in DOMAIN g.amendment.plan |->
        [text |-> g.amendment.plan[k], status |-> CarriedStatus(g, g.amendment.plan[k])]]

LEMMA SupersededFields ==
    ASSUME NEW g \in Goals
    PROVE  /\ Superseded(g) \in Seq(Milestone) /\ Len(Superseded(g)) = Len(g.milestones)
           /\ \A i \in DOMAIN g.milestones :
                 /\ Superseded(g)[i].status \in {"Completed", "Superseded"}
                 /\ Superseded(g)[i].workflow = g.milestones[i].workflow
                 /\ g.milestones[i].status = "Completed" =>
                       Superseded(g)[i] = g.milestones[i]
<1>1. g.milestones \in Seq(Milestone) /\ \A i \in DOMAIN g.milestones : g.milestones[i] \in Milestone
  BY GoalFields, Indices
<1>2. \A m \in Milestone :
         /\ [m EXCEPT !.status = "Superseded"] \in Milestone
         /\ [m EXCEPT !.status = "Superseded"].status = "Superseded"
         /\ [m EXCEPT !.status = "Superseded"].workflow = m.workflow
  BY DEF Milestone
<1>3. Superseded(g) \in [DOMAIN g.milestones -> Milestone]
  BY <1>1, <1>2 DEF Superseded
<1>4. Superseded(g) \in Seq(Milestone) /\ Len(Superseded(g)) = Len(g.milestones)
  BY <1>1, <1>3, MappedSequence
<1>5. ASSUME NEW i \in DOMAIN g.milestones
      PROVE  /\ Superseded(g)[i].status \in {"Completed", "Superseded"}
             /\ Superseded(g)[i].workflow = g.milestones[i].workflow
             /\ g.milestones[i].status = "Completed" => Superseded(g)[i] = g.milestones[i]
  BY <1>1, <1>2, <1>5 DEF Superseded
<1> QED BY <1>4, <1>5

LEMMA AddedFields ==
    ASSUME NEW g \in Goals, g.amendment # None
    PROVE  /\ g.amendment.plan \in GoalPlans
           /\ Added(g) \in Seq(Milestone) /\ Len(Added(g)) = Len(g.amendment.plan)
           /\ \A k \in DOMAIN g.amendment.plan :
                 /\ Added(g)[k].plan = g.plan_version + 1 /\ Added(g)[k].criterion = k
                 /\ Added(g)[k].workflow = None
                 /\ Added(g)[k].status \in {"Pending", "Completed"}
           /\ Carried(g) \in Seq(Criterion) /\ DOMAIN Carried(g) = DOMAIN g.amendment.plan
           /\ \A k \in DOMAIN g.amendment.plan :
                 /\ Carried(g)[k].text = g.amendment.plan[k]
                 /\ Carried(g)[k].status = CarriedStatus(g, g.amendment.plan[k])
<1> DEFINE plan == g.amendment.plan
           version == g.plan_version + 1
<1>1. g.amendment \in Amendment /\ version \in Nat
  BY GoalFields
<1>2. plan \in GoalPlans
  BY <1>1 DEF Amendment
<1> HIDE DEF plan, version
<1>3. /\ plan \in Seq(Criteria) /\ Len(plan) \in Nat /\ DOMAIN plan = 1 .. Len(plan)
      /\ \A k \in DOMAIN plan : plan[k] \in Criteria
  BY <1>2, PlanFields
<1>4. /\ MilestonesFor(version, plan) \in Seq(Milestone)
      /\ DOMAIN MilestonesFor(version, plan) = DOMAIN plan
      /\ \A k \in DOMAIN plan :
            /\ MilestonesFor(version, plan)[k].plan = version
            /\ MilestonesFor(version, plan)[k].criterion = k
            /\ MilestonesFor(version, plan)[k].workflow = None
  BY <1>1, <1>2, FreshPlan
<1>5. \A m \in Milestone, s \in {"Pending", "Completed"} :
         /\ [m EXCEPT !.status = s] \in Milestone
         /\ [m EXCEPT !.status = s].status = s
         /\ [m EXCEPT !.status = s].plan = m.plan
         /\ [m EXCEPT !.status = s].criterion = m.criterion
         /\ [m EXCEPT !.status = s].workflow = m.workflow
  BY DEF Milestone
<1>6. \A k \in DOMAIN plan : MilestonesFor(version, plan)[k] \in Milestone
  BY <1>4
<1> DEFINE status(k) == IF CarriedStatus(g, plan[k]) = "Pending" THEN "Pending" ELSE "Completed"
<1>7. /\ DOMAIN Added(g) = DOMAIN plan
      /\ \A k \in DOMAIN plan :
            Added(g)[k] = [MilestonesFor(version, plan)[k] EXCEPT !.status = status(k)]
  BY DEF Added, plan, version
<1>8. \A k \in DOMAIN plan : status(k) \in {"Pending", "Completed"}
  OBVIOUS
<1> HIDE DEF status
<1>9. ASSUME NEW k \in DOMAIN plan
      PROVE  /\ Added(g)[k] \in Milestone
             /\ Added(g)[k].plan = version /\ Added(g)[k].criterion = k
             /\ Added(g)[k].workflow = None
             /\ Added(g)[k].status \in {"Pending", "Completed"}
  <2> DEFINE m == MilestonesFor(version, plan)[k]
             s == status(k)
  <2>1. /\ m \in Milestone /\ s \in {"Pending", "Completed"}
        /\ m.plan = version /\ m.criterion = k /\ m.workflow = None
    BY <1>4, <1>6, <1>8, <1>9
  <2>2. Added(g)[k] = [m EXCEPT !.status = s]
    BY <1>7, <1>9
  <2> HIDE DEF m, s
  <2> DEFINE x == [m EXCEPT !.status = s]
  <2>3. /\ x \in Milestone /\ x.status = s
        /\ x.plan = m.plan /\ x.criterion = m.criterion /\ x.workflow = m.workflow
    BY ONLY <1>5, <2>1
  <2>4. Added(g)[k] = x
    BY ONLY <2>2
  <2> HIDE DEF x
  <2> QED BY ONLY <2>1, <2>3, <2>4
<1>10. Added(g) \in [DOMAIN plan -> Milestone]
  <2>1. Added(g) = [k \in DOMAIN plan |-> Added(g)[k]]
    BY DEF Added, plan
  <2> QED BY <1>9, <2>1
<1>11. Added(g) \in Seq(Milestone) /\ Len(Added(g)) = Len(plan)
  BY <1>3, <1>10, MappedSequence
<1>12. /\ DOMAIN Carried(g) = DOMAIN plan
       /\ \A k \in DOMAIN plan :
             Carried(g)[k] = [text |-> plan[k], status |-> CarriedStatus(g, plan[k])]
  BY DEF Carried, plan
<1>13. \A k \in DOMAIN plan : Carried(g)[k] \in Criterion
  BY <1>3, <1>12, CarriedIsEvidence DEF Criterion
<1>14. Carried(g) \in [DOMAIN plan -> Criterion]
  <2>1. Carried(g) = [k \in DOMAIN plan |-> Carried(g)[k]]
    BY DEF Carried, plan
  <2> QED BY <1>13, <2>1
<1>15. Carried(g) \in Seq(Criterion)
  BY <1>3, <1>14, MappedSequence
<1>16. \A k \in DOMAIN plan :
          /\ Carried(g)[k].text = plan[k]
          /\ Carried(g)[k].status = CarriedStatus(g, plan[k])
  BY <1>12
<1> QED BY <1>2, <1>9, <1>11, <1>12, <1>15, <1>16 DEF plan, version

\* The plan of an amendment, but for the room its budget has.
LEMMA AmendedFields ==
    ASSUME NEW g \in Goals, g.amendment # None, NEW r, r = Amended(g)
    PROVE  /\ r \in Goals /\ r.active = 0 /\ r.amendment = None
           /\ r.stage = g.stage /\ r.resume_to = g.resume_to /\ r.counters = g.counters
           /\ r.plan_version = g.plan_version + 1
           /\ r.milestones = Superseded(g) \o Added(g)
           /\ r.criteria = Carried(g)
<1>1. g.amendment \in Amendment /\ g.plan_version \in Nat
  BY GoalFields
<1>2. g.amendment.budget \in Budgets /\ g.amendment.automatic \in BOOLEAN
  BY <1>1 DEF Amendment
<1>3. Superseded(g) \in Seq(Milestone) /\ Added(g) \in Seq(Milestone)
  BY SupersededFields, AddedFields
<1>4. Superseded(g) \o Added(g) \in Seq(Milestone)
  BY <1>3
<1>5. Carried(g) \in Seq([text : Criteria, status : Evidence])
  BY AddedFields DEF Criterion
<1> DEFINE automatic == g.amendment.automatic
           budget == g.amendment.budget
           milestones == Superseded(g) \o Added(g)
           criteria == Carried(g)
           version == g.plan_version + 1
<1>6. r = [g EXCEPT !.amendment = None, !.automatic = automatic,
                    !.budget = budget, !.plan_version = version,
                    !.active = 0, !.milestones = milestones, !.criteria = criteria]
  BY DEF Amended, Superseded, Added, Carried
<1>7. version \in Nat
  BY <1>1
<1> HIDE DEF automatic, budget, milestones, criteria, version
<1>8. /\ r.active = 0 /\ r.amendment = None
      /\ r.stage = g.stage /\ r.resume_to = g.resume_to /\ r.counters = g.counters
      /\ r.plan_version = version /\ r.milestones = milestones /\ r.criteria = criteria
  BY <1>6 DEF Goals
<1>9. r \in Goals
  <2>1. /\ automatic \in BOOLEAN /\ budget \in Budgets /\ version \in Nat
        /\ milestones \in Seq(Milestone)
        /\ criteria \in Seq([text : Criteria, status : Evidence])
    BY <1>2, <1>4, <1>5, <1>7 DEF automatic, budget, milestones, criteria
  <2>2. /\ DOMAIN r = DOMAIN g /\ r.pause_requested = g.pause_requested
        /\ r.automatic = automatic /\ r.budget = budget /\ r.outcome = g.outcome
    BY <1>6 DEF Goals
  <2>3. r = [stage |-> g.stage, resume_to |-> g.resume_to,
             pause_requested |-> g.pause_requested, plan_version |-> version,
             criteria |-> criteria, milestones |-> milestones, active |-> 0,
             counters |-> g.counters, budget |-> budget, automatic |-> automatic,
             amendment |-> None, outcome |-> g.outcome]
    BY <1>6 DEF Goals
  <2> QED BY <2>1, <2>3, GoalFields DEF Goals
<1> QED BY <1>8, <1>9 DEF milestones, criteria, version

LEMMA AmendedMilestones ==
    ASSUME NEW g \in Goals, g.amendment # None, NEW r, r = Amended(g)
    PROVE  /\ \A i \in DOMAIN g.milestones :
                 /\ i \in DOMAIN r.milestones
                 /\ r.milestones[i].status \in {"Completed", "Superseded"}
                 /\ r.milestones[i].workflow = g.milestones[i].workflow
                 /\ g.milestones[i].status = "Completed" =>
                       r.milestones[i] = g.milestones[i]
           /\ \A i \in DOMAIN r.milestones \ DOMAIN g.milestones :
                 /\ r.milestones[i].plan = r.plan_version
                 /\ r.milestones[i].criterion \in DOMAIN r.criteria
                 /\ r.milestones[i].workflow = None
                 /\ r.milestones[i].status \in {"Pending", "Completed"}
<1> DEFINE s == Superseded(g)
           t == Added(g)
           n == Len(g.milestones)
<1>1. /\ s \in Seq(Milestone) /\ Len(s) = n
      /\ \A i \in DOMAIN g.milestones :
            /\ s[i].status \in {"Completed", "Superseded"}
            /\ s[i].workflow = g.milestones[i].workflow
            /\ g.milestones[i].status = "Completed" => s[i] = g.milestones[i]
  BY SupersededFields
<1>2. /\ t \in Seq(Milestone) /\ Len(t) = Len(g.amendment.plan)
      /\ g.amendment.plan \in GoalPlans
      /\ \A k \in DOMAIN g.amendment.plan :
            /\ t[k].plan = g.plan_version + 1 /\ t[k].criterion = k
            /\ t[k].workflow = None
            /\ t[k].status \in {"Pending", "Completed"}
      /\ DOMAIN Carried(g) = DOMAIN g.amendment.plan
  BY AddedFields
<1>3. DOMAIN g.amendment.plan = 1 .. Len(t) /\ Len(t) \in Nat
  BY <1>2, PlanFields
<1>4. /\ r.milestones = s \o t /\ r.plan_version = g.plan_version + 1
      /\ r.criteria = Carried(g)
  BY AmendedFields
<1>5. DOMAIN g.milestones = 1 .. n /\ n \in Nat
  BY Indices
<1> HIDE DEF s, t, n
<1>6. /\ DOMAIN r.milestones = 1 .. n + Len(t)
      /\ \A i \in 1 .. n : r.milestones[i] = s[i]
      /\ \A i \in n + 1 .. n + Len(t) : r.milestones[i] = t[i - n]
  <2>1. s \in Seq(Milestone) /\ t \in Seq(Milestone) /\ Len(s) = n
    BY <1>1, <1>2
  <2> QED BY ONLY <1>4, <2>1, Concatenated
<1>7. ASSUME NEW i \in DOMAIN g.milestones
      PROVE  i \in DOMAIN r.milestones /\ r.milestones[i] = s[i]
  BY <1>3, <1>5, <1>6, <1>7
<1>8. ASSUME NEW i \in DOMAIN r.milestones \ DOMAIN g.milestones
      PROVE  /\ r.milestones[i].plan = r.plan_version
             /\ r.milestones[i].criterion \in DOMAIN r.criteria
             /\ r.milestones[i].workflow = None
             /\ r.milestones[i].status \in {"Pending", "Completed"}
  <2>1. i \in n + 1 .. n + Len(t) /\ i - n \in DOMAIN g.amendment.plan
    BY <1>3, <1>5, <1>6, <1>8
  <2>2. r.milestones[i] = t[i - n]
    BY <1>6, <2>1
  <2> QED BY <1>2, <1>4, <2>1, <2>2
<1> QED BY <1>1, <1>7, <1>8

\* A goal that StartNext sets to work keeps the milestones that count.
LEMMA StartNextStarts ==
    ASSUME NEW g \in Goals, NEW now, NEW r \in StartNext(g, now), r.active # 0
    PROVE  r.budget = g.budget /\ Current(r) = Current(g)
<1>1. CASE Exhausted(g, now)
  <2>1. r = Fail(g, "BudgetExhausted")
    BY <1>1 DEF StartNext
  <2>2. r.active = 0
    BY <2>1 DEF Fail, Abandon, Goals
  <2> QED BY <2>2
<1>2. CASE ~Exhausted(g, now) /\ Pending(g) = {}
  <2>1. r = EvaluateCompletion(g)
    BY <1>2 DEF StartNext
  <2>2. r.active = 0
    BY <2>1 DEF EvaluateCompletion, Fail, Abandon, Goals
  <2> QED BY <2>2
<1>3. CASE ~Exhausted(g, now) /\ Pending(g) # {}
  <2>1. PICK i \in FirstPending(g) : r = Started(g, i)
    BY <1>3 DEF StartNext, Started
  <2>2. i \in Pending(g)
    BY FirstPendingIsPending
  <2>3. i \in DOMAIN g.milestones /\ g.milestones[i].status = "Pending"
    BY <2>2 DEF Pending
  <2>4. /\ r.budget = g.budget /\ DOMAIN r.milestones = DOMAIN g.milestones
        /\ r.milestones[i].status = "Running"
        /\ \A j \in DOMAIN g.milestones \ {i} : r.milestones[j] = g.milestones[j]
    BY <2>1, <2>3, StartedFields
  <2>5. \A j \in DOMAIN g.milestones :
           r.milestones[j].status # "Superseded" <=> g.milestones[j].status # "Superseded"
    BY <2>3, <2>4
  <2> QED BY <2>4, <2>5 DEF Current
<1> QED BY <1>1, <1>2, <1>3

\* approve_amendment, when the goal is stored and set to work.
LEMMA ApproveAmendmentIsGood ==
    ASSUME NEW g, GoodGoal(g), g.amendment # None, g.stage \notin TerminalStages,
           NEW delivered, EvidenceIn(g, delivered), NEW now \in Nat,
           NEW r \in ApproveAmendment(g, now), r.active # 0, Valid(r)
    PROVE  /\ GoodGoal(r) /\ Keeps(g, r) /\ EvidenceIn(r, delivered)
           /\ r.stage = "RunningMilestone"
           /\ EffectiveCounters(r).invocations = g.counters.invocations
<1> DEFINE h == Amended(g)
<1>1. g \in Goals /\ g.stage = "AwaitingPlanApproval" /\ g.resume_to = None
  BY DEF GoodGoal, Sound, Placed
<1>2. /\ h \in Goals /\ h.active = 0 /\ h.amendment = None
      /\ h.resume_to = None /\ h.counters = g.counters /\ h.criteria = Carried(g)
  BY <1>1, AmendedFields
<1>3. /\ \A i \in DOMAIN g.milestones :
            /\ i \in DOMAIN h.milestones
            /\ h.milestones[i].status \in {"Completed", "Superseded"}
            /\ h.milestones[i].workflow = g.milestones[i].workflow
            /\ g.milestones[i].status = "Completed" => h.milestones[i] = g.milestones[i]
      /\ \A i \in DOMAIN h.milestones \ DOMAIN g.milestones :
            /\ h.milestones[i].plan = h.plan_version
            /\ h.milestones[i].criterion \in DOMAIN h.criteria
            /\ h.milestones[i].workflow = None
            /\ h.milestones[i].status \in {"Pending", "Completed"}
  BY <1>1, AmendedMilestones
<1>4. EvidenceIn(h, delivered)
  <2>1. /\ DOMAIN Carried(g) = DOMAIN g.amendment.plan
        /\ \A k \in DOMAIN g.amendment.plan :
              /\ Carried(g)[k].text = g.amendment.plan[k]
              /\ Carried(g)[k].status = CarriedStatus(g, g.amendment.plan[k])
    BY <1>1, AddedFields
  <2>2. ASSUME NEW k \in DOMAIN h.criteria, h.criteria[k].status # "Pending"
        PROVE  h.criteria[k].text \in delivered
    <3>1. \E j \in DOMAIN g.criteria :
              g.criteria[j].text = h.criteria[k].text /\ g.criteria[j].status # "Pending"
      BY <1>1, <1>2, <2>1, <2>2, CarriedIsEvidence
    <3> QED BY <3>1 DEF EvidenceIn
  <2> QED BY <2>2 DEF EvidenceIn
<1>5. r \in StartNext(h, now)
  BY DEF ApproveAmendment
<1> HIDE DEF h
<1>6. Cardinality(Current(h)) <= h.budget.milestones
  <2>1. r.budget = h.budget /\ Current(r) = Current(h)
    BY <1>2, <1>5, StartNextStarts
  <2> QED BY <2>1 DEF Valid
<1>7. 0 \notin DOMAIN h.milestones
  BY <1>2, Indices
<1>8. Sound(h)
  BY <1>2, <1>3, <1>6, <1>7 DEF Sound
<1>9. /\ GoodGoal(r) /\ Keeps(h, r) /\ r.criteria = h.criteria
      /\ r.stage = "RunningMilestone"
      /\ EffectiveCounters(r).invocations = h.counters.invocations
  BY <1>2, <1>5, <1>8, StartNextIsGood
<1>10. Keeps(g, r)
  <2>1. KeepsDelivered(g, h)
    BY <1>3 DEF KeepsDelivered
  <2>2. KeepsWorkflows(g, h)
    BY <1>3 DEF KeepsWorkflows, WorkflowAt, RunningAt
  <2> QED BY <1>9, <2>1, <2>2, KeepingIsTransitive DEF Keeps
<1>11. EvidenceIn(r, delivered)
  BY <1>4, <1>9 DEF EvidenceIn
<1> QED BY <1>2, <1>9, <1>10, <1>11

\* approve_plan, when the goal is set to work.
LEMMA ApprovePlanIsGood ==
    ASSUME NEW g, GoodGoal(g), CanApprovePlan(g), NEW now \in Nat,
           NEW r \in ApprovePlan(g, now), r.active # 0
    PROVE  /\ GoodGoal(r) /\ Keeps(g, r) /\ r.criteria = g.criteria
           /\ r.stage = "RunningMilestone"
           /\ EffectiveCounters(r).invocations = EffectiveCounters(g).invocations
<1>1. /\ Sound(g) /\ g.stage = "AwaitingPlanApproval" /\ g.amendment = None
      /\ g.resume_to = None
      /\ \A i \in DOMAIN g.milestones : g.milestones[i].status = "Pending"
  BY DEF GoodGoal, Placed, CanApprovePlan
<1>2. g.active = 0
  BY <1>1 DEF Sound
<1> QED BY <1>1, <1>2, StartNextIsGood, ActiveFields DEF ApprovePlan

-----------------------------------------------------------------------------
(* The session, and the end of its runs *)

\* A good goal is one that GoalCheckpoint::new accepts.
LEMMA GoodIsValid ==
    ASSUME NEW g, GoodGoal(g)
    PROVE  Valid(g)
  BY DEF GoodGoal, Sound, Placed, Valid

\* configure_goal_milestone_request: a limit that the goal's budget has left.
LEMMA RequestIsInBudget ==
    ASSUME NEW g, GoodGoal(g), g.stage = "RunningMilestone"
    PROVE  /\ MilestoneRequest(g) \in Request
           /\ MilestoneRequest(g).workflow = ActiveWorkflow(g)
           /\ g.counters.invocations + MilestoneRequest(g).limit <= g.budget.invocations
<1> DEFINE w == ActiveWorkflow(g)
           left == g.budget.invocations - g.counters.invocations
           limit == IF w # None THEN w.limit
                    ELSE IF left < 1 THEN 1
                    ELSE IF left < ChildLimit THEN left ELSE ChildLimit
<1>1. g \in Goals /\ g.active # 0 /\ Sound(g)
  BY DEF GoodGoal, Sound, Placed
<1>2. w \in Child \cup {None}
  BY <1>1, ActiveFields
<1>3. g.budget.invocations \in Nat /\ g.counters.invocations \in Nat
  BY <1>1, Numbers
<1>4. /\ g.counters.invocations + 1 <= g.budget.invocations
      /\ w # None => g.counters.invocations + w.limit <= g.budget.invocations
  BY <1>1 DEF GoodGoal, InBudget, FitsBudget
<1>5. w # None => w.limit \in Nat
  BY <1>2, ChildFields
<1>6. MilestoneRequest(g) = [workflow |-> w, limit |-> limit]
  BY DEF MilestoneRequest
<1> HIDE DEF w
<1>7. limit \in Nat /\ g.counters.invocations + limit <= g.budget.invocations
  <2>1. CASE w # None
    BY <1>3, <1>4, <1>5, <2>1
  <2>2. CASE w = None
    BY <1>3, <1>4, <2>2, ChildLimitIsPositive
  <2> QED BY <2>1, <2>2
<1> HIDE DEF limit
<1>8. MilestoneRequest(g) \in Request
  BY <1>2, <1>6, <1>7 DEF Request
<1> QED BY <1>6, <1>7, <1>8 DEF w

LEMMA StatusAfterIsStatus ==
    ASSUME NEW g, g.stage \in Stages
    PROVE  /\ StatusAfter(g) \in SessionStatus \ {"Running"}
           /\ StatusAfter(g) = "Queued" => g.stage = "RunningMilestone"
  BY DEF StatusAfter, SessionStatus, Stages, TerminalStages

LEMMA SessionFields ==
    ASSUME TypeOK
    PROVE  /\ session.status \in SessionStatus /\ session.pause \in BOOLEAN
           /\ session.cancel \in BOOLEAN /\ session.request \in Request
           /\ session.request.workflow \in Child \cup {None}
           /\ session.request.limit \in Nat
<1>1. session.request \in Request
  BY DEF TypeOK
<1> QED BY <1>1 DEF TypeOK, Request

LEMMA RunFields ==
    ASSUME TypeOK, run # None
    PROVE  /\ run \in Run
           /\ run.phase \in {"Starting", "Working", "Finished", "Broken"}
           /\ run.workflow \in Child \cup {None}
  BY DEF TypeOK, Run

LEMMA EnvFields ==
    ASSUME TypeOK
    PROVE  /\ env.clock \in Nat /\ env.stops \in Nat /\ env.failures \in Nat
           /\ env.cancels \in Nat /\ env.amendments \in Nat /\ env.resumes \in Nat
           /\ env.spent \in Nat /\ env.dropped \in Nat /\ env.delivered \subseteq Criteria
  BY DEF TypeOK

\* The end of a run: what is stored is the result, and the session goes on with it.
LEMMA EndRunIsGood ==
    ASSUME GoalInv, NEW r, GoodGoal(r), EvidenceIn(r, env.delivered),
           EffectiveCounters(r).invocations = EffectiveCounters(goal).invocations,
           EndRun(r)
    PROVE  GoalInv' /\ goal' = r
<1>1. Stored(r) = r
  BY GoodIsValid DEF Stored
<1>2. /\ goal' = r /\ run' = None /\ UNCHANGED env
      /\ session' = [session EXCEPT
             !.status = StatusAfter(r), !.pause = FALSE, !.cancel = FALSE,
             !.request = IF r.stage = "RunningMilestone" THEN MilestoneRequest(r)
                         ELSE [@ EXCEPT !.workflow = None]]
  BY <1>1 DEF EndRun
<1>3. r \in Goals /\ r.stage \in Stages
  BY GoalFields DEF GoodGoal, Sound
<1>4. TypeOK
  BY DEF GoalInv
<1> DEFINE request == IF r.stage = "RunningMilestone" THEN MilestoneRequest(r)
                      ELSE [session.request EXCEPT !.workflow = None]
<1>5. request \in Request
  <2>1. [session.request EXCEPT !.workflow = None] \in Request
    BY <1>4, SessionFields DEF Request
  <2> QED BY <2>1, RequestIsInBudget
<1>6. /\ StatusAfter(r) \in SessionStatus \ {"Running"}
      /\ StatusAfter(r) = "Queued" => r.stage = "RunningMilestone"
  BY <1>3, StatusAfterIsStatus
<1>7. r.stage = "RunningMilestone" =>
          /\ request.workflow = ActiveWorkflow(r)
          /\ r.counters.invocations + request.limit <= r.budget.invocations
  BY RequestIsInBudget
<1> HIDE DEF request
<1>8. session' = [session EXCEPT !.status = StatusAfter(r), !.pause = FALSE,
                                 !.cancel = FALSE, !.request = request]
  BY <1>2 DEF request
<1>9. /\ session'.status = StatusAfter(r) /\ session'.request = request
      /\ session' \in [status : SessionStatus, pause : BOOLEAN, cancel : BOOLEAN,
                       request : Request]
  BY <1>4, <1>5, <1>6, <1>8 DEF TypeOK
<1>10. TypeOK'
  BY <1>2, <1>3, <1>4, <1>9 DEF TypeOK, Goals
<1>11. SessionServesTheGoal'
  BY <1>2, <1>6, <1>7, <1>9 DEF SessionServesTheGoal
<1>12. RunServesTheGoal'
  BY <1>2 DEF RunServesTheGoal
<1>13. UsageIsCountedOnce'
  BY <1>2 DEF GoalInv, UsageIsCountedOnce
<1>14. GoodGoal(goal)' /\ EvidenceIn(goal, env.delivered)'
  BY <1>2
<1> QED BY <1>2, <1>10, <1>11, <1>12, <1>13, <1>14 DEF GoalInv

-----------------------------------------------------------------------------
(* The steps *)

Sessions == [status : SessionStatus, pause : BOOLEAN, cancel : BOOLEAN, request : Request]

Envs ==
    [clock : Nat, stops : Nat, failures : Nat, cancels : Nat, amendments : Nat, resumes : Nat,
     spent : Nat, dropped : Nat, delivered : SUBSET Criteria]

Checkpoints ==
    /\ KeepsDelivered(goal, goal') /\ goal.active # 0
    /\ \E w \in Child :
          Continues(ActiveWorkflow(goal), w) /\ goal' = CheckpointActive(goal, w)

\* A step keeps the invariant, the delivered milestones and the workflows, but for a
\* checkpoint of the active one, and a run that has heard of a pause begins no milestone.
GoodStep ==
    /\ GoalInv'
    /\ Keeps(goal, goal') \/ Checkpoints
    /\ session.status = "Running" /\ goal.pause_requested => goal'.active \in {0, goal.active}

LEMMA Parts ==
    ASSUME GoalInv
    PROVE  /\ TypeOK /\ session \in Sessions /\ env \in Envs /\ run \in Run \cup {None}
           /\ goal \in Goals /\ Sound(goal) /\ GoodGoal(goal)
           /\ EvidenceIn(goal, env.delivered)
           /\ goal.stage # "RunningMilestone" =>
                 session.status \notin {"Queued", "Running"} /\ run = None
           /\ session.status # "Running" => run = None
           /\ EffectiveCounters(goal).invocations + env.dropped = env.spent
  BY DEF GoalInv, TypeOK, Sessions, Envs, Goals, GoodGoal, Sound, SessionServesTheGoal,
         RunServesTheGoal, UsageIsCountedOnce

LEMMA NothingChanges ==
    /\ \A g : Keeps(g, g)
    /\ \A g, h, r : Keeps(g, h) /\ Keeps(h, r) => Keeps(g, r)
    /\ \A g, r, delivered :
          EvidenceIn(g, delivered) /\ r.criteria = g.criteria => EvidenceIn(r, delivered)
  BY SameMilestonesAreKept, KeepingIsTransitive DEF EvidenceIn

\* A step after which nothing runs.
LEMMA IdleStep ==
    ASSUME GoodGoal(goal'), EvidenceIn(goal', env'.delivered), UsageIsCountedOnce',
           run' = None, session' \in Sessions, env' \in Envs, session'.status # "Running",
           session'.status = "Queued" =>
               goal'.stage = "RunningMilestone" /\ session'.request = MilestoneRequest(goal')
    PROVE  GoalInv'
<1>1. TypeOK'
  <2>1. goal' \in Goals
    BY DEF GoodGoal, Sound
  <2> QED BY <2>1 DEF TypeOK, Goals, Sessions, Envs
<1>2. SessionServesTheGoal'
  <2>1. CASE session'.status = "Queued"
    <3>1. /\ MilestoneRequest(goal').workflow = ActiveWorkflow(goal')
          /\ goal'.counters.invocations + MilestoneRequest(goal').limit
                 <= goal'.budget.invocations
      BY <2>1, RequestIsInBudget
    <3> QED BY <2>1, <3>1 DEF SessionServesTheGoal
  <2>2. CASE session'.status # "Queued"
    BY <2>2 DEF SessionServesTheGoal
  <2> QED BY <2>1, <2>2
<1>3. RunServesTheGoal'
  BY DEF RunServesTheGoal
<1>4. GoodGoal(goal)' /\ EvidenceIn(goal, env.delivered)'
  OBVIOUS
<1> QED BY <1>1, <1>2, <1>3, <1>4 DEF GoalInv

\* A step that leaves the goal where it is, and the session and its run at work.
LEMMA SteadyStep ==
    ASSUME GoalInv, GoodGoal(goal'),
           goal'.stage = goal.stage, goal'.active = goal.active,
           goal'.milestones = goal.milestones, goal'.criteria = goal.criteria,
           goal'.counters = goal.counters, goal'.budget = goal.budget,
           session' \in Sessions, session'.status = session.status,
           session'.request = session.request,
           \/ run' = run
           \/ run # None /\ run' = [run EXCEPT !.phase = "Broken"],
           env' \in Envs, env'.delivered = env.delivered, env'.spent = env.spent,
           env'.dropped = env.dropped
    PROVE  GoalInv' /\ Keeps(goal, goal')
<1>1. /\ session \in Sessions /\ goal \in Goals /\ run \in Run \cup {None}
      /\ EvidenceIn(goal, env.delivered)
      /\ EffectiveCounters(goal).invocations + env.dropped = env.spent
  BY Parts
<1>2. /\ ActiveWorkflow(goal') = ActiveWorkflow(goal)
      /\ EffectiveCounters(goal') = EffectiveCounters(goal)
  BY DEF ActiveWorkflow, EffectiveCounters
<1>3. /\ run' \in Run \cup {None}
      /\ run' # None => /\ run # None /\ run'.workflow = run.workflow
                        /\ run'.phase \in {run.phase, "Broken"}
  <2>1. CASE run' = run
    BY <1>1, <2>1
  <2>2. CASE run # None /\ run' = [run EXCEPT !.phase = "Broken"]
    BY <1>1, <2>2 DEF Run
  <2> QED BY <2>1, <2>2
<1>4. TypeOK'
  <2>1. goal' \in Goals
    BY DEF GoodGoal, Sound
  <2> QED BY <1>3, <2>1 DEF TypeOK, Goals, Sessions, Envs
<1>5. SessionServesTheGoal'
  BY <1>2 DEF SessionServesTheGoal, GoalInv
<1>6. RunServesTheGoal'
  BY <1>2, <1>3 DEF RunServesTheGoal, GoalInv
<1>7. UsageIsCountedOnce'
  BY <1>1, <1>2 DEF UsageIsCountedOnce
<1>8. EvidenceIn(goal', env'.delivered)
  BY <1>1, NothingChanges
<1>9. Keeps(goal, goal')
  BY SameMilestonesAreKept
<1> QED BY <1>4, <1>5, <1>6, <1>7, <1>8, <1>9 DEF GoalInv


LEMMA ReviseGoalDraftIsGood ==
    ASSUME GoalInv, ReviseGoalDraft
    PROVE  GoodStep
<1>1. /\ GoodGoal(goal) /\ session \in Sessions /\ env \in Envs
      /\ goal.stage # "RunningMilestone" =>
            session.status \notin {"Queued", "Running"} /\ run = None
      /\ EffectiveCounters(goal).invocations + env.dropped = env.spent
  BY Parts
<1>2. CanApprovePlan(goal) /\ UNCHANGED <<session, run, env>>
  BY DEF ReviseGoalDraft
<1>3. PICK plan \in GoalPlans, budget \in Budgets, automatic \in BOOLEAN :
          CanStart(plan, budget) /\ goal' = RevisePlan(goal, plan, budget, automatic)
  BY DEF ReviseGoalDraft
<1>4. session.status \notin {"Queued", "Running"} /\ run = None
  BY <1>1, <1>2 DEF CanApprovePlan
<1>5. /\ GoodGoal(goal') /\ EvidenceIn(goal', env'.delivered) /\ Keeps(goal, goal')
      /\ goal'.active = 0 /\ EffectiveCounters(goal') = EffectiveCounters(goal)
  BY <1>1, <1>2, <1>3, RevisePlanIsGood
<1>6. UsageIsCountedOnce'
  BY <1>1, <1>2, <1>5 DEF UsageIsCountedOnce
<1>7. GoalInv'
  BY <1>1, <1>2, <1>4, <1>5, <1>6, IdleStep
<1> QED BY <1>4, <1>5, <1>7 DEF GoodStep

\* A session that is queued for the milestone of its goal.
LEMMA DispatchIsGood ==
    ASSUME GoalInv, GoodGoal(goal'), goal'.stage = "RunningMilestone", Keeps(goal, goal'),
           EvidenceIn(goal', env.delivered), goal.stage # "RunningMilestone",
           UsageIsCountedOnce', NEW pause \in BOOLEAN,
           session' = [session EXCEPT !.status = "Queued", !.pause = pause,
                                      !.request = MilestoneRequest(goal')],
           run' = run, env' \in Envs, env'.delivered = env.delivered
    PROVE  GoodStep
<1>1. /\ session \in Sessions
      /\ goal.stage # "RunningMilestone" =>
            session.status \notin {"Queued", "Running"} /\ run = None
  BY Parts
<1>2. MilestoneRequest(goal') \in Request
  BY RequestIsInBudget
<1>3. /\ session' \in Sessions /\ session'.status = "Queued"
      /\ session'.request = MilestoneRequest(goal')
  BY <1>1, <1>2 DEF Sessions, SessionStatus
<1>4. GoalInv'
  BY <1>1, <1>3, IdleStep
<1> QED BY <1>1, <1>4 DEF GoodStep

LEMMA ApproveGoalPlanIsGood ==
    ASSUME GoalInv, ApproveGoalPlan
    PROVE  GoodStep
<1>1. /\ GoodGoal(goal) /\ session \in Sessions /\ env \in Envs
      /\ EvidenceIn(goal, env.delivered)
      /\ EffectiveCounters(goal).invocations + env.dropped = env.spent
  BY Parts
<1>2. CanApprovePlan(goal) /\ UNCHANGED <<run, env>>
  BY DEF ApproveGoalPlan
<1>3. PICK g \in ApprovePlan(goal, env.clock) :
          /\ Dispatches(g)
          /\ session' = [session EXCEPT !.status = "Queued", !.request = MilestoneRequest(g)]
  BY DEF ApproveGoalPlan
<1>4. goal' = g /\ g.active # 0
  BY <1>3 DEF Dispatches
<1>5. env.clock \in Nat
  BY <1>1 DEF Envs
<1>6. /\ GoodGoal(goal') /\ Keeps(goal, goal') /\ goal'.criteria = goal.criteria
      /\ goal'.stage = "RunningMilestone"
      /\ EffectiveCounters(goal').invocations = EffectiveCounters(goal).invocations
  BY <1>1, <1>2, <1>3, <1>4, <1>5, ApprovePlanIsGood
<1>7. EvidenceIn(goal', env.delivered)
  BY <1>1, <1>6, NothingChanges
<1>8. UsageIsCountedOnce'
  BY <1>1, <1>2, <1>6 DEF UsageIsCountedOnce
<1>9. /\ session.pause \in BOOLEAN
      /\ session' = [session EXCEPT !.status = "Queued", !.pause = session.pause,
                                    !.request = MilestoneRequest(goal')]
  BY <1>1, <1>3, <1>4 DEF Sessions
<1>10. goal.stage # "RunningMilestone"
  BY <1>2 DEF CanApprovePlan
<1> QED BY <1>1, <1>2, <1>6, <1>7, <1>8, <1>9, <1>10, DispatchIsGood

LEMMA ResumeGoalIsGood ==
    ASSUME GoalInv, ResumeGoal
    PROVE  GoodStep
<1>1. /\ GoodGoal(goal) /\ session \in Sessions /\ env \in Envs
      /\ EvidenceIn(goal, env.delivered)
      /\ EffectiveCounters(goal).invocations + env.dropped = env.spent
  BY Parts
<1>2. CanResume(goal, env.clock) /\ UNCHANGED <<run, env>>
  BY DEF ResumeGoal
<1>3. PICK g \in Resume(goal, env.clock) :
          /\ Dispatches(g)
          /\ session' = [session EXCEPT !.status = "Queued", !.pause = FALSE,
                                        !.request = MilestoneRequest(g)]
  BY DEF ResumeGoal
<1>4. goal' = g /\ g.active # 0
  BY <1>3 DEF Dispatches
<1>5. env.clock \in Nat
  BY <1>1 DEF Envs
<1>6. /\ GoodGoal(goal') /\ Keeps(goal, goal') /\ goal'.criteria = goal.criteria
      /\ goal'.stage = "RunningMilestone"
      /\ EffectiveCounters(goal').invocations = EffectiveCounters(goal).invocations
  BY <1>1, <1>2, <1>3, <1>4, <1>5, ResumeIsGood
<1>7. EvidenceIn(goal', env.delivered)
  BY <1>1, <1>6, NothingChanges
<1>8. UsageIsCountedOnce'
  BY <1>1, <1>2, <1>6 DEF UsageIsCountedOnce
<1>9. goal.stage # "RunningMilestone"
  BY <1>2 DEF CanResume
<1> DEFINE pause == FALSE
<1>10. /\ pause \in BOOLEAN
       /\ session' = [session EXCEPT !.status = "Queued", !.pause = pause,
                                     !.request = MilestoneRequest(goal')]
  BY <1>3, <1>4
<1> HIDE DEF pause
<1> QED BY <1>1, <1>2, <1>6, <1>7, <1>8, <1>9, <1>10, DispatchIsGood

LEMMA ApproveGoalAmendmentIsGood ==
    ASSUME GoalInv, ApproveGoalAmendment
    PROVE  GoodStep
<1>1. /\ GoodGoal(goal) /\ session \in Sessions /\ env \in Envs /\ Sound(goal)
      /\ EvidenceIn(goal, env.delivered)
      /\ EffectiveCounters(goal).invocations + env.dropped = env.spent
  BY Parts
<1>2. /\ goal.stage \notin TerminalStages /\ goal.amendment # None
      /\ env' = [env EXCEPT !.dropped = @ + Used(ActiveWorkflow(goal))] /\ run' = run
  BY DEF ApproveGoalAmendment, Active
<1>3. PICK g \in ApproveAmendment(goal, env.clock) :
          /\ Dispatches(g)
          /\ session' = [session EXCEPT !.status = "Queued", !.request = MilestoneRequest(g)]
  BY DEF ApproveGoalAmendment
<1>4. goal' = g /\ g.active # 0 /\ Valid(g)
  BY <1>3 DEF Dispatches
<1>5. env.clock \in Nat
  BY <1>1 DEF Envs
<1>6. /\ GoodGoal(goal') /\ Keeps(goal, goal') /\ EvidenceIn(goal', env.delivered)
      /\ goal'.stage = "RunningMilestone"
      /\ EffectiveCounters(goal').invocations = goal.counters.invocations
  BY <1>1, <1>2, <1>3, <1>4, <1>5, ApproveAmendmentIsGood
<1> DEFINE used == Used(ActiveWorkflow(goal))
<1>7. /\ used \in Nat /\ goal.counters.invocations \in Nat
      /\ EffectiveCounters(goal).invocations = goal.counters.invocations + used
  <2>1. /\ used \in Nat
        /\ EffectiveCounters(goal).invocations
               = goal.counters.invocations + (IF goal.active = 0 THEN 0 ELSE used)
    BY <1>1, ActiveFields
  <2>2. goal.active = 0 => used = 0
    BY DEF ActiveWorkflow, Used
  <2>3. goal.counters.invocations \in Nat
    BY <1>1, Numbers DEF Sound
  <2> HIDE DEF used
  <2> QED BY <2>1, <2>2, <2>3
<1> HIDE DEF used
<1>8. /\ env' \in Envs /\ env'.dropped = env.dropped + used /\ env'.spent = env.spent
      /\ env'.delivered = env.delivered /\ env.dropped \in Nat
  <2>1. env' = [env EXCEPT !.dropped = env.dropped + used]
    BY <1>2 DEF used
  <2> QED BY <1>1, <1>7, <2>1 DEF Envs
<1>9. UsageIsCountedOnce'
  BY <1>1, <1>6, <1>7, <1>8 DEF UsageIsCountedOnce
<1>10. /\ session.pause \in BOOLEAN
       /\ session' = [session EXCEPT !.status = "Queued", !.pause = session.pause,
                                     !.request = MilestoneRequest(goal')]
  BY <1>1, <1>3, <1>4 DEF Sessions
<1>11. goal.stage # "RunningMilestone"
  BY <1>1, <1>2 DEF GoodGoal, Placed, TerminalStages
<1> QED BY <1>2, <1>6, <1>8, <1>9, <1>10, <1>11, DispatchIsGood

LEMMA RequestsPauseIsGood ==
    ASSUME GoalInv, RequestsPause
    PROVE  GoodStep
<1>1. /\ GoodGoal(goal) /\ session \in Sessions /\ env \in Envs /\ goal \in Goals
      /\ EvidenceIn(goal, env.delivered)
      /\ goal.stage # "RunningMilestone" =>
            session.status \notin {"Queued", "Running"} /\ run = None
      /\ EffectiveCounters(goal).invocations + env.dropped = env.spent
  BY Parts
<1>2. /\ CanRequestPause(goal) /\ goal' = RequestPause(goal) /\ UNCHANGED <<run, env>>
      /\ session' = [session EXCEPT
             !.pause = TRUE,
             !.status = IF goal.stage \in RestingStages THEN "Paused" ELSE session.status]
  BY DEF RequestsPause
<1>3. /\ GoodGoal(goal') /\ Keeps(goal, goal') /\ goal'.criteria = goal.criteria
      /\ goal'.stage = goal.stage /\ goal'.active = goal.active
      /\ goal'.milestones = goal.milestones
      /\ goal'.counters = goal.counters /\ goal'.budget = goal.budget
      /\ EffectiveCounters(goal') = EffectiveCounters(goal)
  BY <1>1, <1>2, PauseRequestIsGood
<1>4. CASE goal.stage \in RestingStages
  <2>1. session' \in Sessions /\ session'.status = "Paused"
    BY <1>1, <1>2, <1>4 DEF Sessions, SessionStatus
  <2>2. run' = None
    BY <1>1, <1>2, <1>4 DEF RestingStages
  <2>3. EvidenceIn(goal', env'.delivered) /\ UsageIsCountedOnce'
    BY <1>1, <1>2, <1>3, NothingChanges DEF UsageIsCountedOnce
  <2>4. GoalInv'
    BY <1>1, <1>2, <1>3, <2>1, <2>2, <2>3, IdleStep
  <2> QED BY <1>3, <2>4 DEF GoodStep
<1>5. CASE goal.stage \notin RestingStages
  <2>1. session' = [session EXCEPT !.pause = TRUE, !.status = session.status]
    BY <1>2, <1>5
  <2>2. /\ session' \in Sessions /\ session'.status = session.status
        /\ session'.request = session.request
    BY <1>1, <2>1 DEF Sessions
  <2>3. GoalInv' /\ Keeps(goal, goal')
    BY <1>1, <1>2, <1>3, <2>2, SteadyStep
  <2> QED BY <1>3, <2>3 DEF GoodStep
<1> QED BY <1>4, <1>5

\* A step of the session or its environment alone.
LEMMA SessionStep ==
    ASSUME GoalInv, goal' = goal,
           session' \in Sessions, session'.status = session.status,
           session'.request = session.request,
           \/ run' = run
           \/ run # None /\ run' = [run EXCEPT !.phase = "Broken"],
           env' \in Envs, env'.delivered = env.delivered, env'.spent = env.spent,
           env'.dropped = env.dropped
    PROVE  GoodStep
  BY Parts, SteadyStep DEF GoodStep

LEMMA CancelRunningGoalIsGood ==
    ASSUME GoalInv, CancelRunningGoal
    PROVE  GoodStep
<1>1. session \in Sessions /\ env \in Envs
  BY Parts
<1>2. /\ session' = [session EXCEPT !.pause = FALSE, !.cancel = TRUE]
      /\ UNCHANGED <<goal, run, env>>
  BY DEF CancelRunningGoal
<1>3. /\ session' \in Sessions /\ session'.status = session.status
      /\ session'.request = session.request
  BY <1>1, <1>2 DEF Sessions
<1> QED BY <1>1, <1>2, <1>3, SessionStep

LEMMA TimePassesIsGood ==
    ASSUME GoalInv, TimePasses
    PROVE  GoodStep
<1>1. session \in Sessions /\ env \in Envs
  BY Parts
<1>2. env' = [env EXCEPT !.clock = @ + 1] /\ UNCHANGED <<goal, session, run>>
  BY DEF TimePasses
<1>3. /\ env' \in Envs /\ env'.delivered = env.delivered /\ env'.spent = env.spent
      /\ env'.dropped = env.dropped
  BY <1>1, <1>2 DEF Envs
<1> QED BY <1>1, <1>2, <1>3, SessionStep

LEMMA RunnerFailsIsGood ==
    ASSUME GoalInv, RunnerFails
    PROVE  GoodStep
<1>1. session \in Sessions /\ env \in Envs
  BY Parts
<1>2. /\ run # None /\ run' = [run EXCEPT !.phase = "Broken"]
      /\ env' = [env EXCEPT !.failures = @ + 1] /\ UNCHANGED <<goal, session>>
  BY DEF RunnerFails
<1>3. /\ env' \in Envs /\ env'.delivered = env.delivered /\ env'.spent = env.spent
      /\ env'.dropped = env.dropped
  BY <1>1, <1>2 DEF Envs
<1> QED BY <1>1, <1>2, <1>3, SessionStep

\* The end of a goal that does not run, or its rest.
LEMMA RestIsGood ==
    ASSUME GoalInv, run = None, GoodGoal(goal'), Keeps(goal, goal'),
           EvidenceIn(goal', env.delivered),
           EffectiveCounters(goal').invocations = EffectiveCounters(goal).invocations,
           goal'.active \in {0, goal.active} \/ session.status # "Running",
           NEW status \in {"Paused", "Completed"},
           session' = [session EXCEPT !.status = status], run' = run,
           env' \in Envs, env'.delivered = env.delivered, env'.spent = env.spent,
           env'.dropped = env.dropped
    PROVE  GoodStep
<1>1. /\ session \in Sessions
      /\ EffectiveCounters(goal).invocations + env.dropped = env.spent
  BY Parts
<1>2. session' \in Sessions /\ session'.status = status
  BY <1>1 DEF Sessions, SessionStatus
<1>3. UsageIsCountedOnce'
  BY <1>1 DEF UsageIsCountedOnce
<1>4. GoalInv'
  BY <1>2, <1>3, IdleStep
<1> QED BY <1>4 DEF GoodStep

LEMMA CancelGoalIsGood ==
    ASSUME GoalInv, CancelGoal
    PROVE  GoodStep
<1>1. /\ Sound(goal) /\ env \in Envs /\ EvidenceIn(goal, env.delivered)
      /\ session.status # "Running" => run = None
  BY Parts
<1>2. /\ session.status # "Running" /\ goal' = Cancel(goal)
      /\ session' = [session EXCEPT !.status = "Completed"] /\ UNCHANGED <<run, env>>
  BY DEF CancelGoal
<1>3. /\ GoodGoal(goal') /\ Keeps(goal, goal') /\ goal'.active = 0
      /\ goal'.criteria = goal.criteria
      /\ EffectiveCounters(goal') = EffectiveCounters(goal)
  BY <1>1, <1>2, CancelIsGood
<1>4. EvidenceIn(goal', env.delivered)
  BY <1>1, <1>3, NothingChanges
<1> QED BY <1>1, <1>2, <1>3, <1>4, RestIsGood

LEMMA AcceptGoalIsGood ==
    ASSUME GoalInv, AcceptGoal
    PROVE  GoodStep
<1>1. /\ GoodGoal(goal) /\ env \in Envs /\ EvidenceIn(goal, env.delivered)
      /\ goal.stage # "RunningMilestone" =>
            session.status \notin {"Queued", "Running"} /\ run = None
  BY Parts
<1>2. /\ CanAccept(goal) /\ goal' = Accept(goal)
      /\ session' = [session EXCEPT !.status = "Completed"] /\ UNCHANGED <<run, env>>
  BY DEF AcceptGoal
<1>3. /\ GoodGoal(goal') /\ Keeps(goal, goal') /\ EvidenceIn(goal', env.delivered)
      /\ EffectiveCounters(goal') = EffectiveCounters(goal)
  BY <1>1, <1>2, AcceptIsGood
<1>4. session.status # "Running" /\ run = None
  BY <1>1, <1>2 DEF CanAccept
<1> QED BY <1>1, <1>2, <1>3, <1>4, RestIsGood

LEMMA AmendGoalIsGood ==
    ASSUME GoalInv, AmendGoal
    PROVE  GoodStep
<1>1. /\ GoodGoal(goal) /\ env \in Envs /\ EvidenceIn(goal, env.delivered)
      /\ goal.stage # "RunningMilestone" =>
            session.status \notin {"Queued", "Running"} /\ run = None
  BY Parts
<1>2. /\ session' = [session EXCEPT !.status = "Paused"] /\ run' = run
      /\ env' = [env EXCEPT !.amendments = @ + 1]
  BY DEF AmendGoal
<1>3. PICK plan \in GoalPlans, budget \in Budgets, automatic \in BOOLEAN :
          /\ CanPropose(goal, plan, budget)
          /\ goal' = Propose(goal, plan, budget, automatic)
  BY DEF AmendGoal
<1>4. /\ GoodGoal(goal') /\ Keeps(goal, goal') /\ goal'.criteria = goal.criteria
      /\ EffectiveCounters(goal') = EffectiveCounters(goal)
  BY <1>1, <1>3, ProposeIsGood
<1>5. session.status # "Running" /\ run = None
  BY <1>1, <1>3 DEF CanPropose
<1>6. EvidenceIn(goal', env.delivered)
  BY <1>1, <1>4, NothingChanges
<1>7. /\ env' \in Envs /\ env'.delivered = env.delivered /\ env'.spent = env.spent
      /\ env'.dropped = env.dropped
  BY <1>1, <1>2 DEF Envs
<1> QED BY <1>2, <1>4, <1>5, <1>6, <1>7, RestIsGood

LEMMA DiscardGoalAmendmentIsGood ==
    ASSUME GoalInv, DiscardGoalAmendment
    PROVE  GoodStep
<1>1. /\ GoodGoal(goal) /\ env \in Envs /\ EvidenceIn(goal, env.delivered)
      /\ goal.stage # "RunningMilestone" =>
            session.status \notin {"Queued", "Running"} /\ run = None
  BY Parts
<1>2. /\ goal.stage \notin TerminalStages /\ goal.amendment # None
      /\ goal' = DiscardAmendment(goal)
      /\ session' = [session EXCEPT !.status = "Paused"] /\ UNCHANGED <<run, env>>
  BY DEF DiscardGoalAmendment, Active
<1>3. /\ GoodGoal(goal') /\ Keeps(goal, goal') /\ goal'.criteria = goal.criteria
      /\ EffectiveCounters(goal') = EffectiveCounters(goal)
  BY <1>1, <1>2, DiscardIsGood
<1>4. session.status # "Running" /\ run = None
  BY <1>1, <1>2 DEF GoodGoal, Placed, TerminalStages
<1>5. EvidenceIn(goal', env.delivered)
  BY <1>1, <1>3, NothingChanges
<1> QED BY <1>1, <1>2, <1>3, <1>4, <1>5, RestIsGood

LEMMA CancelSessionIsGood ==
    ASSUME GoalInv, CancelSession
    PROVE  GoodStep
<1>1. /\ GoodGoal(goal) /\ session \in Sessions /\ env \in Envs
      /\ EvidenceIn(goal, env.delivered)
      /\ session.status # "Running" => run = None
      /\ EffectiveCounters(goal).invocations + env.dropped = env.spent
  BY Parts
<1>2. /\ session' = [session EXCEPT
             !.cancel = TRUE,
             !.status = IF @ = "Running" THEN @ ELSE "Completed",
             !.request.workflow = IF session.status = "Running" THEN @ ELSE None]
      /\ env' = [env EXCEPT !.cancels = @ + 1] /\ UNCHANGED <<goal, run>>
  BY DEF CancelSession
<1>3. /\ env' \in Envs /\ env'.delivered = env.delivered /\ env'.spent = env.spent
      /\ env'.dropped = env.dropped
  BY <1>1, <1>2 DEF Envs
<1>4. session.request \in Request
  BY <1>1 DEF Sessions
<1>5. CASE session.status = "Running"
  <2>1. session' = [session EXCEPT !.cancel = TRUE, !.status = session.status,
                                   !.request.workflow = session.request.workflow]
    BY <1>2, <1>5
  <2>2. [session.request EXCEPT !.workflow = session.request.workflow] = session.request
    BY <1>4 DEF Request
  <2>3. /\ session' \in Sessions /\ session'.status = session.status
        /\ session'.request = session.request
    BY <1>1, <1>4, <2>1, <2>2 DEF Sessions
  <2> QED BY <1>2, <1>3, <2>3, SessionStep
<1>6. CASE session.status # "Running"
  <2>1. session' = [session EXCEPT !.cancel = TRUE, !.status = "Completed",
                                   !.request.workflow = None]
    BY <1>2, <1>6
  <2>2. [session.request EXCEPT !.workflow = None] \in Request
    BY <1>4 DEF Request
  <2>3. session' \in Sessions /\ session'.status = "Completed"
    BY <1>1, <2>1, <2>2 DEF Sessions, SessionStatus
  <2>4. UsageIsCountedOnce'
    BY <1>1, <1>2, <1>3 DEF UsageIsCountedOnce
  <2>5. GoalInv'
    BY <1>1, <1>2, <1>3, <1>6, <2>3, <2>4, IdleStep
  <2> QED BY <1>2, <2>5, NothingChanges DEF GoodStep
<1> QED BY <1>5, <1>6

LEMMA DaemonRestartIsGood ==
    ASSUME GoalInv, DaemonRestart
    PROVE  GoodStep
<1>1. /\ GoodGoal(goal) /\ session \in Sessions /\ env \in Envs
      /\ EvidenceIn(goal, env.delivered)
      /\ EffectiveCounters(goal).invocations + env.dropped = env.spent
  BY Parts
<1>2. /\ goal' = IF goal.stage = "RunningMilestone" THEN PauseAtBoundary(goal) ELSE goal
      /\ session' = [session EXCEPT
             !.status = IF @ \in {"Running", "Queued"} THEN "Paused" ELSE @,
             !.pause = FALSE, !.cancel = FALSE, !.request.workflow = None]
      /\ run' = None
      /\ env' = [env EXCEPT !.stops = @ + 1]
  BY DEF DaemonRestart
<1>3. /\ env' \in Envs /\ env'.delivered = env.delivered /\ env'.spent = env.spent
      /\ env'.dropped = env.dropped
  BY <1>1, <1>2 DEF Envs
<1>4. /\ GoodGoal(goal') /\ Keeps(goal, goal') /\ goal'.criteria = goal.criteria
      /\ goal'.active = goal.active /\ EffectiveCounters(goal') = EffectiveCounters(goal)
  <2>1. CASE goal.stage = "RunningMilestone"
    BY <1>1, <1>2, <2>1, PausingIsGood
  <2>2. CASE goal.stage # "RunningMilestone"
    BY <1>1, <1>2, <2>2, NothingChanges
  <2> QED BY <2>1, <2>2
<1> DEFINE status == IF session.status \in {"Running", "Queued"} THEN "Paused" ELSE session.status
           request == [session.request EXCEPT !.workflow = None]
<1>5. status \in SessionStatus \ {"Running", "Queued"} /\ request \in Request
  <2>1. session.request \in Request /\ session.status \in SessionStatus
    BY <1>1 DEF Sessions
  <2> QED BY <2>1 DEF Request, SessionStatus
<1>6. session' = [session EXCEPT !.status = status, !.pause = FALSE, !.cancel = FALSE,
                                 !.request = request]
  BY <1>2
<1> HIDE DEF status, request
<1>7. session' \in Sessions /\ session'.status = status
  BY <1>1, <1>5, <1>6 DEF Sessions
<1>8. EvidenceIn(goal', env'.delivered) /\ UsageIsCountedOnce'
  BY <1>1, <1>3, <1>4, NothingChanges DEF UsageIsCountedOnce
<1>9. GoalInv'
  BY <1>2, <1>3, <1>4, <1>5, <1>7, <1>8, IdleStep
<1> QED BY <1>4, <1>9 DEF GoodStep

LEMMA ClaimIsGood ==
    ASSUME GoalInv, Claim
    PROVE  GoodStep
<1>1. /\ GoodGoal(goal) /\ Sound(goal) /\ session \in Sessions /\ TypeOK
      /\ EvidenceIn(goal, env.delivered) /\ SessionServesTheGoal
  BY Parts DEF GoalInv
<1>2. /\ session.status = "Queued" /\ session' = [session EXCEPT !.status = "Running"]
      /\ run' = [phase |-> "Starting", workflow |-> session.request.workflow]
      /\ UNCHANGED <<goal, env>>
  BY DEF Claim
<1>3. session.request.workflow = ActiveWorkflow(goal)
  BY <1>1, <1>2 DEF SessionServesTheGoal
<1>4. ActiveWorkflow(goal) \in Child \cup {None}
  BY <1>1, ActiveFields
<1>5. /\ session' \in Sessions /\ session'.status = "Running"
      /\ session'.request = session.request
  BY <1>1, <1>2 DEF Sessions, SessionStatus
<1>6. run' \in Run /\ run'.phase = "Starting" /\ run'.workflow = ActiveWorkflow(goal)
  BY <1>2, <1>3, <1>4 DEF Run
<1>7. TypeOK'
  BY <1>1, <1>2, <1>5, <1>6 DEF TypeOK, Sessions
<1>8. SessionServesTheGoal'
  BY <1>1, <1>2, <1>5 DEF SessionServesTheGoal
<1>9. ActiveWorkflow(goal)' = ActiveWorkflow(goal)
  BY <1>2 DEF ActiveWorkflow
<1>10. RunServesTheGoal'
  BY <1>5, <1>6, <1>9 DEF RunServesTheGoal
<1>11. GoalInv'
  BY <1>2, <1>7, <1>8, <1>10 DEF GoalInv, GoodGoal, UsageIsCountedOnce
<1> QED BY <1>2, <1>11, NothingChanges DEF GoodStep

-----------------------------------------------------------------------------
(* The driver's steps *)

\* While a driver runs, its goal is at work on the active milestone.
LEMMA AtWork ==
    ASSUME GoalInv, run # None
    PROVE  /\ session.status = "Running" /\ goal.stage = "RunningMilestone"
           /\ goal.active # 0 /\ run.workflow = ActiveWorkflow(goal)
           /\ run.workflow \in Child \cup {None}
           /\ run.workflow # None => run.workflow \in Child /\ FitsBudget(goal, run.workflow)
           /\ goal.counters.invocations + session.request.limit <= goal.budget.invocations
           /\ goal.counters.invocations \in Nat
           /\ EffectiveCounters(goal).invocations
                  = goal.counters.invocations + Used(run.workflow)
<1>1. /\ session.status = "Running" /\ run.workflow = ActiveWorkflow(goal)
      /\ GoodGoal(goal) /\ Sound(goal) /\ goal \in Goals /\ TypeOK
  BY Parts DEF GoalInv, RunServesTheGoal
<1>2. /\ goal.stage = "RunningMilestone"
      /\ goal.counters.invocations + session.request.limit <= goal.budget.invocations
  BY <1>1 DEF GoalInv, SessionServesTheGoal
<1>3. goal.active # 0
  BY <1>1, <1>2 DEF GoodGoal, Placed
<1>4. run.workflow \in Child \cup {None}
  BY <1>1, RunFields
<1>5. run.workflow # None => FitsBudget(goal, run.workflow)
  BY <1>1, <1>3 DEF GoodGoal, InBudget
<1>6. goal.counters.invocations \in Nat
  BY <1>1, Numbers
<1> QED BY <1>1, <1>2, <1>3, <1>4, <1>5, <1>6, ActiveFields

\* checkpoint_workflow: the goal stores the workflow of its driver, with the charges
\* it has made since.
LEMMA CheckpointStep ==
    ASSUME GoalInv, run # None, NEW w \in Child, FitsBudget(goal, w),
           NEW phase \in {"Working", "Finished"}, phase = "Working" => w.state = "Working",
           Continues(run.workflow, w),
           Checkpointed(phase, w), session' = session, env' \in Envs,
           env'.dropped = env.dropped,
           env'.spent + Used(run.workflow) = env.spent + w.used,
           EvidenceIn(goal, env'.delivered),
           phase = "Finished" /\ w.state = "Ready" =>
               goal.criteria[goal.milestones[goal.active].criterion].text \in env'.delivered
    PROVE  GoodStep
<1>1. /\ session.status = "Running" /\ goal.stage = "RunningMilestone"
      /\ goal.active # 0 /\ run.workflow \in Child \cup {None}
      /\ run.workflow = ActiveWorkflow(goal)
      /\ EffectiveCounters(goal).invocations
             = goal.counters.invocations + Used(run.workflow)
      /\ goal.counters.invocations \in Nat
  BY AtWork
<1>2. /\ GoodGoal(goal) /\ session \in Sessions /\ TypeOK /\ SessionServesTheGoal
      /\ EffectiveCounters(goal).invocations + env.dropped = env.spent
  BY Parts DEF GoalInv
<1>3. run' = [phase |-> phase, workflow |-> w] /\ goal' = CheckpointActive(goal, w)
  BY <1>1 DEF Checkpointed
<1>4. /\ GoodGoal(goal') /\ KeepsDelivered(goal, goal') /\ ActiveWorkflow(goal') = w
      /\ goal'.stage = "RunningMilestone" /\ goal'.active = goal.active
      /\ goal'.criteria = goal.criteria /\ goal'.counters = goal.counters
      /\ goal'.milestones[goal.active].criterion = goal.milestones[goal.active].criterion
      /\ goal'.budget = goal.budget
      /\ EffectiveCounters(goal').invocations = goal.counters.invocations + w.used
  BY <1>1, <1>2, <1>3, CheckpointIsGood
<1>5. w # None /\ w.used \in Nat
  BY ChildFields
<1>6. /\ run' \in Run /\ run'.phase = phase /\ run'.workflow = w
  BY <1>3 DEF Run
<1>7. TypeOK'
  <2>1. goal' \in Goals
    BY <1>4 DEF GoodGoal, Sound
  <2> QED BY <1>2, <1>6, <2>1 DEF TypeOK, Goals, Sessions, Envs
<1>8. SessionServesTheGoal'
  BY <1>1, <1>2, <1>4 DEF SessionServesTheGoal
<1>9. RunServesTheGoal'
  BY <1>1, <1>4, <1>5, <1>6 DEF RunServesTheGoal
<1>10. UsageIsCountedOnce'
  <2>1. /\ env.spent \in Nat /\ env.dropped \in Nat /\ env'.spent \in Nat
        /\ Used(run.workflow) \in Nat
    BY <1>1, <1>2, EnvFields, ChildFields DEF Envs, Used
  <2> QED BY <1>1, <1>2, <1>4, <1>5, <2>1 DEF UsageIsCountedOnce
<1>11. EvidenceIn(goal', env'.delivered)
  BY <1>4, NothingChanges
<1>12. GoalInv'
  BY <1>4, <1>7, <1>8, <1>9, <1>10, <1>11 DEF GoalInv
<1>13. Checkpoints
  BY <1>1, <1>3, <1>4 DEF Checkpoints
<1> QED BY <1>4, <1>12, <1>13 DEF GoodStep

LEMMA BeginsWorkflowIsGood ==
    ASSUME GoalInv, BeginsWorkflow
    PROVE  GoodStep
<1> DEFINE w == [state |-> "Working", used |-> 0, limit |-> session.request.limit]
           phase == "Working"
<1>1. /\ run # None /\ run.workflow = None /\ Checkpointed(phase, w)
      /\ session' = session /\ env' = env
  BY DEF BeginsWorkflow
<1>2. /\ session.request.limit \in Nat /\ env \in Envs /\ env.spent \in Nat
      /\ EvidenceIn(goal, env.delivered)
  BY Parts, SessionFields, EnvFields
<1>3. /\ goal.counters.invocations + session.request.limit <= goal.budget.invocations
  BY <1>1, AtWork
<1>4. /\ w \in Child /\ w.state = "Working" /\ w.used = 0 /\ w.limit = session.request.limit
  BY <1>2 DEF Child, ChildStates
<1>5. phase \in {"Working", "Finished"} /\ phase # "Finished"
  OBVIOUS
<1> HIDE DEF w, phase
<1>6. FitsBudget(goal, w)
  BY <1>2, <1>3, <1>4 DEF FitsBudget
<1>7. env'.spent + Used(run.workflow) = env.spent + w.used
  BY <1>1, <1>2, <1>4 DEF Used
<1>8. Continues(run.workflow, w)
  BY <1>1, <1>4 DEF Continues
<1> QED BY <1>1, <1>2, <1>4, <1>5, <1>6, <1>7, <1>8, CheckpointStep

LEMMA ResumesWorkflowIsGood ==
    ASSUME GoalInv, ResumesWorkflow
    PROVE  GoodStep
<1> DEFINE w == [run.workflow EXCEPT !.state = "Working"]
           phase == "Working"
<1>1. /\ run # None /\ run.workflow # None /\ Checkpointed(phase, w)
      /\ run.workflow.state \in {"Working", "Blocked"}
      /\ session' = session /\ env' = env
  BY DEF ResumesWorkflow
<1>2. env \in Envs /\ EvidenceIn(goal, env.delivered)
  BY Parts
<1>3. run.workflow \in Child /\ FitsBudget(goal, run.workflow)
  BY <1>1, AtWork
<1>4. /\ w \in Child /\ w.state = "Working" /\ w.used = run.workflow.used
      /\ w.limit = run.workflow.limit
  BY <1>3 DEF Child, ChildStates
<1>5. phase \in {"Working", "Finished"} /\ phase # "Finished"
  OBVIOUS
<1> HIDE DEF w, phase
<1>6. FitsBudget(goal, w)
  BY <1>1, <1>3, <1>4 DEF FitsBudget
<1>7. env'.spent + Used(run.workflow) = env.spent + w.used
  BY <1>1, <1>4 DEF Used
<1>8. Continues(run.workflow, w)
  BY <1>1, <1>3, <1>4, ChildFields DEF Continues
<1> QED BY <1>1, <1>2, <1>4, <1>5, <1>6, <1>7, <1>8, CheckpointStep

LEMMA RefusesWorkflowIsGood ==
    ASSUME GoalInv, RefusesWorkflow
    PROVE  GoodStep
<1>1. /\ run # None /\ run' = [run EXCEPT !.phase = "Broken"]
      /\ UNCHANGED <<goal, session, env>>
  BY DEF RefusesWorkflow
<1>2. session \in Sessions /\ env \in Envs
  BY Parts
<1> QED BY <1>1, <1>2, SessionStep

\* A workflow at work is inside its limit.
LEMMA WorkingFields ==
    ASSUME GoalInv, Working
    PROVE  /\ run # None /\ run.workflow # None /\ run.workflow \in Child
           /\ run.workflow.state = "Working" /\ FitsBudget(goal, run.workflow)
           /\ run.workflow.used \in Nat /\ run.workflow.limit \in Nat
           /\ run.workflow.used <= run.workflow.limit
           /\ Used(run.workflow) = run.workflow.used
           /\ env \in Envs /\ env.spent \in Nat /\ EvidenceIn(goal, env.delivered)
<1>1. /\ run # None /\ run.workflow # None /\ run.workflow.state = "Working"
  BY DEF Working, GoalInv, RunServesTheGoal
<1>2. run.workflow \in Child /\ FitsBudget(goal, run.workflow)
  BY <1>1, AtWork
<1>3. run.workflow.used \in Nat /\ run.workflow.limit \in Nat
  BY <1>2, ChildFields
<1>4. run.workflow.used <= run.workflow.limit
  BY <1>1, <1>2 DEF FitsBudget
<1> QED BY <1>1, <1>2, <1>3, <1>4, Parts, EnvFields DEF Used

LEMMA CallsModelIsGood ==
    ASSUME GoalInv, CallsModel
    PROVE  GoodStep
<1> DEFINE v == run.workflow
           over == v.used + 1 > v.limit
           state == IF over THEN "OverLimit" ELSE v.state
           used == v.used + 1
           w == [v EXCEPT !.used = used, !.state = state]
           phase == IF over THEN "Finished" ELSE "Working"
<1>1. /\ Working /\ Checkpointed(phase, w) /\ session' = session
      /\ env' = [env EXCEPT !.spent = @ + 1]
  BY DEF CallsModel
<1>2. /\ run # None /\ v \in Child /\ v.state = "Working" /\ FitsBudget(goal, v)
      /\ v.used \in Nat /\ v.limit \in Nat /\ v.used <= v.limit
      /\ Used(run.workflow) = v.used
      /\ env \in Envs /\ env.spent \in Nat /\ EvidenceIn(goal, env.delivered)
  BY <1>1, WorkingFields
<1>3. /\ phase \in {"Working", "Finished"}
      /\ phase = "Working" => ~over
      /\ state \in ChildStates /\ state # "Ready"
      /\ ~over => state = "Working"
      /\ over => state = "OverLimit"
  BY <1>2 DEF ChildStates
<1> HIDE DEF phase, state
<1>4. used \in Nat /\ used = v.used + 1 /\ (over <=> used > v.limit)
  BY <1>2
<1> HIDE DEF used, over
<1>5. /\ w \in Child /\ w.state = state /\ w.used = used /\ w.limit = v.limit
  BY <1>2, <1>3, <1>4 DEF Child
<1> HIDE DEF w, v
<1>6. FitsBudget(goal, w)
  BY <1>2, <1>3, <1>4, <1>5 DEF FitsBudget
<1>7. /\ env' \in Envs /\ env'.dropped = env.dropped /\ env'.delivered = env.delivered
      /\ env'.spent = env.spent + 1
  BY <1>1, <1>2 DEF Envs
<1>8. env'.spent + Used(run.workflow) = env.spent + w.used
  BY <1>2, <1>4, <1>5, <1>7
<1>9. phase = "Working" => w.state = "Working"
  BY <1>3, <1>5
<1>10. w.state # "Ready"
  BY <1>3, <1>5
<1>11. Continues(run.workflow, w)
  BY <1>2, <1>4, <1>5, ChildFields DEF Continues, v
<1> QED BY <1>1, <1>2, <1>3, <1>5, <1>6, <1>7, <1>8, <1>9, <1>10, <1>11, CheckpointStep

LEMMA WorkflowEndsIsGood ==
    ASSUME GoalInv, NEW state \in {"Ready", "Rejected", "Blocked"}, WorkflowEnds(state)
    PROVE  GoodStep
<1> DEFINE w == [run.workflow EXCEPT !.state = state]
           phase == "Finished"
           text == goal.criteria[goal.milestones[goal.active].criterion].text
<1>1. /\ Working /\ Checkpointed(phase, w) /\ session' = session
      /\ env' = IF state = "Ready"
                THEN [env EXCEPT !.delivered = @ \cup {text}] ELSE env
  BY DEF WorkflowEnds
<1>2. /\ run # None /\ run.workflow \in Child /\ FitsBudget(goal, run.workflow)
      /\ run.workflow.used \in Nat /\ run.workflow.used <= run.workflow.limit
      /\ Used(run.workflow) = run.workflow.used
      /\ env \in Envs /\ env.spent \in Nat /\ EvidenceIn(goal, env.delivered)
      /\ GoodGoal(goal) /\ goal.active # 0 /\ goal \in Goals
  BY <1>1, WorkingFields, Parts, AtWork
<1>3. /\ w \in Child /\ w.state = state /\ w.used = run.workflow.used
      /\ w.limit = run.workflow.limit
  BY <1>2 DEF Child, ChildStates
<1>4. phase \in {"Working", "Finished"} /\ phase # "Working"
  OBVIOUS
<1>5. text \in Criteria
  <2>1. /\ goal.active \in DOMAIN goal.milestones
        /\ goal.milestones[goal.active].criterion \in DOMAIN goal.criteria
    BY <1>2 DEF GoodGoal, Sound
  <2> QED BY <1>2, <2>1, Indices
<1> HIDE DEF w, phase, text
<1>6. FitsBudget(goal, w)
  BY <1>2, <1>3 DEF FitsBudget
<1>7. /\ env' \in Envs /\ env'.dropped = env.dropped /\ env'.spent = env.spent
      /\ env.delivered \subseteq env'.delivered
      /\ state = "Ready" => text \in env'.delivered
  <2>1. CASE state = "Ready"
    BY <1>1, <1>2, <1>5, <2>1 DEF Envs
  <2>2. CASE state # "Ready"
    BY <1>1, <1>2, <2>2
  <2> QED BY <2>1, <2>2
<1>8. env'.spent + Used(run.workflow) = env.spent + w.used
  BY <1>2, <1>3, <1>7
<1>9. EvidenceIn(goal, env'.delivered)
  BY <1>2, <1>7 DEF EvidenceIn
<1>10. phase = "Finished" /\ w.state = "Ready" =>
           goal.criteria[goal.milestones[goal.active].criterion].text \in env'.delivered
  BY <1>3, <1>7 DEF text
<1>11. Continues(run.workflow, w)
  BY <1>1, <1>2, <1>3, WorkingFields DEF Continues
<1> QED BY <1>1, <1>2, <1>3, <1>4, <1>6, <1>7, <1>8, <1>9, <1>10, <1>11, CheckpointStep

LEMMA WorkflowPausesIsGood ==
    ASSUME GoalInv, WorkflowPauses
    PROVE  GoodStep
<1> DEFINE phase == "Finished"
<1>1. /\ Working /\ Checkpointed(phase, run.workflow) /\ session' = session /\ env' = env
  BY DEF WorkflowPauses
<1>2. /\ run # None /\ run.workflow \in Child /\ FitsBudget(goal, run.workflow)
      /\ run.workflow.state = "Working" /\ Used(run.workflow) = run.workflow.used
      /\ env \in Envs /\ EvidenceIn(goal, env.delivered)
  BY <1>1, WorkingFields
<1>3. phase \in {"Working", "Finished"} /\ phase # "Working"
  OBVIOUS
<1> HIDE DEF phase
<1>4. Continues(run.workflow, run.workflow)
  BY <1>1, WorkingFields DEF Continues
<1> QED BY <1>1, <1>2, <1>3, <1>4, CheckpointStep

LEMMA WorkflowIsCancelledIsGood ==
    ASSUME GoalInv, WorkflowIsCancelled
    PROVE  GoodStep
<1> DEFINE w == [run.workflow EXCEPT !.state = "Cancelled"]
           phase == "Finished"
<1>1. /\ Working /\ Checkpointed(phase, w) /\ session' = session /\ env' = env
  BY DEF WorkflowIsCancelled
<1>2. /\ run # None /\ run.workflow \in Child /\ FitsBudget(goal, run.workflow)
      /\ Used(run.workflow) = run.workflow.used
      /\ env \in Envs /\ EvidenceIn(goal, env.delivered)
  BY <1>1, WorkingFields
<1>3. /\ w \in Child /\ w.state = "Cancelled" /\ w.used = run.workflow.used
      /\ w.limit = run.workflow.limit
  BY <1>2 DEF Child, ChildStates
<1>4. phase \in {"Working", "Finished"} /\ phase # "Working"
  OBVIOUS
<1> HIDE DEF w, phase
<1>5. FitsBudget(goal, w)
  BY <1>2, <1>3 DEF FitsBudget
<1>6. env'.spent + Used(run.workflow) = env.spent + w.used
  BY <1>1, <1>2, <1>3
<1>7. Continues(run.workflow, w)
  BY <1>1, <1>3, WorkingFields DEF Continues
<1> QED BY <1>1, <1>2, <1>3, <1>4, <1>5, <1>6, <1>7, CheckpointStep

\* The end of a run whose result may be stored.
LEMMA EndStepIsGood ==
    ASSUME GoalInv, NEW r, GoodGoal(r), EvidenceIn(r, env.delivered), Keeps(goal, r),
           EffectiveCounters(r).invocations = EffectiveCounters(goal).invocations,
           goal.pause_requested => r.active \in {0, goal.active}, EndRun(r)
    PROVE  GoodStep
  BY EndRunIsGood DEF GoodStep

\* A run that has ended has a workflow, the one of the active milestone.
LEMMA FinishedFields ==
    ASSUME GoalInv, Finished
    PROVE  /\ run # None /\ run.workflow \in Child /\ FitsBudget(goal, run.workflow)
           /\ run.workflow = ActiveWorkflow(goal)
           /\ goal.stage = "RunningMilestone" /\ goal.active # 0
           /\ EffectiveCounters(goal).invocations
                  = goal.counters.invocations + run.workflow.used
           /\ GoodGoal(goal) /\ Sound(goal) /\ EvidenceIn(goal, env.delivered)
           /\ env.clock \in Nat
           /\ run.workflow.state = "Ready" =>
                 goal.criteria[goal.milestones[goal.active].criterion].text \in env.delivered
<1>1. /\ run # None /\ run.workflow # None
      /\ run.workflow.state = "Ready" =>
            goal.criteria[goal.milestones[goal.active].criterion].text \in env.delivered
  BY DEF Finished, GoalInv, RunServesTheGoal
<1> QED BY <1>1, AtWork, Parts, EnvFields DEF Used

LEMMA EndsCancelledIsGood ==
    ASSUME GoalInv, EndsCancelled
    PROVE  GoodStep
<1> DEFINE r == Cancel(goal)
<1>1. EndRun(r) /\ Sound(goal) /\ EvidenceIn(goal, env.delivered)
  BY FinishedFields DEF EndsCancelled
<1>2. /\ GoodGoal(r) /\ Keeps(goal, r) /\ r.active = 0 /\ r.criteria = goal.criteria
      /\ EffectiveCounters(r) = EffectiveCounters(goal)
  BY <1>1, CancelIsGood
<1> HIDE DEF r
<1> QED BY <1>1, <1>2, NothingChanges, EndStepIsGood

LEMMA EndsBrokenIsGood ==
    ASSUME GoalInv, EndsBroken
    PROVE  GoodStep
<1> DEFINE r == Fail(goal, "EngineError")
<1>1. EndRun(r) /\ Sound(goal) /\ EvidenceIn(goal, env.delivered)
  BY Parts DEF EndsBroken
<1>2. "EngineError" \in Outcomes
  BY DEF Outcomes
<1>3. /\ GoodGoal(r) /\ Keeps(goal, r) /\ r.active = 0 /\ r.criteria = goal.criteria
      /\ EffectiveCounters(r) = EffectiveCounters(goal)
  BY <1>1, <1>2, FailIsGood
<1> HIDE DEF r
<1> QED BY <1>1, <1>3, NothingChanges, EndStepIsGood

LEMMA EndsBlockedIsGood ==
    ASSUME GoalInv, EndsBlocked
    PROVE  GoodStep
<1> DEFINE r == BlockActive(goal, run.workflow)
<1>1. Finished /\ EndRun(r)
  BY DEF EndsBlocked
<1>2. /\ run.workflow \in Child /\ FitsBudget(goal, run.workflow)
      /\ run.workflow = ActiveWorkflow(goal)
      /\ goal.stage = "RunningMilestone" /\ GoodGoal(goal)
      /\ EvidenceIn(goal, env.delivered)
      /\ EffectiveCounters(goal).invocations
             = goal.counters.invocations + run.workflow.used
  BY <1>1, FinishedFields
<1>3. /\ GoodGoal(r) /\ Keeps(goal, r) /\ r.criteria = goal.criteria
      /\ r.active = goal.active
      /\ EffectiveCounters(r).invocations = goal.counters.invocations + run.workflow.used
  BY <1>2, BlockingIsGood
<1> HIDE DEF r
<1> QED BY <1>1, <1>2, <1>3, NothingChanges, EndStepIsGood

\* finish_active_workflow, for a run that has ended.
LEMMA FinishIsGood ==
    ASSUME GoalInv, Finished, NEW r \in Finish(goal, run.workflow, env.clock), EndRun(r)
    PROVE  GoodStep
<1>1. /\ run.workflow \in Child /\ goal.stage = "RunningMilestone" /\ GoodGoal(goal)
      /\ run.workflow = ActiveWorkflow(goal)
      /\ EvidenceIn(goal, env.delivered) /\ env.clock \in Nat
      /\ EffectiveCounters(goal).invocations
             = goal.counters.invocations + run.workflow.used
      /\ run.workflow.state = "Ready" =>
            goal.criteria[goal.milestones[goal.active].criterion].text \in env.delivered
  BY FinishedFields
<1>2. CASE run.workflow.state = "Ready"
  <2>1. /\ GoodGoal(r) /\ Keeps(goal, r) /\ EvidenceIn(r, env.delivered)
        /\ EffectiveCounters(r).invocations
               = goal.counters.invocations + run.workflow.used
        /\ goal.pause_requested => r.active = 0
    BY <1>1, <1>2, DeliveringIsGood
  <2> QED BY <1>1, <2>1, EndStepIsGood
<1>3. CASE run.workflow.state # "Ready"
  <2>1. /\ GoodGoal(r) /\ Keeps(goal, r) /\ r.active = 0 /\ r.criteria = goal.criteria
        /\ EffectiveCounters(r).invocations
               = goal.counters.invocations + run.workflow.used
    BY <1>1, <1>3, FailingIsGood
  <2> QED BY <1>1, <2>1, NothingChanges, EndStepIsGood
<1> QED BY <1>2, <1>3

LEMMA EndsMilestoneIsGood ==
    ASSUME GoalInv, EndsMilestone
    PROVE  GoodStep
  BY FinishIsGood DEF EndsMilestone

LEMMA EndsAtBoundaryIsGood ==
    ASSUME GoalInv, EndsAtBoundary
    PROVE  GoodStep
<1>1. Finished
  BY DEF EndsAtBoundary
<1>2. /\ run.workflow \in Child /\ FitsBudget(goal, run.workflow)
      /\ run.workflow = ActiveWorkflow(goal)
      /\ goal.stage = "RunningMilestone" /\ GoodGoal(goal)
      /\ EvidenceIn(goal, env.delivered)
      /\ EffectiveCounters(goal).invocations
             = goal.counters.invocations + run.workflow.used
  BY <1>1, FinishedFields
<1> DEFINE h == CheckpointActive(goal, run.workflow)
<1>3. /\ GoodGoal(h) /\ Keeps(goal, h) /\ h.stage = "RunningMilestone"
      /\ h.active = goal.active /\ h.criteria = goal.criteria
      /\ EffectiveCounters(h).invocations = goal.counters.invocations + run.workflow.used
  BY <1>2, CheckpointIsGood
<1>4. Sound(h)
  BY <1>3 DEF GoodGoal
<1>5. \/ EndRun(Fail(h, "BudgetExhausted"))
      \/ EndRun(PauseAtBoundary(h))
      \/ \E g \in Finish(goal, run.workflow, env.clock) : EndRun(g)
  BY DEF EndsAtBoundary
<1> HIDE DEF h
<1>6. CASE EndRun(Fail(h, "BudgetExhausted"))
  <2> DEFINE r == Fail(h, "BudgetExhausted")
  <2>1. "BudgetExhausted" \in Outcomes
    BY DEF Outcomes
  <2>2. /\ GoodGoal(r) /\ Keeps(h, r) /\ r.active = 0 /\ r.criteria = h.criteria
        /\ EffectiveCounters(r) = EffectiveCounters(h)
    BY <1>4, <2>1, FailIsGood
  <2>3. EndRun(r)
    BY <1>6
  <2> HIDE DEF r
  <2>4. Keeps(goal, r) /\ EvidenceIn(r, env.delivered)
    BY <1>2, <1>3, <2>2, NothingChanges
  <2> QED BY <1>2, <1>3, <2>2, <2>3, <2>4, EndStepIsGood
<1>7. CASE EndRun(PauseAtBoundary(h))
  <2> DEFINE r == PauseAtBoundary(h)
  <2>1. /\ GoodGoal(r) /\ Keeps(h, r) /\ r.criteria = h.criteria /\ r.active = h.active
        /\ EffectiveCounters(r) = EffectiveCounters(h)
    BY <1>3, PausingIsGood
  <2>2. EndRun(r)
    BY <1>7
  <2> HIDE DEF r
  <2>3. Keeps(goal, r) /\ EvidenceIn(r, env.delivered)
    BY <1>2, <1>3, <2>1, NothingChanges
  <2> QED BY <1>2, <1>3, <2>1, <2>2, <2>3, EndStepIsGood
<1>8. CASE \E g \in Finish(goal, run.workflow, env.clock) : EndRun(g)
  BY <1>1, <1>8, FinishIsGood
<1> QED BY <1>5, <1>6, <1>7, <1>8

-----------------------------------------------------------------------------
(* The specification *)

\* The goal that is started.
LEMMA InitIsGood ==
    ASSUME Init
    PROVE  GoalInv
<1>1. PICK plan \in GoalPlans, budget \in Budgets, automatic \in BOOLEAN :
          CanStart(plan, budget) /\ goal = Start(plan, budget, automatic)
  BY DEF Init
<1>2. /\ GoodGoal(goal) /\ EvidenceIn(goal, env.delivered)
      /\ EffectiveCounters(goal).invocations = 0
  BY <1>1, StartIsGood
<1>3. /\ session = [status |-> "Paused", pause |-> FALSE, cancel |-> FALSE,
                    request |-> [workflow |-> None, limit |-> 0]]
      /\ run = None
      /\ env = [clock |-> 0, stops |-> 0, failures |-> 0, cancels |-> 0, amendments |-> 0,
                resumes |-> 0, spent |-> 0, dropped |-> 0, delivered |-> {}]
  BY DEF Init
<1>4. session \in Sessions /\ session.status = "Paused"
  <2>1. [workflow |-> None, limit |-> 0] \in Request
    BY DEF Request
  <2> QED BY <1>3, <2>1 DEF Sessions, SessionStatus
<1>5. env \in Envs /\ env.spent = 0 /\ env.dropped = 0
  BY <1>3 DEF Envs
<1>6. TypeOK
  <2>1. goal \in Goals
    BY <1>2 DEF GoodGoal, Sound
  <2> QED BY <1>3, <1>4, <1>5, <2>1 DEF TypeOK, Goals, Sessions, Envs
<1>7. SessionServesTheGoal /\ RunServesTheGoal /\ UsageIsCountedOnce
  BY <1>2, <1>3, <1>4, <1>5
     DEF SessionServesTheGoal, RunServesTheGoal, UsageIsCountedOnce
<1> QED BY <1>2, <1>6, <1>7 DEF GoalInv

\* Nobody resumes the session instead of its goal.
LEMMA NobodyResumesTheSession ==
    ASSUME GoalInv, ResumeSession
    PROVE  env'.resumes # 0
<1>1. env \in Envs /\ env' = [env EXCEPT !.resumes = @ + 1]
  BY Parts DEF ResumeSession
<1> QED BY <1>1 DEF Envs

LEMMA UserStepIsGood ==
    ASSUME GoalInv, UserStep, env'.resumes = 0
    PROVE  GoodStep
<1>1. CASE ReviseGoalDraft
  BY <1>1, ReviseGoalDraftIsGood
<1>2. CASE ApproveGoalPlan
  BY <1>2, ApproveGoalPlanIsGood
<1>3. CASE PauseGoal
  BY <1>3, RequestsPauseIsGood DEF PauseGoal
<1>4. CASE ResumeGoal
  BY <1>4, ResumeGoalIsGood
<1>5. CASE CancelRunningGoal
  BY <1>5, CancelRunningGoalIsGood
<1>6. CASE CancelGoal
  BY <1>6, CancelGoalIsGood
<1>7. CASE AcceptGoal
  BY <1>7, AcceptGoalIsGood
<1>8. CASE AmendGoal
  BY <1>8, AmendGoalIsGood
<1>9. CASE ApproveGoalAmendment
  BY <1>9, ApproveGoalAmendmentIsGood
<1>10. CASE DiscardGoalAmendment
  BY <1>10, DiscardGoalAmendmentIsGood
<1>11. CASE CancelSession
  BY <1>11, CancelSessionIsGood
<1>12. CASE ResumeSession
  BY <1>12, NobodyResumesTheSession
<1> QED BY <1>1, <1>2, <1>3, <1>4, <1>5, <1>6, <1>7, <1>8, <1>9, <1>10, <1>11, <1>12
        DEF UserStep

LEMMA DriverStepIsGood ==
    ASSUME GoalInv, DriverStep
    PROVE  GoodStep
<1>1. CASE BeginsWorkflow
  BY <1>1, BeginsWorkflowIsGood
<1>2. CASE ResumesWorkflow
  BY <1>2, ResumesWorkflowIsGood
<1>3. CASE RefusesWorkflow
  BY <1>3, RefusesWorkflowIsGood
<1>4. CASE CallsModel
  BY <1>4, CallsModelIsGood
<1>5. CASE WorkflowDelivers
  BY <1>5, WorkflowEndsIsGood DEF WorkflowDelivers
<1>6. CASE WorkflowIsRejected
  BY <1>6, WorkflowEndsIsGood DEF WorkflowIsRejected
<1>7. CASE WorkflowBlocks
  BY <1>7, WorkflowEndsIsGood DEF WorkflowBlocks
<1>8. CASE WorkflowPauses
  BY <1>8, WorkflowPausesIsGood
<1>9. CASE WorkflowIsCancelled
  BY <1>9, WorkflowIsCancelledIsGood
<1> QED BY <1>1, <1>2, <1>3, <1>4, <1>5, <1>6, <1>7, <1>8, <1>9 DEF DriverStep

LEMMA EndStepsAreGood ==
    ASSUME GoalInv, EndStep
    PROVE  GoodStep
  BY EndsCancelledIsGood, EndsAtBoundaryIsGood, EndsBlockedIsGood, EndsMilestoneIsGood,
     EndsBrokenIsGood
     DEF EndStep

LEMMA EveryStepIsGood ==
    ASSUME GoalInv, [Next]_vars, env'.resumes = 0
    PROVE  GoodStep
<1>1. CASE UserStep
  BY <1>1, UserStepIsGood
<1>2. CASE Claim
  BY <1>2, ClaimIsGood
<1>3. CASE DriverStep
  BY <1>3, DriverStepIsGood
<1>4. CASE ModelRequestsPause
  BY <1>4, RequestsPauseIsGood DEF ModelRequestsPause
<1>5. CASE RunnerFails
  BY <1>5, RunnerFailsIsGood
<1>6. CASE EndStep
  BY <1>6, EndStepsAreGood
<1>7. CASE DaemonRestart
  BY <1>7, DaemonRestartIsGood
<1>8. CASE TimePasses
  BY <1>8, TimePassesIsGood
<1>9. CASE UNCHANGED vars
  <2>1. UNCHANGED <<goal, session, run, env>>
    BY <1>9 DEF vars
  <2> QED BY <2>1, Parts, SessionStep
<1> QED BY <1>1, <1>2, <1>3, <1>4, <1>5, <1>6, <1>7, <1>8, <1>9 DEF Next

\* What the invariant says of a goal at work.
LEMMA InvariantImplies ==
    ASSUME GoalInv
    PROVE  SuccessWasDelivered /\ OneMilestoneAtATime /\ WorkIsInsideTheBudget
<1>1. /\ GoodGoal(goal) /\ Sound(goal) /\ goal \in Goals
      /\ EvidenceIn(goal, env.delivered)
      /\ SessionServesTheGoal /\ RunServesTheGoal
  BY Parts DEF GoalInv
<1>2. SuccessWasDelivered
  BY <1>1 DEF SuccessWasDelivered, GoodGoal, Placed, EvidenceIn
<1>3. goal.stage = "RunningMilestone" => goal.active # 0
  BY <1>1 DEF GoodGoal, Placed
<1>4. OneMilestoneAtATime
  <2>1. Valid(goal)
    BY <1>1, GoodIsValid
  <2>2. \A i \in DOMAIN goal.milestones :
            goal.milestones[i].status = "Running" <=> i = goal.active
    BY <1>1 DEF Sound
  <2> QED BY <1>1, <1>3, <2>1, <2>2
          DEF OneMilestoneAtATime, SessionServesTheGoal, RunServesTheGoal
<1>5. WorkIsInsideTheBudget
  <2> SUFFICES ASSUME goal.stage = "RunningMilestone"
               PROVE  /\ EffectiveCounters(goal).workflows <= goal.budget.workflows
                      /\ EffectiveCounters(goal).invocations <= goal.budget.invocations + 1
    BY DEF WorkIsInsideTheBudget
  <2> DEFINE w == ActiveWorkflow(goal)
  <2>1. /\ goal.counters.workflows + 1 <= goal.budget.workflows
        /\ goal.counters.invocations + 1 <= goal.budget.invocations
        /\ w # None => /\ goal.counters.invocations + w.limit <= goal.budget.invocations
                       /\ w.used <= w.limit + 1
    BY <1>1, <1>3 DEF GoodGoal, InBudget, FitsBudget
  <2>2. /\ w \in Child \cup {None} /\ Used(w) \in Nat
        /\ EffectiveCounters(goal).invocations = goal.counters.invocations + Used(w)
        /\ EffectiveCounters(goal).workflows = goal.counters.workflows + 1
    BY <1>1, <1>3, ActiveFields
  <2>3. /\ goal.counters.workflows \in Nat /\ goal.counters.invocations \in Nat
        /\ goal.budget.workflows \in Nat /\ goal.budget.invocations \in Nat
    BY <1>1, Numbers
  <2> HIDE DEF w
  <2>4. CASE w = None
    <3>1. Used(w) = 0
      BY <2>4 DEF Used
    <3> QED BY <2>1, <2>2, <2>3, <3>1
  <2>5. CASE w # None
    <3>1. Used(w) = w.used /\ w.used \in Nat /\ w.limit \in Nat
      BY <2>2, <2>5, ChildFields DEF Used
    <3> QED BY <2>1, <2>2, <2>3, <2>5, <3>1
  <2> QED BY <2>4, <2>5
<1> QED BY <1>2, <1>4, <1>5

\* While nobody resumes the session instead of its goal, the invariant holds.
THEOREM GoalInvariant ==
    Spec /\ [](env.resumes = 0) => []GoalInv
<1>1. Init => GoalInv
  BY InitIsGood
<1>2. GoalInv /\ [Next]_vars /\ (env.resumes = 0)' => GoalInv'
  BY EveryStepIsGood DEF GoodStep
<1> QED BY <1>1, <1>2, PTL DEF Spec

\* Every model call of the goal's workflows is in its counters exactly once, but for
\* what an approved amendment drops (engine.rs:871).
THEOREM UsageAlwaysCountedOnce ==
    Spec /\ [](env.resumes = 0) => []UsageIsCountedOnce
<1>1. GoalInv => UsageIsCountedOnce
  BY DEF GoalInv
<1> QED BY <1>1, GoalInvariant, PTL

\* A goal that awaits its acceptance, or is complete, has had every criterion of its
\* plan delivered by a workflow (evaluate_completion and accept).
THEOREM SuccessAlwaysDelivered ==
    Spec /\ [](env.resumes = 0) => []SuccessWasDelivered
<1>1. GoalInv => SuccessWasDelivered
  BY InvariantImplies
<1> QED BY <1>1, GoalInvariant, PTL

\* One milestone runs, the active one, what is stored is valid, and a session that is
\* queued or running works for it: the handlers of web.rs never get out of step.
THEOREM AlwaysOneMilestone ==
    Spec /\ [](env.resumes = 0) => []OneMilestoneAtATime
<1>1. GoalInv => OneMilestoneAtATime
  BY InvariantImplies
<1> QED BY <1>1, GoalInvariant, PTL

\* The budget covers all workflows of a goal at work, up to the charge that ends one
\* (start_next_milestone and configure_goal_milestone_request).
THEOREM WorkAlwaysInBudget ==
    Spec /\ [](env.resumes = 0) => []WorkIsInsideTheBudget
<1>1. GoalInv => WorkIsInsideTheBudget
  BY InvariantImplies
<1> QED BY <1>1, GoalInvariant, PTL

\* No operation changes a milestone that was delivered (approve_amendment keeps it).
THEOREM DeliveredMilestonesStay ==
    Spec /\ [](env.resumes = 0) => CompletedMilestonesStay
<1>1. GoalInv /\ [Next]_vars /\ (env.resumes = 0)' =>
          [\A i \in DOMAIN goal.milestones :
              goal.milestones[i].status = "Completed" =>
                  /\ i \in DOMAIN goal'.milestones
                  /\ goal'.milestones[i] = goal.milestones[i]]_vars
  BY EveryStepIsGood DEF GoodStep, Checkpoints, Keeps, KeepsDelivered
<1> QED BY <1>1, GoalInvariant, PTL DEF Spec, CompletedMilestonesStay

\* A run that ends after a pause was asked for begins no further milestone
\* (finish_active_workflow).
THEOREM PauseAlwaysFirst ==
    Spec /\ [](env.resumes = 0) => PauseComesFirst
<1>1. GoalInv /\ [Next]_vars /\ (env.resumes = 0)' =>
          [session.status = "Running" /\ goal.pause_requested =>
              goal'.active \in {0, goal.active}]_vars
  BY EveryStepIsGood DEF GoodStep
<1> QED BY <1>1, GoalInvariant, PTL DEF Spec, PauseComesFirst

-----------------------------------------------------------------------------
(* Milestones as deliveries *)

\* StoredDelivery of a goal g.
DeliveryAt(g, i) ==
    LET w == WorkflowAt(g, i)
    IN  IF w = None THEN None
        ELSE IF RunningAt(g, i) /\ w.state \in {"Working", "Blocked"}
        THEN [phase |-> w.state, used |-> w.used]
        ELSE [phase |-> IF w.state = "Ready" THEN "Delivered" ELSE "Stopped", used |-> 0]

\* The steps of a delivery, or none: DeliveryContract's Next without a renewal.
Moves(c, d) ==
    \/ d = c
    \/ c = None /\ d = [phase |-> "Working", used |-> 0]
    \/ /\ c # None /\ c.phase = "Working"
       /\ d \in [phase : {"Working", "Blocked"}, used : Nat] /\ d.used >= c.used
    \/ c # None /\ c.phase = "Blocked" /\ d = [c EXCEPT !.phase = "Working"]
    \/ c # None /\ c.phase = "Working" /\ d = [phase |-> "Delivered", used |-> 0]
    \/ /\ c # None /\ c.phase \in {"Working", "Blocked"}
       /\ d = [phase |-> "Stopped", used |-> 0]

LEMMA StoredIsDeliveryAt ==
    ASSUME NEW i \in Nat
    PROVE  /\ StoredDelivery(i) = DeliveryAt(goal, i)
           /\ StoredDelivery(i)' = DeliveryAt(goal', i)
  BY DEF StoredDelivery, DeliveryAt, WorkflowAt, RunningAt

LEMMA OpenDelivery ==
    ASSUME NEW w \in Child, NEW c, w.state \in {"Working", "Blocked"},
           c = [phase |-> w.state, used |-> w.used]
    PROVE  c # None /\ c.phase = w.state /\ c.used = w.used /\ w.used \in Nat
<1>1. w.used \in Nat
  BY ChildFields
<1>2. c \in [phase : {"Working", "Blocked"}, used : Nat]
  BY <1>1
<1>3. c # None
  BY <1>2, NoneIsNoDelivery DEF First!Children
<1> QED BY <1>1, <1>3

LEMMA WorkflowsAreChildren ==
    ASSUME NEW g, Sound(g), NEW i \in Nat
    PROVE  WorkflowAt(g, i) \in Child \cup {None}
  BY Indices, MilestoneFields DEF WorkflowAt, Sound

\* A step that stores no workflow stops one at most.
LEMMA KeptWorkflowsMove ==
    ASSUME NEW g, NEW r, Sound(g), KeepsWorkflows(g, r), NEW i \in Nat
    PROVE  Moves(DeliveryAt(g, i), DeliveryAt(r, i))
<1> DEFINE w == WorkflowAt(g, i)
           c == DeliveryAt(g, i)
           d == DeliveryAt(r, i)
<1>1. /\ w \in Child \cup {None} /\ WorkflowAt(r, i) = w
      /\ w # None => (RunningAt(r, i) => RunningAt(g, i))
  BY WorkflowsAreChildren DEF KeepsWorkflows
<1>2. CASE w = None \/ (RunningAt(r, i) <=> RunningAt(g, i))
  <2>1. d = c
    BY <1>1, <1>2 DEF DeliveryAt
  <2> QED BY <2>1 DEF Moves
<1>3. CASE w # None /\ RunningAt(g, i) /\ ~RunningAt(r, i)
  <2>1. CASE w.state \in {"Working", "Blocked"}
    <3>1. c = [phase |-> w.state, used |-> w.used]
      BY <1>3, <2>1 DEF DeliveryAt
    <3>2. d = [phase |-> "Stopped", used |-> 0]
      BY <1>1, <1>3, <2>1 DEF DeliveryAt
    <3>3. c # None /\ c.phase = w.state
      BY <1>1, <1>3, <2>1, <3>1, OpenDelivery
    <3> QED BY <2>1, <3>2, <3>3 DEF Moves
  <2>2. CASE w.state \notin {"Working", "Blocked"}
    <3>1. d = c
      BY <1>1, <2>2 DEF DeliveryAt
    <3> QED BY <3>1 DEF Moves
  <2> QED BY <2>1, <2>2
<1> QED BY <1>1, <1>2, <1>3

\* A checkpoint is a step of the active milestone's delivery.
LEMMA CheckpointedWorkflowsMove ==
    ASSUME NEW g, NEW r, Sound(g), g.active # 0, NEW w \in Child,
           Continues(ActiveWorkflow(g), w), r = CheckpointActive(g, w), NEW i \in Nat
    PROVE  Moves(DeliveryAt(g, i), DeliveryAt(r, i))
<1> DEFINE v == WorkflowAt(g, i)
           c == DeliveryAt(g, i)
           d == DeliveryAt(r, i)
           a == g.active
<1>1. g \in Goals /\ a \in DOMAIN g.milestones /\ g.milestones[a] \in Milestone
  BY Indices DEF Sound
<1>2. /\ DOMAIN r.milestones = DOMAIN g.milestones
      /\ r.milestones = [g.milestones EXCEPT ![a].workflow = w]
  BY <1>1 DEF CheckpointActive, Goals
<1>3. CASE i # a
  <2>1. i \in DOMAIN g.milestones => r.milestones[i] = g.milestones[i]
    BY <1>2, <1>3
  <2>2. d = c
    BY <1>2, <2>1 DEF DeliveryAt, WorkflowAt, RunningAt
  <2> QED BY <2>2 DEF Moves
<1>4. CASE i = a
  <2>1. /\ r.milestones[i].workflow = w
        /\ r.milestones[i].status = "Running" /\ g.milestones[i].status = "Running"
    BY <1>1, <1>2, <1>4 DEF Milestone, Sound
  <2>2. /\ WorkflowAt(r, i) = w /\ RunningAt(r, i) /\ RunningAt(g, i)
        /\ v = ActiveWorkflow(g) /\ w # None
    BY <1>1, <1>2, <1>4, <2>1, ChildFields DEF WorkflowAt, RunningAt, ActiveWorkflow
  <2>3. /\ w.state \in {"Working", "Blocked"} => d = [phase |-> w.state, used |-> w.used]
        /\ w.state = "Ready" => d = [phase |-> "Delivered", used |-> 0]
        /\ w.state \notin {"Working", "Blocked", "Ready"} =>
              d = [phase |-> "Stopped", used |-> 0]
    BY <2>2 DEF DeliveryAt
  <2>4. w.used \in Nat /\ v \in Child \cup {None}
    BY WorkflowsAreChildren, ChildFields
  <2>5. CASE v = None /\ w.state = "Working" /\ w.used = 0
    <3>1. c = None
      BY <2>5 DEF DeliveryAt
    <3>2. d = [phase |-> "Working", used |-> 0]
      BY <2>3, <2>5
    <3> QED BY <3>1, <3>2 DEF Moves
  <2>6. CASE v # None /\ v.state = "Working" /\ w.used >= v.used
    <3>1. c = [phase |-> v.state, used |-> v.used]
      BY <2>2, <2>6 DEF DeliveryAt
    <3>2. c # None /\ c.phase = "Working" /\ c.used = v.used
      BY <2>4, <2>6, <3>1, OpenDelivery
    <3>3. CASE w.state \in {"Working", "Blocked"}
      <4>1. d \in [phase : {"Working", "Blocked"}, used : Nat] /\ d.used >= c.used
        BY <2>3, <2>4, <2>6, <3>2, <3>3
      <4> QED BY <3>2, <4>1 DEF Moves
    <3>4. CASE w.state \notin {"Working", "Blocked"}
      <4>1. \/ d = [phase |-> "Delivered", used |-> 0]
            \/ d = [phase |-> "Stopped", used |-> 0]
        BY <2>3, <3>4
      <4> QED BY <3>2, <4>1 DEF Moves
    <3> QED BY <3>3, <3>4
  <2>7. CASE v # None /\ v.state = "Blocked" /\ w.state = "Working" /\ w.used = v.used
    <3>1. c = [phase |-> v.state, used |-> v.used]
      BY <2>2, <2>7 DEF DeliveryAt
    <3>2. c # None /\ c.phase = "Blocked"
      BY <2>4, <2>7, <3>1, OpenDelivery
    <3>3. d = [c EXCEPT !.phase = "Working"]
      BY <2>3, <2>7, <3>1
    <3> QED BY <3>2, <3>3 DEF Moves
  <2> QED BY <2>2, <2>5, <2>6, <2>7 DEF Continues
<1> QED BY <1>3, <1>4

LEMMA EveryStepMoves ==
    ASSUME GoalInv, [Next]_vars, env'.resumes = 0, NEW i \in Nat
    PROVE  Moves(StoredDelivery(i), StoredDelivery(i)')
<1>1. Sound(goal) /\ (Keeps(goal, goal') \/ Checkpoints)
  BY EveryStepIsGood, Parts DEF GoodStep
<1>2. Moves(DeliveryAt(goal, i), DeliveryAt(goal', i))
  BY <1>1, KeptWorkflowsMove, CheckpointedWorkflowsMove DEF Keeps, Checkpoints
<1> QED BY <1>2, StoredIsDeliveryAt

\* A goal that is started has no workflow.
LEMMA NothingIsDelivered ==
    ASSUME Init, NEW i \in Nat
    PROVE  StoredDelivery(i) = None
<1>1. PICK plan \in GoalPlans, budget \in Budgets, automatic \in BOOLEAN :
          CanStart(plan, budget) /\ goal = Start(plan, budget, automatic)
  BY DEF Init
<1>2. goal.milestones = MilestonesFor(1, plan)
  BY <1>1 DEF Start
<1>3. \A k \in DOMAIN goal.milestones : goal.milestones[k].workflow = None
  BY <1>2, FreshPlan
<1> QED BY <1>3 DEF StoredDelivery

\* Each milestone is delivered by one workflow, which is begun once and ends once: the
\* goal's steps are those of DeliveryContract, for each of the first three milestones.
THEOREM MilestonesAlwaysDeliveries ==
    Spec /\ [](env.resumes = 0) => MilestonesAreDeliveries
<1>1. ASSUME Moves(StoredDelivery(1), StoredDelivery(1)')
      PROVE  [First!Next]_(StoredDelivery(1))
  BY <1>1 DEF Moves, First!Next, First!Begins, First!Works, First!Blocks, First!Resumes,
               First!Delivers, First!Stops, First!IsIn, First!Charged
<1>2. ASSUME Moves(StoredDelivery(2), StoredDelivery(2)')
      PROVE  [Second!Next]_(StoredDelivery(2))
  BY <1>2 DEF Moves, Second!Next, Second!Begins, Second!Works, Second!Blocks, Second!Resumes,
               Second!Delivers, Second!Stops, Second!IsIn, Second!Charged
<1>3. ASSUME Moves(StoredDelivery(3), StoredDelivery(3)')
      PROVE  [Third!Next]_(StoredDelivery(3))
  BY <1>3 DEF Moves, Third!Next, Third!Begins, Third!Works, Third!Blocks, Third!Resumes,
               Third!Delivers, Third!Stops, Third!IsIn, Third!Charged
<1>4. Init => First!Init /\ Second!Init /\ Third!Init
  BY NothingIsDelivered DEF First!Init, Second!Init, Third!Init
<1>5. GoalInv /\ [Next]_vars /\ (env.resumes = 0)' =>
          /\ [First!Next]_(StoredDelivery(1))
          /\ [Second!Next]_(StoredDelivery(2))
          /\ [Third!Next]_(StoredDelivery(3))
  BY <1>1, <1>2, <1>3, EveryStepMoves
<1> QED BY <1>4, <1>5, GoalInvariant, PTL
        DEF Spec, MilestonesAreDeliveries, First!Spec, Second!Spec, Third!Spec

=============================================================================
