-------------------------- MODULE CheckLedgerProofs --------------------------
(* For every workspace graph, every number of checks and every bound: the       *)
(* ledger keeps its shape, evidence that is taken for current is true, a plan   *)
(* that passed left current evidence, and nothing in a plan rests on a failure. *)
(* The inductive invariant is Inv: what evidence says of the run that left it,  *)
(* how a plan is worked off, and what its finished part says of the ledger.     *)
EXTENDS CheckLedger, TLAPS

-----------------------------------------------------------------------------
(* Dependencies *)

\* add_check_dependencies: what is selected is closed under dependencies.
LEMMA DependenciesAreClosed ==
    ASSUME graph \in Graphs, NEW s \in SUBSET Checks
    PROVE  /\ WithDependencies(s) \subseteq Checks
           /\ s \subseteq WithDependencies(s)
           /\ ClosedIn(WithDependencies(s), graph.depends)
<1>1. graph.depends \in [Checks -> SUBSET Checks]
  BY GraphsAreAcyclic
<1>2. WithDependencies(s) \subseteq Checks /\ s \subseteq WithDependencies(s)
  BY DEF WithDependencies
<1>3. ASSUME NEW c \in WithDependencies(s), NEW d \in graph.depends[c]
      PROVE  d \in WithDependencies(s)
  <2>1. c \in Checks /\ d \in Checks
    BY <1>1, <1>2
  <2>2. ASSUME NEW t \in SUBSET Checks, s \subseteq t, ClosedIn(t, graph.depends)
        PROVE  d \in t
    BY <2>2 DEF WithDependencies, ClosedIn
  <2> QED
    BY <2>1, <2>2 DEF WithDependencies
<1> QED
  BY <1>2, <1>3 DEF ClosedIn

\* It is the least such set.
LEMMA DependenciesAreLeast ==
    ASSUME NEW s, NEW t \in SUBSET Checks, s \subseteq t, ClosedIn(t, graph.depends)
    PROVE  WithDependencies(s) \subseteq t
  BY DEF WithDependencies

-----------------------------------------------------------------------------
(* Plans *)

RangeOf(p) == {p[i] : i \in DOMAIN p}

Once(p) == \A i \in DOMAIN p : \A j \in DOMAIN p : i # j => p[i] # p[j]

\* Whatever a check of p depends on is done, or comes before it in p.
InOrderAfter(p, done) ==
    \A i \in DOMAIN p : \A d \in graph.depends[p[i]] :
        d \in done \/ \E j \in DOMAIN p : j < i /\ p[j] = d

\* The head of a plan depends on what is done, and the rest of the plan is in order
\* once the head is done too.
LEMMA PlanAdvances ==
    ASSUME NEW p \in Seq(Checks), p # <<>>, Once(p), NEW done, InOrderAfter(p, done)
    PROVE  /\ Head(p) \in Checks
           /\ Tail(p) \in Seq(Checks)
           /\ RangeOf(Tail(p)) = RangeOf(p) \ {Head(p)}
           /\ Head(p) \in RangeOf(p)
           /\ Once(Tail(p))
           /\ graph.depends[Head(p)] \subseteq done
           /\ InOrderAfter(Tail(p), done \cup {Head(p)})
<1> DEFINE q == Tail(p)
<1>1. /\ Len(p) \in Nat \ {0} /\ DOMAIN p = 1 .. Len(p)
      /\ q \in Seq(Checks) /\ DOMAIN q = 1 .. (Len(p) - 1)
      /\ \A i \in 1 .. (Len(p) - 1) : q[i] = p[i + 1]
      /\ Head(p) = p[1] /\ Head(p) \in Checks
  OBVIOUS
<1> HIDE DEF q
<1>2. RangeOf(q) = RangeOf(p) \ {Head(p)}
  <2>1. ASSUME NEW i \in DOMAIN q PROVE q[i] \in RangeOf(p) \ {Head(p)}
    BY <1>1 DEF RangeOf, Once
  <2>2. ASSUME NEW i \in DOMAIN p, p[i] # Head(p) PROVE p[i] \in RangeOf(q)
    <3>1. i - 1 \in DOMAIN q /\ q[i - 1] = p[i]
      BY <1>1, <2>2
    <3> QED
      BY <3>1 DEF RangeOf
  <2> QED
    BY <2>1, <2>2 DEF RangeOf
<1>3. Head(p) \in RangeOf(p)
  BY <1>1 DEF RangeOf
<1>4. Once(q)
  <2>1. ASSUME NEW i \in DOMAIN q, NEW j \in DOMAIN q, i # j
        PROVE  q[i] # q[j]
    <3>1. i + 1 \in DOMAIN p /\ j + 1 \in DOMAIN p /\ i + 1 # j + 1
      BY <1>1, <2>1
    <3>2. p[i + 1] # p[j + 1]
      BY <3>1 DEF Once
    <3> QED
      BY <1>1, <3>2
  <2> QED
    BY <2>1 DEF Once
<1>5. graph.depends[Head(p)] \subseteq done
  BY <1>1 DEF InOrderAfter
<1>6. InOrderAfter(q, done \cup {Head(p)})
  <2>1. ASSUME NEW i \in DOMAIN q, NEW d \in graph.depends[q[i]],
               d \notin done, d # Head(p)
        PROVE  \E j \in DOMAIN q : j < i /\ q[j] = d
    <3>1. PICK j \in DOMAIN p : j < i + 1 /\ p[j] = d
      BY <1>1, <2>1 DEF InOrderAfter
    <3>2. j - 1 \in DOMAIN q /\ q[j - 1] = d /\ j - 1 < i
      BY <1>1, <2>1, <3>1
    <3> QED
      BY <3>2
  <2> QED
    BY <2>1 DEF InOrderAfter
<1> QED
  BY <1>1, <1>2, <1>3, <1>4, <1>5, <1>6 DEF q

-----------------------------------------------------------------------------
(* Types *)

LEMMA GraphHasItsShape ==
    ASSUME graph \in Graphs
    PROVE  /\ graph.depends \in [Checks -> SUBSET Checks]
           /\ graph.inputs \subseteq Checks /\ graph.outputs \subseteq Checks
  BY GraphsAreAcyclic

LEMMA FingerprintsAreTyped ==
    ASSUME TypeOK, NEW l \in Ledgers, NEW c \in Checks
    PROVE  /\ InputFingerprint(c) \in Contents \cup {None}
           /\ DependencyOutputs(l, c) \in Fingerprints
           /\ Found(c) \in Fingerprints
<1>1. /\ graph.depends[c] \in SUBSET Checks
      /\ tree \in [Checks -> Contents] /\ out \in [Checks -> Contents \cup {None}]
  BY GraphHasItsShape DEF TypeOK
<1>2. InputFingerprint(c) \in Contents \cup {None}
  BY <1>1 DEF InputFingerprint
<1> DEFINE known == {e \in graph.depends[c] : l[e] # None}
<1>3. \A d \in known : Stands(l, d) \in Contents \cup {None}
  BY <1>1 DEF Stands, Ledgers, CheckEvidence
<1>4. DependencyOutputs(l, c) \in [known -> Contents \cup {None}] /\ known \in SUBSET Checks
  BY <1>1, <1>3 DEF DependencyOutputs
<1>5. Found(c) \in [graph.depends[c] -> Contents \cup {None}]
  BY <1>1 DEF Found
<1> QED
  BY <1>1, <1>2, <1>4, <1>5 DEF Fingerprints

LEMMA NoFingerprintsIsTyped == NoFingerprints \in Fingerprints
<1>1. NoFingerprints \in [{} -> Contents \cup {None}]
  BY DEF NoFingerprints
<1> QED
  BY <1>1 DEF Fingerprints

LEMMA EmptyLedgerIsTyped == EmptyLedger \in Ledgers
  BY DEF EmptyLedger, Ledgers

Runners == [by : Runtimes, plan : Seq(Checks), selected : SUBSET Checks,
            failed : SUBSET Checks, check : Checks \cup {None},
            input : Contents \cup {None}, deps : Fingerprints,
            before : [Checks -> Contents] \cup {<<>>}, running : BOOLEAN]

LEMMA IdleIsTyped == Idle \in Runners
<1>1. <<>> \in Seq(Checks)
  OBVIOUS
<1> QED
  BY <1>1, NoFingerprintsIsTyped DEF Idle, Runners, Runtimes

Envs == [edits : Nat, plans : Nat, turns : Nat, calm : BOOLEAN]

LEMMA EnvIsTyped ==
    ASSUME NEW e \in Envs, NEW calm \in BOOLEAN
    PROVE  /\ [e EXCEPT !.plans = @ + 1, !.calm = calm] \in Envs
           /\ [e EXCEPT !.plans = @ + 1, !.calm = calm].calm = calm
           /\ [e EXCEPT !.edits = @ + 1, !.calm = calm] \in Envs
           /\ [e EXCEPT !.edits = @ + 1, !.calm = calm].calm = calm
           /\ [e EXCEPT !.turns = @ + 1] \in Envs
           /\ [e EXCEPT !.turns = @ + 1].calm = e.calm
<1> DEFINE e1 == [e EXCEPT !.plans = @ + 1]
           e2 == [e EXCEPT !.edits = @ + 1]
<1>1. e1 \in Envs /\ e2 \in Envs
  BY DEF Envs
<1> HIDE DEF e1, e2
<1>2. /\ [e1 EXCEPT !.calm = calm] \in Envs /\ [e1 EXCEPT !.calm = calm].calm = calm
      /\ [e2 EXCEPT !.calm = calm] \in Envs /\ [e2 EXCEPT !.calm = calm].calm = calm
  BY <1>1 DEF Envs
<1>3. [e EXCEPT !.turns = @ + 1] \in Envs /\ [e EXCEPT !.turns = @ + 1].calm = e.calm
  BY DEF Envs
<1> QED
  BY <1>2, <1>3 DEF e1, e2

LEMMA InitIsTyped == Init => TypeOK
<1> SUFFICES ASSUME Init PROVE TypeOK
  OBVIOUS
<1>1. runner \in Runners
  BY IdleIsTyped DEF Init
<1>2. tree \in [Checks -> Contents] /\ out \in [Checks -> Contents \cup {None}]
  BY TreesAreTrees DEF Init, EmptyLedger
<1> QED
  BY <1>1, <1>2, EmptyLedgerIsTyped DEF Init, TypeOK, Runners

\* A plan begins: the selection, and the plan that the assumption on the order gives.
LEMMA RunsIsTyped ==
    ASSUME TypeOK, NEW by \in Runtimes, NEW wanted \in SUBSET Checks, Runs(by, wanted)
    PROVE  /\ TypeOK'
           /\ ClosedIn(WithDependencies(wanted), graph.depends)
           /\ IsPlan(runner'.plan, graph.depends, runner'.selected)
           /\ runner' = Planned(by, WithDependencies(wanted))
<1> DEFINE s == WithDependencies(wanted)
           p == Ordered(graph.depends, s)
<1>1. s \in SUBSET Checks /\ ClosedIn(s, graph.depends)
  BY DependenciesAreClosed DEF TypeOK
<1>2. IsPlan(p, graph.depends, s)
  BY <1>1, OrderIsTopological DEF TypeOK
<1>3. p \in Seq(Checks)
  BY <1>2 DEF IsPlan
<1>4. runner' = Planned(by, s)
  BY DEF Runs
<1>5. runner'.plan = p /\ runner'.selected = s
  BY <1>4 DEF Planned
<1> HIDE DEF s
<1>8. runner' \in Runners
  BY <1>1, <1>3, <1>4, NoFingerprintsIsTyped DEF Planned, Runners, TypeOK, p
<1>9. env \in Envs
  BY DEF TypeOK, Envs
<1>6. /\ env' = [env EXCEPT !.plans = @ + 1, !.calm = TRUE] /\ passed' = {}
      /\ UNCHANGED <<graph, tree, out, ledgers, accepted, prior, history>>
  BY DEF Runs
<1>10. env' \in Envs
  BY <1>9, <1>6, EnvIsTyped
<1>7. TypeOK'
  BY <1>8, <1>6, <1>10 DEF TypeOK, Runners, Envs
<1> QED
  BY <1>1, <1>2, <1>4, <1>5, <1>7 DEF s, p

-----------------------------------------------------------------------------
(* The invariant *)

\* A result that passed wrote all its outputs and nothing else; if nobody else wrote
\* meanwhile, the command passes over what the key names.
GoodEvidence(e, c) ==
    e.success =>
        /\ e.output # None <=> c \in graph.outputs
        /\ e.calm /\ IsDeclared(c) => Verdict(e.input, e.deps)

GoodLedger(l) == \A c \in Checks : l[c] # None => GoodEvidence(l[c], c)

EvidenceInv ==
    /\ GoodLedger(ledgers["delivery"])
    /\ GoodLedger(ledgers["stage"])
    /\ GoodLedger(accepted)
    /\ GoodLedger(prior)
    /\ GoodLedger(history)

Behind == Settled \ runner.failed

\* How a plan is worked off
PlanInv ==
    /\ ClosedIn(runner.selected, graph.depends)
    /\ RangeOf(runner.plan) \subseteq runner.selected
    /\ Once(runner.plan)
    /\ InOrderAfter(runner.plan, runner.selected \ RangeOf(runner.plan))
    /\ runner.check # None => runner.check \in runner.selected \ RangeOf(runner.plan)
    /\ runner.failed \subseteq Settled
    /\ ClosedIn(Behind, graph.depends)
    /\ runner.check # None => graph.depends[runner.check] \subseteq Behind

PassedInv ==
    /\ ~runner.running => runner = Idle
    /\ runner.running => passed = {}
    /\ ClosedIn(passed, graph.depends)

\* While nobody else writes, what is behind the runner, and what a plan accepted,
\* matches its evidence, and the key of the command under way is right.
ResultInv ==
    env.calm =>
        /\ \A c \in Behind : Matches(ledger, c)
        /\ runner.check # None =>
               /\ runner.input = InputFingerprint(runner.check)
               /\ runner.deps = DependencyOutputs(ledger, runner.check)
        /\ \A c \in passed : Matches(accepted, c)

Inv == TypeOK /\ EvidenceInv /\ PlanInv /\ PassedInv /\ ResultInv

-----------------------------------------------------------------------------
(* Evidence and what it stands for *)

\* Where all that a check depends on matches, what its evidence would record of them
\* is what its command finds.
LEMMA KnownIsFound ==
    ASSUME TypeOK, NEW l \in Ledgers, GoodLedger(l), NEW c \in Checks, IsDeclared(c),
           \A d \in graph.depends[c] : Matches(l, d)
    PROVE  DependencyOutputs(l, c) = Found(c)
<1>1. graph.depends[c] \in SUBSET Checks
  BY GraphHasItsShape DEF TypeOK
<1>2. ASSUME NEW d \in graph.depends[c]
      PROVE  l[d] # None /\ Stands(l, d) = IF d \in graph.outputs THEN out[d] ELSE tree[d]
  <2>1. /\ d \in Checks /\ l[d] # None /\ l[d].success
        /\ l[d].output = out[d] /\ l[d].input = InputFingerprint(d)
    BY <1>1 DEF Matches
  <2>2. l[d].output # None <=> d \in graph.outputs
    BY <2>1 DEF GoodLedger, GoodEvidence
  <2>3. d \in graph.outputs \/ d \in graph.inputs
    BY DEF IsDeclared
  <2> QED
    BY <2>1, <2>2, <2>3 DEF Stands, InputFingerprint
<1>3. {e \in graph.depends[c] : l[e] # None} = graph.depends[c]
  BY <1>2
<1> QED
  BY <1>2, <1>3 DEF DependencyOutputs, Found

\* Evidence of a good ledger that is current is true.
LEMMA CurrentIsTrue ==
    ASSUME TypeOK, NEW l \in Ledgers, GoodLedger(l), NEW c \in Checks, IsDeclared(c),
           IsCurrent(l, c), l[c].calm
    PROVE  Verdict(tree[c], Found(c))
<1>1. graph.depends \in [Checks -> SUBSET Checks]
  BY GraphHasItsShape DEF TypeOK
<1>2. graph.depends[c] \subseteq WithDependencies({c})
  BY <1>1, DependenciesAreClosed DEF TypeOK, ClosedIn
<1>3. Matches(l, c) /\ \A d \in graph.depends[c] : Matches(l, d)
  BY <1>2 DEF IsCurrent
<1>4. l[c].input = tree[c] /\ l[c].deps = Found(c)
  BY <1>3, KnownIsFound DEF Matches, IsDeclared, InputFingerprint
<1> QED
  BY <1>3, <1>4 DEF GoodLedger, GoodEvidence, Matches

\* What is closed under dependencies and matches throughout is current.
LEMMA ClosedIsCurrent ==
    ASSUME NEW l, NEW s \in SUBSET Checks, ClosedIn(s, graph.depends),
           \A c \in s : Matches(l, c), NEW c \in s
    PROVE  IsCurrent(l, c)
  BY DependenciesAreLeast DEF IsCurrent

LEMMA InvIsEnough ==
    ASSUME Inv
    PROVE  CurrentEvidenceIsTrue /\ PassedPlanIsCurrent /\ PassedRestsOnPassed
<1>1. CurrentEvidenceIsTrue
  <2>1. /\ ledgers["delivery"] \in Ledgers /\ ledgers["stage"] \in Ledgers
        /\ accepted \in Ledgers /\ prior \in Ledgers /\ history \in Ledgers
    BY DEF Inv, TypeOK, Runtimes
  <2>2. ASSUME NEW l \in {ledgers["delivery"], ledgers["stage"], accepted, prior, history}
        PROVE  l \in Ledgers /\ GoodLedger(l)
    BY <2>1 DEF Inv, EvidenceInv
  <2> QED
    BY <2>2, CurrentIsTrue DEF CurrentEvidenceIsTrue, Inv
<1>2. PassedPlanIsCurrent
  BY ClosedIsCurrent DEF PassedPlanIsCurrent, Inv, TypeOK, PassedInv, ResultInv
<1>3. PassedRestsOnPassed
  <2>1. Behind \in SUBSET Checks /\ runner.check \in Checks \cup {None}
    BY DEF Inv, TypeOK, Behind, Settled
  <2>2. ASSUME NEW c \in Behind \cup ({runner.check} \ {None})
        PROVE  WithDependencies({c}) \ {c} \subseteq Behind
    <3>1. ClosedIn(Behind \cup {c}, graph.depends)
      BY <2>2 DEF Inv, PlanInv, ClosedIn
    <3>2. Behind \cup {c} \in SUBSET Checks
      BY <2>1, <2>2
    <3> QED
      BY <3>1, <3>2, DependenciesAreLeast
  <2> QED
    BY <2>2 DEF PassedRestsOnPassed, Behind
<1> QED
  BY <1>1, <1>2, <1>3

-----------------------------------------------------------------------------
(* Frames *)

\* An idle runner has nothing behind it.
LEMMA IdleRunner ==
    ASSUME runner = Idle
    PROVE  /\ PlanInv /\ Behind = {} /\ runner.check = None /\ ~runner.running
<1>1. /\ runner.selected = {} /\ runner.plan = <<>> /\ runner.failed = {}
      /\ runner.check = None /\ runner.running = FALSE
  BY DEF Idle
<1>2. RangeOf(runner.plan) = {} /\ Once(runner.plan) /\ InOrderAfter(runner.plan, {})
  BY <1>1 DEF RangeOf, Once, InOrderAfter
<1>3. Settled = {} /\ Behind = {}
  BY <1>1 DEF Settled, Behind
<1> QED
  BY <1>1, <1>2, <1>3 DEF PlanInv, ClosedIn

LEMMA IdleRunnerNext ==
    ASSUME runner' = Idle
    PROVE  /\ PlanInv' /\ Behind' = {} /\ runner'.check = None /\ ~runner'.running
<1>1. /\ runner'.selected = {} /\ runner'.plan = <<>> /\ runner'.failed = {}
      /\ runner'.check = None /\ runner'.running = FALSE
  BY DEF Idle
<1>2. RangeOf(runner'.plan) = {} /\ Once(runner'.plan) /\ InOrderAfter(runner.plan, {})'
  BY <1>1 DEF RangeOf, Once, InOrderAfter
<1>3. Settled' = {} /\ Behind' = {}
  BY <1>1 DEF Settled, Behind
<1> QED
  BY <1>1, <1>2, <1>3 DEF PlanInv, ClosedIn

\* What evidence matches is a matter of the tree, the outputs and the ledger.
LEMMA MatchesIsKept ==
    ASSUME UNCHANGED <<graph, tree, out>>, NEW l, NEW c, Matches(l, c)
    PROVE  Matches(l, c)'
  BY DEF Matches, InputFingerprint, DependencyOutputs, Stands

LEMMA GoodLedgerIsKept ==
    ASSUME UNCHANGED graph, NEW l, GoodLedger(l)
    PROVE  GoodLedger(l)'
  BY DEF GoodLedger, GoodEvidence, IsDeclared

LEMMA EmptyLedgerIsGood == GoodLedger(EmptyLedger)
  BY DEF GoodLedger, EmptyLedger

LEMMA InitHolds == Init => Inv
<1> SUFFICES ASSUME Init PROVE Inv
  OBVIOUS
<1>1. TypeOK
  BY InitIsTyped
<1>2. PlanInv /\ Behind = {} /\ runner.check = None /\ ~runner.running
  BY IdleRunner DEF Init
<1>3. EvidenceInv
  BY EmptyLedgerIsGood DEF Init, EvidenceInv, Runtimes
<1>4. PassedInv
  BY <1>2 DEF Init, PassedInv, ClosedIn
<1>5. ResultInv
  BY <1>2 DEF Init, ResultInv
<1> QED
  BY <1>1, <1>2, <1>3, <1>4, <1>5 DEF Inv

LEMMA StutterKeepsInv ==
    ASSUME Inv, UNCHANGED vars
    PROVE  Inv'
<1>1. TypeOK'
  BY DEF Inv, TypeOK, vars
<1>2. EvidenceInv'
  BY DEF Inv, EvidenceInv, GoodLedger, GoodEvidence, IsDeclared, vars
<1>3. PlanInv'
  BY DEF Inv, PlanInv, InOrderAfter, Behind, Settled, ClosedIn, vars
<1>4. PassedInv'
  BY DEF Inv, PassedInv, ClosedIn, vars
<1>5. ResultInv'
  <2>1. /\ UNCHANGED <<graph, tree, out, accepted, passed, runner, env>>
        /\ ledger' = ledger
    BY DEF vars, ledger
  <2>2. Behind' = Behind
    BY <2>1 DEF Behind, Settled
  <2>3. ASSUME env'.calm
        PROVE  /\ \A c \in Behind : Matches(ledger, c)
               /\ runner.check # None =>
                      /\ runner.input = InputFingerprint(runner.check)
                      /\ runner.deps = DependencyOutputs(ledger, runner.check)
               /\ \A c \in passed : Matches(accepted, c)
    BY <2>1, <2>3 DEF Inv, ResultInv
  <2>4. ASSUME env'.calm, NEW c \in Behind' PROVE Matches(ledger, c)'
    <3>1. Matches(ledger, c)
      BY <2>2, <2>3, <2>4
    <3> QED
      BY <2>1, <3>1 DEF Matches, InputFingerprint, DependencyOutputs, Stands
  <2>5. ASSUME env'.calm, NEW c \in passed' PROVE Matches(accepted, c)'
    <3>1. Matches(accepted, c)
      BY <2>1, <2>3, <2>5
    <3> QED
      BY <2>1, <3>1 DEF Matches, InputFingerprint, DependencyOutputs, Stands
  <2>6. ASSUME env'.calm, runner'.check # None
        PROVE  /\ runner'.input = InputFingerprint(runner.check)'
               /\ runner'.deps = DependencyOutputs(ledger, runner.check)'
    <3>1. /\ runner.input = InputFingerprint(runner.check)
          /\ runner.deps = DependencyOutputs(ledger, runner.check)
      BY <2>1, <2>3, <2>6
    <3> QED
      BY <2>1, <3>1 DEF InputFingerprint, DependencyOutputs, Stands
  <2> QED
    BY <2>4, <2>5, <2>6 DEF ResultInv
<1> QED
  BY <1>1, <1>2, <1>3, <1>4, <1>5 DEF Inv

\* A step between plans that passes ledgers on: a runner that stays idle, what is on
\* disk as it was, and either nothing that passed or the same that was accepted.
LEMMA LedgersArePassedOn ==
    ASSUME Inv, TypeOK', EvidenceInv', UNCHANGED <<graph, tree, out, runner>>,
           ~runner.running, env'.calm => env.calm,
           UNCHANGED <<accepted, passed>> \/ passed' = {}
    PROVE  Inv'
<1>1. runner = Idle /\ runner' = Idle
  BY DEF Inv, PassedInv
<1>2. PlanInv' /\ Behind' = {} /\ runner'.check = None /\ ~runner'.running
  BY <1>1, IdleRunnerNext
<1>3. PassedInv'
  BY <1>1, <1>2 DEF Inv, PassedInv, ClosedIn
<1>4. ResultInv'
  <2>1. ASSUME env'.calm, NEW c \in passed' PROVE Matches(accepted, c)'
    <3>1. UNCHANGED <<accepted, passed>> /\ Matches(accepted, c)
      BY <2>1 DEF Inv, ResultInv
    <3> QED
      BY <3>1 DEF Matches, InputFingerprint, DependencyOutputs, Stands
  <2> QED
    BY <1>2, <2>1 DEF ResultInv
<1> QED
  BY <1>2, <1>3, <1>4 DEF Inv

-----------------------------------------------------------------------------
(* Steps between plans *)

LEMMA ChecksAreClearedStep ==
    ASSUME Inv, ChecksAreCleared
    PROVE  Inv'
<1>1. /\ UNCHANGED <<graph, tree, out, ledgers, prior, history, runner, env>>
      /\ ~runner.running /\ accepted' = EmptyLedger /\ passed' = {}
  BY DEF ChecksAreCleared
<1>2. TypeOK'
  BY <1>1, EmptyLedgerIsTyped DEF Inv, TypeOK
<1>3. EvidenceInv'
  BY <1>1, GoodLedgerIsKept, EmptyLedgerIsGood
     DEF Inv, EvidenceInv, GoodLedger, GoodEvidence, IsDeclared
<1> QED
  BY <1>1, <1>2, <1>3, LedgersArePassedOn

LEMMA StageBeginsStep ==
    ASSUME Inv, StageBegins
    PROVE  Inv'
<1>1. /\ UNCHANGED <<graph, tree, out, accepted, prior, history, runner, passed, env>>
      /\ ~runner.running /\ ledgers' = [ledgers EXCEPT !["stage"] = accepted]
  BY DEF StageBegins
<1>2. ledgers' \in [Runtimes -> Ledgers]
      /\ ledgers'["stage"] = accepted /\ ledgers'["delivery"] = ledgers["delivery"]
  BY <1>1 DEF Inv, TypeOK, Runtimes
<1>3. TypeOK'
  BY <1>1, <1>2 DEF Inv, TypeOK
<1>4. EvidenceInv'
  BY <1>1, <1>2 DEF Inv, EvidenceInv, GoodLedger, GoodEvidence, IsDeclared
<1> QED
  BY <1>1, <1>3, <1>4, LedgersArePassedOn

LEMMA TurnsGoOnIsTyped ==
    ASSUME TypeOK, TurnsGoOn
    PROVE  env' \in Envs /\ env'.calm = env.calm
<1>1. env \in Envs
  BY DEF TypeOK, Envs
<1>2. env' = [env EXCEPT !.turns = @ + 1]
  BY DEF TurnsGoOn
<1> QED
  BY <1>1, <1>2, EnvIsTyped

LEMMA FollowUpStep ==
    ASSUME Inv, FollowUp
    PROVE  Inv'
<1>1. /\ UNCHANGED <<graph, tree, out, history, runner>> /\ ~runner.running
      /\ prior' = history /\ accepted' = EmptyLedger /\ passed' = {}
      /\ ledgers' = [ledgers EXCEPT !["delivery"] = history]
  BY DEF FollowUp
<1>2. ledgers' \in [Runtimes -> Ledgers]
      /\ ledgers'["delivery"] = history /\ ledgers'["stage"] = ledgers["stage"]
  BY <1>1 DEF Inv, TypeOK, Runtimes
<1>3. env' \in Envs /\ env'.calm = env.calm
  BY TurnsGoOnIsTyped DEF Inv, FollowUp
<1>4. TypeOK'
  BY <1>1, <1>2, <1>3, EmptyLedgerIsTyped DEF Inv, TypeOK, Envs
<1>5. EvidenceInv'
  BY <1>1, <1>2, EmptyLedgerIsGood DEF Inv, EvidenceInv, GoodLedger, GoodEvidence, IsDeclared
<1> QED
  BY <1>1, <1>3, <1>4, <1>5, LedgersArePassedOn

LEMMA DeliveryResumesStep ==
    ASSUME Inv, DeliveryResumes
    PROVE  Inv'
<1>1. /\ UNCHANGED <<graph, tree, out, accepted, prior, history, runner, passed>>
      /\ ~runner.running /\ ledgers' = [ledgers EXCEPT !["delivery"] = prior]
  BY DEF DeliveryResumes
<1>2. ledgers' \in [Runtimes -> Ledgers]
      /\ ledgers'["delivery"] = prior /\ ledgers'["stage"] = ledgers["stage"]
  BY <1>1 DEF Inv, TypeOK, Runtimes
<1>3. env' \in Envs /\ env'.calm = env.calm
  BY TurnsGoOnIsTyped DEF Inv, DeliveryResumes
<1>4. TypeOK'
  BY <1>1, <1>2, <1>3 DEF Inv, TypeOK, Envs
<1>5. EvidenceInv'
  BY <1>1, <1>2 DEF Inv, EvidenceInv, GoodLedger, GoodEvidence, IsDeclared
<1> QED
  BY <1>1, <1>3, <1>4, <1>5, LedgersArePassedOn

LEMMA BeginsAfreshStep ==
    ASSUME Inv, BeginsAfresh
    PROVE  Inv'
<1>1. /\ UNCHANGED <<graph, tree, out, history, runner>> /\ ~runner.running
      /\ prior' = EmptyLedger /\ accepted' = EmptyLedger /\ passed' = {}
      /\ ledgers' = [ledgers EXCEPT !["delivery"] = EmptyLedger]
  BY DEF BeginsAfresh
<1>2. ledgers' \in [Runtimes -> Ledgers]
      /\ ledgers'["delivery"] = EmptyLedger /\ ledgers'["stage"] = ledgers["stage"]
  BY <1>1, EmptyLedgerIsTyped DEF Inv, TypeOK, Runtimes
<1>3. env' \in Envs /\ env'.calm = env.calm
  BY TurnsGoOnIsTyped DEF Inv, BeginsAfresh
<1>4. TypeOK'
  BY <1>1, <1>2, <1>3, EmptyLedgerIsTyped DEF Inv, TypeOK, Envs
<1>5. EvidenceInv'
  BY <1>1, <1>2, EmptyLedgerIsGood DEF Inv, EvidenceInv, GoodLedger, GoodEvidence, IsDeclared
<1> QED
  BY <1>1, <1>3, <1>4, <1>5, LedgersArePassedOn

-----------------------------------------------------------------------------
(* What others do *)

\* Of the session's events, nothing but evidence is known to the rest.
LEMMA HistoryTrimmedStep ==
    ASSUME Inv, HistoryTrimmed
    PROVE  Inv'
<1>1. UNCHANGED <<graph, tree, out, ledgers, accepted, prior, runner, passed>>
  BY DEF HistoryTrimmed
<1>2. PICK c \in Checks : history' = [history EXCEPT ![c] = None]
  BY DEF HistoryTrimmed
<1>3. history' \in Ledgers /\ GoodLedger(history)
  BY <1>2 DEF Inv, TypeOK, EvidenceInv, Ledgers
<1>4. env' \in Envs /\ env'.calm = env.calm
  BY TurnsGoOnIsTyped DEF Inv, HistoryTrimmed
<1>5. TypeOK'
  BY <1>1, <1>3, <1>4 DEF Inv, TypeOK, Envs
<1>6. EvidenceInv'
  <2>1. GoodLedger(history)'
    BY <1>1, <1>2, <1>3 DEF GoodLedger, GoodEvidence, IsDeclared, Inv, TypeOK, Ledgers
  <2> QED
    BY <1>1, <2>1 DEF Inv, EvidenceInv, GoodLedger, GoodEvidence, IsDeclared
<1>7. PlanInv'
  BY <1>1 DEF Inv, PlanInv, InOrderAfter, Behind, Settled, ClosedIn
<1>8. PassedInv'
  BY <1>1 DEF Inv, PassedInv, ClosedIn
<1>9. ResultInv'
  BY <1>1, <1>4 DEF Inv, ResultInv, Behind, Settled, ledger, Matches, InputFingerprint,
                    DependencyOutputs, Stands
<1> QED
  BY <1>5, <1>6, <1>7, <1>8, <1>9 DEF Inv

\* Nothing is promised of the results of a plan that others write under.
LEMMA WritingKeepsInv ==
    ASSUME Inv, TypeOK', UNCHANGED <<graph, ledgers, accepted, prior, history, runner, passed>>,
           ~env'.calm
    PROVE  Inv'
<1>1. EvidenceInv'
  BY DEF Inv, EvidenceInv, GoodLedger, GoodEvidence, IsDeclared
<1>2. PlanInv'
  BY DEF Inv, PlanInv, InOrderAfter, Behind, Settled, ClosedIn
<1>3. PassedInv'
  BY DEF Inv, PassedInv, ClosedIn
<1>4. ResultInv'
  BY DEF ResultInv
<1> QED
  BY <1>1, <1>2, <1>3, <1>4 DEF Inv

LEMMA EditStep ==
    ASSUME Inv, Edit
    PROVE  Inv'
<1>1. UNCHANGED <<graph, out, ledgers, accepted, prior, history, runner, passed>>
  BY DEF Edit
<1>2. tree' \in [Checks -> Contents]
  BY DEF Edit, Inv, TypeOK
<1>3. env' \in Envs /\ ~env'.calm
  <2>1. env \in Envs
    BY DEF Inv, TypeOK, Envs
  <2>2. env' = [env EXCEPT !.edits = @ + 1, !.calm = FALSE]
    BY DEF Edit
  <2> QED
    BY <2>1, <2>2, EnvIsTyped
<1>4. TypeOK'
  BY <1>1, <1>2, <1>3 DEF Inv, TypeOK, Envs
<1> QED
  BY <1>1, <1>3, <1>4, WritingKeepsInv

LEMMA OutputChangesStep ==
    ASSUME Inv, OutputChanges
    PROVE  Inv'
<1>1. UNCHANGED <<graph, tree, ledgers, accepted, prior, history, runner, passed>>
  BY DEF OutputChanges
<1>2. out' \in [Checks -> Contents \cup {None}]
  BY GraphHasItsShape DEF OutputChanges, Inv, TypeOK
<1>3. env' \in Envs /\ ~env'.calm
  <2>1. env \in Envs
    BY DEF Inv, TypeOK, Envs
  <2>2. env' = [env EXCEPT !.edits = @ + 1, !.calm = FALSE]
    BY DEF OutputChanges
  <2> QED
    BY <2>1, <2>2, EnvIsTyped
<1>4. TypeOK'
  BY <1>1, <1>2, <1>3 DEF Inv, TypeOK, Envs
<1> QED
  BY <1>1, <1>3, <1>4, WritingKeepsInv

-----------------------------------------------------------------------------
(* A plan begins and ends *)

LEMMA RunsStep ==
    ASSUME Inv, NEW by \in Runtimes, NEW wanted \in SUBSET Checks, Runs(by, wanted)
    PROVE  Inv'
<1> DEFINE s == WithDependencies(wanted)
<1>1. /\ TypeOK' /\ ClosedIn(s, graph.depends)
      /\ IsPlan(runner'.plan, graph.depends, runner'.selected)
      /\ runner' = Planned(by, s)
  BY RunsIsTyped DEF Inv
<1>2. /\ runner'.selected = s /\ runner'.failed = {} /\ runner'.check = None
      /\ runner'.running = TRUE
  BY <1>1 DEF Planned
<1> HIDE DEF s
<1>3. UNCHANGED <<graph, tree, out, ledgers, accepted, prior, history>> /\ passed' = {}
  BY DEF Runs
<1>4. RangeOf(runner'.plan) = s /\ Once(runner'.plan)
  BY <1>1, <1>2 DEF IsPlan, RangeOf, Once
<1>5. InOrderAfter(runner.plan, {})'
  <2>1. \A i \in DOMAIN runner'.plan : \A d \in graph.depends[runner'.plan[i]] :
            \E j \in DOMAIN runner'.plan : j < i /\ runner'.plan[j] = d
    BY <1>1 DEF IsPlan
  <2>2. graph' = graph
    BY <1>3
  <2> QED
    BY <2>1, <2>2 DEF InOrderAfter
<1>6. Settled' = {} /\ Behind' = {}
  BY <1>2, <1>4 DEF Settled, Behind, RangeOf
<1>7. EvidenceInv'
  BY <1>3 DEF Inv, EvidenceInv, GoodLedger, GoodEvidence, IsDeclared
<1>8. PlanInv'
  BY <1>1, <1>2, <1>3, <1>4, <1>5, <1>6 DEF PlanInv, ClosedIn, InOrderAfter
<1>9. PassedInv'
  BY <1>2, <1>3 DEF PassedInv, ClosedIn
<1>10. ResultInv'
  BY <1>2, <1>3, <1>6 DEF ResultInv
<1> QED
  BY <1>1, <1>7, <1>8, <1>9, <1>10 DEF Inv

LEMMA CutOffIsTyped ==
    ASSUME TypeOK, CommandIsCutOff
    PROVE  out' \in [Checks -> Contents \cup {None}] /\ (runner.check = None => out' = out)
<1>1. CASE runner.check = None
  BY <1>1 DEF CommandIsCutOff, TypeOK
<1>2. CASE runner.check # None
  BY <1>2 DEF CommandIsCutOff, TypeOK, Produces
<1> QED
  BY <1>1, <1>2

\* A plan that is given up leaves the runner idle.
LEMMA PlanIsGivenUp ==
    ASSUME Inv, TypeOK', EvidenceInv', UNCHANGED <<graph, tree, accepted, passed>>,
           runner' = Idle, runner.check = None => out' = out, env'.calm => env.calm
    PROVE  Inv'
<1>1. PlanInv' /\ Behind' = {} /\ runner'.check = None /\ ~runner'.running
  BY IdleRunnerNext
<1>2. PassedInv'
  BY <1>1 DEF Inv, PassedInv, ClosedIn
<1>3. ResultInv'
  <2>1. ASSUME env'.calm, NEW c \in passed' PROVE Matches(accepted, c)'
    <3>1. runner.check = None
      BY <2>1, IdleRunner DEF Inv, PassedInv
    <3>2. out' = out /\ Matches(accepted, c)
      BY <2>1, <3>1 DEF Inv, ResultInv
    <3> QED
      BY <3>2 DEF Matches, InputFingerprint, DependencyOutputs, Stands
  <2> QED
    BY <1>1, <2>1 DEF ResultInv
<1> QED
  BY <1>1, <1>2, <1>3 DEF Inv

LEMMA ExecutorFailsStep ==
    ASSUME Inv, ExecutorFails
    PROVE  Inv'
<1>1. /\ UNCHANGED <<graph, tree, ledgers, accepted, prior, history, passed, env>>
      /\ runner' = Idle /\ CommandIsCutOff
  BY DEF ExecutorFails
<1>2. out' \in [Checks -> Contents \cup {None}] /\ (runner.check = None => out' = out)
  BY <1>1, CutOffIsTyped DEF Inv
<1>3. TypeOK'
  BY <1>1, <1>2, IdleIsTyped DEF Inv, TypeOK, Runners
<1>4. EvidenceInv'
  BY <1>1 DEF Inv, EvidenceInv, GoodLedger, GoodEvidence, IsDeclared
<1> QED
  BY <1>1, <1>2, <1>3, <1>4, PlanIsGivenUp

LEMMA DaemonStopStep ==
    ASSUME Inv, DaemonStop
    PROVE  Inv'
<1>1. /\ UNCHANGED <<graph, tree, accepted, prior, history, passed>>
      /\ ledgers' = [r \in Runtimes |-> IF r = "delivery" THEN prior ELSE EmptyLedger]
      /\ runner' = Idle /\ CommandIsCutOff
  BY DEF DaemonStop
<1>2. out' \in [Checks -> Contents \cup {None}] /\ (runner.check = None => out' = out)
  BY <1>1, CutOffIsTyped DEF Inv
<1>3. env' \in Envs /\ env'.calm = env.calm
  BY TurnsGoOnIsTyped DEF Inv, DaemonStop
<1>4. /\ ledgers' \in [Runtimes -> Ledgers]
      /\ ledgers'["delivery"] = prior /\ ledgers'["stage"] = EmptyLedger
  BY <1>1, EmptyLedgerIsTyped DEF Inv, TypeOK, Runtimes
<1>5. TypeOK'
  BY <1>1, <1>2, <1>3, <1>4, IdleIsTyped DEF Inv, TypeOK, Runners, Envs
<1>6. EvidenceInv'
  BY <1>1, <1>4, EmptyLedgerIsGood DEF Inv, EvidenceInv, GoodLedger, GoodEvidence, IsDeclared
<1> QED
  BY <1>1, <1>2, <1>3, <1>5, <1>6, PlanIsGivenUp

\* At the end of a plan without a failure all that was selected is behind the runner.
LEMMA PlanEndsStep ==
    ASSUME Inv, PlanEnds
    PROVE  Inv'
<1>1. /\ UNCHANGED <<graph, tree, out, ledgers, prior, history, env>> /\ runner' = Idle
      /\ runner.running /\ runner.check = None /\ runner.plan = <<>>
  BY DEF PlanEnds
<1>2. CASE UNCHANGED <<accepted, passed>>
  <2>1. TypeOK'
    BY <1>1, <1>2, IdleIsTyped DEF Inv, TypeOK, Runners
  <2>2. EvidenceInv'
    BY <1>1, <1>2 DEF Inv, EvidenceInv, GoodLedger, GoodEvidence, IsDeclared
  <2> QED
    BY <1>1, <1>2, <2>1, <2>2, PlanIsGivenUp
<1>3. CASE /\ runner.by = "delivery" /\ accepted' = ledgers["delivery"]
           /\ passed' = IF runner.failed = {} THEN runner.selected ELSE {}
  <2>1. TypeOK'
    <3>1. accepted' \in Ledgers /\ passed' \in SUBSET Checks
      BY <1>3 DEF Inv, TypeOK, Runtimes
    <3> QED
      BY <1>1, <3>1, IdleIsTyped DEF Inv, TypeOK, Runners
  <2>2. EvidenceInv'
    BY <1>1, <1>3 DEF Inv, EvidenceInv, GoodLedger, GoodEvidence, IsDeclared
  <2>3. PlanInv' /\ Behind' = {} /\ runner'.check = None /\ ~runner'.running
    BY <1>1, IdleRunnerNext
  <2>4. passed' = {} \/ passed' = Behind
    <3>1. {runner.plan[i] : i \in DOMAIN runner.plan} = {}
      BY <1>1
    <3>2. Settled = runner.selected
      BY <1>1, <3>1, NoneIsNoContent DEF Settled, Inv, TypeOK
    <3> QED
      BY <1>3, <3>2 DEF Behind
  <2>5. PassedInv'
    BY <1>1, <2>3, <2>4 DEF Inv, PlanInv, PassedInv, ClosedIn
  <2>6. ResultInv'
    <3>1. ASSUME env'.calm, NEW c \in passed' PROVE Matches(accepted, c)'
      <4>1. Matches(ledgers["delivery"], c)
        BY <1>1, <1>3, <2>4, <3>1 DEF Inv, ResultInv, ledger
      <4> QED
        BY <1>1, <1>3, <4>1 DEF Matches, InputFingerprint, DependencyOutputs, Stands
    <3> QED
      BY <2>3, <3>1 DEF ResultInv
  <2> QED
    BY <2>1, <2>2, <2>3, <2>5, <2>6 DEF Inv
<1> QED
  BY <1>2, <1>3 DEF PlanEnds

-----------------------------------------------------------------------------
(* A plan is worked off *)

\* The next check of a plan rests on settled checks, and the rest of the plan on
\* those and on it.
LEMMA NextCheck ==
    ASSUME Inv, NEW c \in Checks, IsNext(c)
    PROVE  /\ runner.running /\ runner.check = None /\ c # None
           /\ Tail(runner.plan) \in Seq(Checks)
           /\ c \in runner.selected /\ c \in RangeOf(runner.plan)
           /\ RangeOf(Tail(runner.plan)) = RangeOf(runner.plan) \ {c}
           /\ Once(Tail(runner.plan))
           /\ InOrderAfter(Tail(runner.plan), runner.selected \ RangeOf(Tail(runner.plan)))
           /\ Settled = runner.selected \ RangeOf(runner.plan)
           /\ graph.depends[c] \subseteq Settled
<1>1. /\ runner.running /\ runner.check = None /\ runner.plan # <<>> /\ c = Head(runner.plan)
      /\ runner.plan \in Seq(Checks) /\ runner.selected \in SUBSET Checks
  BY DEF IsNext, Inv, TypeOK
<1> DEFINE done == runner.selected \ RangeOf(runner.plan)
<1>2. /\ Once(runner.plan) /\ InOrderAfter(runner.plan, done)
      /\ RangeOf(runner.plan) \subseteq runner.selected
  BY DEF Inv, PlanInv
<1> HIDE DEF done
<1>3. /\ Tail(runner.plan) \in Seq(Checks)
      /\ RangeOf(Tail(runner.plan)) = RangeOf(runner.plan) \ {c}
      /\ c \in RangeOf(runner.plan)
      /\ Once(Tail(runner.plan))
      /\ graph.depends[c] \subseteq done
      /\ InOrderAfter(Tail(runner.plan), done \cup {c})
  BY <1>1, <1>2, PlanAdvances
<1>4. done \cup {c} = runner.selected \ RangeOf(Tail(runner.plan))
  BY <1>2, <1>3 DEF done
<1>5. Settled = done
  BY <1>1, NoneIsNoContent DEF Settled, RangeOf, done
<1> QED
  BY <1>1, <1>2, <1>3, <1>4, <1>5, NoneIsNoContent DEF done

\* What the runner does with the next check: the plan goes on.
LEMMA PlanGoesOn ==
    ASSUME Inv, NEW c \in Checks, IsNext(c), UNCHANGED graph,
           runner'.plan = Tail(runner.plan), runner'.selected = runner.selected,
           \/ /\ runner'.check = None
              /\ \/ runner'.failed = runner.failed \cup {c}
                 \/ runner'.failed = runner.failed /\ FailedDependencies(c) = {}
           \/ /\ runner'.check = c /\ runner'.failed = runner.failed
              /\ FailedDependencies(c) = {}
    PROVE  /\ PlanInv'
           /\ Behind' = IF runner'.check = None /\ runner'.failed = runner.failed
                        THEN Behind \cup {c} ELSE Behind
           /\ c \notin runner.failed /\ c \notin Behind
           /\ FailedDependencies(c) = {} => graph.depends[c] \subseteq Behind
<1>1. /\ runner.running /\ runner.check = None /\ c # None
      /\ c \in runner.selected /\ c \in RangeOf(runner.plan)
      /\ RangeOf(Tail(runner.plan)) = RangeOf(runner.plan) \ {c}
      /\ Once(Tail(runner.plan))
      /\ InOrderAfter(Tail(runner.plan), runner.selected \ RangeOf(Tail(runner.plan)))
      /\ Settled = runner.selected \ RangeOf(runner.plan)
      /\ graph.depends[c] \subseteq Settled
  BY NextCheck
<1>2. /\ ClosedIn(runner.selected, graph.depends) /\ RangeOf(runner.plan) \subseteq runner.selected
      /\ runner.failed \subseteq Settled /\ ClosedIn(Behind, graph.depends)
      /\ runner.selected \subseteq Checks
  BY DEF Inv, PlanInv, TypeOK
<1>3. c \notin Settled /\ c \notin runner.failed /\ c \notin Behind
  BY <1>1, <1>2 DEF Behind
<1>4. FailedDependencies(c) = {} => graph.depends[c] \subseteq Behind
  BY <1>1 DEF FailedDependencies, Behind
<1>5. Settled' = IF runner'.check = None THEN Settled \cup {c} ELSE Settled
  BY <1>1, <1>2, NoneIsNoContent DEF Settled, RangeOf
<1>6. Behind' = IF runner'.check = None /\ runner'.failed = runner.failed THEN Behind \cup {c} ELSE Behind
  BY <1>3, <1>5 DEF Behind
<1>7. ClosedIn(Behind, graph.depends)'
  <2>1. \A b \in Behind : graph.depends[b] \subseteq Behind
    BY <1>2 DEF ClosedIn
  <2>2. CASE Behind' = Behind
    BY <2>1, <2>2 DEF ClosedIn
  <2>3. CASE runner'.failed = runner.failed /\ Behind' = Behind \cup {c}
    <3>1. graph.depends[c] \subseteq Behind
      BY <1>3, <1>4, <2>3
    <3> QED
      BY <2>1, <2>3, <3>1 DEF ClosedIn
  <2> QED
    BY <1>6, <2>2, <2>3
<1>8. InOrderAfter(runner.plan, runner.selected \ RangeOf(runner.plan))'
  BY <1>1 DEF InOrderAfter
<1>9. PlanInv'
  BY <1>1, <1>2, <1>3, <1>4, <1>5, <1>6, <1>7, <1>8 DEF PlanInv, ClosedIn
<1> QED
  BY <1>3, <1>4, <1>6, <1>9

LEMMA SkipCheckStep ==
    ASSUME Inv, SkipCheck
    PROVE  Inv'
<1>1. PICK c \in Checks : IsNext(c) /\ Skips(c)
  BY DEF SkipCheck
<1>2. UNCHANGED <<graph, tree, out, ledgers, accepted, prior, history, passed, env>>
  BY DEF SkipCheck
<1>3. Tail(runner.plan) \in Seq(Checks) /\ runner.running /\ runner.check = None
  BY <1>1, NextCheck
<1>4. runner \in Runners
  BY DEF Inv, TypeOK, Runners
<1>5. /\ runner' \in Runners
      /\ runner'.plan = Tail(runner.plan) /\ runner'.selected = runner.selected
      /\ runner'.check = runner.check /\ runner'.failed = runner.failed \cup {c}
      /\ runner'.running = runner.running /\ runner'.by = runner.by
  BY <1>1, <1>3, <1>4 DEF Skips, Runners
<1>6. PlanInv' /\ Behind' = Behind
  BY <1>1, <1>2, <1>3, <1>5, PlanGoesOn
<1>7. TypeOK'
  BY <1>2, <1>5 DEF Inv, TypeOK, Runners
<1>8. EvidenceInv'
  BY <1>2 DEF Inv, EvidenceInv, GoodLedger, GoodEvidence, IsDeclared
<1>9. PassedInv'
  BY <1>2, <1>3, <1>5 DEF Inv, PassedInv, ClosedIn
<1>10. ResultInv'
  BY <1>2, <1>3, <1>5, <1>6 DEF Inv, ResultInv, ledger, Matches, InputFingerprint,
                                DependencyOutputs, Stands
<1> QED
  BY <1>6, <1>7, <1>8, <1>9, <1>10 DEF Inv

LEMMA LedgerIsGood ==
    ASSUME Inv
    PROVE  ledger \in Ledgers /\ GoodLedger(ledger)
  BY DEF Inv, TypeOK, EvidenceInv, Runtimes, ledger

LEMMA ReuseCheckStep ==
    ASSUME Inv, ReuseCheck
    PROVE  Inv'
<1>1. PICK c \in Checks :
          /\ IsNext(c) /\ FailedDependencies(c) = {} /\ Matches(ledger, c)
          /\ runner' = [runner EXCEPT !.plan = Tail(@)]
          /\ history' = [history EXCEPT ![c] = ledger[c]]
  BY DEF ReuseCheck
<1>2. UNCHANGED <<graph, tree, out, ledgers, accepted, prior, passed, env>>
  BY DEF ReuseCheck
<1>3. Tail(runner.plan) \in Seq(Checks) /\ runner.running /\ runner.check = None
  BY <1>1, NextCheck
<1>4. runner \in Runners
  BY DEF Inv, TypeOK, Runners
<1>5. /\ runner' \in Runners
      /\ runner'.plan = Tail(runner.plan) /\ runner'.selected = runner.selected
      /\ runner'.check = runner.check /\ runner'.failed = runner.failed
      /\ runner'.running = runner.running /\ runner'.by = runner.by
  BY <1>1, <1>3, <1>4 DEF Runners
<1>6. PlanInv' /\ Behind' = Behind \cup {c}
  BY <1>1, <1>2, <1>3, <1>5, PlanGoesOn
<1>7. ledger[c] \in CheckEvidence /\ GoodEvidence(ledger[c], c)
  BY <1>1, LedgerIsGood DEF Matches, Ledgers, GoodLedger
<1>8. history' \in Ledgers /\ GoodLedger(history)'
  BY <1>1, <1>2, <1>7 DEF Inv, TypeOK, EvidenceInv, Ledgers, GoodLedger, GoodEvidence, IsDeclared
<1>9. TypeOK'
  BY <1>2, <1>5, <1>8 DEF Inv, TypeOK, Runners
<1>10. EvidenceInv'
  BY <1>2, <1>8 DEF Inv, EvidenceInv, GoodLedger, GoodEvidence, IsDeclared
<1>11. PassedInv'
  BY <1>2, <1>3, <1>5 DEF Inv, PassedInv, ClosedIn
<1>12. ResultInv'
  <2>1. ledger' = ledger /\ runner'.check = None
    BY <1>2, <1>3, <1>5 DEF ledger
  <2>2. ASSUME env'.calm, NEW d \in Behind' PROVE Matches(ledger, d)'
    <3>1. Matches(ledger, d)
      BY <1>1, <1>2, <1>6, <2>2 DEF Inv, ResultInv
    <3> QED
      BY <1>2, <2>1, <3>1 DEF Matches, InputFingerprint, DependencyOutputs, Stands
  <2>3. ASSUME env'.calm, NEW d \in passed' PROVE Matches(accepted, d)'
    <3>1. Matches(accepted, d)
      BY <1>2, <2>3 DEF Inv, ResultInv
    <3> QED
      BY <1>2, <3>1 DEF Matches, InputFingerprint, DependencyOutputs, Stands
  <2> QED
    BY <2>1, <2>2, <2>3 DEF ResultInv
<1> QED
  BY <1>6, <1>9, <1>10, <1>11, <1>12 DEF Inv

LEMMA BeginCheckStep ==
    ASSUME Inv, BeginCheck
    PROVE  Inv'
<1>1. PICK c \in Checks :
          /\ IsNext(c) /\ FailedDependencies(c) = {}
          /\ runner' = [runner EXCEPT !.plan = Tail(@), !.check = c,
                            !.input = InputFingerprint(c), !.deps = DependencyOutputs(ledger, c)]
  BY DEF BeginCheck
<1>2. UNCHANGED <<graph, tree, out, ledgers, accepted, prior, history, passed, env>>
  BY DEF BeginCheck
<1>3. /\ Tail(runner.plan) \in Seq(Checks) /\ runner.running /\ runner.check = None
      /\ c # None
  BY <1>1, NextCheck
<1>4. runner \in Runners
  BY DEF Inv, TypeOK, Runners
<1>5. InputFingerprint(c) \in Contents \cup {None} /\ DependencyOutputs(ledger, c) \in Fingerprints
  BY LedgerIsGood, FingerprintsAreTyped DEF Inv
<1>6. /\ runner' \in Runners
      /\ runner'.plan = Tail(runner.plan) /\ runner'.selected = runner.selected
      /\ runner'.check = c /\ runner'.failed = runner.failed
      /\ runner'.running = runner.running /\ runner'.by = runner.by
      /\ runner'.input = InputFingerprint(c) /\ runner'.deps = DependencyOutputs(ledger, c)
  BY <1>1, <1>3, <1>4, <1>5 DEF Runners
<1>7. PlanInv' /\ Behind' = Behind
  BY <1>1, <1>2, <1>3, <1>6, PlanGoesOn
<1>8. TypeOK'
  BY <1>2, <1>6 DEF Inv, TypeOK, Runners
<1>9. EvidenceInv'
  BY <1>2 DEF Inv, EvidenceInv, GoodLedger, GoodEvidence, IsDeclared
<1>10. PassedInv'
  BY <1>2, <1>3, <1>6 DEF Inv, PassedInv, ClosedIn
<1>11. ResultInv'
  <2>1. ledger' = ledger
    BY <1>2, <1>6 DEF ledger
  <2>2. ASSUME env'.calm, NEW d \in Behind' PROVE Matches(ledger, d)'
    <3>1. Matches(ledger, d)
      BY <1>2, <1>7, <2>2 DEF Inv, ResultInv
    <3> QED
      BY <1>2, <2>1, <3>1 DEF Matches, InputFingerprint, DependencyOutputs, Stands
  <2>3. ASSUME env'.calm, NEW d \in passed' PROVE Matches(accepted, d)'
    <3>1. Matches(accepted, d)
      BY <1>2, <2>3 DEF Inv, ResultInv
    <3> QED
      BY <1>2, <3>1 DEF Matches, InputFingerprint, DependencyOutputs, Stands
  <2>4. /\ runner'.input = InputFingerprint(runner.check)'
        /\ runner'.deps = DependencyOutputs(ledger, runner.check)'
    BY <1>2, <1>6, <2>1 DEF InputFingerprint, DependencyOutputs, Stands
  <2> QED
    BY <2>2, <2>3, <2>4 DEF ResultInv
<1> QED
  BY <1>7, <1>8, <1>9, <1>10, <1>11 DEF Inv

\* The check under way is selected, rests on what is behind the runner, and is not
\* behind it itself.
LEMMA CheckUnderWay ==
    ASSUME Inv, runner.check # None
    PROVE  /\ runner.running /\ passed = {}
           /\ runner.check \in Checks /\ runner.check \notin Settled
           /\ runner.check \in runner.selected \ RangeOf(runner.plan)
           /\ graph.depends[runner.check] \subseteq Behind
           /\ Behind \in SUBSET Checks
           /\ \A b \in Behind : graph.depends[b] \subseteq Behind /\ b # runner.check
<1>1. runner.running
  BY IdleRunner DEF Inv, PassedInv
<1> QED
  BY <1>1 DEF Inv, PassedInv, PlanInv, TypeOK, ClosedIn, Behind, Settled

\* The evidence that a command leaves is good.
LEMMA ResultIsGood ==
    ASSUME Inv, runner.check # None, NEW o \in Produces(runner.check),
           NEW says \in Says(runner.check), NEW success,
           success => says /\ (runner.check \in graph.outputs => o # None)
    PROVE  GoodEvidence(Evidence(runner.check, o, success), runner.check)
<1> DEFINE c == runner.check
           e == Evidence(c, o, success)
<1>1. /\ e.input = runner.input /\ e.deps = runner.deps /\ e.output = o
      /\ e.success = success /\ e.calm = env.calm
  BY DEF Evidence
<1> HIDE DEF e
<1>2. ASSUME success PROVE e.output # None <=> c \in graph.outputs
  BY <1>1, <1>2 DEF Produces
<1>3. ASSUME success, env.calm, IsDeclared(c) PROVE Verdict(e.input, e.deps)
  <2>1. \A d \in graph.depends[c] : Matches(ledger, d)
    BY <1>3, CheckUnderWay DEF Inv, ResultInv
  <2>2. DependencyOutputs(ledger, c) = Found(c)
    BY <1>3, <2>1, CheckUnderWay, LedgerIsGood, KnownIsFound DEF Inv
  <2>3. e.input = tree[c] /\ e.deps = Found(c)
    BY <1>1, <1>3, <2>2 DEF Inv, ResultInv, InputFingerprint, IsDeclared
  <2>4. Verdict(tree[c], Found(c))
    BY <1>3 DEF Says
  <2> QED
    BY <2>3, <2>4
<1> QED
  BY <1>1, <1>2, <1>3 DEF GoodEvidence, e

LEMMA ResultIsTyped ==
    ASSUME Inv, runner.check # None, NEW o \in Produces(runner.check),
           NEW success \in BOOLEAN
    PROVE  Evidence(runner.check, o, success) \in CheckEvidence
           /\ o \in Contents \cup {None}
<1>1. o \in Contents \cup {None}
  BY DEF Produces
<1>2. runner.input \in Contents \cup {None} /\ runner.deps \in Fingerprints
      /\ env.calm \in BOOLEAN
  BY DEF Inv, TypeOK
<1> QED
  BY <1>1, <1>2 DEF Evidence, CheckEvidence

LEMMA SaysIsBoolean ==
    ASSUME TypeOK, NEW c \in Checks, NEW says \in Says(c)
    PROVE  says \in BOOLEAN
<1>1. EmptyLedger \in Ledgers /\ tree[c] \in Contents
  BY EmptyLedgerIsTyped DEF TypeOK
<1>2. Found(c) \in Fingerprints
  BY <1>1, FingerprintsAreTyped
<1>3. Verdict(tree[c], Found(c)) \in BOOLEAN
  BY <1>1, <1>2, VerdictIsBoolean
<1> QED
  BY <1>3 DEF Says

\* A result is recorded: what is behind the runner stands as it was, and so does the
\* result itself if it passed.
LEMMA FinishCheckStep ==
    ASSUME Inv, FinishCheck
    PROVE  Inv'
<1>1. /\ UNCHANGED <<graph, tree, accepted, prior, passed, env>>
      /\ runner.running /\ runner.check # None
  BY DEF FinishCheck
<1>0. PICK c \in Checks : c = runner.check
  BY <1>1, CheckUnderWay
<1>a. PICK o \in Produces(runner.check), says \in Says(runner.check), timed_out \in BOOLEAN :
          LET success == says /\ ~timed_out /\ (runner.check \in graph.outputs => o # None)
              evidence == Evidence(runner.check, o, success)
          IN  /\ out' = [out EXCEPT ![runner.check] = o]
              /\ ledgers' = [ledgers EXCEPT ![runner.by][runner.check] = evidence]
              /\ history' = [history EXCEPT ![runner.check] = evidence]
              /\ runner' = [runner EXCEPT !.check = None, !.input = None,
                               !.deps = NoFingerprints,
                               !.failed = IF success THEN @ ELSE @ \cup {runner.check}]
  BY DEF FinishCheck
<1>2. /\ o \in Produces(c) /\ says \in Says(c) /\ timed_out \in BOOLEAN
      /\ LET success == says /\ ~timed_out /\ (c \in graph.outputs => o # None)
             evidence == Evidence(c, o, success)
         IN  /\ out' = [out EXCEPT ![c] = o]
             /\ ledgers' = [ledgers EXCEPT ![runner.by][c] = evidence]
             /\ history' = [history EXCEPT ![c] = evidence]
             /\ runner' = [runner EXCEPT !.check = None, !.input = None,
                              !.deps = NoFingerprints,
                              !.failed = IF success THEN @ ELSE @ \cup {c}]
  BY <1>0, <1>a
<1> DEFINE success == says /\ ~timed_out /\ (c \in graph.outputs => o # None)
           e == Evidence(c, o, success)
           failed == IF success THEN runner.failed ELSE runner.failed \cup {c}
<1>3. /\ c \in Checks /\ passed = {}
      /\ c \in runner.selected \ RangeOf(runner.plan) /\ c \notin Settled
      /\ graph.depends[c] \subseteq Behind /\ Behind \in SUBSET Checks
      /\ \A b \in Behind : graph.depends[b] \subseteq Behind /\ b # c
  BY <1>1, <1>0, CheckUnderWay
<1>4. success \in BOOLEAN
  BY <1>3, SaysIsBoolean DEF Inv
<1>5. /\ e \in CheckEvidence /\ o \in Contents \cup {None} /\ GoodEvidence(e, c)
  BY <1>1, <1>4, <1>0, ResultIsTyped, ResultIsGood
<1>6. /\ e.input = runner.input /\ e.deps = runner.deps /\ e.output = o
      /\ e.success = success
  BY DEF Evidence
<1>7. runner \in Runners
  BY DEF Inv, TypeOK, Runners
<1>8. runner' = [runner EXCEPT !.check = None, !.input = None, !.deps = NoFingerprints,
                               !.failed = failed]
  BY <1>2
<1>9. failed \in SUBSET Checks
  BY <1>3, <1>7 DEF Runners
<1>10. /\ out' = [out EXCEPT ![c] = o]
       /\ ledgers' = [ledgers EXCEPT ![runner.by][c] = e]
       /\ history' = [history EXCEPT ![c] = e]
  BY <1>2
<1>11. (success \in BOOLEAN) /\ (failed = IF success THEN runner.failed ELSE runner.failed \cup {c})
  BY <1>4
<1> HIDE DEF e, success, failed
<1>12. /\ runner' \in Runners
       /\ runner'.plan = runner.plan /\ runner'.selected = runner.selected
       /\ runner'.check = None /\ runner'.failed = failed
       /\ runner'.running = runner.running /\ runner'.by = runner.by
  BY <1>7, <1>8, <1>9, NoFingerprintsIsTyped DEF Runners
<1>13. /\ ledgers' \in [Runtimes -> Ledgers] /\ history' \in Ledgers
       /\ ledger' = [ledger EXCEPT ![c] = e]
       /\ \A r \in Runtimes : r # runner.by => ledgers'[r] = ledgers[r]
  BY <1>3, <1>5, <1>7, <1>10, <1>12 DEF Inv, TypeOK, Ledgers, ledger, Runners
<1>14. TypeOK'
  BY <1>1, <1>3, <1>5, <1>10, <1>12, <1>13 DEF Inv, TypeOK, Runners
<1>15. EvidenceInv'
  <2>1. GoodLedger(ledger)' /\ GoodLedger(history)'
    BY <1>1, <1>3, <1>5, <1>10, <1>13, LedgerIsGood
       DEF Inv, TypeOK, EvidenceInv, Ledgers, GoodLedger, GoodEvidence, IsDeclared
  <2>2. \A r \in Runtimes : GoodLedger(ledgers[r])'
    <3>1. ASSUME NEW r \in Runtimes, r # runner.by PROVE GoodLedger(ledgers[r])'
      <4>1. ledgers'[r] = ledgers[r] /\ GoodLedger(ledgers[r])
        BY <1>13, <3>1 DEF Inv, EvidenceInv, Runtimes
      <4> QED
        BY <1>1, <4>1 DEF GoodLedger, GoodEvidence, IsDeclared
    <3>2. GoodLedger(ledgers[runner.by])'
      BY <1>12, <2>1 DEF ledger
    <3> QED
      BY <3>1, <3>2, <1>12
  <2> QED
    BY <1>1, <2>1, <2>2 DEF Inv, EvidenceInv, GoodLedger, GoodEvidence, IsDeclared, Runtimes
<1>16. /\ Settled' = Settled \cup {c}
       /\ Behind' = IF success THEN Behind \cup {c} ELSE Behind
  <2>1. Settled' = Settled \cup {c}
    BY <1>3, <1>12, <1>0, NoneIsNoContent DEF Settled, RangeOf, Inv, TypeOK
  <2>2. c \notin runner.failed
    BY <1>3 DEF Inv, PlanInv
  <2> QED
    BY <1>3, <1>11, <1>12, <2>1, <2>2 DEF Behind
<1>17. PlanInv'
  <2>1. ClosedIn(Behind, graph.depends)'
    <3>1. \A b \in Behind : graph.depends[b] \subseteq Behind
      BY <1>3
    <3>2. CASE Behind' = Behind
      BY <1>1, <3>1, <3>2 DEF ClosedIn
    <3>3. CASE Behind' = Behind \cup {c}
      BY <1>1, <1>3, <3>1, <3>3 DEF ClosedIn
    <3> QED
      BY <1>16, <3>2, <3>3
  <2>2. InOrderAfter(runner.plan, runner.selected \ RangeOf(runner.plan))'
    BY <1>1, <1>12 DEF Inv, PlanInv, InOrderAfter
  <2> QED
    BY <1>1, <1>11, <1>12, <1>16, <2>1, <2>2 DEF Inv, PlanInv, ClosedIn
<1>18. PassedInv'
  BY <1>1, <1>3, <1>12 DEF PassedInv, ClosedIn
<1>19. ResultInv'
  <2>1. ASSUME env.calm, NEW b \in Behind PROVE Matches(ledger, b)'
    <3>1. Matches(ledger, b) /\ b # c /\ c \notin graph.depends[b] /\ b \in Checks
      BY <1>3, <2>1 DEF Inv, ResultInv
    <3>2. /\ ledger'[b] = ledger[b] /\ out'[b] = out[b]
          /\ \A d \in graph.depends[b] : ledger'[d] = ledger[d]
      BY <1>3, <1>10, <1>13, <3>1, LedgerIsGood DEF Ledgers, Inv, TypeOK
    <3> QED
      BY <1>1, <3>1, <3>2 DEF Matches, InputFingerprint, DependencyOutputs, Stands
  <2>2. ASSUME env.calm, success PROVE Matches(ledger, c)'
    <3>1. c \notin graph.depends[c]
      BY <1>3
    <3>2. /\ ledger'[c] = e /\ out'[c] = o /\ e # None
          /\ \A d \in graph.depends[c] : ledger'[d] = ledger[d]
      BY <1>3, <1>5, <1>10, <1>13, <3>1, LedgerIsGood, NoneIsNoEvidence DEF Ledgers, Inv, TypeOK
    <3>3. /\ e.input = InputFingerprint(c) /\ e.deps = DependencyOutputs(ledger, c)
      BY <1>1, <1>6, <1>0, <2>2 DEF Inv, ResultInv
    <3>4. DependencyOutputs(ledger, c)' = DependencyOutputs(ledger, c)
      BY <1>1, <1>12, <3>2 DEF DependencyOutputs, Stands
    <3>5. InputFingerprint(c)' = InputFingerprint(c)
      BY <1>1, <1>12 DEF InputFingerprint
    <3> QED
      BY <1>6, <2>2, <3>2, <3>3, <3>4, <3>5 DEF Matches
  <2>3. ASSUME env'.calm, NEW b \in Behind' PROVE Matches(ledger, b)'
    BY <1>1, <1>16, <2>1, <2>2, <2>3
  <2> QED
    BY <1>1, <1>3, <1>12, <2>3 DEF ResultInv
<1> QED
  BY <1>14, <1>15, <1>17, <1>18, <1>19 DEF Inv

-----------------------------------------------------------------------------
(* Theorems *)

LEMMA NextKeepsInv ==
    ASSUME Inv, [Next]_vars
    PROVE  Inv'
<1>1. ASSUME RunChecks \/ RunNamed PROVE Inv'
  BY <1>1, RunsStep DEF RunChecks, RunNamed, Runtimes
<1>2. ASSUME SkipCheck \/ ReuseCheck \/ BeginCheck \/ FinishCheck PROVE Inv'
  BY <1>2, SkipCheckStep, ReuseCheckStep, BeginCheckStep, FinishCheckStep
<1>3. ASSUME ExecutorFails \/ PlanEnds \/ DaemonStop PROVE Inv'
  BY <1>3, ExecutorFailsStep, PlanEndsStep, DaemonStopStep
<1>4. ASSUME ChecksAreCleared \/ StageBegins \/ FollowUp \/ DeliveryResumes \/ BeginsAfresh
      PROVE Inv'
  BY <1>4, ChecksAreClearedStep, StageBeginsStep, FollowUpStep, DeliveryResumesStep,
     BeginsAfreshStep
<1>5. ASSUME HistoryTrimmed \/ Edit \/ OutputChanges PROVE Inv'
  BY <1>5, HistoryTrimmedStep, EditStep, OutputChangesStep
<1> QED
  BY <1>1, <1>2, <1>3, <1>4, <1>5, StutterKeepsInv DEF Next

LEMMA InvHolds == Spec => []Inv
<1>1. Init => Inv
  BY InitHolds
<1>2. Inv /\ [Next]_vars => Inv'
  BY NextKeepsInv
<1> QED
  BY <1>1, <1>2, PTL DEF Spec

\* The ledgers, the runner and what is on disk keep their shape (checks.rs:48-84).
THEOREM CheckTypesCorrect == Spec => []TypeOK
<1>1. Inv => TypeOK
  BY DEF Inv
<1> QED
  BY <1>1, InvHolds, PTL

\* Evidence that check_evidence_is_current takes for current (checks.rs:151) is true of
\* the tree and the outputs as they are, whatever was edited, resumed or trimmed.
THEOREM CurrentEvidenceHolds == Spec => []CurrentEvidenceIsTrue
<1>1. Inv => CurrentEvidenceIsTrue
  BY InvIsEnough
<1> QED
  BY <1>1, InvHolds, PTL

\* What run_plan passed (checks.rs:735) the review and the commit find current.
THEOREM PassedPlansAreCurrent == Spec => []PassedPlanIsCurrent
<1>1. Inv => PassedPlanIsCurrent
  BY InvIsEnough
<1> QED
  BY <1>1, InvHolds, PTL

\* In a plan nothing that passes or runs rests on a failure (checks.rs:750-793).
THEOREM NothingRestsOnFailure == Spec => []PassedRestsOnPassed
<1>1. Inv => PassedRestsOnPassed
  BY InvIsEnough
<1> QED
  BY <1>1, InvHolds, PTL
=============================================================================
