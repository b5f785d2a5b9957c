------------------------------ MODULE TaskProofs ------------------------------
(* For every plan, every budget and every order of events: a multi-Task run    *)
(* keeps its shape and always passes its own validation, the Tasks that were   *)
(* delivered stay and form a chain of repositories, usage is counted once, and *)
(* a run that is Ready met its plan.  The inductive invariant says in addition *)
(* what waits beside the active Task, what a Task keeps of its contract, and   *)
(* where each mark of a child comes from.                                      *)
(* The first part is about sums over finite functions (SumFunction), which the *)
(* counters are: what one changed value, one value more or values of zero do   *)
(* to a sum.  Induction over finite sets is the well-foundedness of strict     *)
(* inclusion.                                                                  *)
EXTENDS TaskQueue, FiniteSetTheorems, TLAPS

-----------------------------------------------------------------------------
(* Induction *)

\* A set of subsets of S that holds whatever all smaller ones of its kind hold holds S.
LEMMA SubsetInduction ==
    ASSUME NEW S, IsFiniteSet(S), NEW H \in SUBSET SUBSET S,
           \A s \in SUBSET S : (\A t \in SUBSET s : t # s => t \in H) => s \in H
    PROVE  \A s \in SUBSET S : s \in H
<1> DEFINE R == StrictSubsetOrdering(S)
           T == (SUBSET S) \ H
<1>1. IsWellFoundedOn(R, SUBSET S)
  BY FS_StrictSubsetOrderingWellFounded, FS_FiniteSubsetsOfFinite
<1>2. ASSUME T # {} PROVE FALSE
  <2>1. PICK s \in T : \A t \in T : <<t, s>> \notin R
    <3> HIDE DEF R, T
    <3>1. T \subseteq SUBSET S
      BY DEF T
    <3> QED
      BY <1>1, <1>2, <3>1, WFMin
  <2>2. ASSUME NEW t \in SUBSET s, t # s PROVE t \in H
    BY <2>1, <2>2 DEF StrictSubsetOrdering
  <2> QED
    BY <2>1, <2>2
<1> QED
  BY <1>2

-----------------------------------------------------------------------------
(* Sums over the subsets of a set *)

Chosen(s) == CHOOSE x \in s : TRUE

\* g holds the sum of f over each subset of S.
SumsUp(g, f, S) ==
    g = [s \in SUBSET S |-> IF s = {} THEN 0 ELSE f[Chosen(s)] + g[s \ {Chosen(s)}]]

LEMMA SumIsChosen ==
    ASSUME NEW f, NEW S
    PROVE  SumFunctionOnSet(f, S) = (CHOOSE g : SumsUp(g, f, S))[S]
  BY Zenon DEF SumFunctionOnSet, FoldFunctionOnSet, MapThenFoldSet, SumsUp, Chosen

\* Where two such functions are both defined, they agree.
LEMMA SumsAgree ==
    ASSUME NEW f, NEW S, NEW T, IsFiniteSet(S), NEW g, NEW h, SumsUp(g, f, S), SumsUp(h, f, T)
    PROVE  \A s \in SUBSET S : s \in SUBSET T => g[s] = h[s]
<1> DEFINE H == {s \in SUBSET S : s \in SUBSET T => g[s] = h[s]}
<1>1. ASSUME NEW s \in SUBSET S, \A t \in SUBSET s : t # s => t \in H
      PROVE  s \in H
  <2>1. CASE s = {}
    BY <2>1 DEF SumsUp
  <2>2. CASE s # {}
    <3> DEFINE x == Chosen(s)
    <3>1. x \in s
      BY <2>2 DEF Chosen
    <3>2. s \ {x} \in H
      BY <1>1, <3>1
    <3>3. g[s] = f[x] + g[s \ {x}]
      BY <2>2 DEF SumsUp
    <3>4. s \in SUBSET T => h[s] = f[x] + h[s \ {x}]
      BY <2>2 DEF SumsUp
    <3> HIDE DEF x
    <3> QED
      BY <3>2, <3>3, <3>4
  <2> QED
    BY <2>1, <2>2
<1> HIDE DEF H
<1>2. H \in SUBSET SUBSET S
  BY DEF H
<1>3. \A s \in SUBSET S : s \in H
  BY <1>1, <1>2, SubsetInduction
<1> QED
  BY <1>3 DEF H

\* There is such a function for every finite set.
LEMMA SumsExist ==
    ASSUME NEW f, NEW S, IsFiniteSet(S)
    PROVE  \A s \in SUBSET S : SumsUp(CHOOSE g : SumsUp(g, f, s), f, s)
<1> DEFINE H == {s \in SUBSET S : \E g : SumsUp(g, f, s)}
           Sum(s) == SumFunctionOnSet(f, s)
<1>1. ASSUME NEW s \in SUBSET S, \A t \in SUBSET s : t # s => t \in H
      PROVE  s \in H
  <2> DEFINE g == [t \in SUBSET s |->
                     IF t = {} THEN 0 ELSE f[Chosen(t)] + Sum(t \ {Chosen(t)})]
  <2>1. ASSUME NEW t \in SUBSET s, t # {}
        PROVE  g[t \ {Chosen(t)}] = Sum(t \ {Chosen(t)})
    <3> DEFINE u == t \ {Chosen(t)}
               h == CHOOSE k : SumsUp(k, f, u)
    <3>1. Chosen(t) \in t
      BY <2>1 DEF Chosen
    <3>2. u \in SUBSET s /\ u # s /\ u \in H
      BY <1>1, <3>1
    <3>3. SumsUp(h, f, u)
      BY <3>2
    <3>4. Sum(u) = h[u]
      BY SumIsChosen
    <3>5. CASE u = {}
      <4>1. h[u] = 0
        BY <3>3, <3>5 DEF SumsUp
      <4>2. g[u] = 0
        BY <3>2, <3>5
      <4> QED
        BY <3>4, <4>1, <4>2
    <3>6. CASE u # {}
      <4> DEFINE y == Chosen(u)
                 v == u \ {y}
                 k == CHOOSE j : SumsUp(j, f, v)
      <4>1. y \in u
        BY <3>6 DEF Chosen
      <4>2. h[u] = f[y] + h[v]
        BY <3>3, <3>6 DEF SumsUp
      <4>3. v \in SUBSET s /\ v # s /\ v \in H
        BY <1>1, <3>2, <4>1
      <4>4. SumsUp(k, f, v) /\ Sum(v) = k[v]
        BY <4>3, SumIsChosen
      <4>5. IsFiniteSet(v)
        BY <4>3, FS_Subset
      <4>6. k[v] = h[v]
        <5> HIDE DEF h, k, v, u, y
        <5>1. v \in SUBSET v /\ v \in SUBSET u
          BY DEF v
        <5> QED
          BY <3>3, <4>4, <4>5, <5>1, SumsAgree
      <4>7. g[u] = f[y] + Sum(v)
        BY <3>2, <3>6
      <4> QED
        BY <3>4, <4>2, <4>4, <4>6, <4>7
    <3> QED
      BY <3>5, <3>6
  <2>2. SumsUp(g, f, s)
    BY <2>1 DEF SumsUp
  <2> QED
    BY <2>2
<1> HIDE DEF H
<1>2. H \in SUBSET SUBSET S
  BY DEF H
<1>3. \A s \in SUBSET S : s \in H
  BY <1>1, <1>2, SubsetInduction
<1> QED
  BY <1>3 DEF H

\* The sum over a set is the value of the member that is chosen and the sum over the
\* rest.
LEMMA SumOfChosen ==
    ASSUME NEW f, NEW S, IsFiniteSet(S), S # {}
    PROVE  /\ Chosen(S) \in S
           /\ SumFunctionOnSet(f, S) = f[Chosen(S)] + SumFunctionOnSet(f, S \ {Chosen(S)})
<1> DEFINE x == Chosen(S)
           U == S \ {x}
           g == CHOOSE k : SumsUp(k, f, S)
           h == CHOOSE k : SumsUp(k, f, U)
<1>1. x \in S
  BY DEF Chosen
<1>2. IsFiniteSet(U) /\ U \in SUBSET S
  BY FS_Subset
<1>3. SumsUp(g, f, S) /\ SumsUp(h, f, U)
  BY <1>2, SumsExist
<1>4. SumFunctionOnSet(f, S) = g[S] /\ SumFunctionOnSet(f, U) = h[U]
  BY SumIsChosen
<1> HIDE DEF g, h
<1>5. g[S] = f[x] + g[U]
  BY <1>3 DEF SumsUp
<1>6. h[U] = g[U]
  <2> HIDE DEF U, x
  <2> QED
    BY <1>2, <1>3, SumsAgree
<1> QED
  BY <1>1, <1>4, <1>5, <1>6

LEMMA SumOverNothing ==
    ASSUME NEW f
    PROVE  SumFunctionOnSet(f, {}) = 0
<1> DEFINE g == CHOOSE k : SumsUp(k, f, {})
<1>1. SumsUp(g, f, {})
  BY SumsExist, FS_EmptySet
<1> QED
  BY <1>1, SumIsChosen DEF SumsUp

\* A sum of integers is an integer, and may begin with any member.
LEMMA SumOfAny ==
    ASSUME NEW S, IsFiniteSet(S), NEW f, \A x \in S : f[x] \in Int
    PROVE  \A s \in SUBSET S :
               /\ SumFunctionOnSet(f, s) \in Int
               /\ \A x \in s : SumFunctionOnSet(f, s) = f[x] + SumFunctionOnSet(f, s \ {x})
<1> DEFINE Sum(s) == SumFunctionOnSet(f, s)
           H == {s \in SUBSET S : /\ Sum(s) \in Int
                                  /\ \A x \in s : Sum(s) = f[x] + Sum(s \ {x})}
<1>1. ASSUME NEW s \in SUBSET S, \A t \in SUBSET s : t # s => t \in H
      PROVE  s \in H
  <2> HIDE DEF Sum
  <2>1. CASE s = {}
    <3>1. Sum(s) = 0
      BY <2>1, SumOverNothing DEF Sum
    <3> QED
      BY <2>1, <3>1
  <2>2. CASE s # {}
    <3> DEFINE c == Chosen(s)
    <3>1. c \in s /\ Sum(s) = f[c] + Sum(s \ {c})
      BY <2>2, SumOfChosen, FS_Subset DEF Sum
    <3> HIDE DEF c
    <3>2. s \ {c} \in H /\ Sum(s \ {c}) \in Int /\ f[c] \in Int
      BY <1>1, <3>1
    <3>3. Sum(s) \in Int
      BY <3>1, <3>2
    <3>4. ASSUME NEW x \in s PROVE Sum(s) = f[x] + Sum(s \ {x})
      <4>1. CASE x = c
        BY <3>1, <4>1
      <4>2. CASE x # c
        <5> DEFINE u == s \ {c, x}
        <5>1. s \ {c} \in H /\ s \ {x} \in H /\ u \in H
          BY <1>1, <3>1
        <5>2. (s \ {c}) \ {x} = u /\ (s \ {x}) \ {c} = u
          OBVIOUS
        <5>3. x \in s \ {c} /\ c \in s \ {x}
          BY <3>1, <4>2
        <5>4. Sum(s \ {c}) = f[x] + Sum(u)
          BY <5>1, <5>2, <5>3
        <5>5. Sum(s \ {x}) = f[c] + Sum(u)
          BY <5>1, <5>2, <5>3
        <5>6. Sum(u) \in Int /\ f[x] \in Int /\ f[c] \in Int
          BY <5>1, <3>1
        <5> QED
          BY <3>1, <5>4, <5>5, <5>6
      <4> QED
        BY <4>1, <4>2
    <3> QED
      BY <3>3, <3>4
  <2> QED
    BY <2>1, <2>2
<1> HIDE DEF H
<1>2. H \in SUBSET SUBSET S
  BY DEF H
<1>3. \A s \in SUBSET S : s \in H
  BY <1>1, <1>2, SubsetInduction
<1> QED
  BY <1>3 DEF H

\* Sums of natural numbers are natural numbers.
LEMMA SumOfNaturals ==
    ASSUME NEW S, IsFiniteSet(S), NEW f, \A x \in S : f[x] \in Nat
    PROVE  \A s \in SUBSET S : SumFunctionOnSet(f, s) \in Nat
<1> DEFINE H == {s \in SUBSET S : SumFunctionOnSet(f, s) \in Nat}
<1>1. ASSUME NEW s \in SUBSET S, \A t \in SUBSET s : t # s => t \in H
      PROVE  s \in H
  <2>1. CASE s = {}
    BY <2>1, SumOverNothing
  <2>2. CASE s # {}
    <3>1. /\ Chosen(s) \in s
          /\ SumFunctionOnSet(f, s) = f[Chosen(s)] + SumFunctionOnSet(f, s \ {Chosen(s)})
      BY <2>2, SumOfChosen, FS_Subset
    <3>2. s \ {Chosen(s)} \in H
      BY <1>1, <3>1
    <3> QED
      BY <3>1, <3>2
  <2> QED
    BY <2>1, <2>2
<1> HIDE DEF H
<1>2. H \in SUBSET SUBSET S
  BY DEF H
<1>3. \A s \in SUBSET S : s \in H
  BY <1>1, <1>2, SubsetInduction
<1> QED
  BY <1>3 DEF H

\* Larger values have a larger sum.
LEMMA SumGrows ==
    ASSUME NEW S, IsFiniteSet(S), NEW f \in [S -> Nat], NEW g \in [S -> Nat],
           \A x \in S : g[x] >= f[x]
    PROVE  SumFunctionOnSet(g, S) >= SumFunctionOnSet(f, S)
<1> DEFINE F(s) == SumFunctionOnSet(f, s)
           G(s) == SumFunctionOnSet(g, s)
           H == {s \in SUBSET S : G(s) >= F(s)}
<1>1. /\ \A s \in SUBSET S : F(s) \in Int /\ \A x \in s : F(s) = f[x] + F(s \ {x})
      /\ \A s \in SUBSET S : G(s) \in Int /\ \A x \in s : G(s) = g[x] + G(s \ {x})
  <2>1. (\A x \in S : f[x] \in Int) /\ (\A x \in S : g[x] \in Int)
    OBVIOUS
  <2> QED BY <2>1, SumOfAny
<1>2. F({}) = 0 /\ G({}) = 0
  BY SumOverNothing
<1> HIDE DEF F, G
<1>3. ASSUME NEW s \in SUBSET S, \A t \in SUBSET s : t # s => t \in H
      PROVE  s \in H
  <2>1. CASE s = {}
    BY <1>2, <2>1
  <2>2. CASE s # {}
    <3>1. PICK x \in s : TRUE
      BY <2>2
    <3> DEFINE u == s \ {x}
    <3>2. F(s) = f[x] + F(u) /\ G(s) = g[x] + G(u)
      BY <1>1, <3>1
    <3>3. G(u) >= F(u) /\ G(u) \in Int /\ F(u) \in Int
      BY <1>1, <1>3, <3>1
    <3>4. f[x] \in Nat /\ g[x] \in Nat /\ g[x] >= f[x]
      BY <3>1
    <3> QED
      BY <3>2, <3>3, <3>4
  <2> QED
    BY <2>1, <2>2
<1>4. H \in SUBSET SUBSET S
  OBVIOUS
<1> HIDE DEF H
<1>5. \A s \in SUBSET S : s \in H
  BY <1>3, <1>4, SubsetInduction
<1> QED
  BY <1>5 DEF H, F, G

\* What is zero outside of T sums up to the sum over T of whatever agrees with it there.
LEMMA SumWithZeros ==
    ASSUME NEW S, IsFiniteSet(S), NEW T \in SUBSET S, NEW f, NEW g,
           \A x \in S : f[x] \in Int,
           \A x \in T : g[x] = f[x], \A x \in S \ T : f[x] = 0
    PROVE  SumFunctionOnSet(f, S) = SumFunctionOnSet(g, T)
<1> DEFINE F(s) == SumFunctionOnSet(f, s)
           G(s) == SumFunctionOnSet(g, s)
           H == {s \in SUBSET S : F(s) = G(s \cap T)}
<1>0. /\ \A s \in SUBSET S : F(s) \in Int /\ \A x \in s : F(s) = f[x] + F(s \ {x})
      /\ \A s \in SUBSET T : G(s) \in Int /\ \A x \in s : G(s) = g[x] + G(s \ {x})
  <2>1. IsFiniteSet(T) /\ \A x \in T : g[x] \in Int
    BY FS_Subset
  <2> QED
    BY <2>1, SumOfAny
<1>1. ASSUME NEW s \in SUBSET S, \A t \in SUBSET s : t # s => t \in H
      PROVE  s \in H
  <2>1. CASE s = {}
    <3>1. s \cap T = {}
      BY <2>1
    <3> QED
      BY <2>1, <3>1, SumOverNothing
  <2>2. CASE s # {}
    <3>1. PICK x \in s : TRUE
      BY <2>2
    <3> DEFINE u == s \ {x}
    <3> HIDE DEF F, G
    <3>2. F(s) = f[x] + F(u) /\ F(u) \in Int
      BY <1>0, <3>1
    <3>3. F(u) = G(u \cap T)
      BY <1>1, <3>1
    <3>4. CASE x \in T
      <4>1. x \in s \cap T /\ (s \cap T) \ {x} = u \cap T /\ s \cap T \in SUBSET T
        BY <3>1, <3>4
      <4>2. G(s \cap T) = g[x] + G(u \cap T)
        BY <1>0, <4>1
      <4> QED
        BY <3>2, <3>3, <3>4, <4>2
    <3>5. CASE x \notin T
      <4>1. s \cap T = u \cap T /\ f[x] = 0
        BY <3>5
      <4>2. F(s) = F(u)
        BY <3>2, <4>1
      <4> QED
        BY <3>3, <4>1, <4>2
    <3> QED
      BY <3>4, <3>5
  <2> QED
    BY <2>1, <2>2
<1> HIDE DEF H
<1>2. H \in SUBSET SUBSET S
  BY DEF H
<1>3. S \in H
  BY <1>1, <1>2, SubsetInduction
<1>4. S \cap T = T
  OBVIOUS
<1> QED
  BY <1>3, <1>4 DEF H

-----------------------------------------------------------------------------
(* Sums of functions *)

LEMMA SumType ==
    ASSUME NEW D, IsFiniteSet(D), NEW f \in [D -> Nat]
    PROVE  SumFunction(f) \in Nat
<1>1. \A s \in SUBSET D : SumFunctionOnSet(f, s) \in Nat
  BY SumOfNaturals
<1> QED
  BY <1>1 DEF SumFunction

\* g is f, and zero where f is not defined.
ExtendsByZeros(g, D, f, E) ==
    /\ IsFiniteSet(D) /\ E \subseteq D /\ f \in [E -> Nat] /\ g \in [D -> Nat]
    /\ \A x \in E : g[x] = f[x]
    /\ \A x \in D \ E : g[x] = 0

LEMMA SumExtendedByZeros ==
    ASSUME NEW D, NEW E, NEW f, NEW g, ExtendsByZeros(g, D, f, E)
    PROVE  SumFunction(g) = SumFunction(f)
<1>1. /\ IsFiniteSet(D) /\ E \in SUBSET D /\ \A x \in D : g[x] \in Int
      /\ DOMAIN f = E /\ DOMAIN g = D
  BY DEF ExtendsByZeros
<1>2. SumFunctionOnSet(g, D) = SumFunctionOnSet(f, E)
  <2>1. \A x \in E : f[x] = g[x]
    BY DEF ExtendsByZeros
  <2>2. \A x \in D \ E : g[x] = 0
    BY DEF ExtendsByZeros
  <2> QED
    BY <1>1, <2>1, <2>2, SumWithZeros
<1> QED
  BY <1>1, <1>2 DEF SumFunction

\* The sum of g, when g is f except at x
LEMMA SumUpdated ==
    ASSUME NEW D, IsFiniteSet(D), NEW x \in D, NEW f \in [D -> Nat], NEW g \in [D -> Nat],
           \A y \in D \ {x} : g[y] = f[y]
    PROVE  SumFunction(g) = (SumFunction(f) - f[x]) + g[x]
<1> DEFINE U == D \ {x}
<1>1. /\ SumFunctionOnSet(f, D) = f[x] + SumFunctionOnSet(f, U)
      /\ SumFunctionOnSet(f, U) \in Int
  <2>1. \A y \in D : f[y] \in Int
    OBVIOUS
  <2> QED
    BY <2>1, SumOfAny
<1>2. SumFunctionOnSet(g, D) = g[x] + SumFunctionOnSet(g, U)
  <2>1. \A y \in D : g[y] \in Int
    OBVIOUS
  <2> QED
    BY <2>1, SumOfAny
<1>3. SumFunctionOnSet(f, U) = SumFunctionOnSet(g, U)
  <2>1. IsFiniteSet(U) /\ U \in SUBSET U
    BY FS_Subset
  <2>2. /\ \A y \in U : f[y] \in Int
        /\ \A y \in U : g[y] = f[y]
        /\ \A y \in U \ U : f[y] = 0
    OBVIOUS
  <2> HIDE DEF U
  <2> QED
    BY <2>1, <2>2, SumWithZeros
<1>4. f[x] \in Int /\ g[x] \in Int
  OBVIOUS
<1>5. SumFunction(f) = SumFunctionOnSet(f, D) /\ SumFunction(g) = SumFunctionOnSet(g, D)
  BY DEF SumFunction
<1> HIDE DEF U
<1> QED
  BY <1>1, <1>2, <1>3, <1>4, <1>5

\* The sum of g, when g is f and one value more
LEMMA SumExtended ==
    ASSUME NEW D, IsFiniteSet(D), NEW E, NEW x \in E, x \notin D, D \subseteq E,
           \A y \in E : y \in D \/ y = x,
           NEW f \in [D -> Nat], NEW g \in [E -> Nat], \A y \in D : g[y] = f[y]
    PROVE  SumFunction(g) = SumFunction(f) + g[x]
<1>1. IsFiniteSet(E) /\ \A y \in E : g[y] \in Int
  <2>1. E = D \cup {x}
    OBVIOUS
  <2>2. IsFiniteSet(D \cup {x})
    BY FS_AddElement
  <2> QED
    BY <2>1, <2>2
<1>2. SumFunctionOnSet(g, E) = g[x] + SumFunctionOnSet(g, E \ {x})
  BY <1>1, SumOfAny
<1>3. E \ {x} = D
  OBVIOUS
<1>4. SumFunctionOnSet(g, D) = SumFunctionOnSet(f, D)
  <2>1. D \in SUBSET D /\ \A y \in D : g[y] \in Int
    OBVIOUS
  <2>2. \A y \in D \ D : g[y] = 0
    OBVIOUS
  <2>3. \A y \in D : f[y] = g[y]
    OBVIOUS
  <2> QED
    BY <2>1, <2>2, <2>3, SumWithZeros
<1>5. SumFunctionOnSet(f, D) \in Nat
  BY SumOfNaturals
<1>6. SumFunction(f) = SumFunctionOnSet(f, D) /\ SumFunction(g) = SumFunctionOnSet(g, E)
  BY DEF SumFunction
<1>7. g[x] \in Nat
  OBVIOUS
<1>8. SumFunctionOnSet(g, E) = g[x] + SumFunctionOnSet(f, D)
  <2>1. SumFunctionOnSet(g, E \ {x}) = SumFunctionOnSet(f, D)
    BY <1>3, <1>4, Zenon
  <2> QED
    BY <1>2, <2>1, Zenon
<1>9. g[x] + SumFunctionOnSet(f, D) = SumFunctionOnSet(f, D) + g[x]
  BY <1>5, <1>7
<1> QED
  BY <1>6, <1>8, <1>9, Zenon

\* Zeros sum up to zero.
LEMMA SumOfZeros ==
    ASSUME NEW D, IsFiniteSet(D), NEW f \in [D -> {0}]
    PROVE  SumFunction(f) = 0
<1>1. \A x \in D : f[x] \in Int
  OBVIOUS
<1>2. SumFunctionOnSet(f, D) = SumFunctionOnSet(f, {})
  <2>1. /\ {} \in SUBSET D
        /\ \A x \in {} : f[x] = f[x]
        /\ \A x \in D \ {} : f[x] = 0
    OBVIOUS
  <2> QED
    BY <1>1, <2>1, SumWithZeros
<1>3. SumFunctionOnSet(f, {}) = 0
  BY SumOverNothing
<1> QED
  BY <1>2, <1>3 DEF SumFunction

\* A sequence with a zero at its end sums up to the same.
LEMMA SumOfAppendedZero ==
    ASSUME NEW f \in Seq(Nat)
    PROVE  /\ Append(f, 0) \in Seq(Nat)
           /\ Len(Append(f, 0)) = Len(f) + 1
           /\ DOMAIN Append(f, 0) = 1 .. (Len(f) + 1)
           /\ Append(f, 0)[Len(f) + 1] = 0
           /\ \A y \in 1 .. Len(f) : Append(f, 0)[y] = f[y]
           /\ SumFunction(Append(f, 0)) = SumFunction(f)
<1> DEFINE n == Len(f)
           D == 1 .. n
           x == n + 1
           m == Append(f, 0)
<1>1. n \in Nat /\ f \in [D -> Nat]
  OBVIOUS
<1>2. m \in Seq(Nat) /\ Len(m) = n + 1 /\ m[n + 1] = 0 /\ \A y \in 1 .. n : m[y] = f[y]
  OBVIOUS
<1> HIDE DEF m
<1>3. m \in [1 .. (n + 1) -> Nat]
  BY <1>2
<1>4. IsFiniteSet(D)
  BY <1>1, FS_Interval
<1> HIDE DEF n
<1>5. x \notin D /\ D \cup {x} = 1 .. (n + 1)
  BY <1>1
<1> DEFINE E == 1 .. x
<1>6. /\ m \in [E -> Nat] /\ x \in E /\ D \subseteq E /\ \A y \in E : y \in D \/ y = x
      /\ \A y \in D : m[y] = f[y]
  BY <1>2, <1>3, <1>5
<1>7. SumFunction(m) = SumFunction(f) + m[x]
  <2> HIDE DEF D, x, E
  <2>1. /\ IsFiniteSet(D) /\ x \in E /\ x \notin D /\ D \subseteq E
        /\ \A y \in E : y \in D \/ y = x
        /\ f \in [D -> Nat] /\ m \in [E -> Nat] /\ \A y \in D : m[y] = f[y]
    BY <1>1, <1>4, <1>5, <1>6
  <2> QED
    BY <2>1, SumExtended
<1>8. SumFunction(f) \in Nat
  <2> HIDE DEF D
  <2> QED
    BY <1>1, <1>4, SumType
<1>9. SumFunction(m) = SumFunction(f)
  BY <1>2, <1>7, <1>8 DEF x
<1> QED
  BY <1>2, <1>3, <1>9 DEF m, n

-----------------------------------------------------------------------------
(* Runs and Tasks *)

Counters(r) == [j \in DOMAIN r.tasks |-> r.tasks[j].counters]

Idling == {"Queued", "Committed", "NoChange"}

\* Beside the active Task, Tasks wait or are delivered.
OthersWait(r) ==
    r.stage \notin TerminalStages =>
        \A i \in CurrentTasks(r) \ Named(r, r.active) : r.tasks[i].state \in Idling

\* A contract only grows, a delivered Task had a child, and what is under way began
\* with the repository the run expects.
IsKept(r, task) ==
    /\ task.spec.contract \subseteq task.contract
    /\ task.state \in Successful => task.child # None
    /\ task.state \in {"Running", "Blocked"} => task.base = r.expected

Good(r) ==
    /\ r \in MultiTaskRun
    /\ Valid(r)
    /\ OthersWait(r)
    /\ \A i \in DOMAIN r.tasks : IsKept(r, r.tasks[i])

LEMMA NoneIsNothing ==
    /\ None \notin TaskIds /\ None \notin Repositories /\ None \notin Commits
    /\ None \notin Outcomes /\ None \notin Child /\ None \notin TaskResult
  BY NoneIsAbsent

LEMMA RunFields ==
    ASSUME NEW r \in MultiTaskRun
    PROVE  /\ r.tasks \in Seq(TaskRun) /\ Len(r.tasks) \in Nat
           /\ DOMAIN r.tasks = 1 .. Len(r.tasks) /\ IsFiniteSet(DOMAIN r.tasks)
           /\ \A i \in DOMAIN r.tasks : r.tasks[i] \in TaskRun
           /\ r.plan \in TaskPlans /\ r.stage \in Stages /\ r.revision \in Nat
           /\ r.active \in TaskIds \cup {None} /\ r.expected \in Repositories
           /\ r.coordination \in Nat /\ r.counters \in Nat
           /\ r.outcome \in Outcomes \cup {None}
<1>1. r.tasks \in Seq(TaskRun)
  BY DEF MultiTaskRun
<1>2. Len(r.tasks) \in Nat /\ DOMAIN r.tasks = 1 .. Len(r.tasks)
  BY <1>1
<1>3. IsFiniteSet(DOMAIN r.tasks)
  BY <1>2, FS_Interval
<1> QED
  BY <1>1, <1>2, <1>3 DEF MultiTaskRun

LEMMA TaskFields ==
    ASSUME NEW t \in TaskRun
    PROVE  /\ t.spec \in TaskSpec /\ t.revision \in Nat /\ t.state \in TaskStates
           /\ t.base \in Repositories \cup {None} /\ t.contract \in SUBSET Criteria
           /\ t.child \in Child \cup {None} /\ t.marks \in Seq(Nat)
           /\ t.direct \in Nat /\ t.counters \in Nat
           /\ t.checkpoint \in Repositories \cup {None} /\ t.result \in TaskResult \cup {None}
           /\ Len(t.marks) \in Nat /\ DOMAIN t.marks = 1 .. Len(t.marks)
           /\ t.marks \in [1 .. Len(t.marks) -> Nat] /\ IsFiniteSet(1 .. Len(t.marks))
           /\ t.spec.id \in TaskIds /\ t.spec.contract \in SUBSET Criteria
<1>1. t.marks \in Seq(Nat) /\ t.spec \in TaskSpec
  BY DEF TaskRun
<1>2. Len(t.marks) \in Nat /\ t.marks \in [1 .. Len(t.marks) -> Nat]
  BY <1>1
<1>3. IsFiniteSet(1 .. Len(t.marks))
  BY <1>2, FS_Interval
<1> QED
  BY <1>1, <1>2, <1>3 DEF TaskRun, TaskSpec

LEMMA CountersAreTyped ==
    ASSUME NEW r \in MultiTaskRun
    PROVE  Counters(r) \in [DOMAIN r.tasks -> Nat] /\ SumFunction(Counters(r)) \in Nat
<1>1. Counters(r) \in [DOMAIN r.tasks -> Nat]
  BY RunFields, TaskFields DEF Counters
<1> QED
  BY <1>1, RunFields, SumType

LEMMA RecountedType ==
    ASSUME NEW t \in TaskRun
    PROVE  /\ SumFunction(t.marks) \in Nat
           /\ Recounted(t) \in TaskRun
           /\ Recounted(t).counters = t.direct + SumFunction(t.marks)
           /\ \A c \in Nat : [t EXCEPT !.counters = c] \in TaskRun
<1>1. SumFunction(t.marks) \in Nat
  BY TaskFields, SumType
<1>2. t.direct \in Nat
  BY TaskFields
<1>3. \A c \in Nat : [t EXCEPT !.counters = c] \in TaskRun
  BY DEF TaskRun
<1>4. Recounted(t) = [t EXCEPT !.counters = t.direct + SumFunction(t.marks)]
  BY DEF Recounted
<1>5. [t EXCEPT !.counters = t.direct + SumFunction(t.marks)].counters
          = t.direct + SumFunction(t.marks)
  BY DEF TaskRun
<1> QED
  BY <1>1, <1>2, <1>3, <1>4, <1>5

LEMMA WithTaskFields ==
    ASSUME NEW r \in MultiTaskRun, NEW i \in DOMAIN r.tasks, NEW t \in TaskRun
    PROVE  LET s == WithTask(r, i, t)
           IN  /\ s \in MultiTaskRun
               /\ DOMAIN s.tasks = DOMAIN r.tasks /\ s.tasks[i] = t
               /\ \A j \in DOMAIN r.tasks \ {i} : s.tasks[j] = r.tasks[j]
               /\ s.plan = r.plan /\ s.stage = r.stage /\ s.revision = r.revision
               /\ s.active = r.active /\ s.expected = r.expected
               /\ s.coordination = r.coordination /\ s.counters = r.counters
               /\ s.outcome = r.outcome
<1>1. /\ r.tasks \in Seq(TaskRun) /\ DOMAIN r.tasks = 1 .. Len(r.tasks) /\ Len(r.tasks) \in Nat
  BY RunFields
<1> DEFINE q == [r.tasks EXCEPT ![i] = t]
<1>2. q \in Seq(TaskRun)
  BY <1>1
<1>3. /\ DOMAIN q = DOMAIN r.tasks /\ q[i] = t
      /\ \A j \in DOMAIN r.tasks \ {i} : q[j] = r.tasks[j]
  BY <1>1
<1>4. WithTask(r, i, t) = [r EXCEPT !.tasks = q]
  BY DEF WithTask, MultiTaskRun
<1> HIDE DEF q
<1>5. [r EXCEPT !.tasks = q] \in MultiTaskRun
  BY <1>2 DEF MultiTaskRun
<1> QED
  BY <1>3, <1>4, <1>5 DEF MultiTaskRun, q

-----------------------------------------------------------------------------
(* Names *)

\* A current Task is the only one of its name, and the plan has its specification.
LEMMA NamesAreUnique ==
    ASSUME NEW r \in MultiTaskRun, TasksMatchPlan(r)
    PROVE  /\ \A i \in CurrentTasks(r) :
                  /\ Named(r, r.tasks[i].spec.id) = {i}
                  /\ \E k \in DOMAIN r.plan : r.plan[k] = r.tasks[i].spec
           /\ \A id : \A i, j \in Named(r, id) : i = j
<1>1. ASSUME NEW i \in CurrentTasks(r)
      PROVE  /\ Named(r, r.tasks[i].spec.id) = {i}
             /\ \E k \in DOMAIN r.plan : r.plan[k] = r.tasks[i].spec
  <2>1. PICK k \in DOMAIN r.plan : r.plan[k].id = r.tasks[i].spec.id
    BY DEF TasksMatchPlan
  <2>2. PICK j \in CurrentTasks(r) :
            Named(r, r.plan[k].id) = {j} /\ r.tasks[j].spec = r.plan[k]
    BY DEF TasksMatchPlan
  <2>3. i \in Named(r, r.plan[k].id)
    BY <2>1 DEF Named
  <2> QED
    BY <2>1, <2>2, <2>3
<1>2. ASSUME NEW id, NEW i \in Named(r, id), NEW j \in Named(r, id)
      PROVE  i = j
  <2>1. i \in CurrentTasks(r) /\ r.tasks[i].spec.id = id
    BY DEF Named
  <2> QED
    BY <1>1, <2>1
<1> QED
  BY <1>1, <1>2

\* The names are a matter of the specifications and of what is superseded.
SameShape(r, s) ==
    /\ s.plan = r.plan
    /\ DOMAIN s.tasks = DOMAIN r.tasks
    /\ \A i \in DOMAIN r.tasks :
           /\ s.tasks[i].spec = r.tasks[i].spec
           /\ s.tasks[i].state = "Superseded" <=> r.tasks[i].state = "Superseded"

LEMMA ShapeKeepsNames ==
    ASSUME NEW r, NEW s, SameShape(r, s)
    PROVE  /\ CurrentTasks(s) = CurrentTasks(r)
           /\ \A id : Named(s, id) = Named(r, id)
           /\ TasksMatchPlan(r) => TasksMatchPlan(s)
<1>1. CurrentTasks(s) = CurrentTasks(r)
  BY DEF SameShape, CurrentTasks
<1>2. CurrentTasks(r) \subseteq DOMAIN r.tasks
  BY DEF CurrentTasks
<1>3. ASSUME NEW id PROVE Named(s, id) = Named(r, id)
  BY <1>1, <1>2 DEF SameShape, Named
<1>4. ASSUME TasksMatchPlan(r) PROVE TasksMatchPlan(s)
  <2>1. s.plan = r.plan /\ \A i \in CurrentTasks(r) : s.tasks[i].spec = r.tasks[i].spec
    BY <1>2 DEF SameShape
  <2>2. ASSUME NEW k \in DOMAIN s.plan
        PROVE  \E i \in CurrentTasks(s) :
                   Named(s, s.plan[k].id) = {i} /\ s.tasks[i].spec = s.plan[k]
    <3>1. PICK i \in CurrentTasks(r) : Named(r, r.plan[k].id) = {i} /\ r.tasks[i].spec = r.plan[k]
      BY <1>4, <2>1 DEF TasksMatchPlan
    <3> QED
      BY <1>1, <1>3, <2>1, <3>1
  <2>3. \A i \in CurrentTasks(s) : \E k \in DOMAIN s.plan : s.plan[k].id = s.tasks[i].spec.id
    BY <1>1, <1>4, <2>1 DEF TasksMatchPlan
  <2> QED
    BY <2>2, <2>3 DEF TasksMatchPlan
<1> QED
  BY <1>1, <1>3, <1>4

\* What was delivered stays so while the Tasks that were delivered do.
LEMMA DeliveredStays ==
    ASSUME NEW r, NEW s, SameShape(r, s),
           \A i \in DOMAIN r.tasks :
               r.tasks[i].state \in Successful => s.tasks[i].state \in Successful
    PROVE  \A id : IsDelivered(r, id) => IsDelivered(s, id)
<1>1. \A id : Named(r, id) \subseteq DOMAIN r.tasks
  BY DEF Named, CurrentTasks
<1> QED
  BY <1>1, ShapeKeepsNames DEF IsDelivered

-----------------------------------------------------------------------------
(* Stages *)

LEMMA StageFacts ==
    ASSUME NEW r \in MultiTaskRun, ValidStage(r)
    PROVE  /\ r.stage \in {"RunningTask", "Paused"} =>
                  /\ ActiveIs(r, {"Running"}) /\ r.outcome = None
                  /\ Cardinality(Running(r)) = 1
           /\ r.stage = "Blocked" => ActiveIs(r, {"Blocked"}) /\ r.outcome = "TaskBlocked"
           /\ r.stage = "Evaluating" =>
                  /\ r.active = None /\ r.outcome = None
                  /\ \A i \in CurrentTasks(r) : r.tasks[i].state \in Idling
           /\ r.stage # "Failed" => r.outcome # "BudgetExhausted"
<1>1. r.stage \in Stages
  BY RunFields
<1>2. r.stage \in {"RunningTask", "Paused"} =>
          ActiveIs(r, {"Running"}) /\ r.outcome = None /\ Cardinality(Running(r)) = 1
  BY DEF ValidStage
<1>3. r.stage = "Blocked" => ActiveIs(r, {"Blocked"}) /\ r.outcome = "TaskBlocked"
  BY DEF ValidStage
<1>4. r.stage = "Evaluating" =>
          /\ r.active = None /\ r.outcome = None
          /\ \A i \in CurrentTasks(r) : r.tasks[i].state \in {"Queued"} \cup Successful
  BY DEF ValidStage
<1>5. (r.stage = "Ready" => r.outcome = "Ready") /\ (r.stage = "Cancelled" => r.outcome = "Cancelled")
  BY DEF ValidStage
<1>6. None # "BudgetExhausted"
  BY NoneIsNothing DEF Outcomes
<1> QED
  BY <1>1, <1>2, <1>3, <1>4, <1>5, <1>6 DEF Stages, Idling, Successful

\* The Task that is under way, or was when the run was paused or blocked
LEMMA ActiveTask ==
    ASSUME NEW r, Good(r), r.stage \in {"RunningTask", "Paused", "Blocked"}
    PROVE  \E i \in CurrentTasks(r) :
               /\ Named(r, r.active) = {i} /\ r.active = r.tasks[i].spec.id
               /\ r.tasks[i].state = IF r.stage = "Blocked" THEN "Blocked" ELSE "Running"
               /\ \A j \in CurrentTasks(r) \ {i} : r.tasks[j].state \in Idling
<1>1. r \in MultiTaskRun /\ ValidStage(r) /\ TasksMatchPlan(r)
  BY DEF Good, Valid
<1>2. PICK i \in Named(r, r.active) :
          r.tasks[i].state = IF r.stage = "Blocked" THEN "Blocked" ELSE "Running"
  BY <1>1, StageFacts DEF ActiveIs
<1>3. i \in CurrentTasks(r) /\ r.active = r.tasks[i].spec.id
  BY DEF Named
<1>4. Named(r, r.active) = {i}
  BY <1>1, <1>3, NamesAreUnique
<1>5. \A j \in CurrentTasks(r) \ {i} : r.tasks[j].state \in Idling
  BY <1>4 DEF Good, OthersWait, TerminalStages
<1> QED
  BY <1>2, <1>3, <1>4, <1>5

\* While nothing failed, nothing is over its budget.
LEMMA NothingIsOver ==
    ASSUME NEW r, Good(r), r.stage # "Failed"
    PROVE  /\ ~(r.counters > Allocated(r.plan)) /\ ~(r.coordination > Coordination)
           /\ \A i \in DOMAIN r.tasks : ~(r.tasks[i].counters > r.tasks[i].spec.budget)
           /\ r.outcome # "BudgetExhausted"
<1>1. r.outcome # "BudgetExhausted"
  BY StageFacts DEF Good, Valid
<1> QED
  BY <1>1 DEF Good, Valid, ValidTask

-----------------------------------------------------------------------------
(* Events about the active Task *)

\* What ValidTask says of a Task whatever its run
Sound(t) ==
    /\ t.counters = Recounted(t).counters
    /\ ChildIsBound(t)
    /\ t.state \in {"Queued", "Superseded"} => Untouched(t)
    /\ t.state \in {"Running", "Blocked", "Failed"} => HasRequest(t) /\ t.result = None
    /\ t.state \in Successful => HasRequest(t) /\ ResultIsSound(t)
    /\ t.state = "Cancelled" => t.result = None /\ (HasRequest(t) \/ Untouched(t))

LEMMA ValidTaskParts ==
    ASSUME NEW r, NEW t
    PROVE  ValidTask(r, t) <=>
               /\ t.revision \in 1 .. r.revision
               /\ Sound(t)
               /\ t.counters > t.spec.budget => t.state = "Failed" /\ r.outcome = "BudgetExhausted"
               /\ t.state \notin {"Queued", "Cancelled", "Superseded"} =>
                      \A id \in t.spec.deps : IsDelivered(r, id)
  BY DEF ValidTask, Sound

\* s is r after an event about its active Task i.
Changes(r, i, s) ==
    /\ s.plan = r.plan /\ s.revision = r.revision
    /\ DOMAIN s.tasks = DOMAIN r.tasks
    /\ \A j \in DOMAIN r.tasks \ {i} : s.tasks[j] = r.tasks[j]
    /\ s.tasks[i].spec = r.tasks[i].spec
    /\ s.tasks[i].revision = r.tasks[i].revision
    /\ s.tasks[i].state \notin {"Queued", "Superseded"}

\* The Task i may be the next to run, or goes on.
MayMove(r, i) ==
    /\ i \in CurrentTasks(r) /\ r.stage # "Failed" /\ r.tasks[i].state \notin Successful
    /\ \A j \in CurrentTasks(r) \ {i} : r.tasks[j].state \in Idling
    /\ \A id \in r.tasks[i].spec.deps : IsDelivered(r, id)

LEMMA ActiveTaskMayMove ==
    ASSUME NEW r, Good(r), r.stage \in {"RunningTask", "Paused", "Blocked"},
           NEW i \in Named(r, r.active)
    PROVE  /\ MayMove(r, i) /\ r.active = r.tasks[i].spec.id
           /\ r.tasks[i].state \in {"Running", "Blocked"}
<1>1. /\ i \in CurrentTasks(r) /\ r.active = r.tasks[i].spec.id
      /\ r.tasks[i].state \in {"Running", "Blocked"}
      /\ \A j \in CurrentTasks(r) \ {i} : r.tasks[j].state \in Idling
  BY ActiveTask
<1>2. i \in DOMAIN r.tasks
  BY <1>1 DEF CurrentTasks
<1>3. \A id \in r.tasks[i].spec.deps : IsDelivered(r, id)
  BY <1>1, <1>2, ValidTaskParts DEF Good, Valid
<1> QED
  BY <1>1, <1>3 DEF MayMove, Successful

LEMMA OneTaskChanges ==
    ASSUME NEW r, Good(r), NEW i, MayMove(r, i), NEW s, Changes(r, i, s), Sound(s.tasks[i]),
           s.tasks[i].counters > s.tasks[i].spec.budget =>
               s.tasks[i].state = "Failed" /\ s.outcome = "BudgetExhausted"
    PROVE  /\ SameShape(r, s) /\ TasksMatchPlan(s)
           /\ \A j \in DOMAIN s.tasks : ValidTask(s, s.tasks[j])
           /\ \A j \in DOMAIN s.tasks \ {i} : IsKept(s, s.tasks[j])
           /\ i \in CurrentTasks(s) /\ i \in Named(s, r.tasks[i].spec.id)
           /\ \A j \in CurrentTasks(s) \ {i} : s.tasks[j].state \in Idling
           /\ r.tasks[i].spec.id # None
<1>1. /\ i \in CurrentTasks(r) /\ i \in Named(r, r.tasks[i].spec.id)
      /\ r.tasks[i].state \notin Successful
      /\ \A id \in r.tasks[i].spec.deps : IsDelivered(r, id)
      /\ \A j \in CurrentTasks(r) \ {i} : r.tasks[j].state \in Idling
  BY DEF MayMove, Named
<1>2. /\ r \in MultiTaskRun /\ TasksMatchPlan(r)
      /\ \A j \in DOMAIN r.tasks : ValidTask(r, r.tasks[j]) /\ IsKept(r, r.tasks[j])
  BY DEF Good, Valid
<1>3. i \in DOMAIN r.tasks /\ r.tasks[i].state # "Superseded"
  BY <1>1 DEF CurrentTasks
<1>4. SameShape(r, s)
  BY <1>3 DEF Changes, SameShape
<1>5. \A id : IsDelivered(r, id) => IsDelivered(s, id)
  <2>1. \A j \in DOMAIN r.tasks :
            r.tasks[j].state \in Successful => s.tasks[j].state \in Successful
    BY <1>1 DEF Changes
  <2> QED
    BY <1>4, <2>1, DeliveredStays
<1>6. /\ CurrentTasks(s) = CurrentTasks(r) /\ i \in Named(s, r.tasks[i].spec.id)
      /\ TasksMatchPlan(s)
  BY <1>1, <1>2, <1>4, ShapeKeepsNames
<1>7. ASSUME NEW j \in DOMAIN r.tasks \ {i}
      PROVE  /\ s.tasks[j] = r.tasks[j] /\ r.tasks[j].state \in Idling \cup {"Superseded"}
             /\ ValidTask(s, s.tasks[j]) /\ IsKept(s, s.tasks[j])
  <2>1. s.tasks[j] = r.tasks[j]
    BY DEF Changes
  <2>2. r.tasks[j].state \in Idling \cup {"Superseded"}
    BY <1>1 DEF CurrentTasks
  <2>3. /\ r.tasks[j].revision \in 1 .. r.revision /\ Sound(r.tasks[j])
        /\ ~(r.tasks[j].counters > r.tasks[j].spec.budget)
        /\ r.tasks[j].state \notin {"Queued", "Cancelled", "Superseded"} =>
               \A id \in r.tasks[j].spec.deps : IsDelivered(r, id)
    BY <1>2, <2>2, ValidTaskParts DEF Idling
  <2>4. ValidTask(s, s.tasks[j])
    BY <1>5, <2>1, <2>3, ValidTaskParts DEF Changes
  <2>5. IsKept(s, s.tasks[j])
    BY <1>2, <2>1, <2>2 DEF IsKept, Idling
  <2> QED
    BY <2>1, <2>2, <2>4, <2>5
<1>8. ValidTask(s, s.tasks[i])
  <2>1. /\ r.tasks[i].revision \in 1 .. r.revision
        /\ \A id \in r.tasks[i].spec.deps : IsDelivered(r, id)
    BY <1>1, <1>2, <1>3, ValidTaskParts
  <2> QED
    BY <1>5, <2>1, ValidTaskParts DEF Changes
<1>9. DOMAIN s.tasks = DOMAIN r.tasks
  BY DEF Changes
<1>10. \A j \in CurrentTasks(s) \ {i} : s.tasks[j].state \in Idling
  BY <1>1, <1>6, <1>7 DEF CurrentTasks
<1>11. r.tasks[i].spec.id # None
  BY <1>2, <1>3, NoneIsNothing, RunFields, TaskFields
<1> QED
  BY <1>1, <1>4, <1>6, <1>7, <1>8, <1>9, <1>10, <1>11

\* The stages of a run whose Task i is active
LEMMA ActiveStages ==
    ASSUME NEW s, NEW i \in DOMAIN s.tasks, i \in CurrentTasks(s),
           i \in Named(s, s.active), \A j \in CurrentTasks(s) \ {i} : s.tasks[j].state \in Idling
    PROVE  /\ OthersWait(s)
           /\ s.tasks[i].state = "Running" /\ s.stage \in {"RunningTask", "Paused"}
              /\ s.outcome = None => ValidStage(s)
           /\ s.tasks[i].state = "Blocked" /\ s.stage = "Blocked"
              /\ s.outcome = "TaskBlocked" => ValidStage(s)
<1>1. OthersWait(s)
  BY DEF OthersWait
<1>2. ASSUME s.tasks[i].state = "Running" PROVE Cardinality(Running(s)) = 1
  <2>1. Running(s) = {i}
    BY <1>2 DEF Running, CurrentTasks, Idling
  <2> QED
    BY <2>1, FS_Singleton
<1>3. \A states : s.tasks[i].state \in states => ActiveIs(s, states)
  BY DEF ActiveIs
<1> QED
  BY <1>1, <1>2, <1>3 DEF ValidStage

LEMMA RunningTaskFacts ==
    ASSUME NEW r, Good(r), NEW i \in RunningTask(r)
    PROVE  /\ r.stage = "RunningTask" /\ i \in Named(r, r.active)
           /\ i \in DOMAIN r.tasks /\ r.tasks[i].state = "Running"
           /\ r \in MultiTaskRun /\ r.tasks[i] \in TaskRun /\ r.outcome = None
           /\ Sound(r.tasks[i]) /\ IsKept(r, r.tasks[i])
           /\ r.tasks[i].base # None /\ Attempts(r.tasks[i]) > 0 /\ r.tasks[i].result = None
           /\ ChildIsBound(r.tasks[i]) /\ r.tasks[i].base = r.expected
<1>1. /\ r.stage = "RunningTask" /\ i \in Named(r, r.active) /\ r.tasks[i].state = "Running"
      /\ i \in DOMAIN r.tasks
  BY DEF RunningTask, Named, CurrentTasks
<1>2. r \in MultiTaskRun /\ r.outcome = None /\ r.tasks[i] \in TaskRun
  BY <1>1, StageFacts, RunFields DEF Good, Valid
<1>3. Sound(r.tasks[i]) /\ IsKept(r, r.tasks[i])
  BY <1>1, ValidTaskParts DEF Good, Valid
<1> QED
  BY <1>1, <1>2, <1>3 DEF Sound, IsKept, HasRequest

-----------------------------------------------------------------------------
(* Charging *)

\* What the active Task i of r is left with when it is charged as t: the sums are
\* taken anew, and over the budget the run fails.
LEMMA ChargedFields ==
    ASSUME NEW r \in MultiTaskRun, NEW i \in DOMAIN r.tasks, NEW t \in TaskRun
    PROVE  LET s == Charged(r, i, t)
               u == Recounted(t)
           IN  /\ s \in MultiTaskRun
               /\ DOMAIN s.tasks = DOMAIN r.tasks
               /\ \A j \in DOMAIN r.tasks \ {i} : s.tasks[j] = r.tasks[j]
               /\ s.plan = r.plan /\ s.revision = r.revision /\ s.expected = r.expected
               /\ s.coordination = r.coordination
               /\ s.counters = SumFunction(Counters(s))
               /\ \/ /\ s.tasks[i] = u /\ s.stage = r.stage /\ s.active = r.active
                     /\ s.outcome = r.outcome
                     /\ ~(u.counters > u.spec.budget) /\ ~(s.counters > Allocated(s.plan))
                  \/ /\ s.tasks[i] = [u EXCEPT !.state = "Failed"]
                     /\ s.stage = "Failed" /\ s.active = None
                     /\ s.outcome = "BudgetExhausted"
                     /\ u.counters > u.spec.budget \/ s.counters > Allocated(s.plan)
<1> DEFINE u == Recounted(t)
           w == WithTask(r, i, u)
           c == RecountedRun(w)
           s == Charged(r, i, t)
<1>1. u \in TaskRun
  BY RecountedType
<1> HIDE DEF u
<1>2. /\ w \in MultiTaskRun
      /\ DOMAIN w.tasks = DOMAIN r.tasks /\ w.tasks[i] = u
      /\ \A j \in DOMAIN r.tasks \ {i} : w.tasks[j] = r.tasks[j]
      /\ w.plan = r.plan /\ w.stage = r.stage /\ w.revision = r.revision
      /\ w.active = r.active /\ w.expected = r.expected
      /\ w.coordination = r.coordination
      /\ w.outcome = r.outcome
  BY <1>1, WithTaskFields
<1> HIDE DEF w
<1>3. SumFunction(Counters(w)) \in Nat
  BY <1>2, CountersAreTyped
<1>4. c = [w EXCEPT !.counters = SumFunction(Counters(w))]
  BY DEF RecountedRun, Counters
<1>5. /\ c \in MultiTaskRun /\ c.tasks = w.tasks /\ c.counters = SumFunction(Counters(w))
      /\ c.plan = w.plan /\ c.stage = w.stage /\ c.revision = w.revision
      /\ c.active = w.active /\ c.expected = w.expected
      /\ c.coordination = w.coordination /\ c.outcome = w.outcome
  BY <1>2, <1>3, <1>4 DEF MultiTaskRun
<1>6. SumFunction(Counters(c)) = c.counters
  BY <1>5 DEF Counters
<1>7. s = IF Over(c, c.tasks[i])
          THEN [c EXCEPT !.tasks[i].state = "Failed", !.active = None,
                         !.stage = "Failed", !.outcome = "BudgetExhausted"]
          ELSE c
  BY DEF Charged, u, w
<1> HIDE DEF c, s
<1>8. c.tasks[i] = u
  BY <1>2, <1>5
<1>9. CASE ~Over(c, c.tasks[i])
  BY <1>2, <1>5, <1>6, <1>7, <1>8, <1>9 DEF Over, u, s
<1>10. CASE Over(c, c.tasks[i])
  <2> DEFINE v == [u EXCEPT !.state = "Failed"]
             q == [c.tasks EXCEPT ![i] = v]
  <2>1. /\ v \in TaskRun /\ v.counters = u.counters
    BY <1>1 DEF TaskRun, TaskStates
  <2> HIDE DEF v
  <2>2. /\ q \in Seq(TaskRun) /\ DOMAIN q = DOMAIN c.tasks /\ q[i] = v
        /\ \A j \in DOMAIN c.tasks \ {i} : q[j] = c.tasks[j]
    BY <1>2, <1>5, <2>1, RunFields
  <2>3. s = [c EXCEPT !.tasks = q, !.active = None, !.stage = "Failed",
                      !.outcome = "BudgetExhausted"]
    BY <1>2, <1>5, <1>7, <1>8, <1>10 DEF MultiTaskRun, v
  <2> HIDE DEF q
  <2>4. /\ s \in MultiTaskRun /\ s.tasks = q /\ s.counters = c.counters
        /\ s.plan = c.plan /\ s.stage = "Failed" /\ s.revision = c.revision
        /\ s.active = None /\ s.expected = c.expected
        /\ s.coordination = c.coordination /\ s.outcome = "BudgetExhausted"
    BY <1>5, <2>2, <2>3 DEF MultiTaskRun, Stages, Outcomes
  <2>5. \A j \in DOMAIN c.tasks : q[j].counters = c.tasks[j].counters
    BY <1>8, <2>1, <2>2
  <2>6. Counters(s) = Counters(c)
    BY <2>2, <2>4, <2>5 DEF Counters
  <2>7. u.counters > u.spec.budget \/ c.counters > Allocated(c.plan)
    BY <1>8, <1>10 DEF Over
  <2> QED
    BY <1>2, <1>5, <1>6, <2>2, <2>4, <2>6, <2>7 DEF u, v, s
<1> QED
  BY <1>9, <1>10

LEMMA ChargedKeepsGood ==
    ASSUME NEW r, Good(r), NEW i \in RunningTask(r), NEW t \in TaskRun,
           t.spec = r.tasks[i].spec, t.revision = r.tasks[i].revision,
           t.state = "Running", t.base = r.tasks[i].base, t.result = None,
           ChildIsBound(t), Attempts(t) > 0, t.spec.contract \subseteq t.contract
    PROVE  LET s == Charged(r, i, t)
           IN  /\ Good(s)
               /\ s.expected = r.expected
               /\ DOMAIN s.tasks = DOMAIN r.tasks
               /\ \A j \in DOMAIN r.tasks \ {i} : s.tasks[j] = r.tasks[j]
               /\ s.tasks[i].state \in {"Running", "Failed"}
               /\ s.tasks[i].marks = t.marks
               /\ s.counters = (r.counters - r.tasks[i].counters)
                                   + (t.direct + SumFunction(t.marks))
<1> DEFINE s == Charged(r, i, t)
           u == Recounted(t)
<1>1. /\ r.stage = "RunningTask" /\ i \in Named(r, r.active) /\ i \in DOMAIN r.tasks
      /\ r \in MultiTaskRun /\ r.outcome = None /\ r.tasks[i].base = r.expected
      /\ r.tasks[i].base # None
  BY RunningTaskFacts
<1>2. /\ s \in MultiTaskRun
      /\ DOMAIN s.tasks = DOMAIN r.tasks
      /\ \A j \in DOMAIN r.tasks \ {i} : s.tasks[j] = r.tasks[j]
      /\ s.plan = r.plan /\ s.revision = r.revision /\ s.expected = r.expected
      /\ s.coordination = r.coordination
      /\ s.counters = SumFunction(Counters(s))
      /\ \/ /\ s.tasks[i] = u /\ s.stage = r.stage /\ s.active = r.active
            /\ s.outcome = r.outcome
            /\ ~(u.counters > u.spec.budget) /\ ~(s.counters > Allocated(s.plan))
         \/ /\ s.tasks[i] = [u EXCEPT !.state = "Failed"]
            /\ s.stage = "Failed" /\ s.active = None
            /\ s.outcome = "BudgetExhausted"
            /\ u.counters > u.spec.budget \/ s.counters > Allocated(s.plan)
  BY <1>1, ChargedFields
<1> HIDE DEF s
<1>3. /\ u \in TaskRun /\ u.counters = t.direct + SumFunction(t.marks)
      /\ u.spec = t.spec /\ u.revision = t.revision /\ u.state = t.state /\ u.base = t.base
      /\ u.result = t.result /\ u.child = t.child /\ u.contract = t.contract
      /\ u.marks = t.marks /\ u.direct = t.direct
  BY RecountedType DEF Recounted, TaskRun
<1> DEFINE v == s.tasks[i]
<1>4. /\ v.spec = t.spec /\ v.revision = t.revision /\ v.base = t.base /\ v.result = t.result
      /\ v.child = t.child /\ v.contract = t.contract /\ v.marks = t.marks
      /\ v.direct = t.direct /\ v.counters = u.counters /\ v \in TaskRun
      /\ v.state = IF s.stage = "Failed" THEN "Failed" ELSE "Running"
  <2>1. v = u \/ v = [u EXCEPT !.state = "Failed"]
    BY <1>2
  <2>2. v \in TaskRun
    BY <1>1, <1>2, RunFields
  <2>3. v.state = IF s.stage = "Failed" THEN "Failed" ELSE "Running"
    BY <1>1, <1>2, <1>3 DEF TaskRun
  <2> HIDE DEF u, v
  <2> QED
    BY <1>3, <2>1, <2>2, <2>3 DEF TaskRun
<1> HIDE DEF u, v
<1>5. Sound(v)
  <2>1. v.counters = Recounted(v).counters
    BY <1>3, <1>4, RecountedType
  <2>2. ChildIsBound(v)
    BY <1>4 DEF ChildIsBound, Attempts
  <2>3. HasRequest(v)
    BY <1>1, <1>4 DEF HasRequest, Attempts
  <2>4. v.result = None /\ v.state \in {"Running", "Failed"}
    BY <1>4
  <2> QED
    BY <2>1, <2>2, <2>3, <2>4 DEF Sound, Successful
<1>6. Changes(r, i, s)
  BY <1>2, <1>4 DEF Changes, v
<1>7. v.counters > v.spec.budget => v.state = "Failed" /\ s.outcome = "BudgetExhausted"
  BY <1>1, <1>2, <1>3, <1>4
<1>8. /\ TasksMatchPlan(s)
      /\ \A j \in DOMAIN s.tasks : ValidTask(s, s.tasks[j])
      /\ \A j \in DOMAIN s.tasks \ {i} : IsKept(s, s.tasks[j])
      /\ i \in CurrentTasks(s) /\ i \in Named(s, r.active)
      /\ \A j \in CurrentTasks(s) \ {i} : s.tasks[j].state \in Idling
  <2>1. MayMove(r, i) /\ r.active = r.tasks[i].spec.id
    BY <1>1, ActiveTaskMayMove
  <2> QED
    BY <1>5, <1>6, <1>7, <2>1, OneTaskChanges DEF v
<1>9. ~(r.counters > Allocated(r.plan)) /\ ~(r.coordination > Coordination)
  BY <1>1, NothingIsOver
<1>10. ValidStage(s) /\ OthersWait(s)
  <2>1. CASE s.stage = "Failed"
    <3>1. s.active = None /\ s.outcome = "BudgetExhausted"
      BY <1>1, <1>2, <2>1
    <3>2. v.counters > v.spec.budget \/ s.counters > Allocated(s.plan)
      BY <1>1, <1>2, <1>3, <1>4, <2>1
    <3> QED
      BY <1>8, <2>1, <3>1, <3>2 DEF ValidStage, OthersWait, TerminalStages, v
  <2>2. CASE s.stage # "Failed"
    BY <1>1, <1>2, <1>4, <1>8, <2>2, ActiveStages DEF v
  <2> QED
    BY <2>1, <2>2
<1>11. Valid(s)
  <2>1. s.counters = RecountedRun(s).counters
    BY <1>2, CountersAreTyped DEF RecountedRun, Counters, MultiTaskRun
  <2>2. s.counters > Allocated(s.plan) \/ s.coordination > Coordination =>
            s.stage = "Failed" /\ s.outcome = "BudgetExhausted"
    BY <1>2, <1>9
  <2> QED
    BY <1>8, <1>10, <2>1, <2>2 DEF Valid
<1>12. IsKept(s, v)
  BY <1>1, <1>2, <1>4 DEF IsKept, Successful
<1>13. Good(s)
  BY <1>2, <1>8, <1>10, <1>11, <1>12 DEF Good, v
<1>14. s.counters = (r.counters - r.tasks[i].counters) + (t.direct + SumFunction(t.marks))
  <2> DEFINE f == Counters(r)
             g == Counters(s)
             D == DOMAIN r.tasks
  <2>1. f \in [D -> Nat] /\ g \in [D -> Nat] /\ IsFiniteSet(D)
    BY <1>1, <1>2, CountersAreTyped, RunFields
  <2>2. \A j \in D \ {i} : g[j] = f[j]
    BY <1>2 DEF Counters
  <2>3. f[i] = r.tasks[i].counters /\ g[i] = v.counters
    BY <1>1, <1>2 DEF Counters, v
  <2>4. r.counters = SumFunction(f)
    BY <1>1, CountersAreTyped DEF Good, Valid, RecountedRun, Counters, MultiTaskRun
  <2> HIDE DEF f, g, D
  <2>5. SumFunction(g) = (SumFunction(f) - f[i]) + g[i]
    BY <1>1, <2>1, <2>2, SumUpdated DEF D
  <2> QED
    BY <1>2, <1>3, <1>4, <2>3, <2>4, <2>5 DEF g
<1> QED
  BY <1>1, <1>2, <1>4, <1>13, <1>14 DEF s, v

\* RecordDirect: the Task is charged for what it used itself.
LEMMA RecordDirectKeepsGood ==
    ASSUME NEW r, Good(r), NEW i \in RunningTask(r), NEW usage \in Nat
    PROVE  LET s == RecordDirect(r, i, usage)
           IN  /\ Good(s)
               /\ s.expected = r.expected
               /\ DOMAIN s.tasks = DOMAIN r.tasks
               /\ \A j \in DOMAIN r.tasks \ {i} : s.tasks[j] = r.tasks[j]
               /\ s.tasks[i].state \in {"Running", "Failed"}
               /\ s.tasks[i].marks = r.tasks[i].marks
               /\ s.counters = r.counters + usage
<1> DEFINE task == r.tasks[i]
           t == [task EXCEPT !.direct = @ + usage]
           s == Charged(r, i, t)
<1>1. /\ task \in TaskRun /\ task.state = "Running" /\ task.result = None
      /\ Attempts(task) > 0 /\ ChildIsBound(task) /\ Sound(task) /\ IsKept(r, task)
      /\ r \in MultiTaskRun
  BY RunningTaskFacts
<1>2. task.direct \in Nat /\ task.counters \in Nat /\ SumFunction(task.marks) \in Nat
  BY <1>1, TaskFields, RecountedType
<1>3. /\ t \in TaskRun /\ t.spec = task.spec /\ t.revision = task.revision
      /\ t.state = task.state /\ t.base = task.base /\ t.result = task.result
      /\ t.child = task.child /\ t.contract = task.contract /\ t.marks = task.marks
      /\ t.direct = task.direct + usage
  <2> DEFINE d == task.direct + usage
  <2>1. d \in Nat
    BY <1>2
  <2>2. t = [task EXCEPT !.direct = d]
    OBVIOUS
  <2> HIDE DEF d, t, task
  <2>3. t.direct = d
    BY <1>1, <2>2 DEF TaskRun
  <2> QED
    BY <1>1, <2>1, <2>2, <2>3 DEF TaskRun, d
<1>4. task.counters = task.direct + SumFunction(task.marks)
  BY <1>1, RecountedType DEF Sound
<1> HIDE DEF task, t, s
<1>5. ChildIsBound(t) /\ Attempts(t) > 0 /\ t.spec.contract \subseteq t.contract
  BY <1>1, <1>3 DEF ChildIsBound, Attempts, IsKept
<1>6. /\ Good(s)
      /\ s.expected = r.expected
      /\ DOMAIN s.tasks = DOMAIN r.tasks
      /\ \A j \in DOMAIN r.tasks \ {i} : s.tasks[j] = r.tasks[j]
      /\ s.tasks[i].state \in {"Running", "Failed"}
      /\ s.tasks[i].marks = t.marks
      /\ s.counters = (r.counters - task.counters) + (t.direct + SumFunction(t.marks))
  BY <1>1, <1>3, <1>5, ChargedKeepsGood DEF s, task
<1>7. s.counters = r.counters + usage
  BY <1>1, <1>2, <1>3, <1>4, <1>6, RunFields
<1> QED
  BY <1>3, <1>6, <1>7 DEF RecordDirect, s, t, task

\* The Task of a child that is heard of
Heeds(task, child, repository) ==
    [task EXCEPT !.contract = child.contract, !.child = child, !.checkpoint = repository,
                 !.marks = [@ EXCEPT ![child.attempt] = child.used]]

LEMMA HeedsFields ==
    ASSUME NEW task \in TaskRun, NEW child \in Child, NEW repository \in Repositories,
           child.attempt = Attempts(task), Attempts(task) > 0
    PROVE  LET t == Heeds(task, child, repository)
           IN  /\ t \in TaskRun /\ t.spec = task.spec /\ t.revision = task.revision
               /\ t.state = task.state /\ t.base = task.base /\ t.result = task.result
               /\ t.direct = task.direct /\ t.contract = child.contract
               /\ ChildIsBound(t) /\ Attempts(t) = Attempts(task)
               /\ t.marks[child.attempt] = child.used
               /\ \A a \in DOMAIN task.marks \ {child.attempt} : t.marks[a] = task.marks[a]
               /\ SumFunction(t.marks)
                      = (SumFunction(task.marks) - task.marks[child.attempt]) + child.used
<1> DEFINE a == child.attempt
           m == [task.marks EXCEPT ![a] = child.used]
           t == Heeds(task, child, repository)
           n == Len(task.marks)
<1>1. /\ task.marks \in Seq(Nat) /\ n \in Nat /\ task.marks \in [1 .. n -> Nat]
      /\ a \in 1 .. n /\ IsFiniteSet(1 .. n)
  BY TaskFields DEF Attempts
<1>2. child.used \in Nat /\ child.contract \in SUBSET Criteria
  BY DEF Child
<1>3. /\ m \in Seq(Nat) /\ Len(m) = n /\ m[a] = child.used /\ m \in [1 .. n -> Nat]
      /\ \A b \in 1 .. n \ {a} : m[b] = task.marks[b]
  BY <1>1, <1>2
<1> HIDE DEF m
<1>4. t = [task EXCEPT !.contract = child.contract, !.child = child,
                       !.checkpoint = repository, !.marks = m]
  BY DEF Heeds, m, TaskRun
<1>5. /\ t \in TaskRun /\ t.spec = task.spec /\ t.revision = task.revision
      /\ t.state = task.state /\ t.base = task.base /\ t.result = task.result
      /\ t.direct = task.direct /\ t.contract = child.contract
      /\ t.child = child /\ t.marks = m
  BY <1>2, <1>3, <1>4 DEF TaskRun
<1> HIDE DEF t
<1>6. ChildIsBound(t) /\ Attempts(t) = Attempts(task)
  BY <1>3, <1>5 DEF ChildIsBound, Attempts
<1>7. SumFunction(m) = (SumFunction(task.marks) - task.marks[a]) + m[a]
  <2> DEFINE D == 1 .. n
  <2>1. IsFiniteSet(D) /\ task.marks \in [D -> Nat] /\ m \in [D -> Nat] /\ a \in D
    BY <1>1, <1>3
  <2>2. \A b \in D \ {a} : m[b] = task.marks[b]
    BY <1>3
  <2> HIDE DEF D, n, a
  <2> QED
    BY <2>1, <2>2, SumUpdated
<1>8. DOMAIN task.marks = 1 .. n
  BY <1>1
<1> QED
  BY <1>3, <1>5, <1>6, <1>7, <1>8 DEF t

LEMMA HeedingKeepsGood ==
    ASSUME NEW r, Good(r), NEW i \in RunningTask(r), NEW child \in Child,
           NEW repository \in Repositories, child.attempt = Attempts(r.tasks[i]),
           r.tasks[i].contract \subseteq child.contract
    PROVE  LET s == Charged(r, i, Heeds(r.tasks[i], child, repository))
               a == child.attempt
           IN  /\ Good(s)
               /\ s.expected = r.expected
               /\ DOMAIN s.tasks = DOMAIN r.tasks
               /\ \A j \in DOMAIN r.tasks \ {i} : s.tasks[j] = r.tasks[j]
               /\ s.tasks[i].state \in {"Running", "Failed"}
               /\ Attempts(s.tasks[i]) = Attempts(r.tasks[i])
               /\ a \in DOMAIN r.tasks[i].marks
               /\ s.tasks[i].marks[a] = child.used
               /\ \A b \in DOMAIN r.tasks[i].marks \ {a} :
                      s.tasks[i].marks[b] = r.tasks[i].marks[b]
               /\ s.counters = (r.counters - r.tasks[i].marks[a]) + child.used
<1> DEFINE task == r.tasks[i]
           a == child.attempt
           t == Heeds(task, child, repository)
           s == Charged(r, i, t)
<1>1. /\ task \in TaskRun /\ task.state = "Running" /\ task.result = None
      /\ Attempts(task) > 0 /\ Sound(task) /\ IsKept(r, task)
      /\ r \in MultiTaskRun
  BY RunningTaskFacts
<1>2. /\ task.direct \in Nat /\ task.counters \in Nat /\ SumFunction(task.marks) \in Nat
      /\ a \in DOMAIN task.marks /\ task.marks[a] \in Nat /\ child.used \in Nat
      /\ r.counters \in Nat
  <2>1. child.used \in Nat /\ r.counters \in Nat
    BY <1>1, RunFields DEF Child
  <2>2. /\ task.direct \in Nat /\ task.counters \in Nat /\ SumFunction(task.marks) \in Nat
        /\ DOMAIN task.marks = 1 .. Len(task.marks) /\ task.marks \in Seq(Nat)
    BY <1>1, TaskFields, RecountedType
  <2>3. a = Len(task.marks) /\ a > 0
    BY <1>1 DEF Attempts
  <2>4. a \in DOMAIN task.marks /\ task.marks[a] \in Nat
    BY <2>2, <2>3
  <2> QED
    BY <2>1, <2>2, <2>4
<1>3. /\ t \in TaskRun /\ t.spec = task.spec /\ t.revision = task.revision
      /\ t.state = task.state /\ t.base = task.base /\ t.result = task.result
      /\ t.direct = task.direct /\ t.contract = child.contract
      /\ ChildIsBound(t) /\ Attempts(t) = Attempts(task)
      /\ t.marks[a] = child.used
      /\ \A b \in DOMAIN task.marks \ {a} : t.marks[b] = task.marks[b]
      /\ SumFunction(t.marks) = (SumFunction(task.marks) - task.marks[a]) + child.used
  BY <1>1, HeedsFields
<1>4. task.counters = task.direct + SumFunction(task.marks)
  BY <1>1, RecountedType DEF Sound
<1> HIDE DEF task, t, s, a
<1>5. t.spec.contract \subseteq t.contract
  BY <1>1, <1>3 DEF IsKept, task
<1>6. /\ Good(s)
      /\ s.expected = r.expected
      /\ DOMAIN s.tasks = DOMAIN r.tasks
      /\ \A j \in DOMAIN r.tasks \ {i} : s.tasks[j] = r.tasks[j]
      /\ s.tasks[i].state \in {"Running", "Failed"}
      /\ s.tasks[i].marks = t.marks
      /\ s.counters = (r.counters - task.counters) + (t.direct + SumFunction(t.marks))
  BY <1>1, <1>3, <1>5, ChargedKeepsGood DEF s, task
<1>7. s.counters = (r.counters - task.marks[a]) + child.used
  BY <1>2, <1>3, <1>4, <1>6
<1>8. Attempts(s.tasks[i]) = Attempts(task)
  BY <1>3, <1>6 DEF Attempts
<1> QED
  BY <1>2, <1>3, <1>6, <1>7, <1>8 DEF s, t, a, task

\* ChildStarted, ChildCheckpointed: the contract is the one the Task has.
LEMMA CheckpointIsHeeded ==
    ASSUME NEW r, Good(r), NEW i \in RunningTask(r), NEW child, NEW repository,
           child.contract = r.tasks[i].contract
    PROVE  CheckpointChild(r, i, child, repository)
               = Charged(r, i, Heeds(r.tasks[i], child, repository))
<1>1. r.tasks[i] \in TaskRun
  BY RunningTaskFacts
<1>2. [r.tasks[i] EXCEPT !.child = child, !.checkpoint = repository,
                         !.marks[child.attempt] = child.used]
          = Heeds(r.tasks[i], child, repository)
  BY <1>1 DEF Heeds, TaskRun
<1> QED
  BY <1>2 DEF CheckpointChild

\* GoalContractRevised: the contract is the child's.
LEMMA RevisionIsHeeded ==
    ASSUME NEW r, Good(r), NEW i \in RunningTask(r), NEW child \in Child, NEW repository
    PROVE  ReviseContract(r, i, child, repository)
               = Charged(r, i, Heeds(r.tasks[i], child, repository))
<1> DEFINE task == r.tasks[i]
           t == [task EXCEPT !.contract = child.contract]
           w == WithTask(r, i, t)
           h == Heeds(task, child, repository)
<1>1. task \in TaskRun /\ r \in MultiTaskRun /\ i \in DOMAIN r.tasks
  BY RunningTaskFacts
<1>2. t \in TaskRun
  BY <1>1 DEF TaskRun, Child
<1>3. w.tasks[i] = t
  BY <1>1, <1>2, WithTaskFields
<1>4. [t EXCEPT !.child = child, !.checkpoint = repository,
                !.marks[child.attempt] = child.used] = h
  BY <1>1 DEF Heeds, TaskRun
<1>5. \A x : WithTask(w, i, x) = WithTask(r, i, x)
  BY <1>1 DEF WithTask, MultiTaskRun
<1>6. Charged(w, i, h) = Charged(r, i, h)
  <2>1. WithTask(w, i, Recounted(h)) = WithTask(r, i, Recounted(h))
    BY <1>5
  <2> HIDE DEF w, h
  <2> QED
    BY <2>1 DEF Charged
<1>7. ReviseContract(r, i, child, repository) = Charged(w, i, h)
  <2>1. ReviseContract(r, i, child, repository) = CheckpointChild(w, i, child, repository)
    BY DEF ReviseContract
  <2> HIDE DEF w, h, t
  <2> QED
    BY <1>3, <1>4, <2>1 DEF CheckpointChild
<1> QED
  BY <1>6, <1>7

-----------------------------------------------------------------------------
(* Events that charge nothing *)

LEMMA CountersAreSummed ==
    ASSUME NEW r \in MultiTaskRun
    PROVE  r.counters = RecountedRun(r).counters <=> r.counters = SumFunction(Counters(r))
  BY CountersAreTyped DEF RecountedRun, Counters, MultiTaskRun

LEMMA UnchargedKeepsGood ==
    ASSUME NEW r, Good(r), NEW i, MayMove(r, i), NEW s \in MultiTaskRun, Changes(r, i, s),
           Sound(s.tasks[i]), IsKept(s, s.tasks[i]),
           s.tasks[i].counters = r.tasks[i].counters,
           s.counters = r.counters, s.coordination = r.coordination
    PROVE  /\ i \in CurrentTasks(s) /\ i \in Named(s, r.tasks[i].spec.id)
           /\ r.tasks[i].spec.id # None
           /\ i \in DOMAIN s.tasks
           /\ \A j \in CurrentTasks(s) \ {i} : s.tasks[j].state \in Idling
           /\ ValidStage(s) /\ OthersWait(s) => Good(s)
<1>1. i \in DOMAIN r.tasks /\ i \in DOMAIN s.tasks /\ r.stage # "Failed"
  BY DEF MayMove, CurrentTasks, Changes
<1>2. /\ ~(r.counters > Allocated(r.plan)) /\ ~(r.coordination > Coordination)
      /\ ~(r.tasks[i].counters > r.tasks[i].spec.budget)
  BY <1>1, NothingIsOver
<1>3. ~(s.tasks[i].counters > s.tasks[i].spec.budget)
  BY <1>2 DEF Changes
<1>4. /\ TasksMatchPlan(s)
      /\ \A j \in DOMAIN s.tasks : ValidTask(s, s.tasks[j])
      /\ \A j \in DOMAIN s.tasks \ {i} : IsKept(s, s.tasks[j])
      /\ i \in CurrentTasks(s) /\ i \in Named(s, r.tasks[i].spec.id)
      /\ \A j \in CurrentTasks(s) \ {i} : s.tasks[j].state \in Idling
      /\ r.tasks[i].spec.id # None
  BY <1>3, OneTaskChanges
<1>5. Counters(s) = Counters(r)
  <2>1. \A j \in DOMAIN r.tasks : s.tasks[j].counters = r.tasks[j].counters
    BY DEF Changes
  <2> QED
    BY <2>1 DEF Counters, Changes
<1>6. s.counters = RecountedRun(s).counters
  BY <1>5, CountersAreSummed DEF Good, Valid
<1>7. ~(s.counters > Allocated(s.plan)) /\ ~(s.coordination > Coordination)
  BY <1>2 DEF Changes
<1>8. ValidStage(s) => Valid(s)
  BY <1>4, <1>6, <1>7 DEF Valid
<1> QED
  BY <1>1, <1>4, <1>8 DEF Good

InState(task, state) == [task EXCEPT !.state = state]

\* The active Task with another state
LEMMA StateChanges ==
    ASSUME NEW r, Good(r), r.stage \in {"RunningTask", "Paused", "Blocked"},
           NEW i \in Named(r, r.active), NEW state \in {"Running", "Blocked", "Failed"},
           NEW s \in MultiTaskRun,
           DOMAIN s.tasks = DOMAIN r.tasks, s.tasks[i] = InState(r.tasks[i], state),
           \A j \in DOMAIN r.tasks \ {i} : s.tasks[j] = r.tasks[j],
           s.plan = r.plan, s.revision = r.revision, s.expected = r.expected,
           s.counters = r.counters, s.coordination = r.coordination
    PROVE  /\ i \in CurrentTasks(s) /\ i \in Named(s, r.active) /\ r.active # None
           /\ i \in DOMAIN s.tasks /\ DOMAIN s.tasks = DOMAIN r.tasks
           /\ s.tasks[i].state = state /\ s.tasks[i].marks = r.tasks[i].marks
           /\ \A j \in DOMAIN r.tasks \ {i} : s.tasks[j] = r.tasks[j]
           /\ \A j \in CurrentTasks(s) \ {i} : s.tasks[j].state \in Idling
           /\ r.tasks[i].state \in {"Running", "Blocked"}
           /\ ValidStage(s) /\ OthersWait(s) => Good(s)
<1> DEFINE task == r.tasks[i]
           t == InState(task, state)
<1>1. /\ task.state \in {"Running", "Blocked"} /\ i \in DOMAIN r.tasks
      /\ MayMove(r, i) /\ r.active = task.spec.id
  BY ActiveTaskMayMove DEF MayMove, CurrentTasks
<1>2. /\ r \in MultiTaskRun /\ task \in TaskRun /\ Sound(task) /\ IsKept(r, task)
  BY <1>1, RunFields, ValidTaskParts DEF Good, Valid
<1>3. /\ t.spec = task.spec /\ t.revision = task.revision /\ t.base = task.base
      /\ t.result = task.result /\ t.child = task.child /\ t.contract = task.contract
      /\ t.marks = task.marks /\ t.direct = task.direct /\ t.counters = task.counters
      /\ t.state = state /\ t.checkpoint = task.checkpoint /\ t \in TaskRun
  BY <1>2 DEF TaskRun, TaskStates, InState
<1> HIDE DEF task, t
<1>4. Sound(t)
  <2>1. HasRequest(task) /\ task.result = None /\ ChildIsBound(task)
    BY <1>1, <1>2 DEF Sound
  <2>2. HasRequest(t) /\ t.result = None /\ ChildIsBound(t)
    BY <1>3, <2>1 DEF HasRequest, ChildIsBound, Attempts
  <2>3. t.counters = Recounted(t).counters
    <3>1. task.counters = task.direct + SumFunction(task.marks)
      BY <1>2, RecountedType DEF Sound
    <3> QED
      BY <1>3, <3>1, RecountedType
  <2> QED
    BY <1>3, <2>2, <2>3 DEF Sound, Successful
<1>5. IsKept(s, t)
  BY <1>1, <1>2, <1>3 DEF IsKept, Successful
<1>6. /\ DOMAIN s.tasks = DOMAIN r.tasks /\ s.tasks[i] = t
      /\ \A j \in DOMAIN r.tasks \ {i} : s.tasks[j] = r.tasks[j]
  BY DEF task, t
<1>7. Changes(r, i, s)
  BY <1>3, <1>6 DEF Changes, task
<1>8. t.counters = r.tasks[i].counters
  BY <1>3 DEF task
<1>9. /\ i \in CurrentTasks(s) /\ i \in Named(s, r.active) /\ r.active # None
      /\ i \in DOMAIN s.tasks
      /\ \A j \in CurrentTasks(s) \ {i} : s.tasks[j].state \in Idling
      /\ ValidStage(s) /\ OthersWait(s) => Good(s)
  <2>1. r.active = r.tasks[i].spec.id
    BY <1>1 DEF task
  <2> QED
    BY <1>1, <1>4, <1>5, <1>6, <1>7, <1>8, <2>1, UnchargedKeepsGood
<1> QED
  BY <1>1, <1>3, <1>6, <1>9 DEF task

LEMMA StatesAreTyped ==
    ASSUME NEW r \in MultiTaskRun, NEW i \in DOMAIN r.tasks, NEW state \in TaskStates
    PROVE  LET q == [r.tasks EXCEPT ![i].state = state]
           IN  /\ q \in Seq(TaskRun) /\ DOMAIN q = DOMAIN r.tasks
               /\ q[i] = InState(r.tasks[i], state)
               /\ \A j \in DOMAIN r.tasks \ {i} : q[j] = r.tasks[j]
<1>1. /\ r.tasks \in Seq(TaskRun) /\ Len(r.tasks) \in Nat
      /\ DOMAIN r.tasks = 1 .. Len(r.tasks) /\ r.tasks[i] \in TaskRun
  BY RunFields
<1>2. [r.tasks[i] EXCEPT !.state = state] \in TaskRun
  BY <1>1 DEF TaskRun
<1>3. [r.tasks EXCEPT ![i].state = state] = [r.tasks EXCEPT ![i] = [r.tasks[i] EXCEPT !.state = state]]
  OBVIOUS
<1> DEFINE t == [r.tasks[i] EXCEPT !.state = state]
<1> HIDE DEF t
<1>4. LET q == [r.tasks EXCEPT ![i] = t]
      IN  /\ q \in Seq(TaskRun) /\ DOMAIN q = DOMAIN r.tasks /\ q[i] = t
          /\ \A j \in DOMAIN r.tasks \ {i} : q[j] = r.tasks[j]
  BY <1>1, <1>2 DEF t
<1> QED
  BY <1>3, <1>4 DEF t, InState

\* TaskStopped, blocked or failed
LEMMA StopKeepsGood ==
    ASSUME NEW r, Good(r), NEW i \in RunningTask(r),
           NEW s \in {StopBlocked(r, i), StopFailed(r, i)}
    PROVE  /\ Good(s) /\ s.expected = r.expected /\ s.counters = r.counters
           /\ DOMAIN s.tasks = DOMAIN r.tasks
           /\ \A j \in DOMAIN r.tasks \ {i} : s.tasks[j] = r.tasks[j]
           /\ s.tasks[i].marks = r.tasks[i].marks /\ s.tasks[i].state \in {"Blocked", "Failed"}
<1>1. /\ r.stage = "RunningTask" /\ i \in Named(r, r.active) /\ i \in DOMAIN r.tasks
      /\ r \in MultiTaskRun
  BY RunningTaskFacts
<1>2. CASE s = StopBlocked(r, i)
  <2> DEFINE q == [r.tasks EXCEPT ![i].state = "Blocked"]
  <2>1. s = [r EXCEPT !.tasks = q, !.stage = "Blocked", !.outcome = "TaskBlocked"]
    BY <1>1, <1>2 DEF StopBlocked, MultiTaskRun
  <2>2. /\ q \in Seq(TaskRun) /\ DOMAIN q = DOMAIN r.tasks
        /\ q[i] = InState(r.tasks[i], "Blocked")
        /\ \A j \in DOMAIN r.tasks \ {i} : q[j] = r.tasks[j]
    BY <1>1, StatesAreTyped DEF TaskStates
  <2> HIDE DEF q
  <2>3. /\ s \in MultiTaskRun /\ s.tasks = q /\ s.stage = "Blocked"
        /\ s.outcome = "TaskBlocked"
        /\ s.plan = r.plan /\ s.revision = r.revision /\ s.expected = r.expected
        /\ s.counters = r.counters /\ s.coordination = r.coordination
    BY <1>1, <2>1, <2>2 DEF MultiTaskRun, Stages, Outcomes
  <2>c. s.active = r.active
    BY <1>1, <2>1 DEF MultiTaskRun
  <2> DEFINE state == "Blocked"
  <2>a. /\ state \in {"Running", "Blocked", "Failed"} /\ s.tasks[i] = InState(r.tasks[i], state)
        /\ DOMAIN s.tasks = DOMAIN r.tasks /\ r.stage \in {"RunningTask", "Paused", "Blocked"}
        /\ \A j \in DOMAIN r.tasks \ {i} : s.tasks[j] = r.tasks[j]
    BY <1>1, <2>2, <2>3
  <2> HIDE DEF state
  <2>b. /\ i \in CurrentTasks(s) /\ i \in Named(s, r.active)
        /\ i \in DOMAIN s.tasks /\ DOMAIN s.tasks = DOMAIN r.tasks
        /\ s.tasks[i].state = state /\ s.tasks[i].marks = r.tasks[i].marks
        /\ \A j \in DOMAIN r.tasks \ {i} : s.tasks[j] = r.tasks[j]
        /\ \A j \in CurrentTasks(s) \ {i} : s.tasks[j].state \in Idling
        /\ ValidStage(s) /\ OthersWait(s) => Good(s)
    BY <1>1, <2>a, <2>3, StateChanges
  <2>4. /\ i \in CurrentTasks(s) /\ i \in Named(s, r.active)
        /\ i \in DOMAIN s.tasks /\ DOMAIN s.tasks = DOMAIN r.tasks
        /\ s.tasks[i].state = "Blocked" /\ s.tasks[i].marks = r.tasks[i].marks
        /\ \A j \in DOMAIN r.tasks \ {i} : s.tasks[j] = r.tasks[j]
        /\ \A j \in CurrentTasks(s) \ {i} : s.tasks[j].state \in Idling
        /\ ValidStage(s) /\ OthersWait(s) => Good(s)
    BY <2>b DEF state
  <2>5. ValidStage(s) /\ OthersWait(s)
    BY <2>3, <2>c, <2>4, ActiveStages
  <2> QED
    BY <2>3, <2>4, <2>5
<1>3. CASE s = StopFailed(r, i)
  <2> DEFINE q == [r.tasks EXCEPT ![i].state = "Failed"]
  <2>1. s = [r EXCEPT !.tasks = q, !.active = None, !.stage = "Failed", !.outcome = "TaskFailed"]
    BY <1>1, <1>3 DEF StopFailed, MultiTaskRun
  <2>2. /\ q \in Seq(TaskRun) /\ DOMAIN q = DOMAIN r.tasks
        /\ q[i] = InState(r.tasks[i], "Failed")
        /\ \A j \in DOMAIN r.tasks \ {i} : q[j] = r.tasks[j]
    BY <1>1, StatesAreTyped DEF TaskStates
  <2> HIDE DEF q
  <2>3. /\ s \in MultiTaskRun /\ s.tasks = q /\ s.stage = "Failed"
        /\ s.outcome = "TaskFailed" /\ s.active = None
        /\ s.plan = r.plan /\ s.revision = r.revision /\ s.expected = r.expected
        /\ s.counters = r.counters /\ s.coordination = r.coordination
    BY <1>1, <2>1, <2>2 DEF MultiTaskRun, Stages, Outcomes
  <2>4. /\ i \in CurrentTasks(s)
        /\ i \in DOMAIN s.tasks /\ DOMAIN s.tasks = DOMAIN r.tasks
        /\ s.tasks[i].state = "Failed" /\ s.tasks[i].marks = r.tasks[i].marks
        /\ \A j \in DOMAIN r.tasks \ {i} : s.tasks[j] = r.tasks[j]
        /\ ValidStage(s) /\ OthersWait(s) => Good(s)
    BY <1>1, <2>2, <2>3, StateChanges
  <2>5. ValidStage(s) /\ OthersWait(s)
    BY <2>3, <2>4 DEF ValidStage, OthersWait, TerminalStages
  <2> QED
    BY <2>3, <2>4, <2>5
<1> QED
  BY <1>2, <1>3

LEMMA PauseKeepsGood ==
    ASSUME NEW r, Good(r), CanPause(r)
    PROVE  /\ Good(Pause(r)) /\ Pause(r).expected = r.expected
           /\ Pause(r).counters = r.counters /\ Pause(r).tasks = r.tasks
<1> DEFINE s == Pause(r)
<1>1. r \in MultiTaskRun /\ r.stage = "RunningTask"
  BY DEF Good, CanPause
<1>2. /\ s \in MultiTaskRun /\ s.tasks = r.tasks /\ s.stage = "Paused"
      /\ s.outcome = r.outcome /\ s.active = r.active
      /\ s.plan = r.plan /\ s.revision = r.revision /\ s.expected = r.expected
      /\ s.counters = r.counters /\ s.coordination = r.coordination
  BY <1>1 DEF Pause, MultiTaskRun, Stages
<1> HIDE DEF s
<1>3. /\ \A id : Named(s, id) = Named(r, id)
      /\ CurrentTasks(s) = CurrentTasks(r) /\ Running(s) = Running(r)
  BY <1>2 DEF Named, CurrentTasks, Running
<1>4. PICK i \in CurrentTasks(r) :
          /\ Named(r, r.active) = {i} /\ r.tasks[i].state = "Running"
          /\ \A j \in CurrentTasks(r) \ {i} : r.tasks[j].state \in Idling
  BY <1>1, ActiveTask
<1>5. i \in DOMAIN s.tasks /\ r.outcome = None
  BY <1>1, <1>2, StageFacts DEF CurrentTasks, Good, Valid
<1>6. ValidStage(s) /\ OthersWait(s)
  BY <1>2, <1>3, <1>4, <1>5, ActiveStages
<1>7. \A id : IsDelivered(s, id) <=> IsDelivered(r, id)
  BY <1>2, <1>3 DEF IsDelivered
<1>8. \A j \in DOMAIN s.tasks : ValidTask(s, s.tasks[j]) /\ IsKept(s, s.tasks[j])
  BY <1>2, <1>7, ValidTaskParts DEF Good, Valid, IsKept
<1>9. TasksMatchPlan(s)
  <2>1. SameShape(r, s)
    BY <1>2 DEF SameShape
  <2> QED
    BY <2>1, ShapeKeepsNames DEF Good, Valid
<1>10. s.counters = RecountedRun(s).counters
  BY <1>1, <1>2, CountersAreSummed DEF Good, Valid, Counters
<1>11. ~(s.counters > Allocated(s.plan)) /\ ~(s.coordination > Coordination)
  BY <1>1, <1>2, NothingIsOver
<1>12. Good(s)
  BY <1>2, <1>6, <1>8, <1>9, <1>10, <1>11 DEF Good, Valid
<1> QED
  BY <1>2, <1>12 DEF s

LEMMA ResumeKeepsGood ==
    ASSUME NEW r, Good(r), r.stage \in {"Paused", "Blocked"}, NEW i \in Named(r, r.active)
    PROVE  LET s == Resume(r, i)
           IN  /\ Good(s) /\ s.expected = r.expected /\ s.counters = r.counters
               /\ DOMAIN s.tasks = DOMAIN r.tasks
               /\ \A j \in DOMAIN r.tasks \ {i} : s.tasks[j] = r.tasks[j]
               /\ s.tasks[i].marks = r.tasks[i].marks /\ s.tasks[i].state = "Running"
               /\ r.tasks[i].state \in {"Running", "Blocked"}
<1> DEFINE s == Resume(r, i)
           q == [r.tasks EXCEPT ![i].state = "Running"]
<1>1. r \in MultiTaskRun /\ i \in DOMAIN r.tasks
  BY DEF Good, Named, CurrentTasks
<1>2. s = [r EXCEPT !.tasks = q, !.stage = "RunningTask", !.outcome = None]
  BY <1>1 DEF Resume, MultiTaskRun
<1>3. /\ q \in Seq(TaskRun) /\ DOMAIN q = DOMAIN r.tasks
      /\ q[i] = InState(r.tasks[i], "Running")
      /\ \A j \in DOMAIN r.tasks \ {i} : q[j] = r.tasks[j]
  BY <1>1, StatesAreTyped DEF TaskStates
<1> HIDE DEF q, s
<1>4. /\ s \in MultiTaskRun /\ s.tasks = q /\ s.stage = "RunningTask"
      /\ s.outcome = None
      /\ s.plan = r.plan /\ s.revision = r.revision /\ s.expected = r.expected
      /\ s.counters = r.counters /\ s.coordination = r.coordination
  BY <1>1, <1>2, <1>3 DEF MultiTaskRun, Stages
<1>a. s.active = r.active
  BY <1>1, <1>2 DEF MultiTaskRun
<1>5. /\ i \in CurrentTasks(s) /\ i \in Named(s, r.active)
      /\ i \in DOMAIN s.tasks /\ DOMAIN s.tasks = DOMAIN r.tasks
      /\ s.tasks[i].state = "Running" /\ s.tasks[i].marks = r.tasks[i].marks
      /\ \A j \in DOMAIN r.tasks \ {i} : s.tasks[j] = r.tasks[j]
      /\ \A j \in CurrentTasks(s) \ {i} : s.tasks[j].state \in Idling
      /\ r.tasks[i].state \in {"Running", "Blocked"}
      /\ ValidStage(s) /\ OthersWait(s) => Good(s)
  BY <1>3, <1>4, StateChanges
<1>6. ValidStage(s) /\ OthersWait(s)
  BY <1>4, <1>a, <1>5, ActiveStages
<1> QED
  BY <1>4, <1>5, <1>6 DEF s

-----------------------------------------------------------------------------
(* A delivery *)

\* TaskDelivered: the result begins where the run was and ends where it goes on.
LEMMA DeliverKeepsGood ==
    ASSUME NEW r, Good(r), NEW i \in RunningTask(r), NEW commit \in Commits \cup {None},
           NEW repository \in Repositories, CanDeliver(r, i, commit, repository)
    PROVE  LET s == Deliver(r, i, commit, repository)
           IN  /\ Good(s) /\ s.expected = repository /\ s.counters = r.counters
               /\ DOMAIN s.tasks = DOMAIN r.tasks
               /\ \A j \in DOMAIN r.tasks \ {i} : s.tasks[j] = r.tasks[j]
               /\ s.tasks[i].marks = r.tasks[i].marks
               /\ s.tasks[i].state \in Successful
               /\ s.tasks[i].result.base = r.expected
               /\ s.tasks[i].result.terminal = repository
<1> DEFINE task == r.tasks[i]
           result == [base |-> task.base, terminal |-> repository, commit |-> commit]
           state == IF commit = None THEN "NoChange" ELSE "Committed"
           t == [task EXCEPT !.state = state, !.checkpoint = repository, !.result = result]
           w == WithTask(r, i, t)
           s == Deliver(r, i, commit, repository)
<1>1. /\ task \in TaskRun /\ task.result = None /\ i \in DOMAIN r.tasks
      /\ Attempts(task) > 0 /\ Sound(task) /\ IsKept(r, task) /\ ChildIsBound(task)
      /\ r \in MultiTaskRun /\ task.base # None /\ task.base = r.expected
      /\ r.stage = "RunningTask" /\ i \in Named(r, r.active)
  BY RunningTaskFacts
<1>2. /\ task.child # None
      /\ IF commit = None THEN repository = task.base ELSE HeadOf[repository] = commit
  BY DEF CanDeliver
<1>3. result \in TaskResult /\ result # None
  <2>1. r.expected \in Repositories
    BY <1>1, RunFields
  <2>2. result \in TaskResult
    BY <1>1, <2>1 DEF TaskResult
  <2> QED
    BY <2>2, NoneIsNothing
<1>4. result.base = task.base /\ result.terminal = repository /\ result.commit = commit
  OBVIOUS
<1>5. state \in {"Committed", "NoChange"} /\ (state = "NoChange" <=> commit = None)
  OBVIOUS
<1> HIDE DEF result, state
<1>6. /\ t \in TaskRun /\ t.spec = task.spec /\ t.revision = task.revision
      /\ t.state = state /\ t.base = task.base /\ t.result = result
      /\ t.direct = task.direct /\ t.contract = task.contract /\ t.child = task.child
      /\ t.marks = task.marks /\ t.counters = task.counters /\ t.checkpoint = repository
  BY <1>1, <1>3, <1>5 DEF TaskRun, TaskStates
<1>7. s = [w EXCEPT !.expected = repository, !.active = None, !.stage = "Evaluating",
                    !.outcome = None]
  BY DEF Deliver, result, state
<1> HIDE DEF task, t
<1>8. Sound(t)
  <2>1. t.counters = Recounted(t).counters
    <3>1. task.counters = task.direct + SumFunction(task.marks)
      BY <1>1, RecountedType DEF Sound
    <3> QED
      BY <1>6, <3>1, RecountedType
  <2>2. ChildIsBound(t)
    BY <1>1, <1>6 DEF ChildIsBound, Attempts
  <2>3. HasRequest(t)
    BY <1>1, <1>6 DEF HasRequest, Attempts
  <2>4. ResultIsSound(t)
    BY <1>2, <1>3, <1>4, <1>5, <1>6 DEF ResultIsSound
  <2> QED
    BY <1>5, <1>6, <2>1, <2>2, <2>3, <2>4 DEF Sound, Successful
<1>9. /\ w \in MultiTaskRun
      /\ DOMAIN w.tasks = DOMAIN r.tasks /\ w.tasks[i] = t
      /\ \A j \in DOMAIN r.tasks \ {i} : w.tasks[j] = r.tasks[j]
      /\ w.plan = r.plan /\ w.stage = r.stage /\ w.revision = r.revision
      /\ w.coordination = r.coordination /\ w.counters = r.counters
  BY <1>1, <1>6, WithTaskFields
<1> HIDE DEF w, s
<1>10. /\ s \in MultiTaskRun /\ s.tasks = w.tasks /\ s.stage = "Evaluating"
       /\ s.active = None /\ s.outcome = None /\ s.expected = repository
       /\ s.plan = w.plan /\ s.revision = w.revision
       /\ s.coordination = w.coordination /\ s.counters = w.counters
  BY <1>7, <1>9 DEF MultiTaskRun, Stages
<1>11. Changes(r, i, s)
  BY <1>5, <1>6, <1>9, <1>10 DEF Changes, task
<1>12. IsKept(s, s.tasks[i])
  BY <1>1, <1>2, <1>5, <1>6, <1>9, <1>10 DEF IsKept
<1>13. MayMove(r, i)
  BY <1>1, ActiveTaskMayMove
<1>14. /\ \A j \in CurrentTasks(s) \ {i} : s.tasks[j].state \in Idling
       /\ ValidStage(s) /\ OthersWait(s) => Good(s)
  <2>1. /\ Sound(s.tasks[i]) /\ s.tasks[i].counters = r.tasks[i].counters
        /\ s.counters = r.counters /\ s.coordination = r.coordination
    BY <1>6, <1>8, <1>9, <1>10 DEF task
  <2> QED
    BY <1>10, <1>11, <1>12, <1>13, <2>1, UnchargedKeepsGood
<1>15. s.tasks[i].state \in Successful
  BY <1>5, <1>6, <1>9, <1>10 DEF Successful
<1>16. \A j \in CurrentTasks(s) : s.tasks[j].state \in Idling
  BY <1>14, <1>15 DEF Idling, Successful
<1>17. ValidStage(s) /\ OthersWait(s)
  BY <1>10, <1>16 DEF ValidStage, OthersWait, Idling, Successful
<1> QED
  BY <1>1, <1>4, <1>6, <1>9, <1>10, <1>14, <1>15, <1>17 DEF s, task

-----------------------------------------------------------------------------
(* Events that leave the Tasks alone, or end them *)

LEMMA TasksStay ==
    ASSUME NEW r, Good(r), r.stage # "Failed", NEW s \in MultiTaskRun,
           s.tasks = r.tasks, s.plan = r.plan, s.revision = r.revision,
           s.expected = r.expected, s.counters = r.counters,
           ValidStage(s), OthersWait(s),
           s.coordination > Coordination => s.stage = "Failed" /\ s.outcome = "BudgetExhausted"
    PROVE  Good(s)
<1>1. SameShape(r, s) /\ \A id : IsDelivered(r, id) => IsDelivered(s, id)
  <2>1. SameShape(r, s)
    BY DEF SameShape
  <2> QED
    BY <2>1, DeliveredStays
<1>2. TasksMatchPlan(s)
  BY <1>1, ShapeKeepsNames DEF Good, Valid
<1>3. \A j \in DOMAIN s.tasks : ValidTask(s, s.tasks[j]) /\ IsKept(s, s.tasks[j])
  BY <1>1, NothingIsOver, ValidTaskParts DEF Good, Valid, IsKept
<1>4. s.counters = RecountedRun(s).counters
  BY CountersAreSummed DEF Good, Valid, Counters
<1>5. ~(s.counters > Allocated(s.plan))
  BY NothingIsOver
<1> QED
  BY <1>2, <1>3, <1>4, <1>5 DEF Good, Valid

\* CoordinationUsageRecorded
LEMMA CoordinationKeepsGood ==
    ASSUME NEW r, Good(r), CanRecordCoordination(r), NEW usage \in Nat
    PROVE  LET s == RecordCoordination(r, usage)
           IN  /\ Good(s) /\ s.expected = r.expected /\ s.counters = r.counters
               /\ s.tasks = r.tasks
<1> DEFINE total == r.coordination + usage
           s == RecordCoordination(r, usage)
<1>1. /\ r \in MultiTaskRun /\ r.stage = "Evaluating" /\ r.active = None /\ r.outcome = None
      /\ \A j \in CurrentTasks(r) : r.tasks[j].state \in Idling
  BY StageFacts DEF Good, Valid, CanRecordCoordination
<1>2. total \in Nat
  BY <1>1, RunFields
<1>3. s = IF total > Coordination
          THEN [r EXCEPT !.coordination = total, !.stage = "Failed", !.outcome = "BudgetExhausted"]
          ELSE [r EXCEPT !.coordination = total]
  BY DEF RecordCoordination
<1> HIDE DEF total, s
<1>4. /\ s \in MultiTaskRun /\ s.tasks = r.tasks /\ s.active = None
      /\ s.plan = r.plan /\ s.revision = r.revision /\ s.expected = r.expected
      /\ s.coordination = total /\ s.counters = r.counters
      /\ IF total > Coordination
         THEN s.stage = "Failed" /\ s.outcome = "BudgetExhausted"
         ELSE s.stage = "Evaluating" /\ s.outcome = None
  BY <1>1, <1>2, <1>3 DEF MultiTaskRun, Stages, Outcomes
<1>5. CurrentTasks(s) = CurrentTasks(r)
  BY <1>4 DEF CurrentTasks
<1>6. ValidStage(s) /\ OthersWait(s)
  BY <1>1, <1>4, <1>5 DEF ValidStage, OthersWait, Idling, Successful
<1>7. Good(s)
  BY <1>1, <1>4, <1>6, TasksStay
<1> QED
  BY <1>4, <1>7 DEF s

\* Cancelled: what was delivered stays, the rest is cancelled.
LEMMA CancelKeepsGood ==
    ASSUME NEW r, Good(r), CanCancel(r)
    PROVE  LET s == Cancel(r)
           IN  /\ Good(s) /\ s.expected = r.expected /\ s.counters = r.counters
               /\ DOMAIN s.tasks = DOMAIN r.tasks
               /\ \A j \in DOMAIN r.tasks :
                      /\ s.tasks[j].marks = r.tasks[j].marks
                      /\ s.tasks[j].state \notin {"Running", "Blocked"}
                      /\ r.tasks[j].state \in Successful => s.tasks[j] = r.tasks[j]
<1> DEFINE ends == {"Queued", "Running", "Blocked"}
           q == [j \in DOMAIN r.tasks |->
                    IF r.tasks[j].state \in ends THEN InState(r.tasks[j], "Cancelled")
                    ELSE r.tasks[j]]
           s == Cancel(r)
<1>1. /\ r \in MultiTaskRun /\ r.stage \in Stages \ TerminalStages
      /\ \A j \in DOMAIN r.tasks : r.tasks[j] \in TaskRun
      /\ DOMAIN r.tasks = 1 .. Len(r.tasks) /\ Len(r.tasks) \in Nat
  BY RunFields DEF Good, CanCancel
<1>2. /\ DOMAIN q = DOMAIN r.tasks
      /\ \A j \in DOMAIN r.tasks :
             q[j] = IF r.tasks[j].state \in ends THEN InState(r.tasks[j], "Cancelled")
                    ELSE r.tasks[j]
  OBVIOUS
<1>3. s = [r EXCEPT !.tasks = q, !.active = None, !.stage = "Cancelled", !.outcome = "Cancelled"]
  BY DEF Cancel, InState
<1>4. ASSUME NEW j \in DOMAIN r.tasks
      PROVE  /\ q[j] \in TaskRun /\ q[j].spec = r.tasks[j].spec
             /\ q[j].revision = r.tasks[j].revision /\ q[j].result = r.tasks[j].result
             /\ q[j].contract = r.tasks[j].contract /\ q[j].child = r.tasks[j].child
             /\ q[j].marks = r.tasks[j].marks /\ q[j].direct = r.tasks[j].direct
             /\ q[j].base = r.tasks[j].base /\ q[j].checkpoint = r.tasks[j].checkpoint
             /\ q[j].counters = r.tasks[j].counters
             /\ q[j].state = IF r.tasks[j].state \in ends THEN "Cancelled" ELSE r.tasks[j].state
             /\ r.tasks[j].state \notin ends => q[j] = r.tasks[j]
  <2> DEFINE t == r.tasks[j]
             u == InState(t, "Cancelled")
  <2>1. t \in TaskRun /\ q[j] = IF t.state \in ends THEN u ELSE t
    BY <1>1, <1>2
  <2> HIDE DEF q, ends, t
  <2>2. /\ u \in TaskRun /\ u.spec = t.spec /\ u.revision = t.revision /\ u.result = t.result
        /\ u.contract = t.contract /\ u.child = t.child /\ u.marks = t.marks
        /\ u.direct = t.direct /\ u.base = t.base /\ u.checkpoint = t.checkpoint
        /\ u.counters = t.counters /\ u.state = "Cancelled"
    BY <2>1 DEF InState, TaskRun, TaskStates
  <2> HIDE DEF u
  <2> QED
    BY <2>1, <2>2 DEF t
<1> HIDE DEF q, s
<1>5. q \in Seq(TaskRun)
  <2>1. q \in [1 .. Len(r.tasks) -> TaskRun]
    BY <1>1, <1>4 DEF q
  <2> QED
    BY <1>1, <2>1
<1>6. /\ s \in MultiTaskRun /\ s.tasks = q /\ s.stage = "Cancelled"
      /\ s.active = None /\ s.outcome = "Cancelled" /\ s.expected = r.expected
      /\ s.plan = r.plan /\ s.revision = r.revision
      /\ s.coordination = r.coordination /\ s.counters = r.counters
  BY <1>1, <1>3, <1>5 DEF MultiTaskRun, Stages, Outcomes
<1>7. SameShape(r, s)
  BY <1>2, <1>4, <1>6 DEF SameShape
<1>8. \A id : IsDelivered(r, id) => IsDelivered(s, id)
  <2>1. \A j \in DOMAIN r.tasks :
            r.tasks[j].state \in Successful => s.tasks[j].state \in Successful
    BY <1>4, <1>6 DEF Successful
  <2> QED
    BY <1>7, <2>1, DeliveredStays
<1>9. TasksMatchPlan(s) /\ CurrentTasks(s) = CurrentTasks(r)
  BY <1>7, ShapeKeepsNames DEF Good, Valid
<1>10. ASSUME NEW j \in DOMAIN s.tasks PROVE ValidTask(s, s.tasks[j])
  <2> DEFINE t == r.tasks[j]
             u == s.tasks[j]
  <2>1. /\ j \in DOMAIN r.tasks /\ u = q[j] /\ t \in TaskRun
    BY <1>1, <1>2, <1>6
  <2>2. /\ t.revision \in 1 .. r.revision /\ Sound(t)
        /\ ~(t.counters > t.spec.budget)
        /\ t.state \notin {"Queued", "Cancelled", "Superseded"} =>
               \A id \in t.spec.deps : IsDelivered(r, id)
    BY <1>1, <2>1, NothingIsOver, ValidTaskParts DEF Good, Valid, TerminalStages
  <2>3. CASE t.state \notin ends
    <3>1. u = t
      BY <1>4, <2>1, <2>3
    <3> HIDE DEF t, u
    <3> QED
      BY <1>6, <1>8, <2>2, <3>1, ValidTaskParts DEF u
  <2>4. CASE t.state \in ends
    <3>1. /\ u.spec = t.spec /\ u.revision = t.revision /\ u.result = t.result
          /\ u.contract = t.contract /\ u.child = t.child /\ u.marks = t.marks
          /\ u.direct = t.direct /\ u.base = t.base /\ u.checkpoint = t.checkpoint
          /\ u.counters = t.counters /\ u.state = "Cancelled" /\ u \in TaskRun
      BY <1>4, <2>1, <2>4
    <3> HIDE DEF t, u
    <3>2. u.counters = Recounted(u).counters
      <4>1. t.counters = t.direct + SumFunction(t.marks)
        BY <2>1, <2>2, RecountedType DEF Sound
      <4> QED
        BY <3>1, <4>1, RecountedType
    <3>3. ChildIsBound(u)
      BY <2>2, <3>1 DEF Sound, ChildIsBound, Attempts
    <3>4. CASE t.state = "Queued"
      <4>1. Untouched(t)
        BY <2>2, <3>4 DEF Sound
      <4>2. Untouched(u) /\ u.result = None
        BY <3>1, <4>1 DEF Untouched, Attempts
      <4>3. Sound(u)
        BY <3>1, <3>2, <3>3, <4>2 DEF Sound, Successful
      <4> QED
        BY <1>6, <2>2, <3>1, <4>3, ValidTaskParts DEF u
    <3>5. CASE t.state \in {"Running", "Blocked"}
      <4>1. HasRequest(t) /\ t.result = None
        BY <2>2, <3>5 DEF Sound
      <4>2. HasRequest(u) /\ u.result = None
        BY <3>1, <4>1 DEF HasRequest, Attempts
      <4>3. Sound(u)
        BY <3>1, <3>2, <3>3, <4>2 DEF Sound, Successful
      <4> QED
        BY <1>6, <2>2, <3>1, <4>3, ValidTaskParts DEF u
    <3> QED
      BY <2>4, <3>4, <3>5 DEF t
  <2> QED
    BY <2>3, <2>4
<1>11. \A j \in CurrentTasks(r) : r.tasks[j].state \in ends \cup Idling
  <2>1. CASE r.stage \in {"RunningTask", "Paused", "Blocked"}
    BY <2>1, ActiveTask
  <2>2. CASE r.stage = "Evaluating"
    BY <1>1, <2>2, StageFacts DEF Good, Valid
  <2> QED
    BY <1>1, <2>1, <2>2 DEF Stages, TerminalStages
<1>12. ValidStage(s) /\ OthersWait(s)
  <2>1. \A j \in CurrentTasks(s) : s.tasks[j].state \in {"Cancelled"} \cup Successful
    BY <1>4, <1>6, <1>9, <1>11 DEF CurrentTasks, Idling, Successful
  <2> QED
    BY <1>6, <2>1 DEF ValidStage, OthersWait, TerminalStages
<1>13. \A j \in DOMAIN s.tasks : IsKept(s, s.tasks[j])
  <2>1. \A j \in DOMAIN r.tasks : IsKept(r, r.tasks[j])
    BY DEF Good
  <2> QED
    BY <1>2, <1>4, <1>6, <2>1 DEF IsKept, Successful
<1>14. s.counters = RecountedRun(s).counters
  <2>1. Counters(s) = Counters(r)
    BY <1>2, <1>4, <1>6 DEF Counters
  <2> QED
    BY <1>1, <1>6, <2>1, CountersAreSummed DEF Good, Valid
<1>15. ~(s.counters > Allocated(s.plan)) /\ ~(s.coordination > Coordination)
  BY <1>1, <1>6, NothingIsOver DEF TerminalStages
<1>16. Good(s)
  BY <1>6, <1>9, <1>10, <1>12, <1>13, <1>14, <1>15 DEF Good, Valid
<1> QED
  BY <1>2, <1>4, <1>6, <1>16 DEF s, Successful

-----------------------------------------------------------------------------
(* The next Task *)

LEMMA LeastNatural ==
    ASSUME NEW S \in SUBSET Nat, S # {}
    PROVE  \E k \in S : \A j \in S : k <= j
<1> DEFINE R == OpToRel(<, Nat)
<1>1. IsWellFoundedOn(R, Nat)
  BY NatLessThanWellFounded
<1> HIDE DEF R
<1>2. PICK k \in S : \A j \in S : <<j, k>> \notin R
  BY <1>1, WFMin
<1>3. ASSUME NEW j \in S, j < k PROVE FALSE
  <2>1. <<j, k>> \in R
    BY <1>3 DEF R, OpToRel
  <2> QED
    BY <1>2, <2>1
<1> QED
  BY <1>2, <1>3

LEMMA PlanFields ==
    ASSUME NEW plan \in TaskPlans
    PROVE  /\ plan \in Seq(TaskSpec) /\ Len(plan) \in Nat
           /\ DOMAIN plan = 1 .. Len(plan) /\ IsFiniteSet(DOMAIN plan)
           /\ DOMAIN plan \in SUBSET Nat
           /\ \A k \in DOMAIN plan : plan[k] \in TaskSpec
           /\ \A j, k \in DOMAIN plan : plan[j].id = plan[k].id => j = k
           /\ \A k \in DOMAIN plan : \A id \in plan[k].deps : \E j \in DOMAIN plan : plan[j].id = id
           /\ \E order \in [DOMAIN plan -> 1 .. Len(plan)] :
                  \A i, j \in DOMAIN plan : plan[j].id \in plan[i].deps => order[j] < order[i]
<1>1. plan \in Seq(TaskSpec) /\ IsInjective([i \in DOMAIN plan |-> plan[i].id])
  BY PlansAreValid
<1>2. Len(plan) \in Nat /\ DOMAIN plan = 1 .. Len(plan)
  BY <1>1
<1>3. IsFiniteSet(DOMAIN plan)
  BY <1>2, FS_Interval
<1>4. \A k \in DOMAIN plan : plan[k] \in TaskSpec
  BY <1>1
<1>5. \A j, k \in DOMAIN plan : plan[j].id = plan[k].id => j = k
  BY <1>1 DEF IsInjective
<1>6. \A k \in DOMAIN plan : \A id \in plan[k].deps : \E j \in DOMAIN plan : plan[j].id = id
  BY PlansAreValid
<1>7. WellOrdered(plan)
  BY PlansAreValid
<1> QED
  BY <1>1, <1>2, <1>3, <1>4, <1>5, <1>6, <1>7 DEF WellOrdered

\* The Task of a name in the plan
LEMMA TaskOfSpec ==
    ASSUME NEW r \in MultiTaskRun, TasksMatchPlan(r), NEW k \in DOMAIN r.plan
    PROVE  \E i \in CurrentTasks(r) :
               /\ Named(r, r.plan[k].id) = {i} /\ r.tasks[i].spec = r.plan[k]
               /\ IsDelivered(r, r.plan[k].id) <=> r.tasks[i].state \in Successful
  BY DEF TasksMatchPlan, IsDelivered

\* While a Task of the plan waits, one is ready: a plan has no cycle.
LEMMA SomeTaskIsReady ==
    ASSUME NEW r, Good(r), r.stage = "Evaluating", ~EveryTaskIsDelivered(r)
    PROVE  NextTask(r) # {}
<1> DEFINE plan == r.plan
           U == {k \in DOMAIN plan : ~IsDelivered(r, plan[k].id)}
<1>1. r \in MultiTaskRun /\ TasksMatchPlan(r) /\ plan \in TaskPlans
  BY RunFields DEF Good, Valid
<1>2. \A i \in CurrentTasks(r) : r.tasks[i].state \in Idling
  BY <1>1, StageFacts DEF Good, Valid
<1>3. PICK order \in [DOMAIN plan -> 1 .. Len(plan)] :
          \A i, j \in DOMAIN plan : plan[j].id \in plan[i].deps => order[j] < order[i]
  BY <1>1, PlanFields
<1>4. PICK k \in U : \A j \in U : order[k] <= order[j]
  <2> DEFINE O == {order[j] : j \in U}
  <2>1. O \in SUBSET Nat /\ O # {}
    BY <1>1, PlanFields DEF EveryTaskIsDelivered
  <2>2. PICK m \in O : \A n \in O : m <= n
    <3> HIDE DEF O
    <3> QED
      BY <2>1, LeastNatural
  <2> QED
    BY <2>2
<1>5. k \in ReadySpecs(r)
  <2>1. PICK i \in CurrentTasks(r) :
            /\ Named(r, plan[k].id) = {i} /\ r.tasks[i].spec = plan[k]
            /\ IsDelivered(r, plan[k].id) <=> r.tasks[i].state \in Successful
    BY <1>1, TaskOfSpec
  <2>2. r.tasks[i].state = "Queued"
    BY <1>2, <2>1 DEF Idling, Successful
  <2>3. ASSUME NEW id \in plan[k].deps PROVE IsDelivered(r, id)
    <3>1. PICK j \in DOMAIN plan : plan[j].id = id
      BY <1>1, PlanFields
    <3>2. order[j] < order[k] /\ order[j] \in Nat /\ order[k] \in Nat
      <4>1. k \in DOMAIN plan /\ Len(plan) \in Nat
        BY <1>1, PlanFields
      <4>2. order[j] \in 1 .. Len(plan) /\ order[k] \in 1 .. Len(plan)
        BY <3>1, <4>1
      <4> QED
        BY <1>3, <3>1, <4>1, <4>2
    <3>3. j \notin U
      BY <1>4, <3>2
    <3> QED
      BY <3>1, <3>3
  <2> QED
    BY <2>1, <2>2, <2>3 DEF ReadySpecs
<1>6. PICK first \in ReadySpecs(r) : \A j \in ReadySpecs(r) : first <= j
  <2>1. ReadySpecs(r) \in SUBSET Nat
    BY <1>1, PlanFields DEF ReadySpecs
  <2> QED
    BY <1>5, <2>1, LeastNatural
<1>7. first \in DOMAIN plan
  BY DEF ReadySpecs
<1>8. PICK i \in CurrentTasks(r) : r.tasks[i].spec = plan[first]
  BY <1>1, <1>7, TaskOfSpec
<1> QED
  BY <1>6, <1>8 DEF NextTask

LEMMA NextTaskMayMove ==
    ASSUME NEW r, Good(r), r.stage = "Evaluating", NEW i \in NextTask(r)
    PROVE  MayMove(r, i) /\ r.tasks[i].state = "Queued" /\ i \in DOMAIN r.tasks
<1>1. /\ r \in MultiTaskRun /\ TasksMatchPlan(r)
      /\ \A j \in CurrentTasks(r) : r.tasks[j].state \in Idling
  BY StageFacts DEF Good, Valid
<1>2. PICK k \in ReadySpecs(r) : r.tasks[i].spec.id = r.plan[k].id
  BY DEF NextTask
<1>3. i \in CurrentTasks(r) /\ k \in DOMAIN r.plan
  BY DEF NextTask, ReadySpecs
<1>4. PICK j \in CurrentTasks(r) : Named(r, r.plan[k].id) = {j} /\ r.tasks[j].spec = r.plan[k]
  BY <1>1, <1>3, TaskOfSpec
<1>5. i = j
  BY <1>2, <1>3, <1>4 DEF Named
<1>6. r.tasks[i].state = "Queued"
  BY <1>4, <1>5 DEF ReadySpecs
<1>7. \A id \in r.tasks[i].spec.deps : IsDelivered(r, id)
  BY <1>4, <1>5 DEF ReadySpecs
<1> QED
  BY <1>1, <1>3, <1>6, <1>7 DEF MayMove, CurrentTasks, Successful

\* A new attempt at the Task i: its child is still to be heard of, its usage zero.
LEMMA ActivatedKeepsGood ==
    ASSUME NEW r, Good(r), NEW i, MayMove(r, i), r.tasks[i].state \in {"Queued", "Blocked"},
           NEW repository \in Repositories
    PROVE  LET s == Activated(r, i, repository)
           IN  /\ Good(s) /\ s.expected = r.expected /\ s.counters = r.counters
               /\ DOMAIN s.tasks = DOMAIN r.tasks
               /\ \A j \in DOMAIN r.tasks \ {i} : s.tasks[j] = r.tasks[j]
               /\ s.tasks[i].marks = Append(r.tasks[i].marks, 0)
               /\ s.tasks[i].state = "Running"
<1> DEFINE task == r.tasks[i]
           m == Append(task.marks, 0)
           t == [task EXCEPT !.state = "Running", !.marks = m, !.base = r.expected,
                             !.child = None, !.checkpoint = repository]
           w == WithTask(r, i, t)
           s == Activated(r, i, repository)
<1>1. /\ i \in DOMAIN r.tasks /\ i \in CurrentTasks(r) /\ r \in MultiTaskRun
      /\ task \in TaskRun /\ Sound(task) /\ IsKept(r, task)
      /\ r.expected \in Repositories
  <2>1. i \in DOMAIN r.tasks /\ i \in CurrentTasks(r) /\ r \in MultiTaskRun
    BY DEF MayMove, CurrentTasks, Good
  <2>2. task \in TaskRun /\ r.expected \in Repositories
    BY <2>1, RunFields
  <2>3. Sound(task) /\ IsKept(r, task)
    BY <2>1, ValidTaskParts DEF Good, Valid
  <2> QED
    BY <2>1, <2>2, <2>3
<1>2. task.result = None
  BY <1>1 DEF Sound, Untouched
<1>3. /\ task.marks \in Seq(Nat) /\ Len(task.marks) \in Nat
      /\ SumFunction(task.marks) \in Nat /\ task.direct \in Nat
      /\ task.counters = task.direct + SumFunction(task.marks)
  BY <1>1, TaskFields, RecountedType DEF Sound
<1>4. m \in Seq(Nat) /\ Len(m) > 0 /\ SumFunction(m) = SumFunction(task.marks)
  <2>1. m \in Seq(Nat) /\ Len(m) = Len(task.marks) + 1 /\ SumFunction(m) = SumFunction(task.marks)
    BY <1>3, SumOfAppendedZero
  <2> HIDE DEF m, task
  <2> QED
    BY <1>3, <2>1
<1> HIDE DEF m
<1>5. /\ t \in TaskRun /\ t.spec = task.spec /\ t.revision = task.revision
      /\ t.state = "Running" /\ t.base = r.expected /\ t.result = task.result
      /\ t.direct = task.direct /\ t.contract = task.contract /\ t.child = None
      /\ t.marks = m /\ t.counters = task.counters
  BY <1>1, <1>4 DEF TaskRun, TaskStates
<1>6. s = [w EXCEPT !.active = task.spec.id, !.stage = "RunningTask", !.outcome = None]
  BY <1>1 DEF Activated, m, TaskRun
<1>7. task.spec.id \in TaskIds
  BY <1>1, TaskFields
<1> HIDE DEF task, t
<1>8. /\ w \in MultiTaskRun
      /\ DOMAIN w.tasks = DOMAIN r.tasks /\ w.tasks[i] = t
      /\ \A j \in DOMAIN r.tasks \ {i} : w.tasks[j] = r.tasks[j]
      /\ w.plan = r.plan /\ w.revision = r.revision /\ w.expected = r.expected
      /\ w.coordination = r.coordination /\ w.counters = r.counters
  BY <1>1, <1>5, WithTaskFields
<1> HIDE DEF w, s
<1>9. /\ s \in MultiTaskRun /\ s.tasks = w.tasks /\ s.stage = "RunningTask"
      /\ s.active = task.spec.id /\ s.outcome = None /\ s.expected = w.expected
      /\ s.plan = w.plan /\ s.revision = w.revision
      /\ s.coordination = w.coordination /\ s.counters = w.counters
  BY <1>6, <1>7, <1>8 DEF MultiTaskRun, Stages
<1>10. Sound(t)
  <2>1. t.counters = Recounted(t).counters
    BY <1>3, <1>4, <1>5, RecountedType
  <2>2. ChildIsBound(t)
    BY <1>5 DEF ChildIsBound
  <2>3. HasRequest(t)
    BY <1>1, <1>4, <1>5, NoneIsNothing DEF HasRequest, Attempts
  <2> QED
    BY <1>2, <1>5, <2>1, <2>2, <2>3 DEF Sound, Successful
<1>11. Changes(r, i, s)
  BY <1>5, <1>8, <1>9 DEF Changes, task
<1>12. IsKept(s, s.tasks[i])
  BY <1>1, <1>5, <1>8, <1>9 DEF IsKept, Successful
<1>13. /\ i \in CurrentTasks(s) /\ i \in Named(s, s.active) /\ i \in DOMAIN s.tasks
       /\ \A j \in CurrentTasks(s) \ {i} : s.tasks[j].state \in Idling
       /\ ValidStage(s) /\ OthersWait(s) => Good(s)
  <2>1. /\ Sound(s.tasks[i]) /\ s.tasks[i].counters = r.tasks[i].counters
        /\ s.counters = r.counters /\ s.coordination = r.coordination
        /\ s.active = r.tasks[i].spec.id
    BY <1>5, <1>8, <1>9, <1>10 DEF task
  <2> QED
    BY <1>9, <1>11, <1>12, <2>1, UnchargedKeepsGood
<1>14. ValidStage(s) /\ OthersWait(s)
  BY <1>5, <1>8, <1>9, <1>13, ActiveStages
<1> QED
  BY <1>5, <1>8, <1>9, <1>13, <1>14 DEF s, m, task

\* activate_next: the next Task begins, or every Task of the plan is delivered.  It
\* never finds a plan with nothing to run and something to deliver.
LEMMA ActivateNextKeepsGood ==
    ASSUME NEW r, Good(r), r.stage = "Evaluating", NEW s \in ActivateNext(r)
    PROVE  /\ Good(s) /\ s.expected = r.expected /\ s.counters = r.counters
           /\ \/ s.tasks = r.tasks
              \/ \E i \in DOMAIN r.tasks :
                     /\ DOMAIN s.tasks = DOMAIN r.tasks
                     /\ \A j \in DOMAIN r.tasks \ {i} : s.tasks[j] = r.tasks[j]
                     /\ s.tasks[i].marks = Append(r.tasks[i].marks, 0)
                     /\ r.tasks[i].state = "Queued" /\ s.tasks[i].state = "Running"
<1>1. r \in MultiTaskRun /\ r.expected \in Repositories
  BY RunFields DEF Good
<1>2. CASE NextTask(r) # {}
  <2>1. PICK i \in NextTask(r) : s = Activated(r, i, r.expected)
    BY <1>2 DEF ActivateNext
  <2>2. MayMove(r, i) /\ r.tasks[i].state = "Queued" /\ i \in DOMAIN r.tasks
    BY NextTaskMayMove
  <2>3. /\ Good(s) /\ s.expected = r.expected /\ s.counters = r.counters
        /\ DOMAIN s.tasks = DOMAIN r.tasks
        /\ \A j \in DOMAIN r.tasks \ {i} : s.tasks[j] = r.tasks[j]
        /\ s.tasks[i].marks = Append(r.tasks[i].marks, 0)
        /\ s.tasks[i].state = "Running"
    BY <1>1, <2>1, <2>2, ActivatedKeepsGood
  <2> QED
    BY <2>2, <2>3
<1>3. CASE NextTask(r) = {}
  <2>1. EveryTaskIsDelivered(r)
    BY <1>3, SomeTaskIsReady
  <2>2. s = [r EXCEPT !.stage = "Ready", !.outcome = "Ready"]
    BY <1>3, <2>1 DEF ActivateNext
  <2>3. /\ s \in MultiTaskRun /\ s.tasks = r.tasks /\ s.stage = "Ready" /\ s.active = r.active
        /\ s.plan = r.plan /\ s.revision = r.revision /\ s.expected = r.expected
        /\ s.coordination = r.coordination /\ s.counters = r.counters /\ s.outcome = "Ready"
    BY <1>1, <2>2 DEF MultiTaskRun, Stages, Outcomes
  <2>4. r.active = None
    BY <1>1, StageFacts DEF Good, Valid
  <2>5. EveryTaskIsDelivered(s)
    BY <2>1, <2>3 DEF EveryTaskIsDelivered, IsDelivered, Named, CurrentTasks
  <2>6. ValidStage(s) /\ OthersWait(s)
    BY <2>3, <2>4, <2>5 DEF ValidStage, OthersWait, TerminalStages
  <2>7. ~(s.coordination > Coordination)
    BY <2>3, NothingIsOver
  <2>8. Good(s)
    BY <2>3, <2>6, <2>7, TasksStay
  <2> QED
    BY <2>3, <2>8
<1> QED
  BY <1>2, <1>3

-----------------------------------------------------------------------------
(* The start *)

LEMMA QueuedTaskIsSound ==
    ASSUME NEW spec \in TaskSpec, NEW revision \in Nat
    PROVE  LET t == QueuedTask(spec, revision)
           IN  /\ t \in TaskRun /\ t.spec = spec /\ t.revision = revision
               /\ t.state = "Queued" /\ t.counters = 0 /\ t.marks = <<>>
               /\ ~(t.counters > t.spec.budget)
               /\ Sound(t) /\ \A r : IsKept(r, t)
<1> DEFINE t == QueuedTask(spec, revision)
<1>1. spec.contract \in SUBSET Criteria /\ spec.budget \in Nat
  BY DEF TaskSpec
<1>2. <<>> \in Seq(Nat) /\ Len(<<>>) = 0
  OBVIOUS
<1>3. /\ t \in TaskRun /\ t.spec = spec /\ t.revision = revision /\ t.state = "Queued"
      /\ t.base = None /\ t.contract = spec.contract /\ t.child = None /\ t.marks = <<>>
      /\ t.direct = 0 /\ t.counters = 0 /\ t.checkpoint = None /\ t.result = None
  BY <1>1, <1>2 DEF QueuedTask, TaskRun, TaskStates
<1> HIDE DEF t
<1>4. SumFunction(t.marks) = 0
  <2>1. IsFiniteSet({}) /\ t.marks \in [{} -> {0}]
    BY <1>3, FS_EmptySet
  <2> QED
    BY <2>1, SumOfZeros
<1>5. t.counters = Recounted(t).counters
  BY <1>3, <1>4, RecountedType
<1>6. Untouched(t) /\ ChildIsBound(t)
  BY <1>2, <1>3 DEF Untouched, ChildIsBound, Attempts
<1>7. Sound(t)
  BY <1>3, <1>5, <1>6 DEF Sound, Successful
<1>8. \A r : IsKept(r, t)
  BY <1>3 DEF IsKept, Successful
<1>9. ~(t.counters > t.spec.budget)
  BY <1>1, <1>3
<1> QED
  BY <1>3, <1>7, <1>8, <1>9 DEF t

LEMMA AllocatedIsNatural ==
    ASSUME NEW plan \in TaskPlans
    PROVE  Allocated(plan) \in Nat
<1> DEFINE f == [i \in DOMAIN plan |-> plan[i].budget]
<1>1. f \in [DOMAIN plan -> Nat] /\ IsFiniteSet(DOMAIN plan)
  BY PlanFields DEF TaskSpec
<1> HIDE DEF f
<1>2. SumFunction(f) \in Nat
  BY <1>1, SumType
<1> QED
  BY <1>2 DEF Allocated, f

\* A run that has just begun: every Task of its plan waits.
LEMMA StartIsGood ==
    ASSUME NEW plan \in TaskPlans, NEW repository \in Repositories,
           NEW s \in Start(plan, repository)
    PROVE  /\ Good(s) /\ s.expected = repository /\ s.counters = 0
           /\ \A i \in DOMAIN s.tasks :
                  /\ s.tasks[i].state \in {"Queued", "Running"}
                  /\ s.tasks[i].marks \in {<<>>, <<0>>}
<1> DEFINE q == [k \in DOMAIN plan |-> QueuedTask(plan[k], 1)]
           r == [stage |-> "Evaluating", revision |-> 1, plan |-> plan, tasks |-> q,
                 counters |-> 0, coordination |-> 0, active |-> None,
                 expected |-> repository, outcome |-> None]
<1>1. /\ Len(plan) \in Nat /\ DOMAIN plan = 1 .. Len(plan)
      /\ \A k \in DOMAIN plan : plan[k] \in TaskSpec
      /\ \A j, k \in DOMAIN plan : plan[j].id = plan[k].id => j = k
  BY PlanFields
<1>2. ASSUME NEW k \in DOMAIN plan
      PROVE  /\ q[k] \in TaskRun /\ q[k].spec = plan[k] /\ q[k].revision = 1
             /\ q[k].state = "Queued" /\ q[k].counters = 0 /\ q[k].marks = <<>>
             /\ ~(q[k].counters > q[k].spec.budget)
             /\ Sound(q[k]) /\ \A x : IsKept(x, q[k])
  BY <1>1, QueuedTaskIsSound
<1>3. q \in Seq(TaskRun) /\ DOMAIN q = DOMAIN plan
  <2>1. q \in [1 .. Len(plan) -> TaskRun]
    BY <1>1, <1>2
  <2> QED
    BY <1>1, <2>1
<1>4. s \in ActivateNext(r)
  BY DEF Start
<1> HIDE DEF q
<1>5. r \in MultiTaskRun
  BY <1>3 DEF MultiTaskRun, Stages
<1>6. /\ r.stage = "Evaluating" /\ r.revision = 1 /\ r.plan = plan /\ r.tasks = q
      /\ r.counters = 0 /\ r.coordination = 0 /\ r.active = None
      /\ r.expected = repository /\ r.outcome = None
  OBVIOUS
<1> HIDE DEF r
<1>7. CurrentTasks(r) = DOMAIN plan
  BY <1>2, <1>3, <1>6 DEF CurrentTasks
<1>8. \A k \in DOMAIN plan : Named(r, plan[k].id) = {k}
  BY <1>1, <1>2, <1>6, <1>7 DEF Named
<1>9. TasksMatchPlan(r)
  <2>1. \A k \in DOMAIN plan : r.tasks[k].spec = plan[k]
    BY <1>2, <1>6
  <2>2. \A k \in DOMAIN plan : \E i \in DOMAIN plan :
            Named(r, plan[k].id) = {i} /\ r.tasks[i].spec = plan[k]
    BY <1>8, <2>1
  <2>3. \A i \in DOMAIN plan : \E k \in DOMAIN plan : plan[k].id = r.tasks[i].spec.id
    BY <2>1
  <2> QED
    BY <1>6, <1>7, <2>2, <2>3 DEF TasksMatchPlan
<1>10. \A k \in DOMAIN r.tasks : ValidTask(r, r.tasks[k]) /\ IsKept(r, r.tasks[k])
  BY <1>2, <1>3, <1>6, ValidTaskParts
<1>11. r.counters = RecountedRun(r).counters
  <2> DEFINE f == Counters(r)
  <2>1. f \in [DOMAIN plan -> {0}]
    BY <1>2, <1>3, <1>6 DEF Counters
  <2>2. IsFiniteSet(DOMAIN plan)
    BY PlanFields
  <2> HIDE DEF f
  <2>3. SumFunction(f) = 0
    BY <2>1, <2>2, SumOfZeros
  <2> QED
    BY <1>5, <1>6, <2>3, CountersAreSummed DEF f
<1>12. ~(r.counters > Allocated(r.plan)) /\ ~(r.coordination > Coordination)
  BY <1>6, AllocatedIsNatural, CoordinationIsBounded
<1>13. ValidStage(r) /\ OthersWait(r)
  BY <1>2, <1>6, <1>7 DEF ValidStage, OthersWait, Idling
<1>14. Good(r)
  BY <1>5, <1>9, <1>10, <1>11, <1>12, <1>13 DEF Good, Valid
<1>15. /\ Good(s) /\ s.expected = r.expected /\ s.counters = r.counters
       /\ \/ s.tasks = r.tasks
          \/ \E i \in DOMAIN r.tasks :
                 /\ DOMAIN s.tasks = DOMAIN r.tasks
                 /\ \A j \in DOMAIN r.tasks \ {i} : s.tasks[j] = r.tasks[j]
                 /\ s.tasks[i].marks = Append(r.tasks[i].marks, 0)
                 /\ s.tasks[i].state = "Running"
  BY <1>4, <1>6, <1>14, ActivateNextKeepsGood
<1>16. ASSUME NEW i \in DOMAIN s.tasks
       PROVE  /\ s.tasks[i].state \in {"Queued", "Running"}
              /\ s.tasks[i].marks \in {<<>>, <<0>>}
  <2>1. Append(<<>>, 0) = <<0>>
    OBVIOUS
  <2>2. \A k \in DOMAIN r.tasks : r.tasks[k].marks = <<>> /\ r.tasks[k].state = "Queued"
    BY <1>2, <1>3, <1>6
  <2>3. CASE s.tasks = r.tasks
    BY <2>2, <2>3
  <2>4. ASSUME NEW k \in DOMAIN r.tasks, DOMAIN s.tasks = DOMAIN r.tasks,
               \A j \in DOMAIN r.tasks \ {k} : s.tasks[j] = r.tasks[j],
               s.tasks[k].marks = Append(r.tasks[k].marks, 0), s.tasks[k].state = "Running"
        PROVE  s.tasks[i].state \in {"Queued", "Running"} /\ s.tasks[i].marks \in {<<>>, <<0>>}
    <3>1. CASE i = k
      BY <2>1, <2>2, <2>4, <3>1
    <3>2. CASE i # k
      BY <2>2, <2>4, <3>2
    <3> QED
      BY <3>1, <3>2
  <2> QED
    BY <1>15, <2>3, <2>4
<1> QED
  BY <1>6, <1>15, <1>16

-----------------------------------------------------------------------------
(* A revision of the plan *)

\* The positions in order name every member of the set once.
LEMMA OrderNamesAll ==
    ASSUME NEW S \in SUBSET Nat, IsFiniteSet(S), NEW order \in InOrder(S)
    PROVE  /\ Cardinality(S) \in Nat /\ order \in [1 .. Cardinality(S) -> S]
           /\ \A m, n \in 1 .. Cardinality(S) : order[m] = order[n] => m = n
           /\ \A x \in S : \E m \in 1 .. Cardinality(S) : order[m] = x
<1> DEFINE c == Cardinality(S)
           D == 1 .. c
<1>1. c \in Nat
  BY FS_CardinalityType
<1>2. order \in [D -> S] /\ \A m, n \in D : m < n => order[m] < order[n]
  BY DEF InOrder
<1>3. \A m, n \in D : order[m] = order[n] => m = n
  <2>1. ASSUME NEW m \in D, NEW n \in D, m < n PROVE order[m] # order[n]
    <3>1. order[m] < order[n] /\ order[m] \in Nat /\ order[n] \in Nat
      BY <1>2, <2>1
    <3> QED
      BY <3>1
  <2>2. \A m, n \in D : m < n \/ n < m \/ m = n
    BY <1>1
  <2> QED
    BY <2>1, <2>2
<1>4. Cardinality(D) = c
  BY <1>1, FS_Interval
<1>5. order \in Injection(D, S)
  BY <1>2, <1>3 DEF Injection, IsInjective
<1>6. order \in Surjection(D, S)
  <2> HIDE DEF D
  <2> QED
    BY <1>4, <1>5, FS_Injection
<1>7. \A x \in S : \E m \in D : order[m] = x
  BY <1>6 DEF Surjection
<1> QED
  BY <1>1, <1>2, <1>3, <1>7

Kept(r, plan) ==
    [i \in DOMAIN r.tasks |->
        IF r.tasks[i].state = "Queued" /\ \A k \in DOMAIN plan : plan[k] # r.tasks[i].spec
        THEN InState(r.tasks[i], "Superseded") ELSE r.tasks[i]]

AddedTo(r, plan) ==
    {k \in DOMAIN plan :
        \A i \in DOMAIN r.tasks :
            Kept(r, plan)[i].state = "Superseded" \/ Kept(r, plan)[i].spec # plan[k]}

\* What the revision leaves of the Tasks there were
LEMMA KeptFields ==
    ASSUME NEW r, Good(r), r.stage = "Evaluating", NEW plan \in TaskPlans,
           \A i \in CurrentTasks(r) :
               r.tasks[i].state \in Successful => \E k \in DOMAIN plan : plan[k] = r.tasks[i].spec
    PROVE  LET q == Kept(r, plan)
           IN  /\ DOMAIN q = DOMAIN r.tasks
               /\ \A i \in DOMAIN r.tasks :
                      /\ q[i] \in TaskRun /\ q[i].spec = r.tasks[i].spec
                      /\ q[i].marks = r.tasks[i].marks /\ q[i].counters = r.tasks[i].counters
                      /\ q[i].revision = r.tasks[i].revision
                      /\ q[i].state \in Idling \cup {"Superseded"}
                      /\ Sound(q[i]) /\ \A s : IsKept(s, q[i])
                      /\ r.tasks[i].state \in Successful => q[i] = r.tasks[i]
                      /\ q[i].state # "Superseded" =>
                             /\ q[i] = r.tasks[i] /\ i \in CurrentTasks(r)
                             /\ \E k \in DOMAIN plan : plan[k] = r.tasks[i].spec
<1> DEFINE q == Kept(r, plan)
<1>1. DOMAIN q = DOMAIN r.tasks
  BY DEF Kept
<1>2. r \in MultiTaskRun /\ \A i \in CurrentTasks(r) : r.tasks[i].state \in Idling
  BY StageFacts DEF Good, Valid
<1>3. ASSUME NEW i \in DOMAIN r.tasks
      PROVE  /\ q[i] \in TaskRun /\ q[i].spec = r.tasks[i].spec
             /\ q[i].marks = r.tasks[i].marks /\ q[i].counters = r.tasks[i].counters
             /\ q[i].revision = r.tasks[i].revision
             /\ q[i].state \in Idling \cup {"Superseded"}
             /\ Sound(q[i]) /\ \A s : IsKept(s, q[i])
             /\ r.tasks[i].state \in Successful => q[i] = r.tasks[i]
             /\ q[i].state # "Superseded" =>
                    /\ q[i] = r.tasks[i] /\ i \in CurrentTasks(r)
                    /\ \E k \in DOMAIN plan : plan[k] = r.tasks[i].spec
  <2> DEFINE t == r.tasks[i]
             u == InState(t, "Superseded")
             leaves == t.state = "Queued" /\ \A k \in DOMAIN plan : plan[k] # t.spec
  <2>1. q[i] = IF leaves THEN u ELSE t
    BY DEF Kept
  <2>2. t \in TaskRun /\ Sound(t) /\ IsKept(r, t)
    BY <1>2, RunFields, ValidTaskParts DEF Good, Valid
  <2>3. /\ t.state \in Idling \cup {"Superseded"}
        /\ t.state # "Superseded" => i \in CurrentTasks(r)
    BY <1>2 DEF CurrentTasks
  <2>4. t.state \in Successful => \E k \in DOMAIN plan : plan[k] = t.spec
    BY <2>3 DEF Successful
  <2> HIDE DEF q, t
  <2>5. CASE leaves
    <3>1. /\ u \in TaskRun /\ u.spec = t.spec /\ u.revision = t.revision /\ u.result = t.result
          /\ u.contract = t.contract /\ u.child = t.child /\ u.marks = t.marks
          /\ u.direct = t.direct /\ u.base = t.base /\ u.checkpoint = t.checkpoint
          /\ u.counters = t.counters /\ u.state = "Superseded"
      BY <2>2 DEF InState, TaskRun, TaskStates
    <3> HIDE DEF u
    <3>2. Untouched(t) /\ t.contract = t.contract
      BY <2>2, <2>5 DEF Sound
    <3>3. Untouched(u) /\ ChildIsBound(u)
      BY <3>1, <3>2 DEF Untouched, ChildIsBound, Attempts
    <3>4. u.counters = Recounted(u).counters
      <4>1. t.counters = t.direct + SumFunction(t.marks)
        BY <2>2, RecountedType DEF Sound
      <4> QED
        BY <3>1, <4>1, RecountedType
    <3>5. Sound(u)
      BY <3>1, <3>3, <3>4 DEF Sound, Successful
    <3>6. \A s : IsKept(s, u)
      BY <2>2, <3>1 DEF IsKept, Successful
    <3>7. t.state \notin Successful
      BY <2>5 DEF Successful
    <3> QED
      BY <2>1, <2>5, <3>1, <3>5, <3>6, <3>7 DEF t
  <2>6. CASE ~leaves
    <3>1. \A s : IsKept(s, t)
      BY <2>2, <2>3 DEF IsKept, Idling
    <3>2. t.state # "Superseded" => \E k \in DOMAIN plan : plan[k] = t.spec
      BY <2>3, <2>4, <2>6 DEF Idling, Successful
    <3> QED
      BY <2>1, <2>2, <2>3, <2>6, <3>1, <3>2 DEF t
  <2> QED
    BY <2>5, <2>6
<1> HIDE DEF q
<1> QED
  BY <1>1, <1>3 DEF q

\* PendingTasksRevised: what was delivered stays, what waits is kept where the plan
\* still has it and superseded where not, and what is new waits at the end.
LEMMA ReviseKeepsGood ==
    ASSUME NEW r, Good(r), NEW plan \in TaskPlans, NEW approved, NEW repository,
           CanRevise(r, plan, approved, repository), NEW s \in Revise(r, plan)
    PROVE  /\ Good(s) /\ s.expected = r.expected /\ s.counters = r.counters
           /\ DOMAIN r.tasks \subseteq DOMAIN s.tasks
           /\ \A i \in DOMAIN r.tasks :
                  /\ s.tasks[i].marks = r.tasks[i].marks
                  /\ r.tasks[i].state \in Successful => s.tasks[i] = r.tasks[i]
           /\ \A i \in DOMAIN s.tasks : s.tasks[i].state \notin {"Running", "Blocked"}
           /\ \A i \in DOMAIN s.tasks \ DOMAIN r.tasks : s.tasks[i].marks = <<>>
<1> DEFINE kept == Kept(r, plan)
           added == AddedTo(r, plan)
           n == Len(r.tasks)
           c == Cardinality(added)
<1>1. /\ r \in MultiTaskRun /\ TasksMatchPlan(r) /\ r.stage = "Evaluating"
      /\ r.active = None /\ r.outcome = None
      /\ Allocated(plan) = Allocated(r.plan)
      /\ \A i \in CurrentTasks(r) :
             r.tasks[i].state \in Successful => \E k \in DOMAIN plan : plan[k] = r.tasks[i].spec
  BY StageFacts DEF Good, Valid, CanRevise, CanEvaluate
<1>2. n \in Nat /\ DOMAIN r.tasks = 1 .. n /\ r.revision \in Nat
  BY <1>1, RunFields
<1>3. /\ DOMAIN kept = 1 .. n
      /\ \A i \in 1 .. n :
             /\ kept[i] \in TaskRun /\ kept[i].spec = r.tasks[i].spec
             /\ kept[i].marks = r.tasks[i].marks /\ kept[i].counters = r.tasks[i].counters
             /\ kept[i].revision = r.tasks[i].revision
             /\ kept[i].state \in Idling \cup {"Superseded"}
             /\ Sound(kept[i]) /\ \A x : IsKept(x, kept[i])
             /\ r.tasks[i].state \in Successful => kept[i] = r.tasks[i]
             /\ kept[i].state # "Superseded" =>
                    /\ kept[i] = r.tasks[i] /\ i \in CurrentTasks(r)
                    /\ \E k \in DOMAIN plan : plan[k] = r.tasks[i].spec
  BY <1>1, <1>2, KeptFields
<1>4. /\ added \in SUBSET Nat /\ IsFiniteSet(added) /\ added \subseteq DOMAIN plan
      /\ \A k \in DOMAIN plan : k \in added <=>
             \A i \in 1 .. n : kept[i].state = "Superseded" \/ kept[i].spec # plan[k]
  <2>1. added \subseteq DOMAIN plan /\ IsFiniteSet(DOMAIN plan) /\ DOMAIN plan \in SUBSET Nat
    BY PlanFields DEF AddedTo
  <2>2. IsFiniteSet(added)
    BY <2>1, FS_Subset
  <2> QED
    BY <1>2, <2>1, <2>2 DEF AddedTo
<1>5. PICK order \in InOrder(added) :
          s = [r EXCEPT !.plan = plan, !.revision = @ + 1,
                        !.tasks = kept \o [m \in DOMAIN order |->
                                              QueuedTask(plan[order[m]], r.revision + 1)]]
  BY <1>1 DEF Revise, Kept, AddedTo, InState
<1>6. /\ c \in Nat /\ order \in [1 .. c -> added]
      /\ \A l, m \in 1 .. c : order[l] = order[m] => l = m
      /\ \A k \in added : \E m \in 1 .. c : order[m] = k
  BY <1>4, OrderNamesAll
<1> DEFINE new == [m \in DOMAIN order |-> QueuedTask(plan[order[m]], r.revision + 1)]
           q == kept \o new
<1>7. ASSUME NEW m \in 1 .. c
      PROVE  /\ order[m] \in DOMAIN plan /\ order[m] \in added
             /\ new[m] \in TaskRun /\ new[m].spec = plan[order[m]]
             /\ new[m].revision = r.revision + 1
             /\ new[m].state = "Queued" /\ new[m].counters = 0 /\ new[m].marks = <<>>
             /\ ~(new[m].counters > new[m].spec.budget)
             /\ Sound(new[m]) /\ \A x : IsKept(x, new[m])
  <2>1. order[m] \in DOMAIN plan /\ order[m] \in added /\ m \in DOMAIN order
    BY <1>4, <1>6
  <2>2. plan[order[m]] \in TaskSpec /\ r.revision + 1 \in Nat
    BY <1>2, <2>1, PlanFields
  <2>3. new[m] = QueuedTask(plan[order[m]], r.revision + 1)
    BY <2>1
  <2> QED
    BY <2>1, <2>2, <2>3, QueuedTaskIsSound
<1>8. /\ kept \in Seq(TaskRun) /\ Len(kept) = n /\ new \in Seq(TaskRun) /\ Len(new) = c
  <2>1. kept \in [1 .. n -> TaskRun]
    BY <1>2, <1>3 DEF Kept
  <2>2. new \in [1 .. c -> TaskRun]
    BY <1>6, <1>7
  <2> HIDE DEF kept, new
  <2> QED
    BY <1>2, <1>6, <2>1, <2>2
<1> HIDE DEF kept, new, added
<1>9. /\ q \in Seq(TaskRun) /\ DOMAIN q = 1 .. (n + c)
      /\ \A i \in 1 .. n : q[i] = kept[i]
      /\ \A m \in 1 .. c : q[n + m] = new[m]
  BY <1>2, <1>6, <1>8
<1>10. \A i \in DOMAIN q : i \in 1 .. n \/ \E m \in 1 .. c : i = n + m
  <2>1. \A i \in (n + 1) .. (n + c) : i - n \in 1 .. c /\ i = n + (i - n)
    <3> HIDE DEF n, c
    <3> QED
      BY <1>2, <1>6
  <2> QED
    BY <1>2, <1>6, <1>9, <2>1
<1>11. s = [r EXCEPT !.plan = plan, !.revision = r.revision + 1, !.tasks = q]
  BY <1>5 DEF new
<1> HIDE DEF q
<1>12. /\ s \in MultiTaskRun /\ s.tasks = q /\ s.stage = "Evaluating" /\ s.active = None
       /\ s.outcome = None /\ s.plan = plan /\ s.revision = r.revision + 1
       /\ s.expected = r.expected /\ s.counters = r.counters
       /\ s.coordination = r.coordination
  <2> DEFINE revision == r.revision + 1
  <2>1. s = [r EXCEPT !.plan = plan, !.revision = revision, !.tasks = q]
    BY <1>11
  <2>2. revision \in Nat
    BY <1>2
  <2> HIDE DEF revision
  <2>3. /\ s \in MultiTaskRun /\ s.tasks = q /\ s.stage = r.stage /\ s.active = r.active
        /\ s.outcome = r.outcome /\ s.plan = plan /\ s.revision = revision
        /\ s.expected = r.expected /\ s.counters = r.counters
        /\ s.coordination = r.coordination
    BY <1>1, <1>9, <2>1, <2>2 DEF MultiTaskRun
  <2> QED
    BY <1>1, <2>3 DEF revision
<1>13. /\ \A i \in 1 .. n : i \in CurrentTasks(s) <=> kept[i].state # "Superseded"
       /\ \A m \in 1 .. c : n + m \in CurrentTasks(s)
  <2>1. \A i \in 1 .. n : i \in DOMAIN q
    BY <1>2, <1>6, <1>9
  <2>2. \A m \in 1 .. c : n + m \in DOMAIN q
    BY <1>2, <1>6, <1>9
  <2> QED
    BY <1>7, <1>9, <1>12, <2>1, <2>2 DEF CurrentTasks
<1>14. ASSUME NEW i \in CurrentTasks(s) PROVE \E k \in DOMAIN plan : s.tasks[i].spec = plan[k]
  <2>1. i \in DOMAIN q
    BY <1>12 DEF CurrentTasks
  <2>2. CASE i \in 1 .. n
    BY <1>3, <1>9, <1>12, <1>13, <2>2
  <2>3. CASE \E m \in 1 .. c : i = n + m
    BY <1>7, <1>9, <1>12, <2>3
  <2> QED
    BY <1>10, <2>1, <2>2, <2>3
<1>15. ASSUME NEW k \in DOMAIN plan PROVE \E i \in CurrentTasks(s) : s.tasks[i].spec = plan[k]
  <2>1. CASE k \in added
    <3>1. PICK m \in 1 .. c : order[m] = k
      BY <1>6, <2>1
    <3> QED
      BY <1>7, <1>9, <1>12, <1>13, <3>1
  <2>2. CASE k \notin added
    <3>1. PICK i \in 1 .. n : kept[i].state # "Superseded" /\ kept[i].spec = plan[k]
      BY <1>4, <2>2
    <3> QED
      BY <1>9, <1>12, <1>13, <3>1
  <2> QED
    BY <2>1, <2>2
<1>16. ASSUME NEW i \in CurrentTasks(s), NEW j \in CurrentTasks(s),
              s.tasks[i].spec.id = s.tasks[j].spec.id
       PROVE  i = j
  <2>1. ASSUME NEW a \in 1 .. n, a \in CurrentTasks(s), NEW m \in 1 .. c
        PROVE  kept[a].spec.id # new[m].spec.id
    <3>1. kept[a].state # "Superseded"
      BY <1>13, <2>1
    <3>2. PICK k \in DOMAIN plan : plan[k] = kept[a].spec
      BY <1>3, <3>1
    <3>3. kept[a].spec # plan[order[m]]
      BY <1>4, <1>7, <3>1
    <3>4. plan[k].id # plan[order[m]].id
      BY <1>7, <3>2, <3>3, PlanFields
    <3> QED
      BY <1>7, <3>2, <3>4
  <2>2. CASE i \in 1 .. n /\ j \in 1 .. n
    <3>1. /\ i \in CurrentTasks(r) /\ j \in CurrentTasks(r)
          /\ r.tasks[i].spec.id = r.tasks[j].spec.id
      BY <1>3, <1>9, <1>12, <1>13, <1>16, <2>2
    <3>2. i \in Named(r, r.tasks[i].spec.id) /\ j \in Named(r, r.tasks[i].spec.id)
      BY <3>1 DEF Named
    <3> QED
      BY <1>1, <3>2, NamesAreUnique
  <2>3. CASE i \in 1 .. n /\ \E m \in 1 .. c : j = n + m
    BY <1>9, <1>12, <1>16, <2>1, <2>3
  <2>4. CASE j \in 1 .. n /\ \E m \in 1 .. c : i = n + m
    BY <1>9, <1>12, <1>16, <2>1, <2>4
  <2>5. ASSUME NEW l \in 1 .. c, i = n + l, NEW m \in 1 .. c, j = n + m
        PROVE  i = j
    <3>1. plan[order[l]].id = plan[order[m]].id
      BY <1>7, <1>9, <1>12, <1>16, <2>5
    <3>2. order[l] = order[m]
      BY <1>7, <3>1, PlanFields
    <3> QED
      BY <1>6, <2>5, <3>2
  <2>6. i \in DOMAIN q /\ j \in DOMAIN q
    BY <1>12 DEF CurrentTasks
  <2> QED
    BY <1>10, <2>2, <2>3, <2>4, <2>5, <2>6
<1>17. TasksMatchPlan(s)
  <2>1. ASSUME NEW k \in DOMAIN plan
        PROVE  \E i \in CurrentTasks(s) : Named(s, plan[k].id) = {i} /\ s.tasks[i].spec = plan[k]
    <3>1. PICK i \in CurrentTasks(s) : s.tasks[i].spec = plan[k]
      BY <1>15
    <3>2. Named(s, plan[k].id) = {i}
      BY <1>16, <3>1 DEF Named
    <3> QED
      BY <3>1, <3>2
  <2>2. \A i \in CurrentTasks(s) : \E k \in DOMAIN plan : plan[k].id = s.tasks[i].spec.id
    BY <1>14
  <2> QED
    BY <1>12, <2>1, <2>2 DEF TasksMatchPlan
<1>18. ASSUME NEW id, IsDelivered(r, id) PROVE IsDelivered(s, id)
  <2>1. PICK i \in CurrentTasks(r) : r.tasks[i].state \in Successful /\ r.tasks[i].spec.id = id
    BY <1>18 DEF IsDelivered, Named
  <2>2. i \in 1 .. n
    BY <1>2 DEF CurrentTasks
  <2>3. kept[i] = r.tasks[i]
    BY <1>3, <2>1, <2>2
  <2>4. i \in CurrentTasks(s) /\ s.tasks[i] = r.tasks[i]
    BY <1>9, <1>12, <1>13, <2>1, <2>2, <2>3 DEF Successful
  <2> QED
    BY <2>1, <2>4 DEF IsDelivered, Named
<1>19. ASSUME NEW i \in DOMAIN s.tasks
       PROVE  /\ ValidTask(s, s.tasks[i]) /\ IsKept(s, s.tasks[i])
              /\ s.tasks[i].state \in Idling \cup {"Superseded"}
  <2>1. CASE i \in 1 .. n
    <3>1. /\ s.tasks[i] = kept[i] /\ Sound(kept[i]) /\ IsKept(s, kept[i])
          /\ kept[i].state \in Idling \cup {"Superseded"}
      BY <1>3, <1>9, <1>12, <2>1
    <3>2. /\ r.tasks[i].revision \in 1 .. r.revision
          /\ ~(r.tasks[i].counters > r.tasks[i].spec.budget)
          /\ r.tasks[i].state \notin {"Queued", "Cancelled", "Superseded"} =>
                 \A id \in r.tasks[i].spec.deps : IsDelivered(r, id)
      BY <1>1, <1>2, <2>1, NothingIsOver, ValidTaskParts DEF Good, Valid
    <3>3. kept[i].revision \in 1 .. s.revision
      BY <1>2, <1>3, <1>12, <2>1, <3>2
    <3>4. ~(kept[i].counters > kept[i].spec.budget)
      BY <1>3, <2>1, <3>2
    <3>5. kept[i].state \notin {"Queued", "Cancelled", "Superseded"} =>
              \A id \in kept[i].spec.deps : IsDelivered(s, id)
      BY <1>3, <1>18, <2>1, <3>2
    <3> QED
      BY <3>1, <3>3, <3>4, <3>5, ValidTaskParts
  <2>2. ASSUME NEW m \in 1 .. c, i = n + m
        PROVE  /\ ValidTask(s, s.tasks[i]) /\ IsKept(s, s.tasks[i])
               /\ s.tasks[i].state \in Idling \cup {"Superseded"}
    <3>1. s.tasks[i] = new[m]
      BY <1>9, <1>12, <2>2
    <3>2. new[m].revision \in 1 .. s.revision
      BY <1>2, <1>7, <1>12
    <3> QED
      BY <1>7, <3>1, <3>2, ValidTaskParts DEF Idling
  <2> QED
    BY <1>10, <1>12, <2>1, <2>2
<1>20. s.counters = RecountedRun(s).counters
  <2> DEFINE f == Counters(r)
             g == Counters(s)
             D == DOMAIN s.tasks
             E == DOMAIN r.tasks
  <2>1. /\ D = 1 .. (n + c) /\ IsFiniteSet(D) /\ E \in SUBSET D
        /\ g \in [D -> Nat] /\ f \in [E -> Nat]
    <3>1. D = 1 .. (n + c) /\ IsFiniteSet(D) /\ g \in [D -> Nat]
      BY <1>9, <1>12, RunFields, CountersAreTyped
    <3>2. E \in SUBSET D
      BY <1>2, <1>6, <3>1
    <3>3. f \in [E -> Nat]
      BY <1>1, CountersAreTyped
    <3> QED
      BY <3>1, <3>2, <3>3
  <2>2. \A x \in E : g[x] = f[x]
    <3>1. \A x \in E : s.tasks[x].counters = r.tasks[x].counters
      BY <1>2, <1>3, <1>9, <1>12
    <3> QED
      BY <2>1, <3>1 DEF Counters
  <2>3. \A x \in D \ E : g[x] = 0
    <3>1. \A x \in D \ E : s.tasks[x].counters = 0
      BY <1>2, <1>7, <1>9, <1>10, <1>12
    <3> QED
      BY <3>1 DEF Counters
  <2> HIDE DEF D, E, f, g
  <2>4. SumFunction(g) = SumFunction(f)
    <3>1. ExtendsByZeros(g, D, f, E)
      BY <2>1, <2>2, <2>3 DEF ExtendsByZeros
    <3> QED
      BY <3>1, SumExtendedByZeros
  <2>5. r.counters = SumFunction(f)
    BY <1>1, CountersAreSummed DEF Good, Valid, f
  <2> QED
    BY <1>12, <2>4, <2>5, CountersAreSummed DEF g
<1>21. ~(s.counters > Allocated(s.plan)) /\ ~(s.coordination > Coordination)
  BY <1>1, <1>12, NothingIsOver
<1>22. ValidStage(s) /\ OthersWait(s)
  <2>1. \A i \in CurrentTasks(s) : s.tasks[i].state \in Idling
    BY <1>19 DEF CurrentTasks
  <2> QED
    BY <1>12, <2>1 DEF ValidStage, OthersWait, Idling, Successful
<1>23. Good(s)
  BY <1>12, <1>17, <1>19, <1>20, <1>21, <1>22 DEF Good, Valid
<1>24. DOMAIN r.tasks \subseteq DOMAIN s.tasks
  BY <1>2, <1>6, <1>9, <1>12
<1>25. \A i \in DOMAIN r.tasks :
           /\ s.tasks[i].marks = r.tasks[i].marks
           /\ r.tasks[i].state \in Successful => s.tasks[i] = r.tasks[i]
  BY <1>2, <1>3, <1>9, <1>12
<1>26. \A i \in DOMAIN s.tasks \ DOMAIN r.tasks : s.tasks[i].marks = <<>>
  BY <1>2, <1>7, <1>9, <1>10, <1>12
<1> QED
  BY <1>12, <1>19, <1>23, <1>24, <1>25, <1>26 DEF Idling

-----------------------------------------------------------------------------
(* The invariant of the queue *)

\* Each mark of a child is the most that was heard of it, and what was heard is of
\* an attempt there is.
HeardMarks ==
    /\ IsFiniteSet(DOMAIN history.children)
    /\ \A c \in DOMAIN history.children :
           \E i \in DOMAIN run.tasks : \E a \in DOMAIN run.tasks[i].marks : c = <<i, a>>
    /\ \A i \in DOMAIN run.tasks : \A a \in DOMAIN run.tasks[i].marks :
           run.tasks[i].marks[a] =
               IF <<i, a>> \in DOMAIN history.children THEN history.children[<<i, a>>] ELSE 0

DeliveredAreTasks ==
    \A n \in DOMAIN history.delivered : history.delivered[n] \in DOMAIN run.tasks

Inv ==
    TypeOK /\ Good(run) /\ DeliveredAreTasks /\ DeliveriesFormAChain
    /\ HeardMarks /\ UsageIsCountedOnce

\* What was delivered, and what its children were charged, is carried over.
Carries(r, s) ==
    /\ Good(s)
    /\ DOMAIN r.tasks \subseteq DOMAIN s.tasks
    /\ \A i \in DOMAIN r.tasks : r.tasks[i].state \in Successful => s.tasks[i] = r.tasks[i]

CarriesMarks(r, s) ==
    /\ \A i \in DOMAIN r.tasks :
           /\ DOMAIN r.tasks[i].marks \subseteq DOMAIN s.tasks[i].marks
           /\ \A a \in DOMAIN r.tasks[i].marks : s.tasks[i].marks[a] = r.tasks[i].marks[a]
           /\ \A a \in DOMAIN s.tasks[i].marks \ DOMAIN r.tasks[i].marks :
                  s.tasks[i].marks[a] = 0
    /\ \A i \in DOMAIN s.tasks \ DOMAIN r.tasks : \A a \in DOMAIN s.tasks[i].marks :
           s.tasks[i].marks[a] = 0

LEMMA HistoryFields ==
    ASSUME TypeOK
    PROVE  /\ history.delivered \in Seq(Nat) /\ Len(history.delivered) \in Nat
           /\ DOMAIN history.delivered = 1 .. Len(history.delivered)
           /\ history.began \in Repositories /\ history.direct \in Nat
           /\ history.children \in [DOMAIN history.children -> Nat]
  BY DEF TypeOK

\* The chain of deliveries is not disturbed.
LEMMA ChainStays ==
    ASSUME Inv, Carries(run, run'), run'.expected = run.expected,
           history'.delivered = history.delivered, history'.began = history.began
    PROVE  DeliveredAreTasks' /\ DeliveriesFormAChain'
<1> DEFINE d == history.delivered
<1>1. /\ d \in Seq(Nat) /\ Len(d) \in Nat /\ DOMAIN d = 1 .. Len(d)
  BY HistoryFields DEF Inv
<1>2. \A n \in DOMAIN d :
          /\ d[n] \in DOMAIN run.tasks /\ run.tasks[d[n]].state \in Successful
          /\ run'.tasks[d[n]] = run.tasks[d[n]] /\ d[n] \in DOMAIN run'.tasks
  BY DEF Inv, DeliveredAreTasks, DeliveriesFormAChain, Carries
<1>3. DeliveredAreTasks'
  BY <1>2 DEF DeliveredAreTasks
<1>4. ASSUME NEW n \in DOMAIN d
      PROVE  /\ run'.tasks[d[n]].state \in Successful
             /\ run'.tasks[d[n]].result.base =
                    IF n = 1 THEN history.began ELSE run'.tasks[d[n - 1]].result.terminal
  <2>1. n # 1 => n - 1 \in DOMAIN d
    BY <1>1
  <2>2. run.tasks[d[n]].result.base =
            IF n = 1 THEN history.began ELSE run.tasks[d[n - 1]].result.terminal
    BY DEF Inv, DeliveriesFormAChain
  <2> QED
    BY <1>2, <2>1, <2>2
<1>5. run'.expected =
          IF d = <<>> THEN history.began ELSE run'.tasks[d[Len(d)]].result.terminal
  <2>1. d # <<>> => Len(d) \in DOMAIN d
    BY <1>1
  <2>2. run.expected = IF d = <<>> THEN history.began ELSE run.tasks[d[Len(d)]].result.terminal
    BY DEF Inv, DeliveriesFormAChain
  <2> QED
    BY <1>2, <2>1, <2>2
<1>6. \A i \in DOMAIN run'.tasks :
          run'.tasks[i].state \in {"Running", "Blocked"} => run'.tasks[i].base = run'.expected
  BY DEF Carries, Good, IsKept
<1> QED
  BY <1>3, <1>4, <1>5, <1>6 DEF DeliveriesFormAChain

\* Nothing is heard, nothing is charged.
LEMMA NothingIsHeard ==
    ASSUME Inv, Carries(run, run'), CarriesMarks(run, run'), run'.expected = run.expected,
           history' \in [began : Repositories, delivered : Seq(Nat), direct : Nat,
                         children : [DOMAIN history.children -> Nat]],
           history'.delivered = history.delivered, history'.began = history.began,
           history'.children = history.children,
           run'.counters - history'.direct = run.counters - history.direct
    PROVE  Inv'
<1> DEFINE h == history.children
<1>1. DeliveredAreTasks' /\ DeliveriesFormAChain'
  BY ChainStays
<1>2. run' \in MultiTaskRun /\ Good(run')
  BY DEF Carries, Good
<1>3. TypeOK'
  BY <1>2 DEF TypeOK
<1>4. HeardMarks'
  <2>1. /\ IsFiniteSet(DOMAIN h)
        /\ \A c \in DOMAIN h :
               \E i \in DOMAIN run.tasks : \E a \in DOMAIN run.tasks[i].marks : c = <<i, a>>
        /\ \A i \in DOMAIN run.tasks : \A a \in DOMAIN run.tasks[i].marks :
               run.tasks[i].marks[a] = IF <<i, a>> \in DOMAIN h THEN h[<<i, a>>] ELSE 0
    BY DEF Inv, HeardMarks
  <2>2. \A c \in DOMAIN h :
            \E i \in DOMAIN run'.tasks : \E a \in DOMAIN run'.tasks[i].marks : c = <<i, a>>
    BY <2>1 DEF Carries, CarriesMarks
  <2>3. ASSUME NEW i \in DOMAIN run'.tasks, NEW a \in DOMAIN run'.tasks[i].marks
        PROVE  run'.tasks[i].marks[a] = IF <<i, a>> \in DOMAIN h THEN h[<<i, a>>] ELSE 0
    <3>1. CASE i \in DOMAIN run.tasks /\ a \in DOMAIN run.tasks[i].marks
      BY <2>1, <3>1 DEF CarriesMarks
    <3>2. CASE ~(i \in DOMAIN run.tasks /\ a \in DOMAIN run.tasks[i].marks)
      <4>1. run'.tasks[i].marks[a] = 0
        BY <2>3, <3>2 DEF CarriesMarks
      <4>2. <<i, a>> \notin DOMAIN h
        BY <2>1, <3>2
      <4> QED
        BY <4>1, <4>2
    <3> QED
      BY <3>1, <3>2
  <2> QED
    BY <2>1, <2>2, <2>3 DEF HeardMarks
<1>5. UsageIsCountedOnce'
  <2>1. run.counters = history.direct + SumFunction(h)
    BY DEF Inv, UsageIsCountedOnce
  <2>2. SumFunction(h) \in Nat
    BY HistoryFields, SumType DEF Inv, HeardMarks
  <2>3. /\ run'.counters \in Nat /\ run.counters \in Nat
        /\ history.direct \in Nat /\ history'.direct \in Nat
    BY <1>2, <1>3, RunFields DEF Inv, Good, TypeOK
  <2>4. run'.counters = history'.direct + SumFunction(h)
    <3> DEFINE total == SumFunction(h)
    <3> HIDE DEF total
    <3> QED
      BY <2>1, <2>2, <2>3 DEF total
  <2> QED
    BY <2>4 DEF UsageIsCountedOnce
<1> QED
  BY <1>1, <1>2, <1>3, <1>4, <1>5 DEF Inv

\* An event about one Task that was not delivered, and nothing heard of its child
LEMMA OneTaskCarries ==
    ASSUME NEW r, NEW s, Good(s), DOMAIN s.tasks = DOMAIN r.tasks, NEW i \in DOMAIN r.tasks,
           r.tasks[i].state \notin Successful,
           \A j \in DOMAIN r.tasks \ {i} : s.tasks[j] = r.tasks[j]
    PROVE  /\ Carries(r, s)
           /\ s.tasks[i].marks = r.tasks[i].marks => CarriesMarks(r, s)
<1>1. Carries(r, s)
  BY DEF Carries
<1>2. ASSUME s.tasks[i].marks = r.tasks[i].marks PROVE CarriesMarks(r, s)
  <2>1. \A j \in DOMAIN r.tasks : s.tasks[j].marks = r.tasks[j].marks
    BY <1>2
  <2> QED
    BY <2>1 DEF CarriesMarks
<1> QED
  BY <1>1, <1>2

\* An attempt more: its child is still to be heard of.
LEMMA AttemptCarries ==
    ASSUME NEW r, Good(r), NEW s, Good(s), DOMAIN s.tasks = DOMAIN r.tasks,
           NEW i \in DOMAIN r.tasks, r.tasks[i].state \notin Successful,
           \A j \in DOMAIN r.tasks \ {i} : s.tasks[j] = r.tasks[j],
           s.tasks[i].marks = Append(r.tasks[i].marks, 0)
    PROVE  Carries(r, s) /\ CarriesMarks(r, s)
<1>1. Carries(r, s)
  BY OneTaskCarries
<1>2. r.tasks[i].marks \in Seq(Nat)
  BY RunFields, TaskFields DEF Good
<1> DEFINE f == r.tasks[i].marks
           g == s.tasks[i].marks
<1>3. /\ Len(f) \in Nat /\ DOMAIN f = 1 .. Len(f) /\ DOMAIN g = 1 .. (Len(f) + 1)
      /\ g[Len(f) + 1] = 0 /\ \A a \in 1 .. Len(f) : g[a] = f[a]
  BY <1>2, SumOfAppendedZero
<1> HIDE DEF f, g
<1>4. /\ DOMAIN f \subseteq DOMAIN g /\ \A a \in DOMAIN f : g[a] = f[a]
      /\ \A a \in DOMAIN g \ DOMAIN f : g[a] = 0
  BY <1>3
<1>5. CarriesMarks(r, s)
  <2>1. \A j \in DOMAIN r.tasks \ {i} : s.tasks[j].marks = r.tasks[j].marks
    OBVIOUS
  <2>2. ASSUME NEW j \in DOMAIN r.tasks
        PROVE  /\ DOMAIN r.tasks[j].marks \subseteq DOMAIN s.tasks[j].marks
               /\ \A a \in DOMAIN r.tasks[j].marks : s.tasks[j].marks[a] = r.tasks[j].marks[a]
               /\ \A a \in DOMAIN s.tasks[j].marks \ DOMAIN r.tasks[j].marks :
                      s.tasks[j].marks[a] = 0
    <3>1. CASE j = i
      BY <1>4, <3>1 DEF f, g
    <3>2. CASE j # i
      BY <2>1, <3>2
    <3> QED
      BY <3>1, <3>2
  <2> QED
    BY <2>2 DEF CarriesMarks
<1> QED
  BY <1>1, <1>5

\* The history is as it was.
LEMMA HistoryStays ==
    ASSUME Inv, UNCHANGED history, Carries(run, run'), CarriesMarks(run, run'),
           run'.expected = run.expected, run'.counters = run.counters
    PROVE  Inv'
<1>1. history' \in [began : Repositories, delivered : Seq(Nat), direct : Nat,
                    children : [DOMAIN history.children -> Nat]]
  BY DEF Inv, TypeOK
<1>2. run'.counters - history'.direct = run.counters - history.direct
  OBVIOUS
<1> QED
  BY <1>1, <1>2, NothingIsHeard

LEMMA InitIsGood == Init => Inv
<1> SUFFICES ASSUME Init PROVE Inv
  OBVIOUS
<1>1. PICK plan \in TaskPlans, repository \in Began :
          /\ run \in Start(plan, repository)
          /\ history = [began |-> repository, delivered |-> <<>>, direct |-> 0,
                        children |-> [c \in {} |-> 0]]
  BY DEF Init
<1>2. repository \in Repositories
  BY BeganAreRepositories
<1>3. /\ Good(run) /\ run.expected = repository /\ run.counters = 0
      /\ \A i \in DOMAIN run.tasks :
             /\ run.tasks[i].state \in {"Queued", "Running"}
             /\ run.tasks[i].marks \in {<<>>, <<0>>}
  BY <1>1, <1>2, StartIsGood
<1>4. /\ history.began = repository /\ history.delivered = <<>> /\ history.direct = 0
      /\ history.children = [c \in {} |-> 0] /\ DOMAIN history.children = {}
      /\ history.children \in [{} -> {0}] /\ history.children \in [{} -> Nat]
  BY <1>1
<1>5. TypeOK
  BY <1>1, <1>2, <1>3, <1>4 DEF TypeOK, Good
<1>6. DeliveredAreTasks /\ DeliveriesFormAChain
  BY <1>3, <1>4 DEF DeliveredAreTasks, DeliveriesFormAChain, Good, IsKept
<1>7. HeardMarks
  <2>1. ASSUME NEW i \in DOMAIN run.tasks, NEW a \in DOMAIN run.tasks[i].marks
        PROVE  run.tasks[i].marks[a] = 0
    <3>1. CASE run.tasks[i].marks = <<>>
      BY <3>1
    <3>2. CASE run.tasks[i].marks = <<0>>
      BY <3>2
    <3> QED
      BY <1>3, <3>1, <3>2
  <2> QED
    BY <1>4, <2>1, FS_EmptySet DEF HeardMarks
<1>8. UsageIsCountedOnce
  <2>1. SumFunction(history.children) = 0
    BY <1>4, FS_EmptySet, SumOfZeros
  <2> QED
    BY <1>3, <1>4, <2>1 DEF UsageIsCountedOnce
<1> QED
  BY <1>3, <1>5, <1>6, <1>7, <1>8 DEF Inv

\* A delivery makes the chain longer by one.
LEMMA DeliveryExtendsTheChain ==
    ASSUME Inv, TaskDelivered
    PROVE  Inv'
<1>1. PICK i \in RunningTask(run), commit \in Commits \cup {None}, repository \in Repositories :
          /\ CanDeliver(run, i, commit, repository)
          /\ run' = Deliver(run, i, commit, repository)
          /\ history' = [history EXCEPT !.delivered = Append(@, i)]
  BY DEF TaskDelivered
<1>2. Good(run)
  BY DEF Inv
<1>3. /\ i \in DOMAIN run.tasks /\ run.tasks[i].state = "Running" /\ i \in Nat
  <2>1. i \in DOMAIN run.tasks /\ run.tasks[i].state = "Running" /\ run \in MultiTaskRun
    BY <1>2, RunningTaskFacts
  <2> QED
    BY <2>1, RunFields
<1>4. /\ Good(run') /\ run'.expected = repository /\ run'.counters = run.counters
      /\ DOMAIN run'.tasks = DOMAIN run.tasks
      /\ \A j \in DOMAIN run.tasks \ {i} : run'.tasks[j] = run.tasks[j]
      /\ run'.tasks[i].marks = run.tasks[i].marks
      /\ run'.tasks[i].state \in Successful
      /\ run'.tasks[i].result.base = run.expected
      /\ run'.tasks[i].result.terminal = repository
  BY <1>1, <1>2, DeliverKeepsGood
<1> DEFINE d == history.delivered
           e == Append(d, i)
<1>5. /\ d \in Seq(Nat) /\ Len(d) \in Nat /\ DOMAIN d = 1 .. Len(d)
      /\ history.began \in Repositories /\ history.direct \in Nat
      /\ history.children \in [DOMAIN history.children -> Nat]
  BY HistoryFields DEF Inv
<1>6. /\ e \in Seq(Nat) /\ DOMAIN e = 1 .. (Len(d) + 1) /\ Len(e) = Len(d) + 1
      /\ e[Len(d) + 1] = i /\ \A n \in 1 .. Len(d) : e[n] = d[n]
  BY <1>3, <1>5
<1>7. /\ history'.delivered = e /\ history'.began = history.began
      /\ history'.direct = history.direct /\ history'.children = history.children
      /\ history' \in [began : Repositories, delivered : Seq(Nat), direct : Nat,
                       children : [DOMAIN history.children -> Nat]]
  <2> HIDE DEF e
  <2> QED
    BY <1>1, <1>6 DEF e, Inv, TypeOK
<1> HIDE DEF d, e
<1>8. TypeOK'
  BY <1>4, <1>7 DEF TypeOK, Good
<1>9. \A n \in 1 .. Len(d) :
          /\ d[n] \in DOMAIN run.tasks /\ run.tasks[d[n]].state \in Successful
          /\ d[n] # i /\ run'.tasks[d[n]] = run.tasks[d[n]]
          /\ run.tasks[d[n]].result.base =
                 IF n = 1 THEN history.began ELSE run.tasks[d[n - 1]].result.terminal
  <2>1. \A n \in 1 .. Len(d) :
          /\ d[n] \in DOMAIN run.tasks /\ run.tasks[d[n]].state \in Successful
          /\ run.tasks[d[n]].result.base =
                 IF n = 1 THEN history.began ELSE run.tasks[d[n - 1]].result.terminal
    BY <1>5 DEF Inv, DeliveredAreTasks, DeliveriesFormAChain, d
  <2> QED
    BY <1>3, <1>4, <2>1 DEF Successful
<1>10. run.expected = IF Len(d) = 0 THEN history.began ELSE run.tasks[d[Len(d)]].result.terminal
  <2>1. d = <<>> <=> Len(d) = 0
    BY <1>5
  <2> QED
    BY <2>1 DEF Inv, DeliveriesFormAChain, d
<1>11. DeliveredAreTasks'
  <2>1. ASSUME NEW n \in 1 .. (Len(d) + 1) PROVE e[n] \in DOMAIN run.tasks
    <3>1. n \in 1 .. Len(d) \/ n = Len(d) + 1
      BY <1>5
    <3> QED
      BY <1>3, <1>6, <1>9, <3>1
  <2> QED
    BY <1>4, <1>6, <1>7, <2>1 DEF DeliveredAreTasks
<1>12. ASSUME NEW n \in 1 .. (Len(d) + 1)
       PROVE  /\ run'.tasks[e[n]].state \in Successful
              /\ run'.tasks[e[n]].result.base =
                     IF n = 1 THEN history.began ELSE run'.tasks[e[n - 1]].result.terminal
  <2>1. CASE n \in 1 .. Len(d)
    <3>1. /\ e[n] = d[n] /\ run'.tasks[d[n]] = run.tasks[d[n]]
          /\ run.tasks[d[n]].state \in Successful
          /\ run.tasks[d[n]].result.base =
                 IF n = 1 THEN history.began ELSE run.tasks[d[n - 1]].result.terminal
      BY <1>6, <1>9, <2>1
    <3>2. CASE n = 1
      BY <3>1, <3>2
    <3>3. CASE n # 1
      <4>1. n - 1 \in 1 .. Len(d)
        BY <1>5, <2>1, <3>3
      <4>2. e[n - 1] = d[n - 1] /\ run'.tasks[d[n - 1]] = run.tasks[d[n - 1]]
        BY <1>6, <1>9, <4>1
      <4> QED
        BY <3>1, <3>3, <4>2
    <3> QED
      BY <3>2, <3>3
  <2>2. CASE n = Len(d) + 1
    <3>1. e[n] = i /\ (n = 1 <=> Len(d) = 0) /\ n - 1 = Len(d)
      BY <1>5, <1>6, <2>2
    <3>2. CASE Len(d) = 0
      BY <1>4, <1>10, <3>1, <3>2
    <3>3. CASE Len(d) # 0
      <4>1. Len(d) \in 1 .. Len(d)
        BY <1>5, <3>3
      <4>2. e[n - 1] = d[Len(d)] /\ run'.tasks[d[Len(d)]] = run.tasks[d[Len(d)]]
        BY <1>6, <1>9, <3>1, <4>1
      <4> QED
        BY <1>4, <1>10, <3>1, <3>3, <4>2
    <3> QED
      BY <3>2, <3>3
  <2> QED
    BY <1>5, <2>1, <2>2
<1>13. DeliveriesFormAChain'
  <2>1. run'.expected =
            IF e = <<>> THEN history.began ELSE run'.tasks[e[Len(e)]].result.terminal
    <3>1. e # <<>> /\ e[Len(e)] = i
      BY <1>5, <1>6
    <3> QED
      BY <1>4, <3>1
  <2>2. \A j \in DOMAIN run'.tasks :
            run'.tasks[j].state \in {"Running", "Blocked"} => run'.tasks[j].base = run'.expected
    BY <1>4 DEF Good, IsKept
  <2> QED
    BY <1>6, <1>7, <1>12, <2>1, <2>2 DEF DeliveriesFormAChain
<1>14. \A j \in DOMAIN run.tasks : run'.tasks[j].marks = run.tasks[j].marks
  BY <1>4
<1>15. HeardMarks'
  <2> DEFINE h == history.children
  <2>1. /\ IsFiniteSet(DOMAIN h)
        /\ \A c \in DOMAIN h :
               \E j \in DOMAIN run.tasks : \E a \in DOMAIN run.tasks[j].marks : c = <<j, a>>
        /\ \A j \in DOMAIN run.tasks : \A a \in DOMAIN run.tasks[j].marks :
               run.tasks[j].marks[a] = IF <<j, a>> \in DOMAIN h THEN h[<<j, a>>] ELSE 0
    BY DEF Inv, HeardMarks
  <2>2. \A c \in DOMAIN h :
            \E j \in DOMAIN run'.tasks : \E a \in DOMAIN run'.tasks[j].marks : c = <<j, a>>
    BY <1>4, <1>14, <2>1
  <2>3. \A j \in DOMAIN run'.tasks : \A a \in DOMAIN run'.tasks[j].marks :
            run'.tasks[j].marks[a] = IF <<j, a>> \in DOMAIN h THEN h[<<j, a>>] ELSE 0
    <3>1. ASSUME NEW j \in DOMAIN run'.tasks, NEW a \in DOMAIN run'.tasks[j].marks
          PROVE  run'.tasks[j].marks[a] = IF <<j, a>> \in DOMAIN h THEN h[<<j, a>>] ELSE 0
      <4>1. j \in DOMAIN run.tasks /\ run'.tasks[j].marks = run.tasks[j].marks
        BY <1>4, <1>14
      <4> QED
        BY <2>1, <4>1
    <3> QED
      BY <3>1
  <2> QED
    BY <1>7, <2>1, <2>2, <2>3 DEF HeardMarks
<1>16. UsageIsCountedOnce'
  BY <1>4, <1>7 DEF Inv, UsageIsCountedOnce
<1> QED
  BY <1>4, <1>8, <1>11, <1>13, <1>15, <1>16 DEF Inv

\* What is heard of a child replaces what was heard of the same attempt before.
LEMMA HeardKeepsInv ==
    ASSUME Inv, NEW i \in RunningTask(run), NEW child \in Children,
           NEW repository \in Repositories,
           child.attempt = Attempts(run.tasks[i]),
           run.tasks[i].contract \subseteq child.contract,
           child.used >= run.tasks[i].marks[child.attempt],
           run' = Charged(run, i, Heeds(run.tasks[i], child, repository)),
           history' = [history EXCEPT !.children = Heard(child, i)]
    PROVE  Inv'
<1> DEFINE a == child.attempt
           c == <<i, a>>
           h == history.children
           D == DOMAIN h
           g == Heard(child, i)
           f == run.tasks[i].marks
<1>1. child \in Child /\ child.used \in Nat
  BY BoundsAreNaturals DEF Children, Child
<1>2. Good(run) /\ i \in DOMAIN run.tasks /\ run.tasks[i].state = "Running"
  BY RunningTaskFacts DEF Inv
<1>3. /\ Good(run') /\ run'.expected = run.expected
      /\ DOMAIN run'.tasks = DOMAIN run.tasks
      /\ \A j \in DOMAIN run.tasks \ {i} : run'.tasks[j] = run.tasks[j]
      /\ Attempts(run'.tasks[i]) = Attempts(run.tasks[i])
      /\ a \in DOMAIN f
      /\ run'.tasks[i].marks[a] = child.used
      /\ \A b \in DOMAIN f \ {a} : run'.tasks[i].marks[b] = f[b]
      /\ run'.counters = (run.counters - f[a]) + child.used
  BY <1>1, <1>2, HeedingKeepsGood
<1>4. Carries(run, run')
  BY <1>2, <1>3, OneTaskCarries DEF Successful
<1>5. /\ IsFiniteSet(D) /\ h \in [D -> Nat]
      /\ \A e \in D : \E j \in DOMAIN run.tasks : \E b \in DOMAIN run.tasks[j].marks : e = <<j, b>>
      /\ \A j \in DOMAIN run.tasks : \A b \in DOMAIN run.tasks[j].marks :
             run.tasks[j].marks[b] = IF <<j, b>> \in D THEN h[<<j, b>>] ELSE 0
  BY HistoryFields DEF Inv, HeardMarks
<1>6. f[a] = IF c \in D THEN h[c] ELSE 0
  BY <1>2, <1>3, <1>5
<1>7. /\ DOMAIN g = D \cup {c} /\ g[c] = child.used
      /\ \A e \in D \ {c} : g[e] = h[e]
      /\ g \in [D \cup {c} -> Nat]
  <2>1. g = [e \in D \cup {c} |-> IF e # c THEN h[e]
                                  ELSE IF c \in D /\ h[c] > child.used THEN h[c] ELSE child.used]
    BY DEF Heard
  <2>2. c \in D => h[c] \in Nat /\ ~(h[c] > child.used)
    BY <1>1, <1>5, <1>6
  <2> HIDE DEF g, c, h, D, a, f
  <2>3. g[c] = child.used
    BY <2>1, <2>2
  <2>4. \A e \in D \ {c} : g[e] = h[e] /\ g[e] \in Nat
    BY <1>5, <2>1
  <2>5. DOMAIN g = D \cup {c}
    BY <2>1
  <2>6. g \in [D \cup {c} -> Nat]
    BY <1>1, <2>1, <2>3, <2>4
  <2> QED
    BY <2>3, <2>4, <2>5, <2>6
<1>8. IsFiniteSet(D \cup {c})
  BY <1>5, FS_AddElement
<1>9. /\ history'.children = g /\ history'.direct = history.direct
      /\ history'.began = history.began /\ history'.delivered = history.delivered
      /\ TypeOK'
  <2> HIDE DEF g
  <2>1. /\ history'.children = g /\ history'.direct = history.direct
        /\ history'.began = history.began /\ history'.delivered = history.delivered
        /\ history' = [history EXCEPT !.children = g]
    BY DEF Inv, TypeOK, g
  <2>2. g \in [DOMAIN g -> Nat]
    BY <1>7
  <2>3. history' \in [began : Repositories, delivered : Seq(Nat), direct : Nat,
                      children : [DOMAIN history'.children -> Nat]]
    BY <2>1, <2>2 DEF Inv, TypeOK
  <2> QED
    BY <1>3, <2>1, <2>3 DEF TypeOK, Good
<1>10. DeliveredAreTasks' /\ DeliveriesFormAChain'
  BY <1>3, <1>4, <1>9, ChainStays
<1>11. \A j \in DOMAIN run.tasks : DOMAIN run'.tasks[j].marks = DOMAIN run.tasks[j].marks
  <2>1. DOMAIN run'.tasks[i].marks = DOMAIN f
    <3>1. run.tasks[i].marks \in Seq(Nat) /\ run'.tasks[i].marks \in Seq(Nat)
      BY <1>2, <1>3, RunFields, TaskFields DEF Good
    <3> QED
      BY <1>3, <3>1 DEF Attempts
  <2> QED
    BY <1>3, <2>1
<1> HIDE DEF g, h, D
<1>12. HeardMarks'
  <2>1. \A e \in D \cup {c} :
            \E j \in DOMAIN run'.tasks : \E b \in DOMAIN run'.tasks[j].marks : e = <<j, b>>
    BY <1>2, <1>3, <1>5, <1>11
  <2>2. ASSUME NEW j \in DOMAIN run'.tasks, NEW b \in DOMAIN run'.tasks[j].marks
        PROVE  run'.tasks[j].marks[b] = IF <<j, b>> \in D \cup {c} THEN g[<<j, b>>] ELSE 0
    <3>1. j \in DOMAIN run.tasks /\ b \in DOMAIN run.tasks[j].marks
      BY <1>3, <1>11
    <3>2. CASE j = i /\ b = a
      BY <1>3, <1>7, <3>2
    <3>3. CASE ~(j = i /\ b = a)
      <4>1. <<j, b>> # c
        BY <3>3
      <4>2. run'.tasks[j].marks[b] = run.tasks[j].marks[b]
        BY <1>3, <3>1, <3>3
      <4>3. run.tasks[j].marks[b] = IF <<j, b>> \in D THEN h[<<j, b>>] ELSE 0
        BY <1>5, <3>1
      <4> HIDE DEF c
      <4> QED
        BY <1>7, <4>1, <4>2, <4>3
    <3> QED
      BY <3>2, <3>3
  <2>3. /\ history'.children = g /\ DOMAIN g = D \cup {c}
        /\ IsFiniteSet(DOMAIN history'.children)
    <3> HIDE DEF c
    <3> QED
      BY <1>7, <1>8, <1>9
  <2>4. \A e \in DOMAIN history'.children :
            \E j \in DOMAIN run'.tasks : \E b \in DOMAIN run'.tasks[j].marks : e = <<j, b>>
    BY <2>1, <2>3
  <2>5. \A j \in DOMAIN run'.tasks : \A b \in DOMAIN run'.tasks[j].marks :
            run'.tasks[j].marks[b] =
                IF <<j, b>> \in DOMAIN history'.children THEN history'.children[<<j, b>>] ELSE 0
    BY <2>2, <2>3
  <2> HIDE DEF c
  <2> QED
    BY <2>3, <2>4, <2>5 DEF HeardMarks
<1>13. SumFunction(g) = (SumFunction(h) - f[a]) + child.used
  <2> HIDE DEF c
  <2>1. CASE c \in D
    <3>1. g \in [D -> Nat] /\ \A e \in D \ {c} : g[e] = h[e]
      <4>1. D \cup {c} = D
        BY <2>1
      <4> QED
        BY <1>7, <4>1
    <3>2. SumFunction(g) = (SumFunction(h) - h[c]) + g[c]
      BY <1>5, <2>1, <3>1, SumUpdated
    <3> QED
      BY <1>6, <1>7, <2>1, <3>2
  <2>2. CASE c \notin D
    <3> DEFINE E == D \cup {c}
    <3>1. /\ IsFiniteSet(D) /\ c \in E /\ c \notin D /\ D \subseteq E
          /\ \A e \in E : e \in D \/ e = c
          /\ h \in [D -> Nat] /\ g \in [E -> Nat] /\ \A e \in D : g[e] = h[e]
      BY <1>5, <1>7, <2>2
    <3> HIDE DEF E
    <3>2. SumFunction(g) = SumFunction(h) + g[c]
      BY <3>1, SumExtended
    <3>3. SumFunction(h) \in Nat /\ f[a] = 0
      BY <1>5, <1>6, <2>2, SumType
    <3> QED
      BY <1>7, <3>2, <3>3
  <2> QED
    BY <2>1, <2>2
<1>14. UsageIsCountedOnce'
  <2> DEFINE total == SumFunction(h)
             charged == f[a]
             used == child.used
             sum == SumFunction(g)
  <2>1. total \in Nat /\ charged \in Nat /\ history.direct \in Nat /\ used \in Nat
    <3>1. f[a] \in Nat
      BY <1>5, <1>6
    <3>2. history.direct \in Nat
      BY HistoryFields DEF Inv
    <3> QED
      BY <1>1, <1>5, <3>1, <3>2, SumType
  <2>2. run.counters = history.direct + total
    BY DEF Inv, UsageIsCountedOnce, h
  <2>3. run'.counters = (run.counters - charged) + used
    BY <1>3
  <2>4. sum = (total - charged) + used
    BY <1>13
  <2> HIDE DEF total, charged, used, sum
  <2>5. run'.counters = history.direct + sum
    BY <2>1, <2>2, <2>3, <2>4
  <2> QED
    BY <1>9, <2>5 DEF UsageIsCountedOnce, sum
<1> QED
  BY <1>3, <1>9, <1>10, <1>12, <1>14 DEF Inv

-----------------------------------------------------------------------------
(* Every event *)

LEMMA TasksAlikeCarry ==
    ASSUME NEW r, NEW s, Good(s), s.tasks = r.tasks
    PROVE  Carries(r, s) /\ CarriesMarks(r, s)
  BY DEF Carries, CarriesMarks

LEMMA CoordinationStep ==
    ASSUME Inv, CoordinationUsageRecorded
    PROVE  Inv' /\ Carries(run, run')
<1>1. PICK usage \in Usages : run' = RecordCoordination(run, usage)
  BY DEF CoordinationUsageRecorded
<1>2. Good(run) /\ CanRecordCoordination(run) /\ UNCHANGED history /\ usage \in Nat
  BY BoundsAreNaturals DEF Inv, CoordinationUsageRecorded
<1>3. /\ Good(run') /\ run'.expected = run.expected /\ run'.counters = run.counters
      /\ run'.tasks = run.tasks
  BY <1>1, <1>2, CoordinationKeepsGood
<1>4. Carries(run, run') /\ CarriesMarks(run, run')
  BY <1>3, TasksAlikeCarry
<1> QED
  BY <1>2, <1>3, <1>4, HistoryStays

LEMMA DirectUsageStep ==
    ASSUME Inv, DirectUsageRecorded
    PROVE  Inv' /\ Carries(run, run')
<1>1. PICK i \in RunningTask(run), usage \in Usages \ {0} :
          /\ run' = RecordDirect(run, i, usage)
          /\ history' = [history EXCEPT !.direct = @ + usage]
  BY DEF DirectUsageRecorded
<1>2. /\ Good(run) /\ usage \in Nat /\ i \in DOMAIN run.tasks /\ run.tasks[i].state = "Running"
      /\ run \in MultiTaskRun
  BY BoundsAreNaturals, RunningTaskFacts DEF Inv
<1>3. /\ Good(run') /\ run'.expected = run.expected
      /\ DOMAIN run'.tasks = DOMAIN run.tasks
      /\ \A j \in DOMAIN run.tasks \ {i} : run'.tasks[j] = run.tasks[j]
      /\ run'.tasks[i].marks = run.tasks[i].marks
      /\ run'.counters = run.counters + usage
  BY <1>1, <1>2, RecordDirectKeepsGood
<1>4. Carries(run, run') /\ CarriesMarks(run, run')
  BY <1>2, <1>3, OneTaskCarries DEF Successful
<1>5. /\ history' \in [began : Repositories, delivered : Seq(Nat), direct : Nat,
                       children : [DOMAIN history.children -> Nat]]
      /\ history'.delivered = history.delivered /\ history'.began = history.began
      /\ history'.children = history.children
      /\ history'.direct = history.direct + usage
  <2> DEFINE d == history.direct + usage
  <2>1. d \in Nat /\ history' = [history EXCEPT !.direct = d]
    BY <1>1, <1>2, HistoryFields DEF Inv
  <2> HIDE DEF d
  <2>2. /\ history' \in [began : Repositories, delivered : Seq(Nat), direct : Nat,
                         children : [DOMAIN history.children -> Nat]]
        /\ history'.delivered = history.delivered /\ history'.began = history.began
        /\ history'.children = history.children /\ history'.direct = d
    BY <2>1 DEF Inv, TypeOK
  <2> QED
    BY <2>2 DEF d
<1>6. run'.counters - history'.direct = run.counters - history.direct
  <2>1. run.counters \in Nat /\ history.direct \in Nat
    BY <1>2, HistoryFields, RunFields DEF Inv
  <2> QED
    BY <1>2, <1>3, <1>5, <2>1
<1>7. Inv'
  BY <1>3, <1>4, <1>5, <1>6, NothingIsHeard
<1> QED
  BY <1>4, <1>7

\* ChildStarted, ChildCheckpointed and GoalContractRevised
LEMMA ChildStep ==
    ASSUME Inv, ChildStarted \/ ChildCheckpointed \/ GoalContractRevised
    PROVE  Inv' /\ Carries(run, run')
<1>1. PICK i \in RunningTask(run), repository \in Repositories, child \in Children :
          /\ \/ /\ IsChildOf(run.tasks[i], child)
                /\ run' = CheckpointChild(run, i, child, repository)
             \/ /\ CanReviseContract(run, i, child)
                /\ run' = ReviseContract(run, i, child, repository)
          /\ history' = [history EXCEPT !.children = Heard(child, i)]
  BY DEF ChildStarted, ChildCheckpointed, GoalContractRevised, CanStartChild,
         CanCheckpointChild
<1>2. /\ Good(run) /\ run.tasks[i] \in TaskRun /\ child \in Child
      /\ i \in DOMAIN run.tasks /\ run.tasks[i].state = "Running"
  <2>1. Good(run)
    BY DEF Inv
  <2>2. /\ run.tasks[i] \in TaskRun
        /\ i \in DOMAIN run.tasks /\ run.tasks[i].state = "Running"
    BY <1>1, <2>1, RunningTaskFacts
  <2>3. child \in Child
    BY <1>1, BoundsAreNaturals DEF Children, Child
  <2> QED
    BY <2>1, <2>2, <2>3
<1> DEFINE task == run.tasks[i]
<1>3. /\ child.attempt = Attempts(task) /\ task.contract \subseteq child.contract
      /\ child.used >= task.marks[child.attempt]
      /\ run' = Charged(run, i, Heeds(task, child, repository))
  <2>1. CASE IsChildOf(task, child) /\ run' = CheckpointChild(run, i, child, repository)
    BY <1>2, <2>1, CheckpointIsHeeded DEF IsChildOf
  <2>2. CASE CanReviseContract(run, i, child) /\ run' = ReviseContract(run, i, child, repository)
    <3> DEFINE revised == [task EXCEPT !.contract = child.contract]
    <3>1. revised.marks = task.marks
      BY <1>2 DEF TaskRun
    <3>2. IsChildOf(revised, child) /\ task.contract \subseteq child.contract
      BY <2>2 DEF CanReviseContract
    <3> HIDE DEF revised
    <3>3. child.attempt = Attempts(task) /\ child.used >= task.marks[child.attempt]
      BY <3>1, <3>2 DEF IsChildOf, Attempts
    <3> QED
      BY <1>2, <2>2, <3>2, <3>3, RevisionIsHeeded
  <2> QED
    BY <1>1, <2>1, <2>2
<1>4. Inv'
  BY <1>1, <1>3, HeardKeepsInv
<1>5. /\ DOMAIN run'.tasks = DOMAIN run.tasks
      /\ \A j \in DOMAIN run.tasks \ {i} : run'.tasks[j] = run.tasks[j]
  BY <1>2, <1>3, HeedingKeepsGood
<1>6. Carries(run, run')
  BY <1>2, <1>4, <1>5, OneTaskCarries DEF Inv, Successful
<1> QED
  BY <1>4, <1>6

LEMMA DeliveredStep ==
    ASSUME Inv, TaskDelivered
    PROVE  Inv' /\ Carries(run, run')
<1>1. Inv'
  BY DeliveryExtendsTheChain
<1>2. PICK i \in RunningTask(run), commit \in Commits \cup {None}, repository \in Repositories :
          /\ CanDeliver(run, i, commit, repository)
          /\ run' = Deliver(run, i, commit, repository)
  BY DEF TaskDelivered
<1>3. Good(run) /\ i \in DOMAIN run.tasks /\ run.tasks[i].state = "Running"
  BY RunningTaskFacts DEF Inv
<1>4. /\ DOMAIN run'.tasks = DOMAIN run.tasks
      /\ \A j \in DOMAIN run.tasks \ {i} : run'.tasks[j] = run.tasks[j]
  BY <1>2, <1>3, DeliverKeepsGood
<1>5. Carries(run, run')
  BY <1>1, <1>3, <1>4, OneTaskCarries DEF Inv, Successful
<1> QED
  BY <1>1, <1>5

LEMMA StoppedStep ==
    ASSUME Inv, TaskStopped
    PROVE  Inv' /\ Carries(run, run')
<1>1. PICK i \in RunningTask(run) : run' \in {StopBlocked(run, i), StopFailed(run, i)}
  BY DEF TaskStopped
<1>2. /\ Good(run) /\ i \in DOMAIN run.tasks /\ run.tasks[i].state = "Running"
      /\ UNCHANGED history
  BY RunningTaskFacts DEF Inv, TaskStopped
<1>3. /\ Good(run') /\ run'.expected = run.expected /\ run'.counters = run.counters
      /\ DOMAIN run'.tasks = DOMAIN run.tasks
      /\ \A j \in DOMAIN run.tasks \ {i} : run'.tasks[j] = run.tasks[j]
      /\ run'.tasks[i].marks = run.tasks[i].marks
  BY <1>1, <1>2, StopKeepsGood
<1>4. Carries(run, run') /\ CarriesMarks(run, run')
  BY <1>2, <1>3, OneTaskCarries DEF Successful
<1> QED
  BY <1>2, <1>3, <1>4, HistoryStays

LEMMA EvaluationStep ==
    ASSUME Inv, EvaluationCompleted
    PROVE  Inv' /\ Carries(run, run')
<1>1. /\ run.stage = "Evaluating" /\ run' \in ActivateNext(run) /\ UNCHANGED history
      /\ Good(run)
  BY DEF Inv, EvaluationCompleted, CanEvaluate
<1>2. /\ Good(run') /\ run'.expected = run.expected /\ run'.counters = run.counters
      /\ \/ run'.tasks = run.tasks
         \/ \E i \in DOMAIN run.tasks :
                /\ DOMAIN run'.tasks = DOMAIN run.tasks
                /\ \A j \in DOMAIN run.tasks \ {i} : run'.tasks[j] = run.tasks[j]
                /\ run'.tasks[i].marks = Append(run.tasks[i].marks, 0)
                /\ run.tasks[i].state = "Queued" /\ run'.tasks[i].state = "Running"
  BY <1>1, ActivateNextKeepsGood
<1>3. Carries(run, run') /\ CarriesMarks(run, run')
  <2>1. CASE run'.tasks = run.tasks
    BY <1>2, <2>1, TasksAlikeCarry
  <2>2. CASE run'.tasks # run.tasks
    BY <1>1, <1>2, <2>2, AttemptCarries DEF Successful
  <2> QED
    BY <2>1, <2>2
<1> QED
  BY <1>1, <1>2, <1>3, HistoryStays

LEMMA RevisedStep ==
    ASSUME Inv, PendingTasksRevised
    PROVE  Inv' /\ Carries(run, run')
<1>1. PICK plan \in TaskPlans, approved \in BOOLEAN, repository \in Repositories :
          CanRevise(run, plan, approved, repository) /\ run' \in Revise(run, plan)
  BY DEF PendingTasksRevised
<1>2. Good(run) /\ UNCHANGED history
  BY DEF Inv, PendingTasksRevised
<1>3. /\ Good(run') /\ run'.expected = run.expected /\ run'.counters = run.counters
      /\ DOMAIN run.tasks \subseteq DOMAIN run'.tasks
      /\ \A i \in DOMAIN run.tasks :
             /\ run'.tasks[i].marks = run.tasks[i].marks
             /\ run.tasks[i].state \in Successful => run'.tasks[i] = run.tasks[i]
      /\ \A i \in DOMAIN run'.tasks \ DOMAIN run.tasks : run'.tasks[i].marks = <<>>
  BY <1>1, <1>2, ReviseKeepsGood
<1>4. Carries(run, run') /\ CarriesMarks(run, run')
  BY <1>3 DEF Carries, CarriesMarks
<1> QED
  BY <1>2, <1>3, <1>4, HistoryStays

LEMMA PausedStep ==
    ASSUME Inv, PauseRequested
    PROVE  Inv' /\ Carries(run, run')
<1>1. Good(run) /\ CanPause(run) /\ run' = Pause(run) /\ UNCHANGED history
  BY DEF Inv, PauseRequested
<1>2. /\ Good(run') /\ run'.expected = run.expected /\ run'.counters = run.counters
      /\ run'.tasks = run.tasks
  BY <1>1, PauseKeepsGood
<1>3. Carries(run, run') /\ CarriesMarks(run, run')
  BY <1>2, TasksAlikeCarry
<1> QED
  BY <1>1, <1>2, <1>3, HistoryStays

LEMMA ResumedStep ==
    ASSUME Inv, ResumeRequested
    PROVE  Inv' /\ Carries(run, run')
<1>1. PICK i \in Named(run, run.active) : run' = Resume(run, i)
  BY DEF ResumeRequested
<1>2. /\ Good(run) /\ run.stage \in {"Paused", "Blocked"} /\ UNCHANGED history
      /\ i \in DOMAIN run.tasks
  BY DEF Inv, ResumeRequested, CanResume, Named, CurrentTasks
<1>3. /\ Good(run') /\ run'.expected = run.expected /\ run'.counters = run.counters
      /\ DOMAIN run'.tasks = DOMAIN run.tasks
      /\ \A j \in DOMAIN run.tasks \ {i} : run'.tasks[j] = run.tasks[j]
      /\ run'.tasks[i].marks = run.tasks[i].marks
      /\ run.tasks[i].state \in {"Running", "Blocked"}
  BY <1>1, <1>2, ResumeKeepsGood
<1>4. Carries(run, run') /\ CarriesMarks(run, run')
  BY <1>2, <1>3, OneTaskCarries DEF Successful
<1> QED
  BY <1>2, <1>3, <1>4, HistoryStays

LEMMA RetriedStep ==
    ASSUME Inv, RetryBlockedTask
    PROVE  Inv' /\ Carries(run, run')
<1>1. PICK repository \in Repositories, i \in Named(run, run.active) :
          CanRetry(run, repository) /\ run' = Activated(run, i, repository)
  BY DEF RetryBlockedTask
<1>2. Good(run) /\ run.stage = "Blocked" /\ UNCHANGED history
  BY <1>1 DEF Inv, RetryBlockedTask, CanRetry
<1>3. MayMove(run, i) /\ i \in DOMAIN run.tasks /\ run.tasks[i].state = "Blocked"
  <2>1. MayMove(run, i) /\ i \in DOMAIN run.tasks
    BY <1>2, ActiveTaskMayMove DEF Named, CurrentTasks
  <2>2. run.tasks[i].state = "Blocked"
    BY <1>2, ActiveTask
  <2> QED
    BY <2>1, <2>2
<1>4. /\ Good(run') /\ run'.expected = run.expected /\ run'.counters = run.counters
      /\ DOMAIN run'.tasks = DOMAIN run.tasks
      /\ \A j \in DOMAIN run.tasks \ {i} : run'.tasks[j] = run.tasks[j]
      /\ run'.tasks[i].marks = Append(run.tasks[i].marks, 0)
  BY <1>1, <1>2, <1>3, ActivatedKeepsGood
<1>5. Carries(run, run') /\ CarriesMarks(run, run')
  BY <1>2, <1>3, <1>4, AttemptCarries DEF Successful
<1> QED
  BY <1>2, <1>4, <1>5, HistoryStays

LEMMA CancelledStep ==
    ASSUME Inv, Cancelled
    PROVE  Inv' /\ Carries(run, run')
<1>1. Good(run) /\ CanCancel(run) /\ run' = Cancel(run) /\ UNCHANGED history
  BY DEF Inv, Cancelled
<1>2. /\ Good(run') /\ run'.expected = run.expected /\ run'.counters = run.counters
      /\ DOMAIN run'.tasks = DOMAIN run.tasks
      /\ \A j \in DOMAIN run.tasks :
             /\ run'.tasks[j].marks = run.tasks[j].marks
             /\ run.tasks[j].state \in Successful => run'.tasks[j] = run.tasks[j]
  BY <1>1, CancelKeepsGood
<1>3. Carries(run, run') /\ CarriesMarks(run, run')
  BY <1>2 DEF Carries, CarriesMarks
<1> QED
  BY <1>1, <1>2, <1>3, HistoryStays

LEMMA NextStep ==
    ASSUME Inv, Next
    PROVE  Inv' /\ Carries(run, run')
  BY CoordinationStep, DirectUsageStep, ChildStep, DeliveredStep, StoppedStep,
     EvaluationStep, RevisedStep, PausedStep, ResumedStep, RetriedStep, CancelledStep
  DEF Next

LEMMA StutteringKeepsInv == Inv /\ UNCHANGED vars => Inv'
<1> SUFFICES ASSUME Inv, UNCHANGED vars PROVE Inv'
  OBVIOUS
<1>1. run' = run /\ history' = history
  BY DEF vars
<1>2. Carries(run, run') /\ CarriesMarks(run, run')
  BY <1>1, TasksAlikeCarry DEF Inv
<1> QED
  BY <1>1, <1>2, HistoryStays

-----------------------------------------------------------------------------
(* Theorems *)

\* Whatever the plan, the budgets and the order of the events: the run keeps its
\* validity, its chain, its accounts and what was delivered.
THEOREM InvariantHolds == Spec => []Inv
<1>1. Init => Inv
  BY InitIsGood
<1>2. Inv /\ [Next]_vars => Inv'
  BY NextStep, StutteringKeepsInv
<1> QED
  BY <1>1, <1>2, PTL DEF Spec

\* The run and what is remembered of it keep their shape (engine.rs:231).
THEOREM QueueIsTyped == Spec => []TypeOK
<1>1. Inv => TypeOK
  BY DEF Inv
<1> QED
  BY <1>1, InvariantHolds, PTL

\* No order of events leads to a run that its own validation would refuse, so a
\* session that was stored can be loaded (engine.rs:913).
THEOREM QueueStaysValid == Spec => []QueueIsAlwaysValid
<1>1. Inv => QueueIsAlwaysValid
  BY DEF Inv, Good, QueueIsAlwaysValid
<1> QED
  BY <1>1, InvariantHolds, PTL

\* Every delivery began with what the one before it left, and the next Task is
\* given what the last one left (engine.rs:1431, 756).
THEOREM DeliveriesAreChained == Spec => []DeliveriesFormAChain
<1>1. Inv => DeliveriesFormAChain
  BY DEF Inv
<1> QED
  BY <1>1, InvariantHolds, PTL

\* No usage is charged twice and none is lost, over checkpoints that are repeated,
\* retries and revisions (docs/multi-task-workflow-plan.md:572).
THEOREM QueueCountsUsageOnce == Spec => []UsageIsCountedOnce
<1>1. Inv => UsageIsCountedOnce
  BY DEF Inv
<1> QED
  BY <1>1, InvariantHolds, PTL

\* A run that is Ready delivered every Task of the plan it has, each with the
\* criteria that were accepted for it (engine.rs:2011).
THEOREM ReadyRunMetItsPlan == Spec => []ReadyMeetsItsPlan
<1>1. ASSUME Inv PROVE ReadyMeetsItsPlan
  <2>1. /\ run \in MultiTaskRun /\ TasksMatchPlan(run) /\ ValidStage(run)
        /\ \A i \in DOMAIN run.tasks : ValidTask(run, run.tasks[i]) /\ IsKept(run, run.tasks[i])
    BY <1>1 DEF Inv, Good, Valid
  <2>2. ASSUME run.stage = "Ready", NEW k \in DOMAIN run.plan
        PROVE  \E i \in Named(run, run.plan[k].id) :
                   /\ run.tasks[i].spec = run.plan[k]
                   /\ run.tasks[i].state \in Successful
                   /\ run.plan[k].contract \subseteq run.tasks[i].child.contract
    <3>1. EveryTaskIsDelivered(run)
      BY <2>1, <2>2 DEF ValidStage
    <3>2. PICK i \in CurrentTasks(run) :
              /\ Named(run, run.plan[k].id) = {i} /\ run.tasks[i].spec = run.plan[k]
              /\ run.tasks[i].state \in Successful
      BY <2>1, <3>1, TaskOfSpec DEF EveryTaskIsDelivered
    <3>3. i \in DOMAIN run.tasks /\ i \in Named(run, run.plan[k].id)
      BY <3>2 DEF CurrentTasks
    <3>4. ChildIsBound(run.tasks[i]) /\ IsKept(run, run.tasks[i])
      BY <2>1, <3>3 DEF ValidTask
    <3>5. run.plan[k].contract \subseteq run.tasks[i].child.contract
      BY <3>2, <3>4 DEF ChildIsBound, IsKept
    <3> QED
      BY <3>2, <3>3, <3>5
  <2> QED
    BY <2>2 DEF ReadyMeetsItsPlan
<1> QED
  BY <1>1, InvariantHolds, PTL

\* No event touches a Task that was delivered (docs/multi-task-workflow-plan.md:576).
THEOREM DeliveredTasksStay == Spec => CompletedTasksStay
<1>1. ASSUME Inv, [Next]_vars
      PROVE  [\A i \in DOMAIN run.tasks :
                 run.tasks[i].state \in Successful =>
                     i \in DOMAIN run'.tasks /\ run'.tasks[i] = run.tasks[i]]_vars
  <2>1. CASE Next
    BY <1>1, <2>1, NextStep DEF Carries
  <2>2. CASE UNCHANGED vars
    BY <2>2
  <2> QED
    BY <1>1, <2>1, <2>2
<1> QED
  BY <1>1, InvariantHolds, PTL DEF Spec, CompletedTasksStay
=============================================================================
