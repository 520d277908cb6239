---------------------------- MODULE SumTheorems ----------------------------
(***************************************************************************)
(* Facts about SumFunction for functions on any finite set.                *)
(*                                                                         *)
(* Induction needs no operator as a parameter here: the subsets of a       *)
(* finite set are well founded, and the ones for which a fact fails are a  *)
(* set, which has a least element if it is not empty.                      *)
(***************************************************************************)
EXTENDS Integers, Functions, FiniteSetTheorems, TLAPS

-----------------------------------------------------------------------------
(* The fold is well defined *)

\* The element the fold takes next, the equation of the function it builds on
\* the subsets of S, and that function
Pick(s) == CHOOSE x \in s : TRUE

Solves(f, S, g) ==
    g = [s \in SUBSET S |-> IF s = {} THEN 0 ELSE f[Pick(s)] + g[s \ {Pick(s)}]]

Partial(f, S) == CHOOSE g : Solves(f, S, g)

\* What SumFunctionOnSet says.
LEMMA SumIsPartial ==
    ASSUME NEW f, NEW S
    PROVE  SumFunctionOnSet(f, S) = Partial(f, S)[S]
BY DEF SumFunctionOnSet, FoldFunctionOnSet, MapThenFoldSet, Partial, Solves, Pick

\* Induction over the subsets of a finite set.
LEMMA SubsetInduction ==
    ASSUME NEW S, IsFiniteSet(S), NEW G \in SUBSET SUBSET S,
           ASSUME NEW T \in SUBSET S, \A U \in SUBSET T : U # T => U \in G
           PROVE  T \in G
    PROVE  \A T \in SUBSET S : T \in G
<1> DEFINE B == (SUBSET S) \ G
<1> SUFFICES ASSUME B # {} PROVE FALSE
  OBVIOUS
<1>1. B \subseteq FiniteSubsetsOf(S)
  BY FS_Subset DEF FiniteSubsetsOf
<1>2. IsWellFoundedOn(StrictSubsetOrdering(S), FiniteSubsetsOf(S))
  BY FS_StrictSubsetOrderingWellFounded
<1>3. PICK T \in B : \A U \in B : ~(<<U, T>> \in StrictSubsetOrdering(S))
  <2> HIDE DEF B
  <2> QED
    BY <1>1, <1>2, WFMin
<1>4. \A U \in SUBSET T : U # T => U \in G
  BY <1>3 DEF StrictSubsetOrdering
<1> QED
  BY <1>3, <1>4

\* The equation at one subset.
LEMMA SolvesAt ==
    ASSUME NEW f, NEW S, NEW g, Solves(f, S, g), NEW s \in SUBSET S
    PROVE  g[{}] = 0 /\ (s # {} => g[s] = f[Pick(s)] + g[s \ {Pick(s)}])
BY DEF Solves

\* The fold takes an element of the set.
LEMMA Picked ==
    ASSUME NEW s, s # {}
    PROVE  Pick(s) \in s
BY DEF Pick

\* A solution for S is one for the subsets of S.
LEMMA SolvesRestricted ==
    ASSUME NEW f, NEW S, NEW g, Solves(f, S, g), NEW T \in SUBSET S
    PROVE  Solves(f, T, [s \in SUBSET T |-> g[s]])
<1> DEFINE h == [s \in SUBSET T |-> g[s]]
<1>1. \A s \in SUBSET T : h[s] = IF s = {} THEN 0 ELSE f[Pick(s)] + h[s \ {Pick(s)}]
  <2> TAKE s \in SUBSET T
  <2>1. s \in SUBSET S /\ s \ {Pick(s)} \in SUBSET T
    OBVIOUS
  <2>2. h[s] = g[s] /\ h[s \ {Pick(s)}] = g[s \ {Pick(s)}]
    BY <2>1
  <2>3. g[{}] = 0 /\ (s # {} => g[s] = f[Pick(s)] + g[s \ {Pick(s)}])
    BY <2>1, SolvesAt
  <2> HIDE DEF h
  <2> QED
    BY <2>2, <2>3
<1> QED
  BY <1>1 DEF Solves

\* There is at most one solution, ...
LEMMA SolvedOnce ==
    ASSUME NEW f, NEW S, IsFiniteSet(S), NEW g, NEW h, Solves(f, S, g), Solves(f, S, h)
    PROVE  g = h
<1> DEFINE G == {T \in SUBSET S : g[T] = h[T]}
<1>0. \A T \in SUBSET S : T # {} => /\ g[T] = f[Pick(T)] + g[T \ {Pick(T)}]
                                    /\ h[T] = f[Pick(T)] + h[T \ {Pick(T)}]
  BY DEF Solves
<1>1. ASSUME NEW T \in SUBSET S, \A U \in SUBSET T : U # T => U \in G
      PROVE  T \in G
  <2>1. CASE T = {}
    BY <2>1, SolvesAt
  <2>2. CASE T # {}
    <3>1. T \ {Pick(T)} \in SUBSET T /\ T \ {Pick(T)} # T
      BY <2>2, Picked
    <3>2. g[T \ {Pick(T)}] = h[T \ {Pick(T)}]
      BY <1>1, <3>1
    <3> QED
      BY <1>0, <2>2, <3>2
  <2> QED
    BY <2>1, <2>2
<1>2. \A T \in SUBSET S : T \in G
  <2> HIDE DEF G
  <2>1. G \in SUBSET SUBSET S
    BY DEF G
  <2> QED
    BY <1>1, <2>1, SubsetInduction
<1>3. \A T \in SUBSET S : g[T] = h[T]
  BY <1>2
<1>4. g = [s \in SUBSET S |-> g[s]] /\ h = [s \in SUBSET S |-> h[s]]
  BY DEF Solves
<1> QED
  BY <1>3, <1>4

\* ... and there is one: it is put together from those of the smaller sets.
LEMMA SolutionExists ==
    ASSUME NEW f, NEW S, IsFiniteSet(S)
    PROVE  Solves(f, S, Partial(f, S))
<1> DEFINE G == {T \in SUBSET S : Solves(f, T, Partial(f, T))}
<1>1. ASSUME NEW T \in SUBSET S, \A U \in SUBSET T : U # T => U \in G
      PROVE  T \in G
  <2> DEFINE h == [s \in SUBSET T |->
                      IF s # T THEN Partial(f, s)[s]
                      ELSE IF T = {} THEN 0
                      ELSE f[Pick(T)] + Partial(f, T \ {Pick(T)})[T \ {Pick(T)}]]
  <2>1. ASSUME NEW s \in SUBSET T
        PROVE  h[s] = IF s = {} THEN 0 ELSE f[Pick(s)] + h[s \ {Pick(s)}]
    <3> DEFINE u == s \ {Pick(s)}
    <3>1. CASE s = T /\ s = {}
      BY <3>1
    <3>2. CASE s = T /\ s # {}
      <4>1. u \in SUBSET T /\ u # T
        BY <3>2, Picked
      <4>2. h[u] = Partial(f, u)[u]
        BY <4>1
      <4>3. h[s] = f[Pick(s)] + Partial(f, u)[u]
        BY <3>2
      <4> QED
        BY <3>2, <4>2, <4>3
    <3>3. CASE s # T
      <4>1. Solves(f, s, Partial(f, s)) /\ h[s] = Partial(f, s)[s]
        BY <1>1, <3>3
      <4>2. CASE s = {}
        BY <4>1, <4>2, SolvesAt
      <4>3. CASE s # {}
        <5>1. u \in SUBSET s /\ u \in SUBSET T /\ u # T /\ IsFiniteSet(u)
          BY <3>3, <4>3, Picked, FS_Subset
        <5>2. Solves(f, u, Partial(f, u)) /\ h[u] = Partial(f, u)[u]
          BY <1>1, <5>1
        <5>3. Solves(f, u, [v \in SUBSET u |-> Partial(f, s)[v]])
          BY <4>1, <5>1, SolvesRestricted
        <5>4. Partial(f, u) = [v \in SUBSET u |-> Partial(f, s)[v]]
          BY <5>1, <5>2, <5>3, SolvedOnce
        <5>5. Partial(f, u)[u] = Partial(f, s)[u]
          BY <5>4
        <5>6. Partial(f, s)[s] = f[Pick(s)] + Partial(f, s)[u]
          BY <4>1, <4>3, SolvesAt
        <5> HIDE DEF h
        <5> QED
          BY <4>1, <4>3, <5>2, <5>5, <5>6
      <4> QED
        BY <4>2, <4>3
    <3> QED
      BY <3>1, <3>2, <3>3
  <2>2. Solves(f, T, h)
    BY <2>1 DEF Solves
  <2> QED
    BY <2>2 DEF Partial
<1>2. \A T \in SUBSET S : T \in G
  <2> HIDE DEF G
  <2>1. G \in SUBSET SUBSET S
    BY DEF G
  <2> QED
    BY <1>1, <2>1, SubsetInduction
<1> QED
  BY <1>2

\* The empty sum.
LEMMA SumEmpty == \A f : SumFunctionOnSet(f, {}) = 0
BY SumIsPartial, SolutionExists, SolvesAt, FS_EmptySet

\* How a sum over a set is made of the sums over smaller sets.
LEMMA SumStep ==
    ASSUME NEW f, NEW S, IsFiniteSet(S)
    PROVE  S # {} => /\ Pick(S) \in S /\ IsFiniteSet(S \ {Pick(S)})
                     /\ SumFunctionOnSet(f, S) = f[Pick(S)] + SumFunctionOnSet(f, S \ {Pick(S)})
<1>1. ASSUME S # {}
      PROVE  /\ Pick(S) \in S /\ IsFiniteSet(S \ {Pick(S)})
             /\ SumFunctionOnSet(f, S) = f[Pick(S)] + SumFunctionOnSet(f, S \ {Pick(S)})
  <2> DEFINE u == S \ {Pick(S)}
  <2>1. Pick(S) \in S /\ IsFiniteSet(u) /\ u \in SUBSET S
    BY <1>1, Picked, FS_Subset
  <2>2. Solves(f, S, Partial(f, S)) /\ Solves(f, u, Partial(f, u))
    BY <2>1, SolutionExists
  <2>3. Solves(f, u, [v \in SUBSET u |-> Partial(f, S)[v]])
    BY <2>1, <2>2, SolvesRestricted
  <2>4. Partial(f, u) = [v \in SUBSET u |-> Partial(f, S)[v]]
    BY <2>1, <2>2, <2>3, SolvedOnce
  <2>5. Partial(f, u)[u] = Partial(f, S)[u]
    BY <2>4
  <2>6. Partial(f, S)[S] = f[Pick(S)] + Partial(f, S)[u]
    BY <1>1, <2>2, SolvesAt
  <2> QED
    BY <2>1, <2>5, <2>6, SumIsPartial
<1> QED
  BY <1>1

-----------------------------------------------------------------------------
(* What is known of sums *)

\* A sum of integers is an integer, one of naturals a natural.
LEMMA SumInt ==
    ASSUME NEW S, IsFiniteSet(S), NEW f, \A i \in S : f[i] \in Int
    PROVE  SumFunctionOnSet(f, S) \in Int
<1> DEFINE G == {T \in SUBSET S : SumFunctionOnSet(f, T) \in Int}
<1>1. ASSUME NEW T \in SUBSET S, \A U \in SUBSET T : U # T => U \in G
      PROVE  T \in G
  <2>1. IsFiniteSet(T)
    BY FS_Subset
  <2>2. CASE T = {}
    BY <2>2, SumEmpty
  <2>3. CASE T # {}
    <3> DEFINE u == T \ {Pick(T)}
    <3>1. Pick(T) \in T /\ SumFunctionOnSet(f, T) = f[Pick(T)] + SumFunctionOnSet(f, u)
      BY <2>1, <2>3, SumStep
    <3>2. SumFunctionOnSet(f, u) \in Int
      BY <1>1, <3>1
    <3>3. f[Pick(T)] \in Int
      BY <3>1
    <3> QED
      BY <3>1, <3>2, <3>3
  <2> QED
    BY <2>2, <2>3
<1>2. G \in SUBSET SUBSET S
  OBVIOUS
<1>3. \A T \in SUBSET S : T \in G
  <2> HIDE DEF G
  <2> QED
    BY <1>1, <1>2, SubsetInduction
<1> QED
  BY <1>3

\* The sum of two functions.
LEMMA SumAdd ==
    ASSUME NEW S, IsFiniteSet(S), NEW f, NEW g, NEW h,
           \A i \in S : f[i] \in Int /\ g[i] \in Int /\ h[i] = f[i] + g[i]
    PROVE  SumFunctionOnSet(h, S) = SumFunctionOnSet(f, S) + SumFunctionOnSet(g, S)
<1> DEFINE G == {T \in SUBSET S :
                   SumFunctionOnSet(h, T) = SumFunctionOnSet(f, T) + SumFunctionOnSet(g, T)}
<1>1. ASSUME NEW T \in SUBSET S, \A U \in SUBSET T : U # T => U \in G
      PROVE  T \in G
  <2>1. IsFiniteSet(T)
    BY FS_Subset
  <2>2. CASE T = {}
    BY <2>2, SumEmpty
  <2>3. CASE T # {}
    <3> DEFINE u == T \ {Pick(T)}
    <3>1. /\ Pick(T) \in T /\ IsFiniteSet(u)
          /\ SumFunctionOnSet(f, T) = f[Pick(T)] + SumFunctionOnSet(f, u)
      BY <2>1, <2>3, SumStep
    <3>2. /\ SumFunctionOnSet(g, T) = g[Pick(T)] + SumFunctionOnSet(g, u)
          /\ SumFunctionOnSet(h, T) = h[Pick(T)] + SumFunctionOnSet(h, u)
      BY <2>1, <2>3, SumStep
    <3>3. SumFunctionOnSet(h, u) = SumFunctionOnSet(f, u) + SumFunctionOnSet(g, u)
      BY <1>1, <3>1
    <3>4. h[Pick(T)] = f[Pick(T)] + g[Pick(T)] /\ f[Pick(T)] \in Int /\ g[Pick(T)] \in Int
      BY <3>1
    <3>5. SumFunctionOnSet(f, u) \in Int /\ SumFunctionOnSet(g, u) \in Int
      <4>1. \A i \in u : f[i] \in Int /\ g[i] \in Int
        OBVIOUS
      <4> QED
        BY <3>1, <4>1, SumInt
    <3> HIDE DEF u
    <3>6. SumFunctionOnSet(h, T) = SumFunctionOnSet(f, T) + SumFunctionOnSet(g, T)
      BY <3>1, <3>2, <3>3, <3>4, <3>5
    <3> QED
      BY <3>6
  <2> QED
    BY <2>2, <2>3
<1>2. G \in SUBSET SUBSET S
  OBVIOUS
<1>3. \A T \in SUBSET S : T \in G
  <2> HIDE DEF G
  <2> QED
    BY <1>1, <1>2, SubsetInduction
<1> QED
  BY <1>3

\* A function that is 0 but for one argument.
LEMMA SumPoint ==
    ASSUME NEW S, IsFiniteSet(S), NEW a, NEW f, a \in S => f[a] \in Int,
           \A i \in S \ {a} : f[i] = 0
    PROVE  SumFunctionOnSet(f, S) = IF a \in S THEN f[a] ELSE 0
<1> DEFINE G == {T \in SUBSET S : SumFunctionOnSet(f, T) = IF a \in T THEN f[a] ELSE 0}
<1>1. ASSUME NEW T \in SUBSET S, \A U \in SUBSET T : U # T => U \in G
      PROVE  T \in G
  <2>1. IsFiniteSet(T)
    BY FS_Subset
  <2>2. CASE T = {}
    BY <2>2, SumEmpty
  <2>3. CASE T # {}
    <3> DEFINE u == T \ {Pick(T)}
    <3>1. Pick(T) \in T /\ SumFunctionOnSet(f, T) = f[Pick(T)] + SumFunctionOnSet(f, u)
      BY <2>1, <2>3, SumStep
    <3>2. SumFunctionOnSet(f, u) = IF a \in u THEN f[a] ELSE 0
      BY <1>1, <3>1
    <3>3. CASE Pick(T) = a
      BY <3>1, <3>2, <3>3
    <3>4. CASE Pick(T) # a
      <4>1. f[Pick(T)] = 0 /\ (a \in u <=> a \in T)
        BY <3>1, <3>4
      <4> QED
        BY <3>1, <3>2, <4>1
    <3> QED
      BY <3>3, <3>4
  <2> QED
    BY <2>2, <2>3
<1>2. G \in SUBSET SUBSET S
  OBVIOUS
<1>3. \A T \in SUBSET S : T \in G
  <2> HIDE DEF G
  <2> QED
    BY <1>1, <1>2, SubsetInduction
<1> QED
  BY <1>3

\* A sum of naturals is at least each of its summands.
LEMMA SumNat ==
    ASSUME NEW S, IsFiniteSet(S), NEW f, \A i \in S : f[i] \in Nat
    PROVE  /\ SumFunctionOnSet(f, S) \in Nat
           /\ \A i \in S : f[i] <= SumFunctionOnSet(f, S)
<1> DEFINE G == {T \in SUBSET S : /\ SumFunctionOnSet(f, T) \in Nat
                                  /\ \A i \in T : f[i] <= SumFunctionOnSet(f, T)}
<1>1. ASSUME NEW T \in SUBSET S, \A U \in SUBSET T : U # T => U \in G
      PROVE  T \in G
  <2>1. IsFiniteSet(T)
    BY FS_Subset
  <2>2. CASE T = {}
    BY <2>2, SumEmpty
  <2>3. CASE T # {}
    <3> DEFINE u == T \ {Pick(T)}
    <3>1. Pick(T) \in T /\ SumFunctionOnSet(f, T) = f[Pick(T)] + SumFunctionOnSet(f, u)
      BY <2>1, <2>3, SumStep
    <3>2. SumFunctionOnSet(f, u) \in Nat /\ \A i \in u : f[i] <= SumFunctionOnSet(f, u)
      BY <1>1, <3>1
    <3>3. \A i \in T : i = Pick(T) \/ i \in u
      OBVIOUS
    <3>4. \A i \in T : f[i] \in Nat
      OBVIOUS
    <3> HIDE DEF u
    <3>5. SumFunctionOnSet(f, T) \in Nat /\ \A i \in T : f[i] <= SumFunctionOnSet(f, T)
      BY <3>1, <3>2, <3>3, <3>4
    <3> QED
      BY <3>5
  <2> QED
    BY <2>2, <2>3
<1>2. G \in SUBSET SUBSET S
  OBVIOUS
<1>3. \A T \in SUBSET S : T \in G
  <2> HIDE DEF G
  <2> QED
    BY <1>1, <1>2, SubsetInduction
<1> QED
  BY <1>3

-----------------------------------------------------------------------------
(* The same for SumFunction *)

\* The sum of a function of integers is an integer, ...
LEMMA SumFunctionInt ==
    ASSUME NEW S, IsFiniteSet(S), NEW f \in [S -> Int]
    PROVE  SumFunction(f) \in Int
BY SumInt DEF SumFunction

\* ... of natural numbers a natural number that bounds each of them.
LEMMA SumFunctionNat ==
    ASSUME NEW S, IsFiniteSet(S), NEW f \in [S -> Nat]
    PROVE  SumFunction(f) \in Nat /\ \A i \in S : f[i] <= SumFunction(f)
BY SumNat DEF SumFunction

\* The sum of a sum of two functions.
LEMMA SumFunctionAdd ==
    ASSUME NEW S, IsFiniteSet(S), NEW f \in [S -> Int], NEW g \in [S -> Int], NEW h \in [S -> Int],
           \A i \in S : h[i] = f[i] + g[i]
    PROVE  SumFunction(h) = SumFunction(f) + SumFunction(g)
BY SumAdd DEF SumFunction

\* Nothing but zeros.
LEMMA SumFunctionZero ==
    ASSUME NEW S, IsFiniteSet(S), NEW f, DOMAIN f = S, \A i \in S : f[i] = 0
    PROVE  SumFunction(f) = 0
<1>1. ({} \in S => f[{}] \in Int) /\ \A i \in S \ {{}} : f[i] = 0
  OBVIOUS
<1>2. SumFunctionOnSet(f, S) = IF {} \in S THEN f[{}] ELSE 0
  BY <1>1, SumPoint
<1> QED
  BY <1>2 DEF SumFunction

\* One value changes.
LEMMA SumFunctionUpdate ==
    ASSUME NEW S, IsFiniteSet(S), NEW f \in [S -> Int], NEW h \in [S -> Int], NEW a \in S,
           \A i \in S \ {a} : h[i] = f[i]
    PROVE  SumFunction(h) = SumFunction(f) + (h[a] - f[a])
<1> DEFINE g == [i \in S |-> IF i = a THEN h[a] - f[a] ELSE 0]
<1>1. g \in [S -> Int] /\ g[a] = h[a] - f[a] /\ \A i \in S \ {a} : g[i] = 0
  OBVIOUS
<1>2. \A i \in S : h[i] = f[i] + g[i]
  BY <1>1
<1> HIDE DEF g
<1>3. SumFunctionOnSet(h, S) = SumFunctionOnSet(f, S) + SumFunctionOnSet(g, S)
  <2>1. \A i \in S : f[i] \in Int /\ g[i] \in Int /\ h[i] = f[i] + g[i]
    BY <1>1, <1>2
  <2> QED
    BY <2>1, SumAdd
<1>4. SumFunctionOnSet(g, S) = g[a]
  <2>1. g[a] \in Int
    BY <1>1
  <2> QED
    BY <1>1, <2>1, SumPoint
<1>5. DOMAIN g = S
  BY <1>1
<1> QED
  BY <1>1, <1>3, <1>4, <1>5 DEF SumFunction

\* A sum of larger values is larger.
LEMMA SumFunctionMonotone ==
    ASSUME NEW S, IsFiniteSet(S), NEW f \in [S -> Nat], NEW h \in [S -> Nat],
           \A i \in S : f[i] <= h[i]
    PROVE  SumFunction(f) <= SumFunction(h)
<1> DEFINE g == [i \in S |-> h[i] - f[i]]
<1>1. g \in [S -> Nat] /\ \A i \in S : h[i] = f[i] + g[i]
  OBVIOUS
<1>2. f \in [S -> Int] /\ g \in [S -> Int] /\ h \in [S -> Int]
  BY <1>1
<1> HIDE DEF g
<1>3. SumFunction(h) = SumFunction(f) + SumFunction(g)
  BY <1>1, <1>2, SumFunctionAdd
<1>4. SumFunction(f) \in Nat /\ SumFunction(g) \in Nat
  BY <1>1, SumFunctionNat
<1> QED
  BY <1>3, <1>4
=============================================================================
