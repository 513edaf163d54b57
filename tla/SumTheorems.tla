---------------------------- MODULE SumTheorems ----------------------------
(***************************************************************************)
(* Facts about SumFunction and SumFunctionOnSet of the community module    *)
(* Functions, which the properties of this project are stated with, for    *)
(* every finite set.                                                       *)
(*                                                                         *)
(* SumFunction is a fold: a recursive function on the subsets of its       *)
(* domain that takes out one element after the other.  The facts are       *)
(* proved by a smallest counterexample: among the subsets of a finite set  *)
(* that violate a statement there is one all of whose proper subsets       *)
(* satisfy it, because strict inclusion is well-founded there.             *)
(*                                                                         *)
(* The same argument along the naturals gives CountingUp, by which the     *)
(* proofs unfold the recursive functions of the models step by step, and   *)
(* LargestMember.                                                          *)
(***************************************************************************)
EXTENDS Integers, Functions, FiniteSets, FiniteSetTheorems, WellFoundedInduction, TLAPS

\* One of the smallest members of a set of subsets.
LEMMA SmallestSubset ==
  ASSUME NEW S, IsFiniteSet(S), NEW B, B \subseteq SUBSET S, B # {}
  PROVE  \E T \in B : \A U \in B : U \subseteq T => U = T
<1> DEFINE R == StrictSubsetOrdering(S)
           F == FiniteSubsetsOf(S)
<1>1. IsWellFoundedOn(R, F)
  BY FS_StrictSubsetOrderingWellFounded
<1>2. B \subseteq F
  BY FS_FiniteSubsetsOfFinite
<1> HIDE DEF R, F
<1>3. \E T \in B : \A U \in B : ~ (<<U, T>> \in R)
  BY <1>1, <1>2, WFMin
<1> QED
  BY <1>3 DEF R, StrictSubsetOrdering

-----------------------------------------------------------------------------
(***************************************************************************)
(* The recursive function behind the fold                                  *)
(***************************************************************************)

Pick(s) == CHOOSE x \in s : TRUE

\* What the recursion makes of s, given the function g it calls.
Unfolded(f, g, s) == IF s = {} THEN 0 ELSE f[Pick(s)] + g[s \ {Pick(s)}]

Solves(g, f, S) == g = [s \in SUBSET S |-> Unfolded(f, g, s)]

LEMMA SumIsTheSolution ==
  ASSUME NEW f, NEW S
  PROVE  SumFunctionOnSet(f, S) = (CHOOSE g : Solves(g, f, S))[S]
BY DEF SumFunctionOnSet, FoldFunctionOnSet, MapThenFoldSet, Solves, Unfolded, Pick

LEMMA PickIsMember ==
  ASSUME NEW s, s # {}
  PROVE  Pick(s) \in s
BY DEF Pick

LEMMA SolutionUnfolds ==
  ASSUME NEW f, NEW g, NEW S, Solves(g, f, S), NEW s \in SUBSET S
  PROVE  g[s] = Unfolded(f, g, s)
<1>1. g = [t \in SUBSET S |-> Unfolded(f, g, t)]
  BY DEF Solves
<1> QED
  BY <1>1

\* Two solutions agree wherever both are defined.
LEMMA SolutionsAgree ==
  ASSUME NEW f, NEW g, NEW h, NEW S, NEW T, IsFiniteSet(S),
         Solves(g, f, S), Solves(h, f, T), NEW s \in SUBSET S, s \in SUBSET T
  PROVE  g[s] = h[s]
<1> DEFINE B == {t \in SUBSET S : t \in SUBSET T /\ g[t] # h[t]}
<1> SUFFICES ASSUME B # {}
             PROVE  FALSE
  OBVIOUS
<1>1. PICK t \in B : \A u \in B : u \subseteq t => u = t
  <2>1. B \subseteq SUBSET S
    OBVIOUS
  <2> HIDE DEF B
  <2> QED
    BY <2>1, SmallestSubset
<1>2. t \in SUBSET S /\ t \in SUBSET T /\ g[t] # h[t]
  BY <1>1
<1>3. g[t] = Unfolded(f, g, t) /\ h[t] = Unfolded(f, h, t)
  BY <1>2, SolutionUnfolds
<1>4. t # {}
  BY <1>2, <1>3 DEF Unfolded
<1> DEFINE u == t \ {Pick(t)}
<1>5. u \subseteq t /\ u # t
  BY <1>4, PickIsMember
<1>6. g[u] = h[u]
  BY <1>1, <1>2, <1>5
<1> QED
  BY <1>2, <1>3, <1>4, <1>6 DEF Unfolded

LEMMA SolutionExists ==
  ASSUME NEW f, NEW S, IsFiniteSet(S)
  PROVE  \E g : Solves(g, f, S)
<1> DEFINE B == {T \in SUBSET S : ~ \E g : Solves(g, f, T)}
<1> SUFFICES ASSUME B # {}
             PROVE  FALSE
  OBVIOUS
<1>1. PICK T \in B : \A U \in B : U \subseteq T => U = T
  <2>1. B \subseteq SUBSET S
    OBVIOUS
  <2> HIDE DEF B
  <2> QED
    BY <2>1, SmallestSubset
<1>2. T \subseteq S /\ ~ \E g : Solves(g, f, T)
  BY <1>1
<1> DEFINE Sol(s) == CHOOSE g : Solves(g, f, s)
           Rest(s) == s \ {Pick(s)}
<1>3. ASSUME NEW s, s \subseteq T, s # T
      PROVE  Solves(Sol(s), f, s) /\ IsFiniteSet(s)
  <2>1. s \in SUBSET S /\ s \notin B
    BY <1>1, <1>2, <1>3
  <2>2. \E g : Solves(g, f, s)
    BY <2>1
  <2>3. IsFiniteSet(s)
    BY <2>1, FS_Subset
  <2> QED
    BY <2>2, <2>3
<1> DEFINE g == [s \in SUBSET T |-> IF s = {} THEN 0 ELSE f[Pick(s)] + Sol(Rest(s))[Rest(s)]]
<1> HIDE DEF Sol
\* What g is at a proper subset is what the solution there is.
<1>4. ASSUME NEW u, u \subseteq T, u # T
      PROVE  g[u] = Sol(u)[u]
  <2>1. Solves(Sol(u), f, u) /\ IsFiniteSet(u)
    BY <1>3, <1>4
  <2>2. Sol(u)[u] = Unfolded(f, Sol(u), u)
    BY <2>1, SolutionUnfolds
  <2>3. CASE u = {}
    BY <1>4, <2>2, <2>3 DEF Unfolded
  <2>4. CASE u # {}
    <3>1. Rest(u) \subseteq u /\ Rest(u) # u
      BY <2>4, PickIsMember
    <3>2. Rest(u) \subseteq T /\ Rest(u) # T
      BY <1>4, <3>1
    <3>3. Solves(Sol(Rest(u)), f, Rest(u))
      BY <1>3, <3>2
    <3>4. Sol(u)[Rest(u)] = Sol(Rest(u))[Rest(u)]
      BY <2>1, <3>1, <3>3, SolutionsAgree
    <3> QED
      BY <1>4, <2>2, <2>4, <3>4 DEF Unfolded
  <2> QED
    BY <2>3, <2>4
<1>5. ASSUME NEW s \in SUBSET T
      PROVE  g[s] = Unfolded(f, g, s)
  <2>1. CASE s = {}
    BY <2>1 DEF Unfolded
  <2>2. CASE s # {}
    <3>1. Rest(s) \subseteq T /\ Rest(s) # T
      BY <2>2, PickIsMember
    <3>2. g[Rest(s)] = Sol(Rest(s))[Rest(s)]
      BY <1>4, <3>1
    <3> QED
      BY <2>2, <3>2 DEF Unfolded
  <2> QED
    BY <2>1, <2>2
<1>6. g = [s \in SUBSET T |-> g[s]]
  OBVIOUS
<1> HIDE DEF g
<1>7. Solves(g, f, T)
  BY <1>5, <1>6 DEF Solves
<1> QED
  BY <1>2, <1>7

\* The fold, unfolded once.
LEMMA SumUnfolds ==
  ASSUME NEW f, NEW S, IsFiniteSet(S)
  PROVE  SumFunctionOnSet(f, S) =
           IF S = {} THEN 0
           ELSE f[Pick(S)] + SumFunctionOnSet(f, S \ {Pick(S)})
<1> DEFINE g == CHOOSE x : Solves(x, f, S)
           T == S \ {Pick(S)}
           h == CHOOSE x : Solves(x, f, T)
<1>1. Solves(g, f, S)
  BY SolutionExists
<1>2. IsFiniteSet(T)
  BY FS_Subset
<1>3. Solves(h, f, T)
  BY <1>2, SolutionExists
<1>4. SumFunctionOnSet(f, S) = g[S] /\ SumFunctionOnSet(f, T) = h[T]
  BY SumIsTheSolution
<1> HIDE DEF g, h
<1>5. g[S] = Unfolded(f, g, S)
  BY <1>1, SolutionUnfolds
<1>6. g[T] = h[T]
  BY <1>1, <1>3, SolutionsAgree
<1> QED
  BY <1>4, <1>5, <1>6 DEF Unfolded

-----------------------------------------------------------------------------
(***************************************************************************)
(* Sums over finite sets                                                   *)
(***************************************************************************)

\* The empty sum.
LEMMA SumOfNone ==
  ASSUME NEW f
  PROVE  SumFunctionOnSet(f, {}) = 0
BY SumUnfolds, FS_EmptySet

\* A sum of integers is one.
LEMMA SumIsInt ==
  ASSUME NEW f, NEW S, IsFiniteSet(S), \A i \in S : f[i] \in Int
  PROVE  SumFunctionOnSet(f, S) \in Int
<1> DEFINE B == {T \in SUBSET S : SumFunctionOnSet(f, T) \notin Int}
<1> SUFFICES ASSUME B # {}
             PROVE  FALSE
  OBVIOUS
<1>1. PICK T \in B : \A U \in B : U \subseteq T => U = T
  <2>1. B \subseteq SUBSET S
    OBVIOUS
  <2> HIDE DEF B
  <2> QED
    BY <2>1, SmallestSubset
<1>2. T \subseteq S /\ SumFunctionOnSet(f, T) \notin Int /\ IsFiniteSet(T)
  BY <1>1, FS_Subset
<1> DEFINE c == Pick(T)
<1>3. T # {}
  BY <1>2, SumOfNone
<1>4. c \in T
  BY <1>3, PickIsMember
<1>5. T \ {c} \notin B
  BY <1>1, <1>4
<1>6. SumFunctionOnSet(f, T) = f[c] + SumFunctionOnSet(f, T \ {c})
  BY <1>2, <1>3, SumUnfolds
<1> HIDE DEF c
<1>7. SumFunctionOnSet(f, T \ {c}) \in Int
  BY <1>2, <1>5
<1> QED
  BY <1>2, <1>4, <1>6, <1>7

(***************************************************************************)
(* The order of the elements does not matter: any of them can be taken out *)
(* first.                                                                  *)
(***************************************************************************)
THEOREM SumTakesOut ==
  ASSUME NEW f, NEW S, IsFiniteSet(S), \A i \in S : f[i] \in Int, NEW x \in S
  PROVE  SumFunctionOnSet(f, S) = f[x] + SumFunctionOnSet(f, S \ {x})
<1> DEFINE Sum(T) == SumFunctionOnSet(f, T)
           B == {T \in SUBSET S : \E y \in T : Sum(T) # f[y] + Sum(T \ {y})}
<1>a. ASSUME NEW T \in SUBSET S
      PROVE  Sum(T) \in Int /\ IsFiniteSet(T)
  <2>1. IsFiniteSet(T) /\ \A i \in T : f[i] \in Int
    BY FS_Subset
  <2> QED
    BY <2>1, SumIsInt
<1>b. ASSUME NEW T \in SUBSET S, T # {}
      PROVE  Pick(T) \in T /\ Sum(T) = f[Pick(T)] + Sum(T \ {Pick(T)})
  BY <1>a, <1>b, SumUnfolds, PickIsMember
<1> HIDE DEF Sum
<1> SUFFICES ASSUME B # {}
             PROVE  FALSE
  <2>1. S \notin B => Sum(S) = f[x] + Sum(S \ {x})
    OBVIOUS
  <2> QED
    BY <2>1 DEF Sum
<1>1. PICK T \in B : \A U \in B : U \subseteq T => U = T
  <2>1. B \subseteq SUBSET S
    OBVIOUS
  <2> HIDE DEF B
  <2> QED
    BY <2>1, SmallestSubset
<1>2. PICK y \in T : Sum(T) # f[y] + Sum(T \ {y})
  BY <1>1
<1> DEFINE c == Pick(T)
           rest == (T \ {c}) \ {y}
<1>3. T \subseteq S /\ c \in T /\ Sum(T) = f[c] + Sum(T \ {c})
  BY <1>1, <1>2, <1>b
<1> HIDE DEF c
<1>4. c # y
  BY <1>2, <1>3
<1>5. Sum(T \ {c}) = f[y] + Sum(rest)
  <2>1. T \ {c} \in SUBSET S /\ T \ {c} \notin B /\ y \in T \ {c}
    BY <1>1, <1>2, <1>3, <1>4
  <2> QED
    BY <2>1
<1>6. Sum(T \ {y}) = f[c] + Sum(rest)
  <2>1. T \ {y} \in SUBSET S /\ T \ {y} \notin B /\ c \in T \ {y}
    BY <1>1, <1>2, <1>3, <1>4
  <2>2. (T \ {y}) \ {c} = rest
    OBVIOUS
  <2> QED
    BY <2>1, <2>2
<1>7. f[c] \in Int /\ f[y] \in Int
  BY <1>2, <1>3
<1>8. rest \in SUBSET S
  BY <1>3
<1> HIDE DEF rest
<1>9. Sum(rest) \in Int
  BY <1>8, <1>a
<1> QED
  BY <1>2, <1>3, <1>5, <1>6, <1>7, <1>9

\* Larger terms, larger sum.
THEOREM SumIsMonotone ==
  ASSUME NEW f, NEW g, NEW S, IsFiniteSet(S),
         \A i \in S : f[i] \in Int /\ g[i] \in Int /\ f[i] <= g[i]
  PROVE  SumFunctionOnSet(f, S) <= SumFunctionOnSet(g, S)
<1> DEFINE B == {T \in SUBSET S : ~ (SumFunctionOnSet(f, T) <= SumFunctionOnSet(g, T))}
<1> SUFFICES ASSUME B # {}
             PROVE  FALSE
  OBVIOUS
<1>1. PICK T \in B : \A U \in B : U \subseteq T => U = T
  <2>1. B \subseteq SUBSET S
    OBVIOUS
  <2> HIDE DEF B
  <2> QED
    BY <2>1, SmallestSubset
<1>2. T \subseteq S /\ IsFiniteSet(T) /\ ~ (SumFunctionOnSet(f, T) <= SumFunctionOnSet(g, T))
  BY <1>1, FS_Subset
<1>3. T # {}
  BY <1>2, SumOfNone
<1>4. PICK c \in T : TRUE
  BY <1>3
<1> DEFINE U == T \ {c}
<1>5. U \subseteq S /\ IsFiniteSet(U) /\ SumFunctionOnSet(f, U) <= SumFunctionOnSet(g, U)
  BY <1>1, <1>2, <1>4, FS_Subset
<1>6. /\ SumFunctionOnSet(f, T) = f[c] + SumFunctionOnSet(f, U)
      /\ SumFunctionOnSet(g, T) = g[c] + SumFunctionOnSet(g, U)
  BY <1>2, <1>4, SumTakesOut
<1> HIDE DEF U
<1>7. SumFunctionOnSet(f, U) \in Int /\ SumFunctionOnSet(g, U) \in Int
  BY <1>5, SumIsInt
<1>8. f[c] \in Int /\ g[c] \in Int /\ f[c] <= g[c]
  BY <1>2, <1>4
<1> QED
  BY <1>2, <1>5, <1>6, <1>7, <1>8

\* A sum depends on the terms only.
THEOREM SumOfSameTerms ==
  ASSUME NEW f, NEW g, NEW S, IsFiniteSet(S),
         \A i \in S : f[i] \in Int /\ f[i] = g[i]
  PROVE  SumFunctionOnSet(f, S) = SumFunctionOnSet(g, S)
<1>1. /\ SumFunctionOnSet(f, S) <= SumFunctionOnSet(g, S)
      /\ SumFunctionOnSet(g, S) <= SumFunctionOnSet(f, S)
  BY SumIsMonotone
<1>2. SumFunctionOnSet(f, S) \in Int /\ SumFunctionOnSet(g, S) \in Int
  BY SumIsInt
<1> QED
  BY <1>1, <1>2

\* The sum of naturals is one, and no less than any of its terms.
THEOREM SumOfNaturals ==
  ASSUME NEW f, NEW S, IsFiniteSet(S), \A i \in S : f[i] \in Nat
  PROVE  /\ SumFunctionOnSet(f, S) \in Nat
         /\ \A x \in S : f[x] <= SumFunctionOnSet(f, S)
<1>1. ASSUME NEW T \in SUBSET S
      PROVE  SumFunctionOnSet(f, T) \in Nat
  <2> DEFINE zero == [i \in T |-> 0]
  <2>1. IsFiniteSet(T)
    BY FS_Subset
  <2>2. SumFunctionOnSet(zero, T) = 0
    <3> DEFINE B == {U \in SUBSET T : SumFunctionOnSet(zero, U) # 0}
    <3> SUFFICES ASSUME B # {}
                 PROVE  FALSE
      OBVIOUS
    <3>1. PICK U \in B : \A V \in B : V \subseteq U => V = U
      <4>1. B \subseteq SUBSET T
        OBVIOUS
      <4> HIDE DEF B
      <4> QED
        BY <2>1, <4>1, SmallestSubset
    <3>2. U \subseteq T /\ IsFiniteSet(U) /\ SumFunctionOnSet(zero, U) # 0
      BY <2>1, <3>1, FS_Subset
    <3>3. PICK c : c \in U
      BY <3>2, SumOfNone
    <3>4. SumFunctionOnSet(zero, U \ {c}) = 0
      BY <3>1, <3>3
    <3>5. \A i \in U : zero[i] = 0
      BY <3>2
    <3> HIDE DEF zero
    <3>6. SumFunctionOnSet(zero, U) = zero[c] + SumFunctionOnSet(zero, U \ {c})
      BY <3>2, <3>3, <3>5, SumTakesOut
    <3> QED
      BY <3>2, <3>3, <3>4, <3>5, <3>6
  <2>3. \A i \in T : zero[i] \in Int /\ f[i] \in Int /\ zero[i] <= f[i]
    OBVIOUS
  <2> HIDE DEF zero
  <2>4. SumFunctionOnSet(zero, T) <= SumFunctionOnSet(f, T)
    BY <2>1, <2>3, SumIsMonotone
  <2>5. SumFunctionOnSet(f, T) \in Int
    BY <2>1, <2>3, SumIsInt
  <2> QED
    BY <2>2, <2>4, <2>5
<1>2. ASSUME NEW x \in S
      PROVE  f[x] <= SumFunctionOnSet(f, S)
  <2>1. SumFunctionOnSet(f, S) = f[x] + SumFunctionOnSet(f, S \ {x})
    BY SumTakesOut
  <2>2. SumFunctionOnSet(f, S \ {x}) \in Nat /\ f[x] \in Nat
    BY <1>1
  <2> QED
    BY <2>1, <2>2
<1> QED
  BY <1>1, <1>2

\* Changing one term changes the sum by the difference.
THEOREM SumOfUpdate ==
  ASSUME NEW f, NEW g, NEW S, IsFiniteSet(S), NEW x \in S,
         \A i \in S : f[i] \in Int /\ g[i] \in Int,
         \A i \in S \ {x} : g[i] = f[i]
  PROVE  SumFunctionOnSet(g, S) = SumFunctionOnSet(f, S) - f[x] + g[x]
<1> DEFINE T == S \ {x}
<1>1. IsFiniteSet(T)
  BY FS_Subset
<1>2. /\ SumFunctionOnSet(f, S) = f[x] + SumFunctionOnSet(f, T)
      /\ SumFunctionOnSet(g, S) = g[x] + SumFunctionOnSet(g, T)
  BY SumTakesOut
<1>3. \A i \in T : f[i] \in Int /\ f[i] = g[i]
  OBVIOUS
<1> HIDE DEF T
<1>4. SumFunctionOnSet(f, T) = SumFunctionOnSet(g, T) /\ SumFunctionOnSet(f, T) \in Int
  BY <1>1, <1>3, SumOfSameTerms, SumIsInt
<1> QED
  BY <1>2, <1>4

\* A new index adds its term.
THEOREM SumOfExtension ==
  ASSUME NEW f, NEW g, NEW S, IsFiniteSet(S), NEW x, x \notin S,
         \A i \in S : f[i] \in Int /\ g[i] = f[i], g[x] \in Int
  PROVE  SumFunctionOnSet(g, S \cup {x}) = SumFunctionOnSet(f, S) + g[x]
<1> DEFINE T == S \cup {x}
<1>1. IsFiniteSet(T) /\ x \in T /\ T \ {x} = S /\ \A i \in T : g[i] \in Int
  BY FS_AddElement
<1> HIDE DEF T
<1>2. SumFunctionOnSet(g, T) = g[x] + SumFunctionOnSet(g, S)
  BY <1>1, SumTakesOut
<1>3. SumFunctionOnSet(f, S) = SumFunctionOnSet(g, S) /\ SumFunctionOnSet(f, S) \in Int
  BY SumOfSameTerms, SumIsInt
<1> QED
  BY <1>2, <1>3 DEF T

\* The sum of zeros is zero.
THEOREM SumOfZeros ==
  ASSUME NEW f, NEW S, IsFiniteSet(S), \A i \in S : f[i] = 0
  PROVE  SumFunctionOnSet(f, S) = 0
<1> DEFINE B == {T \in SUBSET S : SumFunctionOnSet(f, T) # 0}
<1> SUFFICES ASSUME B # {}
             PROVE  FALSE
  OBVIOUS
<1>1. PICK T \in B : \A U \in B : U \subseteq T => U = T
  <2>1. B \subseteq SUBSET S
    OBVIOUS
  <2> HIDE DEF B
  <2> QED
    BY <2>1, SmallestSubset
<1>2. T \in SUBSET S /\ IsFiniteSet(T)
  BY <1>1, FS_Subset
<1>3. T # {}
  BY <1>1, SumOfNone
<1>4. PICK x : x \in T
  BY <1>3
<1>5. SumFunctionOnSet(f, T \ {x}) = 0
  BY <1>1, <1>2, <1>4
<1>6. SumFunctionOnSet(f, T) = f[x] + SumFunctionOnSet(f, T \ {x})
  <2>1. \A i \in T : f[i] \in Int
    BY <1>2
  <2> QED
    BY <1>2, <1>4, <2>1, SumTakesOut
<1> QED
  BY <1>1, <1>2, <1>4, <1>5, <1>6

\* A range of integers, as a finite set.
LEMMA RangeIsFinite ==
  ASSUME NEW a \in Int, NEW b \in Int
  PROVE  IsFiniteSet(a .. b)
BY FS_Interval

\* The sum over one index.
LEMMA SumOfOne ==
  ASSUME NEW f, NEW x, f[x] \in Int
  PROVE  SumFunctionOnSet(f, {x}) = f[x]
<1>1. IsFiniteSet({x}) /\ {x} \ {x} = {}
  BY FS_Singleton
<1>2. SumFunctionOnSet(f, {x}) = f[x] + SumFunctionOnSet(f, {x} \ {x})
  BY <1>1, SumTakesOut
<1> QED
  BY <1>1, <1>2, SumOfNone

\* A sum over two disjoint sets is the sum of the two sums.
THEOREM SumOfUnion ==
  ASSUME NEW f, NEW S, NEW T, IsFiniteSet(S), IsFiniteSet(T), S \cap T = {},
         \A i \in S \cup T : f[i] \in Int
  PROVE  SumFunctionOnSet(f, S \cup T) = SumFunctionOnSet(f, S) + SumFunctionOnSet(f, T)
<1> DEFINE Sum(U) == SumFunctionOnSet(f, U)
           B == {U \in SUBSET T : Sum(S \cup U) # Sum(S) + Sum(U)}
<1> SUFFICES ASSUME B # {}
             PROVE  FALSE
  OBVIOUS
<1>1. PICK U \in B : \A V \in B : V \subseteq U => V = U
  <2>1. B \subseteq SUBSET T
    OBVIOUS
  <2> HIDE DEF B
  <2> QED
    BY <2>1, SmallestSubset
<1>2. U \subseteq T /\ IsFiniteSet(U) /\ Sum(S \cup U) # Sum(S) + Sum(U)
  BY <1>1, FS_Subset
<1>3. Sum(S) \in Int
  BY SumIsInt
<1>4. U # {}
  <2> SUFFICES ASSUME U = {} PROVE FALSE
    OBVIOUS
  <2>1. S \cup U = S
    OBVIOUS
  <2>2. Sum(U) = 0
    BY SumOfNone
  <2> HIDE DEF Sum
  <2> QED
    BY <1>2, <1>3, <2>1, <2>2
<1>5. PICK x : x \in U
  BY <1>4
<1> DEFINE V == U \ {x}
<1>6. V \in SUBSET T /\ V \subseteq U /\ V # U /\ IsFiniteSet(V) /\ x \notin S
  BY <1>2, <1>5, FS_Subset
<1>7. Sum(S \cup V) = Sum(S) + Sum(V)
  BY <1>1, <1>6
<1>8. Sum(U) = f[x] + Sum(V)
  BY <1>2, <1>5, SumTakesOut
<1>9. Sum(S \cup U) = f[x] + Sum(S \cup V)
  <2>1. IsFiniteSet(S \cup U) /\ x \in S \cup U /\ \A i \in S \cup U : f[i] \in Int
    BY <1>2, <1>5, FS_Union
  <2>2. (S \cup U) \ {x} = S \cup V
    BY <1>6
  <2> QED
    BY <2>1, <2>2, SumTakesOut
<1>10. Sum(V) \in Int /\ f[x] \in Int
  BY <1>5, <1>6, SumIsInt
<1> HIDE DEF Sum, V
<1> QED
  BY <1>2, <1>3, <1>7, <1>8, <1>9, <1>10

\* The sum of h is that of f and that of g when each term is.
THEOREM SumOfTwo ==
  ASSUME NEW f, NEW g, NEW h, NEW S, IsFiniteSet(S),
         \A i \in S : f[i] \in Int /\ g[i] \in Int /\ h[i] = f[i] + g[i]
  PROVE  SumFunctionOnSet(h, S) = SumFunctionOnSet(f, S) + SumFunctionOnSet(g, S)
<1> DEFINE B == {T \in SUBSET S : SumFunctionOnSet(h, T)
                                    # SumFunctionOnSet(f, T) + SumFunctionOnSet(g, T)}
<1> SUFFICES ASSUME B # {}
             PROVE  FALSE
  OBVIOUS
<1>1. PICK T \in B : \A U \in B : U \subseteq T => U = T
  <2>1. B \subseteq SUBSET S
    OBVIOUS
  <2> HIDE DEF B
  <2> QED
    BY <2>1, SmallestSubset
<1>2. /\ T \subseteq S /\ IsFiniteSet(T)
      /\ SumFunctionOnSet(h, T) # SumFunctionOnSet(f, T) + SumFunctionOnSet(g, T)
  BY <1>1, FS_Subset
<1>3. T # {}
  <2> SUFFICES ASSUME T = {} PROVE FALSE
    OBVIOUS
  <2>1. SumFunctionOnSet(h, T) = 0 /\ SumFunctionOnSet(f, T) = 0 /\ SumFunctionOnSet(g, T) = 0
    BY SumOfNone
  <2> QED
    BY <1>2, <2>1
<1>4. PICK x : x \in T
  BY <1>3
<1> DEFINE U == T \ {x}
<1>5. U \in SUBSET S /\ U \subseteq T /\ U # T /\ IsFiniteSet(U)
  BY <1>2, <1>4, FS_Subset
<1>6. SumFunctionOnSet(h, U) = SumFunctionOnSet(f, U) + SumFunctionOnSet(g, U)
  BY <1>1, <1>5
<1>7. \A i \in T : f[i] \in Int /\ g[i] \in Int /\ h[i] \in Int
  BY <1>2
<1>8. /\ SumFunctionOnSet(h, T) = h[x] + SumFunctionOnSet(h, U)
      /\ SumFunctionOnSet(f, T) = f[x] + SumFunctionOnSet(f, U)
      /\ SumFunctionOnSet(g, T) = g[x] + SumFunctionOnSet(g, U)
  BY <1>2, <1>4, <1>7, SumTakesOut
<1>9. h[x] = f[x] + g[x] /\ f[x] \in Int /\ g[x] \in Int
  BY <1>2, <1>4
<1>10. SumFunctionOnSet(f, U) \in Int /\ SumFunctionOnSet(g, U) \in Int
  BY <1>5, <1>7, SumIsInt
<1> HIDE DEF U
<1> QED
  BY <1>2, <1>6, <1>8, <1>9, <1>10

\* A common factor can be taken out.
THEOREM SumOfMultiple ==
  ASSUME NEW c \in Int, NEW f, NEW g, NEW S, IsFiniteSet(S),
         \A i \in S : f[i] \in Int /\ g[i] = c * f[i]
  PROVE  SumFunctionOnSet(g, S) = c * SumFunctionOnSet(f, S)
<1> DEFINE B == {T \in SUBSET S : SumFunctionOnSet(g, T) # c * SumFunctionOnSet(f, T)}
<1> SUFFICES ASSUME B # {}
             PROVE  FALSE
  OBVIOUS
<1>1. PICK T \in B : \A U \in B : U \subseteq T => U = T
  <2>1. B \subseteq SUBSET S
    OBVIOUS
  <2> HIDE DEF B
  <2> QED
    BY <2>1, SmallestSubset
<1>2. /\ T \subseteq S /\ IsFiniteSet(T)
      /\ SumFunctionOnSet(g, T) # c * SumFunctionOnSet(f, T)
  BY <1>1, FS_Subset
<1>3. T # {}
  <2> SUFFICES ASSUME T = {} PROVE FALSE
    OBVIOUS
  <2>1. SumFunctionOnSet(g, T) = 0 /\ SumFunctionOnSet(f, T) = 0
    BY SumOfNone
  <2> QED
    BY <1>2, <2>1
<1>4. PICK x : x \in T
  BY <1>3
<1> DEFINE U == T \ {x}
<1>5. U \in SUBSET S /\ U \subseteq T /\ U # T /\ IsFiniteSet(U)
  BY <1>2, <1>4, FS_Subset
<1>6. SumFunctionOnSet(g, U) = c * SumFunctionOnSet(f, U)
  BY <1>1, <1>5
<1>7. \A i \in T : f[i] \in Int /\ g[i] = c * f[i] /\ g[i] \in Int
  BY <1>2
<1>8. /\ SumFunctionOnSet(g, T) = g[x] + SumFunctionOnSet(g, U)
      /\ SumFunctionOnSet(f, T) = f[x] + SumFunctionOnSet(f, U)
  BY <1>2, <1>4, <1>7, SumTakesOut
<1>9. SumFunctionOnSet(f, U) \in Int /\ f[x] \in Int /\ g[x] = c * f[x]
  BY <1>4, <1>5, <1>7, SumIsInt
<1> HIDE DEF U
<1>10. c * (f[x] + SumFunctionOnSet(f, U)) = c * f[x] + c * SumFunctionOnSet(f, U)
  BY <1>9
<1> QED
  BY <1>2, <1>6, <1>8, <1>9, <1>10

\* A finite table f of integers, the table g turned over, and the sums of the
\* rows and of the columns of f.
IsTable(f, g, rows, columns, S, T) ==
  /\ IsFiniteSet(S) /\ IsFiniteSet(T)
  /\ \A x \in S, y \in T : f[x][y] \in Int /\ g[y][x] = f[x][y]
  /\ \A x \in S : rows[x] = SumFunctionOnSet(f[x], T)
  /\ \A y \in T : columns[y] = SumFunctionOnSet(g[y], S)

\* A table has one sum, by rows or by columns.
THEOREM SumByRowsAndColumns ==
  ASSUME NEW f, NEW g, NEW rows, NEW columns, NEW S, NEW T,
         IsTable(f, g, rows, columns, S, T)
  PROVE  SumFunctionOnSet(rows, S) = SumFunctionOnSet(columns, T)
<1> USE DEF IsTable
<1> DEFINE Column(U) == [y \in T |-> SumFunctionOnSet(g[y], U)]
           B == {U \in SUBSET S : SumFunctionOnSet(rows, U) # SumFunctionOnSet(Column(U), T)}
<1>1. ASSUME NEW U \in SUBSET S
      PROVE  /\ IsFiniteSet(U)
             /\ \A y \in T : Column(U)[y] \in Int
             /\ \A x \in U : rows[x] \in Int
  <2>1. IsFiniteSet(U)
    BY FS_Subset
  <2>2. ASSUME NEW y \in T PROVE Column(U)[y] \in Int
    <3> DEFINE c == g[y]
    <3>1. \A x \in U : c[x] \in Int
      OBVIOUS
    <3>2. SumFunctionOnSet(c, U) \in Int
      <4> HIDE DEF c
      <4> QED
        BY <2>1, <3>1, SumIsInt
    <3> QED
      BY <3>2
  <2>3. ASSUME NEW x \in U PROVE rows[x] \in Int
    <3>1. x \in S /\ \A y \in T : f[x][y] \in Int
      OBVIOUS
    <3>2. SumFunctionOnSet(f[x], T) \in Int
      BY <3>1, SumIsInt
    <3> QED
      BY <3>1, <3>2
  <2> QED
    BY <2>1, <2>2, <2>3
<1>2. B = {}
  <2> SUFFICES ASSUME B # {}
               PROVE  FALSE
    OBVIOUS
  <2>1. PICK U \in B : \A V \in B : V \subseteq U => V = U
    <3>1. B \subseteq SUBSET S
      OBVIOUS
    <3> HIDE DEF B
    <3> QED
      BY <3>1, SmallestSubset
  <2>2. U \in SUBSET S /\ SumFunctionOnSet(rows, U) # SumFunctionOnSet(Column(U), T)
    BY <2>1
  <2>3. U # {}
    <3> SUFFICES ASSUME U = {} PROVE FALSE
      OBVIOUS
    <3>1. SumFunctionOnSet(rows, U) = 0
      BY SumOfNone
    <3>2. \A y \in T : Column(U)[y] = 0
      BY SumOfNone
    <3>3. SumFunctionOnSet(Column(U), T) = 0
      <4> HIDE DEF Column
      <4> QED
        BY <3>2, SumOfZeros
    <3> QED
      BY <2>2, <3>1, <3>3
  <2>4. PICK x : x \in U
    BY <2>3
  <2> DEFINE V == U \ {x}
  <2>5. V \in SUBSET S /\ V \subseteq U /\ V # U /\ x \in S
    BY <2>2, <2>4
  <2>6. SumFunctionOnSet(rows, V) = SumFunctionOnSet(Column(V), T)
    BY <2>1, <2>5
  <2>7. SumFunctionOnSet(rows, U) = rows[x] + SumFunctionOnSet(rows, V)
    <3>1. IsFiniteSet(U) /\ \A z \in U : rows[z] \in Int
      BY <1>1, <2>2
    <3> QED
      BY <2>4, <3>1, SumTakesOut
  <2>8. ASSUME NEW y \in T
        PROVE  Column(U)[y] = f[x][y] + Column(V)[y]
    <3> DEFINE c == g[y]
    <3>1. IsFiniteSet(U) /\ \A z \in U : c[z] \in Int
      BY <1>1, <2>2
    <3>2. SumFunctionOnSet(c, U) = c[x] + SumFunctionOnSet(c, V)
      <4> HIDE DEF c, IsTable
      <4> QED
        BY <2>4, <3>1, SumTakesOut
    <3>3. c[x] = f[x][y]
      BY <2>5
    <3> QED
      BY <3>2, <3>3
  <2>9. SumFunctionOnSet(Column(U), T) = rows[x] + SumFunctionOnSet(Column(V), T)
    <3>1. \A y \in T : /\ f[x][y] \in Int /\ Column(V)[y] \in Int
                       /\ Column(U)[y] = f[x][y] + Column(V)[y]
      BY <1>1, <2>5, <2>8
    <3>2. SumFunctionOnSet(Column(U), T)
            = SumFunctionOnSet(f[x], T) + SumFunctionOnSet(Column(V), T)
      <4> DEFINE a == Column(U)
                 b == Column(V)
      <4>1. \A y \in T : f[x][y] \in Int /\ b[y] \in Int /\ a[y] = f[x][y] + b[y]
        BY <3>1
      <4> HIDE DEF Column, a, b
      <4>2. SumFunctionOnSet(a, T) = SumFunctionOnSet(f[x], T) + SumFunctionOnSet(b, T)
        BY <4>1, SumOfTwo
      <4> QED
        BY <4>2 DEF a, b
    <3> QED
      BY <2>5, <3>2
  <2> HIDE DEF Column, V
  <2> QED
    BY <2>2, <2>6, <2>7, <2>9
<1>3. SumFunctionOnSet(rows, S) = SumFunctionOnSet(Column(S), T)
  BY <1>2
<1>4. \A y \in T : Column(S)[y] \in Int /\ Column(S)[y] = columns[y]
  BY <1>1
<1> HIDE DEF Column
<1> QED
  BY <1>3, <1>4, SumOfSameTerms
\* What holds at 0 and with every number at the next one holds up to n: the
\* numbers of which something holds are a set here, never an operator.
THEOREM CountingUp ==
  ASSUME NEW n \in Nat, NEW S, 0 \in S, \A k \in 0 .. n - 1 : k \in S => k + 1 \in S
  PROVE  \A k \in 0 .. n : k \in S
<1> DEFINE B == {k \in 0 .. n : k \notin S}
<1> SUFFICES ASSUME B # {}
             PROVE  FALSE
  OBVIOUS
<1>1. PICK m \in B : \A k \in B : ~ (<<k, m>> \in OpToRel(<, Nat))
  <2>1. B \subseteq Nat
    OBVIOUS
  <2> HIDE DEF B
  <2> QED
    BY <2>1, NatLessThanWellFounded, WFMin
<1>2. m \in 0 .. n /\ m \notin S /\ m # 0
  BY <1>1
<1>3. m - 1 \in 0 .. n - 1 /\ m - 1 \in 0 .. n /\ m - 1 + 1 = m
  BY <1>2
<1>4. m - 1 \in B
  BY <1>2, <1>3
<1>5. <<m - 1, m>> \in OpToRel(<, Nat)
  BY <1>2, <1>3 DEF OpToRel
<1> QED
  BY <1>1, <1>4, <1>5

\* A set of naturals up to n that is not empty has a largest member.
LEMMA LargestMember ==
  ASSUME NEW n \in Nat, NEW S \in SUBSET (0..n), S # {}
  PROVE  \E m \in S : \A t \in S : t <= m
<1> DEFINE T == {n - s : s \in S}
<1>1. T \subseteq Nat /\ T # {}
  <2>1. ASSUME NEW s \in S PROVE n - s \in Nat
    <3>1. s \in 0..n
      OBVIOUS
    <3> QED
      BY <3>1
  <2> QED
    BY <2>1
<1>2. PICK x \in T : \A y \in T : ~ (<<y, x>> \in OpToRel(<, Nat))
  <2> HIDE DEF T
  <2> QED
    BY <1>1, NatLessThanWellFounded, WFMin, Zenon
<1>3. \A y \in T : ~(y < x)
  <2> SUFFICES ASSUME NEW y \in T, y < x PROVE FALSE
    OBVIOUS
  <2>1. <<y, x>> \in OpToRel(<, Nat)
    BY <1>1, <1>2 DEF OpToRel
  <2> QED
    BY <1>2, <2>1
<1>4. PICK m \in S : x = n - m
  OBVIOUS
<1>5. ASSUME NEW t \in S PROVE t <= m
  <2>1. n - t \in T
    OBVIOUS
  <2>2. ~(n - t < n - m)
    BY <1>3, <1>4, <2>1
  <2>3. m \in 0..n /\ t \in 0..n
    OBVIOUS
  <2> QED
    BY <2>2, <2>3
<1> QED
  BY <1>5

\* The sum over a part of a set of naturals is at most that over the set.
THEOREM SumOfPart ==
  ASSUME NEW f, NEW S, IsFiniteSet(S), \A i \in S : f[i] \in Nat, NEW T \in SUBSET S
  PROVE  SumFunctionOnSet(f, T) <= SumFunctionOnSet(f, S)
<1> DEFINE U == S \ T
<1>1. IsFiniteSet(T) /\ IsFiniteSet(U) /\ T \cap U = {} /\ T \cup U = S
  BY FS_Subset, FS_Difference
<1>2. \A i \in T \cup U : f[i] \in Int
  OBVIOUS
<1>3. \A i \in U : f[i] \in Nat
  OBVIOUS
<1>4. \A i \in T : f[i] \in Nat
  OBVIOUS
<1> HIDE DEF U
<1>5. SumFunctionOnSet(f, T \cup U) = SumFunctionOnSet(f, T) + SumFunctionOnSet(f, U)
  BY <1>1, <1>2, SumOfUnion
<1>6. SumFunctionOnSet(f, T \cup U) = SumFunctionOnSet(f, S)
  BY <1>1, Zenon
<1>7. SumFunctionOnSet(f, T) \in Nat /\ SumFunctionOnSet(f, U) \in Nat
  BY <1>1, <1>3, <1>4, SumOfNaturals
<1> QED
  BY <1>5, <1>6, <1>7

\* m names each index of S by an index of g of its own, with the same term.
Renames(m, f, g, S) ==
  /\ \A i \in S : g[m[i]] \in Int /\ f[i] = g[m[i]]
  /\ \A i, j \in S : m[i] = m[j] => i = j

\* A sum does not depend on the names of its indices.
THEOREM SumOfRenamed ==
  ASSUME NEW m, NEW f, NEW g, NEW S, IsFiniteSet(S), Renames(m, f, g, S)
  PROVE  SumFunctionOnSet(f, S) = SumFunctionOnSet(g, {m[i] : i \in S})
<1> DEFINE Image(T) == {m[i] : i \in T}
           B == {T \in SUBSET S : SumFunctionOnSet(f, T) # SumFunctionOnSet(g, Image(T))}
<1> SUFFICES ASSUME B # {}
             PROVE  FALSE
  OBVIOUS
<1>1. PICK T \in B : \A U \in B : U \subseteq T => U = T
  <2>1. B \subseteq SUBSET S
    OBVIOUS
  <2> HIDE DEF B
  <2> QED
    BY <2>1, SmallestSubset
<1>2. /\ T \subseteq S /\ IsFiniteSet(T)
      /\ SumFunctionOnSet(f, T) # SumFunctionOnSet(g, Image(T))
  BY <1>1, FS_Subset
<1>3. T # {}
  <2> SUFFICES ASSUME T = {} PROVE FALSE
    OBVIOUS
  <2>1. Image(T) = {}
    OBVIOUS
  <2>2. SumFunctionOnSet(f, T) = 0 /\ SumFunctionOnSet(g, {}) = 0
    BY SumOfNone
  <2> QED
    BY <1>2, <2>1, <2>2
<1>4. PICK x : x \in T
  BY <1>3
<1> DEFINE U == T \ {x}
<1>5. U \in SUBSET S /\ U \subseteq T /\ U # T /\ IsFiniteSet(U)
  BY <1>2, <1>4, FS_Subset
<1>6. SumFunctionOnSet(f, U) = SumFunctionOnSet(g, Image(U))
  BY <1>1, <1>5
<1>7. IsFiniteSet(Image(T))
  <2> DEFINE r == [i \in T |-> m[i]]
  <2>1. r \in Surjection(T, Image(T))
    BY DEF Surjection
  <2> HIDE DEF r, Image
  <2> QED
    BY <1>2, <2>1, FS_Surjection
<1>8. /\ m[x] \in Image(T) /\ Image(T) \ {m[x]} = Image(U)
      /\ \A y \in Image(T) : g[y] \in Int
      /\ \A i \in T : f[i] \in Int
      /\ f[x] = g[m[x]]
  BY <1>2, <1>4 DEF Renames
<1> DEFINE I == Image(T)
           J == Image(U)
<1>9. SumFunctionOnSet(f, T) = f[x] + SumFunctionOnSet(f, U)
  BY <1>2, <1>4, <1>8, SumTakesOut
<1>10. SumFunctionOnSet(g, I) = g[m[x]] + SumFunctionOnSet(g, I \ {m[x]})
  <2>1. IsFiniteSet(I) /\ m[x] \in I /\ \A y \in I : g[y] \in Int
    BY <1>7, <1>8
  <2> HIDE DEF I
  <2> QED
    BY <2>1, SumTakesOut
<1>11. I \ {m[x]} = J
  BY <1>8
<1> HIDE DEF I, J, U
<1>12. SumFunctionOnSet(g, I \ {m[x]}) = SumFunctionOnSet(g, J)
  BY <1>11, Zenon
<1> QED
  BY <1>2, <1>6, <1>8, <1>9, <1>10, <1>12 DEF I, J
\* Naturals that were partly overwritten add up to at most the old sum and
\* that of the new terms.
THEOREM SumOfOverwritten ==
  ASSUME NEW f, NEW g, NEW S, NEW T, IsFiniteSet(S), IsFiniteSet(T),
         \A i \in S : f[i] \in Nat, \A i \in S \cup T : g[i] \in Nat,
         \A i \in S \ T : g[i] = f[i]
  PROVE  SumFunctionOnSet(g, S \cup T) <= SumFunctionOnSet(f, S) + SumFunctionOnSet(g, T)
<1> DEFINE U == S \ T
<1>1. /\ IsFiniteSet(U) /\ U \cap T = {} /\ U \cup T = S \cup T /\ U \in SUBSET S
  BY FS_Difference
<1>2. /\ \A i \in U \cup T : g[i] \in Int
      /\ \A i \in U : f[i] \in Int /\ f[i] = g[i]
      /\ \A i \in U : f[i] \in Nat
      /\ \A i \in T : g[i] \in Nat
  OBVIOUS
<1> HIDE DEF U
<1>3. SumFunctionOnSet(g, U \cup T) = SumFunctionOnSet(g, U) + SumFunctionOnSet(g, T)
  BY <1>1, <1>2, SumOfUnion
<1>4. SumFunctionOnSet(f, U) = SumFunctionOnSet(g, U)
  BY <1>1, <1>2, SumOfSameTerms
<1>5. SumFunctionOnSet(f, U) <= SumFunctionOnSet(f, S)
  BY <1>1, SumOfPart
<1>6. /\ SumFunctionOnSet(f, U) \in Nat /\ SumFunctionOnSet(f, S) \in Nat
      /\ SumFunctionOnSet(g, T) \in Nat
  BY <1>1, <1>2, SumOfNaturals
<1>7. SumFunctionOnSet(g, U \cup T) = SumFunctionOnSet(g, S \cup T)
  BY <1>1, Zenon
<1> QED
  BY <1>3, <1>4, <1>5, <1>6, <1>7

\* Different indices of f that stand for some of those of g add up to no more.
THEOREM SumOfRenamedPart ==
  ASSUME NEW m, NEW f, NEW g, NEW S, NEW T, IsFiniteSet(S), IsFiniteSet(T),
         Renames(m, f, g, S), \A i \in S : m[i] \in T, \A k \in T : g[k] \in Nat
  PROVE  SumFunctionOnSet(f, S) <= SumFunctionOnSet(g, T)
<1> DEFINE U == {m[i] : i \in S}
<1>1. SumFunctionOnSet(f, S) = SumFunctionOnSet(g, U)
  BY SumOfRenamed
<1>2. U \in SUBSET T
  OBVIOUS
<1> HIDE DEF U
<1>3. SumFunctionOnSet(g, U) <= SumFunctionOnSet(g, T)
  BY <1>2, SumOfPart
<1> QED
  BY <1>1, <1>3

=============================================================================
