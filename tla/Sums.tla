-------------------------------- MODULE Sums --------------------------------
(***************************************************************************)
(* Facts about SumFunctionOnSet of the Functions module, for functions     *)
(* into the integers and finite sets.  The sum is defined by recursion     *)
(* over the subsets of a set, in an order that CHOOSE leaves open; every   *)
(* induction below is over finite sets and takes a smallest                *)
(* counterexample.                                                         *)
(***************************************************************************)
EXTENDS Integers, FiniteSetTheorems, WellFoundedInduction, Functions, TLAPS

\* A non-empty set of subsets of a finite set has a smallest member.
LEMMA SmallestSubset ==
  ASSUME NEW S, IsFiniteSet(S), NEW T \in SUBSET (SUBSET S), T # {}
  PROVE  \E U \in T : \A V \in SUBSET U : V # U => V \notin T
<1>1. IsWellFoundedOn(StrictSubsetOrdering(S), FiniteSubsetsOf(S))
  BY FS_StrictSubsetOrderingWellFounded
<1>2. T \subseteq FiniteSubsetsOf(S)
  BY FS_Subset DEF FiniteSubsetsOf
<1>3. PICK U \in T : \A V \in T : <<V, U>> \notin StrictSubsetOrdering(S)
  BY <1>1, <1>2, WFMin, Zenon
<1>4. ASSUME NEW V \in SUBSET U, V # U, V \in T
      PROVE  FALSE
  BY <1>3, <1>4 DEF StrictSubsetOrdering
<1> QED
  BY <1>4

(***************************************************************************)
(* The recursion has a solution on every finite set, and only one.         *)
(***************************************************************************)
One(s) == CHOOSE x \in s : TRUE
Rest(s) == s \ {One(s)}
SumStep(f, g, s) == IF s = {} THEN 0 ELSE f[One(s)] + g[Rest(s)]
Solves(f, g, S) == g = [s \in SUBSET S |-> SumStep(f, g, s)]
Solution(f, S) == CHOOSE g : Solves(f, g, S)

\* The sum is the value of that solution.
LEMMA SumUnfold ==
  ASSUME NEW f, NEW S
  PROVE  SumFunctionOnSet(f, S) = Solution(f, S)[S]
BY DEF SumFunctionOnSet, FoldFunctionOnSet, MapThenFoldSet, Solution, Solves, SumStep, One, Rest

\* The member taken from a set that is not empty, and what is left.
LEMMA OneOfMany ==
  ASSUME NEW s, s # {}
  PROVE  One(s) \in s /\ Rest(s) \in SUBSET s /\ Rest(s) # s
BY DEF One, Rest

\* Two solutions agree wherever both are defined.
LEMMA SolutionsAgree ==
  ASSUME NEW f, NEW S, IsFiniteSet(S), NEW U \in SUBSET S, NEW g, NEW h,
         Solves(f, g, S), Solves(f, h, U)
  PROVE  g[U] = h[U]
<1> DEFINE T == {s \in SUBSET U : g[s] # h[s]}
<1> SUFFICES ASSUME T # {} PROVE FALSE
  OBVIOUS
<1>1. IsFiniteSet(U) /\ T \in SUBSET (SUBSET U)
  BY FS_Subset
<1>2. PICK s \in T : \A v \in SUBSET s : v # s => v \notin T
  <2> HIDE DEF T
  <2> QED
    BY <1>1, SmallestSubset
<1>3. g[s] = SumStep(f, g, s) /\ h[s] = SumStep(f, h, s)
  BY DEF Solves
<1>4. CASE s = {}
  BY <1>3, <1>4 DEF SumStep
<1>5. CASE s # {}
  <2>1. Rest(s) \in SUBSET s /\ Rest(s) # s
    BY <1>5, OneOfMany
  <2>2. g[Rest(s)] = h[Rest(s)]
    BY <1>2, <2>1
  <2> QED
    BY <1>3, <2>2 DEF SumStep
<1> QED
  BY <1>4, <1>5

\* There is a solution: from the solutions for the smaller sets, one value more.
LEMMA SolutionExists ==
  ASSUME NEW f, NEW S, IsFiniteSet(S)
  PROVE  Solves(f, Solution(f, S), S)
<1>1. ASSUME NEW T, T = {U \in SUBSET S : ~ \E g : Solves(f, g, U)}, T # {}
      PROVE  FALSE
  <2>1. PICK U \in T : \A V \in SUBSET U : V # U => V \notin T
    <3>1. T \in SUBSET (SUBSET S) /\ T # {}
      BY <1>1
    <3> QED
      BY <3>1, SmallestSubset
  <2> DEFINE v[V \in SUBSET U] == Solution(f, V)[V]
             g == [s \in SUBSET U |-> IF s = {} THEN 0 ELSE f[One(s)] + v[Rest(s)]]
  <2>2. ASSUME NEW V \in SUBSET U, V # U
        PROVE  Solves(f, Solution(f, V), V)
    BY <1>1, <2>1, <2>2 DEF Solution
  <2>3. ASSUME NEW V \in SUBSET U, V # U
        PROVE  v[V] = g[V]
    <3>1. Solution(f, V)[V] = SumStep(f, Solution(f, V), V)
      BY <2>2, <2>3 DEF Solves
    <3>2. CASE V = {}
      BY <3>1, <3>2 DEF SumStep
    <3>3. CASE V # {}
      <4>1. Rest(V) \in SUBSET V /\ Rest(V) # V
        BY <3>3, OneOfMany
      <4>2. Rest(V) \in SUBSET U /\ Rest(V) # U
        BY <4>1
      <4>3. IsFiniteSet(V)
        BY <1>1, FS_Subset
      <4>4. Solution(f, V)[Rest(V)] = Solution(f, Rest(V))[Rest(V)]
        BY <2>2, <2>3, <4>1, <4>2, <4>3, SolutionsAgree
      <4> QED
        BY <3>1, <3>3, <4>2, <4>4 DEF SumStep
    <3> QED
      BY <3>2, <3>3
  <2>4. ASSUME NEW s \in SUBSET U
        PROVE  g[s] = SumStep(f, g, s)
    <3>1. CASE s = {}
      BY <3>1 DEF SumStep
    <3>2. CASE s # {}
      <4>1. Rest(s) \in SUBSET U /\ Rest(s) # U
        BY <3>2, OneOfMany
      <4>2. v[Rest(s)] = g[Rest(s)]
        BY <2>3, <4>1
      <4> QED
        BY <3>2, <4>2 DEF SumStep
    <3> QED
      BY <3>1, <3>2
  <2>5. Solves(f, g, U)
    BY <2>4 DEF Solves
  <2> QED
    BY <1>1, <2>1, <2>5
<1>2. \E g : Solves(f, g, S)
  BY <1>1
<1> QED
  BY <1>2 DEF Solution

(***************************************************************************)
(* What the models use.                                                    *)
(***************************************************************************)
\* The sum over no indices.
LEMMA SumEmpty ==
  ASSUME NEW f
  PROVE  SumFunctionOnSet(f, {}) = 0
<1>1. Solves(f, Solution(f, {}), {})
  BY FS_EmptySet, SolutionExists
<1> QED
  BY <1>1, SumUnfold DEF Solves, SumStep

\* The recursion, as the library's definition has it.
LEMMA SumOne ==
  ASSUME NEW f, NEW S, IsFiniteSet(S), S # {}
  PROVE  SumFunctionOnSet(f, S) = f[One(S)] + SumFunctionOnSet(f, Rest(S))
<1>1. Rest(S) \in SUBSET S /\ IsFiniteSet(Rest(S))
  BY OneOfMany, FS_Subset
<1>2. Solves(f, Solution(f, S), S) /\ Solves(f, Solution(f, Rest(S)), Rest(S))
  BY <1>1, SolutionExists
<1>3. Solution(f, S)[Rest(S)] = Solution(f, Rest(S))[Rest(S)]
  BY <1>1, <1>2, SolutionsAgree
<1>4. Solution(f, S)[S] = f[One(S)] + Solution(f, S)[Rest(S)]
  BY <1>2 DEF Solves, SumStep
<1> QED
  BY <1>3, <1>4, SumUnfold

\* Integers add up to an integer.
LEMMA SumType ==
  ASSUME NEW S, IsFiniteSet(S), NEW f, \A x \in S : f[x] \in Int
  PROVE  SumFunctionOnSet(f, S) \in Int
<1> SUFFICES ASSUME NEW T, T = {U \in SUBSET S : SumFunctionOnSet(f, U) \notin Int}, T # {}
             PROVE  FALSE
  OBVIOUS
<1>1. T \in SUBSET (SUBSET S) /\ T # {}
  OBVIOUS
<1>2. PICK U \in T : \A V \in SUBSET U : V # U => V \notin T
  BY <1>1, SmallestSubset
<1>3. IsFiniteSet(U)
  BY FS_Subset
<1>4. U # {}
  BY SumEmpty
<1>5. One(U) \in U /\ Rest(U) \in SUBSET U /\ Rest(U) # U
  BY <1>4, OneOfMany
<1>6. SumFunctionOnSet(f, Rest(U)) \in Int
  BY <1>2, <1>5
<1> QED
  BY <1>3, <1>4, <1>5, <1>6, SumOne

\* Any index can be taken out first: the order does not matter.
LEMMA SumRemove ==
  ASSUME NEW S, IsFiniteSet(S), NEW f, \A x \in S : f[x] \in Int, NEW x \in S
  PROVE  SumFunctionOnSet(f, S) = f[x] + SumFunctionOnSet(f, S \ {x})
<1> DEFINE Holds(U, y) == SumFunctionOnSet(f, U) = f[y] + SumFunctionOnSet(f, U \ {y})
<1>1. ASSUME NEW T, T = {U \in SUBSET S : \E y \in U : ~Holds(U, y)}, T # {}
      PROVE  FALSE
  <2>1. T \in SUBSET (SUBSET S) /\ T # {}
    BY <1>1
  <2>2. PICK U \in T : \A V \in SUBSET U : V # U => V \notin T
    BY <2>1, SmallestSubset
  <2>3. U \in SUBSET S /\ IsFiniteSet(U)
    BY <2>1, FS_Subset
  <2>4. PICK y \in U : ~Holds(U, y)
    BY <1>1
  <2> DEFINE z == One(U)
  <2>5. z \in U /\ Rest(U) = U \ {z}
    BY <2>4, OneOfMany DEF Rest
  <2>6. SumFunctionOnSet(f, U) = f[z] + SumFunctionOnSet(f, U \ {z})
    BY <2>3, <2>4, <2>5, SumOne
  <2>7. y # z
    BY <2>4, <2>6
  <2>8. ASSUME NEW V \in SUBSET U, V # U, NEW v \in V
        PROVE  Holds(V, v)
    <3>1. V \in SUBSET S /\ V \notin T
      BY <2>2, <2>3, <2>8
    <3> QED
      BY <1>1, <3>1
  <2> HIDE DEF z
  <2>9. Holds(U \ {z}, y) /\ Holds(U \ {y}, z)
    BY <2>4, <2>5, <2>7, <2>8
  <2>10. (U \ {z}) \ {y} = (U \ {y}) \ {z}
    OBVIOUS
  <2>11. SumFunctionOnSet(f, (U \ {y}) \ {z}) \in Int
    <3>1. IsFiniteSet((U \ {y}) \ {z}) /\ \A v \in (U \ {y}) \ {z} : f[v] \in Int
      BY <2>3, FS_Subset
    <3> QED
      BY <3>1, SumType
  <2>12. f[y] \in Int /\ f[z] \in Int
    BY <2>3, <2>4, <2>5
  <2> DEFINE w == SumFunctionOnSet(f, (U \ {y}) \ {z})
  <2>13. SumFunctionOnSet(f, U \ {z}) = f[y] + w /\ SumFunctionOnSet(f, U \ {y}) = f[z] + w
    BY <2>9, <2>10
  <2>14. SumFunctionOnSet(f, U) # f[y] + SumFunctionOnSet(f, U \ {y}) /\ w \in Int
    BY <2>4, <2>11
  <2> HIDE DEF w, Holds
  <2> QED
    BY <2>6, <2>12, <2>13, <2>14
<1>2. {U \in SUBSET S : \E y \in U : ~Holds(U, y)} = {}
  BY <1>1
<1> QED
  BY <1>2

\* The sum depends on the values at the indices only.
LEMMA SumAgree ==
  ASSUME NEW S, IsFiniteSet(S), NEW f, NEW g, \A x \in S : f[x] = g[x]
  PROVE  SumFunctionOnSet(f, S) = SumFunctionOnSet(g, S)
<1> SUFFICES ASSUME NEW T, T # {},
                    T = {U \in SUBSET S : SumFunctionOnSet(f, U) # SumFunctionOnSet(g, U)}
             PROVE  FALSE
  OBVIOUS
<1>1. T \in SUBSET (SUBSET S) /\ T # {}
  OBVIOUS
<1>2. PICK U \in T : \A V \in SUBSET U : V # U => V \notin T
  BY <1>1, SmallestSubset
<1>3. IsFiniteSet(U)
  BY FS_Subset
<1>4. U # {}
  BY SumEmpty
<1>5. One(U) \in U /\ Rest(U) \in SUBSET U /\ Rest(U) # U
  BY <1>4, OneOfMany
<1>6. SumFunctionOnSet(f, Rest(U)) = SumFunctionOnSet(g, Rest(U))
  BY <1>2, <1>5
<1> QED
  BY <1>3, <1>4, <1>5, <1>6, SumOne

\* When one value changes, the sum changes by as much.
LEMMA SumChange ==
  ASSUME NEW S, IsFiniteSet(S), NEW f, NEW g, NEW x \in S,
         \A y \in S : f[y] \in Int /\ g[y] \in Int,
         \A y \in S \ {x} : f[y] = g[y]
  PROVE  SumFunctionOnSet(g, S) = SumFunctionOnSet(f, S) + g[x] - f[x]
<1>1. IsFiniteSet(S \ {x})
  BY FS_Subset
<1>2. SumFunctionOnSet(f, S \ {x}) = SumFunctionOnSet(g, S \ {x})
  BY <1>1, SumAgree
<1>3. SumFunctionOnSet(f, S \ {x}) \in Int
  BY <1>1, SumType
<1>4. /\ SumFunctionOnSet(f, S) = f[x] + SumFunctionOnSet(f, S \ {x})
      /\ SumFunctionOnSet(g, S) = g[x] + SumFunctionOnSet(g, S \ {x})
  BY SumRemove
<1> QED
  BY <1>2, <1>3, <1>4

\* The sum over two disjoint sets of indices.
LEMMA SumUnion ==
  ASSUME NEW A, NEW B, IsFiniteSet(A), IsFiniteSet(B), A \cap B = {},
         NEW f, \A x \in A \cup B : f[x] \in Int
  PROVE  SumFunctionOnSet(f, A \cup B) = SumFunctionOnSet(f, A) + SumFunctionOnSet(f, B)
<1> DEFINE Holds(U) ==
      SumFunctionOnSet(f, A \cup U) = SumFunctionOnSet(f, A) + SumFunctionOnSet(f, U)
<1>1. ASSUME NEW T, T = {U \in SUBSET B : ~Holds(U)}, T # {}
      PROVE  FALSE
  <2>1. T \in SUBSET (SUBSET B) /\ T # {}
    BY <1>1
  <2>2. PICK U \in T : \A V \in SUBSET U : V # U => V \notin T
    BY <2>1, SmallestSubset
  <2>3. U \in SUBSET B /\ ~Holds(U)
    BY <1>1
  <2>4. IsFiniteSet(U) /\ IsFiniteSet(A \cup U)
    BY <2>3, FS_Subset, FS_Union
  <2>5. SumFunctionOnSet(f, A) \in Int
    BY SumType
  <2>6. U # {}
    BY <2>3, <2>5, SumEmpty
  <2>7. PICK x \in U : TRUE
    BY <2>6
  <2>8. Holds(U \ {x})
    <3>1. U \ {x} \in SUBSET B /\ U \ {x} \notin T
      BY <2>2, <2>3
    <3> QED
      BY <1>1, <3>1
  <2>9. (A \cup U) \ {x} = A \cup (U \ {x})
    BY <2>3
  <2>10. \A y \in A \cup U : f[y] \in Int
    BY <2>3
  <2>11. /\ SumFunctionOnSet(f, A \cup U) = f[x] + SumFunctionOnSet(f, A \cup (U \ {x}))
         /\ SumFunctionOnSet(f, U) = f[x] + SumFunctionOnSet(f, U \ {x})
    BY <2>4, <2>9, <2>10, SumRemove
  <2>12. SumFunctionOnSet(f, U \ {x}) \in Int /\ f[x] \in Int
    <3>1. IsFiniteSet(U \ {x})
      BY <2>4, FS_Subset
    <3> QED
      BY <2>10, <3>1, SumType
  <2>13. SumFunctionOnSet(f, A \cup U) # SumFunctionOnSet(f, A) + SumFunctionOnSet(f, U)
    BY <2>3
  <2>14. SumFunctionOnSet(f, A \cup (U \ {x}))
           = SumFunctionOnSet(f, A) + SumFunctionOnSet(f, U \ {x})
    BY <2>8
  <2> HIDE DEF Holds
  <2> QED
    BY <2>5, <2>11, <2>12, <2>13, <2>14
<1>2. {U \in SUBSET B : ~Holds(U)} = {}
  BY <1>1
<1> QED
  BY <1>2

\* Natural numbers add up to a natural number, no less than any of them.
LEMMA SumNat ==
  ASSUME NEW S, IsFiniteSet(S), NEW f, \A x \in S : f[x] \in Nat
  PROVE  /\ SumFunctionOnSet(f, S) \in Nat
         /\ \A x \in S : f[x] <= SumFunctionOnSet(f, S)
<1>1. ASSUME NEW U \in SUBSET S
      PROVE  SumFunctionOnSet(f, U) \in Nat
  <2> SUFFICES ASSUME NEW T, T = {V \in SUBSET S : SumFunctionOnSet(f, V) \notin Nat}, T # {}
               PROVE  FALSE
    OBVIOUS
  <2>1. T \in SUBSET (SUBSET S) /\ T # {}
    OBVIOUS
  <2>2. PICK V \in T : \A W \in SUBSET V : W # V => W \notin T
    BY <2>1, SmallestSubset
  <2>3. IsFiniteSet(V) /\ V # {}
    <3>1. IsFiniteSet(V)
      BY FS_Subset
    <3>2. SumFunctionOnSet(f, {}) \in Nat
      BY SumEmpty
    <3> QED
      BY <3>1, <3>2
  <2>4. One(V) \in V /\ Rest(V) \in SUBSET V /\ Rest(V) # V
    BY <2>3, OneOfMany
  <2>5. SumFunctionOnSet(f, Rest(V)) \in Nat
    BY <2>2, <2>4
  <2> QED
    BY <2>3, <2>4, <2>5, SumOne
<1>2. ASSUME NEW x \in S
      PROVE  f[x] <= SumFunctionOnSet(f, S)
  <2>1. SumFunctionOnSet(f, S \ {x}) \in Nat
    BY <1>1
  <2>2. SumFunctionOnSet(f, S) = f[x] + SumFunctionOnSet(f, S \ {x})
    BY SumRemove
  <2> QED
    BY <2>1, <2>2
<1> QED
  BY <1>1, <1>2

\* Zeros add up to zero.
LEMMA SumZero ==
  ASSUME NEW S, IsFiniteSet(S), NEW f, \A x \in S : f[x] = 0
  PROVE  SumFunctionOnSet(f, S) = 0
<1> SUFFICES ASSUME NEW T, T = {U \in SUBSET S : SumFunctionOnSet(f, U) # 0}, T # {}
             PROVE  FALSE
  OBVIOUS
<1>1. T \in SUBSET (SUBSET S) /\ T # {}
  OBVIOUS
<1>2. PICK U \in T : \A V \in SUBSET U : V # U => V \notin T
  BY <1>1, SmallestSubset
<1>3. U \in SUBSET S /\ IsFiniteSet(U) /\ U # {}
  BY FS_Subset, SumEmpty
<1>4. One(U) \in U /\ Rest(U) \in SUBSET U /\ Rest(U) # U
  BY <1>3, OneOfMany
<1>5. SumFunctionOnSet(f, Rest(U)) = 0
  BY <1>2, <1>3, <1>4
<1>6. SumFunctionOnSet(f, U) = f[One(U)] + SumFunctionOnSet(f, Rest(U))
  BY <1>3, SumOne
<1> QED
  BY <1>3, <1>4, <1>5, <1>6

\* One index more, and the values at the others as they were.
LEMMA SumAdd ==
  ASSUME NEW S, IsFiniteSet(S), NEW x, x \notin S, NEW f, NEW g,
         \A y \in S : f[y] \in Int /\ g[y] = f[y], g[x] \in Int
  PROVE  SumFunctionOnSet(g, S \cup {x}) = SumFunctionOnSet(f, S) + g[x]
<1>1. IsFiniteSet(S \cup {x}) /\ (S \cup {x}) \ {x} = S
  BY FS_AddElement
<1>2. SumFunctionOnSet(g, S \cup {x}) = g[x] + SumFunctionOnSet(g, S)
  <2>1. \A y \in S \cup {x} : g[y] \in Int
    OBVIOUS
  <2>2. x \in S \cup {x}
    OBVIOUS
  <2> QED
    BY <1>1, <2>1, <2>2, SumRemove
<1>3. SumFunctionOnSet(g, S) = SumFunctionOnSet(f, S) /\ SumFunctionOnSet(f, S) \in Int
  BY SumAgree, SumType
<1> QED
  BY <1>2, <1>3
=============================================================================
