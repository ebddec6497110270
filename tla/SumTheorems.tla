---------------------------- MODULE SumTheorems ----------------------------
(***************************************************************************)
(* Facts about SumFunction, the sum of a finite function of integers: how  *)
(* it changes when one of the values is added, removed or changed.  They   *)
(* are proved by well-founded minimality over finite sets, stated with     *)
(* sets in place of predicates.                                            *)
(***************************************************************************)
EXTENDS Functions, FiniteSetTheorems, TLAPS

FirstOf(T) == CHOOSE x \in T : TRUE

\* g sums up the values of f over every subset of S, one element at a time.
IsSum(g, f, S) ==
    g = [T \in SUBSET S |-> IF T = {} THEN 0 ELSE f[FirstOf(T)] + g[T \ {FirstOf(T)}]]

\* The sum of the values of f over S.
SumOver(f, S) == (CHOOSE g : IsSum(g, f, S))[S]

LEMMA SumIsSumOver ==
  ASSUME NEW f, NEW S
  PROVE  SumFunctionOnSet(f, S) = SumOver(f, S)
BY DEF SumFunctionOnSet, FoldFunctionOnSet, MapThenFoldSet, SumOver, IsSum, FirstOf

\* Among sets of subsets of a finite set there is a smallest one.
LEMMA SmallestSubset ==
  ASSUME NEW S, IsFiniteSet(S), NEW Q \in SUBSET SUBSET S, Q # {}
  PROVE  \E T \in Q : \A U \in Q : ~(U \subseteq T /\ U # T)
<1>1. FiniteSubsetsOf(S) = SUBSET S
  BY FS_FiniteSubsetsOfFinite
<1>2. IsWellFoundedOn(StrictSubsetOrdering(S), SUBSET S)
  BY <1>1, FS_StrictSubsetOrderingWellFounded
<1>3. PICK T \in Q : \A U \in Q : <<U, T>> \notin StrictSubsetOrdering(S)
  BY <1>2, WFMin
<1>4. ASSUME NEW U \in Q, U \subseteq T, U # T PROVE FALSE
  BY <1>3, <1>4 DEF StrictSubsetOrdering
<1> QED
  BY <1>4

\* The element that is taken from a set first is in it.
LEMMA FirstOfIn ==
  ASSUME NEW T, T # {}
  PROVE  FirstOf(T) \in T
BY DEF FirstOf

\* What IsSum says of one subset.
LEMMA SumStep ==
  ASSUME NEW g, NEW f, NEW S, IsSum(g, f, S), NEW T \in SUBSET S
  PROVE  g[T] = IF T = {} THEN 0 ELSE f[FirstOf(T)] + g[T \ {FirstOf(T)}]
BY DEF IsSum

\* Two such functions agree wherever both are defined.
LEMMA SumUnique ==
  ASSUME NEW f, NEW S, IsFiniteSet(S), NEW R, NEW g, NEW h,
         IsSum(g, f, S), IsSum(h, f, R), NEW T \in SUBSET S, T \in SUBSET R
  PROVE  g[T] = h[T]
<1> DEFINE Q == {U \in SUBSET T : g[U] # h[U]}
<1>1. SUFFICES ASSUME Q # {} PROVE FALSE
  OBVIOUS
<1>2. IsFiniteSet(T)
  BY FS_Subset
<1>3. PICK U \in Q : \A V \in Q : ~(V \subseteq U /\ V # U)
  <2>1. Q \in SUBSET SUBSET T
    OBVIOUS
  <2> HIDE DEF Q
  <2> QED
    BY <1>1, <1>2, <2>1, SmallestSubset
<1>4. U \in SUBSET S /\ U \in SUBSET R /\ U \in SUBSET T
  OBVIOUS
<1>5. U # {}
  <2>1. U = {} => g[U] = 0 /\ h[U] = 0
    BY <1>4, SumStep
  <2> QED
    BY <2>1
<1> DEFINE W == U \ {FirstOf(U)}
<1>6. W \subseteq U /\ W # U
  BY <1>5, FirstOfIn
<1>7. g[W] = h[W]
  BY <1>3, <1>4, <1>6
<1>8. g[U] = f[FirstOf(U)] + g[W] /\ h[U] = f[FirstOf(U)] + h[W]
  BY <1>4, <1>5, SumStep
<1> QED
  BY <1>7, <1>8

\* The recursive definition has a solution.
LEMMA SumExists ==
  ASSUME NEW f, NEW S, IsFiniteSet(S)
  PROVE  \E g : IsSum(g, f, S)
<1> DEFINE Q == {T \in SUBSET S : ~ \E g : IsSum(g, f, T)}
<1>1. SUFFICES ASSUME Q # {} PROVE FALSE
  OBVIOUS
<1>2. PICK T \in Q : \A V \in Q : ~(V \subseteq T /\ V # T)
  <2>1. Q \in SUBSET SUBSET S
    OBVIOUS
  <2> HIDE DEF Q
  <2> QED
    BY <1>1, <2>1, SmallestSubset
<1>3. \A U \in SUBSET T : U # T => IsFiniteSet(U) /\ IsSum(CHOOSE g : IsSum(g, f, U), f, U)
  <2> SUFFICES ASSUME NEW U \in SUBSET T, U # T
               PROVE  IsFiniteSet(U) /\ \E g : IsSum(g, f, U)
    OBVIOUS
  <2>1. IsFiniteSet(U)
    BY FS_Subset
  <2> QED
    BY <1>2, <2>1
<1> DEFINE part(U) == CHOOSE g : IsSum(g, f, U)
           whole == [U \in SUBSET T |->
                       IF U = {} THEN 0
                       ELSE f[FirstOf(U)] + part(U \ {FirstOf(U)})[U \ {FirstOf(U)}]]
<1>4. \A U \in SUBSET T : U # T => whole[U] = part(U)[U]
  <2> SUFFICES ASSUME NEW U \in SUBSET T, U # T PROVE whole[U] = part(U)[U]
    OBVIOUS
  <2>1. IsSum(part(U), f, U)
    BY <1>3
  <2>2. CASE U = {}
    BY <2>1, <2>2, SumStep
  <2>3. CASE U # {}
    <3> DEFINE W == U \ {FirstOf(U)}
    <3>1. W \in SUBSET T /\ W # T /\ W \in SUBSET U
      BY <2>3, FirstOfIn
    <3>2. IsSum(part(W), f, W) /\ IsFiniteSet(W)
      BY <1>3, <3>1
    <3> HIDE DEF part, W, whole
    <3>3. part(W)[W] = part(U)[W]
      BY <2>1, <3>1, <3>2, SumUnique
    <3>4. part(U)[U] = f[FirstOf(U)] + part(U)[W]
      BY <2>1, <2>3, SumStep DEF W
    <3>5. whole[U] = f[FirstOf(U)] + part(W)[W]
      BY <2>3 DEF whole, W
    <3> QED
      BY <3>3, <3>4, <3>5
  <2> QED
    BY <2>2, <2>3
<1> HIDE DEF part
<1>5. \A U \in SUBSET T : U # {} => whole[U \ {FirstOf(U)}] = part(U \ {FirstOf(U)})[U \ {FirstOf(U)}]
  <2> SUFFICES ASSUME NEW U \in SUBSET T, U # {}
               PROVE  whole[U \ {FirstOf(U)}] = part(U \ {FirstOf(U)})[U \ {FirstOf(U)}]
    OBVIOUS
  <2>1. U \ {FirstOf(U)} \in SUBSET T /\ U \ {FirstOf(U)} # T
    BY FirstOfIn
  <2> QED
    BY <1>4, <2>1
<1>6. IsSum(whole, f, T)
  BY <1>5 DEF IsSum
<1> QED
  BY <1>6

\* The sum over a set: of none, and of the first element and the others.
LEMMA SumOverStep ==
  ASSUME NEW f, NEW S, IsFiniteSet(S)
  PROVE  SumOver(f, S) = IF S = {} THEN 0 ELSE f[FirstOf(S)] + SumOver(f, S \ {FirstOf(S)})
<1> DEFINE R == S \ {FirstOf(S)}
           g == CHOOSE g : IsSum(g, f, S)
           h == CHOOSE h : IsSum(h, f, R)
<1>1. IsFiniteSet(R) /\ R \in SUBSET S
  BY FS_Subset
<1>2. IsSum(g, f, S) /\ IsSum(h, f, R)
  BY <1>1, SumExists
<1>3. SumOver(f, S) = g[S] /\ SumOver(f, R) = h[R]
  BY DEF SumOver
<1> HIDE DEF g, h, R
<1>4. g[R] = h[R]
  BY <1>1, <1>2, SumUnique
<1>5. S \in SUBSET S
  OBVIOUS
<1>6. g[S] = IF S = {} THEN 0 ELSE f[FirstOf(S)] + g[S \ {FirstOf(S)}]
  BY <1>2, <1>5, SumStep
<1> QED
  BY <1>3, <1>4, <1>6 DEF R

LEMMA SumOverEmpty ==
  ASSUME NEW f
  PROVE  SumOver(f, {}) = 0
BY SumOverStep, FS_EmptySet

\* The sum of integers is an integer.
LEMMA SumOverInt ==
  ASSUME NEW S, IsFiniteSet(S), NEW f, \A x \in S : f[x] \in Int
  PROVE  SumOver(f, S) \in Int
<1> DEFINE Q == {T \in SUBSET S : SumOver(f, T) \notin Int}
<1>1. SUFFICES ASSUME Q # {} PROVE FALSE
  OBVIOUS
<1>2. PICK T \in Q : \A V \in Q : ~(V \subseteq T /\ V # T)
  <2>1. Q \in SUBSET SUBSET S
    OBVIOUS
  <2> HIDE DEF Q
  <2> QED
    BY <1>1, <2>1, SmallestSubset
<1>3. T \in SUBSET S /\ IsFiniteSet(T)
  BY FS_Subset
<1>4. T # {}
  BY SumOverEmpty
<1> DEFINE R == T \ {FirstOf(T)}
<1>5. FirstOf(T) \in T
  BY <1>4, FirstOfIn
<1>6. SumOver(f, R) \in Int
  BY <1>2, <1>3, <1>5
<1>7. f[FirstOf(T)] \in Int
  BY <1>3, <1>5
<1>8. SumOver(f, T) = f[FirstOf(T)] + SumOver(f, R)
  BY <1>3, <1>4, SumOverStep
<1>9. SumOver(f, T) \in Int
  BY <1>6, <1>7, <1>8
<1> QED
  BY <1>9

\* Any element may be taken out first.
LEMMA SumOverRemove ==
  ASSUME NEW S, IsFiniteSet(S), NEW f, \A x \in S : f[x] \in Int, NEW y \in S
  PROVE  SumOver(f, S) = f[y] + SumOver(f, S \ {y})
<1> DEFINE Q == {T \in SUBSET S : \E x \in T : SumOver(f, T) # f[x] + SumOver(f, T \ {x})}
<1>1. SUFFICES ASSUME Q # {} PROVE FALSE
  OBVIOUS
<1>2. PICK T \in Q : \A V \in Q : ~(V \subseteq T /\ V # T)
  <2>1. Q \in SUBSET SUBSET S
    OBVIOUS
  <2> HIDE DEF Q
  <2> QED
    BY <1>1, <2>1, SmallestSubset
<1>3. PICK x \in T : SumOver(f, T) # f[x] + SumOver(f, T \ {x})
  OBVIOUS
<1> DEFINE c == FirstOf(T)
<1>4. T \in SUBSET S /\ T # {} /\ c \in T
  BY FirstOfIn
<1>5. SumOver(f, T) = f[c] + SumOver(f, T \ {c})
  <2>1. IsFiniteSet(T)
    BY <1>4, FS_Subset
  <2> QED
    BY <1>4, <2>1, SumOverStep
<1> HIDE DEF c
<1>6. x # c
  BY <1>3, <1>5
<1>7. \A U \in SUBSET S : U \subseteq T /\ U # T =>
        \A z \in U : SumOver(f, U) = f[z] + SumOver(f, U \ {z})
  BY <1>2
<1>8. SumOver(f, T \ {c}) = f[x] + SumOver(f, (T \ {c}) \ {x})
  BY <1>4, <1>6, <1>7
<1>9. SumOver(f, T \ {x}) = f[c] + SumOver(f, (T \ {x}) \ {c})
  BY <1>4, <1>6, <1>7
<1>10. (T \ {c}) \ {x} = (T \ {x}) \ {c}
  OBVIOUS
<1>11. SumOver(f, (T \ {x}) \ {c}) \in Int
  <2>1. (T \ {x}) \ {c} \in SUBSET S
    BY <1>4
  <2>2. IsFiniteSet((T \ {x}) \ {c})
    BY <2>1, FS_Subset
  <2> QED
    BY <2>1, <2>2, SumOverInt
<1>12. f[x] \in Int /\ f[c] \in Int
  BY <1>4
<1> DEFINE r == SumOver(f, (T \ {x}) \ {c})
<1>13. SumOver(f, T) = f[c] + (f[x] + r) /\ f[x] + SumOver(f, T \ {x}) = f[x] + (f[c] + r)
  BY <1>5, <1>8, <1>9, <1>10
<1> HIDE DEF r
<1>14. SumOver(f, T) = f[x] + SumOver(f, T \ {x})
  BY <1>11, <1>12, <1>13 DEF r
<1> QED
  BY <1>3, <1>14

\* Functions that agree on a set have the same sum over it.
LEMMA SumOverSame ==
  ASSUME NEW S, IsFiniteSet(S), NEW f, NEW h, \A x \in S : f[x] = h[x]
  PROVE  SumOver(f, S) = SumOver(h, S)
<1> DEFINE Q == {T \in SUBSET S : SumOver(f, T) # SumOver(h, T)}
<1>1. SUFFICES ASSUME Q # {} PROVE FALSE
  OBVIOUS
<1>2. PICK T \in Q : \A V \in Q : ~(V \subseteq T /\ V # T)
  <2>1. Q \in SUBSET SUBSET S
    OBVIOUS
  <2> HIDE DEF Q
  <2> QED
    BY <1>1, <2>1, SmallestSubset
<1>3. T \in SUBSET S /\ IsFiniteSet(T)
  BY FS_Subset
<1>4. T # {}
  BY SumOverEmpty
<1>5. FirstOf(T) \in T
  BY <1>4, FirstOfIn
<1> DEFINE R == T \ {FirstOf(T)}
<1>6. SumOver(f, R) = SumOver(h, R)
  BY <1>2, <1>3, <1>5
<1>7. SumOver(f, T) = f[FirstOf(T)] + SumOver(f, R) /\ SumOver(h, T) = h[FirstOf(T)] + SumOver(h, R)
  BY <1>3, <1>4, SumOverStep
<1>8. SumOver(f, T) = SumOver(h, T)
  BY <1>3, <1>5, <1>6, <1>7
<1> QED
  BY <1>8

-----------------------------------------------------------------------------
(* What the proofs about the models use: sums of the values of a function. *)

LEMMA SumOfDomain ==
  ASSUME NEW f
  PROVE  SumFunction(f) = SumOver(f, DOMAIN f)
BY SumIsSumOver DEF SumFunction

\* The sum of integers is an integer.
THEOREM SumType ==
  ASSUME NEW S, IsFiniteSet(S), NEW f, DOMAIN f = S, \A x \in S : f[x] \in Int
  PROVE  SumFunction(f) \in Int
BY SumOverInt, SumOfDomain

\* Nothing sums up to 0.
THEOREM SumEmpty ==
  ASSUME NEW f, DOMAIN f = {}
  PROVE  SumFunction(f) = 0
BY SumOverEmpty, SumOfDomain

\* What x adds to the sum of f.
At(f, x) == IF x \in DOMAIN f THEN f[x] ELSE 0

\* The sum of f without x.
LEMMA SumWithout ==
  ASSUME NEW f, IsFiniteSet(DOMAIN f), \A y \in DOMAIN f : f[y] \in Int, NEW x
  PROVE  /\ SumFunction(f) = SumOver(f, DOMAIN f \ {x}) + At(f, x)
         /\ SumOver(f, DOMAIN f \ {x}) \in Int
         /\ At(f, x) \in Int
<1>1. At(f, x) \in Int
  BY DEF At
<1>2. SumOver(f, DOMAIN f \ {x}) \in Int
  <2>1. IsFiniteSet(DOMAIN f \ {x})
    BY FS_Subset
  <2> QED
    BY <2>1, SumOverInt
<1>3. CASE x \in DOMAIN f
  <2>1. SumOver(f, DOMAIN f) = f[x] + SumOver(f, DOMAIN f \ {x})
    BY <1>3, SumOverRemove
  <2>2. SumFunction(f) = At(f, x) + SumOver(f, DOMAIN f \ {x})
    BY <1>3, <2>1, SumOfDomain DEF At
  <2> QED
    BY <1>1, <1>2, <2>2
<1>4. CASE x \notin DOMAIN f
  <2>1. DOMAIN f \ {x} = DOMAIN f
    BY <1>4
  <2>2. SumFunction(f) = SumOver(f, DOMAIN f \ {x})
    BY <2>1, SumOfDomain
  <2>3. At(f, x) = 0
    BY <1>4 DEF At
  <2> QED
    BY <1>2, <2>2, <2>3
<1> QED
  BY <1>3, <1>4

\* Functions that differ at one point only, where either may be undefined,
\* have sums that differ by what they have there.
THEOREM SumDiffers ==
  ASSUME NEW f, IsFiniteSet(DOMAIN f), \A y \in DOMAIN f : f[y] \in Int,
         NEW g, IsFiniteSet(DOMAIN g), \A y \in DOMAIN g : g[y] \in Int,
         NEW x, DOMAIN f \ {x} = DOMAIN g \ {x},
         \A y \in DOMAIN f \ {x} : g[y] = f[y]
  PROVE  SumFunction(g) = SumFunction(f) - At(f, x) + At(g, x)
<1>1. IsFiniteSet(DOMAIN f \ {x})
  BY FS_Subset
<1>2. SumOver(f, DOMAIN f \ {x}) = SumOver(g, DOMAIN f \ {x})
  BY <1>1, SumOverSame
<1>3. SumOver(f, DOMAIN f \ {x}) = SumOver(g, DOMAIN g \ {x})
  BY <1>2
<1>4. /\ SumFunction(f) = SumOver(f, DOMAIN f \ {x}) + At(f, x)
      /\ SumOver(f, DOMAIN f \ {x}) \in Int
      /\ At(f, x) \in Int
  BY SumWithout
<1>5. /\ SumFunction(g) = SumOver(g, DOMAIN g \ {x}) + At(g, x)
      /\ At(g, x) \in Int
  BY SumWithout
<1> QED
  BY <1>3, <1>4, <1>5

\* The sum of a function of integers of which one value changes.
LEMMA SumChanges ==
  ASSUME NEW S, IsFiniteSet(S), NEW f, DOMAIN f = S, \A y \in S : f[y] \in Int,
         NEW g, DOMAIN g = S, \A y \in S : g[y] \in Int,
         NEW x \in S, \A y \in S \ {x} : g[y] = f[y]
  PROVE  /\ SumFunction(f) \in Int /\ SumFunction(g) \in Int
         /\ SumFunction(g) = SumFunction(f) - f[x] + g[x]
<1>1. SumFunction(f) \in Int /\ SumFunction(g) \in Int
  BY SumType
<1>2. SumFunction(g) = SumFunction(f) - At(f, x) + At(g, x)
  BY SumDiffers
<1> QED
  BY <1>1, <1>2 DEF At

\* Functions with the same values have the same sum.
THEOREM SumSame ==
  ASSUME NEW S, IsFiniteSet(S), NEW f, DOMAIN f = S, NEW g, DOMAIN g = S,
         \A y \in S : g[y] = f[y]
  PROVE  SumFunction(g) = SumFunction(f)
BY SumOverSame, SumOfDomain

\* More and greater natural numbers have no smaller sum.
THEOREM SumMonotone ==
  ASSUME NEW T, IsFiniteSet(T), NEW S \in SUBSET T,
         NEW f, DOMAIN f = S, NEW g, DOMAIN g = T,
         \A y \in T : g[y] \in Nat, \A y \in S : f[y] \in Nat /\ f[y] <= g[y]
  PROVE  SumFunction(f) <= SumFunction(g)
<1> DEFINE F(U) == SumOver(f, U \cap S)
           Q == {U \in SUBSET T : ~(F(U) <= SumOver(g, U))}
<1>1. T \notin Q
  <2>1. SUFFICES ASSUME Q # {} PROVE FALSE
    OBVIOUS
  <2>2. PICK U \in Q : \A V \in Q : ~(V \subseteq U /\ V # U)
    <3>1. Q \in SUBSET SUBSET T
      OBVIOUS
    <3> HIDE DEF Q
    <3> QED
      BY <2>1, <3>1, SmallestSubset
  <2>3. U \in SUBSET T /\ IsFiniteSet(U) /\ IsFiniteSet(U \cap S)
    BY FS_Subset
  <2>4. U # {}
    <3>1. U = {} => F(U) = 0 /\ SumOver(g, U) = 0
      BY SumOverEmpty
    <3> QED
      BY <3>1
  <2>5. PICK x \in U : TRUE
    BY <2>4
  <2> DEFINE V == U \ {x}
  <2>6. V \in SUBSET T /\ IsFiniteSet(V) /\ IsFiniteSet(V \cap S)
    BY <2>3, FS_Subset
  <2>7. F(V) <= SumOver(g, V)
    BY <2>2, <2>6
  <2>8. SumOver(g, U) = g[x] + SumOver(g, V) /\ g[x] \in Nat
    BY <2>3, SumOverRemove
  <2>9. SumOver(g, V) \in Int /\ F(V) \in Int
    BY <2>6, SumOverInt
  <2>10. F(U) <= SumOver(g, U)
    <3>1. CASE x \in S
      <4>1. F(U) = f[x] + SumOver(f, (U \cap S) \ {x})
        BY <2>3, <3>1, SumOverRemove
      <4>2. (U \cap S) \ {x} = V \cap S
        OBVIOUS
      <4>3. f[x] \in Nat /\ f[x] <= g[x]
        BY <3>1
      <4>4. F(U) = f[x] + F(V)
        BY <4>1, <4>2
      <4> HIDE DEF F, V
      <4> QED
        BY <2>7, <2>8, <2>9, <4>3, <4>4
    <3>2. CASE x \notin S
      <4>1. U \cap S = V \cap S
        BY <3>2
      <4>2. F(U) = F(V)
        BY <4>1
      <4> HIDE DEF F, V
      <4> QED
        BY <2>7, <2>8, <2>9, <4>2
    <3> QED
      BY <3>1, <3>2
  <2> QED
    BY <2>10
<1>2. F(T) <= SumOver(g, T)
  BY <1>1
<1>3. T \cap S = S
  OBVIOUS
<1> QED
  BY <1>2, <1>3, SumOfDomain

\* The sum of natural numbers is one.
THEOREM SumNat ==
  ASSUME NEW S, IsFiniteSet(S), NEW f, DOMAIN f = S, \A x \in S : f[x] \in Nat
  PROVE  SumFunction(f) \in Nat
<1> DEFINE none == [x \in {} |-> 0]
<1>1. SumFunction(none) = 0
  BY SumEmpty
<1>2. DOMAIN none = {} /\ {} \in SUBSET S /\ \A x \in {} : none[x] \in Nat /\ none[x] <= f[x]
  OBVIOUS
<1> HIDE DEF none
<1>3. SumFunction(none) <= SumFunction(f)
  BY <1>2, SumMonotone
<1>4. SumFunction(f) \in Int
  BY SumType
<1> QED
  BY <1>1, <1>3, <1>4

\* Zeros sum up to 0.
THEOREM SumZero ==
  ASSUME NEW S, IsFiniteSet(S), NEW f, DOMAIN f = S, \A x \in S : f[x] = 0
  PROVE  SumFunction(f) = 0
<1> DEFINE Q == {T \in SUBSET S : SumOver(f, T) # 0}
<1>1. Q = {}
  <2>1. SUFFICES ASSUME Q # {} PROVE FALSE
    OBVIOUS
  <2>2. PICK T \in Q : \A V \in Q : ~(V \subseteq T /\ V # T)
    <3>1. Q \in SUBSET SUBSET S
      OBVIOUS
    <3> HIDE DEF Q
    <3> QED
      BY <2>1, <3>1, SmallestSubset
  <2>3. T \in SUBSET S /\ IsFiniteSet(T)
    BY FS_Subset
  <2>4. T # {}
    BY SumOverEmpty
  <2>5. FirstOf(T) \in T
    BY <2>4, FirstOfIn
  <2>6. SumOver(f, T \ {FirstOf(T)}) = 0
    BY <2>2, <2>3, <2>5
  <2>7. SumOver(f, T) = f[FirstOf(T)] + SumOver(f, T \ {FirstOf(T)})
    BY <2>3, <2>4, SumOverStep
  <2>8. SumOver(f, T) = 0
    BY <2>3, <2>5, <2>6, <2>7
  <2> QED
    BY <2>8
<1> QED
  BY <1>1, SumOfDomain

\* A sum of sums, value by value.
THEOREM SumPlus ==
  ASSUME NEW S, IsFiniteSet(S), NEW f, DOMAIN f = S, NEW g, DOMAIN g = S, NEW h, DOMAIN h = S,
         \A x \in S : f[x] \in Int /\ g[x] \in Int /\ h[x] = f[x] + g[x]
  PROVE  SumFunction(h) = SumFunction(f) + SumFunction(g)
<1> DEFINE Q == {T \in SUBSET S : SumOver(h, T) # SumOver(f, T) + SumOver(g, T)}
<1>1. Q = {}
  <2>1. SUFFICES ASSUME Q # {} PROVE FALSE
    OBVIOUS
  <2>2. PICK T \in Q : \A V \in Q : ~(V \subseteq T /\ V # T)
    <3>1. Q \in SUBSET SUBSET S
      OBVIOUS
    <3> HIDE DEF Q
    <3> QED
      BY <2>1, <3>1, SmallestSubset
  <2>3. T \in SUBSET S /\ IsFiniteSet(T)
    BY FS_Subset
  <2>4. T # {}
    <3>1. T = {} => SumOver(h, T) = 0 /\ SumOver(f, T) = 0 /\ SumOver(g, T) = 0
      BY SumOverEmpty
    <3> QED
      BY <3>1
  <2>5. PICK x \in T : TRUE
    BY <2>4
  <2> DEFINE R == T \ {x}
  <2>6. R \in SUBSET S /\ IsFiniteSet(R)
    BY <2>3, FS_Subset
  <2>7. SumOver(h, R) = SumOver(f, R) + SumOver(g, R)
    BY <2>2, <2>6
  <2>8. /\ SumOver(h, T) = h[x] + SumOver(h, R)
        /\ SumOver(f, T) = f[x] + SumOver(f, R)
        /\ SumOver(g, T) = g[x] + SumOver(g, R)
    <3>1. \A y \in T : h[y] \in Int /\ f[y] \in Int /\ g[y] \in Int
      BY <2>3
    <3> QED
      BY <2>3, <3>1, SumOverRemove
  <2>9. SumOver(f, R) \in Int /\ SumOver(g, R) \in Int
    BY <2>6, SumOverInt
  <2>10. f[x] \in Int /\ g[x] \in Int /\ h[x] = f[x] + g[x]
    BY <2>3
  <2> HIDE DEF R
  <2>11. SumOver(h, T) = SumOver(f, T) + SumOver(g, T)
    BY <2>7, <2>8, <2>9, <2>10
  <2> QED
    BY <2>11
<1> QED
  BY <1>1, SumOfDomain

\* Zeros add nothing to a sum.
THEOREM SumSupport ==
  ASSUME NEW T, IsFiniteSet(T), NEW S \in SUBSET T,
         NEW f, DOMAIN f = S, NEW g, DOMAIN g = T,
         \A y \in S : f[y] \in Int /\ g[y] = f[y], \A y \in T \ S : g[y] = 0
  PROVE  SumFunction(g) = SumFunction(f)
<1> DEFINE F(U) == SumOver(f, U \cap S)
           Q == {U \in SUBSET T : F(U) # SumOver(g, U)}
<1>1. Q = {}
  <2>1. SUFFICES ASSUME Q # {} PROVE FALSE
    OBVIOUS
  <2>2. PICK U \in Q : \A V \in Q : ~(V \subseteq U /\ V # U)
    <3>1. Q \in SUBSET SUBSET T
      OBVIOUS
    <3> HIDE DEF Q
    <3> QED
      BY <2>1, <3>1, SmallestSubset
  <2>3. U \in SUBSET T /\ IsFiniteSet(U) /\ IsFiniteSet(U \cap S)
    BY FS_Subset
  <2>4. U # {}
    <3>1. U = {} => F(U) = 0 /\ SumOver(g, U) = 0
      BY SumOverEmpty
    <3> QED
      BY <3>1
  <2>5. PICK x \in U : TRUE
    BY <2>4
  <2> DEFINE V == U \ {x}
  <2>6. V \in SUBSET T /\ IsFiniteSet(V) /\ IsFiniteSet(V \cap S)
    BY <2>3, FS_Subset
  <2>7. F(V) = SumOver(g, V)
    BY <2>2, <2>6
  <2>8. SumOver(g, U) = g[x] + SumOver(g, V) /\ g[x] \in Int
    BY <2>3, SumOverRemove
  <2>9. SumOver(g, V) \in Int /\ F(V) \in Int
    BY <2>6, SumOverInt
  <2>10. F(U) = SumOver(g, U)
    <3>1. CASE x \in S
      <4>1. F(U) = f[x] + SumOver(f, (U \cap S) \ {x})
        BY <2>3, <3>1, SumOverRemove
      <4>2. (U \cap S) \ {x} = V \cap S
        OBVIOUS
      <4>3. g[x] = f[x]
        BY <3>1
      <4>4. F(U) = f[x] + F(V)
        BY <4>1, <4>2
      <4> HIDE DEF F, V
      <4> QED
        BY <2>7, <2>8, <2>9, <4>3, <4>4
    <3>2. CASE x \notin S
      <4>1. U \cap S = V \cap S
        BY <3>2
      <4>2. F(U) = F(V) /\ g[x] = 0
        BY <2>3, <3>2, <4>1
      <4> HIDE DEF F, V
      <4> QED
        BY <2>7, <2>8, <2>9, <4>2
    <3> QED
      BY <3>1, <3>2
  <2> QED
    BY <2>10
<1>2. F(T) = SumOver(g, T)
  BY <1>1
<1>3. T \cap S = S
  OBVIOUS
<1> QED
  BY <1>2, <1>3, SumOfDomain

\* What a set sums up to is what the function restricted to it sums up to.
LEMMA SumRestricted ==
  ASSUME NEW f, NEW T, IsFiniteSet(T)
  PROVE  SumFunction([x \in T |-> f[x]]) = SumOver(f, T)
<1> DEFINE g == [x \in T |-> f[x]]
<1>1. DOMAIN g = T /\ \A x \in T : g[x] = f[x]
  OBVIOUS
<1> HIDE DEF g
<1>2. SumFunction(g) = SumOver(f, T)
  BY <1>1, SumOverSame, SumOfDomain
<1> QED
  BY <1>2 DEF g

\* The sum of one value is that value.
LEMMA SumOverOne ==
  ASSUME NEW f, NEW x, f[x] \in Int
  PROVE  SumOver(f, {x}) = f[x]
<1>1. IsFiniteSet({x}) /\ {x} \ {x} = {}
  BY FS_Singleton
<1>2. SumOver(f, {x}) = f[x] + SumOver(f, {x} \ {x})
  BY <1>1, SumOverRemove
<1> QED
  BY <1>1, <1>2, SumOverEmpty

\* A sum may be taken class by class.
THEOREM SumClasses ==
  ASSUME NEW S, IsFiniteSet(S), NEW K, IsFiniteSet(K),
         NEW f, DOMAIN f = S, \A x \in S : f[x] \in Int,
         NEW h, \A x \in S : h[x] \in K,
         NEW g, DOMAIN g = K,
         \A k \in K : g[k] = SumFunction([x \in {y \in S : h[y] = k} |-> f[x]])
  PROVE  SumFunction(g) = SumFunction(f)
<1> DEFINE In(T, k) == {y \in T : h[y] = k}
           By(T) == [k \in K |-> SumOver(f, In(T, k))]
           Q == {T \in SUBSET S : SumFunction(By(T)) # SumOver(f, T)}
<1>1. ASSUME NEW T \in SUBSET S
      PROVE  /\ IsFiniteSet(T) /\ DOMAIN By(T) = K
             /\ \A k \in K : /\ By(T)[k] = SumOver(f, In(T, k)) /\ By(T)[k] \in Int
                             /\ IsFiniteSet(In(T, k)) /\ In(T, k) \in SUBSET S
  <2>1. \A k \in K : IsFiniteSet(In(T, k)) /\ In(T, k) \in SUBSET S
    BY FS_Subset
  <2>2. IsFiniteSet(T)
    BY FS_Subset
  <2>3. \A k \in K : \A x \in In(T, k) : f[x] \in Int
    OBVIOUS
  <2> HIDE DEF In
  <2>4. \A k \in K : SumOver(f, In(T, k)) \in Int
    BY <2>1, <2>3, SumOverInt
  <2> QED
    BY <2>1, <2>2, <2>4
<1>2. Q = {}
  <2>1. SUFFICES ASSUME Q # {} PROVE FALSE
    OBVIOUS
  <2>2. PICK T \in Q : \A V \in Q : ~(V \subseteq T /\ V # T)
    <3>1. Q \in SUBSET SUBSET S
      OBVIOUS
    <3> HIDE DEF Q
    <3> QED
      BY <2>1, <3>1, SmallestSubset
  <2>3. T \in SUBSET S
    OBVIOUS
  <2>4. T # {}
    <3>1. SUFFICES ASSUME T = {} PROVE FALSE
      OBVIOUS
    <3>2. \A k \in K : By(T)[k] = 0
      <4>1. \A k \in K : In(T, k) = {}
        BY <3>1
      <4> QED
        BY <4>1, SumOverEmpty
    <3>3. DOMAIN By(T) = K
      OBVIOUS
    <3> HIDE DEF By
    <3>4. SumFunction(By(T)) = 0
      BY <3>2, <3>3, SumZero
    <3>5. SumOver(f, T) = 0
      BY <3>1, SumOverEmpty
    <3> QED
      BY <2>2, <3>4, <3>5
  <2>5. PICK x \in T : TRUE
    BY <2>4
  <2> DEFINE R == T \ {x}
             c == h[x]
  <2>6. R \in SUBSET S /\ x \in S /\ c \in K
    BY <2>3
  <2>7. SumFunction(By(R)) = SumOver(f, R)
    BY <2>2, <2>6
  <2>8. SumOver(f, T) = f[x] + SumOver(f, R) /\ f[x] \in Int
    <3>1. IsFiniteSet(T) /\ \A y \in T : f[y] \in Int
      BY <2>3, FS_Subset
    <3> QED
      BY <3>1, SumOverRemove
  <2>9. SumOver(f, R) \in Int
    BY <1>1, <2>6, SumOverInt
  <2>10. By(T)[c] = f[x] + By(R)[c]
    <3>1. x \in In(T, c) /\ In(T, c) \ {x} = In(R, c) /\ \A y \in In(T, c) : f[y] \in Int
      BY <2>3
    <3>2. IsFiniteSet(In(T, c))
      BY <1>1, <2>3, <2>6
    <3> HIDE DEF In
    <3>3. SumOver(f, In(T, c)) = f[x] + SumOver(f, In(T, c) \ {x})
      BY <3>1, <3>2, SumOverRemove
    <3> QED
      BY <2>6, <3>1, <3>3
  <2>11. \A k \in K \ {c} : By(T)[k] = By(R)[k]
    <3>1. \A k \in K \ {c} : In(T, k) = In(R, k)
      OBVIOUS
    <3> HIDE DEF In
    <3> QED
      BY <3>1
  <2>12. /\ DOMAIN By(T) = K /\ DOMAIN By(R) = K
         /\ \A k \in K : By(T)[k] \in Int /\ By(R)[k] \in Int
    BY <1>1, <2>3, <2>6
  <2> HIDE DEF By, In, R, c, Q
  <2>13. /\ SumFunction(By(R)) \in Int
         /\ SumFunction(By(T)) = SumFunction(By(R)) - By(R)[c] + By(T)[c]
    BY <2>6, <2>11, <2>12, SumChanges
  <2>14. SumFunction(By(T)) = SumFunction(By(R)) + f[x]
    BY <2>6, <2>8, <2>10, <2>12, <2>13
  <2>15. SumFunction(By(T)) = SumOver(f, T)
    BY <2>7, <2>8, <2>9, <2>14
  <2> QED
    BY <2>2, <2>15 DEF Q
<1>3. SumFunction(By(S)) = SumOver(f, S)
  BY <1>2
<1>4. \A k \in K : g[k] = By(S)[k]
  <2>1. \A k \in K : SumFunction([x \in In(S, k) |-> f[x]]) = SumOver(f, In(S, k))
    <3>1. \A k \in K : IsFiniteSet(In(S, k))
      BY <1>1
    <3> HIDE DEF In
    <3> QED
      BY <3>1, SumRestricted
  <2> QED
    BY <2>1
<1>5. DOMAIN By(S) = K
  OBVIOUS
<1> HIDE DEF By
<1>6. SumFunction(g) = SumFunction(By(S))
  BY <1>4, <1>5, SumSame
<1> QED
  BY <1>3, <1>6, SumOfDomain

\* A sum over a set is the sum over any other that is the same size, value by
\* value.
THEOREM SumImage ==
  ASSUME NEW S, IsFiniteSet(S), NEW K, NEW f, DOMAIN f = S, \A x \in S : f[x] \in Int,
         NEW h, \A x \in S : h[x] \in K, \A k \in K : \E x \in S : h[x] = k,
         \A x, y \in S : h[x] = h[y] => x = y,
         NEW g, DOMAIN g = K, \A x \in S : g[h[x]] = f[x]
  PROVE  SumFunction(g) = SumFunction(f)
<1>1. IsFiniteSet(K)
  <2> DEFINE e == [x \in S |-> h[x]]
  <2>1. e \in Surjection(S, K)
    BY DEF Surjection
  <2> QED
    BY <2>1, FS_Surjection
<1>2. ASSUME NEW k \in K
      PROVE  g[k] = SumFunction([x \in {y \in S : h[y] = k} |-> f[x]])
  <2>1. PICK x \in S : h[x] = k
    OBVIOUS
  <2>2. {y \in S : h[y] = k} = {x}
    BY <2>1
  <2>3. SumFunction([y \in {x} |-> f[y]]) = SumOver(f, {x})
    BY SumRestricted, FS_Singleton
  <2>4. SumOver(f, {x}) = f[x]
    BY SumOverOne
  <2> QED
    BY <2>1, <2>2, <2>3, <2>4
<1> QED
  BY <1>1, <1>2, SumClasses

\* A sum over two sets apart from each other.
THEOREM SumUnion ==
  ASSUME NEW A, IsFiniteSet(A), NEW B, IsFiniteSet(B), A \cap B = {},
         NEW g, DOMAIN g = A, \A x \in A : g[x] \in Int,
         NEW h, DOMAIN h = B, \A x \in B : h[x] \in Int,
         NEW f, DOMAIN f = A \cup B, \A x \in A : f[x] = g[x], \A x \in B : f[x] = h[x]
  PROVE  SumFunction(f) = SumFunction(g) + SumFunction(h)
<1> DEFINE S == A \cup B
           gs == [x \in S |-> IF x \in A THEN g[x] ELSE 0]
           hs == [x \in S |-> IF x \in B THEN h[x] ELSE 0]
<1>1. IsFiniteSet(S) /\ A \in SUBSET S /\ B \in SUBSET S
  BY FS_Union
<1>2. /\ DOMAIN gs = S /\ \A x \in A : gs[x] = g[x] /\ g[x] \in Int
      /\ DOMAIN hs = S /\ \A x \in B : hs[x] = h[x] /\ h[x] \in Int
      /\ \A x \in S \ A : gs[x] = 0
      /\ \A x \in S \ B : hs[x] = 0
  OBVIOUS
<1>3. \A x \in S : gs[x] \in Int /\ hs[x] \in Int /\ f[x] = gs[x] + hs[x]
  <2>1. \A x \in A : x \notin B /\ x \in S
    OBVIOUS
  <2>2. \A x \in B : x \notin A /\ x \in S
    OBVIOUS
  <2> QED
    BY <2>1, <2>2
<1>4. DOMAIN f = S
  OBVIOUS
<1> HIDE DEF gs, hs, S
<1>5. SumFunction(gs) = SumFunction(g)
  BY <1>1, <1>2, SumSupport
<1>6. SumFunction(hs) = SumFunction(h)
  BY <1>1, <1>2, SumSupport
<1>7. SumFunction(f) = SumFunction(gs) + SumFunction(hs)
  BY <1>1, <1>2, <1>3, <1>4, SumPlus
<1> QED
  BY <1>5, <1>6, <1>7

\* A sum of the values with their signs turned.
THEOREM SumMinus ==
  ASSUME NEW S, IsFiniteSet(S), NEW f, DOMAIN f = S, \A x \in S : f[x] \in Int,
         NEW g, DOMAIN g = S, \A x \in S : g[x] = 0 - f[x]
  PROVE  SumFunction(g) = 0 - SumFunction(f)
<1> DEFINE z == [x \in S |-> 0]
<1>1. DOMAIN z = S /\ \A x \in S : z[x] = 0 /\ g[x] \in Int /\ z[x] = f[x] + g[x]
  OBVIOUS
<1> HIDE DEF z
<1>2. SumFunction(z) = 0 /\ SumFunction(z) = SumFunction(f) + SumFunction(g)
  BY <1>1, SumZero, SumPlus
<1>3. SumFunction(f) \in Int /\ SumFunction(g) \in Int
  BY <1>1, SumType
<1> QED
  BY <1>2, <1>3

=============================================================================
