---------------------------- MODULE SumTheorems -----------------------------
(***************************************************************************)
(* Sums of integers over finite sets, as MapThenSumSet of FiniteSetsExt    *)
(* computes them: element by element, in an order that is not known.       *)
(***************************************************************************)
EXTENDS Integers, FiniteSetsExt, FiniteSetTheorems, WellFoundedInduction,
        TLAPS

(* Among some subsets of a finite set there is a least one.                *)
LEMMA LeastSubset ==
  ASSUME NEW S, IsFiniteSet(S), NEW T, T \subseteq SUBSET S, T # {}
  PROVE  \E U \in T : \A V \in T : ~(V \subseteq U /\ V # U)
<1>1. T \subseteq FiniteSubsetsOf(S)
  BY FS_Subset DEF FiniteSubsetsOf
<1>2. IsWellFoundedOn(StrictSubsetOrdering(S), FiniteSubsetsOf(S))
  BY FS_StrictSubsetOrderingWellFounded
<1>3. PICK U \in T : \A V \in T : <<V, U>> \notin StrictSubsetOrdering(S)
  BY <1>1, <1>2, WFMin
<1>4. ASSUME NEW V \in T, V \subseteq U, V # U
      PROVE  FALSE
  <2>1. <<V, U>> \in StrictSubsetOrdering(S)
    BY <1>4 DEF StrictSubsetOrdering
  <2> QED
    BY <1>3, <2>1
<1> QED
  BY <1>4

(* g adds up the values of f on the subsets of S, in the order that c      *)
(* takes the elements of a set.                                            *)
Adds(g, f, c, S) ==
  g = [s \in SUBSET S |->
         IF s = {} THEN 0 ELSE f[c[s]] + g[s \ {c[s]}]]

TakesElements(c, S) == \A s \in SUBSET S : s # {} => c[s] \in s

(* As Adds, on sets of up to n elements.                                   *)
AddsUpTo(n, g, f, c, S) ==
  \A s \in SUBSET S :
    Cardinality(s) <= n =>
      g[s] = IF s = {} THEN 0 ELSE f[c[s]] + g[s \ {c[s]}]

(* The recursion defines a function.                                       *)
LEMMA AddsExists ==
  ASSUME NEW S, IsFiniteSet(S), NEW f, NEW c, TakesElements(c, S)
  PROVE  \E g : Adds(g, f, c, S)
<1> DEFINE P(n) == \E g : AddsUpTo(n, g, f, c, S)
           more(g) == [s \in SUBSET S |->
                         IF s = {} THEN 0 ELSE f[c[s]] + g[s \ {c[s]}]]
<1>1. \A s \in SUBSET S : IsFiniteSet(s) /\ Cardinality(s) \in Nat
                          /\ Cardinality(s) <= Cardinality(S)
  BY FS_Subset, FS_CardinalityType
<1>2. ASSUME NEW s \in SUBSET S, s # {}
      PROVE  /\ s \ {c[s]} \in SUBSET S
             /\ Cardinality(s \ {c[s]}) = Cardinality(s) - 1
  BY <1>1, <1>2, FS_RemoveElement DEF TakesElements
<1>3. ASSUME NEW n \in Nat, NEW g, AddsUpTo(n, g, f, c, S)
      PROVE  AddsUpTo(n + 1, more(g), f, c, S)
  <2> DEFINE h == more(g)
  <2> SUFFICES ASSUME NEW s \in SUBSET S, Cardinality(s) <= n + 1
               PROVE  h[s] = IF s = {} THEN 0 ELSE f[c[s]] + h[s \ {c[s]}]
    BY DEF AddsUpTo
  <2>1. CASE s = {}
    BY <2>1
  <2>2. CASE s # {}
    <3> DEFINE r == s \ {c[s]}
    <3>1. r \in SUBSET S /\ Cardinality(r) <= n
      BY <2>2, <1>1, <1>2
    <3>2. g[r] = IF r = {} THEN 0 ELSE f[c[r]] + g[r \ {c[r]}]
      BY <1>3, <3>1 DEF AddsUpTo
    <3>3. h[r] = IF r = {} THEN 0 ELSE f[c[r]] + g[r \ {c[r]}]
      BY <3>1
    <3>4. h[s] = f[c[s]] + g[r]
      BY <2>2
    <3> QED
      BY <2>2, <3>2, <3>3, <3>4
  <2> QED
    BY <2>1, <2>2
<1>4. P(0)
  <2>1. AddsUpTo(0, [s \in SUBSET S |-> 0], f, c, S)
    BY <1>1, FS_EmptySet DEF AddsUpTo
  <2> QED
    BY <2>1
<1>5. ASSUME NEW n \in Nat
      PROVE  P(n)
  <2> DEFINE bad == {m \in Nat : ~P(m)}
  <2>1. bad = {}
    <3> SUFFICES ASSUME bad # {}
                 PROVE  FALSE
      OBVIOUS
    <3>1. PICK m \in bad : \A k \in bad : <<k, m>> \notin OpToRel(<, Nat)
      <4>1. bad \subseteq Nat
        OBVIOUS
      <4> QED
        BY <4>1, NatLessThanWellFounded, WFMin
    <3>2. m \in Nat /\ ~P(m)
      OBVIOUS
    <3>3. m # 0
      BY <1>4, <3>2
    <3>4. m - 1 \in Nat /\ (m - 1) + 1 = m
      BY <3>2, <3>3
    <3>5. <<m - 1, m>> \in OpToRel(<, Nat)
      BY <3>2, <3>4 DEF OpToRel
    <3>6. P(m - 1)
      BY <3>1, <3>4, <3>5
    <3>7. P(m)
      BY <1>3, <3>4, <3>6
    <3> QED
      BY <3>2, <3>7
  <2> QED
    BY <2>1
<1>6. PICK g : AddsUpTo(Cardinality(S), g, f, c, S)
  BY <1>1, <1>5
<1>7. AddsUpTo(Cardinality(S) + 1, more(g), f, c, S)
  BY <1>1, <1>3, <1>6
<1>8. Adds(more(g), f, c, S)
  <2> DEFINE h == more(g)
  <2>1. ASSUME NEW s \in SUBSET S
        PROVE  h[s] = IF s = {} THEN 0 ELSE f[c[s]] + h[s \ {c[s]}]
    <3>1. Cardinality(s) <= Cardinality(S) + 1
      BY <1>1, S \in SUBSET S
    <3>2. AddsUpTo(Cardinality(S) + 1, h, f, c, S)
      BY <1>7
    <3> HIDE DEF h
    <3> QED
      BY <3>1, <3>2 DEF AddsUpTo
  <2>2. h = [s \in SUBSET S |-> h[s]]
    OBVIOUS
  <2> QED
    BY <2>1, <2>2 DEF Adds
<1> QED
  BY <1>8

(* What is added up are integers, and so is the sum.                       *)
LEMMA AddsType ==
  ASSUME NEW S, IsFiniteSet(S), NEW f, \A x \in S : f[x] \in Int,
         NEW c, TakesElements(c, S), NEW g, Adds(g, f, c, S)
  PROVE  \A s \in SUBSET S : g[s] \in Int
<1> DEFINE bad == {s \in SUBSET S : g[s] \notin Int}
<1> SUFFICES ASSUME bad # {}
             PROVE  FALSE
  OBVIOUS
<1>1. PICK s \in bad : \A r \in bad : ~(r \subseteq s /\ r # s)
  <2>1. bad \subseteq SUBSET S
    OBVIOUS
  <2> HIDE DEF bad
  <2> QED
    BY <2>1, LeastSubset
<1>2. g[s] = IF s = {} THEN 0 ELSE f[c[s]] + g[s \ {c[s]}]
  BY DEF Adds
<1>3. s # {}
  BY <1>2
<1>4. c[s] \in s /\ s \ {c[s]} \subseteq s /\ s \ {c[s]} # s
  BY <1>3 DEF TakesElements
<1>5. g[s \ {c[s]}] \in Int
  BY <1>1, <1>4
<1>6. f[c[s]] \in Int
  BY <1>4
<1> QED
  BY <1>2, <1>3, <1>5, <1>6

(* Any element may be added first.                                         *)
LEMMA AddsAny ==
  ASSUME NEW S, IsFiniteSet(S), NEW f, \A x \in S : f[x] \in Int,
         NEW c, TakesElements(c, S), NEW g, Adds(g, f, c, S)
  PROVE  \A s \in SUBSET S : \A x \in s : g[s] = f[x] + g[s \ {x}]
<1> DEFINE bad == {s \in SUBSET S : \E x \in s : g[s] # f[x] + g[s \ {x}]}
<1> SUFFICES ASSUME bad # {}
             PROVE  FALSE
  OBVIOUS
<1>1. PICK s \in bad : \A r \in bad : ~(r \subseteq s /\ r # s)
  <2>1. bad \subseteq SUBSET S
    OBVIOUS
  <2> HIDE DEF bad
  <2> QED
    BY <2>1, LeastSubset
<1>2. PICK x \in s : g[s] # f[x] + g[s \ {x}]
  OBVIOUS
<1> DEFINE y == c[s]
<1>3. y \in s /\ g[s] = f[y] + g[s \ {y}]
  BY <1>2 DEF TakesElements, Adds
<1>4. x # y
  BY <1>2, <1>3
<1>5. g[s \ {y}] = f[x] + g[(s \ {y}) \ {x}]
  <2>1. s \ {y} \notin bad
    BY <1>1, <1>3
  <2> QED
    BY <2>1, <1>4
<1>6. g[s \ {x}] = f[y] + g[(s \ {x}) \ {y}]
  <2>1. s \ {x} \notin bad
    BY <1>1, <1>2
  <2> QED
    BY <2>1, <1>3, <1>4
<1>7. (s \ {y}) \ {x} = (s \ {x}) \ {y}
  OBVIOUS
<1> DEFINE r == (s \ {x}) \ {y}
<1>8. f[x] \in Int /\ f[y] \in Int /\ g[r] \in Int
  BY <1>3, AddsType
<1>9. f[x] + (f[y] + g[r]) = f[y] + (f[x] + g[r])
  BY <1>8
<1> HIDE DEF bad, r, y
<1> QED
  BY <1>2, <1>3, <1>5, <1>6, <1>7, <1>9 DEF r

(* The sum depends on nothing but the values that are added up.            *)
LEMMA AddsSame ==
  ASSUME NEW S, IsFiniteSet(S), NEW f, \A x \in S : f[x] \in Int,
         NEW c, TakesElements(c, S), NEW g, Adds(g, f, c, S),
         NEW R, IsFiniteSet(R), NEW e, \A x \in R : e[x] \in Int,
         NEW d, TakesElements(d, R), NEW h, Adds(h, e, d, R),
         NEW T, T \subseteq S, T \subseteq R, \A x \in T : f[x] = e[x]
  PROVE  g[T] = h[T]
<1> DEFINE bad == {s \in SUBSET T : g[s] # h[s]}
<1> SUFFICES ASSUME bad # {}
             PROVE  FALSE
  OBVIOUS
<1>1. PICK s \in bad : \A r \in bad : ~(r \subseteq s /\ r # s)
  <2>1. bad \subseteq SUBSET S
    OBVIOUS
  <2> HIDE DEF bad
  <2> QED
    BY <2>1, LeastSubset
<1>2. s \in SUBSET S /\ s \in SUBSET R
  OBVIOUS
<1>3. s # {}
  <2>1. g[{}] = 0 /\ h[{}] = 0
    BY DEF Adds
  <2> QED
    BY <2>1
<1>4. PICK x \in s : TRUE
  BY <1>3
<1>5. g[s] = f[x] + g[s \ {x}]
  BY <1>2, AddsAny
<1>6. h[s] = e[x] + h[s \ {x}]
  BY <1>2, AddsAny
<1>7. g[s \ {x}] = h[s \ {x}]
  BY <1>1, <1>4
<1>8. f[x] = e[x]
  BY <1>2
<1> QED
  BY <1>5, <1>6, <1>7, <1>8

-----------------------------------------------------------------------------

(* The sum of the values that f has on S.                                  *)
SumOver(f, S) == MapThenSumSet(LAMBDA x : f[x], S)

Chosen(S) == [s \in SUBSET S |-> CHOOSE x \in s : TRUE]

(* CHOOSE takes an element of every set that has one.                      *)
LEMMA ChosenTakes == \A S : TakesElements(Chosen(S), S)
  BY DEF TakesElements, Chosen

(* MapThenSumSet adds up.                                                  *)
LEMMA SumAdds ==
  ASSUME NEW S, IsFiniteSet(S), NEW f
  PROVE  \E g : Adds(g, f, Chosen(S), S) /\ SumOver(f, S) = g[S]
<1> DEFINE Iter(g) ==
      g = [s \in SUBSET S |->
             IF s = {} THEN 0
             ELSE f[CHOOSE x \in s : TRUE] + g[s \ {CHOOSE x \in s : TRUE}]]
<1>1. \A g : Adds(g, f, Chosen(S), S) <=> Iter(g)
  <2>1. \A s \in SUBSET S : Chosen(S)[s] = CHOOSE x \in s : TRUE
    BY DEF Chosen
  <2> QED
    BY <2>1 DEF Adds
<1>2. \E g : Iter(g)
  <2>1. \E g : Adds(g, f, Chosen(S), S)
    BY AddsExists, ChosenTakes
  <2> HIDE DEF Iter
  <2> QED
    BY <1>1, <2>1
<1>3. SumOver(f, S) = (CHOOSE g : Iter(g))[S]
  BY DEF SumOver, MapThenSumSet, MapThenFoldSet
<1>4. Iter(CHOOSE g : Iter(g))
  BY <1>2
<1> QED
  BY <1>1, <1>3, <1>4

(* Nothing adds up to zero.                                                *)
LEMMA SumEmpty == \A f : SumOver(f, {}) = 0
<1> SUFFICES ASSUME NEW f
             PROVE  SumOver(f, {}) = 0
  OBVIOUS
<1>1. PICK g : Adds(g, f, Chosen({}), {}) /\ SumOver(f, {}) = g[{}]
  BY SumAdds, FS_EmptySet
<1> QED
  BY <1>1 DEF Adds

(* A sum of integers is one.                                               *)
LEMMA SumType ==
  ASSUME NEW S, IsFiniteSet(S), NEW f, \A x \in S : f[x] \in Int
  PROVE  SumOver(f, S) \in Int
<1>1. PICK g : Adds(g, f, Chosen(S), S) /\ SumOver(f, S) = g[S]
  BY SumAdds
<1>2. \A s \in SUBSET S : g[s] \in Int
  BY <1>1, AddsType, ChosenTakes
<1> QED
  BY <1>1, <1>2

(* Functions that agree on a set have the same sum over it.                *)
LEMMA SumSame ==
  ASSUME NEW S, IsFiniteSet(S), NEW f, \A x \in S : f[x] \in Int,
         NEW e, \A x \in S : e[x] = f[x]
  PROVE  SumOver(e, S) = SumOver(f, S)
<1>1. PICK g : Adds(g, f, Chosen(S), S) /\ SumOver(f, S) = g[S]
  BY SumAdds
<1>2. PICK h : Adds(h, e, Chosen(S), S) /\ SumOver(e, S) = h[S]
  BY SumAdds
<1>3. g[S] = h[S]
  BY <1>1, <1>2, AddsSame, ChosenTakes
<1> QED
  BY <1>1, <1>2, <1>3

(* One element apart.                                                      *)
LEMMA SumRemove ==
  ASSUME NEW S, IsFiniteSet(S), NEW f, \A x \in S : f[x] \in Int,
         NEW x \in S
  PROVE  SumOver(f, S) = f[x] + SumOver(f, S \ {x})
<1> DEFINE R == S \ {x}
<1>1. IsFiniteSet(R) /\ R \subseteq S /\ \A y \in R : f[y] \in Int
  BY FS_Subset
<1>2. PICK g : Adds(g, f, Chosen(S), S) /\ SumOver(f, S) = g[S]
  BY SumAdds
<1>3. PICK h : Adds(h, f, Chosen(R), R) /\ SumOver(f, R) = h[R]
  BY <1>1, SumAdds
<1>4. g[S] = f[x] + g[R]
  <2> DEFINE c == Chosen(S)
  <2>1. TakesElements(c, S) /\ Adds(g, f, c, S)
    BY <1>2, ChosenTakes
  <2>2. S \in SUBSET S
    OBVIOUS
  <2> HIDE DEF c
  <2> QED
    BY <2>1, <2>2, AddsAny
<1>5. g[R] = h[R]
  <2> HIDE DEF R
  <2> QED
    BY <1>1, <1>2, <1>3, AddsSame, ChosenTakes
<1> QED
  BY <1>2, <1>3, <1>4, <1>5

(* A larger value here and there makes no sum smaller.                     *)
LEMMA SumMonotone ==
  ASSUME NEW S, IsFiniteSet(S), NEW f, \A x \in S : f[x] \in Int,
         NEW e, \A x \in S : e[x] \in Int /\ e[x] <= f[x]
  PROVE  SumOver(e, S) <= SumOver(f, S)
<1> DEFINE bad == {s \in SUBSET S : ~(SumOver(e, s) <= SumOver(f, s))}
<1> SUFFICES ASSUME bad # {}
             PROVE  FALSE
  OBVIOUS
<1>1. PICK s \in bad : \A r \in bad : ~(r \subseteq s /\ r # s)
  <2>1. bad \subseteq SUBSET S
    OBVIOUS
  <2> HIDE DEF bad
  <2> QED
    BY <2>1, LeastSubset
<1>2. s \in SUBSET S /\ IsFiniteSet(s)
  BY FS_Subset
<1>3. s # {}
  BY SumEmpty
<1>4. PICK x \in s : TRUE
  BY <1>3
<1> DEFINE r == s \ {x}
<1>5. r \in SUBSET S /\ IsFiniteSet(r) /\ r \subseteq s /\ r # s
  BY <1>2, <1>4, FS_Subset
<1>6. SumOver(e, r) <= SumOver(f, r)
  BY <1>1, <1>5
<1>7. SumOver(e, s) = e[x] + SumOver(e, r)
  BY <1>2, SumRemove
<1>8. SumOver(f, s) = f[x] + SumOver(f, r)
  BY <1>2, SumRemove
<1>9. SumOver(e, r) \in Int /\ SumOver(f, r) \in Int
  <2> HIDE DEF r
  <2> QED
    BY <1>5, SumType
<1>10. e[x] \in Int /\ f[x] \in Int /\ e[x] <= f[x]
  BY <1>2
<1> HIDE DEF r
<1> QED
  BY <1>6, <1>7, <1>8, <1>9, <1>10

(* Two functions added up at once.                                         *)
LEMMA SumPlus ==
  ASSUME NEW S, IsFiniteSet(S), NEW f, \A x \in S : f[x] \in Int,
         NEW e, \A x \in S : e[x] \in Int,
         NEW h, \A x \in S : h[x] = e[x] + f[x]
  PROVE  SumOver(h, S) = SumOver(e, S) + SumOver(f, S)
<1> DEFINE bad ==
      {s \in SUBSET S : SumOver(h, s) # SumOver(e, s) + SumOver(f, s)}
<1> SUFFICES ASSUME bad # {}
             PROVE  FALSE
  OBVIOUS
<1>1. PICK s \in bad : \A r \in bad : ~(r \subseteq s /\ r # s)
  <2>1. bad \subseteq SUBSET S
    OBVIOUS
  <2> HIDE DEF bad
  <2> QED
    BY <2>1, LeastSubset
<1>2. s \in SUBSET S /\ IsFiniteSet(s)
  BY FS_Subset
<1>3. s # {}
  <2>1. SumOver(h, {}) = 0 /\ SumOver(e, {}) = 0 /\ SumOver(f, {}) = 0
    BY SumEmpty
  <2> QED
    BY <2>1
<1>4. PICK x \in s : TRUE
  BY <1>3
<1> DEFINE r == s \ {x}
<1>5. r \in SUBSET S /\ IsFiniteSet(r) /\ r \subseteq s /\ r # s
  BY <1>2, <1>4, FS_Subset
<1>6. SumOver(h, r) = SumOver(e, r) + SumOver(f, r)
  BY <1>1, <1>5
<1>7. SumOver(e, s) = e[x] + SumOver(e, r)
  BY <1>2, SumRemove
<1>8. SumOver(f, s) = f[x] + SumOver(f, r)
  BY <1>2, SumRemove
<1>9. SumOver(h, s) = h[x] + SumOver(h, r)
  <2>1. \A y \in s : h[y] \in Int
    BY <1>2
  <2> QED
    BY <1>2, <2>1, SumRemove
<1>10. SumOver(e, r) \in Int /\ SumOver(f, r) \in Int
  <2> HIDE DEF r
  <2> QED
    BY <1>5, SumType
<1>11. e[x] \in Int /\ f[x] \in Int /\ h[x] = e[x] + f[x]
  BY <1>2
<1>12. SumOver(h, s) # SumOver(e, s) + SumOver(f, s)
  OBVIOUS
<1> HIDE DEF r, bad
<1> QED
  BY <1>6, <1>7, <1>8, <1>9, <1>10, <1>11, <1>12

(* A factor of all values is one of the sum.                               *)
LEMMA SumTimes ==
  ASSUME NEW S, IsFiniteSet(S), NEW f, \A x \in S : f[x] \in Int,
         NEW n \in Int, NEW h, \A x \in S : h[x] = n * f[x]
  PROVE  SumOver(h, S) = n * SumOver(f, S)
<1> DEFINE bad == {s \in SUBSET S : SumOver(h, s) # n * SumOver(f, s)}
<1> SUFFICES ASSUME bad # {}
             PROVE  FALSE
  OBVIOUS
<1>1. PICK s \in bad : \A r \in bad : ~(r \subseteq s /\ r # s)
  <2>1. bad \subseteq SUBSET S
    OBVIOUS
  <2> HIDE DEF bad
  <2> QED
    BY <2>1, LeastSubset
<1>2. s \in SUBSET S /\ IsFiniteSet(s)
  BY FS_Subset
<1>3. s # {}
  <2>1. SumOver(h, {}) = 0 /\ SumOver(f, {}) = 0
    BY SumEmpty
  <2>2. n * 0 = 0
    OBVIOUS
  <2>3. SumOver(h, {}) = n * SumOver(f, {})
    BY <2>1, <2>2, Zenon
  <2> QED
    BY <2>3, Zenon
<1>4. PICK x \in s : TRUE
  BY <1>3
<1> DEFINE r == s \ {x}
<1>5. r \in SUBSET S /\ IsFiniteSet(r) /\ r \subseteq s /\ r # s
  BY <1>2, <1>4, FS_Subset
<1>6. SumOver(h, r) = n * SumOver(f, r)
  BY <1>1, <1>5
<1>7. SumOver(f, s) = f[x] + SumOver(f, r)
  BY <1>2, SumRemove
<1>8. SumOver(h, s) = h[x] + SumOver(h, r)
  <2>1. \A y \in s : h[y] \in Int
    BY <1>2
  <2> QED
    BY <1>2, <2>1, SumRemove
<1>9. SumOver(f, r) \in Int
  <2> HIDE DEF r
  <2> QED
    BY <1>5, SumType
<1>10. f[x] \in Int /\ h[x] = n * f[x]
  BY <1>2
<1>11. SumOver(h, s) # n * SumOver(f, s)
  OBVIOUS
<1> HIDE DEF r, bad
<1>12. \A i, j \in Int : n * (i + j) = n * i + n * j
  OBVIOUS
<1> QED
  BY <1>6, <1>7, <1>8, <1>9, <1>10, <1>11, <1>12

(* One value changed.                                                      *)
LEMMA SumChange ==
  ASSUME NEW S, IsFiniteSet(S), NEW f, \A x \in S : f[x] \in Int,
         NEW x \in S, NEW e, e[x] \in Int, \A y \in S \ {x} : e[y] = f[y]
  PROVE  SumOver(e, S) = SumOver(f, S) + (e[x] - f[x])
<1> DEFINE r == S \ {x}
<1>1. IsFiniteSet(r) /\ \A y \in r : f[y] \in Int /\ e[y] = f[y]
  BY FS_Subset
<1>2. SumOver(f, S) = f[x] + SumOver(f, r)
  BY SumRemove
<1>3. SumOver(e, S) = e[x] + SumOver(e, r)
  <2>1. \A y \in S : e[y] \in Int
    OBVIOUS
  <2> QED
    BY <2>1, SumRemove
<1> HIDE DEF r
<1>4. SumOver(e, r) = SumOver(f, r) /\ SumOver(f, r) \in Int
  BY <1>1, SumSame, SumType
<1> QED
  BY <1>2, <1>3, <1>4

(* Nothing but zeros.                                                      *)
LEMMA SumZero ==
  ASSUME NEW S, IsFiniteSet(S), NEW f, \A x \in S : f[x] = 0
  PROVE  SumOver(f, S) = 0
<1>1. \A x \in S : f[x] = 0 * f[x]
  OBVIOUS
<1>2. SumOver(f, S) = 0 * SumOver(f, S)
  BY <1>1, SumTimes, 0 \in Int
<1> QED
  BY <1>2, SumType

(* A sum of naturals is one, and no less than any of them.                 *)
LEMMA SumNat ==
  ASSUME NEW S, IsFiniteSet(S), NEW f, \A x \in S : f[x] \in Nat
  PROVE  SumOver(f, S) \in Nat /\ \A x \in S : f[x] <= SumOver(f, S)
<1> DEFINE zero(T) == [x \in T |-> 0]
<1>1. ASSUME NEW T, IsFiniteSet(T), T \subseteq S
      PROVE  SumOver(f, T) \in Nat
  <2>1. SumOver(zero(T), T) = 0
    BY <1>1, SumZero
  <2>2. SumOver(zero(T), T) <= SumOver(f, T) /\ SumOver(f, T) \in Int
    <3>1. \A x \in T : f[x] \in Int /\ zero(T)[x] \in Int /\ zero(T)[x] <= f[x]
      BY <1>1
    <3> HIDE DEF zero
    <3> QED
      BY <1>1, <3>1, SumMonotone, SumType
  <2> QED
    BY <2>1, <2>2
<1>2. ASSUME NEW x \in S
      PROVE  f[x] <= SumOver(f, S)
  <2>1. SumOver(f, S) = f[x] + SumOver(f, S \ {x})
    BY SumRemove
  <2>2. SumOver(f, S \ {x}) \in Nat
    BY <1>1, FS_Subset
  <2> QED
    BY <2>1, <2>2
<1> QED
  BY <1>1, <1>2

(* Two sets that have nothing in common.                                   *)
LEMMA SumUnion ==
  ASSUME NEW S, IsFiniteSet(S), NEW R, IsFiniteSet(R), S \cap R = {},
         NEW f, \A x \in S \cup R : f[x] \in Int
  PROVE  SumOver(f, S \cup R) = SumOver(f, S) + SumOver(f, R)
<1> DEFINE bad == {s \in SUBSET S : SumOver(f, s \cup R)
                                      # SumOver(f, s) + SumOver(f, R)}
<1> SUFFICES ASSUME bad # {}
             PROVE  FALSE
  OBVIOUS
<1>1. PICK s \in bad : \A r \in bad : ~(r \subseteq s /\ r # s)
  <2>1. bad \subseteq SUBSET S
    OBVIOUS
  <2> HIDE DEF bad
  <2> QED
    BY <2>1, LeastSubset
<1>2. s \in SUBSET S /\ IsFiniteSet(s)
  BY FS_Subset
<1>3. s # {}
  <2>1. SumOver(f, {}) = 0 /\ SumOver(f, R) \in Int
    BY SumEmpty, SumType
  <2>2. {} \cup R = R
    OBVIOUS
  <2>3. SumOver(f, {} \cup R) = SumOver(f, {}) + SumOver(f, R)
    BY <2>1, <2>2
  <2> QED
    BY <2>3
<1>4. PICK x \in s : TRUE
  BY <1>3
<1> DEFINE r == s \ {x}
<1>5. r \in SUBSET S /\ IsFiniteSet(r) /\ r \subseteq s /\ r # s
  BY <1>2, <1>4, FS_Subset
<1>6. SumOver(f, r \cup R) = SumOver(f, r) + SumOver(f, R)
  BY <1>1, <1>5
<1>7. SumOver(f, s) = f[x] + SumOver(f, r)
  BY <1>2, SumRemove
<1>8. SumOver(f, s \cup R) = f[x] + SumOver(f, r \cup R)
  <2>1. IsFiniteSet(s \cup R) /\ x \in s \cup R
    BY <1>2, FS_Union
  <2>2. \A y \in s \cup R : f[y] \in Int
    BY <1>2
  <2>3. (s \cup R) \ {x} = r \cup R
    BY <1>2
  <2> HIDE DEF r
  <2> QED
    BY <2>1, <2>2, <2>3, SumRemove
<1>9. /\ f[x] \in Int /\ SumOver(f, r) \in Int
      /\ SumOver(f, R) \in Int
  <2> HIDE DEF r
  <2> QED
    BY <1>2, <1>5, SumType
<1>10. SumOver(f, s \cup R) # SumOver(f, s) + SumOver(f, R)
  OBVIOUS
<1> HIDE DEF r, bad
<1> QED
  BY <1>6, <1>7, <1>8, <1>9, <1>10

(* Some of the naturals add up to no more than all of them.                *)
LEMMA SumSubset ==
  ASSUME NEW S, IsFiniteSet(S), NEW f, \A x \in S : f[x] \in Nat,
         NEW R, R \subseteq S
  PROVE  SumOver(f, R) <= SumOver(f, S)
<1> DEFINE T == S \ R
<1>1. /\ IsFiniteSet(R) /\ IsFiniteSet(T)
      /\ R \cap T = {} /\ R \cup T = S
  BY FS_Subset
<1>2. \A x \in R \cup T : f[x] \in Int
  BY <1>1
<1>3. SumOver(f, S) = SumOver(f, R) + SumOver(f, T)
  BY <1>1, <1>2, SumUnion
<1>4. SumOver(f, R) \in Nat /\ SumOver(f, T) \in Nat
  BY <1>1, SumNat
<1> QED
  BY <1>3, <1>4

(* The values that f has at different places m[x].                         *)
LEMMA SumImage ==
  ASSUME NEW S, IsFiniteSet(S), NEW f, \A x \in S : f[x] \in Nat,
         NEW K, IsFiniteSet(K), NEW m, \A k \in K : m[k] \in S,
         \A k, l \in K : m[k] = m[l] => k = l,
         NEW e, \A k \in K : e[k] = f[m[k]]
  PROVE  SumOver(e, K) <= SumOver(f, S)
<1> DEFINE at(s) == {m[k] : k \in s}
           bad == {s \in SUBSET K : SumOver(e, s) # SumOver(f, at(s))}
<1>1. SumOver(e, K) = SumOver(f, at(K))
  <2> SUFFICES ASSUME bad # {}
               PROVE  FALSE
    OBVIOUS
  <2>1. PICK s \in bad : \A r \in bad : ~(r \subseteq s /\ r # s)
    <3>1. bad \subseteq SUBSET K
      OBVIOUS
    <3> HIDE DEF bad
    <3> QED
      BY <3>1, LeastSubset
  <2>2. s \in SUBSET K /\ IsFiniteSet(s)
    BY FS_Subset
  <2>3. s # {}
    <3>1. SumOver(e, {}) = 0 /\ SumOver(f, {}) = 0
      BY SumEmpty
    <3>2. at({}) = {}
      OBVIOUS
    <3> QED
      BY <3>1, <3>2
  <2>4. PICK x \in s : TRUE
    BY <2>3
  <2> DEFINE r == s \ {x}
  <2>5. r \in SUBSET K /\ r \subseteq s /\ r # s
    BY <2>2, <2>4
  <2>6. SumOver(e, r) = SumOver(f, at(r))
    BY <2>1, <2>5
  <2>7. SumOver(e, s) = e[x] + SumOver(e, r)
    <3>1. \A k \in s : e[k] \in Int
      BY <2>2
    <3> QED
      BY <2>2, <3>1, SumRemove
  <2>8. SumOver(f, at(s)) = f[m[x]] + SumOver(f, at(r))
    <3>1. at(s) \subseteq S
      BY <2>2
    <3>2. IsFiniteSet(at(s)) /\ m[x] \in at(s)
      BY <3>1, FS_Subset
    <3>3. \A y \in at(s) : f[y] \in Int
      BY <3>1
    <3>4. at(s) \ {m[x]} = at(r)
      BY <2>2
    <3> HIDE DEF at, r
    <3> QED
      BY <3>2, <3>3, <3>4, SumRemove
  <2>9. e[x] = f[m[x]] /\ SumOver(e, s) # SumOver(f, at(s))
    BY <2>2
  <2> HIDE DEF at, r, bad
  <2> QED
    BY <2>6, <2>7, <2>8, <2>9
<1>2. at(K) \subseteq S
  OBVIOUS
<1>3. SumOver(f, at(K)) <= SumOver(f, S)
  <2> HIDE DEF at
  <2> QED
    BY <1>2, SumSubset
<1> QED
  BY <1>1, <1>3

-----------------------------------------------------------------------------

(* A finite set of integers has a largest and a smallest one.              *)
LEMMA MaxExists ==
  ASSUME NEW S, IsFiniteSet(S), S \subseteq Int, S # {}
  PROVE  Max(S) \in S /\ \A y \in S : y <= Max(S)
<1> DEFINE Top(T) == \E x \in T : \A y \in T : x >= y
           bad == {T \in SUBSET S : T # {} /\ ~Top(T)}
<1>1. Top(S)
  <2> SUFFICES ASSUME bad # {}
               PROVE  FALSE
    OBVIOUS
  <2>1. PICK s \in bad : \A r \in bad : ~(r \subseteq s /\ r # s)
    <3>1. bad \subseteq SUBSET S
      OBVIOUS
    <3>2. IsFiniteSet(S) /\ bad # {}
      OBVIOUS
    <3> HIDE DEF bad
    <3> QED
      BY ONLY <3>1, <3>2, LeastSubset
  <2>2. PICK x \in s : TRUE
    OBVIOUS
  <2> DEFINE r == s \ {x}
  <2>3. CASE r = {}
    <3>1. \A y \in s : x >= y
      BY <2>3
    <3> QED
      BY <3>1
  <2>4. CASE r # {}
    <3>1. r \in SUBSET S /\ r \subseteq s /\ r # s
      BY <2>2
    <3>2. Top(r)
      BY <2>1, <2>4, <3>1
    <3>3. PICK z \in r : \A y \in r : z >= y
      BY <3>2
    <3>4. x \in Int /\ z \in Int /\ s = r \cup {x} /\ r \subseteq Int
      OBVIOUS
    <3>5. Top(s)
      <4> HIDE DEF r
      <4> QED
        BY <2>2, <3>3, <3>4
    <3> QED
      BY <3>5
  <2> QED
    BY <2>3, <2>4
<1>2. \E x \in S : \A y \in S : x >= y
  BY <1>1
<1>3. Max(S) \in S /\ \A y \in S : Max(S) >= y
  BY <1>2 DEF Max
<1> QED
  BY <1>3

(* The smallest one.                                                       *)
LEMMA MinExists ==
  ASSUME NEW S, IsFiniteSet(S), S \subseteq Int, S # {}
  PROVE  Min(S) \in S /\ \A y \in S : Min(S) <= y
<1> DEFINE Bottom(T) == \E x \in T : \A y \in T : x <= y
           bad == {T \in SUBSET S : T # {} /\ ~Bottom(T)}
<1>1. Bottom(S)
  <2> SUFFICES ASSUME bad # {}
               PROVE  FALSE
    OBVIOUS
  <2>1. PICK s \in bad : \A r \in bad : ~(r \subseteq s /\ r # s)
    <3>1. bad \subseteq SUBSET S
      OBVIOUS
    <3>2. IsFiniteSet(S) /\ bad # {}
      OBVIOUS
    <3> HIDE DEF bad
    <3> QED
      BY ONLY <3>1, <3>2, LeastSubset
  <2>2. PICK x \in s : TRUE
    OBVIOUS
  <2> DEFINE r == s \ {x}
  <2>3. CASE r = {}
    <3>1. \A y \in s : x <= y
      BY <2>3
    <3> QED
      BY <3>1
  <2>4. CASE r # {}
    <3>1. r \in SUBSET S /\ r \subseteq s /\ r # s
      BY <2>2
    <3>2. Bottom(r)
      BY <2>1, <2>4, <3>1
    <3>3. PICK z \in r : \A y \in r : z <= y
      BY <3>2
    <3>4. x \in Int /\ z \in Int /\ s = r \cup {x} /\ r \subseteq Int
      OBVIOUS
    <3>5. Bottom(s)
      <4> HIDE DEF r
      <4> QED
        BY <2>2, <3>3, <3>4
    <3> QED
      BY <3>5
  <2> QED
    BY <2>3, <2>4
<1>2. \E x \in S : \A y \in S : x <= y
  BY <1>1
<1> QED
  BY <1>2 DEF Min

=============================================================================
