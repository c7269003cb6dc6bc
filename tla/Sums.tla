-------------------------------- MODULE Sums --------------------------------
(***************************************************************************)
(* What is needed to reason about the sums the books are made of:          *)
(* SumFunctionOnSet(f, S) adds f[x] over the x in a finite set S.  The     *)
(* library defines it by recursion over the subsets of S; the recursion is *)
(* shown here to have a solution, and each fact is proved by descent: of   *)
(* the subsets for which it fails there would be a least one.              *)
(***************************************************************************)
EXTENDS Functions, FiniteSetTheorems, WellFoundedInduction, TLAPS

Pick(s) == CHOOSE x \in s : TRUE

\* The function g adds f over the sets of a family.
AddsOver(g, f, family) ==
    g = [s \in family |-> IF s = {} THEN 0 ELSE f[Pick(s)] + g[s \ {Pick(s)}]]

Upto(D, n) == {s \in SUBSET D : Cardinality(s) <= n}

\* Sets of naturals have a least element, families of finite sets a least set.
LEMMA LeastNumber ==
    ASSUME NEW B \in SUBSET Nat, B # {}
    PROVE  \E n \in B : \A m \in B : n <= m
<1>1. PICK n \in B : \A m \in B : ~(<<m, n>> \in OpToRel(<, Nat))
  BY NatLessThanWellFounded, WFMin
<1>2. ASSUME NEW m \in B PROVE n <= m
  <2>1. ~(<<m, n>> \in OpToRel(<, Nat))
    BY <1>1
  <2>2. m \in Nat /\ n \in Nat /\ (m < n => <<m, n>> \in OpToRel(<, Nat))
    BY DEF OpToRel
  <2>3. ~(m < n)
    BY <2>1, <2>2, Zenon
  <2> QED BY <2>3
<1> QED BY <1>2

LEMMA LeastSet ==
    ASSUME NEW D, IsFiniteSet(D), NEW B \in SUBSET SUBSET D, B # {}
    PROVE  \E s \in B : \A t \in B : t \subseteq s => t = s
<1>1. IsWellFoundedOn(StrictSubsetOrdering(D), SUBSET D)
  BY FS_StrictSubsetOrderingWellFounded, FS_FiniteSubsetsOfFinite
<1>2. PICK s \in B : \A t \in B : ~(<<t, s>> \in StrictSubsetOrdering(D))
  BY <1>1, WFMin
<1> QED BY <1>2 DEF StrictSubsetOrdering

LEMMA Picked == ASSUME NEW s, s # {} PROVE Pick(s) \in s
BY DEF Pick

-----------------------------------------------------------------------------
\* The recursion has a solution: up to every size of subsets, hence for all.
LEMMA NextSize ==
    ASSUME NEW D, IsFiniteSet(D), NEW f, NEW n \in Nat, NEW g, AddsOver(g, f, Upto(D, n))
    PROVE  \E k : AddsOver(k, f, Upto(D, n + 1))
<1> DEFINE value(s) == IF s = {} THEN 0 ELSE f[Pick(s)] + g[s \ {Pick(s)}]
           k == [s \in Upto(D, n + 1) |-> value(s)]
<1>1. ASSUME NEW s \in Upto(D, n + 1), s # {}
      PROVE  s \ {Pick(s)} \in Upto(D, n) /\ s \ {Pick(s)} \in Upto(D, n + 1)
  <2>1. IsFiniteSet(s) /\ Cardinality(s) <= n + 1
    BY FS_Subset DEF Upto
  <2>2. Cardinality(s \ {Pick(s)}) = Cardinality(s) - 1 /\ Cardinality(s) \in Nat
    BY <1>1, <2>1, Picked, FS_RemoveElement, FS_CardinalityType
  <2> QED BY <2>1, <2>2 DEF Upto
<1>2. \A s \in Upto(D, n) : k[s] = g[s]
  <2>1. \A s \in Upto(D, n) : s \in Upto(D, n + 1)
    <3> SUFFICES ASSUME NEW s \in Upto(D, n) PROVE s \in Upto(D, n + 1)
      OBVIOUS
    <3>1. Cardinality(s) \in Nat
      BY FS_Subset, FS_CardinalityType DEF Upto
    <3> QED BY <3>1 DEF Upto
  <2> QED BY <2>1 DEF AddsOver
<1>3. \A s \in Upto(D, n + 1) :
          value(s) = IF s = {} THEN 0 ELSE f[Pick(s)] + k[s \ {Pick(s)}]
  BY <1>1, <1>2
<1>4. k = [s \in Upto(D, n + 1) |-> IF s = {} THEN 0 ELSE f[Pick(s)] + k[s \ {Pick(s)}]]
  BY <1>3
<1>5. AddsOver(k, f, Upto(D, n + 1))
  BY <1>4 DEF AddsOver
<1> QED BY <1>5

LEMMA Solvable ==
    ASSUME NEW D, IsFiniteSet(D), NEW f
    PROVE  \E g : AddsOver(g, f, SUBSET D)
<1> DEFINE B == {n \in Nat : ~\E g : AddsOver(g, f, Upto(D, n))}
<1>1. \E g : AddsOver(g, f, Upto(D, 0))
  <2>1. Upto(D, 0) = {{}}
    <3>1. \A s \in Upto(D, 0) : s = {}
      <4> SUFFICES ASSUME NEW s \in Upto(D, 0) PROVE s = {}
        OBVIOUS
      <4>1. IsFiniteSet(s) /\ Cardinality(s) <= 0
        BY FS_Subset DEF Upto
      <4> QED BY <4>1, FS_EmptySet, FS_CardinalityType
    <3>2. {} \in Upto(D, 0)
      BY FS_EmptySet DEF Upto
    <3> QED BY <3>1, <3>2
  <2>2. AddsOver([s \in {{}} |-> 0], f, {{}})
    BY DEF AddsOver
  <2> QED BY <2>1, <2>2
<1>2. B = {}
  <2> SUFFICES ASSUME B # {} PROVE FALSE
    OBVIOUS
  <2>1. PICK n \in B : \A m \in B : n <= m
    BY LeastNumber
  <2>2. n # 0 /\ n - 1 \in Nat /\ n - 1 \notin B
    BY <1>1, <2>1
  <2>3. \E g : AddsOver(g, f, Upto(D, n - 1 + 1))
    BY <2>2, NextSize
  <2> QED BY <2>1, <2>3
<1>3. Cardinality(D) \in Nat /\ Upto(D, Cardinality(D)) = SUBSET D
  BY FS_CardinalityType, FS_Subset DEF Upto
<1>4. \E g : AddsOver(g, f, Upto(D, Cardinality(D)))
  BY <1>2, <1>3
<1> QED BY <1>3, <1>4

\* The sum unfolds along the elements the library picks.
LEMMA SumSolves ==
    ASSUME NEW S, IsFiniteSet(S), NEW f
    PROVE  \E g : AddsOver(g, f, SUBSET S) /\ SumFunctionOnSet(f, S) = g[S]
<1> DEFINE body(g) == [s \in SUBSET S |-> IF s = {} THEN 0 ELSE f[CHOOSE x \in s : TRUE] + g[s \ {CHOOSE x \in s : TRUE}]]
           g == CHOOSE g : g = body(g)
<1>1. SumFunctionOnSet(f, S) = g[S]
  BY DEF SumFunctionOnSet, FoldFunctionOnSet, MapThenFoldSet
<1>2. \E h : h = body(h)
  <2>1. PICK h : AddsOver(h, f, SUBSET S)
    BY Solvable
  <2>2. h = body(h)
    BY <2>1 DEF AddsOver, Pick
  <2> QED BY <2>2
<1>3. g = body(g)
  BY <1>2
<1> QED BY <1>1, <1>3 DEF AddsOver, Pick

\* Two solutions agree where what they add agrees.
LEMMA Agree ==
    ASSUME NEW S, IsFiniteSet(S), NEW T \in SUBSET S,
           NEW f, NEW g, AddsOver(g, f, SUBSET S),
           NEW k, NEW h, AddsOver(h, k, SUBSET T),
           \A x \in T : f[x] = k[x]
    PROVE  g[T] = h[T]
<1> DEFINE B == {t \in SUBSET T : g[t] # h[t]}
<1>1. IsFiniteSet(T)
  BY FS_Subset
<1> SUFFICES ASSUME B # {} PROVE FALSE
  OBVIOUS
<1>2. PICK s \in B : \A t \in B : t \subseteq s => t = s
  <2>1. B \in SUBSET SUBSET T
    OBVIOUS
  <2> HIDE DEF B
  <2> QED BY <1>1, <2>1, LeastSet
<1>3. g[{}] = 0 /\ h[{}] = 0
  BY DEF AddsOver
<1>4. s # {} /\ Pick(s) \in s
  BY <1>3, Picked
<1>5. s \ {Pick(s)} \notin B /\ s \ {Pick(s)} \in SUBSET T
  BY <1>2, <1>4
<1>6. g[s] = f[Pick(s)] + g[s \ {Pick(s)}] /\ h[s] = k[Pick(s)] + h[s \ {Pick(s)}]
  BY <1>4 DEF AddsOver
<1>7. f[Pick(s)] = k[Pick(s)] /\ g[s \ {Pick(s)}] = h[s \ {Pick(s)}]
  BY <1>4, <1>5
<1> QED BY <1>6, <1>7

\* The order in which a solution adds does not matter.
LEMMA AnyOrder ==
    ASSUME NEW S, IsFiniteSet(S), NEW f, \A x \in S : f[x] \in Int,
           NEW g, AddsOver(g, f, SUBSET S)
    PROVE  /\ g[S] \in Int
           /\ \A x \in S : g[S] = f[x] + g[S \ {x}]
<1> DEFINE Good(s) == g[s] \in Int /\ \A x \in s : g[s] = f[x] + g[s \ {x}]
           B == {s \in SUBSET S : ~Good(s)}
<1> SUFFICES ASSUME B # {} PROVE FALSE
  OBVIOUS
<1>0. B \in SUBSET SUBSET S
  OBVIOUS
<1>1. PICK s \in B : \A t \in B : t \subseteq s => t = s
  <2> HIDE DEF B
  <2> QED BY <1>0, LeastSet
<1> DEFINE y == Pick(s)
<1>2. s # {}
  BY DEF AddsOver
<1>3. y \in s /\ g[s] = f[y] + g[s \ {y}]
  BY <1>2, Picked DEF AddsOver
<1>4. \A x \in s : s \ {x} \in SUBSET S /\ Good(s \ {x})
  <2> SUFFICES ASSUME NEW x \in s PROVE s \ {x} \in SUBSET S /\ s \ {x} \notin B
    OBVIOUS
  <2> QED BY <1>1
<1> HIDE DEF y
<1>5. g[s] \in Int
  <2>1. f[y] \in Int /\ g[s \ {y}] \in Int
    BY <1>3, <1>4
  <2> QED BY <1>3, <2>1
<1>6. ASSUME NEW x \in s, x # y
      PROVE  g[s] = f[x] + g[s \ {x}]
  <2>1. g[s \ {y}] = f[x] + g[(s \ {y}) \ {x}]
    BY <1>3, <1>4, <1>6
  <2>2. g[s \ {x}] = f[y] + g[(s \ {x}) \ {y}]
    BY <1>3, <1>4, <1>6
  <2>3. (s \ {y}) \ {x} = (s \ {x}) \ {y}
    OBVIOUS
  <2>4. g[(s \ {x}) \ {y}] \in Int
    <3>1. s \ {x} \in SUBSET S /\ y \in s \ {x}
      BY <1>3, <1>6
    <3>2. (s \ {x}) \ {y} \in SUBSET S /\ (s \ {x}) \ {y} # s /\ (s \ {x}) \ {y} \subseteq s
      BY <1>3
    <3>3. (s \ {x}) \ {y} \notin B
      BY <1>1, <3>2
    <3> QED BY <3>2, <3>3
  <2>5. f[x] \in Int /\ f[y] \in Int
    BY <1>3
  <2>6. g[s] = f[y] + (f[x] + g[(s \ {x}) \ {y}])
    BY <1>3, <2>1, <2>3
  <2> HIDE DEF Good, B
  <2> QED BY <2>2, <2>4, <2>5, <2>6
<1> QED BY <1>3, <1>5, <1>6

-----------------------------------------------------------------------------
(***************************************************************************)
(* What the other modules cite.                                            *)
(***************************************************************************)
LEMMA SumOfNone == ASSUME NEW f PROVE SumFunctionOnSet(f, {}) = 0
<1>1. PICK g : AddsOver(g, f, SUBSET {}) /\ SumFunctionOnSet(f, {}) = g[{}]
  BY SumSolves, FS_EmptySet
<1> QED BY <1>1 DEF AddsOver

LEMMA SumIsInt ==
    ASSUME NEW S, IsFiniteSet(S), NEW f, \A x \in S : f[x] \in Int
    PROVE  SumFunctionOnSet(f, S) \in Int
<1>1. PICK g : AddsOver(g, f, SUBSET S) /\ SumFunctionOnSet(f, S) = g[S]
  BY SumSolves
<1> QED BY <1>1, AnyOrder

LEMMA SumSame ==
    ASSUME NEW S, IsFiniteSet(S), NEW f, NEW k, \A x \in S : f[x] = k[x]
    PROVE  SumFunctionOnSet(f, S) = SumFunctionOnSet(k, S)
<1>1. PICK g : AddsOver(g, f, SUBSET S) /\ SumFunctionOnSet(f, S) = g[S]
  BY SumSolves
<1>2. PICK h : AddsOver(h, k, SUBSET S) /\ SumFunctionOnSet(k, S) = h[S]
  BY SumSolves
<1> QED BY <1>1, <1>2, Agree

LEMMA SumWithout ==
    ASSUME NEW S, IsFiniteSet(S), NEW f, \A x \in S : f[x] \in Int, NEW x \in S
    PROVE  SumFunctionOnSet(f, S) = f[x] + SumFunctionOnSet(f, S \ {x})
<1>1. PICK g : AddsOver(g, f, SUBSET S) /\ SumFunctionOnSet(f, S) = g[S]
  BY SumSolves
<1>2. IsFiniteSet(S \ {x})
  BY FS_RemoveElement
<1>3. PICK h : AddsOver(h, f, SUBSET (S \ {x})) /\ SumFunctionOnSet(f, S \ {x}) = h[S \ {x}]
  BY <1>2, SumSolves
<1>4. g[S \ {x}] = h[S \ {x}]
  <2>1. S \ {x} \in SUBSET S
    OBVIOUS
  <2> DEFINE T == S \ {x}
  <2>2. AddsOver(h, f, SUBSET T) /\ T \in SUBSET S
    BY <1>3, <2>1
  <2> HIDE DEF T
  <2>3. g[T] = h[T]
    BY <1>1, <2>2, Agree
  <2> QED BY <2>3 DEF T
<1>5. g[S] = f[x] + g[S \ {x}]
  <2>1. AddsOver(g, f, SUBSET S)
    BY <1>1
  <2>2. g[S] \in Int /\ \A y \in S : g[S] = f[y] + g[S \ {y}]
    BY <2>1, AnyOrder
  <2> QED BY <2>2
<1> QED BY <1>1, <1>3, <1>4, <1>5

\* Another element.
LEMMA SumWith ==
    ASSUME NEW S, IsFiniteSet(S), NEW x, x \notin S,
           NEW f, \A y \in S \cup {x} : f[y] \in Int
    PROVE  SumFunctionOnSet(f, S \cup {x}) = f[x] + SumFunctionOnSet(f, S)
<1> DEFINE T == S \cup {x}
<1>1. IsFiniteSet(T) /\ T \ {x} = S /\ x \in T /\ \A y \in T : f[y] \in Int
  BY FS_AddElement
<1> HIDE DEF T
<1>2. SumFunctionOnSet(f, T) = f[x] + SumFunctionOnSet(f, T \ {x})
  BY <1>1, SumWithout
<1> QED BY <1>1, <1>2 DEF T

\* One value changes, and the sum by as much.
LEMMA SumChanged ==
    ASSUME NEW S, IsFiniteSet(S), NEW x \in S, NEW f, NEW k,
           \A y \in S : f[y] \in Int /\ k[y] \in Int,
           \A y \in S \ {x} : k[y] = f[y]
    PROVE  SumFunctionOnSet(k, S) = SumFunctionOnSet(f, S) - f[x] + k[x]
<1>1. IsFiniteSet(S \ {x})
  BY FS_RemoveElement
<1>2. SumFunctionOnSet(k, S \ {x}) = SumFunctionOnSet(f, S \ {x})
  BY <1>1, SumSame
<1>3. SumFunctionOnSet(f, S \ {x}) \in Int
  BY <1>1, SumIsInt
<1>4. SumFunctionOnSet(f, S) = f[x] + SumFunctionOnSet(f, S \ {x})
  BY SumWithout
<1>5. SumFunctionOnSet(k, S) = k[x] + SumFunctionOnSet(k, S \ {x})
  BY SumWithout
<1>6. f[x] \in Int /\ k[x] \in Int
  OBVIOUS
<1> QED BY <1>2, <1>3, <1>4, <1>5, <1>6

\* A relation between sums that one element more, or none, does not break.
LEMMA SumPlus ==
    ASSUME NEW S, IsFiniteSet(S), NEW f, NEW k, NEW h,
           \A x \in S : f[x] \in Int /\ k[x] \in Int /\ h[x] = f[x] + k[x]
    PROVE  SumFunctionOnSet(h, S) = SumFunctionOnSet(f, S) + SumFunctionOnSet(k, S)
<1> DEFINE Good(s) == SumFunctionOnSet(h, s) = SumFunctionOnSet(f, s) + SumFunctionOnSet(k, s)
           B == {s \in SUBSET S : ~Good(s)}
<1> SUFFICES ASSUME B # {} PROVE FALSE
  OBVIOUS
<1>1. PICK s \in B : \A t \in B : t \subseteq s => t = s
  <2>1. B \in SUBSET SUBSET S
    OBVIOUS
  <2> HIDE DEF B
  <2> QED BY <2>1, LeastSet
<1>2. s # {}
  <2>1. SumFunctionOnSet(f, {}) = 0 /\ SumFunctionOnSet(k, {}) = 0 /\ SumFunctionOnSet(h, {}) = 0
    BY SumOfNone
  <2>2. Good({})
    BY <2>1
  <2> QED BY <2>2
<1>3. PICK x \in s : TRUE
  BY <1>2
<1>4. Good(s \ {x})
  BY <1>1
<1>5. IsFiniteSet(s) /\ IsFiniteSet(s \ {x}) /\ s \in SUBSET S
  BY FS_Subset, FS_RemoveElement
<1>6. \A y \in s : f[y] \in Int /\ k[y] \in Int /\ h[y] \in Int
  OBVIOUS
<1>7. /\ SumFunctionOnSet(f, s) = f[x] + SumFunctionOnSet(f, s \ {x})
      /\ SumFunctionOnSet(k, s) = k[x] + SumFunctionOnSet(k, s \ {x})
      /\ SumFunctionOnSet(h, s) = h[x] + SumFunctionOnSet(h, s \ {x})
  BY <1>5, <1>6, SumWithout
<1>8. SumFunctionOnSet(f, s \ {x}) \in Int /\ SumFunctionOnSet(k, s \ {x}) \in Int
  BY <1>5, <1>6, SumIsInt
<1>9. h[x] = f[x] + k[x] /\ f[x] \in Int /\ k[x] \in Int
  BY <1>5
<1> DEFINE F == SumFunctionOnSet(f, s \ {x})
           K == SumFunctionOnSet(k, s \ {x})
<1>10. F \in Int /\ K \in Int /\ SumFunctionOnSet(h, s \ {x}) = F + K
  BY <1>4, <1>8
<1> HIDE DEF F, K
<1>11. SumFunctionOnSet(f, s) = f[x] + F /\ SumFunctionOnSet(k, s) = k[x] + K
       /\ SumFunctionOnSet(h, s) = h[x] + (F + K)
  BY <1>7, <1>10 DEF F, K
<1>12. Good(s)
  BY <1>9, <1>10, <1>11
<1> QED BY <1>12

LEMMA SumAtMost ==
    ASSUME NEW S, IsFiniteSet(S), NEW f, NEW k,
           \A x \in S : f[x] \in Int /\ k[x] \in Int /\ f[x] <= k[x]
    PROVE  SumFunctionOnSet(f, S) <= SumFunctionOnSet(k, S)
<1> DEFINE Good(s) == SumFunctionOnSet(f, s) <= SumFunctionOnSet(k, s)
           B == {s \in SUBSET S : ~Good(s)}
<1> SUFFICES ASSUME B # {} PROVE FALSE
  OBVIOUS
<1>1. PICK s \in B : \A t \in B : t \subseteq s => t = s
  <2>1. B \in SUBSET SUBSET S
    OBVIOUS
  <2> HIDE DEF B
  <2> QED BY <2>1, LeastSet
<1>2. s # {}
  BY SumOfNone
<1>3. PICK x \in s : TRUE
  BY <1>2
<1>4. Good(s \ {x})
  BY <1>1
<1>5. IsFiniteSet(s) /\ IsFiniteSet(s \ {x}) /\ s \in SUBSET S
  BY FS_Subset, FS_RemoveElement
<1>6. \A y \in s : f[y] \in Int /\ k[y] \in Int
  OBVIOUS
<1>7. /\ SumFunctionOnSet(f, s) = f[x] + SumFunctionOnSet(f, s \ {x})
      /\ SumFunctionOnSet(k, s) = k[x] + SumFunctionOnSet(k, s \ {x})
  BY <1>5, <1>6, SumWithout
<1>8. SumFunctionOnSet(f, s \ {x}) \in Int /\ SumFunctionOnSet(k, s \ {x}) \in Int
  BY <1>5, <1>6, SumIsInt
<1>9. f[x] <= k[x] /\ f[x] \in Int /\ k[x] \in Int
  BY <1>5
<1> DEFINE F == SumFunctionOnSet(f, s \ {x})
           K == SumFunctionOnSet(k, s \ {x})
<1>10. F \in Int /\ K \in Int /\ F <= K
  BY <1>4, <1>8
<1> HIDE DEF F, K
<1>11. SumFunctionOnSet(f, s) = f[x] + F /\ SumFunctionOnSet(k, s) = k[x] + K
  BY <1>7 DEF F, K
<1>12. Good(s)
  BY <1>9, <1>10, <1>11
<1> QED BY <1>12
LEMMA SumOfOne == ASSUME NEW f, NEW x, f[x] \in Int PROVE SumFunctionOnSet(f, {x}) = f[x]
<1>1. SumFunctionOnSet(f, {} \cup {x}) = f[x] + SumFunctionOnSet(f, {})
  <2>1. IsFiniteSet({}) /\ \A y \in {} \cup {x} : f[y] \in Int
    BY FS_EmptySet
  <2> QED BY <2>1, SumWith
<1> QED BY <1>1, SumOfNone

\* Of what is not negative, a part is not more than the whole.
LEMMA SumOfPart ==
    ASSUME NEW S, IsFiniteSet(S), NEW T \in SUBSET S, NEW f, \A x \in S : f[x] \in Nat
    PROVE  /\ SumFunctionOnSet(f, T) \in Nat /\ SumFunctionOnSet(f, S) \in Nat
           /\ SumFunctionOnSet(f, T) <= SumFunctionOnSet(f, S)
<1> DEFINE k == [x \in S |-> IF x \in T THEN f[x] ELSE 0]
           Good(s) == /\ SumFunctionOnSet(k, s) = SumFunctionOnSet(f, s \cap T)
                      /\ SumFunctionOnSet(f, s \cap T) \in Nat
                      /\ SumFunctionOnSet(f, s) \in Nat
                      /\ SumFunctionOnSet(f, s \cap T) <= SumFunctionOnSet(f, s)
           B == {s \in SUBSET S : ~Good(s)}
<1>1. \A x \in S : k[x] \in Nat /\ (x \in T => k[x] = f[x]) /\ (x \notin T => k[x] = 0)
  OBVIOUS
<1> HIDE DEF k
<1>2. ASSUME B # {} PROVE FALSE
  <2>1. PICK s \in B : \A t \in B : t \subseteq s => t = s
    <3>1. B \in SUBSET SUBSET S
      OBVIOUS
    <3> HIDE DEF B
    <3> QED BY <1>2, <3>1, LeastSet
  <2>2. s # {}
    <3>1. SumFunctionOnSet(f, {}) = 0 /\ SumFunctionOnSet(k, {}) = 0 /\ {} \cap T = {}
      BY SumOfNone
    <3>2. Good({})
      BY <3>1
    <3> QED BY <3>2
  <2>3. PICK x \in s : TRUE
    BY <2>2
  <2>4. Good(s \ {x})
    BY <2>1
  <2>5. IsFiniteSet(s) /\ IsFiniteSet(s \ {x}) /\ s \in SUBSET S /\ x \in S
    BY FS_Subset, FS_RemoveElement
  <2>6. \A y \in s : f[y] \in Int /\ k[y] \in Int
    BY <1>1
  <2>7. /\ SumFunctionOnSet(f, s) = f[x] + SumFunctionOnSet(f, s \ {x})
        /\ SumFunctionOnSet(k, s) = k[x] + SumFunctionOnSet(k, s \ {x})
    BY <2>5, <2>6, SumWithout
  <2>8. SumFunctionOnSet(f, s \cap T) = k[x] + SumFunctionOnSet(f, (s \ {x}) \cap T)
    <3>1. CASE x \in T
      <4>1. /\ IsFiniteSet(s \cap T) /\ x \in s \cap T
            /\ \A y \in s \cap T : f[y] \in Int
        BY <2>5, <2>6, <3>1, FS_Subset
      <4>2. SumFunctionOnSet(f, s \cap T) = f[x] + SumFunctionOnSet(f, (s \cap T) \ {x})
        BY <4>1, SumWithout
      <4>3. (s \cap T) \ {x} = (s \ {x}) \cap T
        OBVIOUS
      <4> QED BY <1>1, <2>5, <3>1, <4>2, <4>3
    <3>2. CASE x \notin T
      <4>1. s \cap T = (s \ {x}) \cap T /\ k[x] = 0
        BY <1>1, <2>5, <3>2
      <4> QED BY <2>4, <4>1
    <3> QED BY <3>1, <3>2
  <2> DEFINE F == SumFunctionOnSet(f, s \ {x})
             K == SumFunctionOnSet(k, s \ {x})
  <2>9. F \in Nat /\ K \in Nat /\ K <= F /\ SumFunctionOnSet(f, (s \ {x}) \cap T) = K
    BY <2>4
  <2> HIDE DEF F, K
  <2>10. /\ SumFunctionOnSet(f, s) = f[x] + F /\ SumFunctionOnSet(k, s) = k[x] + K
         /\ SumFunctionOnSet(f, s \cap T) = k[x] + K
    BY <2>7, <2>8, <2>9 DEF F, K
  <2>11. f[x] \in Nat /\ (k[x] = f[x] \/ k[x] = 0)
    BY <1>1, <2>5
  <2>12. Good(s)
    BY <2>9, <2>10, <2>11
  <2> QED BY <2>12
<1>3. Good(S) /\ S \cap T = T
  BY <1>2
<1> QED BY <1>3

LEMMA FiniteImage ==
    ASSUME NEW D, IsFiniteSet(D), NEW g
    PROVE  IsFiniteSet({g[x] : x \in D})
<1> DEFINE k == [x \in D |-> g[x]]
<1>1. k \in Surjection(D, {g[x] : x \in D})
  BY DEF Surjection
<1> QED BY <1>1, FS_Surjection

\* A sum over what a function without repetitions leads to.
LEMMA SumOverImage ==
    ASSUME NEW D, IsFiniteSet(D), NEW g, NEW f, NEW k,
           \A x, y \in D : g[x] = g[y] => x = y,
           \A x \in D : f[g[x]] \in Int /\ k[x] = f[g[x]]
    PROVE  SumFunctionOnSet(f, {g[x] : x \in D}) = SumFunctionOnSet(k, D)
<1> DEFINE To(s) == {g[x] : x \in s}
           Good(s) == SumFunctionOnSet(f, To(s)) = SumFunctionOnSet(k, s)
           B == {s \in SUBSET D : ~Good(s)}
<1>1. ASSUME B # {} PROVE FALSE
  <2>1. PICK s \in B : \A t \in B : t \subseteq s => t = s
    <3>1. B \in SUBSET SUBSET D
      OBVIOUS
    <3> HIDE DEF B
    <3> QED BY <1>1, <3>1, LeastSet
  <2>2. s # {}
    <3>1. SumFunctionOnSet(f, {}) = 0 /\ SumFunctionOnSet(k, {}) = 0 /\ To({}) = {}
      BY SumOfNone
    <3>2. Good({})
      BY <3>1
    <3> QED BY <3>2
  <2>3. PICK x \in s : TRUE
    BY <2>2
  <2>4. Good(s \ {x})
    BY <2>1
  <2>5. IsFiniteSet(s) /\ IsFiniteSet(s \ {x}) /\ s \in SUBSET D /\ x \in D
    BY FS_Subset, FS_RemoveElement
  <2>6. To(s) = To(s \ {x}) \cup {g[x]} /\ g[x] \notin To(s \ {x})
    BY <2>3, <2>5
  <2>7. IsFiniteSet(To(s \ {x}))
    BY <2>5, FiniteImage
  <2>8. \A y \in To(s \ {x}) \cup {g[x]} : f[y] \in Int
    BY <2>5
  <2>9. SumFunctionOnSet(k, s) = k[x] + SumFunctionOnSet(k, s \ {x})
    <3>1. \A y \in s : k[y] \in Int
      BY <2>5
    <3> QED BY <2>3, <2>5, <3>1, SumWithout
  <2> DEFINE I == To(s \ {x})
             v == g[x]
  <2> HIDE DEF I, v
  <2>10. SumFunctionOnSet(f, I \cup {v}) = f[v] + SumFunctionOnSet(f, I)
    <3>1. IsFiniteSet(I) /\ v \notin I /\ \A y \in I \cup {v} : f[y] \in Int
      BY <2>6, <2>7, <2>8 DEF I, v
    <3> QED BY <3>1, SumWith
  <2>11. k[x] = f[v]
    BY <2>5 DEF v
  <2>12. Good(s)
    BY <2>4, <2>6, <2>9, <2>10, <2>11 DEF I, v
  <2> QED BY <2>12
<1>2. Good(D)
  BY <1>1
<1> QED BY <1>2

LEMMA GreatestNumber ==
    ASSUME NEW S, IsFiniteSet(S), S # {}, \A x \in S : x \in Int
    PROVE  \E n \in S : \A m \in S : m <= n
<1> DEFINE B == {s \in SUBSET S : s # {} /\ ~\E n \in s : \A m \in s : m <= n}
<1> SUFFICES ASSUME B # {} PROVE FALSE
  OBVIOUS
<1>1. PICK s \in B : \A t \in B : t \subseteq s => t = s
  <2>1. IsFiniteSet(S) /\ B # {} /\ B \in SUBSET SUBSET S
    OBVIOUS
  <2> HIDE DEF B
  <2> QED BY <2>1, LeastSet
<1>2. PICK x \in s : TRUE
  OBVIOUS
<1>3. x \in Int /\ \A y \in s : y \in Int
  OBVIOUS
<1>4. CASE s \ {x} = {}
  <2>1. \A m \in s : m <= x
    BY <1>3, <1>4
  <2> QED BY <2>1
<1>5. CASE s \ {x} # {}
  <2>1. s \ {x} \notin B
    BY <1>1
  <2>2. PICK n \in s \ {x} : \A m \in s \ {x} : m <= n
    BY <1>5, <2>1
  <2>3. CASE x <= n
    <3>1. n \in s /\ \A m \in s : m <= n
      BY <2>2, <2>3
    <3> QED BY <3>1
  <2>4. CASE ~(x <= n)
    <3>1. n \in Int /\ n <= x
      BY <1>3, <2>2, <2>4
    <3>2. \A m \in s : m <= x
      BY <1>3, <2>2, <3>1
    <3> QED BY <3>2
  <2> QED BY <2>3, <2>4
<1> QED BY <1>4, <1>5
\* What adds nothing can be left out.
LEMMA SumOfTheRest ==
    ASSUME NEW S, IsFiniteSet(S), NEW T \in SUBSET S, NEW f,
           \A x \in S : f[x] \in Int, \A x \in S \ T : f[x] = 0
    PROVE  SumFunctionOnSet(f, S) = SumFunctionOnSet(f, T)
<1> DEFINE B == {s \in SUBSET S : T \subseteq s /\ SumFunctionOnSet(f, s) # SumFunctionOnSet(f, T)}
<1>1. ASSUME B # {} PROVE FALSE
  <2>1. PICK s \in B : \A t \in B : t \subseteq s => t = s
    <3>1. B \in SUBSET SUBSET S
      OBVIOUS
    <3> HIDE DEF B
    <3> QED BY <1>1, <3>1, LeastSet
  <2>2. PICK x \in s : x \notin T
    OBVIOUS
  <2>3. T \subseteq s \ {x} /\ s \ {x} \in SUBSET S /\ x \in S \ T
    BY <2>2
  <2>4. SumFunctionOnSet(f, s \ {x}) = SumFunctionOnSet(f, T)
    <3>1. s \ {x} # s /\ s \ {x} \subseteq s
      BY <2>2
    <3>2. s \ {x} \notin B
      BY <2>1, <3>1
    <3> QED BY <2>3, <3>2
  <2>5. IsFiniteSet(s) /\ IsFiniteSet(s \ {x}) /\ s \in SUBSET S
    BY FS_Subset, FS_RemoveElement
  <2>6. (\A y \in s : f[y] \in Int) /\ f[x] = 0
    BY <2>3, <2>5
  <2>7. SumFunctionOnSet(f, s) = f[x] + SumFunctionOnSet(f, s \ {x})
    BY <2>2, <2>5, <2>6, SumWithout
  <2>8. SumFunctionOnSet(f, s \ {x}) \in Int
    BY <2>5, <2>6, SumIsInt
  <2>9. SumFunctionOnSet(f, s) = SumFunctionOnSet(f, s \ {x})
    BY <2>6, <2>7, <2>8
  <2> QED BY <2>4, <2>9
<1>2. S \notin B
  BY <1>1
<1> QED BY <1>2
=============================================================================
