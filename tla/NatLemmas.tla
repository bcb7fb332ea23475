------------------------------ MODULE NatLemmas ------------------------------
(***************************************************************************)
(* Least and greatest elements of sets of natural numbers, used wherever   *)
(* the code sorts and takes the first document, and sums over a finite     *)
(* set, used for the budget of a purchase.                                 *)
(***************************************************************************)
EXTENDS Integers, FiniteSetTheorems, TLAPS

\* Every set of naturals that is not empty has a least element.
LEMMA LeastElement ==
    ASSUME NEW S \in SUBSET Nat, S # {}
    PROVE  \E m \in S : \A k \in S : m <= k
<1> DEFINE Less == {p \in Nat \X Nat : p[1] < p[2]}
<1>1. IsWellFoundedOn(Less, Nat)
  BY NatLessThanWellFounded, Zenon DEF OpToRel
<1>2. PICK m \in S : \A k \in S : ~ (<<k, m>> \in Less)
  <2> HIDE DEF Less
  <2> QED BY <1>1, WFMin
<1>3. ASSUME NEW k \in S PROVE m <= k
  <2>1. k \in Nat /\ m \in Nat
    OBVIOUS
  <2>2. k < m => <<k, m>> \in Less
    BY <2>1
  <2> QED
    BY <1>2, <2>1, <2>2
<1> QED
  BY <1>3

\* Every set of naturals below a bound that is not empty has a greatest element.
LEMMA GreatestElement ==
    ASSUME NEW n \in Nat, NEW S \in SUBSET (0..n), S # {}
    PROVE  \E m \in S : \A k \in S : k <= m
<1> DEFINE T == {n - k : k \in S}
<1>1. T \in SUBSET Nat /\ T # {}
  <2>1. \A k \in S : n - k \in Nat
    OBVIOUS
  <2>2. PICK k \in S : TRUE
    OBVIOUS
  <2>3. n - k \in T
    BY <2>2
  <2> QED
    BY <2>1, <2>3
<1>2. PICK x \in T : \A y \in T : x <= y
  <2> HIDE DEF T
  <2> QED BY <1>1, LeastElement
<1>3. PICK m \in S : x = n - m
  BY <1>2
<1>4. ASSUME NEW k \in S PROVE k <= m
  <2>1. n - k \in T
    OBVIOUS
  <2>2. n - m <= n - k
    BY <1>2, <1>3, <2>1
  <2> QED
    BY <2>2
<1> QED
  BY <1>4

-----------------------------------------------------------------------------
(* SumFunction is a fold, hence a recursive function.  That it exists for a *)
(* finite set, and that the order of the terms does not matter, follows     *)
(* from LeastElement for the cardinality of a least counterexample.         *)

AnyOf(s) == CHOOSE x \in s : TRUE

\* g is the recursive function behind SumFunctionOnSet, for sets in D.
SumsOver(f, D, g) ==
    g = [s \in D |-> IF s = {} THEN 0 ELSE f[AnyOf(s)] + g[s \ {AnyOf(s)}]]

LEMMA SumUnfolds ==
    ASSUME NEW f, NEW S
    PROVE  SumFunctionOnSet(f, S) = (CHOOSE g : SumsOver(f, SUBSET S, g))[S]
BY DEF SumFunctionOnSet, FoldFunctionOnSet, MapThenFoldSet, SumsOver, AnyOf

UpTo(S, n) == {s \in SUBSET S : Cardinality(s) <= n}

LEMMA SumsUpTo ==
    ASSUME NEW f, NEW S, IsFiniteSet(S)
    PROVE  \A n \in Nat : \E g : SumsOver(f, UpTo(S, n), g)
<1> DEFINE Bad == {n \in Nat : ~ \E g : SumsOver(f, UpTo(S, n), g)}
<1>0. \A s \in SUBSET S :
        IsFiniteSet(s) /\ Cardinality(s) \in Nat /\ (Cardinality(s) = 0 <=> s = {})
  BY FS_Subset, FS_CardinalityType, FS_EmptySet
<1>1. SUFFICES ASSUME Bad # {} PROVE FALSE
  OBVIOUS
<1>2. PICK n \in Bad : \A k \in Bad : n <= k
  <2> HIDE DEF Bad
  <2>1. Bad \in SUBSET Nat
    BY DEF Bad
  <2> QED BY <1>1, <2>1, LeastElement
<1>3. CASE n = 0
  <2>1. \A s \in UpTo(S, n) : s = {}
    BY <1>0, <1>3 DEF UpTo
  <2>2. SumsOver(f, UpTo(S, n), [s \in UpTo(S, n) |-> 0])
    BY <2>1 DEF SumsOver
  <2> QED
    BY <2>2
<1>4. CASE n # 0
  <2>1. n - 1 \in Nat /\ n - 1 \notin Bad
    BY <1>2, <1>4
  <2>2. PICK g : SumsOver(f, UpTo(S, n - 1), g)
    BY <2>1
  <2> DEFINE h == [s \in UpTo(S, n) |->
                     IF s = {} THEN 0 ELSE f[AnyOf(s)] + g[s \ {AnyOf(s)}]]
  <2>3. ASSUME NEW s \in UpTo(S, n), s # {}
        PROVE  h[s \ {AnyOf(s)}] = g[s \ {AnyOf(s)}]
    <3> DEFINE r == s \ {AnyOf(s)}
    <3>1. AnyOf(s) \in s
      BY <2>3 DEF AnyOf
    <3>2. r \in UpTo(S, n - 1) /\ r \in UpTo(S, n)
      BY <1>0, <3>1, FS_RemoveElement DEF UpTo
    <3> HIDE DEF r
    <3>3. g[r] = IF r = {} THEN 0 ELSE f[AnyOf(r)] + g[r \ {AnyOf(r)}]
      BY <2>2, <3>2 DEF SumsOver
    <3> QED
      BY <3>2, <3>3 DEF r
  <2>4. h = [s \in UpTo(S, n) |-> IF s = {} THEN 0 ELSE f[AnyOf(s)] + h[s \ {AnyOf(s)}]]
    BY <2>3
  <2> HIDE DEF h
  <2>5. SumsOver(f, UpTo(S, n), h)
    BY <2>4 DEF SumsOver
  <2> QED
    BY <2>5
<1> QED
  BY <1>3, <1>4

\* The recursive function exists, so that its equation holds.
LEMMA SumEquation ==
    ASSUME NEW f, NEW S, IsFiniteSet(S)
    PROVE  SumsOver(f, SUBSET S, CHOOSE g : SumsOver(f, SUBSET S, g))
<1>1. Cardinality(S) \in Nat
  BY FS_CardinalityType
<1>2. UpTo(S, Cardinality(S)) = SUBSET S
  BY FS_Subset DEF UpTo
<1>3. PICK g : SumsOver(f, UpTo(S, Cardinality(S)), g)
  BY <1>1, SumsUpTo
<1>4. SumsOver(f, SUBSET S, g)
  BY <1>2, <1>3, Zenon
<1> QED
  BY <1>4, Zenon

\* The sum over a set is that of any one element and of the rest.
TakesOut(f, S, g) ==
    \A s \in SUBSET S : g[s] \in Nat /\ \A x \in s : g[s] = f[x] + g[s \ {x}]

LEMMA SumsTakeOut ==
    ASSUME NEW S, IsFiniteSet(S), NEW f \in [S -> Nat], NEW g, SumsOver(f, SUBSET S, g)
    PROVE  TakesOut(f, S, g)
<1> DEFINE Holds(s) == g[s] \in Nat /\ \A x \in s : g[s] = f[x] + g[s \ {x}]
           Bad == {Cardinality(s) : s \in {r \in SUBSET S : ~Holds(r)}}
<1>0. \A s \in SUBSET S : IsFiniteSet(s) /\ Cardinality(s) \in Nat
  BY FS_Subset, FS_CardinalityType
<1>1. SUFFICES ASSUME NEW t \in SUBSET S, ~Holds(t) PROVE FALSE
  BY DEF TakesOut
<1>2. Bad \in SUBSET Nat /\ Bad # {}
  BY <1>0, <1>1
<1>3. PICK n \in Bad : \A k \in Bad : n <= k
  <2> HIDE DEF Bad
  <2> QED BY <1>2, LeastElement
<1>4. PICK s \in SUBSET S : ~Holds(s) /\ Cardinality(s) = n
  BY <1>3
<1>5. ASSUME NEW r \in SUBSET S, Cardinality(r) < Cardinality(s) PROVE Holds(r)
  <2> HIDE DEF Holds
  <2>1. ~Holds(r) => Cardinality(r) \in Bad
    OBVIOUS
  <2> HIDE DEF Bad
  <2> QED
    BY <1>0, <1>3, <1>4, <1>5, <2>1
<1> HIDE DEF Holds, Bad
<1>6. \A x \in s : s \ {x} \in SUBSET S /\ Holds(s \ {x})
  <2>1. \A x \in s : Cardinality(s \ {x}) = Cardinality(s) - 1
    BY <1>0, <1>4, FS_RemoveElement
  <2> QED
    BY <1>0, <1>4, <1>5, <2>1
<1>7. g[s] = IF s = {} THEN 0 ELSE f[AnyOf(s)] + g[s \ {AnyOf(s)}]
  BY <1>4 DEF SumsOver
<1>8. CASE s = {}
  BY <1>4, <1>7, <1>8 DEF Holds
<1>9. CASE s # {}
  <2> DEFINE a == AnyOf(s)
  <2>1. a \in s
    BY <1>9 DEF AnyOf
  <2> HIDE DEF a
  <2>2. g[s] = f[a] + g[s \ {a}] /\ f[a] \in Nat /\ g[s \ {a}] \in Nat
    BY <1>4, <1>6, <1>7, <1>9, <2>1 DEF Holds, a
  <2>3. ASSUME NEW x \in s PROVE g[s] = f[x] + g[s \ {x}]
    <3>1. CASE x = a
      BY <2>2, <3>1
    <3>2. CASE x # a
      <4>1. x \in s \ {a} /\ a \in s \ {x} /\ f[x] \in Nat
        BY <1>4, <2>1, <3>2
      <4>2. g[s \ {a}] = f[x] + g[(s \ {a}) \ {x}]
        BY <1>6, <2>1, <4>1 DEF Holds
      <4>3. g[s \ {x}] = f[a] + g[(s \ {x}) \ {a}] /\ g[s \ {x}] \in Nat
        BY <1>6, <4>1 DEF Holds
      <4>4. (s \ {a}) \ {x} = (s \ {x}) \ {a}
        OBVIOUS
      <4>5. (s \ {a}) \ {x} \in SUBSET S
        BY <1>4
      <4>6. g[(s \ {a}) \ {x}] \in Nat
        <5>1. Cardinality(s \ {a}) = Cardinality(s) - 1
          BY <1>0, <1>4, <2>1, FS_RemoveElement
        <5>2. Cardinality((s \ {a}) \ {x}) = Cardinality(s \ {a}) - 1
          BY <1>0, <1>6, <2>1, <4>1, FS_RemoveElement
        <5>3. Cardinality((s \ {a}) \ {x}) < Cardinality(s)
          BY <1>0, <1>4, <5>1, <5>2
        <5> QED
          BY <1>5, <4>5, <5>3 DEF Holds
      <4> DEFINE rest == g[(s \ {a}) \ {x}]
      <4>7. rest \in Nat /\ g[s \ {a}] = f[x] + rest /\ g[s \ {x}] = f[a] + rest
        BY <4>2, <4>3, <4>4, <4>6
      <4> HIDE DEF rest
      <4> QED
        BY <2>2, <4>1, <4>7
    <3> QED
      BY <3>1, <3>2
  <2>4. g[s] \in Nat
    BY <2>2
  <2> QED
    BY <1>4, <2>3, <2>4, Zenon DEF Holds
<1> QED
  BY <1>8, <1>9

\* Sums grow with their terms.
LEMMA SumsMonotone ==
    ASSUME NEW S, IsFiniteSet(S), NEW f \in [S -> Nat], NEW h \in [S -> Nat],
           NEW g, SumsOver(f, SUBSET S, g), NEW k, SumsOver(h, SUBSET S, k)
    PROVE  \A s \in SUBSET S : (\A x \in s : f[x] <= h[x]) => g[s] <= k[s]
<1> DEFINE Holds(s) == (\A x \in s : f[x] <= h[x]) => g[s] <= k[s]
           Bad == {Cardinality(s) : s \in {r \in SUBSET S : ~Holds(r)}}
<1>0. \A s \in SUBSET S : IsFiniteSet(s) /\ Cardinality(s) \in Nat
  BY FS_Subset, FS_CardinalityType
<1>1. SUFFICES ASSUME NEW t \in SUBSET S, ~Holds(t) PROVE FALSE
  OBVIOUS
<1>2. Bad \in SUBSET Nat /\ Bad # {}
  BY <1>0, <1>1
<1>3. PICK n \in Bad : \A m \in Bad : n <= m
  <2> HIDE DEF Bad
  <2> QED BY <1>2, LeastElement
<1>4. PICK s \in SUBSET S : ~Holds(s) /\ Cardinality(s) = n
  BY <1>3
<1>5. ASSUME NEW r \in SUBSET S, Cardinality(r) < Cardinality(s) PROVE Holds(r)
  <2> HIDE DEF Holds
  <2>1. ~Holds(r) => Cardinality(r) \in Bad
    OBVIOUS
  <2> HIDE DEF Bad
  <2> QED
    BY <1>0, <1>3, <1>4, <1>5, <2>1
<1>6. \A x \in s : f[x] <= h[x]
  BY <1>4
<1>7. TakesOut(f, S, g) /\ TakesOut(h, S, k)
  BY SumsTakeOut
<1>8. CASE s = {}
  <2>1. g[s] = 0 /\ k[s] \in Nat
    BY <1>4, <1>7, <1>8 DEF SumsOver, TakesOut
  <2> QED
    BY <1>4, <2>1
<1>9. CASE s # {}
  <2>1. PICK x \in s : TRUE
    BY <1>9
  <2>2. g[s] = f[x] + g[s \ {x}] /\ g[s \ {x}] \in Nat
    BY <1>4, <1>7, <2>1 DEF TakesOut
  <2>3. k[s] = h[x] + k[s \ {x}] /\ k[s \ {x}] \in Nat
    BY <1>4, <1>7, <2>1 DEF TakesOut
  <2>4. Cardinality(s \ {x}) < Cardinality(s)
    BY <1>0, <1>4, <2>1, FS_RemoveElement
  <2>5. g[s \ {x}] <= k[s \ {x}]
    BY <1>4, <1>5, <1>6, <2>4
  <2>6. f[x] \in Nat /\ h[x] \in Nat /\ f[x] <= h[x]
    BY <1>4, <1>6, <2>1
  <2> QED
    BY <1>4, <2>2, <2>3, <2>5, <2>6
<1> QED
  BY <1>8, <1>9

-----------------------------------------------------------------------------

LEMMA SumIsNat ==
    ASSUME NEW S, IsFiniteSet(S), NEW f \in [S -> Nat]
    PROVE  SumFunction(f) \in Nat
<1>1. SumFunction(f) = (CHOOSE g : SumsOver(f, SUBSET S, g))[S]
  BY SumUnfolds DEF SumFunction
<1>2. SumsOver(f, SUBSET S, CHOOSE g : SumsOver(f, SUBSET S, g))
  BY SumEquation
<1>3. \A g : SumsOver(f, SUBSET S, g) => g[S] \in Nat
  <2> SUFFICES ASSUME NEW g, SumsOver(f, SUBSET S, g) PROVE g[S] \in Nat
    OBVIOUS
  <2>1. TakesOut(f, S, g)
    BY SumsTakeOut
  <2> QED
    BY <2>1 DEF TakesOut
<1> QED
  BY <1>1, <1>2, <1>3, Zenon

LEMMA SumOfZeros ==
    ASSUME NEW S, IsFiniteSet(S)
    PROVE  SumFunction([x \in S |-> 0]) = 0
<1> DEFINE f == [x \in S |-> 0]
<1>1. f \in [S -> Nat] /\ DOMAIN f = S
  OBVIOUS
<1> HIDE DEF f
<1>2. PICK g : SumsOver(f, SUBSET S, g) /\ SumFunction(f) = g[S]
  BY <1>1, SumUnfolds, SumEquation DEF SumFunction
<1> DEFINE Zero == [s \in SUBSET S |-> 0]
<1>3. SumsOver(f, SUBSET S, Zero)
  <2>1. \A s \in SUBSET S : s # {} => AnyOf(s) \in s
    BY DEF AnyOf
  <2> QED
    BY <2>1 DEF SumsOver, f
<1>4. \A s \in SUBSET S : g[s] <= Zero[s] /\ g[s] \in Nat
  <2> HIDE DEF Zero
  <2>1. \A s \in SUBSET S : (\A x \in s : f[x] <= f[x]) => g[s] <= Zero[s]
    BY <1>1, <1>2, <1>3, SumsMonotone
  <2>2. \A x \in S : f[x] <= f[x]
    BY DEF f
  <2>3. TakesOut(f, S, g)
    BY <1>1, <1>2, SumsTakeOut
  <2> QED
    BY <2>1, <2>2, <2>3 DEF TakesOut
<1> QED
  BY <1>2, <1>4 DEF f

LEMMA SumMonotone ==
    ASSUME NEW S, IsFiniteSet(S), NEW f \in [S -> Nat], NEW h \in [S -> Nat],
           \A x \in S : f[x] <= h[x]
    PROVE  SumFunction(f) <= SumFunction(h)
<1>1. PICK g : SumsOver(f, SUBSET S, g) /\ SumFunction(f) = g[S]
  BY SumUnfolds, SumEquation DEF SumFunction
<1>2. PICK k : SumsOver(h, SUBSET S, k) /\ SumFunction(h) = k[S]
  BY SumUnfolds, SumEquation DEF SumFunction
<1> QED
  BY <1>1, <1>2, SumsMonotone

\* What becomes of a sum when one term changes.
LEMMA SumUpdate ==
    ASSUME NEW S, IsFiniteSet(S), NEW f \in [S -> Nat], NEW h \in [S -> Nat],
           NEW x \in S, \A y \in S \ {x} : h[y] = f[y]
    PROVE  /\ SumFunction(h) = SumFunction(f) - f[x] + h[x]
           /\ f[x] <= SumFunction(f)
<1>1. PICK g : SumsOver(f, SUBSET S, g) /\ SumFunction(f) = g[S]
  BY SumUnfolds, SumEquation DEF SumFunction
<1>2. PICK k : SumsOver(h, SUBSET S, k) /\ SumFunction(h) = k[S]
  BY SumUnfolds, SumEquation DEF SumFunction
<1>3. g[S] = f[x] + g[S \ {x}] /\ g[S \ {x}] \in Nat
  <2>1. TakesOut(f, S, g)
    BY <1>1, SumsTakeOut
  <2> QED
    BY <2>1 DEF TakesOut
<1>4. k[S] = h[x] + k[S \ {x}] /\ k[S \ {x}] \in Nat
  <2>1. TakesOut(h, S, k)
    BY <1>2, SumsTakeOut
  <2> QED
    BY <2>1 DEF TakesOut
<1>5. g[S \ {x}] = k[S \ {x}]
  <2>1. \A y \in S \ {x} : f[y] <= h[y] /\ h[y] <= f[y]
    OBVIOUS
  <2>2. g[S \ {x}] <= k[S \ {x}]
    BY <1>1, <1>2, <2>1, SumsMonotone
  <2>3. k[S \ {x}] <= g[S \ {x}]
    BY <1>1, <1>2, <2>1, SumsMonotone
  <2> QED
    BY <1>3, <1>4, <2>2, <2>3
<1> QED
  BY <1>1, <1>2, <1>3, <1>4, <1>5

=============================================================================
