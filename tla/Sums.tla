-------------------------------- MODULE Sums --------------------------------
(***************************************************************************)
(* Facts about sums over a finite set: what the ledger of the card and the *)
(* account of the input cache are made of. A sum is a fold, the fold is a  *)
(* recursion over subsets, and a set of counterexamples, when there is     *)
(* any, has a least one: that is how each fact is proved.                  *)
(***************************************************************************)
EXTENDS Integers, Functions, FiniteSetTheorems, TLAPS

Sums(f, S)  == FoldFunctionOnSet(+, 0, f, S)
Any(s)      == CHOOSE x \in s : TRUE
AddsUp(h, f, S) == h = [s \in SUBSET S |-> IF s = {} THEN 0 ELSE f[Any(s)] + h[s \ {Any(s)}]]

LEMMA AnyIsIn == \A s : s # {} => Any(s) \in s
BY DEF Any

(* Induction over the subsets of a finite set, as a least counterexample.   *)
LEMMA LeastSubset ==
  ASSUME NEW D, IsFiniteSet(D), NEW T \in SUBSET (SUBSET D), T # {}
  PROVE  \E s \in T : \A r \in T : ~(r \subseteq s /\ r # s)
<1>1. IsWellFoundedOn(StrictSubsetOrdering(D), SUBSET D)
  BY FS_StrictSubsetOrderingWellFounded, FS_FiniteSubsetsOfFinite
<1>2. PICK s \in T : \A r \in T : <<r, s>> \notin StrictSubsetOrdering(D)
  BY <1>1, WFMin
<1> QED
  BY <1>2 DEF StrictSubsetOrdering

(* The recursion that defines a sum has a solution. *)
LEMMA AddsUpExists ==
  ASSUME NEW D, IsFiniteSet(D), NEW f
  PROVE  \E h : AddsUp(h, f, D)
<1> DEFINE Body(g, s) == IF s = {} THEN 0 ELSE f[Any(s)] + g[s \ {Any(s)}]
           Good(g, n) == /\ g = [s \in SUBSET D |-> g[s]]
                         /\ \A s \in SUBSET D : Cardinality(s) <= n => g[s] = Body(g, s)
           Bad        == {n \in Nat : ~ \E g : Good(g, n)}
<1>1. \A s \in SUBSET D : IsFiniteSet(s) /\ Cardinality(s) \in Nat
  BY FS_Subset, FS_CardinalityType
<1>2. \E g : Good(g, 0)
  <2>1. PICK g : g = [s \in SUBSET D |-> 0]
    OBVIOUS
  <2>2. \A s \in SUBSET D : Cardinality(s) <= 0 => s = {}
    BY <1>1, FS_EmptySet
  <2> QED
    BY <2>1, <2>2
<1>3. ASSUME NEW n \in Nat, NEW g, Good(g, n)
      PROVE  \E k : Good(k, n + 1)
  <2>1. PICK k : k = [s \in SUBSET D |-> Body(g, s)]
    OBVIOUS
  <2>2. ASSUME NEW s \in SUBSET D, Cardinality(s) <= n + 1, s # {}
        PROVE  k[s] = f[Any(s)] + k[s \ {Any(s)}]
    <3>1. Any(s) \in s /\ s \ {Any(s)} \in SUBSET D
      BY <2>2, AnyIsIn
    <3>2. Cardinality(s \ {Any(s)}) = Cardinality(s) - 1
      BY <1>1, <3>1, FS_RemoveElement
    <3>3. Cardinality(s \ {Any(s)}) <= n
      BY <1>1, <2>2, <3>2
    <3>4. g[s \ {Any(s)}] = k[s \ {Any(s)}]
      BY <1>3, <2>1, <3>1, <3>3
    <3> QED
      BY <2>1, <2>2, <3>4
  <2>3. k[{}] = 0
    BY <2>1
  <2>4. \A s \in SUBSET D : Cardinality(s) <= n + 1 => k[s] = Body(k, s)
    BY <2>2, <2>3
  <2> QED
    BY <2>1, <2>4
<1>4. Bad = {}
  <2> SUFFICES ASSUME Bad # {} PROVE FALSE
    OBVIOUS
  <2> HIDE DEF Good
  <2>1. PICK n \in Bad : \A m \in Bad : n <= m
    <3>1. PICK n \in Bad : \A m \in Bad : <<m, n>> \notin OpToRel(<, Nat)
      BY NatLessThanWellFounded, WFMin
    <3>2. n \in Nat /\ \A m \in Bad : ~(m < n) /\ m \in Nat
      BY <3>1 DEF OpToRel
    <3>3. \A m \in Bad : n <= m
      BY <3>2
    <3> HIDE DEF Bad
    <3> QED
      BY <3>1, <3>3
  <2>2. n # 0 /\ n \in Nat /\ n - 1 \in Nat /\ n - 1 \notin Bad
    BY <1>2, <2>1
  <2>3. PICK g : Good(g, n - 1)
    BY <2>2
  <2>4. \E k : Good(k, (n - 1) + 1)
    BY <1>3, <2>2, <2>3
  <2> QED
    BY <2>1, <2>2, <2>4
<1>5. PICK g : Good(g, Cardinality(D))
  BY <1>1, <1>4
<1>6. \A s \in SUBSET D : g[s] = Body(g, s)
  BY <1>1, <1>5, FS_Subset
<1> QED
  BY <1>5, <1>6 DEF AddsUp

(* It has one only. *)
LEMMA AddsUpOnce ==
  ASSUME NEW D, IsFiniteSet(D), NEW S \in SUBSET D, NEW f, NEW g, NEW h, NEW k,
         AddsUp(h, f, D), AddsUp(k, g, S), \A x \in S : f[x] = g[x]
  PROVE  \A s \in SUBSET S : h[s] = k[s]
<1> DEFINE T == {s \in SUBSET S : h[s] # k[s]}
<1> SUFFICES ASSUME T # {} PROVE FALSE
  OBVIOUS
<1>1. PICK s \in T : \A r \in T : ~(r \subseteq s /\ r # s)
  <2>1. IsFiniteSet(S) /\ T \in SUBSET (SUBSET S)
    BY FS_Subset
  <2> HIDE DEF T
  <2> QED
    BY <2>1, LeastSubset
<1>2. s \in SUBSET S /\ s \in SUBSET D /\ h[s] # k[s]
  BY <1>1
<1>3. s # {}
  BY <1>2 DEF AddsUp
<1>4. Any(s) \in s /\ s \ {Any(s)} \in SUBSET S
  BY <1>2, <1>3, AnyIsIn
<1>5. h[s \ {Any(s)}] = k[s \ {Any(s)}]
  BY <1>1, <1>4
<1>6. h[s] = f[Any(s)] + h[s \ {Any(s)}]
  BY <1>2, <1>3 DEF AddsUp
<1>7. k[s] = g[Any(s)] + k[s \ {Any(s)}]
  BY <1>2, <1>3 DEF AddsUp
<1> QED
  BY <1>2, <1>4, <1>5, <1>6, <1>7

LEMMA SumsAre ==
  ASSUME NEW D, IsFiniteSet(D), NEW f, NEW h, AddsUp(h, f, D), NEW S \in SUBSET D
  PROVE  Sums(f, S) = h[S]
<1>1. IsFiniteSet(S)
  BY FS_Subset
<1>2. PICK k : AddsUp(k, f, S) /\ Sums(f, S) = k[S]
  <2> DEFINE k == CHOOSE k : k = [s \in SUBSET S |->
                    IF s = {} THEN 0 ELSE f[CHOOSE y \in s : TRUE] + k[s \ {CHOOSE y \in s : TRUE}]]
  <2>0. PICK g : AddsUp(g, f, S)
    BY <1>1, AddsUpExists
  <2>1. g = [s \in SUBSET S |->
            IF s = {} THEN 0 ELSE f[CHOOSE y \in s : TRUE] + g[s \ {CHOOSE y \in s : TRUE}]]
    BY <2>0 DEF AddsUp, Any
  <2>2. k = [s \in SUBSET S |->
            IF s = {} THEN 0 ELSE f[CHOOSE y \in s : TRUE] + k[s \ {CHOOSE y \in s : TRUE}]]
    BY <2>1
  <2>3. Sums(f, S) = k[S]
    BY DEF Sums, FoldFunctionOnSet, MapThenFoldSet
  <2> HIDE DEF k
  <2>4. AddsUp(k, f, S)
    BY <2>2 DEF AddsUp, Any
  <2> QED
    BY <2>3, <2>4
<1> QED
  BY <1>2, AddsUpOnce

(* A sum may be taken in any order. *)
LEMMA AnyOrder ==
  ASSUME NEW D, IsFiniteSet(D), NEW f, \A x \in D : f[x] \in Nat, NEW h, AddsUp(h, f, D)
  PROVE  /\ h[{}] = 0
         /\ \A s \in SUBSET D : h[s] \in Nat
         /\ \A s \in SUBSET D : \A a \in s : h[s] = f[a] + h[s \ {a}]
<1>1. \A s \in SUBSET D : s # {} => Any(s) \in s /\ h[s] = f[Any(s)] + h[s \ {Any(s)}]
  BY AnyIsIn DEF AddsUp
<1>2. h[{}] = 0
  BY DEF AddsUp
<1>3. \A s \in SUBSET D : h[s] \in Nat
  <2> DEFINE T == {s \in SUBSET D : h[s] \notin Nat}
  <2> SUFFICES ASSUME T # {} PROVE FALSE
    OBVIOUS
  <2>1. PICK s \in T : \A r \in T : ~(r \subseteq s /\ r # s)
    <3>1. T \in SUBSET (SUBSET D)
      OBVIOUS
    <3> HIDE DEF T
    <3> QED
      BY <3>1, LeastSubset
  <2>2. s # {} /\ s \in SUBSET D
    <3>1. s \in SUBSET D /\ h[s] \notin Nat
      BY <2>1
    <3> QED
      BY <1>2, <3>1
  <2>3. Any(s) \in s /\ s \ {Any(s)} \in SUBSET D /\ h[s] = f[Any(s)] + h[s \ {Any(s)}]
    BY <1>1, <2>2
  <2>4. h[s \ {Any(s)}] \in Nat
    BY <2>1, <2>3
  <2> QED
    BY <2>1, <2>3, <2>4
<1>4. \A s \in SUBSET D : \A a \in s : h[s] = f[a] + h[s \ {a}]
  <2> DEFINE T == {s \in SUBSET D : \E a \in s : h[s] # f[a] + h[s \ {a}]}
  <2> SUFFICES ASSUME T # {} PROVE FALSE
    OBVIOUS
  <2>1. PICK s \in T : \A r \in T : ~(r \subseteq s /\ r # s)
    <3>1. T \in SUBSET (SUBSET D)
      OBVIOUS
    <3> HIDE DEF T
    <3> QED
      BY <3>1, LeastSubset
  <2>2. PICK a \in s : h[s] # f[a] + h[s \ {a}]
    BY <2>1
  <2>3. PICK x : x = Any(s)
    OBVIOUS
  <2>4. s \in SUBSET D /\ x \in s /\ h[s] = f[x] + h[s \ {x}] /\ a # x
    BY <1>1, <2>1, <2>2, <2>3
  <2>5. h[s \ {x}] = f[a] + h[(s \ {x}) \ {a}]
    <3>1. s \ {x} \notin T /\ s \ {x} \in SUBSET D /\ a \in s \ {x}
      BY <2>1, <2>4
    <3> QED
      BY <3>1
  <2>6. h[s \ {a}] = f[x] + h[(s \ {a}) \ {x}]
    <3>1. s \ {a} \notin T /\ s \ {a} \in SUBSET D /\ x \in s \ {a}
      BY <2>1, <2>4
    <3> QED
      BY <3>1
  <2>7. (s \ {a}) \ {x} = (s \ {x}) \ {a} /\ (s \ {a}) \ {x} \in SUBSET D
    BY <2>4
  <2>8. h[(s \ {a}) \ {x}] \in Nat /\ f[a] \in Nat /\ f[x] \in Nat
    BY <1>3, <2>4, <2>7
  <2>9. PICK w, y, z : w = h[(s \ {a}) \ {x}] /\ y = h[s \ {x}] /\ z = h[s \ {a}]
    OBVIOUS
  <2>10. h[s] = f[x] + y /\ y = f[a] + w /\ z = f[x] + w /\ h[s] # f[a] + z
    BY <2>2, <2>4, <2>5, <2>6, <2>7, <2>9
  <2>11. w \in Nat
    BY <2>8, <2>9
  <2> QED
    BY <2>8, <2>10, <2>11
<1> QED
  BY <1>2, <1>3, <1>4

LEMMA SumOfNone == \A f : Sums(f, {}) = 0
<1> TAKE f
<1>1. IsFiniteSet({})
  BY FS_EmptySet
<1>2. PICK h : AddsUp(h, f, {})
  BY <1>1, AddsUpExists
<1>3. h[{}] = 0
  BY <1>2 DEF AddsUp
<1> QED
  BY <1>1, <1>2, <1>3, SumsAre

LEMMA SumTakesOut ==
  ASSUME NEW D, IsFiniteSet(D), NEW f, \A x \in D : f[x] \in Nat, NEW a \in D
  PROVE  /\ Sums(f, D) \in Nat /\ Sums(f, D \ {a}) \in Nat
         /\ Sums(f, D) = f[a] + Sums(f, D \ {a})
<1>1. PICK h : AddsUp(h, f, D)
  BY AddsUpExists
<1>2. D \in SUBSET D /\ D \ {a} \in SUBSET D
  OBVIOUS
<1>3. Sums(f, D) = h[D] /\ Sums(f, D \ {a}) = h[D \ {a}]
  BY <1>1, <1>2, SumsAre
<1>4. h[D] \in Nat /\ h[D \ {a}] \in Nat /\ h[D] = f[a] + h[D \ {a}]
  BY <1>1, <1>2, AnyOrder
<1> QED
  BY <1>3, <1>4

LEMMA SumIsNat ==
  ASSUME NEW D, IsFiniteSet(D), NEW f, \A x \in D : f[x] \in Nat
  PROVE  Sums(f, D) \in Nat
<1>1. PICK h : AddsUp(h, f, D)
  BY AddsUpExists
<1> QED
  BY <1>1, SumsAre, AnyOrder

LEMMA SumSeesOnly ==
  ASSUME NEW D, IsFiniteSet(D), NEW f, NEW g, \A x \in D : f[x] = g[x]
  PROVE  Sums(f, D) = Sums(g, D)
<1>1. PICK h, k : AddsUp(h, f, D) /\ AddsUp(k, g, D)
  BY AddsUpExists
<1>2. h[D] = k[D]
  BY <1>1, AddsUpOnce
<1> QED
  BY <1>1, <1>2, SumsAre

LEMMA SumGrows ==
  ASSUME NEW D, IsFiniteSet(D), NEW f, \A x \in D : f[x] \in Nat, NEW S \in SUBSET D
  PROVE  Sums(f, S) \in Nat /\ Sums(f, S) <= Sums(f, D)
<1>1. PICK h : AddsUp(h, f, D)
  BY AddsUpExists
<1> DEFINE T == {s \in SUBSET D : S \subseteq s /\ ~(h[S] <= h[s])}
<1>2. T = {}
  <2> SUFFICES ASSUME T # {} PROVE FALSE
    OBVIOUS
  <2>1. PICK s \in T : \A r \in T : ~(r \subseteq s /\ r # s)
    <3>1. T \in SUBSET (SUBSET D)
      OBVIOUS
    <3> HIDE DEF T
    <3> QED
      BY <3>1, LeastSubset
  <2>2. h[S] \in Nat /\ s # S
    BY <1>1, <2>1, AnyOrder
  <2>3. PICK a \in s : a \notin S
    BY <2>1, <2>2
  <2>4. h[s] = f[a] + h[s \ {a}] /\ h[s \ {a}] \in Nat /\ f[a] \in Nat
    <3>1. s \in SUBSET D /\ s \ {a} \in SUBSET D /\ a \in D
      BY <2>1
    <3> QED
      BY <1>1, <3>1, AnyOrder
  <2>5. h[S] <= h[s \ {a}]
    BY <2>1, <2>3
  <2> QED
    BY <2>1, <2>2, <2>4, <2>5
<1>3. h[S] <= h[D] /\ h[S] \in Nat
  BY <1>1, <1>2, AnyOrder
<1> QED
  BY <1>1, <1>3, SumsAre

(* Smaller terms, smaller sum. *)
LEMMA SumKeepsOrder ==
  ASSUME NEW D, IsFiniteSet(D), NEW f, NEW g, \A x \in D : f[x] \in Nat /\ g[x] \in Nat /\ f[x] <= g[x]
  PROVE  Sums(f, D) \in Nat /\ Sums(g, D) \in Nat /\ Sums(f, D) <= Sums(g, D)
<1>1. PICK h, k : AddsUp(h, f, D) /\ AddsUp(k, g, D)
  BY AddsUpExists
<1>2. /\ \A s \in SUBSET D : h[s] \in Nat /\ k[s] \in Nat
      /\ h[{}] = 0 /\ k[{}] = 0
      /\ \A s \in SUBSET D : \A a \in s : h[s] = f[a] + h[s \ {a}] /\ k[s] = g[a] + k[s \ {a}]
  <2>0. \A x \in D : f[x] \in Nat /\ g[x] \in Nat
    OBVIOUS
  <2>1. /\ h[{}] = 0
        /\ \A s \in SUBSET D : h[s] \in Nat
        /\ \A s \in SUBSET D : \A a \in s : h[s] = f[a] + h[s \ {a}]
    BY <1>1, <2>0, AnyOrder
  <2>2. /\ k[{}] = 0
        /\ \A s \in SUBSET D : k[s] \in Nat
        /\ \A s \in SUBSET D : \A a \in s : k[s] = g[a] + k[s \ {a}]
    BY <1>1, <2>0, AnyOrder
  <2> QED
    BY <2>1, <2>2
<1> DEFINE T == {s \in SUBSET D : ~(h[s] <= k[s])}
<1>3. T = {}
  <2> SUFFICES ASSUME T # {} PROVE FALSE
    OBVIOUS
  <2>1. PICK s \in T : \A r \in T : ~(r \subseteq s /\ r # s)
    <3>1. T \in SUBSET (SUBSET D)
      OBVIOUS
    <3> HIDE DEF T
    <3> QED
      BY <3>1, LeastSubset
  <2>2. s \in SUBSET D /\ s # {}
    <3>1. s \in SUBSET D /\ ~(h[s] <= k[s])
      BY <2>1
    <3>2. h[{}] <= k[{}]
      BY <1>2
    <3> QED
      BY <3>1, <3>2
  <2>3. PICK a : a \in s
    BY <2>2
  <2>4. s \ {a} \in SUBSET D /\ h[s \ {a}] <= k[s \ {a}]
    BY <2>1, <2>2, <2>3
  <2>5. PICK p, q : p = h[s \ {a}] /\ q = k[s \ {a}]
    OBVIOUS
  <2>6. p \in Nat /\ q \in Nat /\ h[s] = f[a] + p /\ k[s] = g[a] + q /\ p <= q
    BY <1>2, <2>2, <2>3, <2>4, <2>5
  <2>7. f[a] \in Nat /\ g[a] \in Nat /\ f[a] <= g[a]
    BY <2>2, <2>3
  <2>8. h[s] <= k[s]
    BY <2>6, <2>7
  <2> QED
    BY <2>1, <2>8
<1>4. Sums(f, D) = h[D] /\ Sums(g, D) = k[D]
  BY <1>1, SumsAre
<1> QED
  BY <1>2, <1>3, <1>4

(* One term smaller by one and none larger: the sum is smaller. *)
LEMMA SumDrops ==
  ASSUME NEW D, IsFiniteSet(D), NEW f, NEW g, NEW a \in D, f[a] < g[a],
         \A x \in D : f[x] \in Nat /\ g[x] \in Nat /\ f[x] <= g[x]
  PROVE  Sums(f, D) < Sums(g, D)
<1>1. /\ Sums(f, D) = f[a] + Sums(f, D \ {a}) /\ Sums(g, D) = g[a] + Sums(g, D \ {a})
  BY SumTakesOut
<1>2. IsFiniteSet(D \ {a})
  BY FS_Subset
<1>3. /\ Sums(f, D \ {a}) \in Nat /\ Sums(g, D \ {a}) \in Nat
      /\ Sums(f, D \ {a}) <= Sums(g, D \ {a})
  BY <1>2, SumKeepsOrder
<1> QED
  BY <1>1, <1>3

(* Terms of at most c each: at most c for every term that is not zero. *)
LEMMA SumIsBounded ==
  ASSUME NEW D, IsFiniteSet(D), NEW f, NEW c \in Nat, NEW P \in SUBSET D,
         \A x \in D : f[x] \in 0..c, \A x \in D \ P : f[x] = 0
  PROVE  Sums(f, D) <= Cardinality(P) * c
<1>1. PICK h : AddsUp(h, f, D)
  BY AddsUpExists
<1>2. /\ \A s \in SUBSET D : h[s] \in Nat
      /\ h[{}] = 0
      /\ \A s \in SUBSET D : \A a \in s : h[s] = f[a] + h[s \ {a}]
  BY <1>1, AnyOrder
<1>3. \A s \in SUBSET D : IsFiniteSet(s \cap P) /\ Cardinality(s \cap P) \in Nat
  BY FS_Subset, FS_CardinalityType
<1> DEFINE T == {s \in SUBSET D : ~(h[s] <= Cardinality(s \cap P) * c)}
<1>4. T = {}
  <2> SUFFICES ASSUME T # {} PROVE FALSE
    OBVIOUS
  <2>1. PICK s \in T : \A r \in T : ~(r \subseteq s /\ r # s)
    <3>1. T \in SUBSET (SUBSET D)
      OBVIOUS
    <3> HIDE DEF T
    <3> QED
      BY <3>1, LeastSubset
  <2>2. s \in SUBSET D /\ s # {}
    <3>1. ~(h[s] <= Cardinality(s \cap P) * c)
      BY <2>1
    <3>2. Cardinality({} \cap P) = 0
      BY FS_EmptySet
    <3>3. s = {} => h[s] <= Cardinality(s \cap P) * c
      BY <1>2, <3>2
    <3> QED
      BY <2>1, <3>1, <3>3
  <2>3. PICK a : a \in s
    BY <2>2
  <2>4. s \ {a} \in SUBSET D /\ h[s \ {a}] <= Cardinality((s \ {a}) \cap P) * c
    <3>1. s \ {a} \in SUBSET D /\ s \ {a} \subseteq s /\ s \ {a} # s
      BY <2>2, <2>3
    <3>2. s \ {a} \notin T
      BY <2>1, <3>1
    <3> QED
      BY <3>1, <3>2
  <2>5. PICK n, m : n = Cardinality((s \ {a}) \cap P) /\ m = Cardinality(s \cap P)
    OBVIOUS
  <2>6. n \in Nat /\ m \in Nat
    BY <1>3, <2>2, <2>4, <2>5
  <2>7. h[s] = f[a] + h[s \ {a}] /\ h[s \ {a}] \in Nat /\ f[a] \in 0..c
    BY <1>2, <2>2, <2>3, <2>4
  <2>8. CASE a \in P
    <3>1. (s \ {a}) \cap P = (s \cap P) \ {a} /\ a \in s \cap P
      BY <2>3, <2>8
    <3>2. n = m - 1
      <4>1. IsFiniteSet(s \cap P)
        BY <1>3, <2>2
      <4>2. Cardinality((s \cap P) \ {a}) = Cardinality(s \cap P) - 1
        BY <3>1, <4>1, FS_RemoveElement
      <4> QED
        BY <2>5, <3>1, <4>2
    <3>3. n * c + c = m * c
      BY <2>6, <3>2
    <3>4. n * c \in Nat /\ m * c \in Nat
      BY <2>6
    <3>5. h[s] <= m * c
      BY <2>4, <2>5, <2>7, <3>3, <3>4
    <3> QED
      BY <2>1, <2>5, <3>5
  <2>9. CASE a \notin P
    <3>1. (s \ {a}) \cap P = s \cap P
      BY <2>9
    <3>2. f[a] = 0
      BY <2>2, <2>3, <2>9
    <3>3. h[s] = h[s \ {a}]
      BY <2>7, <3>2
    <3> QED
      BY <2>1, <2>4, <3>1, <3>3
  <2> QED
    BY <2>8, <2>9
<1>5. Sums(f, D) = h[D] /\ D \cap P = P
  BY <1>1, SumsAre
<1> QED
  BY <1>4, <1>5

=============================================================================
