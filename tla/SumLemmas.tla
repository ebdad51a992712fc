----------------------------- MODULE SumLemmas -----------------------------
(***************************************************************************)
(* Facts about SumFunctionOnSet(f, S), the sum of the integers f[x] for    *)
(* x in a finite set S, by which the ledgers of the models are summed up.  *)
(* The fold it is defined by is a recursive function over SUBSET S; that   *)
(* there is one, and that the order of the elements does not matter, is    *)
(* shown by induction on the size of the subsets.  The induction is over a *)
(* set of numbers, not over a formula, and rests on WFMin.                 *)
(*                                                                         *)
(* And what stands in for induction over data elsewhere: a set of numbers  *)
(* has a least one (LeastNat), a function that is given from each number   *)
(* to the next exists (Recursion), and a sum of rounded quotients is off   *)
(* by no more than its terms together (SumRounded).                        *)
(***************************************************************************)
EXTENDS Integers, FiniteSets, Sequences, Functions, FiniteSetTheorems, WellFoundedInduction, TLAPS

(* A set of naturals with 0 that is closed under successor is all of Nat.  *)
LEMMA SetInduction ==
  ASSUME NEW S \in SUBSET Nat, 0 \in S, \A n \in S : n + 1 \in S
  PROVE  S = Nat
<1> DEFINE R == OpToRel(<, Nat)
<1> DEFINE T == Nat \ S
<1>1. SUFFICES ASSUME T # {} PROVE FALSE
  OBVIOUS
<1>2. IsWellFoundedOn(R, Nat)
  BY NatLessThanWellFounded, Zenon
<1>3. T \subseteq Nat
  OBVIOUS
<1> HIDE DEF T, R
<1>4. PICK x \in T : \A y \in T : ~ (<<y, x>> \in R)
  BY <1>1, <1>2, <1>3, WFMin
<1>5. x # 0 /\ x \in Nat
  BY DEF T
<1>6. x - 1 \in Nat /\ x - 1 < x
  BY <1>5
<1>7. <<x - 1, x>> \in R
  BY <1>5, <1>6 DEF R, OpToRel
<1>8. x - 1 \in S
  BY <1>4, <1>6, <1>7 DEF T
<1>9. x \in S
  BY <1>5, <1>8
<1>10. QED
  BY <1>9 DEF T

-----------------------------------------------------------------------------
Pick(s) == CHOOSE x \in s : TRUE
Small(S, n) == {s \in SUBSET S : Cardinality(s) <= n}

(* What the fold computes for a set, given g for the smaller ones.         *)
FoldStep(f, g, s) == IF s = {} THEN 0 ELSE f[Pick(s)] + g[s \ {Pick(s)}]
Sums(g, f, D) == g = [s \in D |-> FoldStep(f, g, s)]

LEMMA PickIn ==
  ASSUME NEW s, s # {}
  PROVE  Pick(s) \in s
BY DEF Pick

LEMMA Smaller ==
  ASSUME NEW S, IsFiniteSet(S), NEW s \in SUBSET S, NEW x \in s
  PROVE  /\ IsFiniteSet(s) /\ IsFiniteSet(s \ {x})
         /\ Cardinality(s) \in Nat /\ Cardinality(s \ {x}) \in Nat
         /\ Cardinality(s \ {x}) = Cardinality(s) - 1
         /\ s \ {x} \in SUBSET S
<1>1. IsFiniteSet(s)
  BY FS_Subset
<1>2. IsFiniteSet(s \ {x}) /\ Cardinality(s \ {x}) = Cardinality(s) - 1
  BY <1>1, FS_RemoveElement
<1>3. QED
  BY <1>1, <1>2, FS_CardinalityType

LEMMA SumsExist ==
  ASSUME NEW S, IsFiniteSet(S), NEW f, \A x \in S : f[x] \in Int
  PROVE  \E g \in [SUBSET S -> Int] : Sums(g, f, SUBSET S)
<1> DEFINE Good == {n \in Nat : \E g \in [Small(S, n) -> Int] : Sums(g, f, Small(S, n))}
<1>1. 0 \in Good
  <2>1. Small(S, 0) = {{}}
    <3>1. \A s \in SUBSET S : IsFiniteSet(s) /\ (Cardinality(s) = 0 <=> s = {})
      BY FS_Subset, FS_EmptySet
    <3>2. \A s \in SUBSET S : Cardinality(s) \in Nat
      BY <3>1, FS_CardinalityType
    <3>3. QED
      BY <3>1, <3>2 DEF Small
  <2> DEFINE g == [s \in {{}} |-> 0]
  <2>2. g \in [Small(S, 0) -> Int] /\ Sums(g, f, Small(S, 0))
    BY <2>1 DEF Sums, FoldStep
  <2>3. QED
    BY <2>2
<1>2. ASSUME NEW n \in Good PROVE n + 1 \in Good
  <2>1. n \in Nat /\ n + 1 \in Nat
    BY <1>2
  <2>2. PICK g \in [Small(S, n) -> Int] : Sums(g, f, Small(S, n))
    BY <1>2
  <2> DEFINE D == Small(S, n + 1)
  <2> DEFINE h == [s \in D |-> FoldStep(f, g, s)]
  <2>3. ASSUME NEW s \in D, s # {}
        PROVE  /\ Pick(s) \in S
               /\ s \ {Pick(s)} \in Small(S, n)
               /\ s \ {Pick(s)} \in D
    <3>1. s \in SUBSET S /\ Pick(s) \in s
      BY <2>3, PickIn DEF Small
    <3>2. PICK x \in s : x = Pick(s)
      BY <3>1
    <3>3. Cardinality(s \ {x}) = Cardinality(s) - 1 /\ Cardinality(s) \in Nat
          /\ s \ {x} \in SUBSET S
      BY <3>1, Smaller
    <3>4. Cardinality(s) <= n + 1
      BY DEF Small
    <3>5. Cardinality(s \ {x}) <= n /\ Cardinality(s \ {x}) <= n + 1
      BY <2>1, <3>3, <3>4
    <3>6. QED
      BY <3>1, <3>2, <3>3, <3>5 DEF Small
  <2>4. \A s \in Small(S, n) : s \in D /\ h[s] = g[s]
    <3>1. \A s \in Small(S, n) : s \in D
      <4>1. \A s \in Small(S, n) : Cardinality(s) \in Nat
        BY FS_Subset, FS_CardinalityType DEF Small
      <4>2. QED
        BY <2>1, <4>1 DEF Small
    <3>2. \A s \in Small(S, n) : g[s] = FoldStep(f, g, s)
      BY <2>2, Zenon DEF Sums
    <3>3. QED
      BY <3>1, <3>2
  <2>5. ASSUME NEW s \in D PROVE h[s] = FoldStep(f, h, s) /\ h[s] \in Int
    <3>1. CASE s = {}
      BY <3>1 DEF FoldStep
    <3>2. CASE s # {}
      <4>1. h[s] = f[Pick(s)] + g[s \ {Pick(s)}]
        BY <3>2 DEF FoldStep
      <4>2. g[s \ {Pick(s)}] = h[s \ {Pick(s)}] /\ g[s \ {Pick(s)}] \in Int /\ f[Pick(s)] \in Int
        <5> HIDE DEF h, D
        <5>1. QED
          BY <2>2, <2>3, <2>4, <3>2
      <4>3. QED
        BY <3>2, <4>1, <4>2 DEF FoldStep
    <3>3. QED
      BY <3>1, <3>2
  <2>6. h \in [D -> Int] /\ Sums(h, f, D)
    BY <2>5 DEF Sums
  <2>7. QED
    BY <2>1, <2>6
<1>3. Good = Nat
  <2> HIDE DEF Good
  <2>1. Good \in SUBSET Nat
    BY DEF Good
  <2>2. QED
    BY <1>1, <1>2, <2>1, SetInduction
<1>4. Cardinality(S) \in Nat /\ Small(S, Cardinality(S)) = SUBSET S
  BY FS_Subset, FS_CardinalityType DEF Small
<1>5. Cardinality(S) \in Good
  BY <1>3, <1>4
<1>6. QED
  BY <1>4, <1>5

(* There is only one such function.                                        *)
LEMMA SumsUnique ==
  ASSUME NEW S, IsFiniteSet(S), NEW f, NEW g, NEW h, NEW e,
         Sums(g, f, SUBSET S), Sums(h, e, SUBSET S), \A x \in S : f[x] = e[x]
  PROVE  g = h
<1> DEFINE Good == {n \in Nat : \A s \in Small(S, n) : g[s] = h[s]}
<1>1. ASSUME NEW s \in SUBSET S
      PROVE  /\ g[s] = FoldStep(f, g, s) /\ h[s] = FoldStep(e, h, s)
             /\ Cardinality(s) \in Nat
  BY FS_Subset, FS_CardinalityType DEF Sums
<1>2. ASSUME NEW n \in Nat, \A s \in Small(S, n - 1) : g[s] = h[s],
             NEW s \in Small(S, n)
      PROVE  g[s] = h[s]
  <2>1. s \in SUBSET S /\ Cardinality(s) <= n
    BY DEF Small
  <2>2. CASE s = {}
    BY <1>1, <2>1, <2>2 DEF FoldStep
  <2>3. CASE s # {}
    <3>1. PICK x \in s : x = Pick(s)
      BY <2>3, PickIn
    <3>2. Cardinality(s \ {x}) = Cardinality(s) - 1 /\ Cardinality(s) \in Nat
          /\ s \ {x} \in SUBSET S
      BY <2>1, Smaller
    <3>3. s \ {x} \in Small(S, n - 1)
      BY <2>1, <3>2 DEF Small
    <3>4. g[s \ {x}] = h[s \ {x}] /\ f[x] = e[x]
      BY <1>2, <2>1, <3>3
    <3>5. g[s] = f[x] + g[s \ {x}] /\ h[s] = e[x] + h[s \ {x}]
      BY <1>1, <2>1, <2>3, <3>1 DEF FoldStep
    <3>6. QED
      BY <3>4, <3>5
  <2>4. QED
    BY <2>2, <2>3
<1>3. 0 \in Good
  <2>1. Small(S, 0 - 1) = {}
    BY <1>1 DEF Small
  <2>2. QED
    BY <1>2, <2>1
<1>4. ASSUME NEW n \in Good PROVE n + 1 \in Good
  <2>1. n \in Nat /\ n + 1 \in Nat /\ (n + 1) - 1 = n
    BY <1>4
  <2>2. \A s \in Small(S, n) : g[s] = h[s]
    BY <1>4
  <2>3. QED
    BY <1>2, <2>1, <2>2
<1>5. Good = Nat
  <2> HIDE DEF Good
  <2>1. Good \in SUBSET Nat
    BY DEF Good
  <2>2. QED
    BY <1>3, <1>4, <2>1, SetInduction
<1>6. \A s \in SUBSET S : g[s] = h[s]
  <2>1. ASSUME NEW s \in SUBSET S PROVE g[s] = h[s]
    <3>1. Cardinality(s) \in Good /\ s \in Small(S, Cardinality(s))
      BY <1>1, <1>5 DEF Small
    <3>2. QED
      BY <3>1
  <2>2. QED
    BY <2>1
<1>7. QED
  BY <1>6 DEF Sums

(* The element that is taken first does not matter.                        *)
LEMMA AnyOrder ==
  ASSUME NEW S, IsFiniteSet(S), NEW f, \A x \in S : f[x] \in Int,
         NEW g \in [SUBSET S -> Int], Sums(g, f, SUBSET S)
  PROVE  \A s \in SUBSET S : \A x \in s : g[s] = f[x] + g[s \ {x}]
<1> DEFINE Good == {n \in Nat : \A s \in Small(S, n) : \A x \in s : g[s] = f[x] + g[s \ {x}]}
<1>1. ASSUME NEW s \in SUBSET S
      PROVE  g[s] = FoldStep(f, g, s) /\ Cardinality(s) \in Nat
  BY FS_Subset, FS_CardinalityType DEF Sums
<1>2. ASSUME NEW n \in Nat, \A s \in Small(S, n - 1) : \A x \in s : g[s] = f[x] + g[s \ {x}],
             NEW s \in Small(S, n), NEW x \in s
      PROVE  g[s] = f[x] + g[s \ {x}]
  <2>1. s \in SUBSET S /\ Cardinality(s) <= n
    BY DEF Small
  <2>2. PICK y \in s : y = Pick(s)
    BY PickIn
  <2>3. g[s] = f[y] + g[s \ {y}]
    BY <1>1, <2>1, <2>2 DEF FoldStep
  <2>4. CASE y = x
    BY <2>3, <2>4
  <2>5. CASE y # x
    <3>1. /\ Cardinality(s \ {y}) = Cardinality(s) - 1
          /\ Cardinality(s \ {x}) = Cardinality(s) - 1
          /\ Cardinality(s) \in Nat
          /\ s \ {x} \in SUBSET S /\ s \ {y} \in SUBSET S
      BY <2>1, Smaller
    <3>2. s \ {x} \in Small(S, n - 1) /\ s \ {y} \in Small(S, n - 1)
      BY <2>1, <3>1 DEF Small
    <3>3. g[s \ {y}] = f[x] + g[(s \ {y}) \ {x}]
      BY <1>2, <2>5, <3>2
    <3>4. g[s \ {x}] = f[y] + g[(s \ {x}) \ {y}]
      BY <1>2, <2>5, <3>2
    <3>5. (s \ {y}) \ {x} = (s \ {x}) \ {y} /\ (s \ {x}) \ {y} \in SUBSET S
      BY <2>1
    <3>6. f[x] \in Int /\ f[y] \in Int /\ g[(s \ {x}) \ {y}] \in Int
      BY <2>1, <3>5
    <3>7. PICK v \in Int : v = g[(s \ {x}) \ {y}]
      BY <3>6
    <3>8. g[s \ {x}] = f[y] + v /\ g[s \ {y}] = f[x] + v
      BY <3>3, <3>4, <3>5, <3>7
    <3>9. QED
      BY <2>3, <3>6, <3>8
  <2>6. QED
    BY <2>4, <2>5
<1>3. 0 \in Good
  <2>1. Small(S, 0 - 1) = {}
    BY <1>1 DEF Small
  <2>2. QED
    BY <1>2, <2>1
<1>4. ASSUME NEW n \in Good PROVE n + 1 \in Good
  <2>1. n \in Nat /\ n + 1 \in Nat /\ (n + 1) - 1 = n
    BY <1>4
  <2>2. \A s \in Small(S, n) : \A x \in s : g[s] = f[x] + g[s \ {x}]
    BY <1>4
  <2>3. QED
    BY <1>2, <2>1, <2>2
<1>5. Good = Nat
  <2> HIDE DEF Good
  <2>1. Good \in SUBSET Nat
    BY DEF Good
  <2>2. QED
    BY <1>3, <1>4, <2>1, SetInduction
<1>6. ASSUME NEW s \in SUBSET S, NEW x \in s PROVE g[s] = f[x] + g[s \ {x}]
  <2>1. Cardinality(s) \in Good /\ s \in Small(S, Cardinality(s))
    BY <1>1, <1>5 DEF Small
  <2>2. QED
    BY <2>1
<1>7. QED
  BY <1>6

-----------------------------------------------------------------------------
(* The library's fold is that function, taken at the whole set.            *)
LEMMA SumIsFold ==
  ASSUME NEW S, NEW f
  PROVE  SumFunctionOnSet(f, S) = (CHOOSE g : Sums(g, f, SUBSET S))[S]
BY DEF SumFunctionOnSet, FoldFunctionOnSet, MapThenFoldSet, Sums, FoldStep, Pick

(* ... and at every subset.                                                *)
LEMMA SumAt ==
  ASSUME NEW S, IsFiniteSet(S), NEW f, \A x \in S : f[x] \in Int,
         NEW g \in [SUBSET S -> Int], Sums(g, f, SUBSET S),
         NEW T \in SUBSET S
  PROVE  SumFunctionOnSet(f, T) = g[T]
<1> DEFINE h == [s \in SUBSET T |-> g[s]]
<1>1. IsFiniteSet(T) /\ (SUBSET T) \subseteq (SUBSET S)
  BY FS_Subset
<1>2. Sums(h, f, SUBSET T)
  <2>1. ASSUME NEW s \in SUBSET T PROVE h[s] = FoldStep(f, h, s)
    <3>1. h[s] = FoldStep(f, g, s)
      BY <1>1, Zenon DEF Sums
    <3>2. CASE s = {}
      BY <3>1, <3>2 DEF FoldStep
    <3>3. CASE s # {}
      <4>1. s \ {Pick(s)} \in SUBSET T
        OBVIOUS
      <4>2. QED
        BY <3>1, <3>3, <4>1 DEF FoldStep
    <3>4. QED
      BY <3>2, <3>3
  <2>2. QED
    BY <2>1 DEF Sums
<1>3. h = CHOOSE e : Sums(e, f, SUBSET T)
  <2> DEFINE e == CHOOSE e : Sums(e, f, SUBSET T)
  <2>1. Sums(e, f, SUBSET T)
    BY <1>2, Zenon
  <2> HIDE DEF h, e
  <2>2. h = e
    BY <1>1, <1>2, <2>1, SumsUnique
  <2>3. QED
    BY <2>2 DEF e
<1>4. h[T] = g[T]
  OBVIOUS
<1>5. QED
  BY <1>3, <1>4, SumIsFold

(* The sum over the whole and its subsets as one function.                 *)
IsSum(g, f, S) ==
  /\ g[{}] = 0
  /\ \A T \in SUBSET S : SumFunctionOnSet(f, T) = g[T]
  /\ \A T \in SUBSET S : \A x \in T : g[T] = f[x] + g[T \ {x}]

LEMMA SumFunctionExists ==
  ASSUME NEW S, IsFiniteSet(S), NEW f, \A x \in S : f[x] \in Int
  PROVE  \E g \in [SUBSET S -> Int] : IsSum(g, f, S)
<1>1. PICK g \in [SUBSET S -> Int] : Sums(g, f, SUBSET S)
  BY SumsExist
<1>2. g[{}] = 0
  BY <1>1 DEF Sums, FoldStep
<1>3. \A T \in SUBSET S : SumFunctionOnSet(f, T) = g[T]
  BY <1>1, SumAt
<1>4. ASSUME NEW T \in SUBSET S, NEW x \in T
      PROVE  g[T] = f[x] + g[T \ {x}]
  BY <1>1, AnyOrder
<1>5. QED
  BY <1>2, <1>3, <1>4 DEF IsSum

(* Nothing sums to 0: an empty ledger.                                     *)
THEOREM SumEmpty ==
  ASSUME NEW f
  PROVE  SumFunctionOnSet(f, {}) = 0
<1>1. IsFiniteSet({}) /\ \A x \in {} : f[x] \in Int
  BY FS_EmptySet
<1>2. PICK g \in [SUBSET {} -> Int] : IsSum(g, f, {})
  BY <1>1, SumFunctionExists
<1>3. {} \in SUBSET {}
  OBVIOUS
<1>4. QED
  BY <1>2, <1>3 DEF IsSum

(* The sum over a finite set is an integer.                                *)
THEOREM SumInt ==
  ASSUME NEW S, IsFiniteSet(S), NEW f, \A x \in S : f[x] \in Int
  PROVE  SumFunctionOnSet(f, S) \in Int
<1>1. PICK g \in [SUBSET S -> Int] : IsSum(g, f, S)
  BY SumFunctionExists
<1>2. S \in SUBSET S
  OBVIOUS
<1>3. QED
  BY <1>1, <1>2 DEF IsSum

(* One summand may be taken out, whichever it is.                          *)
THEOREM SumRemove ==
  ASSUME NEW S, IsFiniteSet(S), NEW f, \A x \in S : f[x] \in Int, NEW x \in S
  PROVE  SumFunctionOnSet(f, S) = f[x] + SumFunctionOnSet(f, S \ {x})
<1>1. PICK g \in [SUBSET S -> Int] : IsSum(g, f, S)
  BY SumFunctionExists
<1>2. S \in SUBSET S /\ S \ {x} \in SUBSET S
  OBVIOUS
<1>3. SumFunctionOnSet(f, S) = g[S] /\ SumFunctionOnSet(f, S \ {x}) = g[S \ {x}]
  BY <1>1, <1>2 DEF IsSum
<1>4. QED
  BY <1>1, <1>2, <1>3 DEF IsSum

(* A new member adds its number.                                           *)
THEOREM SumAdd ==
  ASSUME NEW S, IsFiniteSet(S), NEW f, \A x \in S : f[x] \in Int,
         NEW x, x \notin S, f[x] \in Int
  PROVE  SumFunctionOnSet(f, S \union {x}) = SumFunctionOnSet(f, S) + f[x]
<1>1. IsFiniteSet(S \union {x}) /\ (S \union {x}) \ {x} = S
  BY FS_AddElement
<1>2. SumFunctionOnSet(f, S \union {x}) = f[x] + SumFunctionOnSet(f, S)
  BY <1>1, SumRemove
<1>3. QED
  BY <1>2, SumInt

(* The sum depends on the numbers of the members only.                     *)
THEOREM SumCongruence ==
  ASSUME NEW S, IsFiniteSet(S), NEW f, NEW e,
         \A x \in S : f[x] \in Int, \A x \in S : f[x] = e[x]
  PROVE  SumFunctionOnSet(f, S) = SumFunctionOnSet(e, S)
<1>1. PICK g \in [SUBSET S -> Int] : Sums(g, f, SUBSET S)
  BY SumsExist
<1>2. PICK h \in [SUBSET S -> Int] : Sums(h, e, SUBSET S)
  BY SumsExist
<1>3. g = h
  BY <1>1, <1>2, SumsUnique
<1>4. QED
  BY <1>1, <1>2, <1>3, SumAt

(* One of the numbers changes.                                             *)
THEOREM SumChange ==
  ASSUME NEW S, IsFiniteSet(S), NEW f, NEW e, NEW x \in S,
         \A y \in S : f[y] \in Int /\ e[y] \in Int,
         \A y \in S \ {x} : e[y] = f[y]
  PROVE  SumFunctionOnSet(e, S) = SumFunctionOnSet(f, S) - f[x] + e[x]
<1>1. IsFiniteSet(S \ {x})
  BY FS_RemoveElement
<1>2. SumFunctionOnSet(e, S \ {x}) = SumFunctionOnSet(f, S \ {x})
  BY <1>1, SumCongruence
<1>3. SumFunctionOnSet(f, S \ {x}) \in Int
  BY <1>1, SumInt
<1>4. /\ SumFunctionOnSet(f, S) = f[x] + SumFunctionOnSet(f, S \ {x})
      /\ SumFunctionOnSet(e, S) = e[x] + SumFunctionOnSet(e, S \ {x})
  BY SumRemove
<1>5. f[x] \in Int /\ e[x] \in Int
  OBVIOUS
<1>6. QED
  BY <1>2, <1>3, <1>4, <1>5

-----------------------------------------------------------------------------
(* Induction over the subsets of a finite set, with a set of them for the  *)
(* formula.                                                                *)
LEMMA SubsetInduction ==
  ASSUME NEW S, IsFiniteSet(S), NEW G \in SUBSET (SUBSET S), {} \in G,
         \A T \in G : \A x \in S \ T : T \union {x} \in G
  PROVE  S \in G
<1> DEFINE Good == {n \in Nat : \A s \in SUBSET S : Cardinality(s) = n => s \in G}
<1>1. ASSUME NEW s \in SUBSET S PROVE Cardinality(s) \in Nat /\ IsFiniteSet(s)
  BY FS_Subset, FS_CardinalityType
<1>2. 0 \in Good
  <2>1. ASSUME NEW s \in SUBSET S, Cardinality(s) = 0 PROVE s = {}
    BY <1>1, <2>1, FS_EmptySet
  <2>2. QED
    BY <2>1
<1>3. ASSUME NEW n \in Good PROVE n + 1 \in Good
  <2>1. ASSUME NEW s \in SUBSET S, Cardinality(s) = n + 1 PROVE s \in G
    <3>1. s # {}
      BY <2>1, FS_EmptySet
    <3>2. PICK x \in s : TRUE
      BY <3>1
    <3>3. Cardinality(s \ {x}) = n /\ s \ {x} \in SUBSET S
      BY <1>3, <2>1, Smaller
    <3>4. s \ {x} \in G
      BY <1>3, <3>3
    <3>5. (s \ {x}) \union {x} = s /\ x \in S \ (s \ {x})
      BY <3>2
    <3>6. QED
      BY <3>4, <3>5
  <2>2. QED
    BY <1>3, <2>1
<1>4. Good = Nat
  <2> HIDE DEF Good
  <2>1. Good \in SUBSET Nat
    BY DEF Good
  <2>2. QED
    BY <1>2, <1>3, <2>1, SetInduction
<1>5. QED
  BY <1>1, <1>4

(* A sum of smaller numbers is smaller.                                    *)
THEOREM SumMonotone ==
  ASSUME NEW S, IsFiniteSet(S), NEW f, NEW e,
         \A x \in S : f[x] \in Int /\ e[x] \in Int /\ f[x] <= e[x]
  PROVE  SumFunctionOnSet(f, S) <= SumFunctionOnSet(e, S)
<1> DEFINE G == {T \in SUBSET S : SumFunctionOnSet(f, T) <= SumFunctionOnSet(e, T)}
<1>1. {} \in G
  BY SumEmpty
<1>2. ASSUME NEW T \in G, NEW x \in S \ T PROVE T \union {x} \in G
  <2>1. IsFiniteSet(T)
    BY FS_Subset
  <2>2. /\ SumFunctionOnSet(f, T \union {x}) = SumFunctionOnSet(f, T) + f[x]
        /\ SumFunctionOnSet(e, T \union {x}) = SumFunctionOnSet(e, T) + e[x]
    BY <2>1, SumAdd
  <2>3. SumFunctionOnSet(f, T) \in Int /\ SumFunctionOnSet(e, T) \in Int
    BY <2>1, SumInt
  <2>4. QED
    BY <2>2, <2>3
<1>3. S \in G
  <2> HIDE DEF G
  <2>1. G \in SUBSET (SUBSET S)
    BY DEF G
  <2>2. QED
    BY <1>1, <1>2, <2>1, SubsetInduction
<1>4. QED
  BY <1>3

(* A sum over naturals is a natural, and none of them exceeds it.          *)
THEOREM SumNat ==
  ASSUME NEW S, IsFiniteSet(S), NEW f, \A x \in S : f[x] \in Nat
  PROVE  /\ SumFunctionOnSet(f, S) \in Nat
         /\ \A x \in S : f[x] <= SumFunctionOnSet(f, S)
<1> DEFINE G == {T \in SUBSET S : SumFunctionOnSet(f, T) \in Nat}
<1>1. {} \in G
  BY SumEmpty
<1>2. ASSUME NEW T \in G, NEW x \in S \ T PROVE T \union {x} \in G
  <2>1. IsFiniteSet(T)
    BY FS_Subset
  <2>2. SumFunctionOnSet(f, T \union {x}) = SumFunctionOnSet(f, T) + f[x]
    BY <2>1, SumAdd
  <2>3. QED
    BY <2>2
<1>3. \A T \in SUBSET S : SumFunctionOnSet(f, T) \in Nat
  <2>1. ASSUME NEW T \in SUBSET S PROVE SumFunctionOnSet(f, T) \in Nat
    <3> DEFINE H == G \intersect SUBSET T
    <3>1. {} \in H /\ \A s \in H : \A x \in T \ s : s \union {x} \in H
      BY <1>1, <1>2
    <3>2. T \in H
      <4> HIDE DEF G
      <4>1. H \in SUBSET (SUBSET T) /\ IsFiniteSet(T)
        BY FS_Subset
      <4> HIDE DEF H
      <4>2. QED
        BY <3>1, <4>1, SubsetInduction
    <3>3. QED
      BY <3>2
  <2>2. QED
    BY <2>1
<1>4. ASSUME NEW x \in S PROVE f[x] <= SumFunctionOnSet(f, S)
  <2>1. SumFunctionOnSet(f, S) = f[x] + SumFunctionOnSet(f, S \ {x})
    BY SumRemove
  <2>2. SumFunctionOnSet(f, S \ {x}) \in Nat
    BY <1>3
  <2>3. QED
    BY <2>1, <2>2
<1>5. QED
  BY <1>3, <1>4

(* A sum of zeros.                                                         *)
THEOREM SumZero ==
  ASSUME NEW S, IsFiniteSet(S), NEW f, \A x \in S : f[x] = 0
  PROVE  SumFunctionOnSet(f, S) = 0
<1> DEFINE G == {T \in SUBSET S : SumFunctionOnSet(f, T) = 0}
<1>1. {} \in G
  BY SumEmpty
<1>2. ASSUME NEW T \in G, NEW x \in S \ T PROVE T \union {x} \in G
  <2>1. IsFiniteSet(T)
    BY FS_Subset
  <2>2. SumFunctionOnSet(f, T \union {x}) = SumFunctionOnSet(f, T) + f[x]
    BY <2>1, SumAdd
  <2>3. QED
    BY <2>2
<1>3. S \in G
  <2> HIDE DEF G
  <2>1. G \in SUBSET (SUBSET S)
    BY DEF G
  <2>2. QED
    BY <1>1, <1>2, <2>1, SubsetInduction
<1>4. QED
  BY <1>3

(* Some of the numbers are put to zero.                                    *)
THEOREM SumDrop ==
  ASSUME NEW S, IsFiniteSet(S), NEW T \in SUBSET S, NEW f, NEW e,
         \A x \in S : f[x] \in Int,
         \A x \in S : e[x] = IF x \in T THEN 0 ELSE f[x]
  PROVE  SumFunctionOnSet(e, S) = SumFunctionOnSet(f, S) - SumFunctionOnSet(f, T)
<1> DEFINE Left(U) == [x \in S |-> IF x \in U THEN 0 ELSE f[x]]
<1> DEFINE G == {U \in SUBSET T :
      SumFunctionOnSet(Left(U), S) = SumFunctionOnSet(f, S) - SumFunctionOnSet(f, U)}
<1>1. IsFiniteSet(T) /\ SumFunctionOnSet(f, S) \in Int
  BY FS_Subset, SumInt
<1>2. ASSUME NEW U \in SUBSET T
      PROVE  /\ \A x \in S : Left(U)[x] = (IF x \in U THEN 0 ELSE f[x]) /\ Left(U)[x] \in Int
             /\ SumFunctionOnSet(Left(U), S) \in Int
             /\ IsFiniteSet(U) /\ SumFunctionOnSet(f, U) \in Int
  <2>1. \A x \in S : Left(U)[x] = (IF x \in U THEN 0 ELSE f[x]) /\ Left(U)[x] \in Int
    OBVIOUS
  <2>2. IsFiniteSet(U)
    BY <1>1, FS_Subset
  <2> HIDE DEF Left
  <2>3. SumFunctionOnSet(Left(U), S) \in Int
    BY <2>1, SumInt
  <2>4. \A x \in U : f[x] \in Int
    OBVIOUS
  <2>5. SumFunctionOnSet(f, U) \in Int
    BY <2>2, <2>4, SumInt
  <2>6. QED
    BY <2>1, <2>2, <2>3, <2>5
<1>3. {} \in G
  <2>1. \A x \in S : Left({})[x] \in Int /\ Left({})[x] = f[x]
    BY <1>2
  <2> HIDE DEF Left
  <2>2. SumFunctionOnSet(Left({}), S) = SumFunctionOnSet(f, S)
    BY <2>1, SumCongruence
  <2>3. SumFunctionOnSet(f, {}) = 0
    BY SumEmpty
  <2>4. QED
    BY <1>1, <2>2, <2>3
<1>4. ASSUME NEW U \in G, NEW x \in T \ U PROVE U \union {x} \in G
  <2>1. U \in SUBSET T /\ U \union {x} \in SUBSET T /\ x \in S /\ x \notin U
    OBVIOUS
  <2>2. SumFunctionOnSet(Left(U), S) = SumFunctionOnSet(f, S) - SumFunctionOnSet(f, U)
    OBVIOUS
  <2> HIDE DEF G
  <2>3. Left(U)[x] = f[x] /\ Left(U \union {x})[x] = 0
    BY <2>1
  <2>4. \A y \in S \ {x} : Left(U \union {x})[y] = Left(U)[y]
    OBVIOUS
  <2>5. \A y \in S : Left(U)[y] \in Int /\ Left(U \union {x})[y] \in Int
    BY <1>2, <2>1
  <2> HIDE DEF Left
  <2>6. SumFunctionOnSet(Left(U \union {x}), S) = SumFunctionOnSet(Left(U), S) - Left(U)[x] + Left(U \union {x})[x]
    <3> DEFINE p == Left(U)
    <3> DEFINE q == Left(U \union {x})
    <3>1. (\A y \in S : p[y] \in Int /\ q[y] \in Int) /\ (\A y \in S \ {x} : q[y] = p[y]) /\ x \in S
      BY <2>1, <2>4, <2>5
    <3> HIDE DEF p, q
    <3>2. SumFunctionOnSet(q, S) = SumFunctionOnSet(p, S) - p[x] + q[x]
      BY <3>1, SumChange
    <3>3. QED
      BY <3>2 DEF p, q
  <2>7. IsFiniteSet(U) /\ (\A y \in U : f[y] \in Int) /\ f[x] \in Int
    BY <1>2, <2>1
  <2>8. SumFunctionOnSet(f, U \union {x}) = SumFunctionOnSet(f, U) + f[x]
    BY <2>1, <2>7, SumAdd
  <2>9. SumFunctionOnSet(f, U) \in Int
    BY <1>2, <2>1
  <2>10. SumFunctionOnSet(Left(U \union {x}), S) = SumFunctionOnSet(f, S) - SumFunctionOnSet(f, U \union {x})
    BY <1>1, <2>2, <2>3, <2>6, <2>7, <2>8, <2>9
  <2>11. QED
    BY <2>1, <2>10 DEF G
<1>5. T \in G
  <2> HIDE DEF G
  <2>1. G \in SUBSET (SUBSET T)
    BY DEF G
  <2>2. QED
    BY <1>1, <1>3, <1>4, <2>1, SubsetInduction
<1>6. SumFunctionOnSet(Left(T), S) = SumFunctionOnSet(f, S) - SumFunctionOnSet(f, T)
  BY <1>5
<1>7. \A x \in S : e[x] \in Int /\ e[x] = Left(T)[x]
  OBVIOUS
<1> HIDE DEF Left
<1>8. QED
  BY <1>6, <1>7, SumCongruence

-----------------------------------------------------------------------------
(* Ledgers are sequences: one more row at the end adds its number.         *)
THEOREM SumAppend ==
  ASSUME NEW n \in Nat, NEW f, NEW e,
         \A i \in 1..n : f[i] \in Int /\ e[i] = f[i], e[n + 1] \in Int
  PROVE  /\ SumFunctionOnSet(f, 1..n) \in Int
         /\ SumFunctionOnSet(e, 1..(n + 1)) = SumFunctionOnSet(f, 1..n) + e[n + 1]
<1>1. IsFiniteSet(1..n)
  BY FS_Interval
<1>2. SumFunctionOnSet(f, 1..n) \in Int /\ SumFunctionOnSet(e, 1..n) = SumFunctionOnSet(f, 1..n)
  BY <1>1, SumInt, SumCongruence
<1>3. 1..(n + 1) = (1..n) \union {n + 1} /\ n + 1 \notin 1..n
  OBVIOUS
<1>4. SumFunctionOnSet(e, (1..n) \union {n + 1}) = SumFunctionOnSet(e, 1..n) + e[n + 1]
  <2> DEFINE I == 1..n
  <2> DEFINE k == n + 1
  <2>1. IsFiniteSet(I) /\ (\A i \in I : e[i] \in Int) /\ k \notin I /\ e[k] \in Int
    BY <1>1
  <2> HIDE DEF I, k
  <2>2. SumFunctionOnSet(e, I \union {k}) = SumFunctionOnSet(e, I) + e[k]
    BY <2>1, SumAdd
  <2>3. QED
    BY <2>2 DEF I, k
<1>5. QED
  BY <1>2, <1>3, <1>4

(* The sum over the rows of a ledger, each counted as v says.              *)
Total(v, rows) == SumFunction([i \in DOMAIN rows |-> v[rows[i]]])

(* A ledger without rows totals 0.                                         *)
THEOREM TotalEmpty ==
  ASSUME NEW v
  PROVE  Total(v, <<>>) = 0
<1>1. DOMAIN [i \in DOMAIN <<>> |-> v[<<>>[i]]] = {}
  OBVIOUS
<1>2. QED
  BY <1>1, SumEmpty DEF Total, SumFunction

(* A new row adds what it counts.                                          *)
THEOREM TotalAppend ==
  ASSUME NEW R, NEW v \in [R -> Int], NEW rows \in Seq(R), NEW row \in R
  PROVE  /\ Total(v, rows) \in Int
         /\ Total(v, Append(rows, row)) = Total(v, rows) + v[row]
<1> DEFINE n == Len(rows)
<1> DEFINE more == Append(rows, row)
<1> DEFINE f == [i \in DOMAIN rows |-> v[rows[i]]]
<1> DEFINE e == [i \in DOMAIN more |-> v[more[i]]]
<1>1. /\ n \in Nat /\ DOMAIN f = 1..n /\ DOMAIN e = 1..(n + 1)
      /\ \A i \in 1..n : rows[i] \in R /\ more[i] = rows[i]
      /\ more[n + 1] = row
  OBVIOUS
<1>2. /\ \A i \in 1..n : f[i] \in Int /\ e[i] = f[i]
      /\ e[n + 1] = v[row] /\ e[n + 1] \in Int
  BY <1>1
<1> HIDE DEF n, f, e
<1>3. /\ SumFunctionOnSet(f, 1..n) \in Int
      /\ SumFunctionOnSet(e, 1..(n + 1)) = SumFunctionOnSet(f, 1..n) + e[n + 1]
  BY <1>1, <1>2, SumAppend
<1>4. QED
  BY <1>1, <1>2, <1>3 DEF Total, SumFunction, f, e

-----------------------------------------------------------------------------
(* A value for every number from a on, each from the one before: there is   *)
(* such a function.                                                         *)
Follows(f, a, b, first, step) ==
  f[a] = first /\ \A d \in a + 1 .. b : f[d] = step[<<d, f[d - 1]>>]

LEMMA Recursion ==
  ASSUME NEW a \in Nat, NEW b \in Nat, a <= b, NEW V, NEW first \in V,
         NEW step \in [(a + 1 .. b) \X V -> V]
  PROVE  \E f \in [a .. b -> V] : Follows(f, a, b, first, step)
<1> DEFINE Upto(n, f) ==
      /\ f[a] = first
      /\ \A d \in a + 1 .. a + n : f[d] = step[<<d, f[d - 1]>>]
<1> DEFINE S == {n \in Nat : a + n <= b => \E f \in [a .. a + n -> V] : Upto(n, f)}
<1>1. 0 \in S
  <2>1. [d \in a .. a |-> first] \in [a .. a + 0 -> V] /\ Upto(0, [d \in a .. a |-> first])
    OBVIOUS
  <2>2. QED
    BY <2>1
<1>2. ASSUME NEW n \in S PROVE n + 1 \in S
  <2>1. n \in Nat /\ n + 1 \in Nat
    OBVIOUS
  <2>2. ASSUME a + (n + 1) <= b PROVE \E f \in [a .. a + (n + 1) -> V] : Upto(n + 1, f)
    <3>1. a + n <= b
      BY <2>1, <2>2
    <3>2. PICK f \in [a .. a + n -> V] : Upto(n, f)
      BY <3>1
    <3> DEFINE m == a + n + 1
    <3> DEFINE g == [d \in a .. a + (n + 1) |-> IF d = m THEN step[<<m, f[a + n]>>] ELSE f[d]]
    <3>3. m \in a + 1 .. b /\ f[a + n] \in V
      BY <2>1, <2>2
    <3>4. step[<<m, f[a + n]>>] \in V
      BY <3>3
    <3>5. \A d \in a .. a + (n + 1) : d # m => d \in a .. a + n
      BY <2>1
    <3>6. g \in [a .. a + (n + 1) -> V]
      BY <3>4, <3>5
    <3>7. g[a] = first
      BY <2>1, <3>2
    <3>8. ASSUME NEW d \in a + 1 .. a + (n + 1) PROVE g[d] = step[<<d, g[d - 1]>>]
      <4>1. d \in a .. a + (n + 1) /\ d - 1 \in a .. a + (n + 1) /\ d - 1 # m
        BY <2>1
      <4>2. g[d - 1] = f[d - 1]
        BY <4>1
      <4>3. CASE d = m
        <5>1. g[d] = step[<<m, f[a + n]>>] /\ d - 1 = a + n
          BY <2>1, <4>1, <4>3
        <5>2. QED
          BY <4>2, <4>3, <5>1
      <4>4. CASE d # m
        <5>1. d \in a + 1 .. a + n /\ g[d] = f[d]
          BY <2>1, <4>1, <4>4
        <5>2. QED
          BY <3>2, <4>2, <5>1
      <4>5. QED
        BY <4>3, <4>4
    <3>9. QED
      BY <3>6, <3>7, <3>8
  <2>3. QED
    BY <2>1, <2>2
<1>3. S = Nat
  <2> HIDE DEF S
  <2>1. S \in SUBSET Nat
    BY DEF S
  <2>2. QED
    BY <1>1, <1>2, <2>1, SetInduction
<1>4. b - a \in Nat /\ a + (b - a) = b
  OBVIOUS
<1>5. PICK f \in [a .. b -> V] : Upto(b - a, f)
  <2>1. b - a \in S
    BY <1>3, <1>4
  <2>2. \E f \in [a .. a + (b - a) -> V] : Upto(b - a, f)
    BY <1>4, <2>1
  <2>3. QED
    BY <1>4, <2>2
<1>6. Follows(f, a, b, first, step)
  BY <1>4, <1>5 DEF Follows
<1>7. QED
  BY <1>6

-----------------------------------------------------------------------------
(* A set of naturals has a least one.                                      *)
LEMMA LeastNat ==
  ASSUME NEW S \in SUBSET Nat, S # {}
  PROVE  \E x \in S : \A y \in S : x <= y
<1> DEFINE R == OpToRel(<, Nat)
<1>1. IsWellFoundedOn(R, Nat)
  BY NatLessThanWellFounded, Zenon
<1> HIDE DEF R
<1>2. PICK x \in S : \A y \in S : ~ (<<y, x>> \in R)
  BY <1>1, WFMin
<1>3. ASSUME NEW y \in S PROVE x <= y
  <2>1. x \in Nat /\ y \in Nat
    OBVIOUS
  <2>2. ~ (y < x)
    BY <1>2, <2>1 DEF R, OpToRel
  <2>3. QED
    BY <2>1, <2>2
<1>4. QED
  BY <1>3

(* The sum of sums.                                                         *)
THEOREM SumPlus ==
  ASSUME NEW S, IsFiniteSet(S), NEW f, NEW g, NEW h,
         \A x \in S : f[x] \in Int /\ g[x] \in Int /\ h[x] = f[x] + g[x]
  PROVE  SumFunctionOnSet(h, S) = SumFunctionOnSet(f, S) + SumFunctionOnSet(g, S)
<1> DEFINE G == {U \in SUBSET S : SumFunctionOnSet(h, U) = SumFunctionOnSet(f, U) + SumFunctionOnSet(g, U)}
<1>1. {} \in G
  BY SumEmpty
<1>2. ASSUME NEW U \in G, NEW x \in S \ U PROVE U \union {x} \in G
  <2>1. IsFiniteSet(U) /\ \A y \in S : h[y] \in Int
    BY FS_Subset
  <2>2. /\ SumFunctionOnSet(f, U \union {x}) = SumFunctionOnSet(f, U) + f[x]
        /\ SumFunctionOnSet(g, U \union {x}) = SumFunctionOnSet(g, U) + g[x]
        /\ SumFunctionOnSet(h, U \union {x}) = SumFunctionOnSet(h, U) + h[x]
    BY <2>1, SumAdd
  <2>3. SumFunctionOnSet(f, U) \in Int /\ SumFunctionOnSet(g, U) \in Int
    BY <2>1, SumInt
  <2>4. QED
    BY <2>2, <2>3
<1>3. S \in G
  <2> HIDE DEF G
  <2>1. G \in SUBSET (SUBSET S) /\ IsFiniteSet(S)
    BY FS_Subset DEF G
  <2>2. QED
    BY <1>1, <1>2, <2>1, SubsetInduction
<1>4. QED
  BY <1>3

(* The two parts of a set.                                                  *)
THEOREM SumSplit ==
  ASSUME NEW S, IsFiniteSet(S), NEW T \in SUBSET S, NEW f, \A x \in S : f[x] \in Int
  PROVE  SumFunctionOnSet(f, S) = SumFunctionOnSet(f, T) + SumFunctionOnSet(f, S \ T)
<1> DEFINE G == {U \in SUBSET (S \ T) : SumFunctionOnSet(f, T \union U) = SumFunctionOnSet(f, T) + SumFunctionOnSet(f, U)}
<1>1. {} \in G
  <2>1. SumFunctionOnSet(f, T) \in Int
    BY FS_Subset, SumInt
  <2>2. T \union {} = T
    OBVIOUS
  <2>3. QED
    BY <2>1, <2>2, SumEmpty
<1>2. ASSUME NEW U \in G, NEW x \in (S \ T) \ U PROVE U \union {x} \in G
  <2>1. IsFiniteSet(U) /\ IsFiniteSet(T) /\ IsFiniteSet(T \union U)
    <3>1. U \in SUBSET S /\ T \in SUBSET S /\ T \union U \in SUBSET S
      OBVIOUS
    <3>2. QED
      BY <3>1, FS_Subset
  <2>2. x \notin U /\ x \notin T \union U /\ f[x] \in Int /\ (T \union U) \union {x} = T \union (U \union {x})
    OBVIOUS
  <2>3. SumFunctionOnSet(f, U \union {x}) = SumFunctionOnSet(f, U) + f[x]
    BY <2>1, <2>2, SumAdd
  <2>4. SumFunctionOnSet(f, (T \union U) \union {x}) = SumFunctionOnSet(f, T \union U) + f[x]
    <3> DEFINE V == T \union U
    <3>1. IsFiniteSet(V) /\ x \notin V /\ f[x] \in Int /\ \A y \in V : f[y] \in Int
      BY <2>1, <2>2
    <3> HIDE DEF V
    <3>2. SumFunctionOnSet(f, V \union {x}) = SumFunctionOnSet(f, V) + f[x]
      BY <3>1, SumAdd
    <3>3. QED
      BY <3>2 DEF V
  <2>5. SumFunctionOnSet(f, T) \in Int /\ SumFunctionOnSet(f, U) \in Int
    BY <2>1, SumInt
  <2>6. SumFunctionOnSet(f, T \union U) = SumFunctionOnSet(f, T) + SumFunctionOnSet(f, U)
    OBVIOUS
  <2>7. SumFunctionOnSet(f, T \union (U \union {x})) = SumFunctionOnSet(f, T) + SumFunctionOnSet(f, U \union {x})
    <3>1. SumFunctionOnSet(f, T \union (U \union {x})) = SumFunctionOnSet(f, T \union U) + f[x]
      BY <2>2, <2>4, Zenon
    <3> DEFINE A == SumFunctionOnSet(f, T)
    <3> DEFINE B == SumFunctionOnSet(f, U)
    <3> DEFINE AB == SumFunctionOnSet(f, T \union U)
    <3>2. A \in Int /\ B \in Int /\ AB = A + B /\ f[x] \in Int
      BY <2>2, <2>5, <2>6
    <3> HIDE DEF A, B, AB
    <3>3. AB + f[x] = A + (B + f[x])
      BY <3>2
    <3>4. QED
      BY <2>3, <3>1, <3>3 DEF A, B, AB
  <2>8. U \union {x} \in SUBSET (S \ T)
    OBVIOUS
  <2>9. QED
    BY <2>7, <2>8
<1>3. (S \ T) \in G
  <2> HIDE DEF G
  <2>1. G \in SUBSET (SUBSET (S \ T)) /\ IsFiniteSet((S \ T))
    BY FS_Subset DEF G
  <2>2. QED
    BY <1>1, <1>2, <2>1, SubsetInduction
<1>4. T \union (S \ T) = S
  OBVIOUS
<1>5. QED
  BY <1>3, <1>4

LEMMA RoundOnce ==
  ASSUME NEW d \in Int, NEW m \in Int, NEW a \in Int, NEW b \in Int, NEW k \in Int, NEW u \in Int, NEW v \in Int,
         2 * (d * a) - 2 * (m * b) \in -(d * k) .. d * k, 2 * (d * u) - 2 * (m * v) \in -d .. d
  PROVE  2 * (d * (a + u)) - 2 * (m * (b + v)) \in -(d * (k + 1)) .. d * (k + 1)
OBVIOUS

(* The t[x] are the p[x] times a fraction, each rounded to a number next to *)
(* it: their sum is that of the p[x] times the fraction, to as many halves. *)
THEOREM SumRounded ==
  ASSUME NEW S, IsFiniteSet(S), NEW t, NEW p, NEW m \in Int, NEW d \in Int, d > 0,
         \A x \in S : t[x] \in Int /\ p[x] \in Int /\ 2 * (d * t[x]) - 2 * (m * p[x]) \in -d .. d
  PROVE  LET n == d * Cardinality(S)
         IN 2 * (d * SumFunctionOnSet(t, S)) - 2 * (m * SumFunctionOnSet(p, S)) \in -n .. n
<1> DEFINE G == {U \in SUBSET S :
      2 * (d * SumFunctionOnSet(t, U)) - 2 * (m * SumFunctionOnSet(p, U))
        \in -(d * Cardinality(U)) .. d * Cardinality(U)}
<1>1. {} \in G
  <2>1. SumFunctionOnSet(t, {}) = 0 /\ SumFunctionOnSet(p, {}) = 0 /\ Cardinality({}) = 0
    BY SumEmpty, FS_EmptySet
  <2>2. d * 0 = 0 /\ m * 0 = 0
    OBVIOUS
  <2>3. QED
    BY <2>1, <2>2
<1>2. ASSUME NEW U \in G, NEW x \in S \ U PROVE U \union {x} \in G
  <2> DEFINE A == SumFunctionOnSet(t, U)
  <2> DEFINE B == SumFunctionOnSet(p, U)
  <2> DEFINE k == Cardinality(U)
  <2>1. IsFiniteSet(U)
    BY FS_Subset
  <2>2. /\ SumFunctionOnSet(t, U \union {x}) = A + t[x]
        /\ SumFunctionOnSet(p, U \union {x}) = B + p[x]
        /\ Cardinality(U \union {x}) = k + 1
    BY <2>1, SumAdd, FS_AddElement
  <2>3. A \in Int /\ B \in Int /\ k \in Int
    BY <2>1, SumInt, FS_CardinalityType
  <2>4. 2 * (d * A) - 2 * (m * B) \in -(d * k) .. d * k
    OBVIOUS
  <2>5. t[x] \in Int /\ p[x] \in Int /\ 2 * (d * t[x]) - 2 * (m * p[x]) \in -d .. d
    OBVIOUS
  <2> HIDE DEF A, B, k
  <2>6. 2 * (d * (A + t[x])) - 2 * (m * (B + p[x])) \in -(d * (k + 1)) .. d * (k + 1)
    BY <2>3, <2>4, <2>5, RoundOnce, Zenon
  <2>7. QED
    BY <2>2, <2>6
<1>3. S \in G
  <2> HIDE DEF G
  <2>1. G \in SUBSET (SUBSET S) /\ IsFiniteSet(S)
    BY FS_Subset DEF G
  <2>2. QED
    BY <1>1, <1>2, <2>1, SubsetInduction
<1>4. QED
  BY <1>3
=============================================================================
