----------------------------- MODULE SumTheorems -----------------------------
(***************************************************************************)
(* Facts about sums over finite sets, SumFunctionOnSet(f, S), that the     *)
(* proofs about balances rest on: the equations that add or remove an      *)
(* element, and what follows from them by induction.                       *)
(*                                                                         *)
(* Induction is stated over sets of numbers and sets of subsets, which the *)
(* provers instantiate, where the library has operators.                   *)
(***************************************************************************)
EXTENDS FiniteSetsExt, FiniteSetTheorems, WellFoundedInduction, TLAPS

-----------------------------------------------------------------------------
(* Induction                                                               *)

\* A set of numbers that has 0 and the successor of each member has them all.
LEMMA NumbersInduction ==
  ASSUME NEW N \in SUBSET Nat, 0 \in N, \A n \in N : n + 1 \in N
  PROVE  N = Nat
<1> DEFINE R == OpToRel(<, Nat)
<1> HIDE DEF R
<1>1. SUFFICES ASSUME Nat \ N # {} PROVE FALSE
  OBVIOUS
<1>2. IsWellFoundedOn(R, Nat)
  BY NatLessThanWellFounded DEF R
<1>3. PICK m \in Nat \ N : \A y \in Nat \ N : ~ (<<y, m>> \in R)
  BY <1>1, <1>2, WFMin
<1>4. m # 0 /\ m - 1 \in Nat /\ m - 1 < m
  BY <1>3
<1>5. m - 1 \notin Nat \ N
  BY <1>3, <1>4 DEF OpToRel, R
<1>6. (m - 1) + 1 \in N
  BY <1>4, <1>5
<1> QED
  BY <1>3, <1>6

\* A set of subsets of S that has {} and, with each member, the member with one
\* more element of S, has S.
LEMMA SubsetsInduction ==
  ASSUME NEW S, IsFiniteSet(S), NEW F \in SUBSET SUBSET S, {} \in F,
         \A T \in F : \A x \in S \ T : T \cup {x} \in F
  PROVE  S \in F
<1> DEFINE N == {n \in Nat : \A T \in SUBSET S : Cardinality(T) = n => T \in F}
<1>1. 0 \in N
  <2>1. ASSUME NEW T \in SUBSET S, Cardinality(T) = 0 PROVE T = {}
    BY <2>1, FS_Subset, FS_EmptySet
  <2> QED
    BY <2>1
<1>2. ASSUME NEW n \in N PROVE n + 1 \in N
  <2>1. ASSUME NEW T \in SUBSET S, Cardinality(T) = n + 1 PROVE T \in F
    <3>1. IsFiniteSet(T)
      BY FS_Subset
    <3>2. PICK x \in T : TRUE
      BY <2>1, <3>1, FS_EmptySet
    <3>3. Cardinality(T \ {x}) = n
      <4>1. Cardinality(T \ {x}) = Cardinality(T) - 1
        BY <3>1, <3>2, FS_RemoveElement
      <4> QED
        BY <2>1, <4>1
    <3>4. T \ {x} \in F
      BY <3>3
    <3>5. (T \ {x}) \cup {x} \in F
      BY <3>2, <3>4
    <3> QED
      BY <3>2, <3>5, (T \ {x}) \cup {x} = T
  <2> QED
    BY <2>1
<1>3. N = Nat
  <2> HIDE DEF N
  <2>1. N \subseteq Nat
    BY DEF N
  <2> QED
    BY <1>1, <1>2, <2>1, NumbersInduction
<1> QED
  BY <1>3, FS_CardinalityType

-----------------------------------------------------------------------------
(* The recursion behind a sum has a solution, and one only                 *)

Picked(s) == CHOOSE x \in s : TRUE

SumStep(g, h, s) == IF s = {} THEN 0 ELSE g[Picked(s)] + h[s \ {Picked(s)}]

Sums(g, h, S) == h = [s \in SUBSET S |-> SumStep(g, h, s)]

LEMMA PickedType == \A s : s # {} => Picked(s) \in s
BY DEF Picked

LEMMA SolutionExists ==
  ASSUME NEW g, NEW S, IsFiniteSet(S)
  PROVE  \E h : Sums(g, h, S)
<1> DEFINE UpTo(n) == {s \in SUBSET S : Cardinality(s) <= n}
           Partial(h, n) == h = [s \in UpTo(n) |-> SumStep(g, h, s)]
           N == {n \in Nat : \E h : Partial(h, n)}
<1>1. \A s \in SUBSET S : IsFiniteSet(s) /\ Cardinality(s) \in Nat
  BY FS_Subset, FS_CardinalityType
<1>2. 0 \in N
  <2>1. \A s \in UpTo(0) : s = {}
    BY <1>1, FS_EmptySet
  <2>2. Partial([s \in UpTo(0) |-> 0], 0)
    BY <2>1 DEF SumStep
  <2> QED
    BY <2>2
<1>3. ASSUME NEW n \in N PROVE n + 1 \in N
  <2>1. PICK h : Partial(h, n)
    OBVIOUS
  <2> DEFINE k == [s \in UpTo(n + 1) |-> SumStep(g, h, s)]
  <2>2. ASSUME NEW s \in UpTo(n + 1), s # {} PROVE h[s \ {Picked(s)}] = k[s \ {Picked(s)}]
    <3>1. Cardinality(s \ {Picked(s)}) = Cardinality(s) - 1
      BY <1>1, <2>2, PickedType, FS_RemoveElement
    <3>2. s \ {Picked(s)} \in UpTo(n) /\ s \ {Picked(s)} \in UpTo(n + 1)
      BY <1>1, <3>1
    <3>3. h[s \ {Picked(s)}] = SumStep(g, h, s \ {Picked(s)})
      BY <2>1, <3>2
    <3> QED
      BY <3>2, <3>3
  <2>3. \A s \in UpTo(n + 1) : SumStep(g, h, s) = SumStep(g, k, s)
    <3> HIDE DEF k, UpTo
    <3> QED
      BY <2>2 DEF SumStep
  <2>4. Partial(k, n + 1)
    BY <2>3
  <2> HIDE DEF k, Partial
  <2> QED
    BY <2>4
<1>4. N = Nat
  <2> HIDE DEF N
  <2>1. N \subseteq Nat
    BY DEF N
  <2> QED
    BY <1>2, <1>3, <2>1, NumbersInduction
<1>5. PICK h : Partial(h, Cardinality(S))
  BY <1>1, <1>4
<1>6. UpTo(Cardinality(S)) = SUBSET S
  BY FS_Subset
<1> QED
  BY <1>5, <1>6 DEF Sums

\* Two solutions agree where their summands do.
LEMMA SolutionsAgree ==
  ASSUME NEW f, NEW g, NEW S, NEW T, NEW h, NEW k, IsFiniteSet(S), S \subseteq T,
         \A x \in S : f[x] = g[x], Sums(f, h, S), Sums(g, k, T)
  PROVE  h[S] = k[S]
<1> DEFINE N == {n \in Nat : \A s \in SUBSET S : Cardinality(s) = n => h[s] = k[s]}
<1>1. \A s \in SUBSET S : IsFiniteSet(s) /\ Cardinality(s) \in Nat
  BY FS_Subset, FS_CardinalityType
<1>2. \A s \in SUBSET S : h[s] = SumStep(f, h, s) /\ k[s] = SumStep(g, k, s)
  BY DEF Sums
<1>3. 0 \in N
  <2>1. \A s \in SUBSET S : Cardinality(s) = 0 => s = {}
    BY <1>1, FS_EmptySet
  <2> QED
    BY <1>2, <2>1 DEF SumStep
<1>4. ASSUME NEW n \in N PROVE n + 1 \in N
  <2>1. ASSUME NEW s \in SUBSET S, Cardinality(s) = n + 1 PROVE h[s] = k[s]
    <3>1. s # {}
      <4>1. n + 1 # 0
        OBVIOUS
      <4> HIDE DEF N
      <4> QED
        BY <2>1, <4>1, FS_EmptySet
    <3>2. Picked(s) \in s /\ Picked(s) \in S
      BY <3>1, PickedType
    <3>3. Cardinality(s \ {Picked(s)}) = n
      <4>1. Cardinality(s \ {Picked(s)}) = Cardinality(s) - 1
        BY <1>1, <3>2, FS_RemoveElement
      <4> QED
        BY <2>1, <4>1
    <3>4. h[s \ {Picked(s)}] = k[s \ {Picked(s)}]
      BY <3>3
    <3> QED
      BY <1>2, <3>1, <3>2, <3>4 DEF SumStep
  <2> QED
    BY <2>1
<1>5. N = Nat
  <2> HIDE DEF N
  <2>1. N \subseteq Nat
    BY DEF N
  <2> QED
    BY <1>3, <1>4, <2>1, NumbersInduction
<1> QED
  BY <1>1, <1>5

LEMMA SumIsSolution ==
  ASSUME NEW g, NEW S, IsFiniteSet(S)
  PROVE  \E h : Sums(g, h, S) /\ SumFunctionOnSet(g, S) = h[S]
<1> DEFINE iter == CHOOSE h : Sums(g, h, S)
<1>1. Sums(g, iter, S)
  BY SolutionExists
<1>2. SumFunctionOnSet(g, S) = iter[S]
  BY DEF SumFunctionOnSet, FoldFunctionOnSet, MapThenFoldSet, Sums, SumStep, Picked
<1> QED
  BY <1>1, <1>2

-----------------------------------------------------------------------------
(* What a sum is                                                           *)

\* No summands.
LEMMA SumEmpty == \A g : SumFunctionOnSet(g, {}) = 0
<1> TAKE g
<1>1. PICK h : Sums(g, h, {}) /\ SumFunctionOnSet(g, {}) = h[{}]
  BY SumIsSolution, FS_EmptySet
<1>2. {} \in SUBSET {}
  OBVIOUS
<1> QED
  BY <1>1, <1>2 DEF Sums, SumStep

\* Functions that agree on S have the same sum over S.
LEMMA SumEqual ==
  ASSUME NEW f, NEW g, NEW S, IsFiniteSet(S), \A x \in S : f[x] = g[x]
  PROVE  SumFunctionOnSet(f, S) = SumFunctionOnSet(g, S)
<1>1. PICK h : Sums(f, h, S) /\ SumFunctionOnSet(f, S) = h[S]
  BY SumIsSolution
<1>2. PICK k : Sums(g, k, S) /\ SumFunctionOnSet(g, S) = k[S]
  BY SumIsSolution
<1> QED
  BY <1>1, <1>2, SolutionsAgree

\* The sum over S from the one without the element the definition chooses.
LEMMA SumPicked ==
  ASSUME NEW g, NEW S, IsFiniteSet(S), S # {}
  PROVE  SumFunctionOnSet(g, S) = g[Picked(S)] + SumFunctionOnSet(g, S \ {Picked(S)})
<1>1. PICK h : Sums(g, h, S) /\ SumFunctionOnSet(g, S) = h[S]
  BY SumIsSolution
<1>2. IsFiniteSet(S \ {Picked(S)})
  BY FS_RemoveElement
<1>3. PICK k : Sums(g, k, S \ {Picked(S)}) /\ SumFunctionOnSet(g, S \ {Picked(S)}) = k[S \ {Picked(S)}]
  BY <1>2, SumIsSolution
<1>4. h[S \ {Picked(S)}] = k[S \ {Picked(S)}]
  BY <1>1, <1>2, <1>3, SolutionsAgree
<1>5. h[S] = g[Picked(S)] + h[S \ {Picked(S)}]
  <2>1. S \in SUBSET S
    OBVIOUS
  <2> QED
    BY <1>1, <2>1 DEF Sums, SumStep
<1> QED
  BY <1>1, <1>3, <1>4, <1>5

\* A sum of integers is an integer.
LEMMA SumType ==
  ASSUME NEW g, NEW S, IsFiniteSet(S), \A x \in S : g[x] \in Int
  PROVE  SumFunctionOnSet(g, S) \in Int
<1> DEFINE N == {n \in Nat : \A s \in SUBSET S : Cardinality(s) = n => SumFunctionOnSet(g, s) \in Int}
<1>1. \A s \in SUBSET S : IsFiniteSet(s) /\ Cardinality(s) \in Nat
  BY FS_Subset, FS_CardinalityType
<1>2. 0 \in N
  <2>1. \A s \in SUBSET S : Cardinality(s) = 0 => s = {}
    BY <1>1, FS_EmptySet
  <2> QED
    BY <2>1, SumEmpty
<1>3. ASSUME NEW n \in N PROVE n + 1 \in N
  <2>1. ASSUME NEW s \in SUBSET S, Cardinality(s) = n + 1 PROVE SumFunctionOnSet(g, s) \in Int
    <3>1. CASE s = {}
      BY <3>1, SumEmpty
    <3>2. CASE s # {}
      <4>1. Picked(s) \in s
        BY <3>2, PickedType
      <4>2. Cardinality(s \ {Picked(s)}) = Cardinality(s) - 1
        BY <1>1, <4>1, FS_RemoveElement
      <4>3. SumFunctionOnSet(g, s \ {Picked(s)}) \in Int
        BY <2>1, <4>2
      <4> QED
        BY <1>1, <3>2, <4>1, <4>3, SumPicked
    <3> QED
      BY <3>1, <3>2
  <2> QED
    BY <2>1
<1>4. N = Nat
  <2> HIDE DEF N
  <2>1. N \subseteq Nat
    BY DEF N
  <2> QED
    BY <1>2, <1>3, <2>1, NumbersInduction
<1> QED
  BY <1>1, <1>4

\* The sum over S from the one without x, for any x of S.
LEMMA SumRemove ==
  ASSUME NEW g, NEW S, IsFiniteSet(S), \A y \in S : g[y] \in Int, NEW x \in S
  PROVE  SumFunctionOnSet(g, S) = g[x] + SumFunctionOnSet(g, S \ {x})
<1> DEFINE N == {n \in Nat : \A s \in SUBSET S : Cardinality(s) = n =>
                   \A y \in s : SumFunctionOnSet(g, s) = g[y] + SumFunctionOnSet(g, s \ {y})}
<1>1. \A s \in SUBSET S : IsFiniteSet(s) /\ Cardinality(s) \in Nat
  BY FS_Subset, FS_CardinalityType
<1>2. 0 \in N
  <2>1. \A s \in SUBSET S : Cardinality(s) = 0 => s = {}
    BY <1>1, FS_EmptySet
  <2> QED
    BY <2>1
<1>3. ASSUME NEW n \in N PROVE n + 1 \in N
  <2>1. ASSUME NEW s \in SUBSET S, Cardinality(s) = n + 1, NEW y \in s
        PROVE  SumFunctionOnSet(g, s) = g[y] + SumFunctionOnSet(g, s \ {y})
    <3> DEFINE p == Picked(s)
    <3>1. p \in s
      BY PickedType
    <3>2. SumFunctionOnSet(g, s) = g[p] + SumFunctionOnSet(g, s \ {p})
      BY <1>1, SumPicked
    <3> HIDE DEF p
    <3>3. CASE p = y
      BY <3>2, <3>3
    <3>4. CASE p # y
      <4>1. Cardinality(s \ {p}) = n /\ Cardinality(s \ {y}) = n
        <5>1. Cardinality(s \ {p}) = Cardinality(s) - 1 /\ Cardinality(s \ {y}) = Cardinality(s) - 1
          BY <1>1, <3>1, FS_RemoveElement
        <5> QED
          BY <2>1, <5>1
      <4>2. SumFunctionOnSet(g, s \ {p}) = g[y] + SumFunctionOnSet(g, (s \ {p}) \ {y})
        BY <3>4, <4>1
      <4>3. SumFunctionOnSet(g, s \ {y}) = g[p] + SumFunctionOnSet(g, (s \ {y}) \ {p})
        BY <3>1, <3>4, <4>1
      <4>4. SumFunctionOnSet(g, (s \ {p}) \ {y}) = SumFunctionOnSet(g, (s \ {y}) \ {p})
        <5>1. (s \ {p}) \ {y} = (s \ {y}) \ {p}
          OBVIOUS
        <5> QED
          BY <5>1, Zenon
      <4>5. SumFunctionOnSet(g, (s \ {y}) \ {p}) \in Int
        BY <1>1, SumType
      <4>6. g[p] \in Int /\ g[y] \in Int
        BY <3>1
      <4> HIDE DEF N
      <4> QED
        BY <3>2, <4>2, <4>3, <4>4, <4>5, <4>6
    <3> QED
      BY <3>3, <3>4
  <2> HIDE DEF N
  <2>2. \A s \in SUBSET S : Cardinality(s) = n + 1 =>
          \A y \in s : SumFunctionOnSet(g, s) = g[y] + SumFunctionOnSet(g, s \ {y})
    BY <2>1
  <2>3. n \in Nat
    BY DEF N
  <2> QED
    BY <2>2, <2>3 DEF N
<1>4. N = Nat
  <2> HIDE DEF N
  <2>1. N \subseteq Nat
    BY DEF N
  <2> QED
    BY <1>2, <1>3, <2>1, NumbersInduction
<1> QED
  BY <1>1, <1>4

\* ... and with one more element.
LEMMA SumAdd ==
  ASSUME NEW g, NEW S, IsFiniteSet(S), NEW x, x \notin S,
         \A y \in S \cup {x} : g[y] \in Int
  PROVE  SumFunctionOnSet(g, S \cup {x}) = SumFunctionOnSet(g, S) + g[x]
<1>1. IsFiniteSet(S \cup {x})
  BY FS_AddElement
<1>2. SumFunctionOnSet(g, S \cup {x}) = g[x] + SumFunctionOnSet(g, (S \cup {x}) \ {x})
  BY <1>1, SumRemove
<1>3. SumFunctionOnSet(g, (S \cup {x}) \ {x}) = SumFunctionOnSet(g, S)
  <2>1. (S \cup {x}) \ {x} = S
    OBVIOUS
  <2> QED
    BY <2>1, Zenon
<1>4. SumFunctionOnSet(g, S) \in Int /\ g[x] \in Int
  BY SumType
<1> QED
  BY <1>2, <1>3, <1>4

-----------------------------------------------------------------------------
(* What follows by induction                                               *)

\* Sums over disjoint sets add up.
LEMMA SumUnion ==
  ASSUME NEW g, NEW S, NEW T, IsFiniteSet(S), IsFiniteSet(T), S \cap T = {},
         \A x \in S \cup T : g[x] \in Int
  PROVE  SumFunctionOnSet(g, S \cup T) = SumFunctionOnSet(g, S) + SumFunctionOnSet(g, T)
<1> DEFINE F == {U \in SUBSET T : SumFunctionOnSet(g, S \cup U) =
                                   SumFunctionOnSet(g, S) + SumFunctionOnSet(g, U)}
<1>1. {} \in F
  <2>1. S \cup {} = S
    OBVIOUS
  <2> QED
    BY <2>1, SumEmpty, SumType
<1>2. ASSUME NEW U \in F, NEW x \in T \ U PROVE U \cup {x} \in F
  <2>1. IsFiniteSet(U) /\ IsFiniteSet(S \cup U)
    BY FS_Subset, FS_Union
  <2>2. SumFunctionOnSet(g, U \cup {x}) = SumFunctionOnSet(g, U) + g[x]
    BY <2>1, SumAdd
  <2>3. SumFunctionOnSet(g, (S \cup U) \cup {x}) = SumFunctionOnSet(g, S \cup U) + g[x]
    <3>1. x \notin S \cup U
      OBVIOUS
    <3>2. \A y \in (S \cup U) \cup {x} : g[y] \in Int
      OBVIOUS
    <3> HIDE DEF F
    <3> QED
      BY <2>1, <3>1, <3>2, SumAdd
  <2>4. SumFunctionOnSet(g, (S \cup U) \cup {x}) = SumFunctionOnSet(g, S \cup (U \cup {x}))
    <3>1. (S \cup U) \cup {x} = S \cup (U \cup {x})
      OBVIOUS
    <3> QED
      BY <3>1, Zenon
  <2>5. SumFunctionOnSet(g, S) \in Int /\ SumFunctionOnSet(g, U) \in Int /\ g[x] \in Int
    BY <2>1, SumType
  <2>6. SumFunctionOnSet(g, S \cup (U \cup {x})) =
          SumFunctionOnSet(g, S) + SumFunctionOnSet(g, U \cup {x})
    BY <2>2, <2>3, <2>4, <2>5
  <2> QED
    BY <2>6
<1>3. T \in F
  <2> HIDE DEF F
  <2>1. F \in SUBSET SUBSET T
    BY DEF F
  <2> QED
    BY <1>1, <1>2, <2>1, SubsetsInduction
<1> QED
  BY <1>3

\* The sum of a pointwise sum.
LEMMA SumPlus ==
  ASSUME NEW f, NEW g, NEW h, NEW S, IsFiniteSet(S),
         \A x \in S : f[x] \in Int /\ g[x] \in Int /\ h[x] = f[x] + g[x]
  PROVE  SumFunctionOnSet(h, S) = SumFunctionOnSet(f, S) + SumFunctionOnSet(g, S)
<1> DEFINE F == {U \in SUBSET S : SumFunctionOnSet(h, U) =
                                   SumFunctionOnSet(f, U) + SumFunctionOnSet(g, U)}
<1>1. {} \in F
  BY SumEmpty
<1>2. ASSUME NEW U \in F, NEW x \in S \ U PROVE U \cup {x} \in F
  <2>1. IsFiniteSet(U)
    BY FS_Subset
  <2>2. \A y \in U \cup {x} : f[y] \in Int /\ g[y] \in Int /\ h[y] \in Int
    OBVIOUS
  <2>3. /\ SumFunctionOnSet(f, U \cup {x}) = SumFunctionOnSet(f, U) + f[x]
        /\ SumFunctionOnSet(g, U \cup {x}) = SumFunctionOnSet(g, U) + g[x]
        /\ SumFunctionOnSet(h, U \cup {x}) = SumFunctionOnSet(h, U) + h[x]
    <3> HIDE DEF F
    <3> QED
      BY <2>1, <2>2, SumAdd
  <2>4. SumFunctionOnSet(f, U) \in Int /\ SumFunctionOnSet(g, U) \in Int
    BY <2>1, SumType
  <2> QED
    BY <2>3, <2>4
<1>3. S \in F
  <2> HIDE DEF F
  <2>1. F \in SUBSET SUBSET S
    BY DEF F
  <2> QED
    BY <1>1, <1>2, <2>1, SubsetsInduction
<1> QED
  BY <1>3

\* Zeros add up to zero.
LEMMA SumZero ==
  ASSUME NEW g, NEW S, IsFiniteSet(S), \A x \in S : g[x] = 0
  PROVE  SumFunctionOnSet(g, S) = 0
<1>1. SumFunctionOnSet(g, S) = SumFunctionOnSet(g, S) + SumFunctionOnSet(g, S)
  BY SumPlus
<1>2. SumFunctionOnSet(g, S) \in Int
  BY SumType
<1>3. \A n \in Int : n = n + n => n = 0
  OBVIOUS
<1> QED
  BY <1>1, <1>2, <1>3

\* A sum of numbers, and of greater ones.
LEMMA SumMonotone ==
  ASSUME NEW f, NEW g, NEW S, IsFiniteSet(S),
         \A x \in S : f[x] \in Nat /\ g[x] \in Nat /\ f[x] <= g[x]
  PROVE  /\ SumFunctionOnSet(f, S) \in Nat /\ SumFunctionOnSet(g, S) \in Nat
         /\ SumFunctionOnSet(f, S) <= SumFunctionOnSet(g, S)
<1> DEFINE F == {U \in SUBSET S : /\ SumFunctionOnSet(f, U) \in Nat
                                  /\ SumFunctionOnSet(g, U) \in Nat
                                  /\ SumFunctionOnSet(f, U) <= SumFunctionOnSet(g, U)}
<1>1. {} \in F
  BY SumEmpty
<1>2. ASSUME NEW U \in F, NEW x \in S \ U PROVE U \cup {x} \in F
  <2>1. IsFiniteSet(U)
    BY FS_Subset
  <2>2. \A y \in U \cup {x} : f[y] \in Int /\ g[y] \in Int
    OBVIOUS
  <2>3. /\ SumFunctionOnSet(f, U \cup {x}) = SumFunctionOnSet(f, U) + f[x]
        /\ SumFunctionOnSet(g, U \cup {x}) = SumFunctionOnSet(g, U) + g[x]
    <3> HIDE DEF F
    <3> QED
      BY <2>1, <2>2, SumAdd
  <2> QED
    BY <2>3
<1>3. S \in F
  <2> HIDE DEF F
  <2>1. F \in SUBSET SUBSET S
    BY DEF F
  <2> QED
    BY <1>1, <1>2, <2>1, SubsetsInduction
<1> QED
  BY <1>3

\* A function changed at one element x: the sum moves with it.
LEMMA SumChange ==
  ASSUME NEW f, NEW g, NEW S, IsFiniteSet(S), NEW x \in S,
         \A y \in S : f[y] \in Int /\ g[y] \in Int,
         \A y \in S \ {x} : g[y] = f[y]
  PROVE  SumFunctionOnSet(g, S) = SumFunctionOnSet(f, S) + g[x] - f[x]
<1>1. IsFiniteSet(S \ {x})
  BY FS_RemoveElement
<1>2. SumFunctionOnSet(g, S \ {x}) = SumFunctionOnSet(f, S \ {x})
  BY <1>1, SumEqual
<1>3. SumFunctionOnSet(f, S) = f[x] + SumFunctionOnSet(f, S \ {x})
  BY SumRemove
<1>4. SumFunctionOnSet(g, S) = g[x] + SumFunctionOnSet(g, S \ {x})
  BY SumRemove
<1>5. SumFunctionOnSet(f, S \ {x}) \in Int
  BY <1>1, SumType
<1> QED
  BY <1>2, <1>3, <1>4, <1>5
=============================================================================
