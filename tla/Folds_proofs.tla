----------------------------- MODULE Folds_proofs -----------------------------
(***************************************************************************)
(* Induction and recursion, stated without operator parameters so that     *)
(* they can be cited: over the numbers, over the subsets of a finite set,  *)
(* and the recursions by which the community modules define folds.         *)
(***************************************************************************)
EXTENDS Integers, FiniteSets, Functions, FiniteSetTheorems,
        WellFoundedInduction, TLAPS

-----------------------------------------------------------------------------
(* Induction.                                                              *)

\* A set of numbers that has a number whenever it has all smaller ones.
LEMMA NumbersInduction ==
  ASSUME NEW Q,
         \A n \in Nat : (\A m \in Nat : m < n => m \in Q) => n \in Q
  PROVE  Nat \subseteq Q
<1> DEFINE Less == OpToRel(<, Nat)
           T == Nat \ Q
<1>1. IsWellFoundedOn(Less, Nat)
  BY NatLessThanWellFounded
<1>2. \A x, y \in Nat : x < y => <<x, y>> \in Less
  BY DEF OpToRel
<1> HIDE DEF Less
<1> SUFFICES ASSUME T # {} PROVE FALSE
  OBVIOUS
<1>3. PICK x \in T : \A y \in T : ~ (<<y, x>> \in Less)
  <2> HIDE DEF T
  <2> QED BY <1>1, WFMin DEF T
<1>4. \A m \in Nat : m < x => m \in Q
  BY <1>2, <1>3
<1>5. QED BY <1>3, <1>4

\* A set of numbers that has zero, and the next of every number it has.
LEMMA StepsInduction ==
  ASSUME NEW Q, 0 \in Q, \A n \in Nat : n \in Q => n + 1 \in Q
  PROVE  Nat \subseteq Q
<1>1. ASSUME NEW n \in Nat, \A m \in Nat : m < n => m \in Q
      PROVE  n \in Q
  <2>1. CASE n = 0
    BY <2>1
  <2>2. CASE n # 0
    <3>1. n - 1 \in Nat /\ n - 1 < n /\ (n - 1) + 1 = n
      BY <2>2
    <3>2. (n - 1) + 1 \in Q
      BY <1>1, <3>1
    <3>3. QED BY <3>1, <3>2
  <2>3. QED BY <2>1, <2>2
<1>2. QED BY <1>1, NumbersInduction

\* A set of sets that has a subset of S whenever it has that one without each
\* of its elements.
LEMMA SubsetsInduction ==
  ASSUME NEW S, IsFiniteSet(S), NEW Q,
         \A T \in SUBSET S : (\A x \in T : T \ {x} \in Q) => T \in Q
  PROVE  SUBSET S \subseteq Q
<1> DEFINE Less == StrictSubsetOrdering(S)
           R == (SUBSET S) \ Q
<1>1. IsWellFoundedOn(Less, FiniteSubsetsOf(S)) /\ SUBSET S = FiniteSubsetsOf(S)
  <2>1. IsWellFoundedOn(Less, FiniteSubsetsOf(S))
    BY FS_StrictSubsetOrderingWellFounded
  <2>2. SUBSET S = FiniteSubsetsOf(S)
    BY FS_Subset DEF FiniteSubsetsOf
  <2>3. QED BY <2>1, <2>2
<1>2. \A T, U \in SUBSET S : T \subseteq U /\ T # U => <<T, U>> \in Less
  BY DEF StrictSubsetOrdering
<1> HIDE DEF Less
<1> SUFFICES ASSUME R # {} PROVE FALSE
  OBVIOUS
<1>3. PICK T \in R : \A U \in R : ~ (<<U, T>> \in Less)
  <2>1. R \subseteq FiniteSubsetsOf(S) /\ R # {}
    BY <1>1
  <2> HIDE DEF R
  <2>2. QED BY <1>1, <2>1, WFMin
<1>4. ASSUME NEW x \in T PROVE T \ {x} \in Q
  <2>1. T \in SUBSET S /\ T \ {x} \in SUBSET S /\ T \ {x} \subseteq T /\ T \ {x} # T
    BY <1>3
  <2>2. <<T \ {x}, T>> \in Less
    BY <1>2, <2>1
  <2>3. QED BY <1>3, <2>1, <2>2
<1>5. T \in SUBSET S /\ T \notin Q
  BY <1>3
<1>6. QED BY <1>4, <1>5

\* A set of numbers has a least one.
LEMMA LeastExists ==
  ASSUME NEW S, S \subseteq Nat, S # {}
  PROVE  \E n \in S : \A m \in S : n <= m
<1> DEFINE Q == Nat \ S
<1> SUFFICES ASSUME \A n \in S : \E m \in S : ~ (n <= m) PROVE FALSE
  OBVIOUS
<1>1. \A n \in Nat : (\A m \in Nat : m < n => m \in Q) => n \in Q
  <2> SUFFICES ASSUME NEW n \in S, \A m \in Nat : m < n => m \in Q PROVE FALSE
    OBVIOUS
  <2>1. PICK m \in S : ~ (n <= m)
    OBVIOUS
  <2>2. m \in Nat /\ m < n
    BY <2>1
  <2>3. QED BY <2>2
<1> HIDE DEF Q
<1>2. Nat \subseteq Q
  BY <1>1, NumbersInduction
<1>3. QED BY <1>2 DEF Q

\* A bounded set of numbers has a greatest one.
LEMMA GreatestExists ==
  ASSUME NEW n \in Nat, NEW S, S \subseteq 0..n, S # {}
  PROVE  \E m \in S : \A k \in S : k <= m
<1> DEFINE T == {n - k : k \in S}
<1>1. T \subseteq Nat /\ T # {}
  <2>1. \A k \in S : n - k \in Nat
    OBVIOUS
  <2>2. QED BY <2>1
<1>2. PICK x \in T : \A y \in T : x <= y
  <2> HIDE DEF T
  <2>1. QED BY <1>1, LeastExists
<1>3. PICK m \in S : x = n - m
  OBVIOUS
<1>4. \A k \in S : n - m <= n - k
  BY <1>2, <1>3
<1>5. QED BY <1>4

-----------------------------------------------------------------------------
(* Recursion.                                                              *)

\* The recursion over the subsets of S that takes one element after the other.
Recursion(g, S, base, pick, step) ==
  \A T \in SUBSET S :
    g[T] = IF T = {} THEN base ELSE step[pick[T]][g[T \ {pick[T]}]]

\* It has a solution: one for the subsets with n elements at most extends to
\* those with one more.
LEMMA RecursionExists ==
  ASSUME NEW S, IsFiniteSet(S), NEW V, NEW base \in V,
         NEW pick, \A T \in SUBSET S : T # {} => pick[T] \in T,
         NEW step, \A x \in S, v \in V : step[x][v] \in V
  PROVE  \E g \in [SUBSET S -> V] : Recursion(g, S, base, pick, step)
<1> DEFINE Small(n) == {T \in SUBSET S : Cardinality(T) <= n}
           Solves(g, n) ==
             \A T \in Small(n) :
               g[T] = IF T = {} THEN base ELSE step[pick[T]][g[T \ {pick[T]}]]
           Q == {n \in Nat : \E g \in [Small(n) -> V] : Solves(g, n)}
<1>1. ASSUME NEW T \in SUBSET S
      PROVE  /\ Cardinality(T) \in Nat
             /\ Cardinality(T) <= Cardinality(S)
             /\ T = {} <=> Cardinality(T) = 0
             /\ T # {} => /\ pick[T] \in T
                          /\ T \ {pick[T]} \in SUBSET S
                          /\ Cardinality(T \ {pick[T]}) = Cardinality(T) - 1
  <2>1. IsFiniteSet(T) /\ Cardinality(T) <= Cardinality(S)
    BY FS_Subset
  <2>2. Cardinality(T) \in Nat /\ (T = {} <=> Cardinality(T) = 0)
    BY <2>1, FS_CardinalityType, FS_EmptySet
  <2>3. ASSUME T # {}
        PROVE  /\ pick[T] \in T
               /\ Cardinality(T \ {pick[T]}) = Cardinality(T) - 1
    BY <2>1, <2>3, FS_RemoveElement
  <2>4. QED BY <2>1, <2>2, <2>3
<1>2. 0 \in Q
  <2> DEFINE g == [T \in Small(0) |-> base]
  <2>1. ASSUME NEW T \in Small(0) PROVE T = {}
    <3>1. T \in SUBSET S /\ Cardinality(T) <= 0
      OBVIOUS
    <3>2. Cardinality(T) \in Nat /\ (T = {} <=> Cardinality(T) = 0)
      BY <1>1, <3>1
    <3>3. QED BY <3>1, <3>2
  <2>2. g \in [Small(0) -> V] /\ Solves(g, 0)
    BY <2>1
  <2>3. QED BY <2>2
<1>3. ASSUME NEW n \in Nat, n \in Q
      PROVE  n + 1 \in Q
  <2>1. PICK g \in [Small(n) -> V] : Solves(g, n)
    BY <1>3
  <2> DEFINE x(T) == pick[T]
             f == [T \in Small(n + 1) |->
                     IF T \in Small(n) THEN g[T] ELSE step[x(T)][g[T \ {x(T)}]]]
  <2>2. ASSUME NEW T \in Small(n + 1)
        PROVE  T # {} => T \ {x(T)} \in Small(n) /\ x(T) \in S
    BY <1>1
  <2>3. Small(n) \subseteq Small(n + 1) /\ {} \in Small(n)
    <3>1. {} \in SUBSET S
      OBVIOUS
    <3>2. Cardinality({}) = 0
      BY <1>1
    <3>3. ASSUME NEW T \in Small(n) PROVE T \in Small(n + 1)
      <4>1. T \in SUBSET S /\ Cardinality(T) <= n
        OBVIOUS
      <4>2. Cardinality(T) \in Nat
        BY <1>1, <4>1
      <4>3. Cardinality(T) <= n + 1
        BY <4>1, <4>2
      <4>4. QED BY <4>1, <4>3
    <3>4. QED BY <3>1, <3>2, <3>3
  <2>4. ASSUME NEW T \in Small(n + 1)
        PROVE  /\ f[T] \in V
               /\ f[T] = IF T = {} THEN base ELSE step[x(T)][f[T \ {x(T)}]]
    <3> HIDE DEF Small
    <3>1. CASE T \in Small(n)
      <4>1. f[T] = g[T] /\ f[T] \in V
        BY <2>1, <3>1
      <4>2. T # {} => f[T \ {x(T)}] = g[T \ {x(T)}]
        BY <2>2, <2>3
      <4>3. g[T] = IF T = {} THEN base ELSE step[x(T)][g[T \ {x(T)}]]
        BY <2>1, <3>1
      <4>4. QED BY <4>1, <4>2, <4>3
    <3>2. CASE T \notin Small(n)
      <4>1. T # {} /\ T \ {x(T)} \in Small(n) /\ x(T) \in S
        BY <2>2, <2>3, <3>2
      <4>2. f[T] = step[x(T)][g[T \ {x(T)}]]
        BY <3>2
      <4>3. f[T \ {x(T)}] = g[T \ {x(T)}] /\ g[T \ {x(T)}] \in V
        BY <2>1, <2>3, <4>1
      <4>4. QED BY <4>1, <4>2, <4>3
    <3>3. QED BY <3>1, <3>2
  <2>5. f \in [Small(n + 1) -> V]
    BY <2>4
  <2>6. Solves(f, n + 1)
    <3> HIDE DEF Small, f
    <3> QED BY <2>4
  <2>7. \E h \in [Small(n + 1) -> V] : Solves(h, n + 1)
    <3> HIDE DEF Small, Solves, f
    <3> QED BY <2>5, <2>6
  <2>8. n + 1 \in Nat
    OBVIOUS
  <2>9. QED
    <3> HIDE DEF Small, Solves, f
    <3> QED BY <2>7, <2>8
<1>4. Nat \subseteq Q
  <2> HIDE DEF Q
  <2>1. \A n \in Nat : (\A m \in Nat : m < n => m \in Q) => n \in Q
    <3> SUFFICES ASSUME NEW n \in Nat, \A m \in Nat : m < n => m \in Q PROVE n \in Q
      OBVIOUS
    <3>1. CASE n = 0
      BY <1>2, <3>1
    <3>2. CASE n # 0
      <4>1. n - 1 \in Nat /\ n - 1 < n /\ (n - 1) + 1 = n
        BY <3>2
      <4>2. n - 1 \in Q
        BY <4>1
      <4>3. (n - 1) + 1 \in Q
        BY <1>3, <4>1, <4>2
      <4>4. QED BY <4>1, <4>3
    <3>3. QED BY <3>1, <3>2
  <2>2. QED BY <2>1, NumbersInduction
<1>5. Cardinality(S) \in Q /\ Small(Cardinality(S)) = SUBSET S
  <2> HIDE DEF Q
  <2>1. Cardinality(S) \in Nat
    BY <1>1
  <2>2. QED BY <1>1, <1>4, <2>1
<1>6. PICK g \in [SUBSET S -> V] : Solves(g, Cardinality(S))
  BY <1>5
<1>7. Recursion(g, S, base, pick, step)
  BY <1>5, <1>6 DEF Recursion
<1>8. QED BY <1>7

-----------------------------------------------------------------------------
(* Sums of a function over finite sets (SumFunctionOnSet of Functions).    *)

Picked(T) == CHOOSE x \in T : TRUE

\* The equation SumFunctionOnSet chooses a solution of.
SumEquation(f, S, g) ==
  g = [T \in SUBSET S |-> IF T = {} THEN 0 ELSE f[Picked(T)] + g[T \ {Picked(T)}]]

LEMMA SumIsChosen ==
  ASSUME NEW f, NEW S
  PROVE  SumFunctionOnSet(f, S) = (CHOOSE g : SumEquation(f, S, g))[S]
BY Zenon DEF SumFunctionOnSet, FoldFunctionOnSet, MapThenFoldSet, SumEquation, Picked

\* g has the sums of f over all subsets of S.
AreSums(g, f, S) ==
  \A T \in SUBSET S :
    /\ SumFunctionOnSet(f, T) = g[T]
    /\ g[T] = IF T = {} THEN 0 ELSE f[Picked(T)] + g[T \ {Picked(T)}]

LEMMA SumsExist ==
  ASSUME NEW S, IsFiniteSet(S), NEW f, \A x \in S : f[x] \in Int
  PROVE  \E g \in [SUBSET S -> Int] : AreSums(g, f, S)
<1>1. \A T : T # {} => Picked(T) \in T
  BY DEF Picked
<1>2. PICK g \in [SUBSET S -> Int] : \A T \in SUBSET S :
        g[T] = IF T = {} THEN 0 ELSE f[Picked(T)] + g[T \ {Picked(T)}]
  <2> DEFINE pick == [T \in SUBSET S |-> Picked(T)]
             step == [x \in S |-> [v \in Int |-> f[x] + v]]
  <2>1. \A T \in SUBSET S : pick[T] = Picked(T)
    OBVIOUS
  <2>2. /\ \A x \in S, v \in Int : step[x][v] = f[x] + v
        /\ \A x \in S, v \in Int : step[x][v] \in Int
    OBVIOUS
  <2>3. \A T \in SUBSET S : T # {} => pick[T] \in T
    BY <1>1, <2>1
  <2> HIDE DEF pick, step
  <2>4. PICK g \in [SUBSET S -> Int] : Recursion(g, S, 0, pick, step)
    BY 0 \in Int, <2>2, <2>3, RecursionExists
  <2>5. ASSUME NEW T \in SUBSET S
        PROVE  g[T] = IF T = {} THEN 0 ELSE f[Picked(T)] + g[T \ {Picked(T)}]
    <3>1. g[T] = IF T = {} THEN 0 ELSE step[Picked(T)][g[T \ {Picked(T)}]]
      BY <2>1, <2>4 DEF Recursion
    <3>2. T # {} => Picked(T) \in S /\ g[T \ {Picked(T)}] \in Int
      BY <1>1
    <3>3. QED BY <2>2, <3>1, <3>2
  <2>6. QED BY <2>5
<1>3. ASSUME NEW T \in SUBSET S
      PROVE  SumFunctionOnSet(f, T) = g[T]
  <2> DEFINE part == [U \in SUBSET T |-> g[U]]
             h == CHOOSE h : SumEquation(f, T, h)
  <2>1. SumEquation(f, T, part)
    <3>1. ASSUME NEW U \in SUBSET T
          PROVE  part[U] = IF U = {} THEN 0 ELSE f[Picked(U)] + part[U \ {Picked(U)}]
      BY <1>2
    <3>2. QED BY <3>1 DEF SumEquation
  <2>2. SumEquation(f, T, h)
    BY <2>1, Zenon
  <2> HIDE DEF h
  <2>3. \A U \in SUBSET T :
          h[U] = IF U = {} THEN 0 ELSE f[Picked(U)] + h[U \ {Picked(U)}]
    BY <2>2 DEF SumEquation
  <2> DEFINE Q == {U \in SUBSET T : h[U] = g[U]}
  <2>4. ASSUME NEW U \in SUBSET T, \A x \in U : U \ {x} \in Q
        PROVE  U \in Q
    <3>1. U # {} => h[U \ {Picked(U)}] = g[U \ {Picked(U)}]
      BY <1>1, <2>4
    <3>2. QED BY <1>2, <2>3, <3>1
  <2>5. IsFiniteSet(T)
    BY FS_Subset
  <2> HIDE DEF Q
  <2>6. SUBSET T \subseteq Q
    BY <2>4, <2>5, SubsetsInduction
  <2>7. h[T] = g[T]
    BY <2>6 DEF Q
  <2>8. QED BY <2>7, SumIsChosen DEF h
<1>4. AreSums(g, f, S)
  BY <1>2, <1>3 DEF AreSums
<1>5. QED BY <1>4

\* A sum is a number, and any element can be taken out of it.
LEMMA SumWithout ==
  ASSUME NEW S, IsFiniteSet(S), NEW f, \A x \in S : f[x] \in Int
  PROVE  /\ SumFunctionOnSet(f, S) \in Int
         /\ S = {} => SumFunctionOnSet(f, S) = 0
         /\ \A x \in S : SumFunctionOnSet(f, S) = f[x] + SumFunctionOnSet(f, S \ {x})
<1> DEFINE Inductive(R) == \A T \in SUBSET S : (\A x \in T : T \ {x} \in R) => T \in R
<1>0. \A R : Inductive(R) => SUBSET S \subseteq R
  BY SubsetsInduction
<1> HIDE DEF Inductive
<1> PICK g \in [SUBSET S -> Int] : AreSums(g, f, S)
  BY SumsExist
<1>1. \A T \in SUBSET S :
        /\ SumFunctionOnSet(f, T) = g[T]
        /\ g[T] = IF T = {} THEN 0 ELSE f[Picked(T)] + g[T \ {Picked(T)}]
  BY DEF AreSums
<1> DEFINE Q == {T \in SUBSET S : \A x \in T : g[T] = f[x] + g[T \ {x}]}
<1>2. ASSUME NEW T \in SUBSET S, \A x \in T : T \ {x} \in Q
      PROVE  T \in Q
  <2> SUFFICES ASSUME NEW x \in T PROVE g[T] = f[x] + g[T \ {x}]
    OBVIOUS
  <2> DEFINE p == Picked(T)
  <2>1. p \in T /\ T # {}
    BY DEF Picked
  <2>2. g[T] = f[p] + g[T \ {p}]
    BY <1>1, <2>1
  <2>3. CASE x = p
    BY <2>2, <2>3
  <2>4. CASE x # p
    <3> HIDE DEF p
    <3>1. g[T \ {p}] = f[x] + g[(T \ {p}) \ {x}]
      BY <1>2, <2>1, <2>4
    <3>2. g[T \ {x}] = f[p] + g[(T \ {x}) \ {p}]
      BY <1>2, <2>1, <2>4
    <3>3. (T \ {p}) \ {x} = (T \ {x}) \ {p}
      OBVIOUS
    <3>4. f[x] \in Int /\ f[p] \in Int /\ g[(T \ {p}) \ {x}] \in Int
      BY <2>1
    <3> DEFINE rest == g[(T \ {p}) \ {x}]
    <3>5. g[T] = f[p] + (f[x] + rest) /\ g[T \ {x}] = f[p] + rest
      BY <2>2, <3>1, <3>2, <3>3
    <3>6. rest \in Int
      BY <3>4
    <3> HIDE DEF rest
    <3>7. QED BY <3>4, <3>5, <3>6
  <2>5. QED BY <2>3, <2>4
<1>3. SUBSET S \subseteq Q
  <2> HIDE DEF Q
  <2>1. Inductive(Q)
    BY <1>2 DEF Inductive
  <2>2. QED BY <1>0, <2>1
<1>4. ASSUME NEW x \in S
      PROVE  SumFunctionOnSet(f, S) = f[x] + SumFunctionOnSet(f, S \ {x})
  <2>1. g[S] = f[x] + g[S \ {x}]
    BY <1>3
  <2>2. QED BY <1>1, <2>1
<1>5. QED BY <1>1, <1>4

\* Functions that agree on a set have one sum over it.
LEMMA SumsAgree ==
  ASSUME NEW S, IsFiniteSet(S), NEW f, \A x \in S : f[x] \in Int,
         NEW g, \A x \in S : g[x] = f[x]
  PROVE  SumFunctionOnSet(g, S) = SumFunctionOnSet(f, S)
<1> DEFINE Q == {T \in SUBSET S : SumFunctionOnSet(g, T) = SumFunctionOnSet(f, T)}
<1>1. ASSUME NEW T \in SUBSET S, \A x \in T : T \ {x} \in Q
      PROVE  T \in Q
  <2>1. IsFiniteSet(T)
    BY FS_Subset
  <2>2. /\ \A x \in T : SumFunctionOnSet(f, T) = f[x] + SumFunctionOnSet(f, T \ {x})
        /\ T = {} => SumFunctionOnSet(f, T) = 0
    BY <2>1, SumWithout
  <2>3. /\ \A x \in T : SumFunctionOnSet(g, T) = g[x] + SumFunctionOnSet(g, T \ {x})
        /\ T = {} => SumFunctionOnSet(g, T) = 0
    <3>1. \A x \in T : g[x] \in Int
      OBVIOUS
    <3>2. QED BY <2>1, <3>1, SumWithout
  <2>4. CASE T = {}
    BY <2>2, <2>3, <2>4
  <2>5. CASE T # {}
    <3>1. PICK x \in T : TRUE
      BY <2>5
    <3>2. SumFunctionOnSet(g, T \ {x}) = SumFunctionOnSet(f, T \ {x}) /\ g[x] = f[x]
      BY <1>1
    <3>3. QED BY <2>2, <2>3, <3>2
  <2>6. QED BY <2>4, <2>5
<1>2. SUBSET S \subseteq Q
  <2> HIDE DEF Q
  <2>1. \A T \in SUBSET S : (\A x \in T : T \ {x} \in Q) => T \in Q
    BY <1>1
  <2>2. QED BY <2>1, SubsetsInduction, Zenon
<1>3. QED BY <1>2

\* A sum of natural numbers is one.
LEMMA SumOfNumbers ==
  ASSUME NEW S, IsFiniteSet(S), NEW f, \A x \in S : f[x] \in Nat
  PROVE  SumFunctionOnSet(f, S) \in Nat
<1> DEFINE Inductive(R) == \A T \in SUBSET S : (\A x \in T : T \ {x} \in R) => T \in R
           Q == {T \in SUBSET S : SumFunctionOnSet(f, T) \in Nat}
<1>1. \A R : Inductive(R) => SUBSET S \subseteq R
  BY SubsetsInduction
<1>2. ASSUME NEW T \in SUBSET S, \A x \in T : T \ {x} \in Q PROVE T \in Q
  <2>1. /\ T = {} => SumFunctionOnSet(f, T) = 0
        /\ \A x \in T : SumFunctionOnSet(f, T) = f[x] + SumFunctionOnSet(f, T \ {x})
    <3>1. IsFiniteSet(T) /\ \A x \in T : f[x] \in Int
      BY FS_Subset
    <3>2. QED BY <3>1, SumWithout
  <2>2. ASSUME NEW x \in T PROVE SumFunctionOnSet(f, T) \in Nat
    <3>1. SumFunctionOnSet(f, T \ {x}) \in Nat /\ f[x] \in Nat
      BY <1>2
    <3>2. QED BY <2>1, <3>1
  <2>3. QED BY <2>1, <2>2
<1>3. Inductive(Q)
  BY <1>2
<1> HIDE DEF Inductive, Q
<1>4. SUBSET S \subseteq Q
  BY <1>1, <1>3
<1>5. QED BY <1>4 DEF Q

LEMMA SumOfZeros ==
  ASSUME NEW S, IsFiniteSet(S), NEW f, \A x \in S : f[x] = 0
  PROVE  SumFunctionOnSet(f, S) = 0
<1> DEFINE Inductive(R) == \A T \in SUBSET S : (\A x \in T : T \ {x} \in R) => T \in R
           Q == {T \in SUBSET S : SumFunctionOnSet(f, T) = 0}
<1>1. \A R : Inductive(R) => SUBSET S \subseteq R
  BY SubsetsInduction
<1>2. ASSUME NEW T \in SUBSET S, \A x \in T : T \ {x} \in Q PROVE T \in Q
  <2>1. /\ T = {} => SumFunctionOnSet(f, T) = 0
        /\ \A x \in T : SumFunctionOnSet(f, T) = f[x] + SumFunctionOnSet(f, T \ {x})
    <3>1. IsFiniteSet(T) /\ \A x \in T : f[x] \in Int
      BY FS_Subset
    <3>2. QED BY <3>1, SumWithout
  <2>2. ASSUME NEW x \in T PROVE SumFunctionOnSet(f, T) = 0
    <3>1. SumFunctionOnSet(f, T \ {x}) = 0 /\ f[x] = 0
      BY <1>2
    <3>2. QED BY <2>1, <3>1
  <2>3. QED BY <2>1, <2>2
<1>3. Inductive(Q)
  BY <1>2
<1> HIDE DEF Inductive, Q
<1>4. SUBSET S \subseteq Q
  BY <1>1, <1>3
<1>5. QED BY <1>4 DEF Q

\* What one element changes, the sum changes.
LEMMA SumChanged ==
  ASSUME NEW S, IsFiniteSet(S), NEW f, \A x \in S : f[x] \in Int,
         NEW a \in S, NEW change \in Int, NEW g,
         \A x \in S : g[x] = IF x = a THEN f[x] + change ELSE f[x]
  PROVE  SumFunctionOnSet(g, S) = SumFunctionOnSet(f, S) + change
<1> DEFINE R == S \ {a}
<1>1. IsFiniteSet(R) /\ \A x \in R : f[x] \in Int /\ g[x] = f[x]
  BY FS_RemoveElement
<1>2. SumFunctionOnSet(g, R) = SumFunctionOnSet(f, R)
  <2> HIDE DEF R
  <2>1. QED BY <1>1, SumsAgree
<1>3. SumFunctionOnSet(f, S) = f[a] + SumFunctionOnSet(f, R)
  BY SumWithout
<1>4. SumFunctionOnSet(g, S) = g[a] + SumFunctionOnSet(g, R)
  <2>1. \A x \in S : g[x] \in Int
    OBVIOUS
  <2>2. QED BY <2>1, SumWithout
<1>5. SumFunctionOnSet(f, R) \in Int
  BY <1>1, SumWithout
<1>6. f[a] \in Int /\ g[a] = f[a] + change
  OBVIOUS
<1>7. QED BY <1>2, <1>3, <1>4, <1>5, <1>6

\* One more element.
LEMMA SumWith ==
  ASSUME NEW S, IsFiniteSet(S), NEW a, a \notin S, NEW f, f[a] \in Int,
         \A x \in S : f[x] \in Int
  PROVE  SumFunctionOnSet(f, S \cup {a}) = SumFunctionOnSet(f, S) + f[a]
<1> DEFINE T == S \cup {a}
<1>1. IsFiniteSet(T) /\ a \in T /\ T \ {a} = S /\ \A x \in T : f[x] \in Int
  BY FS_AddElement
<1> HIDE DEF T
<1>2. SumFunctionOnSet(f, T) = f[a] + SumFunctionOnSet(f, S)
  BY <1>1, SumWithout
<1>3. SumFunctionOnSet(f, S) \in Int
  BY SumWithout
<1>4. QED BY <1>2, <1>3 DEF T

-----------------------------------------------------------------------------
(* Sorting. An order is the set of its pairs.                              *)

Orders(R, S) ==
  /\ \A x, y \in S : x # y => <<x, y>> \in R \/ <<y, x>> \in R
  /\ \A x, y \in S : <<x, y>> \in R => <<y, x>> \notin R
  /\ \A x, y, z \in S : <<x, y>> \in R /\ <<y, z>> \in R => <<x, z>> \in R

Ascending(s, R) == \A i, j \in DOMAIN s : i < j => <<s[i], s[j]>> \in R

LEMMA LastExists ==
  ASSUME NEW S, IsFiniteSet(S), NEW R, Orders(R, S), S # {}
  PROVE  \E x \in S : \A y \in S \ {x} : <<y, x>> \in R
<1> DEFINE HasLast(T) == \E x \in T : \A y \in T \ {x} : <<y, x>> \in R
           Q == {T \in SUBSET S : T # {} => HasLast(T)}
<1>1. ASSUME NEW T \in SUBSET S, \A x \in T : T \ {x} \in Q
      PROVE  T \in Q
  <2> SUFFICES ASSUME NEW x \in T PROVE HasLast(T)
    OBVIOUS
  <2>1. CASE T \ {x} = {}
    BY <2>1
  <2>2. CASE T \ {x} # {}
    <3>1. HasLast(T \ {x})
      BY <1>1, <2>2
    <3>2. PICK y \in T \ {x} : \A z \in (T \ {x}) \ {y} : <<z, y>> \in R
      BY <3>1
    <3>3. CASE <<x, y>> \in R
      BY <3>2, <3>3
    <3>4. CASE <<y, x>> \in R
      <4>1. \A z \in T \ {x} : <<z, x>> \in R
        BY <3>2, <3>4 DEF Orders
      <4>2. QED BY <4>1
    <3>5. QED BY <3>2, <3>3, <3>4 DEF Orders
  <2>3. QED BY <2>1, <2>2
<1> HIDE DEF Q
<1>2. SUBSET S \subseteq Q
  BY <1>1, SubsetsInduction
<1>3. QED BY <1>2 DEF Q

LEMMA AscendingExists ==
  ASSUME NEW S, IsFiniteSet(S), NEW R, Orders(R, S)
  PROVE  \E s \in [1 .. Cardinality(S) -> S] : Ascending(s, R)
<1> DEFINE Sorted(T) == \E s \in [1 .. Cardinality(T) -> T] : Ascending(s, R)
           Q == {T \in SUBSET S : Sorted(T)}
<1>1. ASSUME NEW T \in SUBSET S, \A x \in T : T \ {x} \in Q
      PROVE  T \in Q
  <2>1. IsFiniteSet(T)
    BY FS_Subset
  <2>2. CASE T = {}
    <3>1. Cardinality(T) = 0
      BY <2>2, FS_EmptySet
    <3>2. <<>> \in [1 .. 0 -> T] /\ Ascending(<<>>, R)
      BY DEF Ascending
    <3>3. QED BY <3>1, <3>2
  <2>3. CASE T # {}
    <3>1. Orders(R, T)
      BY DEF Orders
    <3>2. PICK x \in T : \A y \in T \ {x} : <<y, x>> \in R
      BY <2>1, <2>3, <3>1, LastExists
    <3> DEFINE U == T \ {x}
               n == Cardinality(U)
    <3>3. n \in Nat /\ Cardinality(T) = n + 1
      <4>1. IsFiniteSet(U) /\ n = Cardinality(T) - 1
        BY <2>1, FS_RemoveElement
      <4>2. n \in Nat /\ Cardinality(T) \in Nat
        BY <2>1, <4>1, FS_CardinalityType
      <4>3. QED BY <4>1, <4>2
    <3>4. PICK s \in [1..n -> U] : Ascending(s, R)
      BY <1>1
    <3> HIDE DEF n
    <3> DEFINE t == [i \in 1..(n + 1) |-> IF i = n + 1 THEN x ELSE s[i]]
    <3>5. t \in [1..(n + 1) -> T]
      <4>1. ASSUME NEW i \in 1..(n + 1), i # n + 1 PROVE s[i] \in T
        <5>1. i \in 1..n
          BY <3>3, <4>1
        <5>2. QED BY <3>4, <5>1
      <4>2. QED BY <4>1
    <3>6. Ascending(t, R)
      <4> SUFFICES ASSUME NEW i \in 1..(n + 1), NEW j \in 1..(n + 1), i < j
                   PROVE  <<t[i], t[j]>> \in R
        BY DEF Ascending
      <4>1. i \in 1..n /\ s[i] \in U
        BY <3>3
      <4>2. CASE j = n + 1
        BY <3>2, <3>3, <4>1, <4>2
      <4>3. CASE j # n + 1
        <5>1. j \in 1..n
          BY <3>3, <4>3
        <5>2. QED BY <3>3, <3>4, <4>1, <4>3, <5>1 DEF Ascending
      <4>4. QED BY <4>2, <4>3
    <3> HIDE DEF t
    <3>7. QED BY <3>3, <3>5, <3>6
  <2>4. QED BY <2>2, <2>3
<1> HIDE DEF Q
<1>2. SUBSET S \subseteq Q
  BY <1>1, SubsetsInduction
<1>3. QED BY <1>2 DEF Q

\* It has all of the set, each once.
Lists(s, n, S) ==
  /\ \A i, j \in 1..n : s[i] = s[j] => i = j
  /\ \A x \in S : \E i \in 1..n : s[i] = x

LEMMA AscendingOnto ==
  ASSUME NEW S, IsFiniteSet(S), NEW R, Orders(R, S),
         NEW s \in [1 .. Cardinality(S) -> S], Ascending(s, R)
  PROVE  Lists(s, Cardinality(S), S)
<1> DEFINE n == Cardinality(S)
<1>1. n \in Nat
  BY FS_CardinalityType
<1>2. \A x \in S : <<x, x>> \notin R
  BY DEF Orders
<1>3. /\ s \in [1..n -> S]
      /\ \A i, j \in 1..n : i < j => <<s[i], s[j]>> \in R
  BY DEF Ascending
<1> HIDE DEF n
<1>4. ASSUME NEW i \in 1..n, NEW j \in 1..n, i < j PROVE s[i] # s[j]
  BY <1>2, <1>3, <1>4
<1>5. ASSUME NEW i \in 1..n, NEW j \in 1..n, s[i] = s[j] PROVE i = j
  <2>1. i \in Int /\ j \in Int
    BY <1>1
  <2>2. ~ (i < j) /\ ~ (j < i)
    BY <1>4, <1>5
  <2>3. QED BY <2>1, <2>2
<1>6. s \in Injection(1..n, S)
  BY <1>3, <1>5 DEF Injection, IsInjective
<1>7. IsFiniteSet(1..n) /\ Cardinality(1..n) = n
  BY <1>1, FS_Interval
<1>8. s \in Surjection(1..n, S)
  BY <1>6, <1>7, FS_Injection DEF n
<1>9. QED BY <1>5, <1>8 DEF Surjection, Lists, n

\* There is one.
LEMMA AscendingDiffer ==
  ASSUME NEW S, NEW R, Orders(R, S), NEW n \in Nat,
         NEW s \in [1..n -> S], Ascending(s, R), Lists(s, n, S),
         NEW t \in [1..n -> S], Ascending(t, R), Lists(t, n, S),
         NEW i \in 1..n, s[i] # t[i]
  PROVE  FALSE
<1> DEFINE D == {j \in 1..n : s[j] # t[j]}
<1>1. PICK l \in D : \A j \in D : l <= j
  <2>1. D \subseteq Nat /\ i \in D
    OBVIOUS
  <2> HIDE DEF D
  <2>2. QED BY <2>1, LeastExists
<1>2. l \in 1..n /\ s[l] # t[l] /\ s[l] \in S /\ t[l] \in S
  OBVIOUS
<1>3. \A j \in 1..n : j < l => s[j] = t[j]
  BY <1>1
<1> HIDE DEF D
<1>4. PICK j \in 1..n : t[j] = s[l]
  BY <1>2 DEF Lists
<1>5. PICK k \in 1..n : s[k] = t[l]
  BY <1>2 DEF Lists
<1>6. l < j
  <2>1. j # l
    BY <1>2, <1>4
  <2>2. ASSUME j < l PROVE FALSE
    <3>1. s[j] = s[l]
      BY <1>3, <1>4, <2>2
    <3>2. QED BY <1>2, <2>1, <3>1 DEF Lists
  <2>3. QED BY <1>2, <2>1, <2>2
<1>7. l < k
  <2>1. k # l
    BY <1>2, <1>5
  <2>2. ASSUME k < l PROVE FALSE
    <3>1. t[k] = t[l]
      BY <1>3, <1>5, <2>2
    <3>2. QED BY <1>2, <2>1, <3>1 DEF Lists
  <2>3. QED BY <1>2, <2>1, <2>2
<1>8. <<t[l], s[l]>> \in R /\ <<s[l], t[l]>> \in R
  BY <1>2, <1>4, <1>5, <1>6, <1>7 DEF Ascending
<1>9. QED BY <1>2, <1>8 DEF Orders

LEMMA AscendingUnique ==
  ASSUME NEW S, IsFiniteSet(S), NEW R, Orders(R, S),
         NEW s \in [1 .. Cardinality(S) -> S], Ascending(s, R),
         NEW t \in [1 .. Cardinality(S) -> S], Ascending(t, R)
  PROVE  s = t
<1>1. Lists(s, Cardinality(S), S)
  BY AscendingOnto
<1>2. Lists(t, Cardinality(S), S)
  BY AscendingOnto
<1>3. Cardinality(S) \in Nat
  BY FS_CardinalityType
<1>4. \A i \in 1 .. Cardinality(S) : s[i] = t[i]
  BY <1>1, <1>2, <1>3, AscendingDiffer
<1> DEFINE I == 1 .. Cardinality(S)
<1>5. s \in [I -> S] /\ t \in [I -> S] /\ \A i \in I : s[i] = t[i]
  BY <1>4
<1> HIDE DEF I
<1>6. s = [i \in I |-> s[i]] /\ t = [i \in I |-> t[i]]
  BY <1>5
<1>7. [i \in I |-> s[i]] = [i \in I |-> t[i]]
  BY <1>5
<1>8. QED BY <1>6, <1>7, Zenon
=============================================================================
