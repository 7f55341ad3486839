---------------------------- MODULE SumTheorems ----------------------------
(***************************************************************************)
(* Facts about SumFunctionOnSet, the community modules' sum of the values  *)
(* of a function over a finite set of its arguments: what it unfolds to,   *)
(* that the order does not matter, and what changing one value, or adding  *)
(* or removing one argument, does to it.                                   *)
(*                                                                         *)
(* The operator recurs over sets, so these facts need an induction.  Both  *)
(* inductions below come from the library's minimum of a well-founded      *)
(* relation, applied to the set of counterexamples: what is proved by      *)
(* induction is membership of a set, not a predicate.                      *)
(***************************************************************************)
EXTENDS Integers, Functions, FiniteSetTheorems, TLAPS

(* Induction over the subsets of a finite set, by removing one element. *)
LEMMA InductionOnSets ==
  ASSUME NEW S, IsFiniteSet(S), NEW C, {} \in C,
         \A T \in SUBSET S : T # {} /\ (\A x \in T : T \ {x} \in C) => T \in C
  PROVE  SUBSET S \subseteq C
  <1> DEFINE R == StrictSubsetOrdering(S)
             B == {T \in SUBSET S : T \notin C}
  <1>1. IsWellFoundedOn(R, SUBSET S)
    BY FS_StrictSubsetOrderingWellFounded, FS_FiniteSubsetsOfFinite
  <1>2. SUFFICES ASSUME B # {}
                 PROVE  FALSE
    OBVIOUS
  <1>3. PICK T \in B : \A U \in B : <<U, T>> \notin R
    <2>1. B \subseteq SUBSET S
      OBVIOUS
    <2> HIDE DEF B, R
    <2>2. QED
      BY <1>1, <1>2, <2>1, WFMin
  <1>4. ASSUME NEW x \in T
        PROVE  T \ {x} \in C
    <2>1. <<T \ {x}, T>> \in R
      BY DEF StrictSubsetOrdering
    <2>2. QED
      BY <1>3, <2>1
  <1>5. QED
    BY <1>3, <1>4

(* Induction over the natural numbers. *)
LEMMA InductionOnNat ==
  ASSUME NEW C, 0 \in C, \A n \in Nat : n \in C => n + 1 \in C
  PROVE  Nat \subseteq C
  <1> DEFINE R == OpToRel(<, Nat)
             B == {n \in Nat : n \notin C}
  <1>1. IsWellFoundedOn(R, Nat)
    BY NatLessThanWellFounded
  <1>2. \A m, n \in Nat : m < n => <<m, n>> \in R
    BY DEF OpToRel
  <1>3. B \subseteq Nat
    OBVIOUS
  <1>4. ASSUME NEW n \in B, \A m \in B : <<m, n>> \notin R
        PROVE  FALSE
    <2> HIDE DEF R
    <2>1. n # 0 /\ n - 1 \in Nat /\ n - 1 < n
      OBVIOUS
    <2>2. n - 1 \in C
      BY <1>2, <1>4, <2>1
    <2>3. QED
      BY <2>1, <2>2
  <1>5. B = {}
    <2> HIDE DEF B, R
    <2>1. QED
      BY <1>1, <1>3, <1>4, WFMin
  <1>6. QED
    BY <1>5

-----------------------------------------------------------------------------
(* The element the sum takes off first. *)
First(T) == CHOOSE x \in T : TRUE

LEMMA FirstIn == \A T : T # {} => First(T) \in T
  BY DEF First

(* h adds up f over each set of D, one element after the other. *)
SumsUp(h, f, D) ==
  \A T \in D : h[T] = IF T = {} THEN 0 ELSE f[First(T)] + h[T \ {First(T)}]

(* There is such a function, by recursion over the sets of at most n elements. *)
LEMMA SumsExist ==
  ASSUME NEW S, IsFiniteSet(S), NEW f, \A x \in S : f[x] \in Int
  PROVE  \E h \in [SUBSET S -> Int] : SumsUp(h, f, SUBSET S)
  <1> DEFINE D(n) == {T \in SUBSET S : Cardinality(T) <= n}
             C == {n \in Nat : \E h \in [D(n) -> Int] : SumsUp(h, f, D(n))}
  <1>1. \A T \in SUBSET S : IsFiniteSet(T) /\ Cardinality(T) \in Nat
    BY FS_Subset, FS_CardinalityType
  <1>2. 0 \in C
    <2> DEFINE h == [T \in D(0) |-> 0]
    <2>1. \A T \in D(0) : T = {}
      BY <1>1, FS_EmptySet
    <2>2. SumsUp(h, f, D(0)) /\ h \in [D(0) -> Int]
      BY <2>1 DEF SumsUp
    <2>3. QED
      BY <2>2
  <1>3. ASSUME NEW n \in Nat, n \in C
        PROVE  n + 1 \in C
    <2>1. PICK g \in [D(n) -> Int] : SumsUp(g, f, D(n))
      BY <1>3
    <2> DEFINE h == [T \in D(n + 1) |-> IF T = {} THEN 0 ELSE f[First(T)] + g[T \ {First(T)}]]
    <2>2. ASSUME NEW T \in D(n + 1), T # {}
          PROVE  First(T) \in T /\ f[First(T)] \in Int /\ T \ {First(T)} \in D(n)
      <3>1. First(T) \in T
        BY <2>2, FirstIn
      <3>2. Cardinality(T \ {First(T)}) = Cardinality(T) - 1
        BY <1>1, <3>1, FS_RemoveElement
      <3>3. QED
        BY <1>1, <3>1, <3>2
    <2>3. h \in [D(n + 1) -> Int]
      <3> HIDE DEF D
      <3>1. QED
        BY <2>1, <2>2
    <2>4. \A T \in D(n) : T \in D(n + 1)
      BY <1>1
    <2>5. \A T \in D(n) : h[T] = g[T]
      <3> HIDE DEF D
      <3>1. QED
        BY <2>1, <2>4 DEF SumsUp
    <2>6. SumsUp(h, f, D(n + 1))
      <3> HIDE DEF D
      <3>1. QED
        BY <2>2, <2>5 DEF SumsUp
    <2>7. \E k \in [D(n + 1) -> Int] : SumsUp(k, f, D(n + 1))
      <3> HIDE DEF D, h
      <3>1. QED
        BY <2>3, <2>6
    <2>8. QED
      <3> HIDE DEF D
      <3>1. QED
        BY <2>7
  <1>4. Cardinality(S) \in C
    <2> HIDE DEF C
    <2>1. QED
      BY <1>1, <1>2, <1>3, InductionOnNat
  <1>5. D(Cardinality(S)) = SUBSET S
    BY <1>1, FS_Subset
  <1>6. QED
    BY <1>4, <1>5

(* There is only one, so it is the sum. *)
LEMMA SumsAre ==
  ASSUME NEW S, IsFiniteSet(S), NEW f, NEW h, SumsUp(h, f, SUBSET S)
  PROVE  SumFunctionOnSet(f, S) = h[S]
  <1> DEFINE Body(g) == [T \in SUBSET S |-> IF T = {} THEN 0
                                            ELSE f[First(T)] + g[T \ {First(T)}]]
             iter == CHOOSE g : g = Body(g)
             k == [T \in SUBSET S |-> h[T]]
  <1>1. k = Body(k)
    BY FirstIn DEF SumsUp
  <1>2. iter = Body(iter)
    <2> HIDE DEF k
    <2>1. QED
      BY <1>1
  <1>3. SumFunctionOnSet(f, S) = iter[S]
    BY DEF SumFunctionOnSet, FoldFunctionOnSet, MapThenFoldSet, First
  <1> HIDE DEF iter
  <1> DEFINE C == {T \in SUBSET S : iter[T] = h[T]}
  <1>4. {} \in C
    BY <1>2 DEF SumsUp
  <1>5. ASSUME NEW T \in SUBSET S, T # {}, \A x \in T : T \ {x} \in C
        PROVE  T \in C
    <2>1. First(T) \in T
      BY <1>5, FirstIn
    <2>2. iter[T] = f[First(T)] + iter[T \ {First(T)}]
      BY <1>2, <1>5
    <2>3. h[T] = f[First(T)] + h[T \ {First(T)}]
      BY <1>5 DEF SumsUp
    <2>4. QED
      BY <1>5, <2>1, <2>2, <2>3
  <1>6. S \in C
    <2> HIDE DEF C
    <2>1. QED
      BY <1>4, <1>5, InductionOnSets
  <1>7. QED
    BY <1>3, <1>6

(* h has the sum of f over every subset of S. *)
Sums(h, f, S) ==
  /\ h \in [SUBSET S -> Int]
  /\ SumsUp(h, f, SUBSET S)
  /\ \A T \in SUBSET S : SumFunctionOnSet(f, T) = h[T]

LEMMA SumsOf ==
  ASSUME NEW S, IsFiniteSet(S), NEW f, \A x \in S : f[x] \in Int
  PROVE  \E h : Sums(h, f, S)
  <1>1. PICK h \in [SUBSET S -> Int] : SumsUp(h, f, SUBSET S)
    BY SumsExist
  <1>2. ASSUME NEW T \in SUBSET S
        PROVE  SumFunctionOnSet(f, T) = h[T]
    <2>1. IsFiniteSet(T)
      BY FS_Subset
    <2>2. SumsUp(h, f, SUBSET T)
      BY <1>1 DEF SumsUp
    <2>3. QED
      BY <2>1, <2>2, SumsAre
  <1>3. QED
    BY <1>1, <1>2 DEF Sums

-----------------------------------------------------------------------------
LEMMA SumOfNone == \A f : SumFunctionOnSet(f, {}) = 0
  <1> SUFFICES ASSUME NEW f
               PROVE  SumFunctionOnSet(f, {}) = 0
    OBVIOUS
  <1>1. IsFiniteSet({})
    BY FS_EmptySet
  <1>2. PICK h : Sums(h, f, {})
    BY <1>1, SumsOf
  <1>3. QED
    BY <1>2 DEF Sums, SumsUp

LEMMA SumType ==
  ASSUME NEW S, IsFiniteSet(S), NEW f, \A x \in S : f[x] \in Int
  PROVE  SumFunctionOnSet(f, S) \in Int
  <1>1. PICK h : Sums(h, f, S)
    BY SumsOf
  <1>2. QED
    BY <1>1 DEF Sums

LEMMA SumUnfolds ==
  ASSUME NEW S, IsFiniteSet(S), NEW f, \A x \in S : f[x] \in Int, S # {}
  PROVE  SumFunctionOnSet(f, S) = f[First(S)] + SumFunctionOnSet(f, S \ {First(S)})
  <1>1. PICK h : Sums(h, f, S)
    BY SumsOf
  <1>2. First(S) \in S
    BY FirstIn
  <1>3. QED
    BY <1>1, <1>2 DEF Sums, SumsUp

(* Any element may be taken off first. *)
LEMMA SumSplits ==
  ASSUME NEW S, IsFiniteSet(S), NEW f, \A x \in S : f[x] \in Int, NEW x \in S
  PROVE  SumFunctionOnSet(f, S) = f[x] + SumFunctionOnSet(f, S \ {x})
  <1> DEFINE Sum(T) == SumFunctionOnSet(f, T)
             C == {T \in SUBSET S : \A y \in T : Sum(T) = f[y] + Sum(T \ {y})}
  <1>1. \A T \in SUBSET S : Sum(T) \in Int
    BY FS_Subset, SumType
  <1>2. \A T \in SUBSET S : T # {} => Sum(T) = f[First(T)] + Sum(T \ {First(T)})
    BY FS_Subset, SumUnfolds
  <1> HIDE DEF Sum
  <1>3. {} \in C
    OBVIOUS
  <1>4. ASSUME NEW T \in SUBSET S, T # {}, \A y \in T : T \ {y} \in C
        PROVE  T \in C
    <2> SUFFICES ASSUME NEW y \in T, y # First(T)
                 PROVE  Sum(T) = f[y] + Sum(T \ {y})
      BY <1>2, <1>4
    <2> DEFINE z == First(T)
               U == T \ {y, z}
    <2>1. z \in T
      BY FirstIn, <1>4
    <2> HIDE DEF z
    <2>2. Sum(T) = f[z] + Sum(T \ {z})
      BY <1>2, <1>4 DEF z
    <2>3. Sum(T \ {z}) = f[y] + Sum(U)
      <3>1. T \ {z} \in C /\ y \in T \ {z} /\ (T \ {z}) \ {y} = U
        BY <1>4, <2>1 DEF z
      <3>2. QED
        BY <3>1
    <2>4. Sum(T \ {y}) = f[z] + Sum(U)
      <3>1. T \ {y} \in C /\ z \in T \ {y} /\ (T \ {y}) \ {z} = U
        BY <1>4, <2>1 DEF z
      <3>2. QED
        BY <3>1
    <2>5. f[y] \in Int /\ f[z] \in Int /\ Sum(U) \in Int
      BY <1>1, <2>1
    <2>6. QED
      BY <2>2, <2>3, <2>4, <2>5
  <1>5. S \in C
    <2> HIDE DEF C
    <2>1. QED
      BY <1>3, <1>4, InductionOnSets
  <1>6. QED
    BY <1>5 DEF Sum

(* The sum depends on the values in the set only. *)
LEMMA SumEquals ==
  ASSUME NEW S, IsFiniteSet(S), NEW f, NEW g,
         \A x \in S : f[x] \in Int /\ g[x] = f[x]
  PROVE  SumFunctionOnSet(g, S) = SumFunctionOnSet(f, S)
  <1>1. PICK h : Sums(h, f, S)
    BY SumsOf
  <1>2. SumsUp(h, g, SUBSET S)
    BY <1>1, FirstIn DEF Sums, SumsUp
  <1>3. QED
    BY <1>1, <1>2, SumsAre DEF Sums

(* A set and a function that differ in one element: the sums differ by that element. *)
LEMMA SumMoves ==
  ASSUME NEW S, NEW T, IsFiniteSet(S), IsFiniteSet(T), NEW x, S \ {x} = T \ {x},
         NEW f, NEW g, \A y \in S : f[y] \in Int, \A y \in T : g[y] \in Int,
         \A y \in S \ {x} : g[y] = f[y]
  PROVE  SumFunctionOnSet(g, T) - (IF x \in T THEN g[x] ELSE 0)
           = SumFunctionOnSet(f, S) - (IF x \in S THEN f[x] ELSE 0)
  <1> DEFINE rest == SumFunctionOnSet(f, S \ {x})
  <1>1. IsFiniteSet(S \ {x})
    BY FS_Subset
  <1>2. rest \in Int
    BY <1>1, SumType
  <1>3. SumFunctionOnSet(g, T \ {x}) = rest
    BY <1>1, SumEquals
  <1> HIDE DEF rest
  <1>4. SumFunctionOnSet(f, S) = rest + (IF x \in S THEN f[x] ELSE 0)
    <2>1. CASE x \in S
      BY <1>2, <2>1, SumSplits DEF rest
    <2>2. CASE x \notin S
      <3>1. S \ {x} = S
        BY <2>2
      <3>2. SumFunctionOnSet(f, S) = rest
        BY <3>1 DEF rest
      <3>3. QED
        BY <1>2, <2>2, <3>2
    <2>3. QED
      BY <2>1, <2>2
  <1>5. SumFunctionOnSet(g, T) = rest + (IF x \in T THEN g[x] ELSE 0)
    <2>1. CASE x \in T
      BY <1>2, <1>3, <2>1, SumSplits
    <2>2. CASE x \notin T
      <3>1. T \ {x} = T
        BY <2>2
      <3>2. QED
        BY <1>2, <1>3, <2>2, <3>1
    <2>3. QED
      BY <2>1, <2>2
  <1>6. QED
    BY <1>2, <1>4, <1>5

(* One value that changes by d changes every sum it is part of by d. *)
LEMMA SumShifts ==
  ASSUME NEW S, IsFiniteSet(S), NEW f, NEW g, NEW x, NEW d \in Int,
         \A y \in S : f[y] \in Int,
         \A y \in S \ {x} : g[y] = f[y],
         x \in S => g[x] = f[x] + d
  PROVE  SumFunctionOnSet(g, S) = SumFunctionOnSet(f, S) + (IF x \in S THEN d ELSE 0)
  <1>1. \A y \in S : g[y] \in Int
    OBVIOUS
  <1>2. SumFunctionOnSet(g, S) - (IF x \in S THEN g[x] ELSE 0)
          = SumFunctionOnSet(f, S) - (IF x \in S THEN f[x] ELSE 0)
    BY <1>1, SumMoves
  <1>3. SumFunctionOnSet(g, S) \in Int /\ SumFunctionOnSet(f, S) \in Int
    BY <1>1, SumType
  <1>4. CASE x \in S
    <2>1. f[x] \in Int /\ g[x] \in Int /\ g[x] = f[x] + d
      BY <1>1, <1>4
    <2>2. SumFunctionOnSet(g, S) - g[x] = SumFunctionOnSet(f, S) - f[x]
      BY <1>2, <1>4
    <2>3. SumFunctionOnSet(g, S) = SumFunctionOnSet(f, S) + d
      BY <1>3, <2>1, <2>2
    <2>4. QED
      BY <1>4, <2>3
  <1>5. CASE x \notin S
    BY <1>2, <1>3, <1>5
  <1>6. QED
    BY <1>4, <1>5

(* Elements whose value is zero may join a set or leave it. *)
LEMMA SumIgnoresZeros ==
  ASSUME NEW S, NEW T, IsFiniteSet(S), IsFiniteSet(T), S \subseteq T, NEW f,
         \A x \in S : f[x] \in Int, \A x \in T \ S : f[x] = 0
  PROVE  SumFunctionOnSet(f, T) = SumFunctionOnSet(f, S)
  <1> DEFINE D == T \ S
             C == {W \in SUBSET D : SumFunctionOnSet(f, S \cup W) = SumFunctionOnSet(f, S)}
  <1>1. {} \in C
    <2>1. S \cup {} = S
      OBVIOUS
    <2>2. QED
      BY <2>1
  <1>2. ASSUME NEW W \in SUBSET D, W # {}, \A x \in W : W \ {x} \in C
        PROVE  W \in C
    <2>1. PICK x \in W : TRUE
      BY <1>2
    <2>2. IsFiniteSet(S \cup W) /\ x \in S \cup W /\ (S \cup W) \ {x} = S \cup (W \ {x})
      <3>1. S \cup W \subseteq T
        OBVIOUS
      <3>2. IsFiniteSet(S \cup W)
        BY <3>1, FS_Subset
      <3>3. QED
        BY <3>2
    <2>3. (\A y \in S \cup W : f[y] \in Int) /\ f[x] = 0
      OBVIOUS
    <2>4. SumFunctionOnSet(f, S \cup W) = f[x] + SumFunctionOnSet(f, S \cup (W \ {x}))
      BY <2>2, <2>3, SumSplits
    <2>5. SumFunctionOnSet(f, S \cup (W \ {x})) = SumFunctionOnSet(f, S)
      BY <1>2
    <2>6. SumFunctionOnSet(f, S) \in Int
      BY SumType
    <2>7. QED
      BY <2>3, <2>4, <2>5, <2>6
  <1>3. D \in C
    <2>1. IsFiniteSet(D)
      BY FS_Subset
    <2> HIDE DEF C, D
    <2>2. QED
      BY <1>1, <1>2, <2>1, InductionOnSets
  <1>4. S \cup D = T
    OBVIOUS
  <1>5. QED
    BY <1>3, <1>4

LEMMA SumOfOverlapping ==
  ASSUME NEW S, NEW T, IsFiniteSet(S), IsFiniteSet(T), NEW f,
         \A x \in S \cup T : f[x] \in Int,
         \A x \in (S \ T) \cup (T \ S) : f[x] = 0
  PROVE  SumFunctionOnSet(f, T) = SumFunctionOnSet(f, S)
  <1>1. IsFiniteSet(S \cap T) /\ S \cap T \subseteq S /\ S \cap T \subseteq T
    BY FS_Subset
  <1>2. SumFunctionOnSet(f, S) = SumFunctionOnSet(f, S \cap T)
    BY <1>1, SumIgnoresZeros
  <1>3. SumFunctionOnSet(f, T) = SumFunctionOnSet(f, S \cap T)
    BY <1>1, SumIgnoresZeros
  <1>4. QED
    BY <1>2, <1>3

(* A sum of equal values is a product. *)
LEMMA SumOfEquals ==
  ASSUME NEW S, IsFiniteSet(S), NEW f, NEW c \in Int, \A x \in S : f[x] = c
  PROVE  SumFunctionOnSet(f, S) = Cardinality(S) * c
  <1> DEFINE C == {T \in SUBSET S : SumFunctionOnSet(f, T) = Cardinality(T) * c}
  <1>1. {} \in C
    BY SumOfNone, FS_EmptySet
  <1>2. ASSUME NEW T \in SUBSET S, T # {}, \A x \in T : T \ {x} \in C
        PROVE  T \in C
    <2>1. PICK x \in T : TRUE
      BY <1>2
    <2>2. IsFiniteSet(T) /\ Cardinality(T) \in Nat
      BY FS_Subset, FS_CardinalityType
    <2>3. Cardinality(T \ {x}) = Cardinality(T) - 1
      BY <2>2, FS_RemoveElement
    <2>4. SumFunctionOnSet(f, T) = c + SumFunctionOnSet(f, T \ {x})
      BY <2>2, SumSplits
    <2>5. SumFunctionOnSet(f, T \ {x}) = (Cardinality(T) - 1) * c
      BY <1>2, <2>3
    <2>6. PICK n \in Nat : n = Cardinality(T)
      BY <2>2
    <2>7. c + (n - 1) * c = n * c
      BY <2>6
    <2>8. QED
      BY <2>4, <2>5, <2>6, <2>7
  <1>3. S \in C
    <2> HIDE DEF C
    <2>1. QED
      BY <1>1, <1>2, InductionOnSets
  <1>4. QED
    BY <1>3

(* A row of values of which the first may differ from the rest. *)
LEMMA SumOfRow ==
  ASSUME NEW n \in Nat \ {0}, NEW a \in Int, NEW c \in Int, NEW f,
         \A i \in 1 .. n : f[i] = IF i = 1 THEN a ELSE c
  PROVE  SumFunctionOnSet(f, 1 .. n) = a + (n - 1) * c
  <1> DEFINE S == 1 .. n
             T == S \ {1}
  <1>1. 1 \in S /\ IsFiniteSet(S) /\ Cardinality(S) = n
    BY FS_Interval
  <1>2. (\A i \in S : f[i] \in Int) /\ f[1] = a /\ \A i \in T : f[i] = c
    OBVIOUS
  <1> HIDE DEF S
  <1>3. IsFiniteSet(T) /\ Cardinality(T) = n - 1
    BY <1>1, FS_RemoveElement
  <1>4. SumFunctionOnSet(f, T) = (n - 1) * c
    BY <1>2, <1>3, SumOfEquals
  <1>5. SumFunctionOnSet(f, S) = a + SumFunctionOnSet(f, T)
    BY <1>1, <1>2, SumSplits
  <1>6. QED
    BY <1>4, <1>5 DEF S
=============================================================================
