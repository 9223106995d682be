---------------------------- MODULE FiniteLemmas ----------------------------
(***************************************************************************)
(* Facts about finite sets of numbers and about sums, where an induction   *)
(* is needed: each takes the least number, or the smallest set, for which  *)
(* it would fail.                                                          *)
(***************************************************************************)
EXTENDS Integers, Functions, FiniteSetTheorems, TLAPS

\* A set of numbers that is not empty has a least one.
LEMMA Smallest ==
  ASSUME NEW T \in SUBSET Nat, T # {}
  PROVE  \E n \in T : \A m \in T : n <= m
<1> DEFINE R == OpToRel(<, Nat)
<1>1. PICK n \in T : \A m \in T : <<m, n>> \notin R
  BY WFMin, NatLessThanWellFounded
<1>2. \A m, k \in Nat : <<m, k>> \in R <=> m < k
  BY DEF OpToRel
<1> HIDE DEF R
<1>3. \A m \in T : m \in Nat /\ n \in Nat
  OBVIOUS
<1>4. \A m \in T : ~(m < n)
  BY <1>1, <1>2, <1>3
<1>5. \A m \in T : n <= m
  BY <1>3, <1>4
<1> QED BY <1>5

\* A family of subsets of a finite set has a member without a smaller one in the family.
LEMMA SmallestSet ==
  ASSUME NEW S, IsFiniteSet(S), NEW F \in SUBSET SUBSET S, F # {}
  PROVE  \E T \in F : \A x \in T : T \ {x} \notin F
<1> DEFINE Sizes == {Cardinality(T) : T \in F}
<1>1. \A T \in SUBSET S : IsFiniteSet(T) /\ Cardinality(T) \in Nat
  BY FS_Subset, FS_CardinalityType
<1>2. PICK n \in Sizes : \A m \in Sizes : n <= m
  <2>1. Sizes \in SUBSET Nat /\ Sizes # {}
    BY <1>1
  <2> HIDE DEF Sizes
  <2> QED BY <2>1, Smallest
<1>3. PICK T \in F : n = Cardinality(T)
  BY <1>2
<1>4. ASSUME NEW x \in T PROVE T \ {x} \notin F
  <2>1. Cardinality(T \ {x}) = n - 1 /\ n \in Nat
    BY <1>1, <1>3, FS_RemoveElement
  <2> QED BY <1>2, <2>1
<1> QED BY <1>4

\* What holds of the empty set, and of a set with one more element whenever it does
\* without it, holds of every finite set.
LEMMA OneByOne ==
  ASSUME NEW S, IsFiniteSet(S), NEW F, {} \in F,
         \A T \in SUBSET S : \A x \in S \ T : T \in F => T \cup {x} \in F
  PROVE  S \in F
<1> DEFINE Bad == {T \in SUBSET S : T \notin F}
<1> SUFFICES ASSUME Bad # {} PROVE FALSE
  OBVIOUS
<1>1. PICK T \in Bad : \A x \in T : T \ {x} \notin Bad
  <2>1. Bad \in SUBSET SUBSET S
    OBVIOUS
  <2> HIDE DEF Bad
  <2> QED BY <2>1, SmallestSet
<1>2. PICK x \in T : TRUE
  OBVIOUS
<1>3. T \ {x} \in F /\ T \ {x} \in SUBSET S /\ x \in S \ (T \ {x})
  BY <1>1
<1>4. T = (T \ {x}) \cup {x}
  OBVIOUS
<1> QED BY <1>3, <1>4
-----------------------------------------------------------------------------
\* g gives each subset of S the sum of f over it: any element may be taken first.
Adds(g, f, S) ==
  /\ g \in [SUBSET S -> Nat]
  /\ g[{}] = 0
  /\ \A T \in SUBSET S : \A x \in T : g[T] = f[x] + g[T \ {x}]

\* Over a finite set there are such sums.
LEMMA Sums ==
  ASSUME NEW S, IsFiniteSet(S), NEW f \in [S -> Nat]
  PROVE  \E g : Adds(g, f, S)
<1> DEFINE F == {T \in SUBSET S : \E g : Adds(g, f, T)}
<1>1. {} \in F
  <2> DEFINE g == [T \in SUBSET {} |-> 0]
  <2>1. Adds(g, f, {})
    BY DEF Adds
  <2> QED BY <2>1
<1>2. ASSUME NEW T \in SUBSET S, NEW x \in S \ T, T \in F PROVE T \cup {x} \in F
  <2> DEFINE U == T \cup {x}
  <2>1. PICK g : Adds(g, f, T)
    BY <1>2
  <2> DEFINE h == [V \in SUBSET U |-> IF x \in V THEN f[x] + g[V \ {x}] ELSE g[V]]
  <2>2. /\ g \in [SUBSET T -> Nat] /\ g[{}] = 0
        /\ \A V \in SUBSET T : \A y \in V : g[V] = f[y] + g[V \ {y}]
    BY <2>1 DEF Adds
  <2>3. \A V \in SUBSET U : V \ {x} \in SUBSET T /\ (x \notin V => V \in SUBSET T)
    OBVIOUS
  <2>4. f[x] \in Nat /\ \A V \in SUBSET T : g[V] \in Nat
    BY <2>2
  <2>5. h \in [SUBSET U -> Nat] /\ h[{}] = 0
    BY <2>2, <2>3, <2>4
  <2>6. ASSUME NEW V \in SUBSET U, NEW y \in V PROVE h[V] = f[y] + h[V \ {y}]
    <3>1. V \ {y} \in SUBSET U
      OBVIOUS
    <3>2. CASE y = x
      BY <2>3, <3>1, <3>2
    <3>3. CASE y # x /\ x \notin V
      <4>1. V \in SUBSET T /\ x \notin V \ {y}
        BY <2>3, <3>3
      <4> QED BY <2>2, <3>1, <3>3, <4>1
    <3>4. CASE y # x /\ x \in V
      <4>1. V \ {x} \in SUBSET T /\ y \in V \ {x} /\ x \in V \ {y}
        BY <2>3, <3>4
      <4>2. (V \ {x}) \ {y} = (V \ {y}) \ {x} /\ (V \ {x}) \ {y} \in SUBSET T
        BY <4>1
      <4>3. g[V \ {x}] = f[y] + g[(V \ {x}) \ {y}]
        BY <2>2, <4>1
      <4>4. h[V] = f[x] + g[V \ {x}] /\ h[V \ {y}] = f[x] + g[(V \ {x}) \ {y}]
        BY <3>1, <3>4, <4>1, <4>2
      <4>5. f[y] \in Nat /\ g[(V \ {x}) \ {y}] \in Nat
        BY <2>4, <4>1, <4>2
      <4> QED BY <2>4, <4>3, <4>4, <4>5
    <3> QED BY <3>2, <3>3, <3>4
  <2> HIDE DEF h
  <2>7. Adds(h, f, U)
    BY <2>5, <2>6 DEF Adds
  <2> QED BY <2>7
<1> HIDE DEF F
<1>3. S \in F
  BY <1>1, <1>2, OneByOne
<1> QED BY <1>3 DEF F

\* The element the fold takes first.
First(s) == CHOOSE x \in s : TRUE
FoldStep(f, g, s) == IF s = {} THEN 0 ELSE f[First(s)] + g[s \ {First(s)}]
IsFold(g, f, S) == g = [s \in SUBSET S |-> FoldStep(f, g, s)]

\* SumFunction is the sum, whichever element its fold takes first.
LEMMA SumIs ==
  ASSUME NEW S, IsFiniteSet(S), NEW f \in [S -> Nat], NEW g, Adds(g, f, S)
  PROVE  SumFunction(f) = g[S]
<1> DEFINE h == CHOOSE k : IsFold(k, f, S)
<1>1. SumFunction(f) = h[S]
  <2>1. DOMAIN f = S
    OBVIOUS
  <2>2. SumFunction(f) = (CHOOSE k : IsFold(k, f, DOMAIN f))[DOMAIN f]
    BY DEF SumFunction, SumFunctionOnSet, FoldFunctionOnSet, MapThenFoldSet, IsFold, FoldStep, First
  <2> QED BY <2>1, <2>2
<1>2. \A T \in SUBSET S : T # {} => First(T) \in T
  BY DEF First
<1>3. g = [T \in SUBSET S |-> g[T]]
  BY DEF Adds
<1>4. \A T \in SUBSET S : g[T] = FoldStep(f, g, T)
  BY <1>2 DEF Adds, FoldStep
<1>5. IsFold(g, f, S)
  BY <1>3, <1>4 DEF IsFold
<1>6. IsFold(h, f, S)
  BY <1>5
<1> HIDE DEF h
<1>7. \A T \in SUBSET S : h[T] = FoldStep(f, h, T)
  BY <1>6 DEF IsFold
<1> DEFINE Bad == {T \in SUBSET S : h[T] # g[T]}
<1>8. Bad = {}
  <2> SUFFICES ASSUME Bad # {} PROVE FALSE
    OBVIOUS
  <2>1. PICK T \in Bad : \A x \in T : T \ {x} \notin Bad
    <3>1. Bad \in SUBSET SUBSET S
      OBVIOUS
    <3> HIDE DEF Bad
    <3> QED BY <3>1, SmallestSet
  <2>2. T # {}
    BY <1>4, <1>7 DEF FoldStep
  <2>3. First(T) \in T /\ T \ {First(T)} \in SUBSET S
    BY <1>2, <2>2
  <2>4. h[T \ {First(T)}] = g[T \ {First(T)}]
    BY <2>1, <2>3
  <2> QED BY <1>4, <1>7, <2>2, <2>4 DEF FoldStep
<1> QED BY <1>1, <1>8

\* No numbers add up to nothing.
LEMMA SumOfNone ==
  ASSUME NEW f \in [{} -> Nat]
  PROVE  SumFunction(f) = 0
<1> DEFINE g == [T \in SUBSET {} |-> 0]
<1>1. Adds(g, f, {}) /\ g[{}] = 0
  BY DEF Adds
<1> HIDE DEF g
<1> QED BY <1>1, FS_EmptySet, SumIs

\* A list of numbers that gets one more has a sum that is larger by that one.
LEMMA SumOfOneMore ==
  ASSUME NEW n \in Nat, NEW f \in [1 .. n -> Nat], NEW h \in [1 .. n + 1 -> Nat],
         \A i \in 1 .. n : h[i] = f[i]
  PROVE  /\ SumFunction(f) \in Nat
         /\ SumFunction(h) = SumFunction(f) + h[n + 1]
<1> DEFINE S == 1 .. n
           U == 1 .. n + 1
<1>1. IsFiniteSet(S) /\ IsFiniteSet(U)
  BY FS_Interval
<1>2. PICK g : Adds(g, f, S)
  BY <1>1, Sums
<1>3. PICK k : Adds(k, h, U)
  BY <1>1, Sums
<1>4. SumFunction(f) = g[S] /\ SumFunction(h) = k[U]
  <2> HIDE DEF S, U
  <2> QED BY <1>1, <1>2, <1>3, SumIs DEF S, U
<1>5. n + 1 \in U /\ U \ {n + 1} = S /\ S \in SUBSET U
  OBVIOUS
<1> DEFINE F == {T \in SUBSET S : g[T] = k[T]}
<1>6. S \in F
  <2>1. {} \in F
    BY <1>2, <1>3 DEF Adds
  <2>2. ASSUME NEW T \in SUBSET S, NEW x \in S \ T, T \in F PROVE T \cup {x} \in F
    <3>1. (T \cup {x}) \ {x} = T /\ T \cup {x} \in SUBSET S /\ T \cup {x} \in SUBSET U
      BY <1>5
    <3> DEFINE V == T \cup {x}
    <3>2. x \in V /\ V \ {x} = T /\ V \in SUBSET S /\ V \in SUBSET U
      BY <3>1
    <3> HIDE DEF S, U, V
    <3>3. g[V] = f[x] + g[T]
      BY <1>2, <3>2 DEF Adds
    <3>4. k[V] = h[x] + k[T]
      BY <1>3, <3>2 DEF Adds
    <3>5. f[x] = h[x] /\ g[T] = k[T]
      BY <2>2 DEF S
    <3> QED BY <3>2, <3>3, <3>4, <3>5 DEF V
  <2> HIDE DEF F, S
  <2> QED BY <1>1, <2>1, <2>2, OneByOne
<1>7. k[U] = h[n + 1] + k[S]
  <2> HIDE DEF S, U
  <2> QED BY <1>3, <1>5 DEF Adds
<1>8. g[S] \in Nat
  BY <1>2 DEF Adds
<1> QED BY <1>4, <1>6, <1>7, <1>8
=============================================================================
