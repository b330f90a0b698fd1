----------------------------- MODULE FiniteSums -----------------------------
(***************************************************************************)
(* What the proofs need of the sum of a function over a finite set         *)
(* (Functions!SumFunctionOnSet): one term taken out, one put in, one       *)
(* changed, the terms that are zero.  The sum is defined by taking out     *)
(* CHOOSEn elements one after the other; everything here follows by        *)
(* induction on the set, and the induction from the well-foundedness of    *)
(* the strict subsets of a finite set.                                     *)
(***************************************************************************)
EXTENDS Functions, FiniteSetTheorems, WellFoundedInduction, TLAPS

\* A property that every subset inherits from its strict subsets is true of them all;
\* Good is the set of subsets that have it.
LEMMA SetInduction ==
  ASSUME NEW S, IsFiniteSet(S), NEW Good,
         \A T \in SUBSET S : (\A U \in SUBSET T : U # T => U \in Good) => T \in Good
  PROVE  \A T \in SUBSET S : T \in Good
  <1> DEFINE Bad == (SUBSET S) \ Good
             Below == StrictSubsetOrdering(S)
  <1>1. SUFFICES ASSUME Bad # {} PROVE FALSE
    OBVIOUS
  <1>2. IsWellFoundedOn(Below, SUBSET S)
    BY FS_StrictSubsetOrderingWellFounded, FS_FiniteSubsetsOfFinite
  <1>3. PICK T \in Bad : \A U \in Bad : <<U, T>> \notin Below
    <2> DEFINE All == SUBSET S
    <2>1. IsWellFoundedOn(Below, All) /\ Bad \subseteq All
      BY <1>2
    <2> HIDE DEF All, Below, Bad
    <2> QED BY <1>1, <2>1, WFMin
  <1>4. \A U \in SUBSET T : U # T => U \in Good
    <2> SUFFICES ASSUME NEW U \in SUBSET T, U # T, U \notin Good PROVE FALSE
      OBVIOUS
    <2>1. U \in Bad /\ <<U, T>> \in Below
      BY DEF StrictSubsetOrdering
    <2> QED BY <1>3, <2>1
  <1> QED BY <1>3, <1>4

-----------------------------------------------------------------------------
(* The function behind the sum.                                             *)

First(s) == CHOOSE x \in s : TRUE

\* g[s] is the sum of f over s, for every subset s of S.
IsSum(g, f, S) ==
  g = [s \in SUBSET S |-> IF s = {} THEN 0 ELSE f[First(s)] + g[s \ {First(s)}]]

LEMMA FirstIsIn == ASSUME NEW s, s # {} PROVE First(s) \in s
  BY DEF First

LEMMA SumsAgree ==
  ASSUME NEW S, IsFiniteSet(S), NEW T \in SUBSET S, NEW f, NEW g, NEW h,
         IsSum(g, f, S), IsSum(h, f, T)
  PROVE  \A s \in SUBSET T : g[s] = h[s]
  <1> DEFINE Good == {s \in SUBSET T : g[s] = h[s]}
  <1>1. ASSUME NEW s \in SUBSET T, \A u \in SUBSET s : u # s => u \in Good
        PROVE  s \in Good
    <2>1. CASE s = {}
      BY <2>1 DEF IsSum
    <2>2. CASE s # {}
      <3> DEFINE r == s \ {First(s)}
      <3>1. r \in SUBSET s /\ r # s
        BY <2>2, FirstIsIn
      <3>2. g[r] = h[r]
        BY <1>1, <3>1
      <3>3. g[s] = f[First(s)] + g[r] /\ h[s] = f[First(s)] + h[r]
        BY <2>2, Zenon DEF IsSum
      <3> QED BY <3>2, <3>3
    <2> QED BY <2>1, <2>2
  <1>2. IsFiniteSet(T)
    BY FS_Subset
  <1> HIDE DEF Good
  <1>3. \A s \in SUBSET T : s \in Good
    BY <1>1, <1>2, SetInduction
  <1> QED BY <1>3 DEF Good

LEMMA SumExists ==
  ASSUME NEW S, IsFiniteSet(S), NEW f
  PROVE  \E g : IsSum(g, f, S)
  <1> DEFINE Good == {s \in SUBSET S : \E g : IsSum(g, f, s)}
             K(s) == CHOOSE k : IsSum(k, f, s)
  <1>1. ASSUME NEW T \in SUBSET S, \A u \in SUBSET T : u # T => u \in Good
        PROVE  T \in Good
    <2> DEFINE rest(s) == s \ {First(s)}
               g == [s \in SUBSET T |->
                       IF s = {} THEN 0 ELSE f[First(s)] + K(rest(s))[rest(s)]]
    <2>1. ASSUME NEW s \in SUBSET T, s # T PROVE g[s] = K(s)[s]
      <3>1. IsSum(K(s), f, s)
        BY <1>1, <2>1
      <3>2. CASE s = {}
        BY <3>1, <3>2 DEF IsSum
      <3>3. CASE s # {}
        <4>1. rest(s) \in SUBSET s /\ rest(s) # T
          BY <2>1, <3>3, FirstIsIn
        <4>2. IsSum(K(rest(s)), f, rest(s))
          BY <1>1, <4>1
        <4>3. IsFiniteSet(s)
          BY FS_Subset
        <4> HIDE DEF K
        <4>4. K(s)[rest(s)] = K(rest(s))[rest(s)]
          <5>1. rest(s) \in SUBSET rest(s)
            OBVIOUS
          <5> HIDE DEF rest
          <5> QED BY <3>1, <4>1, <4>2, <4>3, <5>1, SumsAgree
        <4>5. K(s)[s] = f[First(s)] + K(s)[rest(s)]
          BY <3>1, <3>3, Zenon DEF IsSum
        <4> QED BY <3>3, <4>4, <4>5
      <3> QED BY <3>2, <3>3
    <2> HIDE DEF K
    <2>2. ASSUME NEW s \in SUBSET T
          PROVE  g[s] = IF s = {} THEN 0 ELSE f[First(s)] + g[rest(s)]
      <3>1. CASE s = {}
        BY <3>1
      <3>2. CASE s # {}
        <4>1. rest(s) \in SUBSET T /\ rest(s) # T
          BY <3>2, FirstIsIn
        <4>2. g[rest(s)] = K(rest(s))[rest(s)]
          BY <2>1, <4>1
        <4> QED BY <3>2, <4>2
      <3> QED BY <3>1, <3>2
    <2>3. IsSum(g, f, T)
      <3>1. \A s \in SUBSET T : g[s] = IF s = {} THEN 0 ELSE f[First(s)] + g[rest(s)]
        BY <2>2
      <3>2. g = [s \in SUBSET T |-> g[s]]
        OBVIOUS
      <3> HIDE DEF g
      <3> QED BY <3>1, <3>2, Zenon DEF IsSum
    <2> HIDE DEF g
    <2> QED BY <2>3
  <1> HIDE DEF Good
  <1>2. \A T \in SUBSET S : T \in Good
    BY <1>1, SetInduction
  <1> QED BY <1>2 DEF Good

\* What SumFunctionOnSet computes is such a function's value at the whole set.
LEMMA SumIsSum ==
  ASSUME NEW S, IsFiniteSet(S), NEW f
  PROVE  \E g : IsSum(g, f, S) /\ SumFunctionOnSet(f, S) = g[S]
  <1> DEFINE k == CHOOSE g : IsSum(g, f, S)
  <1>1. IsSum(k, f, S)
    BY SumExists
  <1>2. SumFunctionOnSet(f, S) = k[S]
    BY DEF SumFunctionOnSet, FoldFunctionOnSet, MapThenFoldSet, IsSum, First
  <1> QED BY <1>1, <1>2

LEMMA SumOfSubset ==
  ASSUME NEW S, IsFiniteSet(S), NEW f, NEW g, IsSum(g, f, S), NEW T \in SUBSET S
  PROVE  SumFunctionOnSet(f, T) = g[T]
  <1>1. IsFiniteSet(T)
    BY FS_Subset
  <1>2. PICK h : IsSum(h, f, T) /\ SumFunctionOnSet(f, T) = h[T]
    BY <1>1, SumIsSum
  <1> QED BY <1>2, SumsAgree

-----------------------------------------------------------------------------
(* What the other modules cite.                                             *)

LEMMA SumEmpty ==
  ASSUME NEW f
  PROVE  SumFunctionOnSet(f, {}) = 0
  <1>1. IsFiniteSet({}) /\ {} \in SUBSET {}
    BY FS_EmptySet
  <1>2. PICK g : IsSum(g, f, {}) /\ SumFunctionOnSet(f, {}) = g[{}]
    BY <1>1, SumIsSum
  <1> QED BY <1>1, <1>2 DEF IsSum

LEMMA SumInt ==
  ASSUME NEW S, IsFiniteSet(S), NEW f, \A x \in S : f[x] \in Int
  PROVE  SumFunctionOnSet(f, S) \in Int
  <1>1. PICK g : IsSum(g, f, S) /\ SumFunctionOnSet(f, S) = g[S]
    BY SumIsSum
  <1> DEFINE Good == {T \in SUBSET S : g[T] \in Int}
  <1>2. ASSUME NEW T \in SUBSET S, \A U \in SUBSET T : U # T => U \in Good
        PROVE  T \in Good
    <2>1. CASE T = {}
      BY <1>1, <2>1 DEF IsSum
    <2>2. CASE T # {}
      <3> DEFINE r == T \ {First(T)}
      <3>1. r \in SUBSET T /\ r # T /\ First(T) \in S
        BY <2>2, FirstIsIn
      <3>2. g[r] \in Int
        BY <1>2, <3>1
      <3>3. g[T] = f[First(T)] + g[r]
        BY <1>1, <2>2, Zenon DEF IsSum
      <3> QED BY <3>1, <3>2, <3>3
    <2> QED BY <2>1, <2>2
  <1> HIDE DEF Good
  <1>3. \A T \in SUBSET S : T \in Good
    BY <1>2, SetInduction
  <1> QED BY <1>1, <1>3 DEF Good

\* The order in which the elements are taken does not matter.
LEMMA SumRemove ==
  ASSUME NEW S, IsFiniteSet(S), NEW f, \A y \in S : f[y] \in Int, NEW x \in S
  PROVE  SumFunctionOnSet(f, S) = f[x] + SumFunctionOnSet(f, S \ {x})
  <1> DEFINE Total(T) == SumFunctionOnSet(f, T)
             Good == {T \in SUBSET S : \A y \in T : Total(T) = f[y] + Total(T \ {y})}
  <1>1. PICK g : IsSum(g, f, S)
    BY SumExists
  <1>2. ASSUME NEW T \in SUBSET S, T # {}
        PROVE  Total(T) = f[First(T)] + Total(T \ {First(T)})
    <2>1. /\ Total(T) = g[T]
          /\ Total(T \ {First(T)}) = g[T \ {First(T)}]
      BY <1>1, SumOfSubset
    <2>2. g[T] = f[First(T)] + g[T \ {First(T)}]
      BY <1>1, <1>2, Zenon DEF IsSum
    <2> QED BY <2>1, <2>2
  <1>3. \A T \in SUBSET S : Total(T) \in Int
    BY FS_Subset, SumInt
  <1> HIDE DEF Total
  <1>4. ASSUME NEW T \in SUBSET S, \A U \in SUBSET T : U # T => U \in Good
        PROVE  T \in Good
    <2> SUFFICES ASSUME NEW y \in T, y # First(T)
                 PROVE  Total(T) = f[y] + Total(T \ {y})
      BY <1>2
    <2> DEFINE z == First(T)
               both == (T \ {y}) \ {z}
    <2>1. z \in T
      BY FirstIsIn
    <2>2. /\ T \ {z} \in Good /\ T \ {y} \in Good
          /\ y \in T \ {z} /\ z \in T \ {y}
          /\ (T \ {z}) \ {y} = both
      BY <1>4, <2>1
    <2>3. /\ Total(T) = f[z] + Total(T \ {z})
          /\ Total(T \ {z}) = f[y] + Total(both)
          /\ Total(T \ {y}) = f[z] + Total(both)
      BY <1>2, <2>2
    <2>4. f[y] \in Int /\ f[z] \in Int /\ Total(both) \in Int
      BY <1>3, <2>1
    <2> HIDE DEF z, both
    <2> QED BY <2>3, <2>4
  <1> HIDE DEF Good
  <1>5. \A T \in SUBSET S : T \in Good
    BY <1>4, SetInduction
  <1> QED BY <1>5 DEF Good, Total

LEMMA Swapped == \A a, b \in Int : a + b = b + a
  OBVIOUS

LEMMA ZeroPlus == \A a \in Int : 0 + a = a
  OBVIOUS

LEMMA SumAdd ==
  ASSUME NEW S, IsFiniteSet(S), NEW f, \A y \in S : f[y] \in Int,
         NEW x, x \notin S, f[x] \in Int
  PROVE  SumFunctionOnSet(f, S \cup {x}) = SumFunctionOnSet(f, S) + f[x]
  <1> DEFINE U == S \cup {x}
  <1>1. /\ IsFiniteSet(U) /\ x \in U /\ U \ {x} = S
        /\ \A y \in U : f[y] \in Int
    BY FS_AddElement
  <1> HIDE DEF U
  <1>2. SumFunctionOnSet(f, U) = f[x] + SumFunctionOnSet(f, U \ {x})
    BY <1>1, SumRemove
  <1>3. SumFunctionOnSet(f, S) \in Int
    BY SumInt
  <1>4. SumFunctionOnSet(f, U) = SumFunctionOnSet(f, S) + f[x]
    BY <1>1, <1>2, <1>3, Swapped, Zenon
  <1> QED BY <1>4 DEF U

LEMMA SumSame ==
  ASSUME NEW S, IsFiniteSet(S), NEW f, NEW h, \A x \in S : f[x] = h[x] /\ f[x] \in Int
  PROVE  SumFunctionOnSet(f, S) = SumFunctionOnSet(h, S)
  <1> DEFINE Good == {T \in SUBSET S : SumFunctionOnSet(f, T) = SumFunctionOnSet(h, T)}
  <1>1. ASSUME NEW T \in SUBSET S, \A U \in SUBSET T : U # T => U \in Good
        PROVE  T \in Good
    <2>1. CASE T = {}
      BY <2>1, SumEmpty
    <2>2. CASE T # {}
      <3>1. PICK x \in T : TRUE
        BY <2>2
      <3>2. IsFiniteSet(T) /\ T \ {x} \in Good
        BY <1>1, <3>1, FS_Subset
      <3>3. /\ SumFunctionOnSet(f, T) = f[x] + SumFunctionOnSet(f, T \ {x})
            /\ SumFunctionOnSet(h, T) = h[x] + SumFunctionOnSet(h, T \ {x})
        BY <3>1, <3>2, SumRemove
      <3> QED BY <3>2, <3>3
    <2> QED BY <2>1, <2>2
  <1> HIDE DEF Good
  <1>2. \A T \in SUBSET S : T \in Good
    BY <1>1, SetInduction
  <1> QED BY <1>2 DEF Good

\* One term changes.
LEMMA SumChange ==
  ASSUME NEW S, IsFiniteSet(S), NEW x \in S, NEW f, NEW h,
         \A y \in S : f[y] \in Int /\ h[y] \in Int,
         \A y \in S \ {x} : f[y] = h[y]
  PROVE  SumFunctionOnSet(h, S) = SumFunctionOnSet(f, S) - f[x] + h[x]
  <1>1. IsFiniteSet(S \ {x})
    BY FS_RemoveElement
  <1>2. /\ SumFunctionOnSet(f, S) = f[x] + SumFunctionOnSet(f, S \ {x})
        /\ SumFunctionOnSet(h, S) = h[x] + SumFunctionOnSet(h, S \ {x})
    BY SumRemove
  <1>3. SumFunctionOnSet(f, S \ {x}) = SumFunctionOnSet(h, S \ {x})
    BY <1>1, SumSame
  <1>4. SumFunctionOnSet(f, S \ {x}) \in Int
    BY <1>1, SumInt
  <1> QED BY <1>2, <1>3, <1>4

\* Terms that are zero may be left out.
LEMMA SumOfRest ==
  ASSUME NEW S, IsFiniteSet(S), NEW f, \A x \in S : f[x] \in Int,
         NEW T \in SUBSET S, \A x \in S \ T : f[x] = 0
  PROVE  SumFunctionOnSet(f, S) = SumFunctionOnSet(f, T)
  <1> DEFINE Good == {U \in SUBSET S : SumFunctionOnSet(f, U) = SumFunctionOnSet(f, U \cap T)}
  <1>1. ASSUME NEW U \in SUBSET S, \A V \in SUBSET U : V # U => V \in Good
        PROVE  U \in Good
    <2>1. CASE U = {}
      <3>1. U \cap T = U
        BY <2>1
      <3> QED BY <3>1
    <2>2. CASE U # {}
      <3>1. PICK x \in U : TRUE
        BY <2>2
      <3> DEFINE V == U \ {x}
                 W == U \cap T
      <3>2. V \in SUBSET U /\ V # U
        OBVIOUS
      <3>3. SumFunctionOnSet(f, V) = SumFunctionOnSet(f, V \cap T)
        BY <1>1, <3>2
      <3>4. IsFiniteSet(U) /\ IsFiniteSet(W) /\ IsFiniteSet(V)
        BY FS_Subset
      <3>5. SumFunctionOnSet(f, U) = f[x] + SumFunctionOnSet(f, V)
        BY <3>4, SumRemove
      <3>6. SumFunctionOnSet(f, V) \in Int
        BY <3>4, SumInt
      <3>7. CASE x \in T
        <4>1. x \in W /\ W \ {x} = V \cap T
          BY <3>7
        <4>2. \A y \in W : f[y] \in Int
          OBVIOUS
        <4> HIDE DEF V, W
        <4>3. SumFunctionOnSet(f, W) = f[x] + SumFunctionOnSet(f, W \ {x})
          BY <3>4, <4>1, <4>2, SumRemove
        <4>4. SumFunctionOnSet(f, U) = SumFunctionOnSet(f, W)
          BY <3>3, <3>5, <4>1, <4>3
        <4> QED BY <4>4 DEF W
      <3>8. CASE x \notin T
        <4>1. V \cap T = W /\ f[x] = 0
          BY <3>8
        <4> HIDE DEF V, W
        <4>2. SumFunctionOnSet(f, U) = SumFunctionOnSet(f, W)
          BY <3>3, <3>5, <3>6, <4>1, ZeroPlus, Zenon
        <4> QED BY <4>2 DEF W
      <3> QED BY <3>7, <3>8
    <2> QED BY <2>1, <2>2
  <1> HIDE DEF Good
  <1>2. \A U \in SUBSET S : U \in Good
    BY <1>1, SetInduction
  <1>3. S \cap T = T
    OBVIOUS
  <1> QED BY <1>2, <1>3 DEF Good

LEMMA SumOfZeros ==
  ASSUME NEW S, IsFiniteSet(S), NEW f, \A x \in S : f[x] = 0
  PROVE  SumFunctionOnSet(f, S) = 0
  <1>1. SumFunctionOnSet(f, S) = SumFunctionOnSet(f, {})
    BY SumOfRest
  <1> QED BY <1>1, SumEmpty

LEMMA SumNonnegative ==
  ASSUME NEW S, IsFiniteSet(S), NEW f, \A x \in S : f[x] \in Nat
  PROVE  SumFunctionOnSet(f, S) \in Nat
  <1> DEFINE Good == {T \in SUBSET S : SumFunctionOnSet(f, T) \in Nat}
  <1>1. ASSUME NEW T \in SUBSET S, \A U \in SUBSET T : U # T => U \in Good
        PROVE  T \in Good
    <2>1. CASE T = {}
      BY <2>1, SumEmpty
    <2>2. CASE T # {}
      <3>1. PICK x \in T : TRUE
        BY <2>2
      <3>2. IsFiniteSet(T) /\ T \ {x} \in Good
        BY <1>1, <3>1, FS_Subset
      <3>3. SumFunctionOnSet(f, T) = f[x] + SumFunctionOnSet(f, T \ {x})
        BY <3>1, <3>2, SumRemove
      <3> QED BY <3>1, <3>2, <3>3
    <2> QED BY <2>1, <2>2
  <1> HIDE DEF Good
  <1>2. \A T \in SUBSET S : T \in Good
    BY <1>1, SetInduction
  <1> QED BY <1>2 DEF Good
=============================================================================
