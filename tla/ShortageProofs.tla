--------------------------- MODULE ShortageProofs ---------------------------
(***************************************************************************)
(* Theorems about ShortageLoop, for every set of workloads, every template *)
(* and policy and every bound, and about the sums they rest on.            *)
(***************************************************************************)
EXTENDS ShortageLoop, SizingFacts, FiniteSetTheorems, NaturalsInduction, WellFoundedInduction

(* Induction.  A set of subsets stands for the predicate. *)

LEMMA Least ==
    ASSUME NEW S \in SUBSET Nat, S # {}
    PROVE  \E n \in S : \A m \in S : n <= m
  <1>1. PICK n \in S : \A m \in S : ~ (<<m, n>> \in OpToRel(<, Nat))
    BY NatLessThanWellFounded, WFMin
  <1>2. \A m \in S : ~(m < n)
    BY <1>1 DEF OpToRel
  <1> QED BY <1>2

\* Induction over the subsets of a finite set, for a set of them instead of a
\* predicate.
LEMMA SubsetInduction ==
    ASSUME NEW S, IsFiniteSet(S), NEW Good \in SUBSET SUBSET S, {} \in Good,
           \A T \in SUBSET S : T # {} /\ (\A x \in T : T \ {x} \in Good) => T \in Good
    PROVE  Good = SUBSET S
  <1> SUFFICES ASSUME NEW B \in SUBSET S, B \notin Good PROVE FALSE
    OBVIOUS
  <1> DEFINE Bad == (SUBSET S) \ Good
             cards == {Cardinality(T) : T \in Bad}
  <1>1. \A T \in SUBSET S : IsFiniteSet(T) /\ Cardinality(T) \in Nat
    BY FS_Subset, FS_CardinalityType
  <1>2. cards \in SUBSET Nat /\ cards # {}
    BY <1>1
  <1> HIDE DEF cards
  <1>3. PICK n \in cards : \A m \in cards : n <= m
    BY <1>2, Least
  <1>4. PICK T \in Bad : n = Cardinality(T)
    BY <1>3 DEF cards
  <1>5. ASSUME NEW x \in T PROVE T \ {x} \in Good
    <2>1. T \ {x} \in SUBSET S /\ Cardinality(T \ {x}) = Cardinality(T) - 1
      BY <1>1, <1>4, FS_RemoveElement
    <2> SUFFICES ASSUME T \ {x} \in Bad PROVE FALSE
      BY <2>1
    <2>2. Cardinality(T \ {x}) \in cards
      BY DEF cards
    <2> QED BY <1>1, <1>3, <1>4, <2>1, <2>2
  <1> QED BY <1>4, <1>5

-----------------------------------------------------------------------------
\* The equation a fold with + is defined by.
Pick(s) == CHOOSE x \in s : TRUE
Partial(f, g, s) == IF s = {} THEN 0 ELSE f[Pick(s)] + g[s \ {Pick(s)}]
Unfolds(f, S, g) == g = [s \in SUBSET S |-> Partial(f, g, s)]

LEMMA PickFacts ==
    ASSUME NEW s, s # {} PROVE Pick(s) \in s
  BY DEF Pick

LEMMA FoldForm ==
    ASSUME NEW f, NEW S
    PROVE  SumFunctionOnSet(f, S) = (CHOOSE g : Unfolds(f, S, g))[S]
  BY DEF SumFunctionOnSet, FoldFunctionOnSet, MapThenFoldSet, Unfolds, Partial, Pick

LEMMA FoldExists ==
    ASSUME NEW f, NEW S, IsFiniteSet(S)
    PROVE  \E g : Unfolds(f, S, g)
  <1> DEFINE Upto(n, g) == /\ g = [s \in SUBSET S |-> g[s]]
                           /\ \A s \in SUBSET S : Cardinality(s) <= n => g[s] = Partial(f, g, s)
             Bad == {n \in Nat : ~\E g : Upto(n, g)}
  <1>1. \A T \in SUBSET S : IsFiniteSet(T) /\ Cardinality(T) \in Nat
    BY FS_Subset, FS_CardinalityType
  <1>2. Bad = {}
    <2> SUFFICES ASSUME Bad # {} PROVE FALSE
      OBVIOUS
    <2>1. Bad \in SUBSET Nat
      OBVIOUS
    <2> HIDE DEF Bad
    <2>2. PICK n \in Bad : \A m \in Bad : n <= m
      BY <2>1, Least
    <2>3. n # 0
      <3> DEFINE z == [s \in SUBSET S |-> 0]
      <3>1. \A s \in SUBSET S : Cardinality(s) <= 0 => s = {}
        BY <1>1, FS_EmptySet
      <3>2. Upto(0, z)
        BY <3>1 DEF Partial
      <3> QED BY <2>2, <3>2 DEF Bad
    <2>4. n - 1 \in Nat /\ n - 1 \notin Bad
      BY <2>1, <2>2, <2>3
    <2>5. PICK g : Upto(n - 1, g)
      BY <2>4 DEF Bad
    <2> DEFINE h == [s \in SUBSET S |-> Partial(f, g, s)]
    <2>6. \A s \in SUBSET S : s # {} =>
              s \ {Pick(s)} \in SUBSET S /\ Cardinality(s \ {Pick(s)}) = Cardinality(s) - 1
      BY <1>1, PickFacts, FS_RemoveElement
    <2>7. \A s \in SUBSET S : Cardinality(s) <= n - 1 => h[s] = g[s]
      BY <2>5
    <2>8. ASSUME NEW s \in SUBSET S, Cardinality(s) <= n
          PROVE  h[s] = Partial(f, h, s)
      <3>1. CASE s = {}
        BY <3>1 DEF Partial
      <3>2. CASE s # {}
        <4>1. h[s \ {Pick(s)}] = g[s \ {Pick(s)}]
          <5>1. n \in Nat /\ Cardinality(s) \in Nat
            BY <1>1, <2>1, <2>2
          <5>2. s \ {Pick(s)} \in SUBSET S /\ Cardinality(s \ {Pick(s)}) = Cardinality(s) - 1
            BY <2>6, <3>2
          <5>3. Cardinality(s \ {Pick(s)}) <= n - 1
            BY <2>8, <5>1, <5>2
          <5> HIDE DEF h
          <5> QED BY <2>7, <5>2, <5>3
        <4> QED BY <3>2, <4>1 DEF Partial
      <3> QED BY <3>1, <3>2
    <2>9. Upto(n, h)
      BY <2>8
    <2> QED BY <2>1, <2>2, <2>9 DEF Bad
  <1>3. Cardinality(S) \in Nat
    BY <1>1
  <1>4. PICK g : Upto(Cardinality(S), g)
    BY <1>2, <1>3
  <1>5. \A s \in SUBSET S : Cardinality(s) <= Cardinality(S)
    BY FS_Subset
  <1>6. g = [s \in SUBSET S |-> Partial(f, g, s)]
    BY <1>4, <1>5
  <1> QED BY <1>6 DEF Unfolds

LEMMA FoldUnique ==
    ASSUME NEW f, NEW S, IsFiniteSet(S), NEW T \in SUBSET S,
           NEW g, Unfolds(f, S, g), NEW h, Unfolds(f, T, h)
    PROVE  h[T] = g[T]
  <1> DEFINE Good == {s \in SUBSET T : h[s] = g[s]}
  <1>1. IsFiniteSet(T)
    BY FS_Subset
  <1>2. \A s \in SUBSET T : h[s] = Partial(f, h, s) /\ g[s] = Partial(f, g, s)
    BY DEF Unfolds
  <1>3. {} \in Good
    BY <1>2 DEF Partial
  <1>4. ASSUME NEW s \in SUBSET T, s # {}, \A x \in s : s \ {x} \in Good PROVE s \in Good
    BY <1>2, <1>4, PickFacts DEF Partial
  <1>5. Good \in SUBSET SUBSET T
    OBVIOUS
  <1> HIDE DEF Good
  <1>6. Good = SUBSET T
    BY <1>1, <1>3, <1>4, <1>5, SubsetInduction
  <1> QED BY <1>6 DEF Good

\* A sum over a finite set meets the equation.
LEMMA SumUnfolds ==
    ASSUME NEW f, NEW S, IsFiniteSet(S)
    PROVE  SumFunctionOnSet(f, S) =
             IF S = {} THEN 0 ELSE f[Pick(S)] + SumFunctionOnSet(f, S \ {Pick(S)})
  <1> DEFINE T == S \ {Pick(S)}
             g == CHOOSE g : Unfolds(f, S, g)
             h == CHOOSE h : Unfolds(f, T, h)
  <1>1. T \in SUBSET S /\ IsFiniteSet(T)
    BY FS_Subset
  <1>2. Unfolds(f, S, g) /\ Unfolds(f, T, h)
    BY <1>1, FoldExists
  <1>3. SumFunctionOnSet(f, S) = g[S] /\ SumFunctionOnSet(f, T) = h[T]
    BY FoldForm
  <1> HIDE DEF g, h
  <1>4. h[T] = g[T]
    BY <1>1, <1>2, FoldUnique
  <1>5. g[S] = Partial(f, g, S)
    BY <1>2 DEF Unfolds
  <1> QED BY <1>3, <1>4, <1>5 DEF Partial

LEMMA SumEmpty ==
    ASSUME NEW f PROVE SumFunctionOnSet(f, {}) = 0
  BY SumUnfolds, FS_EmptySet

LEMMA SumType ==
    ASSUME NEW S, IsFiniteSet(S), NEW f, NEW D \in {Nat, Int}, \A x \in S : f[x] \in D
    PROVE  SumFunctionOnSet(f, S) \in D
  <1> DEFINE Sum(T) == SumFunctionOnSet(f, T)
             Good == {T \in SUBSET S : Sum(T) \in D}
  <1>1. {} \in Good
    BY SumEmpty
  <1>2. ASSUME NEW T \in SUBSET S, T # {}, \A x \in T : T \ {x} \in Good PROVE T \in Good
    <2>1. Pick(T) \in T /\ IsFiniteSet(T)
      BY <1>2, PickFacts, FS_Subset
    <2>2. Sum(T) = f[Pick(T)] + Sum(T \ {Pick(T)})
      BY <1>2, <2>1, SumUnfolds
    <2>3. f[Pick(T)] \in D /\ Sum(T \ {Pick(T)}) \in D
      BY <1>2, <2>1
    <2>4. \A a, b \in D : a + b \in D
      OBVIOUS
    <2> HIDE DEF Sum
    <2> QED BY <2>2, <2>3, <2>4
  <1>3. Good \in SUBSET SUBSET S
    OBVIOUS
  <1> HIDE DEF Good
  <1>4. Good = SUBSET S
    BY <1>1, <1>2, <1>3, SubsetInduction
  <1> QED BY <1>4 DEF Good

\* Any element may be taken out first.
LEMMA SumSplit ==
    ASSUME NEW S, IsFiniteSet(S), NEW f, \A x \in S : f[x] \in Int, NEW y \in S
    PROVE  SumFunctionOnSet(f, S) = f[y] + SumFunctionOnSet(f, S \ {y})
  <1> DEFINE Sum(T) == SumFunctionOnSet(f, T)
             Good == {T \in SUBSET S : \A x \in T : Sum(T) = f[x] + Sum(T \ {x})}
  <1>1. \A T \in SUBSET S : Sum(T) \in Int
    <2> TAKE T \in SUBSET S
    <2>1. IsFiniteSet(T) /\ \A x \in T : f[x] \in Int
      BY FS_Subset
    <2> QED BY <2>1, SumType
  <1>2. ASSUME NEW T \in SUBSET S, T # {}, \A x \in T : T \ {x} \in Good PROVE T \in Good
    <2> DEFINE p == Pick(T)
    <2>1. p \in T /\ IsFiniteSet(T)
      BY <1>2, PickFacts, FS_Subset
    <2>2. Sum(T) = f[p] + Sum(T \ {p})
      BY <1>2, <2>1, SumUnfolds
    <2> HIDE DEF p
    <2>3. ASSUME NEW x \in T, x # p PROVE Sum(T) = f[x] + Sum(T \ {x})
      <3>1. (T \ {x}) \ {p} = (T \ {p}) \ {x} /\ x \in T \ {p} /\ p \in T \ {x}
        BY <2>1, <2>3
      <3>2. Sum(T \ {p}) = f[x] + Sum((T \ {p}) \ {x})
        BY <1>2, <2>1, <3>1
      <3>3. Sum(T \ {x}) = f[p] + Sum((T \ {x}) \ {p})
        BY <1>2, <2>1, <3>1
      <3>4. f[x] \in Int /\ f[p] \in Int /\ Sum((T \ {p}) \ {x}) \in Int
        BY <1>1, <2>1
      <3>5. Sum(T) = f[p] + (f[x] + Sum((T \ {p}) \ {x}))
        BY <2>2, <3>2
      <3>6. Sum(T \ {x}) = f[p] + Sum((T \ {p}) \ {x})
        BY <3>1, <3>3, Zenon
      <3>7. \A a, b, c \in Int : a + (b + c) = b + (a + c)
        OBVIOUS
      <3> DEFINE rest == Sum((T \ {p}) \ {x})
      <3>8. f[p] + (f[x] + rest) = f[x] + (f[p] + rest)
        BY <3>4, <3>7
      <3> QED BY <3>5, <3>6, <3>8, Zenon
    <2> QED BY <2>2, <2>3
  <1>3. Good \in SUBSET SUBSET S /\ {} \in Good
    OBVIOUS
  <1> HIDE DEF Good
  <1>4. Good = SUBSET S
    BY <1>2, <1>3, SubsetInduction
  <1> QED BY <1>4 DEF Good

\* A larger summand makes no smaller sum.
LEMMA SumMono ==
    ASSUME NEW S, IsFiniteSet(S), NEW f, NEW g,
           \A x \in S : f[x] \in Int /\ g[x] \in Int /\ f[x] <= g[x]
    PROVE  SumFunctionOnSet(f, S) <= SumFunctionOnSet(g, S)
  <1> DEFINE F(T) == SumFunctionOnSet(f, T)
             G(T) == SumFunctionOnSet(g, T)
             Good == {T \in SUBSET S : F(T) <= G(T)}
  <1>1. \A T \in SUBSET S : IsFiniteSet(T) /\ F(T) \in Int /\ G(T) \in Int
    <2> TAKE T \in SUBSET S
    <2>1. IsFiniteSet(T) /\ \A x \in T : f[x] \in Int /\ g[x] \in Int
      BY FS_Subset
    <2> QED BY <2>1, SumType
  <1>2. {} \in Good
    BY SumEmpty
  <1>3. ASSUME NEW T \in SUBSET S, T # {}, \A x \in T : T \ {x} \in Good PROVE T \in Good
    <2>1. PICK x \in T : TRUE
      BY <1>3
    <2>2. F(T) = f[x] + F(T \ {x}) /\ G(T) = g[x] + G(T \ {x})
      BY <1>1, SumSplit
    <2>3. /\ f[x] \in Int /\ g[x] \in Int /\ f[x] <= g[x] /\ F(T \ {x}) <= G(T \ {x})
          /\ F(T \ {x}) \in Int /\ G(T \ {x}) \in Int
      BY <1>1, <1>3
    <2> HIDE DEF F, G
    <2> QED BY <2>2, <2>3
  <1>4. Good \in SUBSET SUBSET S
    OBVIOUS
  <1> HIDE DEF Good
  <1>5. Good = SUBSET S
    BY <1>2, <1>3, <1>4, SubsetInduction
  <1> QED BY <1>5 DEF Good

LEMMA SumPlus ==
    ASSUME NEW S, IsFiniteSet(S), NEW f, NEW g, NEW h,
           \A x \in S : f[x] \in Int /\ g[x] \in Int /\ h[x] = f[x] + g[x]
    PROVE  SumFunctionOnSet(h, S) = SumFunctionOnSet(f, S) + SumFunctionOnSet(g, S)
  <1> DEFINE F(T) == SumFunctionOnSet(f, T)
             G(T) == SumFunctionOnSet(g, T)
             H(T) == SumFunctionOnSet(h, T)
             Good == {T \in SUBSET S : H(T) = F(T) + G(T)}
  <1>1. \A T \in SUBSET S : IsFiniteSet(T) /\ F(T) \in Int /\ G(T) \in Int
    <2> TAKE T \in SUBSET S
    <2>1. IsFiniteSet(T) /\ \A x \in T : f[x] \in Int /\ g[x] \in Int
      BY FS_Subset
    <2> QED BY <2>1, SumType
  <1>2. {} \in Good
    BY SumEmpty
  <1>3. ASSUME NEW T \in SUBSET S, T # {}, \A x \in T : T \ {x} \in Good PROVE T \in Good
    <2>1. PICK x \in T : TRUE
      BY <1>3
    <2>2. \A y \in T : h[y] \in Int
      OBVIOUS
    <2>3. /\ F(T) = f[x] + F(T \ {x}) /\ G(T) = g[x] + G(T \ {x})
          /\ H(T) = h[x] + H(T \ {x})
      BY <1>1, <2>2, SumSplit
    <2>4. /\ f[x] \in Int /\ g[x] \in Int /\ h[x] = f[x] + g[x]
          /\ H(T \ {x}) = F(T \ {x}) + G(T \ {x})
          /\ F(T \ {x}) \in Int /\ G(T \ {x}) \in Int
      BY <1>1, <1>3
    <2> HIDE DEF F, G, H
    <2> QED BY <2>3, <2>4
  <1>4. Good \in SUBSET SUBSET S
    OBVIOUS
  <1> HIDE DEF Good
  <1>5. Good = SUBSET S
    BY <1>2, <1>3, <1>4, SubsetInduction
  <1> QED BY <1>5 DEF Good

LEMMA SumSubset ==
    ASSUME NEW S, IsFiniteSet(S), NEW f, \A x \in S : f[x] \in Nat, NEW R \in SUBSET S
    PROVE  SumFunctionOnSet(f, R) <= SumFunctionOnSet(f, S)
  <1> DEFINE Sum(T) == SumFunctionOnSet(f, T)
             Good == {T \in SUBSET S : \A V \in SUBSET T : Sum(V) <= Sum(T)}
  <1>1. \A T \in SUBSET S : IsFiniteSet(T) /\ Sum(T) \in Nat
    <2> TAKE T \in SUBSET S
    <2>1. IsFiniteSet(T) /\ \A x \in T : f[x] \in Nat
      BY FS_Subset
    <2> QED BY <2>1, SumType
  <1>2. {} \in Good
    <2>1. \A V \in SUBSET {} : V = {}
      OBVIOUS
    <2>2. Sum({}) \in Nat
      BY <1>1
    <2> HIDE DEF Sum
    <2> QED BY <2>1, <2>2
  <1>3. ASSUME NEW T \in SUBSET S, T # {}, \A x \in T : T \ {x} \in Good PROVE T \in Good
    <2> SUFFICES ASSUME NEW V \in SUBSET T PROVE Sum(V) <= Sum(T)
      OBVIOUS
    <2>1. CASE V = T
      BY <1>1, <2>1
    <2>2. ASSUME NEW x \in T, x \notin V PROVE Sum(V) <= Sum(T)
      <3>1. Sum(V) <= Sum(T \ {x})
        BY <1>3, <2>2
      <3>2. Sum(T) = f[x] + Sum(T \ {x})
        BY <1>1, SumSplit
      <3>3. f[x] \in Nat /\ Sum(T \ {x}) \in Nat /\ Sum(V) \in Nat
        BY <1>1
      <3> HIDE DEF Sum
      <3> QED BY <3>1, <3>2, <3>3
    <2> HIDE DEF Sum
    <2> QED BY <2>1, <2>2
  <1>4. Good \in SUBSET SUBSET S
    OBVIOUS
  <1> HIDE DEF Good
  <1>5. Good = SUBSET S
    BY <1>2, <1>3, <1>4, SubsetInduction
  <1> QED BY <1>5 DEF Good

\* Summands that can be charged to different summands of another sum make no
\* larger sum than that one.
LEMMA SumInjection ==
    ASSUME NEW S, NEW T, IsFiniteSet(T), NEW c \in [S -> T],
           \A x, y \in S : c[x] = c[y] => x = y,
           NEW f, NEW g, \A y \in T : g[y] \in Nat,
           \A x \in S : f[x] \in Int /\ f[x] <= g[c[x]]
    PROVE  IsFiniteSet(S) /\ SumFunctionOnSet(f, S) <= SumFunctionOnSet(g, T)
  <1> DEFINE F(U) == SumFunctionOnSet(f, U)
             G(U) == SumFunctionOnSet(g, U)
             image(U) == {c[x] : x \in U}
             Good == {U \in SUBSET S : F(U) <= G(image(U))}
  <1>1. IsFiniteSet(S)
    <2>1. c \in Injection(S, T)
      BY DEF Injection, IsInjective
    <2> QED BY <2>1, FS_Injection
  <1>2. \A U \in SUBSET S : IsFiniteSet(U) /\ F(U) \in Int
    <2> TAKE U \in SUBSET S
    <2>1. IsFiniteSet(U) /\ \A x \in U : f[x] \in Int
      BY <1>1, FS_Subset
    <2> QED BY <2>1, SumType
  <1>3. \A U \in SUBSET S : /\ image(U) \in SUBSET T /\ IsFiniteSet(image(U))
                            /\ G(image(U)) \in Nat
    <2> TAKE U \in SUBSET S
    <2>1. image(U) \in SUBSET T
      OBVIOUS
    <2>2. IsFiniteSet(image(U)) /\ \A x \in image(U) : g[x] \in Nat
      BY <2>1, FS_Subset
    <2> QED BY <2>1, <2>2, SumType
  <1>4. {} \in Good
    <2>1. image({}) = {}
      OBVIOUS
    <2> QED BY <2>1, SumEmpty
  <1>5. ASSUME NEW U \in SUBSET S, U # {}, \A x \in U : U \ {x} \in Good PROVE U \in Good
    <2>1. PICK x \in U : TRUE
      BY <1>5
    <2>2. image(U \ {x}) = image(U) \ {c[x]} /\ c[x] \in image(U)
      <3>1. \A y \in U : y # x => c[y] # c[x]
        OBVIOUS
      <3> QED BY <3>1
    <2>3. F(U) = f[x] + F(U \ {x})
      BY <1>2, SumSplit
    <2>4. G(image(U)) = g[c[x]] + G(image(U) \ {c[x]})
      <3>1. IsFiniteSet(image(U)) /\ \A y \in image(U) : g[y] \in Int
        BY <1>3
      <3> QED BY <2>2, <3>1, SumSplit
    <2>5. /\ f[x] \in Int /\ g[c[x]] \in Int /\ f[x] <= g[c[x]]
          /\ F(U \ {x}) <= G(image(U \ {x}))
          /\ F(U \ {x}) \in Int /\ G(image(U \ {x})) \in Int
      <3>1. U \ {x} \in SUBSET S /\ U \ {x} \in Good
        BY <1>5
      <3>2. F(U \ {x}) <= G(image(U \ {x}))
        BY <3>1
      <3>3. F(U \ {x}) \in Int /\ G(image(U \ {x})) \in Nat
        BY <1>2, <1>3, <3>1
      <3>4. f[x] \in Int /\ g[c[x]] \in Nat /\ f[x] <= g[c[x]]
        OBVIOUS
      <3> HIDE DEF F, G, image
      <3> QED BY <3>2, <3>3, <3>4
    <2>6. G(image(U)) = g[c[x]] + G(image(U \ {x}))
      BY <2>2, <2>4, Zenon
    <2>7. F(U) <= G(image(U))
      <3> HIDE DEF F, G, image
      <3> QED BY <2>3, <2>5, <2>6
    <2> QED BY <2>7
  <1>6. Good \in SUBSET SUBSET S
    OBVIOUS
  <1> HIDE DEF Good
  <1>7. Good = SUBSET S
    BY <1>1, <1>4, <1>5, <1>6, SubsetInduction
  <1>8. F(S) <= G(image(S))
    BY <1>7 DEF Good
  <1>9. G(image(S)) <= G(T)
    <2>1. image(S) \in SUBSET T
      BY <1>3
    <2> HIDE DEF image
    <2> QED BY <2>1, SumSubset
  <1>10. F(S) \in Int /\ G(image(S)) \in Int /\ G(T) \in Int
    <2>1. G(T) \in Nat
      BY SumType
    <2>2. F(S) \in Int /\ G(image(S)) \in Nat
      BY <1>2, <1>3
    <2> HIDE DEF F, G, image
    <2> QED BY <2>1, <2>2
  <1> HIDE DEF F, G, image
  <1>11. F(S) <= G(T)
    BY <1>8, <1>9, <1>10
  <1> QED BY <1>1, <1>11 DEF F, G

-----------------------------------------------------------------------------
(* The same of the sum of all values of a function. *)

LEMMA SumNat ==
    ASSUME NEW S, IsFiniteSet(S), NEW f \in [S -> Nat]
    PROVE  SumFunction(f) \in Nat /\ \A x \in S : f[x] <= SumFunction(f)
  <1>1. SumFunction(f) = SumFunctionOnSet(f, S)
    BY DEF SumFunction
  <1>2. SumFunctionOnSet(f, S) \in Nat
    BY SumType
  <1>3. ASSUME NEW x \in S PROVE f[x] <= SumFunctionOnSet(f, S)
    <2>1. IsFiniteSet(S \ {x}) /\ \A y \in S \ {x} : f[y] \in Nat
      BY FS_Subset
    <2>2. SumFunctionOnSet(f, S \ {x}) \in Nat
      BY <2>1, SumType
    <2>3. SumFunctionOnSet(f, S) = f[x] + SumFunctionOnSet(f, S \ {x})
      BY SumSplit
    <2> QED BY <2>2, <2>3
  <1> QED BY <1>1, <1>2, <1>3

LEMMA SumLeq ==
    ASSUME NEW S, IsFiniteSet(S), NEW f \in [S -> Nat], NEW g \in [S -> Nat],
           \A x \in S : f[x] <= g[x]
    PROVE  SumFunction(f) <= SumFunction(g)
  BY SumMono DEF SumFunction

LEMMA SumAdd ==
    ASSUME NEW S, IsFiniteSet(S), NEW f \in [S -> Nat], NEW g \in [S -> Nat]
    PROVE  SumFunction([x \in S |-> f[x] + g[x]]) = SumFunction(f) + SumFunction(g)
  <1> DEFINE h == [x \in S |-> f[x] + g[x]]
  <1>1. \A x \in S : f[x] \in Int /\ g[x] \in Int /\ h[x] = f[x] + g[x]
    OBVIOUS
  <1>2. DOMAIN h = S /\ DOMAIN f = S /\ DOMAIN g = S
    OBVIOUS
  <1> HIDE DEF h
  <1>3. SumFunctionOnSet(h, S) = SumFunctionOnSet(f, S) + SumFunctionOnSet(g, S)
    BY <1>1, SumPlus
  <1>4. SumFunction(h) = SumFunction(f) + SumFunction(g)
    BY <1>2, <1>3 DEF SumFunction
  <1> QED BY <1>4 DEF h

LEMMA SumZero ==
    ASSUME NEW S, IsFiniteSet(S), NEW f \in [S -> {0}]
    PROVE  SumFunction(f) = 0
  <1>1. f \in [S -> Nat] /\ f = [x \in S |-> f[x] + f[x]]
    OBVIOUS
  <1>2. SumFunction(f) = SumFunction(f) + SumFunction(f) /\ SumFunction(f) \in Nat
    <2>1. SumFunction([x \in S |-> f[x] + f[x]]) = SumFunction(f) + SumFunction(f)
      BY <1>1, SumAdd
    <2> QED BY <1>1, <2>1, SumNat, Zenon
  <1>3. \A n \in Nat : n = n + n => n = 0
    OBVIOUS
  <1> QED BY <1>2, <1>3

LEMMA SumOne ==
    ASSUME NEW a, NEW f \in [{a} -> Nat]
    PROVE  SumFunction(f) = f[a]
  <1>1. IsFiniteSet({a}) /\ {a} \ {a} = {}
    BY FS_Singleton
  <1>2. SumFunctionOnSet(f, {a}) = f[a] + SumFunctionOnSet(f, {a} \ {a})
    BY <1>1, SumSplit
  <1>3. SumFunctionOnSet(f, {a} \ {a}) = 0
    BY <1>1, SumEmpty, Zenon
  <1>4. SumFunction(f) = SumFunctionOnSet(f, {a})
    BY DEF SumFunction
  <1> QED BY <1>2, <1>3, <1>4

LEMMA SumInto ==
    ASSUME NEW S, NEW T, IsFiniteSet(T), NEW c \in [S -> T],
           \A x, y \in S : c[x] = c[y] => x = y,
           NEW f \in [S -> Nat], NEW g \in [T -> Nat], \A x \in S : f[x] <= g[c[x]]
    PROVE  IsFiniteSet(S) /\ SumFunction(f) <= SumFunction(g)
  <1>1. SumFunction(f) = SumFunctionOnSet(f, S) /\ SumFunction(g) = SumFunctionOnSet(g, T)
    BY DEF SumFunction
  <1>2. \A x \in S : f[x] \in Int /\ f[x] <= g[c[x]]
    OBVIOUS
  <1>3. \A y \in T : g[y] \in Nat
    OBVIOUS
  <1> QED BY <1>1, <1>2, <1>3, SumInjection

-----------------------------------------------------------------------------
(* Max and Min *)

LEMMA MaxBounded ==
    ASSUME NEW S \in SUBSET Nat, S # {}, NEW b \in Nat, \A x \in S : x <= b
    PROVE  Max(S) \in S /\ \A x \in S : x <= Max(S)
  <1> DEFINE bounds == {n \in Nat : \A x \in S : x <= n}
  <1>1. bounds \in SUBSET Nat /\ b \in bounds
    OBVIOUS
  <1> HIDE DEF bounds
  <1>2. PICK n \in bounds : \A m \in bounds : n <= m
    BY <1>1, Least
  <1>3. n \in Nat /\ \A x \in S : x <= n
    BY <1>2 DEF bounds
  <1>4. n \in S
    <2> SUFFICES ASSUME n \notin S PROVE FALSE
      OBVIOUS
    <2>1. \A x \in S : x < n /\ x \in Nat
      BY <1>3
    <2>2. n - 1 \in Nat /\ \A x \in S : x <= n - 1
      <3>1. PICK x \in S : TRUE
        OBVIOUS
      <3>2. \A y \in Nat : y < n => y <= n - 1 /\ n - 1 \in Nat
        BY <1>3
      <3> QED BY <2>1, <3>1, <3>2
    <2>3. n - 1 \in bounds
      BY <2>2 DEF bounds
    <2> QED BY <1>2, <1>3, <2>3
  <1> QED BY <1>3, <1>4 DEF Max

LEMMA PairFacts ==
    ASSUME NEW a \in Int, NEW b \in Int
    PROVE  /\ Max({a, b}) \in {a, b} /\ Max({a, b}) >= a /\ Max({a, b}) >= b
           /\ Min({a, b}) \in {a, b} /\ Min({a, b}) <= a /\ Min({a, b}) <= b
  <1>1. \E x \in {a, b} : \A y \in {a, b} : x >= y
    OBVIOUS
  <1>2. \E x \in {a, b} : \A y \in {a, b} : x <= y
    OBVIOUS
  <1> QED BY <1>1, <1>2 DEF Max, Min

-----------------------------------------------------------------------------
(* Keys *)

LongKeys == {"requests.cpu", "limits.cpu", "requests.memory", "limits.memory"}

LEMMA KeyOfFacts ==
    /\ keyOf("requests", "cpu") = "requests.cpu" /\ keyOf("limits", "cpu") = "limits.cpu"
    /\ keyOf("requests", "memory") = "requests.memory"
    /\ keyOf("limits", "memory") = "limits.memory"
    /\ keyOf("requests", "storage") = "requests.storage"
    /\ \A side \in Sides, res \in {"ephemeral-storage", "gpu"} : keyOf(side, res) = res
  BY DEF keyOf, LongKey, Sides

LEMMA ChargedForFacts ==
    /\ ChargedFor("cpu") = <<"requests", "cpu">>
    /\ ChargedFor("requests.cpu") = <<"requests", "cpu">>
    /\ ChargedFor("memory") = <<"requests", "memory">>
    /\ ChargedFor("requests.memory") = <<"requests", "memory">>
    /\ ChargedFor("limits.cpu") = <<"limits", "cpu">>
    /\ ChargedFor("limits.memory") = <<"limits", "memory">>
    /\ ChargedFor("requests.gpu") = <<"requests", "gpu">>
  BY DEF ChargedFor

\* A long key is the key of one entry of a container.
LEMMA EntryFacts ==
    ASSUME NEW k \in LongKeys
    PROVE  /\ ChargedFor(k) \in Sides \X {"cpu", "memory"}
           /\ \A side \in Sides, res \in ContainerResources :
                 keyOf(side, res) = k <=> ChargedFor(k) = <<side, res>>
  <1>1. k = "requests.cpu" \/ k = "limits.cpu" \/ k = "requests.memory" \/ k = "limits.memory"
    BY DEF LongKeys
  <1>2. \A side \in Sides, res \in ContainerResources :
            /\ side = "requests" \/ side = "limits"
            /\ res = "cpu" \/ res = "memory" \/ res = "ephemeral-storage" \/ res = "gpu"
    BY DEF Sides, ContainerResources
  <1>3. /\ keyOf("requests", "gpu") = "gpu" /\ keyOf("limits", "gpu") = "gpu"
        /\ keyOf("requests", "ephemeral-storage") = "ephemeral-storage"
        /\ keyOf("limits", "ephemeral-storage") = "ephemeral-storage"
    BY KeyOfFacts DEF Sides
  <1>4. ChargedFor(k) \in Sides \X {"cpu", "memory"}
    BY <1>1, ChargedForFacts DEF Sides
  <1> QED BY <1>1, <1>2, <1>3, <1>4, KeyOfFacts, ChargedForFacts

LEMMA NoStorageEntry ==
    \A side \in Sides, res \in ContainerResources : keyOf(side, res) # "requests.storage"
  <1>1. \A side \in Sides, res \in ContainerResources :
            /\ side = "requests" \/ side = "limits"
            /\ res = "cpu" \/ res = "memory" \/ res = "ephemeral-storage" \/ res = "gpu"
    BY DEF Sides, ContainerResources
  <1>2. /\ keyOf("requests", "gpu") = "gpu" /\ keyOf("limits", "gpu") = "gpu"
        /\ keyOf("requests", "ephemeral-storage") = "ephemeral-storage"
        /\ keyOf("limits", "ephemeral-storage") = "ephemeral-storage"
    BY KeyOfFacts DEF Sides
  <1> QED BY <1>1, <1>2, KeyOfFacts

\* The container type the API server admits.
IsContainer(c) == \A side \in Sides : IsResourceList(c[side], ContainerResources)

LEMMA UnderFacts ==
    ASSUME NEW c, IsContainer(c)
    PROVE  /\ \A k \in LongKeys : LET e == ChargedFor(k) IN
                 Under(c, k) = IF e[2] \in DOMAIN c[e[1]] THEN {e} ELSE {}
           /\ Under(c, "requests.storage") = {}
  <1>1. \A e \in Entries(c) : /\ e = <<e[1], e[2]>> /\ e[1] \in Sides
                              /\ e[2] \in ContainerResources /\ e[2] \in DOMAIN c[e[1]]
    BY DEF Entries, IsContainer, IsResourceList
  <1>2. Under(c, "requests.storage") = {}
    BY <1>1, NoStorageEntry DEF Under
  <1>3. ASSUME NEW k \in LongKeys
        PROVE  LET e == ChargedFor(k) IN Under(c, k) = IF e[2] \in DOMAIN c[e[1]] THEN {e} ELSE {}
    <2> DEFINE e == ChargedFor(k)
    <2>1. /\ e = <<e[1], e[2]>> /\ e[1] \in Sides /\ e[2] \in ContainerResources
          /\ keyOf(e[1], e[2]) = k
      BY EntryFacts DEF ContainerResources
    <2>2. \A x \in Under(c, k) : x = e /\ e[2] \in DOMAIN c[e[1]]
      BY <1>1, EntryFacts DEF Under
    <2>3. e[2] \in DOMAIN c[e[1]] => e \in Under(c, k)
      BY <2>1 DEF Under, Entries
    <2> HIDE DEF e
    <2>4. Under(c, k) = IF e[2] \in DOMAIN c[e[1]] THEN {e} ELSE {}
      BY <2>2, <2>3
    <2> QED BY <2>4 DEF e
  <1> QED BY <1>2, <1>3

LEMMA ContainerOf ==
    ASSUME NEW w \in Workloads
    PROVE  /\ IsFiniteSet(DOMAIN Template[w].containers) /\ IsFiniteSet(DOMAIN Template[w].init)
           /\ IsFiniteSet(DOMAIN Template[w].claims)
           /\ \A i \in DOMAIN Template[w].containers : IsContainer(Template[w].containers[i])
           /\ \A i \in DOMAIN Template[w].init : IsContainer(Template[w].init[i])
           /\ \A i \in DOMAIN Template[w].claims :
                 IsResourceList(Template[w].claims[i], {"storage"})
  <1>1. \A part \in {"containers", "init", "claims"} : IsFiniteSet(DOMAIN Template[w][part])
    BY WorkloadAssumption
  <1>2. \A c \in Range(Template[w].containers) \cup Range(Template[w].init) : IsContainer(c)
    BY WorkloadAssumption DEF IsContainer
  <1>3. \A c \in Range(Template[w].claims) : IsResourceList(c, {"storage"})
    BY WorkloadAssumption
  <1> QED BY <1>1, <1>2, <1>3 DEF Range

LEMMA AmountNat ==
    ASSUME NEW c, IsContainer(c), NEW side \in Sides, NEW res
    PROVE  Amount(c[side], res) \in Nat
  BY DEF Amount, IsContainer, IsResourceList

LEMMA MaxZero ==
    ASSUME NEW v \in Nat PROVE Max({v} \cup {0}) = v /\ Max({} \cup {0}) = 0
  <1>1. {v} \cup {0} = {v, 0} /\ {} \cup {0} = {0, 0}
    OBVIOUS
  <1>2. /\ Max({v, 0}) \in {v, 0} /\ Max({v, 0}) >= v
        /\ Max({0, 0}) \in {0, 0}
    BY PairFacts
  <1> QED BY <1>1, <1>2

\* addResources and addInit agree on one container: what the API server
\* charges under a long key.
LEMMA AmountFacts ==
    ASSUME NEW c, IsContainer(c)
    PROVE  /\ \A k \in LongKeys : LET e == ChargedFor(k) IN
                 /\ AppAmount(c, k) = Amount(c[e[1]], e[2])
                 /\ InitAmount(c, k) = Amount(c[e[1]], e[2])
           /\ AppAmount(c, "requests.storage") = 0
           /\ InitAmount(c, "requests.storage") = 0
  <1>1. ASSUME NEW k, Under(c, k) = {} PROVE AppAmount(c, k) = 0 /\ InitAmount(c, k) = 0
    <2>1. SumFunction([e \in {} |-> c[e[1]][e[2]]]) = 0
      BY SumZero, FS_EmptySet
    <2>2. AppAmount(c, k) = 0
      BY <1>1, <2>1 DEF AppAmount
    <2>3. InitAmount(c, k) = Max({} \cup {0})
      BY <1>1 DEF InitAmount
    <2> QED BY <2>2, <2>3, MaxZero
  <1>2. ASSUME NEW k \in LongKeys
        PROVE  LET e == ChargedFor(k) IN
                 /\ AppAmount(c, k) = Amount(c[e[1]], e[2])
                 /\ InitAmount(c, k) = Amount(c[e[1]], e[2])
    <2> DEFINE e == ChargedFor(k)
    <2>1. e[1] \in Sides /\ e = <<e[1], e[2]>>
      BY EntryFacts
    <2>2. CASE e[2] \in DOMAIN c[e[1]]
      <3>1. Under(c, k) = {e}
        BY <2>2, UnderFacts
      <3> DEFINE v == c[e[1]][e[2]]
      <3>2. v \in Nat /\ Amount(c[e[1]], e[2]) = v
        BY <2>1, <2>2 DEF Amount, IsContainer, IsResourceList
      <3>3. AppAmount(c, k) = v
        <4> DEFINE f == [x \in {e} |-> c[x[1]][x[2]]]
        <4>1. f \in [{e} -> Nat] /\ f[e] = v
          BY <3>2
        <4>2. SumFunction(f) = f[e]
          BY <4>1, SumOne
        <4>3. AppAmount(c, k) = SumFunction(f)
          BY <3>1 DEF AppAmount
        <4> QED BY <4>1, <4>2, <4>3
      <3>4. InitAmount(c, k) = v
        <4> DEFINE side == IF \E x \in {e} : x[1] = "limits" THEN "limits" ELSE "requests"
                   vals == {c[side][x[2]] : x \in {x \in {e} : x[1] = side}}
        <4>1. side = e[1]
          BY <2>1 DEF Sides
        <4>2. vals = {v}
          BY <4>1
        <4>3. InitAmount(c, k) = Max(vals \cup {0})
          BY <3>1 DEF InitAmount
        <4> HIDE DEF vals, v
        <4> QED BY <3>2, <4>2, <4>3, MaxZero
      <3> QED BY <3>2, <3>3, <3>4
    <2>3. CASE e[2] \notin DOMAIN c[e[1]]
      <3>1. Under(c, k) = {}
        BY <2>3, UnderFacts
      <3>2. Amount(c[e[1]], e[2]) = 0
        BY <2>3 DEF Amount
      <3> QED BY <1>1, <3>1, <3>2
    <2> QED BY <2>2, <2>3
  <1> QED BY <1>1, <1>2, UnderFacts

-----------------------------------------------------------------------------
(* What one replica asks for *)

\* A Pod's amount of the entry e, as the API server computes it.
PodAmount(t, e) ==
    Max({SumFunction([i \in DOMAIN t.containers |-> Amount(t.containers[i][e[1]], e[2])])}
            \cup {Amount(t.init[i][e[1]], e[2]) : i \in DOMAIN t.init})

\* The storage of all claims.
ClaimAmount(t) == SumFunction([i \in DOMAIN t.claims |-> Amount(t.claims[i], "storage")])

LEMMA ChargeForm ==
    ASSUME NEW w \in Workloads, NEW k \in Resources
    PROVE  Charge[w][k] = IF k = "requests.storage" THEN ClaimAmount(Template[w])
                          ELSE PodAmount(Template[w], ChargedFor(k))
  <1> DEFINE F(v, l) == IF l = "requests.storage" THEN ClaimAmount(Template[v])
                        ELSE PodAmount(Template[v], ChargedFor(l))
  <1>1. Charge = [v \in Workloads |-> [l \in Resources |-> F(v, l)]]
    BY DEF Charge, PodAmount, ClaimAmount
  <1> HIDE DEF F
  <1>2. Charge[w][k] = F(w, k)
    BY <1>1
  <1> QED BY <1>2 DEF F

LEMMA PodAmountFacts ==
    ASSUME NEW w \in Workloads, NEW e, e[1] \in Sides
    PROVE  /\ PodAmount(Template[w], e) \in Nat
           /\ PodAmount(Template[w], e) > 0 =>
                 \E c \in Range(Template[w].containers) \cup Range(Template[w].init) :
                     e[2] \in DOMAIN c[e[1]]
  <1> DEFINE t == Template[w]
             app == [i \in DOMAIN t.containers |-> Amount(t.containers[i][e[1]], e[2])]
             ini == [i \in DOMAIN t.init |-> Amount(t.init[i][e[1]], e[2])]
             vals == {SumFunction(app)} \cup {Amount(t.init[i][e[1]], e[2]) : i \in DOMAIN t.init}
  <1>1. IsFiniteSet(DOMAIN t.containers) /\ IsFiniteSet(DOMAIN t.init)
    BY ContainerOf
  <1>2. app \in [DOMAIN t.containers -> Nat] /\ ini \in [DOMAIN t.init -> Nat]
    BY ContainerOf, AmountNat
  <1>3. /\ SumFunction(app) \in Nat /\ SumFunction(ini) \in Nat
        /\ \A i \in DOMAIN t.init : ini[i] <= SumFunction(ini)
    <2> HIDE DEF app, ini
    <2> QED BY <1>1, <1>2, SumNat
  <1>4. vals = {SumFunction(app)} \cup {ini[i] : i \in DOMAIN t.init}
    OBVIOUS
  <1>5. PodAmount(t, e) = Max(vals)
    BY DEF PodAmount
  <1>6. Max(vals) \in vals /\ vals \in SUBSET Nat
    <2> DEFINE b == SumFunction(app) + SumFunction(ini)
    <2>1. \A i \in DOMAIN t.init : ini[i] \in Nat
      BY <1>2
    <2> HIDE DEF app, ini, vals
    <2>2. vals \in SUBSET Nat /\ vals # {} /\ b \in Nat /\ \A x \in vals : x <= b
      BY <1>3, <1>4, <2>1
    <2> QED BY <2>2, MaxBounded
  <1>7. ASSUME Max(vals) > 0,
               \A c \in Range(t.containers) \cup Range(t.init) : e[2] \notin DOMAIN c[e[1]]
        PROVE  FALSE
    <2>1. /\ \A i \in DOMAIN t.containers : Amount(t.containers[i][e[1]], e[2]) = 0
          /\ \A i \in DOMAIN t.init : Amount(t.init[i][e[1]], e[2]) = 0
      BY <1>7 DEF Amount, Range
    <2>2. app \in [DOMAIN t.containers -> {0}]
      BY <2>1
    <2>3. SumFunction(app) = 0
      <3> HIDE DEF app
      <3> QED BY <1>1, <2>2, SumZero
    <2>4. \A x \in vals : x = 0
      BY <2>1, <2>3
    <2> HIDE DEF vals
    <2> QED BY <1>6, <1>7, <2>4
  <1> HIDE DEF vals
  <1> QED BY <1>5, <1>6, <1>7

LEMMA ClaimAmountFacts ==
    ASSUME NEW w \in Workloads
    PROVE  /\ ClaimAmount(Template[w]) \in Nat
           /\ ClaimAmount(Template[w]) > 0 =>
                 \E c \in Range(Template[w].claims) : "storage" \in DOMAIN c
  <1> DEFINE t == Template[w]
             f == [i \in DOMAIN t.claims |-> Amount(t.claims[i], "storage")]
  <1>1. IsFiniteSet(DOMAIN t.claims) /\ ClaimAmount(t) = SumFunction(f)
    BY ContainerOf DEF ClaimAmount
  <1>2. f \in [DOMAIN t.claims -> Nat]
    BY ContainerOf DEF IsResourceList, Amount
  <1>3. SumFunction(f) \in Nat
    <2> HIDE DEF f
    <2> QED BY <1>1, <1>2, SumNat
  <1>4. ASSUME \A c \in Range(t.claims) : "storage" \notin DOMAIN c PROVE SumFunction(f) = 0
    <2>1. f \in [DOMAIN t.claims -> {0}]
      BY <1>4 DEF Range, Amount
    <2> HIDE DEF f
    <2> QED BY <1>1, <2>1, SumZero
  <1> HIDE DEF f
  <1> QED BY <1>1, <1>3, <1>4

\* Every entry of the Pod of w comes under one of these names.
OtherNames == {"ephemeral-storage", "gpu", "requests.storage"}

LEMMA KeysOfPod ==
    ASSUME NEW w \in Workloads
    PROVE  RequestKeys(w) \subseteq LongKeys \cup OtherNames
  <1> DEFINE t == Template[w]
  <1>1. ASSUME NEW c \in Range(t.containers) \cup Range(t.init), NEW e \in Entries(c)
        PROVE  keyOf(e[1], e[2]) \in LongKeys \cup OtherNames
    <2>1. IsContainer(c)
      BY WorkloadAssumption DEF IsContainer
    <2>2. e[1] \in Sides /\ e[2] \in ContainerResources
      BY <2>1 DEF Entries, IsContainer, IsResourceList
    <2>3. /\ e[1] = "requests" \/ e[1] = "limits"
          /\ e[2] = "cpu" \/ e[2] = "memory" \/ e[2] = "ephemeral-storage" \/ e[2] = "gpu"
      BY <2>2 DEF Sides, ContainerResources
    <2>4. /\ keyOf("requests", "gpu") = "gpu" /\ keyOf("limits", "gpu") = "gpu"
          /\ keyOf("requests", "ephemeral-storage") = "ephemeral-storage"
          /\ keyOf("limits", "ephemeral-storage") = "ephemeral-storage"
      BY KeyOfFacts DEF Sides
    <2> QED BY <2>3, <2>4, KeyOfFacts DEF LongKeys, OtherNames
  <1>2. ASSUME NEW c \in Range(t.claims), NEW res \in DOMAIN c
        PROVE  keyOf("requests", res) \in LongKeys \cup OtherNames
    <2>1. res = "storage"
      BY WorkloadAssumption DEF IsResourceList
    <2> QED BY <2>1, KeyOfFacts DEF OtherNames
  <1> QED BY <1>1, <1>2 DEF RequestKeys

LEMMA PodRequestsForm ==
    ASSUME NEW w \in Workloads
    PROVE  /\ \A k \in LongKeys : PodRequests(Template[w], k) = PodAmount(Template[w], ChargedFor(k))
           /\ PodRequests(Template[w], "requests.storage") = 0
  <1> DEFINE t == Template[w]
  <1>1. /\ \A i \in DOMAIN t.containers : IsContainer(t.containers[i])
        /\ \A i \in DOMAIN t.init : IsContainer(t.init[i])
        /\ IsFiniteSet(DOMAIN t.containers)
    BY ContainerOf
  <1>2. ASSUME NEW k \in LongKeys PROVE PodRequests(t, k) = PodAmount(t, ChargedFor(k))
    <2> DEFINE e == ChargedFor(k)
    <2>1. [i \in DOMAIN t.containers |-> AppAmount(t.containers[i], k)]
            = [i \in DOMAIN t.containers |-> Amount(t.containers[i][e[1]], e[2])]
      BY <1>1, AmountFacts
    <2>2. {InitAmount(t.init[i], k) : i \in DOMAIN t.init}
            = {Amount(t.init[i][e[1]], e[2]) : i \in DOMAIN t.init}
      <3>1. \A i \in DOMAIN t.init : InitAmount(t.init[i], k) = Amount(t.init[i][e[1]], e[2])
        BY <1>1, AmountFacts
      <3> HIDE DEF e, t
      <3> QED BY <3>1
    <2> HIDE DEF e, t
    <2>3. PodRequests(t, k) = PodAmount(t, e)
      BY <2>1, <2>2 DEF PodRequests, PodAmount
    <2> QED BY <2>3 DEF e
  <1>3. PodRequests(t, "requests.storage") = 0
    <2> DEFINE f == [i \in DOMAIN t.containers |-> AppAmount(t.containers[i], "requests.storage")]
               ini == {InitAmount(t.init[i], "requests.storage") : i \in DOMAIN t.init}
    <2>1. f \in [DOMAIN t.containers -> {0}]
      BY <1>1, AmountFacts
    <2>2. SumFunction(f) = 0
      <3> HIDE DEF f
      <3> QED BY <1>1, <2>1, SumZero
    <2>3. ini \subseteq {0}
      BY <1>1, AmountFacts
    <2>4. PodRequests(t, "requests.storage") = Max({SumFunction(f)} \cup ini)
      BY DEF PodRequests
    <2> HIDE DEF f, ini, t
    <2>5. {SumFunction(f)} \cup ini = {} \cup {0}
      BY <2>2, <2>3
    <2> QED BY <2>4, <2>5, MaxZero
  <1> QED BY <1>2, <1>3

LEMMA PVCRequestsForm ==
    ASSUME NEW w \in Workloads
    PROVE  /\ \A k \in LongKeys : PVCRequests(Template[w].claims, k) = 0
           /\ PVCRequests(Template[w].claims, "requests.storage") = ClaimAmount(Template[w])
  <1> DEFINE claims == Template[w].claims
             under(c, k) == {res \in DOMAIN c : keyOf("requests", res) = k}
             one(c, k) == SumFunction([res \in under(c, k) |-> c[res]])
  <1>1. /\ IsFiniteSet(DOMAIN claims)
        /\ \A i \in DOMAIN claims : IsResourceList(claims[i], {"storage"})
    BY ContainerOf
  <1>2. \A k : PVCRequests(claims, k) = SumFunction([i \in DOMAIN claims |-> one(claims[i], k)])
    BY DEF PVCRequests
  <1>3. ASSUME NEW c, NEW k, under(c, k) = {} PROVE one(c, k) = 0
    <2>1. SumFunction([res \in {} |-> c[res]]) = 0
      BY SumZero, FS_EmptySet
    <2> QED BY <1>3, <2>1
  <1>4. ASSUME NEW c, IsResourceList(c, {"storage"})
        PROVE  /\ \A k \in LongKeys : one(c, k) = 0
               /\ one(c, "requests.storage") = Amount(c, "storage")
    <2>1. \A res \in DOMAIN c : res = "storage" /\ c[res] \in Nat
      BY <1>4 DEF IsResourceList
    <2>2. \A k \in LongKeys : under(c, k) = {}
      BY <2>1, KeyOfFacts DEF LongKeys
    <2>3. CASE "storage" \in DOMAIN c
      <3>1. under(c, "requests.storage") = {"storage"}
        BY <2>1, <2>3, KeyOfFacts
      <3> DEFINE f == [res \in {"storage"} |-> c[res]]
      <3>2. f \in [{"storage"} -> Nat] /\ f["storage"] = c["storage"]
        BY <2>1, <2>3
      <3>3. SumFunction(f) = f["storage"]
        <4> HIDE DEF f
        <4> QED BY <3>2, SumOne
      <3>4. one(c, "requests.storage") = SumFunction(f)
        BY <3>1
      <3> QED BY <1>3, <2>2, <2>3, <3>2, <3>3, <3>4 DEF Amount
    <2>4. CASE "storage" \notin DOMAIN c
      <3>1. under(c, "requests.storage") = {}
        BY <2>1, <2>4
      <3> HIDE DEF one, under
      <3> QED BY <1>3, <2>2, <2>4, <3>1 DEF Amount
    <2> QED BY <2>3, <2>4
  <1> HIDE DEF one, under
  <1>5. ASSUME NEW k \in LongKeys PROVE PVCRequests(claims, k) = 0
    <2> DEFINE f == [i \in DOMAIN claims |-> one(claims[i], k)]
    <2>1. f \in [DOMAIN claims -> {0}]
      BY <1>1, <1>4
    <2> HIDE DEF f
    <2>2. SumFunction(f) = 0
      BY <1>1, <2>1, SumZero
    <2> QED BY <1>2, <2>2 DEF f
  <1>6. PVCRequests(claims, "requests.storage") = ClaimAmount(Template[w])
    <2>1. [i \in DOMAIN claims |-> one(claims[i], "requests.storage")]
            = [i \in DOMAIN claims |-> Amount(claims[i], "storage")]
      BY <1>1, <1>4
    <2> QED BY <1>2, <2>1 DEF ClaimAmount
  <1> QED BY <1>5, <1>6

LEMMA ChargeFacts ==
    ASSUME NEW w \in Workloads, NEW k \in Resources
    PROVE  Charge[w][k] \in Nat
  <1>1. ChargedFor(k)[1] \in Sides
    BY DEF ChargedFor, Sides
  <1> QED BY <1>1, ChargeForm, PodAmountFacts, ClaimAmountFacts

LEMMA KnownKeys ==
    ASSUME NEW k \in Resources
    PROVE  k \in LongKeys \cup {"cpu", "memory", "requests.gpu", "requests.storage"}
  <1>1. k \in Range(KeyOrder)
    BY ShortageAssumption
  <1>2. DOMAIN KeyOrder = 1 .. 8
    BY DEF KeyOrder
  <1>3. PICK i \in 1 .. 8 : k = KeyOrder[i]
    BY <1>1, <1>2 DEF Range
  <1>4. i = 1 \/ i = 2 \/ i = 3 \/ i = 4 \/ i = 5 \/ i = 6 \/ i = 7 \/ i = 8
    OBVIOUS
  <1> QED BY <1>3, <1>4 DEF KeyOrder, LongKeys

\* The other name a resource is requested under when k is its key.
LongName(k) ==
    CASE k = "cpu" -> "requests.cpu" [] k = "memory" -> "requests.memory" [] OTHER -> ""

LEMMA LongNameFacts ==
    ASSUME NEW k \in Resources
    PROVE  LongName(k) # k /\ LongName(k) \notin {"cpu", "memory"}
  BY KnownKeys DEF LongName, LongKeys

LEMMA AliasFacts ==
    ASSUME NEW a, NEW b, <<a, b>> \in Aliases
    PROVE  \/ a = "cpu" /\ b = "requests.cpu"
           \/ a = "memory" /\ b = "requests.memory"
           \/ a = "storage" /\ b = "requests.storage"
  <1>1. \/ <<a, b>> = <<"cpu", "requests.cpu">> \/ <<a, b>> = <<"memory", "requests.memory">>
        \/ <<a, b>> = <<"storage", "requests.storage">>
    BY DEF Aliases
  <1>2. ASSUME NEW x, NEW y, <<a, b>> = <<x, y>> PROVE a = x /\ b = y
    BY <1>2
  <1> QED BY <1>1, <1>2

\* A name of a Pod's request that resolves to the key k: k, or the long name.
LEMMA ReplicaFacts ==
    ASSUME NEW w \in Workloads, NEW k \in Resources, NEW limits, DOMAIN limits = Resources,
           NEW res \in RequestKeys(w), k \in resolveQuotaKey(limits, res)
    PROVE  /\ res = k \/ res = LongName(k)
           /\ res \in LongKeys \cup {"requests.storage"}
           /\ PerReplica[w][res] = Charge[w][k]
  <1>1. res \in LongKeys \cup OtherNames
    BY KeysOfPod
  <1>2. k \in LongKeys \cup {"cpu", "memory", "requests.gpu", "requests.storage"}
    BY KnownKeys
  <1>3. res = k \/ <<res, k>> \in Aliases \/ <<k, res>> \in Aliases
    BY DEF resolveQuotaKey
  <1>4. \/ res = k /\ k \in LongKeys \cup {"requests.storage"}
        \/ k = "cpu" /\ res = "requests.cpu"
        \/ k = "memory" /\ res = "requests.memory"
    <2>1. ASSUME <<res, k>> \in Aliases PROVE FALSE
      BY <1>1, <2>1, AliasFacts DEF LongKeys, OtherNames
    <2>2. ASSUME <<k, res>> \in Aliases
          PROVE  \/ k = "cpu" /\ res = "requests.cpu"
                 \/ k = "memory" /\ res = "requests.memory"
      BY <1>2, <2>2, AliasFacts DEF LongKeys
    <2>3. res = k => k \in LongKeys \cup {"requests.storage"}
      BY <1>1, <1>2 DEF LongKeys, OtherNames
    <2> QED BY <1>3, <2>1, <2>2, <2>3
  <1>5. /\ res = k \/ res = LongName(k)
        /\ res \in LongKeys \cup {"requests.storage"}
        /\ k = "requests.storage" <=> res = "requests.storage"
        /\ res \in LongKeys => ChargedFor(k) = ChargedFor(res)
    BY <1>4, ChargedForFacts DEF LongName, LongKeys
  <1>6. PerReplica[w][res]
          = PodRequests(Template[w], res) + PVCRequests(Template[w].claims, res)
    BY DEF PerReplica
  <1>7. CASE res = "requests.storage"
    BY <1>5, <1>6, <1>7, PodRequestsForm, PVCRequestsForm, ChargeForm, ClaimAmountFacts
  <1>8. CASE res \in LongKeys
    <2>1. ChargedFor(res)[1] \in Sides
      BY <1>8, EntryFacts
    <2>2. PodAmount(Template[w], ChargedFor(res)) \in Nat
      BY <2>1, PodAmountFacts
    <2>3. k # "requests.storage"
      BY <1>5, <1>8 DEF LongKeys
    <2> QED BY <1>5, <1>6, <1>8, <2>2, <2>3, PodRequestsForm, PVCRequestsForm, ChargeForm
  <1> QED BY <1>5, <1>7, <1>8

\* What a Pod is charged under a key has a name among its requests, unless the
\* key is that of an extended resource.
LEMMA ChargeRequested ==
    ASSUME NEW w \in Workloads, NEW k \in Resources, k # "requests.gpu", Charge[w][k] > 0
    PROVE  k \in RequestKeys(w) \/ LongName(k) \in RequestKeys(w)
  <1> DEFINE t == Template[w]
             e == ChargedFor(k)
  <1>1. k \in LongKeys \cup {"cpu", "memory", "requests.storage"}
    BY KnownKeys
  <1>2. CASE k = "requests.storage"
    <2>1. PICK c \in Range(t.claims) : "storage" \in DOMAIN c
      BY <1>2, ChargeForm, ClaimAmountFacts
    <2> QED BY <1>2, <2>1, KeyOfFacts DEF RequestKeys
  <1>3. CASE k # "requests.storage"
    <2>1. /\ e = <<e[1], e[2]>> /\ e[1] \in Sides
          /\ keyOf(e[1], e[2]) = k \/ keyOf(e[1], e[2]) = LongName(k)
      <3>1. \/ k \in {"cpu", "requests.cpu"} /\ e = <<"requests", "cpu">>
            \/ k \in {"memory", "requests.memory"} /\ e = <<"requests", "memory">>
            \/ k = "limits.cpu" /\ e = <<"limits", "cpu">>
            \/ k = "limits.memory" /\ e = <<"limits", "memory">>
        BY <1>1, <1>3, ChargedForFacts DEF LongKeys
      <3> HIDE DEF e
      <3>2. \A x, y : e = <<x, y>> => e[1] = x /\ e[2] = y
        OBVIOUS
      <3>3. \/ k \in {"cpu", "requests.cpu"} /\ e[1] = "requests" /\ e[2] = "cpu"
            \/ k \in {"memory", "requests.memory"} /\ e[1] = "requests" /\ e[2] = "memory"
            \/ k = "limits.cpu" /\ e[1] = "limits" /\ e[2] = "cpu"
            \/ k = "limits.memory" /\ e[1] = "limits" /\ e[2] = "memory"
        BY <3>1, <3>2
      <3>4. keyOf(e[1], e[2]) = k \/ keyOf(e[1], e[2]) = LongName(k)
        BY <3>3, KeyOfFacts DEF LongName
      <3> QED BY <3>1, <3>3, <3>4 DEF Sides
    <2>2. PICK c \in Range(t.containers) \cup Range(t.init) : e[2] \in DOMAIN c[e[1]]
      <3>1. PodAmount(t, e) > 0
        BY <1>3, ChargeForm
      <3> HIDE DEF e
      <3> QED BY <2>1, <3>1, PodAmountFacts
    <2>3. e \in Entries(c)
      <3> HIDE DEF e
      <3>1. e \in Sides \X UNION {DOMAIN c[s] : s \in Sides}
        BY <2>1, <2>2
      <3> QED BY <2>2, <3>1 DEF Entries
    <2>4. keyOf(e[1], e[2]) \in RequestKeys(w)
      <3> HIDE DEF e
      <3> QED BY <2>2, <2>3 DEF RequestKeys
    <2> QED BY <2>1, <2>4
  <1> QED BY <1>2, <1>3

\* The resource read from a message is one of those it names.
LEMMA ParseFacts ==
    ASSUME NEW evt, DOMAIN evt.requested \subseteq Resources, DOMAIN evt.requested # {}
    PROVE  ParseEventMessage(evt) \in DOMAIN evt.requested
  <1> DEFINE ranks == {i \in DOMAIN KeyOrder : KeyOrder[i] \in DOMAIN evt.requested}
  <1>1. DOMAIN KeyOrder = 1 .. 8
    BY DEF KeyOrder
  <1>2. ranks \in SUBSET Nat /\ ranks # {}
    <2>1. PICK k \in DOMAIN evt.requested : TRUE
      OBVIOUS
    <2>2. k \in Range(KeyOrder)
      BY ShortageAssumption
    <2> QED BY <1>1, <2>1, <2>2 DEF Range
  <1> HIDE DEF ranks
  <1>3. \E n \in ranks : \A m \in ranks : n <= m
    BY <1>2, Least
  <1>4. Min(ranks) \in ranks
    BY <1>3 DEF Min
  <1>5. ParseEventMessage(evt) = KeyOrder[Min(ranks)]
    BY DEF ParseEventMessage, ranks
  <1> QED BY <1>4, <1>5 DEF ranks

-----------------------------------------------------------------------------
(* collectDeficits *)

\* An event names keys that were exceeded, each with what one Pod is charged.
GoodEvent(e) ==
    /\ e.workload \in Workloads
    /\ DOMAIN e.requested # {} /\ DOMAIN e.requested \subseteq Resources
    /\ \A k \in DOMAIN e.requested : e.requested[k] = Charge[e.workload][k] /\ e.requested[k] > 0

\* The deficit of w is computed from its template.
FromTemplate(w, readable, m) ==
    Kind[w] \in {"StatefulSet", "DaemonSet", "ReplicaSet"} /\ w \in readable /\ m[w] > 0

\* What an event of w adds under the name res, when res resolves to k.
Owed(res, k, w, readable, m) ==
    IF FromTemplate(w, readable, m)
    THEN IF res \in RequestKeys(w) THEN m[w] * Charge[w][k] ELSE 0
    ELSE IF res = k THEN Charge[w][k] ELSE 0

\* The same under all names.
Share(k, w, readable, m) ==
    IF FromTemplate(w, readable, m) THEN m[w] * Charge[w][k] ELSE Charge[w][k]

LEMMA OwedFacts ==
    ASSUME NEW k \in Resources, NEW w \in Workloads, NEW readable, NEW m \in [Workloads -> Int]
    PROVE  /\ \A res : Owed(res, k, w, readable, m) \in Nat
           /\ Share(k, w, readable, m) \in Nat
           /\ Owed(k, k, w, readable, m) + Owed(LongName(k), k, w, readable, m)
                <= Share(k, w, readable, m)
           /\ (k # "requests.gpu" \/ ~FromTemplate(w, readable, m)) =>
                 Owed(k, k, w, readable, m) + Owed(LongName(k), k, w, readable, m)
                   = Share(k, w, readable, m)
  <1> DEFINE c == Charge[w][k]
  <1>1. c \in Nat /\ m[w] \in Int
    BY ChargeFacts
  <1> HIDE DEF c
  <1>2. CASE FromTemplate(w, readable, m)
    <2>1. m[w] > 0 /\ m[w] * c \in Nat
      BY <1>1, <1>2 DEF FromTemplate
    <2>2. /\ \A res : Owed(res, k, w, readable, m) = IF res \in RequestKeys(w) THEN m[w] * c ELSE 0
          /\ Share(k, w, readable, m) = m[w] * c
      BY <1>2 DEF Owed, Share, c
    <2>3. ~(k \in RequestKeys(w) /\ LongName(k) \in RequestKeys(w))
      BY KeysOfPod DEF LongName, LongKeys, OtherNames
    <2>4. c > 0 /\ k # "requests.gpu" => k \in RequestKeys(w) \/ LongName(k) \in RequestKeys(w)
      BY ChargeRequested DEF c
    <2>5. c = 0 => m[w] * c = 0
      BY <1>1
    <2> QED BY <1>1, <1>2, <2>1, <2>2, <2>3, <2>4, <2>5
  <1>3. CASE ~FromTemplate(w, readable, m)
    <2>1. /\ \A res : Owed(res, k, w, readable, m) = IF res = k THEN c ELSE 0
          /\ Share(k, w, readable, m) = c
      BY <1>3 DEF Owed, Share, c
    <2> QED BY <1>1, <2>1, LongNameFacts
  <1> QED BY <1>2, <1>3

\* The records collectDeficits makes of the events, and what it adds up.
Found(es, readable, m) ==
    {[key |-> WorkloadKey(Name[e.workload]), evt |-> e,
      deficits |-> calculateWorkloadDeficit(e, readable, m)] : e \in es}
Names(found) == UNION {DOMAIN f.deficits : f \in found}
Total(found, res) ==
    SumFunction([key \in {f.key : f \in found} |-> PerWorkload(found, res, key)])
NamesUnder(limits, found, k) == {res \in Names(found) : k \in resolveQuotaKey(limits, res)}

\* What the lemmas below assume of a scan.
Scan(limits, es, readable, m, found) ==
    /\ DOMAIN limits = Resources /\ (\A e \in es : GoodEvent(e))
    /\ m \in [Workloads -> Int] /\ found = Found(es, readable, m)

LEMMA DeficitOf ==
    ASSUME NEW limits, NEW es, NEW readable, NEW m, NEW found,
           Scan(limits, es, readable, m, found), NEW e \in es
    PROVE  /\ DOMAIN calculateWorkloadDeficit(e, readable, m) =
                 IF FromTemplate(e.workload, readable, m) THEN RequestKeys(e.workload)
                 ELSE {ParseEventMessage(e)}
           /\ ParseEventMessage(e) \in DOMAIN e.requested
           /\ \A res \in DOMAIN calculateWorkloadDeficit(e, readable, m), k \in Resources :
                 k \in resolveQuotaKey(limits, res) =>
                    /\ calculateWorkloadDeficit(e, readable, m)[res] =
                         Owed(res, k, e.workload, readable, m)
                    /\ res \in {k, LongName(k)}
  <1> DEFINE d == calculateWorkloadDeficit(e, readable, m)
             w == e.workload
             r == ParseEventMessage(e)
  <1>1. /\ w \in Workloads /\ r \in DOMAIN e.requested /\ r \in Resources
        /\ DOMAIN limits = Resources /\ GoodEvent(e)
    BY ParseFacts DEF GoodEvent, Scan
  <1>2. DOMAIN PerReplica[w] = RequestKeys(w)
    BY <1>1 DEF PerReplica
  <1>3. CASE FromTemplate(w, readable, m)
    <2>1. d = [x \in RequestKeys(w) |-> m[w] * PerReplica[w][x]]
      BY <1>2, <1>3 DEF calculateWorkloadDeficit, applySmartCalculation, FromTemplate
    <2>2. ASSUME NEW res \in RequestKeys(w), NEW k \in Resources, k \in resolveQuotaKey(limits, res)
          PROVE  d[res] = Owed(res, k, w, readable, m) /\ res \in {k, LongName(k)}
      <3>1. PerReplica[w][res] = Charge[w][k] /\ (res = k \/ res = LongName(k))
        BY <1>1, <2>2, ReplicaFacts
      <3>2. d[res] = m[w] * Charge[w][k]
        BY <2>1, <3>1
      <3> QED BY <1>3, <3>1, <3>2 DEF Owed
    <2> HIDE DEF d, w, r
    <2> QED BY <1>1, <1>3, <2>1, <2>2 DEF w, d, r
  <1>4. CASE ~FromTemplate(w, readable, m)
    <2>1. d = [x \in {r} |-> e.requested[x]]
      BY <1>4 DEF calculateWorkloadDeficit, FromTemplate
    <2>2. ASSUME NEW k \in Resources, k \in resolveQuotaKey(limits, r)
          PROVE  d[r] = Owed(r, k, w, readable, m) /\ r \in {k, LongName(k)}
      <3>1. k = r
        BY <1>1, <2>2 DEF resolveQuotaKey
      <3>2. d[r] = Charge[w][r]
        BY <1>1, <2>1 DEF GoodEvent
      <3> QED BY <1>4, <3>1, <3>2 DEF Owed
    <2> HIDE DEF d, w, r
    <2> QED BY <1>1, <1>4, <2>1, <2>2 DEF w, d, r
  <1> QED BY <1>3, <1>4

LEMMA DeficitNames ==
    ASSUME NEW limits, NEW es, NEW readable, NEW m, NEW found,
           Scan(limits, es, readable, m, found), NEW e \in es
    PROVE  /\ DOMAIN calculateWorkloadDeficit(e, readable, m) =
                 IF FromTemplate(e.workload, readable, m) THEN RequestKeys(e.workload)
                 ELSE {ParseEventMessage(e)}
           /\ ParseEventMessage(e) \in DOMAIN e.requested
  BY DeficitOf

LEMMA DeficitValue ==
    ASSUME NEW limits, NEW es, NEW readable, NEW m, NEW found,
           Scan(limits, es, readable, m, found), NEW e \in es,
           NEW res \in DOMAIN calculateWorkloadDeficit(e, readable, m),
           NEW k \in Resources, k \in resolveQuotaKey(limits, res)
    PROVE  /\ calculateWorkloadDeficit(e, readable, m)[res] = Owed(res, k, e.workload, readable, m)
           /\ res \in {k, LongName(k)}
  <1>1. \A x \in DOMAIN calculateWorkloadDeficit(e, readable, m), l \in Resources :
          l \in resolveQuotaKey(limits, x) =>
            /\ calculateWorkloadDeficit(e, readable, m)[x] = Owed(x, l, e.workload, readable, m)
            /\ x \in {l, LongName(l)}
    BY DeficitOf, Zenon
  <1> QED BY <1>1, Zenon

LEMMA CollectForm ==
    ASSUME NEW limits, NEW es, NEW readable, NEW m, NEW found, found = Found(es, readable, m)
    PROVE  collectDeficits(limits, es, readable, m) =
             [k \in DOMAIN limits |->
                 SumFunction([res \in NamesUnder(limits, found, k) |-> Total(found, res)])]
  BY DEF collectDeficits, Found, Names, Total, NamesUnder

LEMMA SumWithinPair ==
    ASSUME NEW a, NEW b, a # b, NEW R \in SUBSET {a, b}, NEW f \in [R -> Nat]
    PROVE  SumFunction(f) = (IF a \in R THEN f[a] ELSE 0) + (IF b \in R THEN f[b] ELSE 0)
  <1>1. CASE R = {}
    <2>1. f \in [R -> {0}]
      BY <1>1
    <2>2. IsFiniteSet(R) /\ a \notin R /\ b \notin R
      BY <1>1, FS_EmptySet
    <2>3. SumFunction(f) = 0
      BY <2>1, <2>2, SumZero
    <2> QED BY <2>2, <2>3
  <1>2. CASE R = {a}
    BY <1>2, SumOne
  <1>3. CASE R = {b}
    BY <1>3, SumOne
  <1>4. CASE R = {a, b}
    <2> DEFINE g == [x \in {b} |-> f[x]]
    <2>1. IsFiniteSet({a, b}) /\ {a, b} \ {a} = {b} /\ IsFiniteSet({b})
      <3>1. IsFiniteSet({b}) /\ {b} \cup {a} = {a, b} /\ {a, b} \ {a} = {b}
        BY FS_Singleton
      <3>2. IsFiniteSet({b} \cup {a})
        BY <3>1, FS_AddElement
      <3> QED BY <3>1, <3>2
    <2>2. SumFunctionOnSet(f, {a, b}) = f[a] + SumFunctionOnSet(f, {b})
      BY <1>4, <2>1, SumSplit
    <2>3. SumFunctionOnSet(f, {b}) = f[b] + SumFunctionOnSet(f, {b} \ {b})
      BY <1>4, <2>1, SumSplit
    <2>4. SumFunctionOnSet(f, {b} \ {b}) = 0
      <3>1. {b} \ {b} = {}
        OBVIOUS
      <3> QED BY <3>1, SumEmpty, Zenon
    <2>5. SumFunction(f) = SumFunctionOnSet(f, {a, b})
      BY <1>4 DEF SumFunction
    <2> QED BY <1>4, <2>2, <2>3, <2>4, <2>5
  <1> QED BY <1>1, <1>2, <1>3, <1>4

\* The workloads that have events.
Reporters(es) == {e.workload : e \in es}

\* The events of one workload: the value of the largest, and not less than that
\* of any.
LEMMA PerWorkloadFacts ==
    ASSUME NEW limits, NEW es, NEW readable, NEW m, NEW found,
           Scan(limits, es, readable, m, found),
           NEW k \in Resources, NEW res, k \in resolveQuotaKey(limits, res),
           NEW key \in {f.key : f \in found}
    PROVE  /\ PerWorkload(found, res, key) \in Nat
           /\ \E w \in Reporters(es) : /\ WorkloadKey(Name[w]) = key
                                       /\ PerWorkload(found, res, key) <= Owed(res, k, w, readable, m)
           /\ \A e \in es :
                 WorkloadKey(Name[e.workload]) = key
                   /\ res \in DOMAIN calculateWorkloadDeficit(e, readable, m)
                 => Owed(res, k, e.workload, readable, m) <= PerWorkload(found, res, key)
  <1>0. /\ DOMAIN limits = Resources /\ (\A e \in es : GoodEvent(e))
        /\ m \in [Workloads -> Int] /\ found = Found(es, readable, m)
    BY DEF Scan
  <1> DEFINE owed(w) == Owed(res, k, w, readable, m)
             calc(e) == calculateWorkloadDeficit(e, readable, m)
             vals == {f.deficits[res] : f \in {f \in found : f.key = key /\ res \in DOMAIN f.deficits}}
                       \cup {0}
             sum == SumFunction([w \in Workloads |-> owed(w)])
  <1>1. \A w \in Workloads : owed(w) \in Nat
    BY <1>0, OwedFacts
  <1>2. sum \in Nat /\ \A w \in Workloads : owed(w) <= sum
    <2> DEFINE o == [w \in Workloads |-> owed(w)]
    <2>1. o \in [Workloads -> Nat] /\ \A w \in Workloads : o[w] = owed(w)
      BY <1>1
    <2> HIDE DEF o, owed
    <2>2. SumFunction(o) \in Nat /\ \A w \in Workloads : o[w] <= SumFunction(o)
      BY <2>1, SumNat, WorkloadAssumption
    <2> QED BY <2>1, <2>2 DEF o
  <1>3. \A e \in es : /\ e.workload \in Workloads
                      /\ res \in DOMAIN calc(e) => calc(e)[res] = owed(e.workload)
    <2> TAKE e \in es
    <2>1. GoodEvent(e) /\ e.workload \in Workloads
      BY <1>0 DEF GoodEvent
    <2>2. ASSUME res \in DOMAIN calculateWorkloadDeficit(e, readable, m)
          PROVE  calculateWorkloadDeficit(e, readable, m)[res] = Owed(res, k, e.workload, readable, m)
      BY <2>2, DeficitValue
    <2> QED BY <2>1, <2>2
  <1>4. \A f \in found : \E e \in es : /\ f.key = WorkloadKey(Name[e.workload])
                                       /\ f.deficits = calc(e)
    BY <1>0 DEF Found
  <1>5. \A e \in es : \E f \in found : /\ f.key = WorkloadKey(Name[e.workload])
                                       /\ f.deficits = calc(e)
    <2> TAKE e \in es
    <2> DEFINE f == [key |-> WorkloadKey(Name[e.workload]), evt |-> e, deficits |-> calc(e)]
    <2>1. f \in found
      BY <1>0 DEF Found
    <2> QED BY <2>1
  <1>rs. Reporters(es) \subseteq Workloads
    BY <1>3 DEF Reporters
  <1> HIDE DEF owed, calc, sum
  <1>6. \A v \in vals : \/ v = 0
                        \/ \E w \in Reporters(es) : WorkloadKey(Name[w]) = key /\ v = owed(w)
    BY <1>3, <1>4 DEF Reporters
  <1>7. vals \in SUBSET Nat /\ vals # {} /\ \A v \in vals : v <= sum
    BY <1>1, <1>2, <1>6, <1>rs
  <1>8. \A e \in es : WorkloadKey(Name[e.workload]) = key /\ res \in DOMAIN calc(e)
                        => owed(e.workload) \in vals
    BY <1>3, <1>5
  <1>9. PerWorkload(found, res, key) = Max(vals)
    BY DEF PerWorkload
  <1>10. PICK f \in found : f.key = key
    OBVIOUS
  <1>11. \E w \in Reporters(es) : WorkloadKey(Name[w]) = key
    BY <1>4, <1>10 DEF Reporters
  <1> HIDE DEF vals
  <1>12. Max(vals) \in vals /\ \A v \in vals : v <= Max(vals)
    BY <1>2, <1>7, MaxBounded
  <1>13. \E w \in Reporters(es) : WorkloadKey(Name[w]) = key /\ Max(vals) <= owed(w)
    <2>1. CASE Max(vals) = 0
      <3>1. PICK w \in Reporters(es) : WorkloadKey(Name[w]) = key
        BY <1>11
      <3> QED BY <1>1, <1>rs, <2>1, <3>1
    <2>2. CASE Max(vals) # 0
      <3>1. PICK w \in Reporters(es) : WorkloadKey(Name[w]) = key /\ Max(vals) = owed(w)
        BY <1>6, <1>12, <2>2
      <3>2. owed(w) <= owed(w)
        BY <1>1, <1>rs
      <3> QED BY <3>1, <3>2
    <2> QED BY <2>1, <2>2
  <1>14. Max(vals) \in Nat
    BY <1>7, <1>12
  <1> QED BY <1>8, <1>9, <1>12, <1>13, <1>14 DEF owed, calc

\* What is owed to each of ws.
OwedTo(ws, res, k, readable, m) == [w \in ws |-> Owed(res, k, w, readable, m)]

\* Each workload of ws has an event that names res, unless nothing is owed.
Reported(ws, res, k, es, readable, m) ==
    \A w \in ws : \E e \in es :
        /\ e.workload = w
        /\ \/ res \in DOMAIN calculateWorkloadDeficit(e, readable, m)
           \/ Owed(res, k, w, readable, m) = 0

\* All workloads together, under one name.
LEMMA TotalFacts ==
    ASSUME NEW limits, NEW es, NEW readable, NEW m, NEW found,
           Scan(limits, es, readable, m, found),
           NEW k \in Resources, NEW res, k \in resolveQuotaKey(limits, res)
    PROVE  /\ Total(found, res) \in Nat
           /\ Total(found, res) <= SumFunction(OwedTo(Reporters(es), res, k, readable, m))
           /\ \A ws \in SUBSET Workloads :
                 SeparateKeys(ws) /\ Reported(ws, res, k, es, readable, m)
                 => SumFunction(OwedTo(ws, res, k, readable, m)) <= Total(found, res)
  <1>0. /\ DOMAIN limits = Resources /\ (\A e \in es : GoodEvent(e))
        /\ m \in [Workloads -> Int] /\ found = Found(es, readable, m)
    BY DEF Scan
  <1> DEFINE keys == {f.key : f \in found}
             P == [key \in keys |-> PerWorkload(found, res, key)]
             rs == Reporters(es)
             O == [w \in rs |-> Owed(res, k, w, readable, m)]
             c == [key \in keys |-> CHOOSE w \in rs :
                      /\ WorkloadKey(Name[w]) = key
                      /\ PerWorkload(found, res, key) <= Owed(res, k, w, readable, m)]
  <1>1. ASSUME NEW key \in keys
        PROVE  /\ PerWorkload(found, res, key) \in Nat
               /\ \E w \in rs :
                     /\ WorkloadKey(Name[w]) = key
                     /\ PerWorkload(found, res, key) <= Owed(res, k, w, readable, m)
               /\ \A e \in es :
                     WorkloadKey(Name[e.workload]) = key
                       /\ res \in DOMAIN calculateWorkloadDeficit(e, readable, m)
                     => Owed(res, k, e.workload, readable, m) <= PerWorkload(found, res, key)
    <2>1. key \in {f.key : f \in found}
      OBVIOUS
    <2> HIDE DEF keys
    <2> QED BY <2>1, PerWorkloadFacts
  <1>2. O \in [rs -> Nat] /\ IsFiniteSet(rs)
    <2>1. rs \subseteq Workloads
      BY <1>0 DEF Reporters, GoodEvent
    <2> HIDE DEF rs
    <2> QED BY <1>0, <2>1, OwedFacts, WorkloadAssumption, FS_Subset
  <1>3. P \in [keys -> Nat]
    BY <1>1
  <1>4. Total(found, res) = SumFunction(P)
    BY DEF Total
  <1>5. \A e \in es : WorkloadKey(Name[e.workload]) \in keys
    <2> TAKE e \in es
    <2> DEFINE f == [key |-> WorkloadKey(Name[e.workload]), evt |-> e,
                     deficits |-> calculateWorkloadDeficit(e, readable, m)]
    <2>1. f \in found
      BY <1>0 DEF Found
    <2>2. f.key = WorkloadKey(Name[e.workload])
      OBVIOUS
    <2> HIDE DEF f
    <2> QED BY <2>1, <2>2
  <1>6. \A key \in keys : /\ c[key] \in rs /\ WorkloadKey(Name[c[key]]) = key
                          /\ P[key] <= O[c[key]]
    BY <1>1
  <1>7. c \in [keys -> rs]
    BY <1>6
  <1>8. \A x, y \in keys : c[x] = c[y] => x = y
    <2> HIDE DEF c, keys
    <2> QED BY <1>6
  <1>9. IsFiniteSet(keys) /\ SumFunction(P) <= SumFunction(O)
    <2> HIDE DEF c, keys, P, O, rs
    <2> QED BY <1>2, <1>3, <1>6, <1>7, <1>8, SumInto
  <1>10. SumFunction(P) \in Nat
    <2> HIDE DEF keys, P
    <2> QED BY <1>3, <1>9, SumNat
  <1>11. ASSUME NEW ws \in SUBSET Workloads, SeparateKeys(ws),
                Reported(ws, res, k, es, readable, m)
         PROVE  SumFunction(OwedTo(ws, res, k, readable, m)) <= SumFunction(P)
    <2> DEFINE f == [w \in ws |-> Owed(res, k, w, readable, m)]
               g == [w \in ws |-> WorkloadKey(Name[w])]
    <2>1. f \in [ws -> Nat]
      BY <1>0, OwedFacts
    <2>2. g \in [ws -> keys]
      BY <1>5, <1>11 DEF Reported
    <2>3. \A x, y \in ws : g[x] = g[y] => x = y
      BY <1>11 DEF SeparateKeys
    <2>4. ASSUME NEW w \in ws PROVE f[w] <= P[g[w]]
      <3>1. PICK e \in es : /\ e.workload = w
                            /\ \/ res \in DOMAIN calculateWorkloadDeficit(e, readable, m)
                               \/ Owed(res, k, w, readable, m) = 0
        BY <1>11 DEF Reported
      <3>2. g[w] \in keys /\ g[w] = WorkloadKey(Name[w]) /\ P[g[w]] = PerWorkload(found, res, g[w])
        BY <2>2
      <3>3. f[w] = Owed(res, k, w, readable, m) /\ P[g[w]] \in Nat
        BY <1>3, <3>2
      <3> HIDE DEF f, g, P, keys
      <3> QED BY <1>1, <3>1, <3>2, <3>3
    <2> HIDE DEF f, g, P, keys
    <2>5. SumFunction(f) <= SumFunction(P)
      BY <1>3, <1>9, <2>1, <2>2, <2>3, <2>4, SumInto
    <2> QED BY <2>5 DEF f, OwedTo
  <1>12. O = OwedTo(Reporters(es), res, k, readable, m)
    BY DEF OwedTo
  <1> HIDE DEF P, O
  <1> QED BY <1>4, <1>9, <1>10, <1>11, <1>12

LEMMA NamesFacts ==
    ASSUME NEW limits, NEW es, NEW readable, NEW m, NEW found,
           Scan(limits, es, readable, m, found), NEW k \in Resources
    PROVE  /\ NamesUnder(limits, found, k) \subseteq {k, LongName(k)}
           /\ \A e \in es : \A res \in DOMAIN calculateWorkloadDeficit(e, readable, m) :
                 k \in resolveQuotaKey(limits, res) => res \in NamesUnder(limits, found, k)
  <1>1. found = Found(es, readable, m)
    BY DEF Scan
  <1>2. ASSUME NEW res \in NamesUnder(limits, found, k) PROVE res \in {k, LongName(k)}
    <2>1. k \in resolveQuotaKey(limits, res) /\ \E f \in found : res \in DOMAIN f.deficits
      BY <1>2 DEF NamesUnder, Names
    <2>2. PICK e \in es : res \in DOMAIN calculateWorkloadDeficit(e, readable, m)
      BY <1>1, <2>1 DEF Found
    <2> QED BY <2>1, <2>2, DeficitValue
  <1>3. ASSUME NEW e \in es, NEW res \in DOMAIN calculateWorkloadDeficit(e, readable, m),
               k \in resolveQuotaKey(limits, res)
        PROVE  res \in NamesUnder(limits, found, k)
    <2> DEFINE f == [key |-> WorkloadKey(Name[e.workload]), evt |-> e,
                     deficits |-> calculateWorkloadDeficit(e, readable, m)]
    <2>1. f \in found /\ f.deficits = calculateWorkloadDeficit(e, readable, m)
      BY <1>1 DEF Found
    <2> HIDE DEF f
    <2>2. res \in Names(found)
      BY <2>1 DEF Names
    <2> QED BY <1>3, <2>2 DEF NamesUnder
  <1> QED BY <1>2, <1>3

\* The deficit of a key is what comes under its two names.
LEMMA CollectSum ==
    ASSUME NEW limits, NEW es, NEW readable, NEW m, NEW found,
           Scan(limits, es, readable, m, found), NEW k \in Resources
    PROVE  LET under == NamesUnder(limits, found, k)
           IN  /\ \A res \in under : Total(found, res) \in Nat
               /\ collectDeficits(limits, es, readable, m)[k] =
                    (IF k \in under THEN Total(found, k) ELSE 0)
                      + (IF LongName(k) \in under THEN Total(found, LongName(k)) ELSE 0)
  <1> DEFINE under == NamesUnder(limits, found, k)
             f == [res \in under |-> Total(found, res)]
  <1>1. \A res \in under : Total(found, res) \in Nat
    <2> TAKE res \in under
    <2>1. k \in resolveQuotaKey(limits, res)
      BY DEF NamesUnder
    <2> QED BY <2>1, TotalFacts
  <1>2. under \in SUBSET {k, LongName(k)} /\ k # LongName(k)
    BY NamesFacts, LongNameFacts
  <1>3. f \in [under -> Nat] /\ \A res \in under : f[res] = Total(found, res)
    BY <1>1
  <1>4. DOMAIN limits = Resources /\ found = Found(es, readable, m)
    BY DEF Scan
  <1>5. collectDeficits(limits, es, readable, m)[k] = SumFunction(f)
    <2>1. collectDeficits(limits, es, readable, m) =
            [l \in DOMAIN limits |->
                SumFunction([res \in NamesUnder(limits, found, l) |-> Total(found, res)])]
      BY <1>4, CollectForm
    <2> QED BY <1>4, <2>1
  <1> HIDE DEF f, under
  <1>6. SumFunction(f) = (IF k \in under THEN f[k] ELSE 0)
                           + (IF LongName(k) \in under THEN f[LongName(k)] ELSE 0)
    BY <1>2, <1>3, SumWithinPair
  <1>7. SumFunction(f) = (IF k \in under THEN Total(found, k) ELSE 0)
                           + (IF LongName(k) \in under THEN Total(found, LongName(k)) ELSE 0)
    BY <1>3, <1>6
  <1> QED BY <1>1, <1>5, <1>7 DEF under

\* At most one share of every workload that has an event.
LEMMA CollectUpper ==
    ASSUME NEW limits, NEW es, NEW readable, NEW m, NEW found,
           Scan(limits, es, readable, m, found), NEW k \in Resources
    PROVE  /\ collectDeficits(limits, es, readable, m)[k] \in Nat
           /\ collectDeficits(limits, es, readable, m)[k]
                <= SumFunction([w \in Reporters(es) |-> Share(k, w, readable, m)])
  <1> DEFINE under == NamesUnder(limits, found, k)
             D == collectDeficits(limits, es, readable, m)[k]
             L == LongName(k)
             rs == Reporters(es)
             O(res) == [w \in rs |-> Owed(res, k, w, readable, m)]
             S == [w \in rs |-> Share(k, w, readable, m)]
             B == [w \in rs |-> O(k)[w] + O(L)[w]]
             part(res) == IF res \in under THEN Total(found, res) ELSE 0
  <1>1. m \in [Workloads -> Int] /\ rs \subseteq Workloads /\ IsFiniteSet(rs)
    <2>1. m \in [Workloads -> Int] /\ rs \subseteq Workloads
      BY DEF Scan, Reporters, GoodEvent
    <2> HIDE DEF rs
    <2> QED BY <2>1, WorkloadAssumption, FS_Subset
  <1> HIDE DEF rs
  <1>2. D = part(k) + part(L) /\ \A res \in under : Total(found, res) \in Nat
    BY CollectSum
  <1>3. \A res : O(res) \in [rs -> Nat]
    BY <1>1, OwedFacts
  <1>4. \A res : SumFunction(O(res)) \in Nat
    <2> HIDE DEF O
    <2> QED BY <1>1, <1>3, SumNat
  <1>5. ASSUME NEW res PROVE part(res) \in Nat /\ part(res) <= SumFunction(O(res))
    <2>1. CASE res \in under
      <3>1. k \in resolveQuotaKey(limits, res)
        BY <2>1 DEF NamesUnder
      <3>2. Total(found, res) \in Nat /\ Total(found, res) <= SumFunction(O(res))
        BY <3>1, TotalFacts DEF rs, OwedTo
      <3> QED BY <2>1, <3>2
    <2>2. CASE res \notin under
      <3> HIDE DEF O
      <3> QED BY <1>4, <2>2
    <2> QED BY <2>1, <2>2
  <1>6. SumFunction(B) = SumFunction(O(k)) + SumFunction(O(L))
    <2> HIDE DEF O
    <2> QED BY <1>1, <1>3, SumAdd
  <1>7. /\ B \in [rs -> Nat] /\ S \in [rs -> Nat]
        /\ \A w \in rs : B[w] <= S[w]
    BY <1>1, OwedFacts
  <1>8. SumFunction(B) <= SumFunction(S) /\ SumFunction(S) \in Nat
    <2> HIDE DEF B, S
    <2> QED BY <1>1, <1>7, SumLeq, SumNat
  <1>9. D \in Nat /\ D <= SumFunction(S)
    <2>1. /\ part(k) \in Nat /\ part(k) <= SumFunction(O(k))
          /\ part(L) \in Nat /\ part(L) <= SumFunction(O(L))
      BY <1>5
    <2>2. SumFunction(O(k)) \in Nat /\ SumFunction(O(L)) \in Nat
      BY <1>4
    <2> HIDE DEF part, O, B, S, D, L
    <2> QED BY <1>2, <1>6, <1>8, <2>1, <2>2
  <1> QED BY <1>9 DEF rs

\* At least what is owed to workloads with keys of their own, when each has an
\* event and its names resolve.
LEMMA CollectLower ==
    ASSUME NEW limits, NEW es, NEW readable, NEW m, NEW found,
           Scan(limits, es, readable, m, found), NEW k \in Resources,
           NEW ws \in SUBSET Workloads, SeparateKeys(ws),
           \A w \in ws, res \in {k, LongName(k)} : \E e \in es :
               /\ e.workload = w
               /\ \/ Owed(res, k, w, readable, m) = 0
                  \/ /\ res \in DOMAIN calculateWorkloadDeficit(e, readable, m)
                     /\ k \in resolveQuotaKey(limits, res)
    PROVE  SumFunction([w \in ws |-> Owed(k, k, w, readable, m)
                                       + Owed(LongName(k), k, w, readable, m)])
             <= collectDeficits(limits, es, readable, m)[k]
  <1> DEFINE under == NamesUnder(limits, found, k)
             D == collectDeficits(limits, es, readable, m)[k]
             L == LongName(k)
             O(res) == [w \in ws |-> Owed(res, k, w, readable, m)]
             B == [w \in ws |-> O(k)[w] + O(L)[w]]
             part(res) == IF res \in under THEN Total(found, res) ELSE 0
  <1>1. m \in [Workloads -> Int] /\ IsFiniteSet(ws)
    BY WorkloadAssumption, FS_Subset DEF Scan
  <1>2. D = part(k) + part(L) /\ \A res \in under : Total(found, res) \in Nat
    BY CollectSum
  <1>3. \A res : O(res) \in [ws -> Nat]
    BY <1>1, OwedFacts
  <1>4. \A res : SumFunction(O(res)) \in Nat
    <2> HIDE DEF O
    <2> QED BY <1>1, <1>3, SumNat
  <1>5. ASSUME NEW res \in {k, L} PROVE SumFunction(O(res)) <= part(res) /\ part(res) \in Nat
    <2>1. CASE res \in under
      <3>1. k \in resolveQuotaKey(limits, res)
        BY <2>1 DEF NamesUnder
      <3>2. Reported(ws, res, k, es, readable, m)
        <4> SUFFICES ASSUME NEW w \in ws
                     PROVE  \E e \in es :
                               /\ e.workload = w
                               /\ \/ res \in DOMAIN calculateWorkloadDeficit(e, readable, m)
                                  \/ Owed(res, k, w, readable, m) = 0
          BY DEF Reported
        <4>1. res \in {k, LongName(k)}
          OBVIOUS
        <4>2. PICK e \in es :
               /\ e.workload = w
               /\ \/ Owed(res, k, w, readable, m) = 0
                  \/ /\ res \in DOMAIN calculateWorkloadDeficit(e, readable, m)
                     /\ k \in resolveQuotaKey(limits, res)
          BY <4>1, Zenon
        <4> QED BY <4>2
      <3>3. SumFunction(OwedTo(ws, res, k, readable, m)) <= Total(found, res)
        BY <3>1, <3>2, TotalFacts
      <3>4. OwedTo(ws, res, k, readable, m) = O(res)
        BY DEF OwedTo
      <3> HIDE DEF O
      <3> QED BY <1>2, <2>1, <3>3, <3>4
    <2>2. CASE res \notin under
      <3>1. \A w \in ws : Owed(res, k, w, readable, m) = 0
        BY <2>2, NamesFacts
      <3>2. O(res) \in [ws -> {0}]
        BY <3>1
      <3>3. SumFunction(O(res)) = 0
        <4> HIDE DEF O
        <4> QED BY <1>1, <3>2, SumZero
      <3> QED BY <2>2, <3>3
    <2> QED BY <2>1, <2>2
  <1>6. SumFunction(B) = SumFunction(O(k)) + SumFunction(O(L))
    <2> HIDE DEF O
    <2> QED BY <1>1, <1>3, SumAdd
  <1>7. B = [w \in ws |-> Owed(k, k, w, readable, m) + Owed(L, k, w, readable, m)]
    OBVIOUS
  <1>8. SumFunction(B) <= D
    <2>1. /\ SumFunction(O(k)) <= part(k) /\ part(k) \in Nat
          /\ SumFunction(O(L)) <= part(L) /\ part(L) \in Nat
      BY <1>5
    <2>2. SumFunction(O(k)) \in Nat /\ SumFunction(O(L)) \in Nat
      BY <1>4
    <2> HIDE DEF part, O, B, D, L
    <2> QED BY <1>2, <1>6, <2>1, <2>2
  <1> HIDE DEF B, D
  <1> QED BY <1>7, <1>8 DEF D

-----------------------------------------------------------------------------
(* What the workloads are charged *)

Counts == [Workloads -> Nat]

LEMMA ChargedFacts ==
    ASSUME NEW n \in Counts, NEW k \in Resources
    PROVE  /\ Charged(n, k) \in Nat
           /\ \A p \in Counts : (\A w \in Workloads : n[w] <= p[w]) => Charged(n, k) <= Charged(p, k)
  <1> DEFINE f(p) == [w \in Workloads |-> p[w] * Charge[w][k]]
  <1>1. \A w \in Workloads : Charge[w][k] \in Nat
    BY ChargeFacts
  <1>2. \A p \in Counts : f(p) \in [Workloads -> Nat]
    BY <1>1 DEF Counts
  <1>3. \A p \in Counts : Charged(p, k) = SumFunction(f(p))
    BY DEF Charged
  <1>4. \A p \in Counts : SumFunction(f(p)) \in Nat
    <2> HIDE DEF f
    <2> QED BY <1>2, SumNat, WorkloadAssumption
  <1>5. ASSUME NEW p \in Counts, \A w \in Workloads : n[w] <= p[w]
        PROVE  SumFunction(f(n)) <= SumFunction(f(p))
    <2>1. \A a, b, c \in Nat : a <= b => a * c <= b * c
      BY MulMono
    <2>2. \A w \in Workloads : f(n)[w] <= f(p)[w]
      BY <1>1, <1>5, <2>1 DEF Counts
    <2> HIDE DEF f
    <2> QED BY <1>2, <2>2, SumLeq, WorkloadAssumption
  <1> HIDE DEF f
  <1> QED BY <1>3, <1>4, <1>5

\* The limit that covers a demand.
Ceiling(k, x) == Quantize(k, larger(WithHeadroom(k, x, MaxInt), MinLimit[k]))

LEMMA CeilingFacts ==
    ASSUME NEW k \in Resources, NEW x \in Nat
    PROVE  /\ Ceiling(k, x) \in Nat
           /\ \A y \in Nat : x <= y => Ceiling(k, x) <= Ceiling(k, y)
           /\ \A t \in Nat : t <= larger(WithHeadroom(k, x, MaxInt), MinLimit[k])
                             => Quantize(k, t) <= Ceiling(k, x) /\ Quantize(k, t) \in Nat
  <1> DEFINE c(y) == larger(WithHeadroom(k, y, MaxInt), MinLimit[k])
  <1>1. MaxInt \in Nat /\ MinLimit[k] \in Nat
    BY SizingAssumption
  <1>2. \A y \in Nat : Exact(k, y) \in Nat
    BY ExactFacts
  <1>3. \A y \in Nat : c(y) \in Nat
    BY <1>1, <1>2 DEF WithHeadroom, toInt64, Exact, larger
  <1>4. \A y \in Nat : x <= y => c(x) <= c(y)
    <2> TAKE y \in Nat
    <2> HAVE x <= y
    <2>1. Exact(k, x) <= Exact(k, y) /\ Exact(k, x) \in Nat /\ Exact(k, y) \in Nat
      BY <1>2, ExactFacts
    <2> QED BY <1>1, <2>1 DEF WithHeadroom, toInt64, Exact, larger
  <1> HIDE DEF c
  <1>5. \A y \in Nat : Ceiling(k, y) = Quantize(k, c(y))
    BY DEF Ceiling, c
  <1>6. Ceiling(k, x) \in Nat
    BY <1>3, <1>5, QuantizeFacts
  <1>7. \A y \in Nat : x <= y => Ceiling(k, x) <= Ceiling(k, y)
    BY <1>3, <1>4, <1>5, QuantizeFacts
  <1>8. \A t \in Nat : t <= c(x) => Quantize(k, t) <= Ceiling(k, x) /\ Quantize(k, t) \in Nat
    BY <1>3, <1>5, QuantizeFacts
  <1> QED BY <1>6, <1>7, <1>8 DEF c

LEMMA AmpleForm ==
    ASSUME NEW k \in Resources
    PROVE  Ample(k) = larger(InitialHard[k], Ceiling(k, demand[k]))
  BY DEF Ample, Ceiling

LEMMA AmpleFacts ==
    ASSUME NEW k \in Resources, demand[k] \in Nat
    PROVE  /\ Ample(k) \in Nat /\ InitialHard[k] <= Ample(k)
           /\ Ceiling(k, demand[k]) <= Ample(k)
  <1>1. Ceiling(k, demand[k]) \in Nat /\ InitialHard[k] \in Nat
    BY CeilingFacts, ShortageAssumption
  <1> QED BY <1>1, AmpleForm DEF larger

LEMMA AmpleGrows ==
    ASSUME NEW k \in Resources, demand[k] \in Nat, demand'[k] \in Nat, demand[k] <= demand'[k]
    PROVE  Ample(k) \in Nat /\ Ample(k)' \in Nat /\ Ample(k) <= Ample(k)'
  <1> DEFINE x == demand[k]
             y == demand'[k]
  <1>1. x \in Nat /\ y \in Nat /\ x <= y
    OBVIOUS
  <1>2. /\ Ample(k) = larger(InitialHard[k], Ceiling(k, x))
        /\ Ample(k)' = larger(InitialHard[k], Ceiling(k, y))
    BY DEF Ample, Ceiling
  <1> HIDE DEF x, y
  <1>3. /\ Ceiling(k, x) \in Nat /\ Ceiling(k, y) \in Nat
        /\ Ceiling(k, x) <= Ceiling(k, y) /\ InitialHard[k] \in Nat
    BY <1>1, CeilingFacts, ShortageAssumption
  <1> QED BY <1>2, <1>3 DEF larger

-----------------------------------------------------------------------------
(* The inductive invariant *)

\* Usage is what Pods and claims are charged, and nothing that is charged and
\* lacking is more than the history remembers.
Accounts ==
    /\ used = Usage /\ demand \in [Resources -> Nat]
    /\ \A k \in Resources : Wanted(k) <= demand[k]

\* Limits and proposals are positive and ample.
Limits ==
    /\ hard \in [Resources -> Nat \ {0}] /\ git \in [Resources -> Nat \ {0}]
    /\ pr = [fate |-> pr.fate, targets |-> pr.targets]
    /\ \A k \in Resources : hard[k] <= Ample(k)
    /\ \A k \in DOMAIN pr.targets : pr.targets[k] \in Nat \ {0}

Messages == \A e \in events : GoodEvent(e)

IInv == TypeOK /\ Accounts /\ Limits /\ Messages /\ NoRunaway

LEMMA Types ==
    ASSUME IInv
    PROVE  /\ desired \in [Workloads -> Int] /\ running \in Counts
           /\ ending \in Counts /\ claimed \in Counts
           /\ missing \in [Workloads -> Int] /\ Resources = DOMAIN hard
           /\ \A w \in Workloads : missing[w] = desired[w] - running[w]
           /\ \A k \in Resources : demand[k] \in Nat
  <1>1. Sizes \cup {0} \subseteq Int
    BY ShortageAssumption
  <1>2. /\ desired \in [Workloads -> Int] /\ running \in Counts
        /\ ending \in Counts /\ claimed \in Counts
    <2>1. /\ desired \in [Workloads -> Sizes \cup {0}] /\ running \in [Workloads -> Nat]
          /\ ending \in [Workloads -> Nat] /\ claimed \in [Workloads -> Nat]
      BY DEF IInv, TypeOK
    <2> QED BY <1>1, <2>1 DEF Counts
  <1>3. hard \in [Resources -> Nat] /\ \A k \in Resources : demand[k] \in Nat
    BY DEF IInv, TypeOK, Accounts
  <1> QED BY <1>2, <1>3 DEF missing, Counts

LEMMA LackingFacts ==
    ASSUME IInv, NEW k \in Resources
    PROVE  /\ [w \in Workloads |-> Lacking(w)] \in Counts
           /\ Charged([w \in Workloads |-> Lacking(w)], k) \in Nat
           /\ used[k] \in Nat /\ Wanted(k) \in Nat
  <1> DEFINE n == [w \in Workloads |-> Lacking(w)]
  <1>1. n \in Counts
    BY Types DEF Lacking, Counts
  <1>2. used[k] \in Nat /\ Wanted(k) = used[k] + Charged(n, k)
    BY DEF IInv, TypeOK, Wanted
  <1> HIDE DEF n
  <1>3. Charged(n, k) \in Nat
    BY <1>1, ChargedFacts
  <1> QED BY <1>1, <1>2, <1>3 DEF n

\* Ample depends on the history only.
LEMMA AmpleSame ==
    ASSUME demand' = demand, NEW k PROVE Ample(k)' = Ample(k)
  BY DEF Ample

LEMMA LimitsSame ==
    ASSUME Limits, NoRunaway, UNCHANGED <<hard, git, pr, demand>>
    PROVE  Limits' /\ NoRunaway'
  BY AmpleSame DEF Limits, NoRunaway

\* Events that come from workloads which lack replicas, or go, add no demand.
LEMMA AccountsSame ==
    ASSUME IInv, UNCHANGED <<cluster, used, demand>>,
           \A e \in events' : e \in events \/ missing[e.workload] > 0
    PROVE  Accounts'
  <1>0. UNCHANGED <<desired, running, ending, claimed>>
    BY DEF cluster
  <1> DEFINE n == [w \in Workloads |-> Lacking(w)]
             p == [w \in Workloads |-> Lacking(w)']
  <1>1. missing' = missing /\ missing \in [Workloads -> Int]
    BY <1>0, Types DEF missing
  <1>2. n \in Counts /\ p \in Counts /\ \A w \in Workloads : p[w] <= n[w]
    BY <1>1 DEF Lacking, Counts
  <1> HIDE DEF n, p
  <1>3. ASSUME NEW k \in Resources PROVE Wanted(k)' <= demand'[k]
    <2>1. Charged(p, k) \in Nat /\ Charged(n, k) \in Nat /\ Charged(p, k) <= Charged(n, k)
      BY <1>2, ChargedFacts
    <2>2. Wanted(k) = used[k] + Charged(n, k) /\ Wanted(k)' = used[k] + Charged(p, k)
      BY DEF Wanted, Charged, n, p
    <2>3. used[k] \in Nat /\ Wanted(k) <= demand[k] /\ demand[k] \in Nat
      BY DEF IInv, TypeOK, Accounts
    <2> QED BY <2>1, <2>2, <2>3
  <1>4. used' = Usage'
    BY <1>0 DEF IInv, Accounts, Usage, Held, Charged
  <1> QED BY <1>3, <1>4 DEF IInv, Accounts

LEMMA MessagesSame ==
    ASSUME Messages, events' \subseteq events
    PROVE  Messages'
  BY DEF Messages

\* However the scan fails, usage and the deficit it finds stay within what is
\* charged and lacking.
LEMMA ScanFacts ==
    ASSUME IInv, NEW seen, seen \subseteq events, NEW readable, NEW k \in Resources,
           NEW in, in = input(seen, readable)
    PROVE  /\ in.hard = hard /\ in.used = used /\ in.peak[k] = 0
           /\ in.used[k] \in Nat /\ in.deficit[k] \in Nat
           /\ in.used[k] + in.deficit[k] <= Wanted(k)
           /\ Wanted(k) \in Nat /\ Wanted(k) <= demand[k] /\ demand[k] \in Nat
  <1> DEFINE es == {e \in seen : isObjectAlive(e.workload)}
             D == collectDeficits(hard, es, readable, missing)
             rs == Reporters(es)
             share == [w \in rs |-> Share(k, w, readable, missing)]
             all == [w \in Workloads |-> Lacking(w) * Charge[w][k]]
             id == [w \in rs |-> w]
  <1>1. missing \in [Workloads -> Int] /\ Resources = DOMAIN hard
    BY Types
  <1>2. in.hard = hard /\ in.used = used /\ in.peak[k] = 0 /\ in.deficit[k] = D[k]
    BY DEF input
  <1>3. Scan(hard, es, readable, missing, Found(es, readable, missing))
    BY <1>1 DEF Scan, IInv, Messages
  <1>4. D[k] \in Nat /\ D[k] <= SumFunction(share)
    BY <1>3, CollectUpper
  <1>5. Wanted(k) = used[k] + SumFunction(all)
    BY DEF Wanted, Charged
  <1>6. rs \subseteq Workloads /\ \A w \in rs : \E e \in events : e.workload = w
    BY DEF Reporters, IInv, Messages, GoodEvent
  <1>7. \A w \in Workloads : Lacking(w) \in Nat /\ Charge[w][k] \in Nat
    BY <1>1, ChargeFacts DEF Lacking
  <1> HIDE DEF rs, es, D
  <1>8. share \in [rs -> Nat] /\ all \in [Workloads -> Nat] /\ id \in [rs -> Workloads]
    BY <1>1, <1>6, <1>7, OwedFacts
  <1>9. \A w \in rs : share[w] <= all[id[w]]
    <2> TAKE w \in rs
    <2> DEFINE c == Charge[w][k]
               n == Lacking(w)
    <2>1. c \in Nat /\ n \in Nat /\ n >= 1 /\ (missing[w] > 0 => n = missing[w])
      BY <1>1, <1>6, <1>7 DEF Lacking
    <2>2. (share[w] = missing[w] * c /\ missing[w] > 0) \/ share[w] = c
      BY DEF Share, FromTemplate
    <2>3. all[id[w]] = n * c
      BY <1>6
    <2> HIDE DEF c, n, share, all, id
    <2>4. c <= n * c
      <3>1. 1 * c <= n * c
        BY <2>1, MulMono
      <3> QED BY <2>1, <3>1
    <2>5. n * c \in Nat
      BY <2>1
    <2> QED BY <2>1, <2>2, <2>3, <2>4, <2>5
  <1>10. \A x, y \in rs : id[x] = id[y] => x = y
    OBVIOUS
  <1> HIDE DEF share, all, id
  <1>11. IsFiniteSet(rs) /\ SumFunction(share) <= SumFunction(all)
    BY <1>8, <1>9, <1>10, SumInto, WorkloadAssumption
  <1>12. SumFunction(share) \in Nat /\ SumFunction(all) \in Nat
    BY <1>8, <1>11, SumNat, WorkloadAssumption
  <1>13. used[k] \in Nat /\ Wanted(k) <= demand[k] /\ demand[k] \in Nat
    BY DEF IInv, TypeOK, Accounts
  <1> QED BY <1>2, <1>4, <1>5, <1>11, <1>12, <1>13

\* What a reconcile proposes is positive and ample.
LEMMA DecisionFacts ==
    ASSUME IInv, NEW seen, seen \subseteq events, NEW readable,
           NEW d, d = decision(input(seen, readable))
    PROVE  /\ DOMAIN d.targets \subseteq Resources
           /\ \A k \in DOMAIN d.targets : d.targets[k] \in Nat \ {0} /\ d.targets[k] <= Ample(k)
  <1> DEFINE in == input(seen, readable)
  <1>1. /\ DOMAIN d.targets = {r \in Resources : Measurable(in, r) /\ Grows(in, r, Build)}
        /\ \A r \in DOMAIN d.targets : d.targets[r] = Quantize(r, targetFor(in, r, Build))
    BY OnlyGrowth DEF decision
  <1>2. ASSUME NEW k \in DOMAIN d.targets
        PROVE  d.targets[k] \in Nat \ {0} /\ d.targets[k] <= Ample(k)
    <2> DEFINE bound == demand[k]
               t == targetFor(in, k, Build)
    <2>1. k \in Resources /\ Grows(in, k, Build) /\ d.targets[k] = Quantize(k, t)
      BY <1>1
    <2>2. /\ in.hard = hard /\ in.peak[k] = 0 /\ in.used[k] \in Nat /\ in.deficit[k] \in Nat
          /\ in.used[k] + in.deficit[k] <= bound
      <3>1. /\ in.used[k] + in.deficit[k] <= Wanted(k) /\ Wanted(k) \in Nat
            /\ Wanted(k) <= bound /\ bound \in Nat
            /\ in.hard = hard /\ in.peak[k] = 0 /\ in.used[k] \in Nat /\ in.deficit[k] \in Nat
        BY <2>1, ScanFacts
      <3> HIDE DEF in, bound
      <3> QED BY <3>1
    <2>3. bound \in Nat /\ Ceiling(k, bound) <= Ample(k) /\ Ample(k) \in Nat
      BY <2>1, Types, AmpleFacts
    <2>4. Build \in Builds
      BY ShortageAssumption
    <2> HIDE DEF in, bound
    <2>5. t \in Nat /\ t <= larger(WithHeadroom(k, bound, MaxInt), MinLimit[k])
      BY <2>1, <2>2, <2>3, <2>4, TargetCeiling
    <2>6. Quantize(k, t) > hard[k] /\ hard[k] \in Nat
      BY <2>1, <2>2 DEF Grows, IInv, TypeOK
    <2> HIDE DEF t
    <2>7. /\ Quantize(k, t) <= Ceiling(k, bound) /\ Quantize(k, t) \in Nat
          /\ Ceiling(k, bound) \in Nat
      BY <2>1, <2>3, <2>5, CeilingFacts
    <2> QED BY <2>1, <2>3, <2>6, <2>7
  <1> QED BY <1>1, <1>2

LEMMA InitIInv == Init => IInv
  <1> SUFFICES ASSUME Init PROVE IInv
    OBVIOUS
  <1>1. /\ desired = [w \in Workloads |-> 0] /\ running = [w \in Workloads |-> 0]
        /\ ending = [w \in Workloads |-> 0] /\ claimed = [w \in Workloads |-> 0]
        /\ used = [k \in Resources |-> 0] /\ demand = [k \in Resources |-> 0]
        /\ hard = InitialHard /\ git = InitialHard /\ pr = NoPR /\ events = {}
        /\ queued = FALSE /\ cooling = FALSE /\ moves = 0 /\ faults = 0
    BY DEF Init
  <1>2. InitialHard \in [Resources -> Nat \ {0}] /\ MaxMoves \in Nat /\ MaxFaults \in Nat
    BY ShortageAssumption
  <1>3. pr.fate = "none" /\ DOMAIN pr.targets = {} /\ pr = [fate |-> pr.fate, targets |-> pr.targets]
    BY <1>1 DEF NoPR
  <1>4. TypeOK
    <2>1. /\ desired \in [Workloads -> Sizes \cup {0}] /\ running \in [Workloads -> Nat]
          /\ ending \in [Workloads -> Nat] /\ claimed \in [Workloads -> Nat]
      BY <1>1
    <2>2. /\ used \in [Resources -> Nat] /\ hard \in [Resources -> Nat]
          /\ git \in [Resources -> Nat]
      BY <1>1, <1>2
    <2>3. moves \in 0 .. MaxMoves /\ faults \in 0 .. MaxFaults
      BY <1>1, <1>2
    <2>4. /\ queued \in BOOLEAN /\ cooling \in BOOLEAN
          /\ \A e \in events : e.workload \in Workloads /\ DOMAIN e.requested # {}
      BY <1>1
    <2>5. pr.fate \in {"none", "open", "merged"} /\ DOMAIN pr.targets \subseteq Resources
      BY <1>3
    <2> QED BY <2>1, <2>2, <2>3, <2>4, <2>5 DEF TypeOK
  <1>5. demand \in [Resources -> Nat]
    BY <1>1
  <1>6. Accounts
    <2> DEFINE zero == [w \in Workloads |-> 0]
    <2>1. ASSUME NEW k \in Resources PROVE Charged(zero, k) = 0
      <3> DEFINE f == [w \in Workloads |-> zero[w] * Charge[w][k]]
      <3>1. f \in [Workloads -> {0}]
        BY ChargeFacts
      <3>2. Charged(zero, k) = SumFunction(f)
        BY DEF Charged
      <3> HIDE DEF f
      <3> QED BY <3>1, <3>2, SumZero, WorkloadAssumption
    <2>2. /\ \A k \in Resources : Held(k) = zero
          /\ [w \in Workloads |-> Lacking(w)] = zero
      BY <1>1 DEF Held, Lacking, missing
    <2> HIDE DEF zero
    <2>3. used = Usage
      BY <1>1, <2>1, <2>2 DEF Usage
    <2>4. \A k \in Resources : Wanted(k) <= demand[k]
      BY <1>1, <2>1, <2>2 DEF Wanted
    <2> QED BY <1>5, <2>3, <2>4 DEF Accounts
  <1>7. \A k \in Resources : InitialHard[k] <= Ample(k)
    BY <1>5, AmpleFacts
  <1>8. Limits /\ NoRunaway
    BY <1>1, <1>2, <1>3, <1>7 DEF Limits, NoRunaway
  <1>9. Messages
    BY <1>1 DEF Messages
  <1> QED BY <1>4, <1>6, <1>8, <1>9 DEF IInv

-----------------------------------------------------------------------------
(* One lemma per action *)

\* Whatever happens to Pods and claims, the usage follows and the history keeps
\* up with it.
LEMMA AccountStep ==
    ASSUME IInv, Account, desired' \in [Workloads -> Sizes \cup {0}],
           running' \in Counts, ending' \in Counts, claimed' \in Counts,
           UNCHANGED <<hard, git, pr, events, queued, cooling, faults>>, moves' \in 0 .. MaxMoves
    PROVE  IInv'
  <1> DEFINE held(k) == Held(k)'
             lacking == [w \in Workloads |-> Lacking(w)']
  <1>1. \A k \in Resources : held(k) \in Counts
    BY DEF Held, Counts
  <1>2. lacking \in Counts
    <2>1. Sizes \cup {0} \subseteq Int
      BY ShortageAssumption
    <2>2. \A w \in Workloads : missing'[w] = desired'[w] - running'[w] /\ missing'[w] \in Int
      BY <2>1 DEF missing, Counts
    <2> QED BY <2>2 DEF Lacking, Counts
  <1>3. used' = [k \in Resources |-> Charged(held(k), k)]
    BY DEF Account, Usage, Charged
  <1>4. \A k \in Resources : Wanted(k)' = used'[k] + Charged(lacking, k)
    BY DEF Wanted, Charged
  <1> HIDE DEF held, lacking
  <1>5. used' \in [Resources -> Nat]
    BY <1>1, <1>3, ChargedFacts
  <1>6. \A k \in Resources : Wanted(k)' \in Nat
    <2> TAKE k \in Resources
    <2>1. Charged(lacking, k) \in Nat /\ used'[k] \in Nat
      BY <1>2, <1>5, ChargedFacts
    <2> QED BY <1>4, <2>1
  <1>7. /\ demand' \in [Resources -> Nat]
        /\ \A k \in Resources : Wanted(k)' <= demand'[k] /\ demand[k] <= demand'[k]
    <2>1. demand' = [k \in Resources |-> larger(demand[k], Wanted(k)')]
      BY DEF Account
    <2>2. \A k \in Resources : /\ larger(demand[k], Wanted(k)') \in Nat
                               /\ larger(demand[k], Wanted(k)') >= demand[k]
                               /\ larger(demand[k], Wanted(k)') >= Wanted(k)'
      BY <1>6, Types DEF larger
    <2> QED BY <2>1, <2>2
  <1>8. Accounts'
    <2>1. used' = Usage'
      BY DEF Account
    <2> QED BY <1>7, <2>1 DEF Accounts
  <1>9. TypeOK'
    BY <1>5 DEF IInv, TypeOK, Counts
  <1>10. \A k \in Resources : Ample(k) \in Nat /\ Ample(k)' \in Nat /\ Ample(k) <= Ample(k)'
    BY <1>7, Types, AmpleGrows
  <1>11. Limits' /\ NoRunaway'
    <2>1. \A x, a, b \in Nat : x <= a /\ a <= b => x <= b
      OBVIOUS
    <2>2. Limits'
      BY <1>10, <2>1 DEF IInv, Limits
    <2>3. NoRunaway'
      BY <1>10, <2>1 DEF IInv, NoRunaway, Limits
    <2> QED BY <2>2, <2>3
  <1>12. Messages'
    BY MessagesSame DEF IInv
  <1> QED BY <1>8, <1>9, <1>11, <1>12 DEF IInv

LEMMA CreateClaimsStep ==
    ASSUME IInv, NEW w \in Workloads, CreateClaims(w) PROVE IInv'
  <1>1. claimed' = [claimed EXCEPT ![w] = claimed[w] + 1] /\ claimed \in Counts
    BY Types DEF CreateClaims
  <1>2. claimed' \in Counts
    BY <1>1 DEF Counts
  <1> QED BY <1>2, Types, AccountStep DEF CreateClaims, IInv, TypeOK

LEMMA StartPodStep ==
    ASSUME IInv, NEW w \in Workloads, StartPod(w) PROVE IInv'
  <1>1. running' = [running EXCEPT ![w] = running[w] + 1] /\ running \in Counts
    BY Types DEF StartPod
  <1>2. running' \in Counts
    BY <1>1 DEF Counts
  <1> QED BY <1>2, Types, AccountStep DEF StartPod, IInv, TypeOK

LEMMA ScaleStep ==
    ASSUME IInv, NEW w \in Workloads, NEW n \in Sizes, Scale(w, n) PROVE IInv'
  <1>1. running \in Counts /\ ending \in Counts /\ claimed \in Counts
    BY Types
  <1>2. /\ moves < MaxMoves /\ moves' = moves + 1
        /\ desired' = [desired EXCEPT ![w] = n]
        /\ running' = [running EXCEPT ![w] = Min({running[w], Max({n, 0})})]
        /\ ending' = [ending EXCEPT ![w] = ending[w] + running[w] - running'[w]]
        /\ UNCHANGED <<claimed, hard, git, pr, events, queued, cooling, faults>>
        /\ Account
    BY DEF Scale
  <1>3. n \in Int /\ running[w] \in Nat /\ ending[w] \in Nat
    BY <1>1, ShortageAssumption DEF Counts
  <1> DEFINE a == Max({n, 0})
             r == Min({running[w], a})
  <1>4. a \in Nat
    <2>1. a \in {n, 0} /\ a >= 0
      <3>1. \A x, y \in Int : Max({x, y}) \in {x, y} /\ Max({x, y}) >= y
        BY PairFacts
      <3>2. n \in Int /\ 0 \in Int
        BY <1>3
      <3> QED BY <3>1, <3>2
    <2> HIDE DEF a
    <2> QED BY <1>3, <2>1
  <1>5. r \in Nat /\ r <= running[w]
    <2> HIDE DEF a
    <2>1. r \in {running[w], a} /\ r <= running[w]
      <3>1. \A x, y \in Int : Min({x, y}) \in {x, y} /\ Min({x, y}) <= x
        BY PairFacts
      <3>2. running[w] \in Int /\ a \in Int
        BY <1>3, <1>4
      <3> QED BY <3>1, <3>2
    <2> HIDE DEF r
    <2> QED BY <1>3, <1>4, <2>1
  <1> HIDE DEF a, r
  <1>6. running' = [running EXCEPT ![w] = r]
    BY <1>2 DEF a, r
  <1>7. running' \in Counts /\ running'[w] = r
    BY <1>1, <1>5, <1>6 DEF Counts
  <1>8. ending' \in Counts
    <2>1. ending[w] + running[w] - running'[w] \in Nat
      BY <1>3, <1>5, <1>7
    <2> QED BY <1>1, <1>2, <2>1 DEF Counts
  <1>9. desired' \in [Workloads -> Sizes \cup {0}] /\ moves' \in 0 .. MaxMoves
    BY <1>2, ShortageAssumption DEF IInv, TypeOK
  <1> QED BY <1>1, <1>2, <1>7, <1>8, <1>9, AccountStep

LEMMA EvictStep ==
    ASSUME IInv, NEW w \in Workloads, Evict(w) PROVE IInv'
  <1>1. /\ running[w] > 0 /\ running' = [running EXCEPT ![w] = running[w] - 1]
        /\ ending' = [ending EXCEPT ![w] = ending[w] + 1]
        /\ running \in Counts /\ ending \in Counts
    BY Types DEF Evict
  <1>2. running' \in Counts /\ ending' \in Counts
    BY <1>1 DEF Counts
  <1>3. moves' \in 0 .. MaxMoves
    BY ShortageAssumption DEF Evict, IInv, TypeOK
  <1> QED BY <1>2, <1>3, Types, AccountStep DEF Evict, IInv, TypeOK

LEMMA PodGoneStep ==
    ASSUME IInv, NEW w \in Workloads, PodGone(w) PROVE IInv'
  <1>1. ending[w] > 0 /\ ending' = [ending EXCEPT ![w] = ending[w] - 1] /\ ending \in Counts
    BY Types DEF PodGone
  <1>2. ending' \in Counts
    BY <1>1 DEF Counts
  <1> QED BY <1>2, Types, AccountStep DEF PodGone, IInv, TypeOK

LEMMA ReleaseClaimsStep ==
    ASSUME IInv, NEW w \in Workloads, ReleaseClaims(w) PROVE IInv'
  <1>1. /\ claimed[w] > running[w] + ending[w] /\ claimed' = [claimed EXCEPT ![w] = claimed[w] - 1]
        /\ claimed \in Counts /\ running \in Counts /\ ending \in Counts
    BY Types DEF ReleaseClaims
  <1>2. claimed' \in Counts
    BY <1>1 DEF Counts
  <1>3. moves' \in 0 .. MaxMoves
    BY ShortageAssumption DEF ReleaseClaims, IInv, TypeOK
  <1> QED BY <1>2, <1>3, Types, AccountStep DEF ReleaseClaims, IInv, TypeOK

LEMMA EventStep ==
    ASSUME IInv, NEW w \in Workloads, mapEventToQuota(w) PROVE IInv'
  <1>1. /\ missing[w] > 0 /\ Exceeded(w) # {} /\ queued' = TRUE
        /\ events' = events \cup {FailedCreate(w)}
        /\ UNCHANGED <<cluster, used, hard, git, pr, cooling, moves, faults, demand>>
    BY DEF mapEventToQuota
  <1> DEFINE e == FailedCreate(w)
  <1>2. /\ e.workload = w /\ DOMAIN e.requested = Exceeded(w)
        /\ \A k \in Exceeded(w) : e.requested[k] = Charge[w][k]
    BY DEF FailedCreate
  <1>3. \A k \in Exceeded(w) : k \in Resources /\ Charge[w][k] > 0
    BY DEF Exceeded, AskedFor
  <1> HIDE DEF e
  <1>4. GoodEvent(e)
    BY <1>1, <1>2, <1>3 DEF GoodEvent
  <1>5. Messages'
    BY <1>1, <1>4 DEF IInv, Messages, e
  <1>6. TypeOK'
    <2>1. \A x \in events' : x.workload \in Workloads /\ DOMAIN x.requested # {}
      BY <1>1, <1>4 DEF IInv, TypeOK, GoodEvent, e
    <2> QED BY <1>1, <2>1 DEF IInv, TypeOK, cluster
  <1>7. \A x \in events' : x \in events \/ missing[x.workload] > 0
    BY <1>1, <1>2 DEF e
  <1>8. Accounts' /\ Limits' /\ NoRunaway'
    BY <1>1, <1>7, AccountsSame, LimitsSame DEF IInv
  <1> QED BY <1>5, <1>6, <1>8 DEF IInv

LEMMA EventAgesStep ==
    ASSUME IInv, NEW e \in events, EventAges(e) PROVE IInv'
  <1>1. /\ events' \subseteq events
        /\ UNCHANGED <<cluster, used, hard, git, pr, queued, cooling, moves, faults, demand>>
    BY DEF EventAges
  <1>2. TypeOK'
    BY <1>1 DEF IInv, TypeOK, cluster
  <1> QED BY <1>1, <1>2, AccountsSame, LimitsSame, MessagesSame DEF IInv

LEMMA MergeStep ==
    ASSUME IInv, Merge PROVE IInv'
  <1>1. /\ git' = applyChanges(git, pr.targets) /\ pr' = [pr EXCEPT !.fate = "merged"]
        /\ UNCHANGED <<cluster, used, hard, events, queued, cooling, moves, faults, demand>>
    BY DEF Merge
  <1>2. /\ git \in [Resources -> Nat \ {0}] /\ DOMAIN pr.targets \subseteq Resources
        /\ pr = [fate |-> pr.fate, targets |-> pr.targets]
    BY DEF IInv, TypeOK, Limits
  <1>3. pr' = [fate |-> "merged", targets |-> pr.targets]
    BY <1>1, <1>2
  <1> DEFINE bound == [k \in Resources |-> Ample(k)]
  <1>4. /\ \A k \in DOMAIN git : git[k] \in Nat \ {0} /\ git[k] <= bound[k]
        /\ \A k \in DOMAIN pr.targets : pr.targets[k] \in Nat \ {0} /\ pr.targets[k] <= bound[k]
    BY <1>2 DEF IInv, Limits, NoRunaway
  <1>5. \A k \in Resources : bound[k] = Ample(k)
    OBVIOUS
  <1> HIDE DEF bound
  <1>6. /\ git' = [k \in DOMAIN git \cup DOMAIN pr.targets |-> git'[k]]
        /\ DOMAIN git' = DOMAIN git \cup DOMAIN pr.targets
        /\ \A k \in DOMAIN git' : git'[k] \in Nat \ {0} /\ git'[k] <= bound[k]
    BY <1>1, <1>4 DEF applyChanges
  <1>7. git' \in [Resources -> Nat \ {0}] /\ \A k \in Resources : git'[k] <= Ample(k)
    <2>1. DOMAIN git \cup DOMAIN pr.targets = Resources
      BY <1>2
    <2> QED BY <1>5, <1>6, <2>1
  <1>8. \A k \in Resources : Ample(k)' = Ample(k)
    BY <1>1, AmpleSame
  <1>9. Limits' /\ NoRunaway'
    BY <1>1, <1>2, <1>3, <1>7, <1>8 DEF IInv, Limits, NoRunaway
  <1>10. TypeOK'
    <2>1. git' \in [Resources -> Nat]
      BY <1>7
    <2>2. pr'.fate = "merged" /\ pr'.targets = pr.targets
      BY <1>3
    <2> QED BY <1>1, <2>1, <2>2 DEF IInv, TypeOK, cluster
  <1> QED BY <1>1, <1>9, <1>10, AccountsSame, MessagesSame DEF IInv

LEMMA SyncStep ==
    ASSUME IInv, Sync PROVE IInv'
  <1>1. /\ hard' = git /\ queued' = TRUE
        /\ UNCHANGED <<cluster, used, git, pr, events, cooling, moves, faults, demand>>
    BY DEF Sync
  <1>2. \A k \in Resources : Ample(k)' = Ample(k)
    BY <1>1, AmpleSame
  <1>3. TypeOK'
    BY <1>1 DEF IInv, TypeOK, cluster
  <1>4. Limits' /\ NoRunaway'
    BY <1>1, <1>2 DEF IInv, Limits, NoRunaway
  <1> QED BY <1>1, <1>3, <1>4, AccountsSame, MessagesSame DEF IInv

LEMMA RecordStep ==
    ASSUME IInv, Record PROVE IInv'
  <1>1. /\ pr' = NoPR /\ events' = {} /\ cooling' = TRUE
        /\ UNCHANGED <<cluster, used, hard, git, queued, moves, faults, demand>>
    BY DEF Record
  <1>2. /\ pr'.fate = "none" /\ DOMAIN pr'.targets = {}
        /\ pr' = [fate |-> pr'.fate, targets |-> pr'.targets]
    BY <1>1 DEF NoPR
  <1>3. \A k \in Resources : Ample(k)' = Ample(k)
    BY <1>1, AmpleSame
  <1>4. TypeOK'
    BY <1>1, <1>2 DEF IInv, TypeOK, cluster
  <1>5. Limits' /\ NoRunaway'
    BY <1>1, <1>2, <1>3 DEF IInv, Limits, NoRunaway
  <1> QED BY <1>1, <1>4, <1>5, AccountsSame, MessagesSame DEF IInv

LEMMA CooldownStep ==
    ASSUME IInv, CooldownEnds PROVE IInv'
  <1>1. /\ cooling' = FALSE /\ queued' = TRUE
        /\ UNCHANGED <<cluster, used, hard, git, pr, events, moves, faults, demand>>
    BY DEF CooldownEnds
  <1>2. TypeOK'
    BY <1>1 DEF IInv, TypeOK, cluster
  <1> QED BY <1>1, <1>2, AccountsSame, LimitsSame, MessagesSame DEF IInv

LEMMA ReconcileStep ==
    ASSUME IInv, NEW seen, seen \subseteq events, NEW readable, Reconcile(seen, readable)
    PROVE  IInv'
  <1> DEFINE d == decision(input(seen, readable))
             bound == [k \in Resources |-> Ample(k)]
  <1>1. /\ queued' = FALSE /\ (faults' = faults \/ (faults < MaxFaults /\ faults' = faults + 1))
        /\ UNCHANGED <<cluster, used, hard, git, events, cooling, moves, demand>>
        /\ \/ pr' = [fate |-> "open", targets |-> d.targets]
           \/ pr.fate = "open" /\ pr' = [pr EXCEPT !.targets = applyChanges(pr.targets, d.targets)]
           \/ pr' = pr
    BY DEF Reconcile
  <1>2. /\ DOMAIN d.targets \subseteq Resources
        /\ \A k \in DOMAIN d.targets : d.targets[k] \in Nat \ {0} /\ d.targets[k] <= Ample(k)
    BY DecisionFacts
  <1> HIDE DEF d
  <1>3. /\ DOMAIN pr.targets \subseteq Resources
        /\ pr = [fate |-> pr.fate, targets |-> pr.targets]
        /\ \A k \in DOMAIN pr.targets : pr.targets[k] \in Nat \ {0} /\ pr.targets[k] <= Ample(k)
    BY DEF IInv, TypeOK, Limits, NoRunaway
  <1>4. /\ pr'.fate \in {"none", "open", "merged"} /\ DOMAIN pr'.targets \subseteq Resources
        /\ pr' = [fate |-> pr'.fate, targets |-> pr'.targets]
        /\ \A k \in DOMAIN pr'.targets : pr'.targets[k] \in Nat \ {0} /\ pr'.targets[k] <= Ample(k)
    <2>1. CASE pr' = [fate |-> "open", targets |-> d.targets]
      BY <1>2, <2>1
    <2>2. CASE pr.fate = "open" /\ pr' = [pr EXCEPT !.targets = applyChanges(pr.targets, d.targets)]
      <3> DEFINE a == applyChanges(pr.targets, d.targets)
      <3>1. pr' = [fate |-> "open", targets |-> a]
        BY <1>3, <2>2
      <3>2. \A k \in Resources : bound[k] = Ample(k)
        OBVIOUS
      <3> HIDE DEF a, bound
      <3>3. /\ DOMAIN a = DOMAIN pr.targets \cup DOMAIN d.targets
            /\ \A k \in DOMAIN a : a[k] \in Nat \ {0} /\ a[k] <= bound[k]
        BY <1>2, <1>3, <3>2 DEF a, applyChanges
      <3> QED BY <1>2, <1>3, <3>1, <3>2, <3>3
    <2>3. CASE pr' = pr
      <3>1. pr.fate \in {"none", "open", "merged"}
        BY DEF IInv, TypeOK, cluster
      <3> QED BY <1>3, <2>3, <3>1
    <2> QED BY <1>1, <2>1, <2>2, <2>3
  <1>5. \A k \in Resources : Ample(k)' = Ample(k)
    BY <1>1, AmpleSame
  <1>6. TypeOK'
    <2>1. faults' \in 0 .. MaxFaults
      BY <1>1, ShortageAssumption DEF IInv, TypeOK, cluster
    <2> QED BY <1>1, <1>4, <2>1 DEF IInv, TypeOK, cluster
  <1>7. Limits' /\ NoRunaway'
    BY <1>1, <1>4, <1>5 DEF IInv, Limits, NoRunaway
  <1> QED BY <1>1, <1>6, <1>7, AccountsSame, MessagesSame DEF IInv

LEMMA NextIInv == IInv /\ [Next]_vars => IInv'
  <1> SUFFICES ASSUME IInv, [Next]_vars PROVE IInv'
    OBVIOUS
  <1>1. ASSUME NEW w \in Workloads, CreateClaims(w) \/ StartPod(w) \/ mapEventToQuota(w) PROVE IInv'
    BY <1>1, CreateClaimsStep, StartPodStep, EventStep
  <1>2. ASSUME NEW w \in Workloads, Evict(w) \/ PodGone(w) \/ ReleaseClaims(w) PROVE IInv'
    BY <1>2, EvictStep, PodGoneStep, ReleaseClaimsStep
  <1>3. ASSUME NEW w \in Workloads, NEW n \in Sizes, Scale(w, n) PROVE IInv'
    BY <1>3, ScaleStep
  <1>4. ASSUME NEW e \in events, EventAges(e) PROVE IInv'
    BY <1>4, EventAgesStep
  <1>5. ASSUME NEW seen, seen \subseteq events, NEW readable, Reconcile(seen, readable) PROVE IInv'
    BY <1>5, ReconcileStep
  <1>6. \/ \E seen \in SUBSET events : Reconcile(seen, Workloads)
        \/ \E w \in Workloads : Reconcile(events, Workloads \ {w})
        => IInv'
    BY <1>5
  <1>7. CASE UNCHANGED vars
    <2>1. UNCHANGED <<cluster, used, hard, git, pr, events, queued, cooling, moves, faults, demand>>
      BY <1>7 DEF vars
    <2>2. TypeOK'
      BY <2>1 DEF IInv, TypeOK, cluster
    <2>3. events' \subseteq events
      BY <2>1
    <2> QED BY <2>1, <2>2, <2>3, AccountsSame, LimitsSame, MessagesSame DEF IInv
  <1> QED BY <1>1, <1>2, <1>3, <1>4, <1>6, <1>7, MergeStep, SyncStep, RecordStep, CooldownStep
          DEF Next

-----------------------------------------------------------------------------
(* The theorems *)

\* Every variable keeps its type: whatever fails and in whatever order, a
\* proposal names keys of the quota only, and every FailedCreate event that
\* counts names a key that was exceeded.
THEOREM ShortageTypeCorrect == Spec => []TypeOK
  <1>1. Init => IInv
    BY InitIInv
  <1>2. IInv /\ [Next]_vars => IInv'
    BY NextIInv
  <1>3. IInv => TypeOK
    BY DEF IInv
  <1> QED BY <1>1, <1>2, <1>3, PTL DEF Spec

\* However often Pods and claims are refused, Pods take their time to go, claims
\* outlive them and scans fail, and whatever overflows, no limit merged or
\* proposed is above what was charged and lacking at one time, with headroom.
THEOREM NoLimitRunsAway == Spec => []NoRunaway
  <1>1. Init => IInv
    BY InitIInv
  <1>2. IInv /\ [Next]_vars => IInv'
    BY NextIInv
  <1>3. IInv => NoRunaway
    BY DEF IInv
  <1> QED BY <1>1, <1>2, <1>3, PTL DEF Spec

-----------------------------------------------------------------------------
(* A burst of workloads *)

\* The quota limits no extended resource.
NoExtended == "requests.gpu" \notin Resources

\* A Job's Pod comes under one key of the quota: its message is read for one.
OneKeyJobs ==
    \A w \in Workloads : Kind[w] = "Job" =>
        \A k, l \in Resources : Charge[w][k] > 0 /\ Charge[w][l] > 0 => k = l

LEMMA ExactCovers ==
    ASSUME NEW k \in Resources, NEW x \in Nat PROVE Exact(k, x) \in Nat /\ x <= Exact(k, x)
  <1> DEFINE h == Headroom[k]
             t == Exact(k, x)
  <1>1. h \in Nat
    BY SizingAssumption
  <1>2. t \in Nat /\ t * 100 > x * (100 + h) - 100
    BY ExactFacts
  <1> HIDE DEF h, t
  <1>3. 100 * x <= (100 + h) * x
    BY <1>1, MulMono
  <1>4. x * (100 + h) \in Int /\ (100 + h) * x = x * (100 + h)
    BY <1>1
  <1>5. t * 100 > 100 * x - 100
    BY <1>2, <1>3, <1>4
  <1>6. x <= t
    BY <1>2, <1>5
  <1> QED BY <1>2, <1>6 DEF t

\* The scan finds at least what the blocked workloads wait for.
LEMMA WaitingFound ==
    ASSUME IInv, NoExtended, OneKeyJobs, SeparateKeys(Blocked), NEW k \in Resources
    PROVE  /\ SumFunction([w \in Blocked |-> Waiting(w, k)]) \in Nat
           /\ SumFunction([w \in Blocked |-> Waiting(w, k)])
                <= input(events, Workloads).deficit[k]
  <1> DEFINE es == {e \in events : isObjectAlive(e.workload)}
             found == Found(es, Workloads, missing)
             owed(res, w) == Owed(res, k, w, Workloads, missing)
             L == LongName(k)
             D == collectDeficits(hard, es, Workloads, missing)
  <1>1. /\ desired \in [Workloads -> Int] /\ running \in Counts /\ Resources = DOMAIN hard
        /\ missing \in [Workloads -> Int]
        /\ \A w \in Workloads : missing[w] = desired[w] - running[w]
    BY Types
  <1>2. Scan(hard, es, Workloads, missing, found)
    BY <1>1 DEF Scan, IInv, Messages
  <1>3. \A w \in Blocked : /\ w \in Workloads /\ missing[w] > 0
                           /\ \E e \in events : e.workload = w /\ GoodEvent(e)
    BY DEF Blocked, IInv, Messages, GoodEvent
  <1>4. ASSUME NEW w \in Blocked PROVE \E e \in es : e.workload = w /\ GoodEvent(e)
    <2>1. desired[w] \in Int /\ running[w] \in Nat /\ missing[w] > 0
            /\ missing[w] = desired[w] - running[w]
      BY <1>1, <1>3 DEF Counts
    <2>2. isObjectAlive(w)
      BY <2>1 DEF isObjectAlive, Deleted
    <2> QED BY <1>3, <2>2
  <1>5. ASSUME NEW w \in Blocked
        PROVE  FromTemplate(w, Workloads, missing) <=> Kind[w] # "Job"
    <2>1. Kind[w] \in Kinds /\ w \in Workloads /\ missing[w] > 0
      BY <1>3, WorkloadAssumption
    <2> QED BY <2>1 DEF Kinds, FromTemplate
  <1>6. ASSUME NEW w \in Blocked PROVE Waiting(w, k) = owed(k, w) + owed(L, w) /\ Waiting(w, k) \in Nat
    <2>1. k # "requests.gpu"
      BY DEF NoExtended
    <2>2. /\ owed(k, w) + owed(L, w) = Share(k, w, Workloads, missing)
          /\ Share(k, w, Workloads, missing) \in Nat
      BY <1>1, <1>3, <2>1, OwedFacts
    <2>3. Charge[w][k] \in Nat
      BY <1>3, ChargeFacts
    <2>4. Waiting(w, k) = Share(k, w, Workloads, missing)
      BY <1>5, <2>3 DEF Waiting, Share
    <2> QED BY <2>2, <2>4
  <1>7. ASSUME NEW w \in Blocked, NEW res \in {k, LongName(k)}
        PROVE  \E e \in es :
                 /\ e.workload = w
                 /\ \/ Owed(res, k, w, Workloads, missing) = 0
                    \/ /\ res \in DOMAIN calculateWorkloadDeficit(e, Workloads, missing)
                       /\ k \in resolveQuotaKey(hard, res)
    <2>1. PICK e \in es : e.workload = w /\ GoodEvent(e)
      BY <1>4
    <2>2. /\ DOMAIN calculateWorkloadDeficit(e, Workloads, missing) =
               IF FromTemplate(e.workload, Workloads, missing) THEN RequestKeys(e.workload)
               ELSE {ParseEventMessage(e)}
          /\ ParseEventMessage(e) \in DOMAIN e.requested
      <3> HIDE DEF es, found
      <3> QED BY <1>2, DeficitNames
    <2>3. w \in Workloads
      BY <1>3
    <2>4. k \in resolveQuotaKey(hard, k)
      BY <1>1 DEF resolveQuotaKey
    <2>5. CASE FromTemplate(w, Workloads, missing)
      <3>1. CASE res \notin RequestKeys(w)
        BY <2>1, <2>5, <3>1 DEF Owed
      <3>2. CASE res \in RequestKeys(w) /\ res = k
        BY <2>1, <2>2, <2>4, <2>5, <3>2
      <3>3. CASE res \in RequestKeys(w) /\ res = LongName(k) /\ res # k
        <4>1. \/ k = "cpu" /\ res = "requests.cpu"
              \/ k = "memory" /\ res = "requests.memory"
          BY <2>3, <3>3, KeysOfPod DEF LongName, LongKeys, OtherNames
        <4>2. <<k, res>> \in Aliases
          BY <4>1 DEF Aliases
        <4>3. k \in resolveQuotaKey(hard, res)
          BY <1>1, <4>2, ShortageAssumption DEF resolveQuotaKey
        <4> QED BY <2>1, <2>2, <2>5, <3>3, <4>3
      <3> QED BY <1>7, <3>1, <3>2, <3>3
    <2>6. CASE ~FromTemplate(w, Workloads, missing)
      <3>1. Kind[w] = "Job"
        BY <1>5, <2>6
      <3>2. CASE res # k \/ Charge[w][k] = 0
        BY <2>1, <2>6, <3>2 DEF Owed
      <3>3. CASE res = k /\ Charge[w][k] # 0
        <4> DEFINE r == ParseEventMessage(e)
        <4>1. r \in Resources /\ Charge[w][r] > 0
          BY <2>1, <2>2 DEF GoodEvent
        <4>2. Charge[w][k] > 0
          BY <2>3, <3>3, ChargeFacts
        <4>3. r = k
          BY <2>3, <3>1, <4>1, <4>2 DEF OneKeyJobs
        <4> QED BY <2>1, <2>2, <2>4, <2>6, <3>3, <4>3
      <3> QED BY <3>2, <3>3
    <2> QED BY <2>5, <2>6
  <1>8. Blocked \in SUBSET Workloads
    BY <1>3
  <1>9. SumFunction([w \in Blocked |-> owed(k, w) + owed(L, w)]) <= D[k]
    BY <1>2, <1>7, <1>8, CollectLower
  <1> DEFINE f == [w \in Blocked |-> Waiting(w, k)]
  <1>10. f = [w \in Blocked |-> owed(k, w) + owed(L, w)] /\ f \in [Blocked -> Nat]
    BY <1>6
  <1>11. IsFiniteSet(Blocked)
    BY <1>8, WorkloadAssumption, FS_Subset
  <1>12. SumFunction(f) \in Nat
    <2> HIDE DEF f
    <2> QED BY <1>10, <1>11, SumNat
  <1>13. input(events, Workloads).deficit[k] = D[k]
    BY DEF input
  <1>14. SumFunction(f) <= D[k]
    <2> HIDE DEF f, D
    <2> QED BY <1>9, <1>10
  <1> QED BY <1>12, <1>13, <1>14

\* In range, the limits a full scan decides on cover usage and deficit.
LEMMA DeficitCovered ==
    ASSUME IInv, Representable, BandCovered, NEW k \in Resources,
           NEW in, in = input(events, Workloads), NEW d, d = decision(in)
    PROVE  (IF k \in DOMAIN d.targets THEN d.targets[k] ELSE hard[k]) >= used[k] + in.deficit[k]
  <1> DEFINE D == Wanted(k)
             x == used[k] + in.deficit[k]
             t == targetFor(in, k, Build)
  <1>1. /\ in.hard = hard /\ in.used = used /\ in.peak[k] = 0
        /\ in.used[k] \in Nat /\ in.deficit[k] \in Nat
        /\ in.used[k] + in.deficit[k] <= D
    BY ScanFacts
  <1>2. Exact(k, D) <= MaxInt /\ hard[k] \in Nat \ {0} /\ hard[k] <= MaxInt
    BY DEF Representable, Exact, IInv, Limits
  <1>3. D \in Nat /\ MaxInt \in Nat /\ MinLimit[k] \in Nat /\ Headroom[k] \in Nat
          /\ Tolerance \in Nat /\ Headroom[k] >= Tolerance /\ Build \in Int
    <2>1. D \in Nat
      BY LackingFacts
    <2>2. MaxInt \in Nat /\ Build \in Int
      BY SizingAssumption, ShortageAssumption DEF Builds, MinInt
    <2> HIDE DEF D
    <2> QED BY <2>1, <2>2, SizingAssumption DEF BandCovered
  <1> HIDE DEF D
  <1>4. x \in Nat /\ x <= D /\ used[k] \in Nat /\ used[k] <= x
    BY <1>1
  <1>5. /\ Exact(k, x) \in Nat /\ Exact(k, x) <= Exact(k, D) /\ x <= Exact(k, x)
        /\ Exact(k, x) * 100 > x * (100 + Headroom[k]) - 100 /\ Exact(k, D) \in Nat
    <2> HIDE DEF x
    <2> QED BY <1>3, <1>4, ExactFacts, ExactCovers
  <1>6. Demand(used[k], 0, in.deficit[k]) = x
    BY <1>1 DEF Demand, larger
  <1>7. Exact(k, x) <= MaxInt /\ x <= MaxInt
    <2> HIDE DEF x
    <2> QED BY <1>2, <1>3, <1>4, <1>5
  <1>8. t = larger(Exact(k, x), MinLimit[k])
    <2>1. Exact(k, Demand(in.used[k], in.peak[k], in.deficit[k])) <= MaxInt
      BY <1>1, <1>6, <1>7
    <2>2. in.used[k] + in.deficit[k] <= MaxInt
      BY <1>1, <1>7
    <2>3. t = Target(k, in.used[k], in.peak[k], in.deficit[k])
      BY <1>1, <1>3, <2>1, <2>2, TargetForm
    <2> QED BY <1>1, <1>6, <2>3 DEF Target
  <1> HIDE DEF t, x
  <1>9. t \in Nat /\ t >= Exact(k, x) /\ t >= x
    BY <1>3, <1>4, <1>5, <1>8 DEF larger
  <1>10. Quantize(k, t) \in Nat /\ Quantize(k, t) >= t
    BY <1>9, QuantizeFacts
  <1>11. /\ DOMAIN d.targets = {r \in Resources : Measurable(in, r) /\ Grows(in, r, Build)}
         /\ \A r \in DOMAIN d.targets : d.targets[r] = Quantize(r, targetFor(in, r, Build))
    BY OnlyGrowth DEF decision
  <1>12. CASE k \in DOMAIN d.targets
    <2>1. d.targets[k] = Quantize(k, t)
      BY <1>11, <1>12 DEF t
    <2> QED BY <1>4, <1>9, <1>10, <1>12, <2>1 DEF x
  <1>13. CASE k \notin DOMAIN d.targets
    <2>1. ASSUME hard[k] < x PROVE FALSE
      <3>1. t * 100 > x * (100 + Headroom[k]) - 100
        <4>1. x * (100 + Headroom[k]) \in Int
          BY <1>3, <1>4
        <4> QED BY <1>5, <1>9, <4>1
      <3>2. t * 100 > hard[k] * (100 + Tolerance) /\ t > hard[k]
        <4>1. \A h \in Nat : h < x => t * 100 > h * (100 + Tolerance) /\ t > h
          BY <1>3, <1>4, <1>9, <3>1, AboveBand
        <4> QED BY <1>2, <2>1, <4>1
      <3>3. Grows(in, k, Build)
        <4>1. Quantize(k, t) > hard[k]
          BY <1>2, <1>9, <1>10, <3>2
        <4> QED BY <1>1, <3>2, <4>1 DEF Grows, t
      <3>4. Measurable(in, k)
        BY <1>1, <1>2, <1>3, <1>4, <1>7 DEF Measurable, overflowsMilliValue
      <3> QED BY <1>11, <1>13, <3>3, <3>4
    <2>2. hard[k] >= x
      BY <1>2, <1>4, <2>1
    <2> QED BY <1>13, <2>2 DEF x
  <1> QED BY <1>12, <1>13

\* OPERATIONS.md 2.B: as long as the headroom is no smaller than the tolerance
\* band, what a full scan decides admits every missing replica of every blocked
\* workload with a key of its own, whatever their number and templates, for the
\* keys resolveQuotaKey matches and quantities that do not overflow.
THEOREM BurstsCovered ==
    BandCovered /\ NoExtended /\ OneKeyJobs => (Spec => []BurstCovered)
  <1> SUFFICES ASSUME BandCovered, NoExtended, OneKeyJobs
               PROVE  Spec => []BurstCovered
    OBVIOUS
  <1>1. IInv => BurstCovered
    <2> SUFFICES ASSUME IInv, Representable, SeparateKeys(Blocked), NEW k \in Resources
                 PROVE  LET targets == decision(input(events, Workloads)).targets
                            limit == IF k \in DOMAIN targets THEN targets[k] ELSE hard[k]
                        IN  limit >= used[k] + SumFunction([w \in Blocked |-> Waiting(w, k)])
      BY DEF BurstCovered
    <2> DEFINE in == input(events, Workloads)
               d == decision(in)
               limit == IF k \in DOMAIN d.targets THEN d.targets[k] ELSE hard[k]
               waiting == SumFunction([w \in Blocked |-> Waiting(w, k)])
    <2>1. waiting \in Nat /\ waiting <= in.deficit[k]
      BY WaitingFound
    <2>2. limit >= used[k] + in.deficit[k]
      BY DeficitCovered
    <2>3. used[k] \in Nat /\ in.deficit[k] \in Nat
      BY ScanFacts
    <2>4. limit \in Nat
      BY DecisionFacts DEF IInv, TypeOK
    <2> HIDE DEF waiting, limit, in
    <2>5. limit >= used[k] + waiting
      BY <2>1, <2>2, <2>3, <2>4
    <2> QED BY <2>5 DEF waiting, limit, in
  <1>2. Init => IInv
    BY InitIInv
  <1>3. IInv /\ [Next]_vars => IInv'
    BY NextIInv
  <1> QED BY <1>1, <1>2, <1>3, PTL DEF Spec

=============================================================================
