---------------------------- MODULE SumsAndFlows ----------------------------
(***************************************************************************)
(* Facts about SumFunctionOnSet and SumFunction, the sums of the flow, the *)
(* charges and the confidence, for every finite set of places; and what    *)
(* they say of flows, cuts, paths and searches in any finite graph.        *)
(*                                                                         *)
(* Induction is first order here: a set of good subsets that holds the     *)
(* empty set and grows by single elements holds the whole set.             *)
(***************************************************************************)
EXTENDS Integers, Sequences, FiniteSets, Functions, FiniteSetTheorems, WellFoundedInduction, TLAPS

----------------------------------------------------------------------------
(* Induction                                                               *)

\* A nonempty set of natural numbers has a least one.
LEMMA LeastNatural ==
  ASSUME NEW T \in SUBSET Nat, T # {}
  PROVE  \E n \in T : \A m \in T : n <= m
<1> DEFINE R == OpToRel(<, Nat)
<1>1. IsWellFoundedOn(R, Nat)
  BY NatLessThanWellFounded
<1>2. PICK n \in T : \A m \in T : ~(<<m, n>> \in R)
  <2>1. T \subseteq Nat /\ T # {}
    OBVIOUS
  <2> HIDE DEF R
  <2> QED BY <1>1, <2>1, WFMin
<1>3. ASSUME NEW m \in T PROVE n <= m
  <2>1. m < n => <<m, n>> \in R
    BY DEF OpToRel
  <2>2. m \in Nat /\ n \in Nat /\ ~(m < n)
    BY <1>2, <2>1
  <2> QED BY <2>2
<1> QED BY <1>3

\* Induction on natural numbers, over a set P of them.
LEMMA NumberInduction ==
  ASSUME NEW P, 0 \in P, \A n \in Nat : n \in P => n + 1 \in P
  PROVE  \A n \in Nat : n \in P
<1> SUFFICES ASSUME Nat \ P # {} PROVE FALSE
  OBVIOUS
<1>1. PICK n \in Nat \ P : \A m \in Nat \ P : n <= m
  BY LeastNatural
<1>2. n # 0 /\ n - 1 \in Nat
  OBVIOUS
<1>3. n - 1 \in P
  BY <1>1, <1>2
<1> QED BY <1>2, <1>3

\* Induction on finite sets, over a set P of subsets: from the smaller ones.
LEMMA SubsetInduction ==
  ASSUME NEW S, IsFiniteSet(S), NEW P,
         \A T \in SUBSET S : (\A U \in SUBSET T : U # T => U \in P) => T \in P
  PROVE  S \in P
<1> SUFFICES ASSUME S \notin P PROVE FALSE
  OBVIOUS
<1> DEFINE Bad == {Cardinality(T) : T \in (SUBSET S) \ P}
<1>1. \A T \in SUBSET S : IsFiniteSet(T) /\ Cardinality(T) \in Nat
  BY FS_Subset, FS_CardinalityType
<1>2. Bad \in SUBSET Nat /\ Bad # {}
  BY <1>1
<1>3. PICK n \in Bad : \A m \in Bad : n <= m
  <2> HIDE DEF Bad
  <2> QED BY <1>2, LeastNatural
<1>4. PICK T \in (SUBSET S) \ P : Cardinality(T) = n
  BY <1>3
<1>5. PICK U \in SUBSET T : U # T /\ U \notin P
  <2> HIDE DEF Bad
  <2>1. T \in SUBSET S /\ T \notin P
    OBVIOUS
  <2> QED BY <2>1, Zenon
<1>6. Cardinality(U) \in Bad
  <2>1. U \in (SUBSET S) \ P
    BY <1>5
  <2> QED BY <2>1
<1>7. Cardinality(U) < Cardinality(T)
  <2>1. IsFiniteSet(T) /\ Cardinality(T) \in Nat /\ Cardinality(U) \in Nat
    BY <1>1
  <2>2. Cardinality(U) <= Cardinality(T) /\ Cardinality(U) # Cardinality(T)
    BY <1>5, <2>1, FS_Subset
  <2> QED BY <2>1, <2>2
<1> HIDE DEF Bad
<1>8. n <= Cardinality(U)
  BY <1>3, <1>6
<1> QED BY <1>1, <1>4, <1>7, <1>8

\* The same, one element at a time.
LEMMA SetInduction ==
  ASSUME NEW S, IsFiniteSet(S), NEW P, {} \in P,
         \A T \in SUBSET S : \A x \in S \ T : T \in P => T \cup {x} \in P
  PROVE  S \in P
<1>1. ASSUME NEW T \in SUBSET S, \A U \in SUBSET T : U # T => U \in P
      PROVE  T \in P
  <2>1. CASE T = {}
    BY <2>1
  <2>2. CASE T # {}
    <3>1. PICK x \in T : TRUE
      BY <2>2
    <3>2. T \ {x} \in P
      BY <1>1, <3>1
    <3>3. (T \ {x}) \cup {x} = T
      OBVIOUS
    <3> QED BY <3>2, <3>3
  <2> QED BY <2>1, <2>2
<1> QED BY <1>1, SubsetInduction

----------------------------------------------------------------------------
(* The recursion behind a sum                                              *)

\* A function that sums f over the subsets of S, taking away some element at a time.
Elected(s) == CHOOSE x \in s : TRUE

Sums(f, S, g) ==
  g = [s \in SUBSET S |-> IF s = {} THEN 0 ELSE f[Elected(s)] + g[s \ {Elected(s)}]]

\* What SumFunctionOnSet chooses, one element out of the set at a time.
LEMMA SumIsChosen ==
  ASSUME NEW f, NEW S
  PROVE  SumFunctionOnSet(f, S) = (CHOOSE g : Sums(f, S, g))[S]
BY DEF SumFunctionOnSet, FoldFunctionOnSet, MapThenFoldSet, Sums, Elected

\* There is such a function.
LEMMA SumsExist ==
  ASSUME NEW f, NEW S, IsFiniteSet(S)
  PROVE  \E g : Sums(f, S, g)
<1> DEFINE Small(n) == {s \in SUBSET S : Cardinality(s) <= n}
           SumsTo(n, g) ==
             g = [s \in Small(n) |-> IF s = {} THEN 0 ELSE f[Elected(s)] + g[s \ {Elected(s)}]]
           P == {n \in Nat : \E g : SumsTo(n, g)}
<1>1. \A s \in SUBSET S : IsFiniteSet(s) /\ Cardinality(s) \in Nat
  BY FS_Subset, FS_CardinalityType
<1>2. \A s \in SUBSET S : s # {} => /\ s \ {Elected(s)} \in SUBSET S
                                    /\ Cardinality(s \ {Elected(s)}) = Cardinality(s) - 1
  <2> SUFFICES ASSUME NEW s \in SUBSET S, s # {}
               PROVE  Cardinality(s \ {Elected(s)}) = Cardinality(s) - 1
    OBVIOUS
  <2>1. Elected(s) \in s
    BY DEF Elected
  <2> QED BY <1>1, <2>1, FS_RemoveElement
<1>3. 0 \in P
  <2> DEFINE g == [s \in Small(0) |-> IF s = {} THEN 0 ELSE f[Elected(s)] + 0]
  <2>1. \A s \in Small(0) : s = {}
    BY <1>1, FS_EmptySet
  <2>2. SumsTo(0, g)
    BY <2>1
  <2> HIDE DEF SumsTo, g
  <2> QED BY <2>2
<1>4. ASSUME NEW n \in Nat, n \in P PROVE n + 1 \in P
  <2>1. PICK g : SumsTo(n, g)
    BY <1>4
  <2> DEFINE h == [s \in Small(n + 1) |-> IF s = {} THEN 0 ELSE f[Elected(s)] + g[s \ {Elected(s)}]]
  <2>2. \A s \in Small(n) : s \in Small(n + 1) /\ h[s] = g[s]
    <3> SUFFICES ASSUME NEW s \in Small(n) PROVE s \in Small(n + 1) /\ h[s] = g[s]
      OBVIOUS
    <3>1. s \in Small(n + 1)
      BY <1>1
    <3>2. g[s] = IF s = {} THEN 0 ELSE f[Elected(s)] + g[s \ {Elected(s)}]
      BY <2>1
    <3>3. h[s] = IF s = {} THEN 0 ELSE f[Elected(s)] + g[s \ {Elected(s)}]
      BY <3>1
    <3> HIDE DEF h, Small
    <3> QED BY <3>1, <3>2, <3>3
  <2>3. \A s \in Small(n + 1) : s # {} => s \ {Elected(s)} \in Small(n)
    BY <1>1, <1>2
  <2>4. \A s \in Small(n + 1) : s # {} => g[s \ {Elected(s)}] = h[s \ {Elected(s)}]
    <3> HIDE DEF h, Small
    <3> QED BY <2>2, <2>3
  <2>5. SumsTo(n + 1, h)
    <3>1. h = [s \in Small(n + 1) |-> IF s = {} THEN 0 ELSE f[Elected(s)] + h[s \ {Elected(s)}]]
      <4> DEFINE k == [s \in Small(n + 1) |-> IF s = {} THEN 0 ELSE f[Elected(s)] + h[s \ {Elected(s)}]]
      <4>1. \A s \in Small(n + 1) : h[s] = k[s]
        <5> SUFFICES ASSUME NEW s \in Small(n + 1) PROVE h[s] = k[s]
          OBVIOUS
        <5>1. h[s] = IF s = {} THEN 0 ELSE f[Elected(s)] + g[s \ {Elected(s)}]
          OBVIOUS
        <5>2. k[s] = IF s = {} THEN 0 ELSE f[Elected(s)] + h[s \ {Elected(s)}]
          OBVIOUS
        <5> HIDE DEF h, k, Small
        <5> QED BY <2>4, <5>1, <5>2
      <4>2. h = [s \in Small(n + 1) |-> h[s]] /\ k = [s \in Small(n + 1) |-> k[s]]
        OBVIOUS
      <4> HIDE DEF h, k, Small
      <4>3. [s \in Small(n + 1) |-> h[s]] = [s \in Small(n + 1) |-> k[s]]
        BY <4>1, Zenon
      <4>4. h = k
        BY <4>2, <4>3, Zenon
      <4> QED BY <4>4 DEF k
    <3> HIDE DEF h, Small
    <3> QED BY <3>1
  <2> HIDE DEF SumsTo, h
  <2> QED BY <2>5
<1>5. Cardinality(S) \in P
  <2> HIDE DEF P
  <2> QED BY <1>1, <1>3, <1>4, NumberInduction
<1>6. Small(Cardinality(S)) = SUBSET S
  BY FS_Subset
<1> QED BY <1>5, <1>6 DEF Sums

\* Two of them agree on the sets they share.
LEMMA SumsAgree ==
  ASSUME NEW f, NEW S, NEW T, NEW g, NEW h, Sums(f, S, g), Sums(f, T, h),
         NEW U \in SUBSET (S \cap T), IsFiniteSet(U)
  PROVE  g[U] = h[U]
<1> DEFINE P == {V \in SUBSET U : g[V] = h[V]}
<1>1. ASSUME NEW V \in SUBSET U, \A W \in SUBSET V : W # V => W \in P
      PROVE  V \in P
  <2>1. V \in SUBSET S /\ V \in SUBSET T
    OBVIOUS
  <2>2. /\ g[V] = IF V = {} THEN 0 ELSE f[Elected(V)] + g[V \ {Elected(V)}]
        /\ h[V] = IF V = {} THEN 0 ELSE f[Elected(V)] + h[V \ {Elected(V)}]
    BY <2>1 DEF Sums
  <2>3. V # {} => V \ {Elected(V)} \in SUBSET V /\ V \ {Elected(V)} # V
    BY DEF Elected
  <2>4. V # {} => g[V \ {Elected(V)}] = h[V \ {Elected(V)}]
    BY <1>1, <2>3
  <2> QED BY <2>2, <2>4
<1>2. U \in P
  <2> HIDE DEF P
  <2> QED BY <1>1, SubsetInduction
<1> QED BY <1>2

\* What a sum is: nothing for the empty set, otherwise the chosen element and the rest.
LEMMA SumUnfolds ==
  ASSUME NEW f, NEW S, IsFiniteSet(S)
  PROVE  SumFunctionOnSet(f, S) =
           IF S = {} THEN 0 ELSE f[Elected(S)] + SumFunctionOnSet(f, S \ {Elected(S)})
<1> DEFINE R == S \ {Elected(S)}
           g == CHOOSE g : Sums(f, S, g)
           h == CHOOSE h : Sums(f, R, h)
<1>1. IsFiniteSet(R)
  BY FS_RemoveElement
<1>2. Sums(f, S, g) /\ Sums(f, R, h)
  BY <1>1, SumsExist
<1>3. SumFunctionOnSet(f, S) = g[S] /\ SumFunctionOnSet(f, R) = h[R]
  BY SumIsChosen
<1> HIDE DEF g, h
<1>4. g[S] = IF S = {} THEN 0 ELSE f[Elected(S)] + g[R]
  BY <1>2 DEF Sums
<1>5. g[R] = h[R]
  BY <1>1, <1>2, SumsAgree
<1> QED BY <1>3, <1>4, <1>5

\* The empty sum.
LEMMA SumOfNothing == \A f : SumFunctionOnSet(f, {}) = 0
BY SumUnfolds, FS_EmptySet

\* A sum of integers is one, and any element may be taken out of it.
LEMMA SumType ==
  ASSUME NEW f, NEW S, IsFiniteSet(S), \A x \in S : f[x] \in Int
  PROVE  SumFunctionOnSet(f, S) \in Int
<1> DEFINE P == {T \in SUBSET S : SumFunctionOnSet(f, T) \in Int}
<1>1. ASSUME NEW T \in SUBSET S, \A U \in SUBSET T : U # T => U \in P
      PROVE  T \in P
  <2>1. IsFiniteSet(T)
    BY FS_Subset
  <2>2. SumFunctionOnSet(f, T) =
          IF T = {} THEN 0 ELSE f[Elected(T)] + SumFunctionOnSet(f, T \ {Elected(T)})
    BY <2>1, SumUnfolds
  <2>3. T # {} => Elected(T) \in T /\ T \ {Elected(T)} \in P
    BY <1>1 DEF Elected
  <2> QED BY <2>2, <2>3
<1>2. S \in P
  <2> HIDE DEF P
  <2> QED BY <1>1, SubsetInduction
<1> QED BY <1>2

\* Any element may be taken out first.
LEMMA SumElement ==
  ASSUME NEW f, NEW S, IsFiniteSet(S), \A x \in S : f[x] \in Int, NEW x \in S
  PROVE  SumFunctionOnSet(f, S) = f[x] + SumFunctionOnSet(f, S \ {x})
<1> DEFINE P == {T \in SUBSET S : \A y \in T :
                   SumFunctionOnSet(f, T) = f[y] + SumFunctionOnSet(f, T \ {y})}
<1>1. ASSUME NEW T \in SUBSET S, \A U \in SUBSET T : U # T => U \in P
      PROVE  T \in P
  <2>1. IsFiniteSet(T)
    BY FS_Subset
  <2> SUFFICES ASSUME NEW y \in T
               PROVE  SumFunctionOnSet(f, T) = f[y] + SumFunctionOnSet(f, T \ {y})
    OBVIOUS
  <2> DEFINE p == Elected(T)
             R == (T \ {p}) \ {y}
  <2>2. p \in T /\ SumFunctionOnSet(f, T) = f[p] + SumFunctionOnSet(f, T \ {p})
    BY <2>1, SumUnfolds DEF Elected
  <2>3. CASE p = y
    BY <2>2, <2>3
  <2>4. CASE p # y
    <3>1. T \ {p} \in P /\ y \in T \ {p}
      BY <1>1, <2>2, <2>4
    <3>2. T \ {y} \in P /\ p \in T \ {y}
      BY <1>1, <2>2, <2>4
    <3>3. SumFunctionOnSet(f, T \ {p}) = f[y] + SumFunctionOnSet(f, R)
      BY <3>1
    <3>4. SumFunctionOnSet(f, T \ {y}) = f[p] + SumFunctionOnSet(f, R)
      <4>1. (T \ {y}) \ {p} = R
        OBVIOUS
      <4> HIDE DEF p, R
      <4> QED BY <3>2, <4>1
    <3>5. IsFiniteSet(R) /\ SumFunctionOnSet(f, R) \in Int
      <4>1. R \in SUBSET S
        OBVIOUS
      <4> HIDE DEF R
      <4> QED BY <4>1, FS_Subset, SumType
    <3>6. f[p] \in Int /\ f[y] \in Int
      BY <2>2
    <3> HIDE DEF p, R, P
    <3> QED BY <2>2, <3>3, <3>4, <3>5, <3>6
  <2> QED BY <2>3, <2>4
<1>2. S \in P
  <2> HIDE DEF P
  <2> QED BY <1>1, SubsetInduction
<1> QED BY <1>2

\* A new element adds its value.
LEMMA SumWithElement ==
  ASSUME NEW f, NEW S, IsFiniteSet(S), \A y \in S : f[y] \in Int, NEW x, x \notin S, f[x] \in Int
  PROVE  SumFunctionOnSet(f, S \cup {x}) = f[x] + SumFunctionOnSet(f, S)
<1>1. IsFiniteSet(S \cup {x}) /\ (S \cup {x}) \ {x} = S
  BY FS_AddElement
<1> QED BY <1>1, SumElement

----------------------------------------------------------------------------
(* Comparing sums                                                          *)

\* A sum depends on the values at its places only.
LEMMA SumOfEquals ==
  ASSUME NEW f, NEW g, NEW S, IsFiniteSet(S), \A x \in S : f[x] \in Int /\ g[x] = f[x]
  PROVE  SumFunctionOnSet(g, S) = SumFunctionOnSet(f, S)
<1> DEFINE P == {T \in SUBSET S : SumFunctionOnSet(g, T) = SumFunctionOnSet(f, T)}
<1>1. {} \in P
  BY SumOfNothing
<1>2. ASSUME NEW T \in SUBSET S, NEW x \in S \ T, T \in P PROVE T \cup {x} \in P
  <2>1. /\ SumFunctionOnSet(f, T \cup {x}) = f[x] + SumFunctionOnSet(f, T)
        /\ SumFunctionOnSet(g, T \cup {x}) = g[x] + SumFunctionOnSet(g, T)
    BY <1>2, FS_Subset, SumWithElement
  <2> QED BY <1>2, <2>1
<1>3. S \in P
  <2> HIDE DEF P
  <2> QED BY <1>1, <1>2, SetInduction
<1> QED BY <1>3

\* Sums add up place by place.
LEMMA SumOfPairs ==
  ASSUME NEW f, NEW g, NEW h, NEW S, IsFiniteSet(S),
         \A x \in S : f[x] \in Int /\ g[x] \in Int /\ h[x] = f[x] + g[x]
  PROVE  SumFunctionOnSet(h, S) = SumFunctionOnSet(f, S) + SumFunctionOnSet(g, S)
<1> DEFINE P == {T \in SUBSET S :
                   SumFunctionOnSet(h, T) = SumFunctionOnSet(f, T) + SumFunctionOnSet(g, T)}
<1>1. {} \in P
  BY SumOfNothing
<1>2. ASSUME NEW T \in SUBSET S, NEW x \in S \ T, T \in P PROVE T \cup {x} \in P
  <2>1. IsFiniteSet(T) /\ h[x] \in Int /\ \A y \in T : f[y] \in Int /\ g[y] \in Int /\ h[y] \in Int
    BY FS_Subset
  <2>2. /\ SumFunctionOnSet(f, T \cup {x}) = f[x] + SumFunctionOnSet(f, T)
        /\ SumFunctionOnSet(g, T \cup {x}) = g[x] + SumFunctionOnSet(g, T)
        /\ SumFunctionOnSet(h, T \cup {x}) = h[x] + SumFunctionOnSet(h, T)
    BY <2>1, SumWithElement
  <2>3. SumFunctionOnSet(f, T) \in Int /\ SumFunctionOnSet(g, T) \in Int
    BY <2>1, SumType
  <2> QED BY <1>2, <2>2, <2>3
<1>3. S \in P
  <2> HIDE DEF P
  <2> QED BY <1>1, <1>2, SetInduction
<1> QED BY <1>3

\* What is less everywhere sums up to less.
LEMMA SumOfLess ==
  ASSUME NEW f, NEW g, NEW S, IsFiniteSet(S),
         \A x \in S : f[x] \in Int /\ g[x] \in Int /\ f[x] <= g[x]
  PROVE  SumFunctionOnSet(f, S) <= SumFunctionOnSet(g, S)
<1> DEFINE P == {T \in SUBSET S : SumFunctionOnSet(f, T) <= SumFunctionOnSet(g, T)}
<1>1. {} \in P
  BY SumOfNothing
<1>2. ASSUME NEW T \in SUBSET S, NEW x \in S \ T, T \in P PROVE T \cup {x} \in P
  <2>1. IsFiniteSet(T) /\ \A y \in T : f[y] \in Int /\ g[y] \in Int
    BY FS_Subset
  <2>2. /\ SumFunctionOnSet(f, T \cup {x}) = f[x] + SumFunctionOnSet(f, T)
        /\ SumFunctionOnSet(g, T \cup {x}) = g[x] + SumFunctionOnSet(g, T)
    BY <2>1, SumWithElement
  <2>3. SumFunctionOnSet(f, T) \in Int /\ SumFunctionOnSet(g, T) \in Int
    BY <2>1, SumType
  <2> QED BY <1>2, <2>2, <2>3
<1>3. S \in P
  <2> HIDE DEF P
  <2> QED BY <1>1, <1>2, SetInduction
<1> QED BY <1>3

\* What is at most m times another number and k more sums up to at most m times the
\* other sum and k more for each place.
LEMMA SumOfMultiples ==
  ASSUME NEW f, NEW g, NEW S, IsFiniteSet(S), NEW m \in Int, NEW k \in Int,
         \A x \in S : f[x] \in Int /\ g[x] \in Int /\ f[x] <= m * g[x] + k
  PROVE  SumFunctionOnSet(f, S) <= m * SumFunctionOnSet(g, S) + k * Cardinality(S)
<1> DEFINE P == {T \in SUBSET S :
                   SumFunctionOnSet(f, T) <= m * SumFunctionOnSet(g, T) + k * Cardinality(T)}
<1>1. {} \in P
  BY SumOfNothing, FS_EmptySet
<1>2. ASSUME NEW T \in SUBSET S, NEW x \in S \ T, T \in P PROVE T \cup {x} \in P
  <2> DEFINE F == SumFunctionOnSet(f, T)
             G == SumFunctionOnSet(g, T)
             N == Cardinality(T)
  <2>1. IsFiniteSet(T) /\ \A y \in T : f[y] \in Int /\ g[y] \in Int
    BY FS_Subset
  <2>2. /\ SumFunctionOnSet(f, T \cup {x}) = f[x] + F
        /\ SumFunctionOnSet(g, T \cup {x}) = g[x] + G
    BY <2>1, SumWithElement
  <2>3. F \in Int /\ G \in Int
    BY <2>1, SumType
  <2>4. N \in Nat /\ Cardinality(T \cup {x}) = N + 1
    BY <2>1, FS_CardinalityType, FS_AddElement
  <2>5. F <= m * G + k * N
    BY <1>2
  <2>6. f[x] \in Int /\ g[x] \in Int /\ f[x] <= m * g[x] + k
    OBVIOUS
  <2> HIDE DEF F, G, N
  <2>7. m * (g[x] + G) = m * g[x] + m * G /\ k * (N + 1) = k * N + k
    BY <2>3, <2>4, <2>6
  <2>8. m * g[x] \in Int /\ m * G \in Int /\ k * N \in Int
    BY <2>3, <2>4, <2>6
  <2>9. f[x] + F <= m * (g[x] + G) + k * (N + 1)
    BY <2>3, <2>5, <2>6, <2>7, <2>8
  <2> QED BY <2>2, <2>4, <2>9
<1>3. S \in P
  <2> HIDE DEF P
  <2> QED BY <1>1, <1>2, SetInduction
<1> QED BY <1>3

\* Nothing everywhere is nothing.
LEMMA SumOfZeros ==
  ASSUME NEW f, NEW S, IsFiniteSet(S), \A x \in S : f[x] = 0
  PROVE  SumFunctionOnSet(f, S) = 0
<1> DEFINE P == {T \in SUBSET S : SumFunctionOnSet(f, T) = 0}
<1>1. {} \in P
  BY SumOfNothing
<1>2. ASSUME NEW T \in SUBSET S, NEW x \in S \ T, T \in P PROVE T \cup {x} \in P
  <2>1. SumFunctionOnSet(f, T \cup {x}) = f[x] + SumFunctionOnSet(f, T)
    BY FS_Subset, SumWithElement
  <2> QED BY <1>2, <2>1
<1>3. S \in P
  <2> HIDE DEF P
  <2> QED BY <1>1, <1>2, SetInduction
<1> QED BY <1>3

\* Natural numbers sum up to one.
LEMMA SumNotNegative ==
  ASSUME NEW f, NEW S, IsFiniteSet(S), \A x \in S : f[x] \in Nat
  PROVE  SumFunctionOnSet(f, S) \in Nat
<1> DEFINE z == [x \in S |-> 0]
<1>1. SumFunctionOnSet(z, S) = 0
  BY SumOfZeros
<1>2. SumFunctionOnSet(z, S) <= SumFunctionOnSet(f, S)
  BY SumOfLess
<1>3. SumFunctionOnSet(f, S) \in Int
  BY SumType
<1> HIDE DEF z
<1> QED BY <1>1, <1>2, <1>3

\* One place only.
LEMMA SumAtPlace ==
  ASSUME NEW f, NEW S, IsFiniteSet(S), NEW x \in S, f[x] \in Int, \A y \in S \ {x} : f[y] = 0
  PROVE  SumFunctionOnSet(f, S) = f[x]
<1>1. IsFiniteSet(S \ {x}) /\ \A y \in S : f[y] \in Int
  BY FS_RemoveElement
<1>2. SumFunctionOnSet(f, S) = f[x] + SumFunctionOnSet(f, S \ {x})
  BY <1>1, SumElement
<1>3. SumFunctionOnSet(f, S \ {x}) = 0
  BY <1>1, SumOfZeros
<1> QED BY <1>2, <1>3

----------------------------------------------------------------------------
(* Taking sums apart                                                       *)

\* A sum over two disjoint sets is that of the one and that of the other.
LEMMA SumOfUnion ==
  ASSUME NEW f, NEW S, NEW T, IsFiniteSet(S), IsFiniteSet(T), S \cap T = {},
         \A x \in S \cup T : f[x] \in Int
  PROVE  SumFunctionOnSet(f, S \cup T) = SumFunctionOnSet(f, S) + SumFunctionOnSet(f, T)
<1> DEFINE P == {U \in SUBSET T :
                   SumFunctionOnSet(f, S \cup U) = SumFunctionOnSet(f, S) + SumFunctionOnSet(f, U)}
<1>0. SumFunctionOnSet(f, S) \in Int
  BY SumType
<1>1. {} \in P
  <2>1. S \cup {} = S
    OBVIOUS
  <2> QED BY <1>0, <2>1, SumOfNothing
<1>2. ASSUME NEW U \in SUBSET T, NEW x \in T \ U, U \in P PROVE U \cup {x} \in P
  <2>1. IsFiniteSet(U) /\ IsFiniteSet(S \cup U) /\ x \notin S \cup U /\ f[x] \in Int
    BY FS_Subset, FS_Union
  <2>2. /\ SumFunctionOnSet(f, U \cup {x}) = f[x] + SumFunctionOnSet(f, U)
        /\ SumFunctionOnSet(f, (S \cup U) \cup {x}) = f[x] + SumFunctionOnSet(f, S \cup U)
    <3>1. \A y \in S \cup U : f[y] \in Int
      OBVIOUS
    <3> QED BY <2>1, <3>1, SumWithElement
  <2>3. (S \cup U) \cup {x} = S \cup (U \cup {x})
    OBVIOUS
  <2>4. SumFunctionOnSet(f, U) \in Int
    BY <2>1, SumType
  <2>5. SumFunctionOnSet(f, S \cup U) = SumFunctionOnSet(f, S) + SumFunctionOnSet(f, U)
    BY <1>2
  <2>6. SumFunctionOnSet(f, (S \cup U) \cup {x}) = SumFunctionOnSet(f, S) + SumFunctionOnSet(f, U \cup {x})
    <3>1. f[x] \in Int
      BY <2>1
    <3> QED BY <1>0, <2>2, <2>4, <2>5, <3>1
  <2>7. U \cup {x} \in SUBSET T
    OBVIOUS
  <2> QED BY <2>3, <2>6, <2>7
<1>3. T \in P
  <2> HIDE DEF P
  <2> QED BY <1>1, <1>2, SetInduction
<1> QED BY <1>3

\* A part of a sum of natural numbers is no more than the whole.
LEMMA SumOfPart ==
  ASSUME NEW f, NEW S, IsFiniteSet(S), \A x \in S : f[x] \in Nat, NEW T \in SUBSET S
  PROVE  SumFunctionOnSet(f, T) <= SumFunctionOnSet(f, S)
<1> DEFINE R == S \ T
<1>1. IsFiniteSet(T) /\ IsFiniteSet(R)
  <2>1. T \subseteq S /\ R \subseteq S
    OBVIOUS
  <2>2. IsFiniteSet(T)
    BY <2>1, FS_Subset
  <2>3. IsFiniteSet(R)
    BY <2>1, FS_Subset
  <2> QED BY <2>2, <2>3
<1>2. T \cap R = {} /\ T \cup R = S /\ \A x \in T \cup R : f[x] \in Nat /\ f[x] \in Int
  OBVIOUS
<1> HIDE DEF R
<1>3. SumFunctionOnSet(f, T \cup R) = SumFunctionOnSet(f, T) + SumFunctionOnSet(f, R)
  BY <1>1, <1>2, SumOfUnion
<1>4. SumFunctionOnSet(f, T) \in Nat /\ SumFunctionOnSet(f, R) \in Nat
  BY <1>1, <1>2, SumNotNegative
<1>5. T \cup R = S
  BY <1>2
<1>6. SumFunctionOnSet(f, S) = SumFunctionOnSet(f, T) + SumFunctionOnSet(f, R)
  BY <1>3, <1>5, Zenon
<1> QED BY <1>4, <1>6

\* A sum of ones counts.
LEMMA SumOfOnes ==
  ASSUME NEW f, NEW S, IsFiniteSet(S), \A x \in S : f[x] = 1
  PROVE  SumFunctionOnSet(f, S) = Cardinality(S)
<1> DEFINE P == {T \in SUBSET S : SumFunctionOnSet(f, T) = Cardinality(T)}
<1>1. {} \in P
  BY SumOfNothing, FS_EmptySet
<1>2. ASSUME NEW T \in SUBSET S, NEW x \in S \ T, T \in P PROVE T \cup {x} \in P
  <2>1. IsFiniteSet(T)
    BY FS_Subset
  <2>2. SumFunctionOnSet(f, T \cup {x}) = f[x] + SumFunctionOnSet(f, T)
    BY <2>1, SumWithElement
  <2>3. Cardinality(T \cup {x}) = Cardinality(T) + 1 /\ Cardinality(T) \in Nat
    BY <2>1, FS_AddElement, FS_CardinalityType
  <2>4. f[x] = 1 /\ T \cup {x} \in SUBSET S /\ SumFunctionOnSet(f, T) = Cardinality(T)
    BY <1>2
  <2>5. SumFunctionOnSet(f, T \cup {x}) = Cardinality(T \cup {x})
    BY <2>2, <2>3, <2>4
  <2> QED BY <2>4, <2>5
<1>3. S \in P
  <2> HIDE DEF P
  <2> QED BY <1>1, <1>2, SetInduction
<1> QED BY <1>3

\* Summing group by group.
LEMMA SumOfGroups ==
  ASSUME NEW f, NEW A, IsFiniteSet(A), NEW B, NEW g,
         \A a \in A : IsFiniteSet(B[a]) /\ (\A x \in B[a] : f[x] \in Int)
                      /\ g[a] = SumFunctionOnSet(f, B[a]),
         \A a, b \in A : a # b => B[a] \cap B[b] = {},
         NEW U, \A x : x \in U <=> \E a \in A : x \in B[a]
  PROVE  /\ IsFiniteSet(U)
         /\ SumFunctionOnSet(g, A) = SumFunctionOnSet(f, U)
<1> DEFINE All(C) == UNION {B[a] : a \in C}
           P == {C \in SUBSET A : /\ IsFiniteSet(All(C))
                                  /\ SumFunctionOnSet(g, C) = SumFunctionOnSet(f, All(C))}
<1>1. {} \in P
  <2>1. All({}) = {}
    OBVIOUS
  <2> HIDE DEF All
  <2> QED BY <2>1, SumOfNothing, FS_EmptySet
<1>2. ASSUME NEW C \in SUBSET A, NEW a \in A \ C, C \in P PROVE C \cup {a} \in P
  <2>1. All(C \cup {a}) = All(C) \cup B[a]
    OBVIOUS
  <2>2. All(C) \cap B[a] = {}
    OBVIOUS
  <2>3. \A x \in All(C) \cup B[a] : f[x] \in Int
    OBVIOUS
  <2>4. IsFiniteSet(C) /\ \A b \in C \cup {a} : g[b] \in Int
    BY FS_Subset, SumType
  <2>5. IsFiniteSet(All(C)) /\ SumFunctionOnSet(g, C) = SumFunctionOnSet(f, All(C))
        /\ IsFiniteSet(B[a]) /\ g[a] = SumFunctionOnSet(f, B[a])
    BY <1>2
  <2> HIDE DEF All
  <2>6. IsFiniteSet(All(C) \cup B[a])
    BY <2>5, FS_Union
  <2>7. SumFunctionOnSet(f, All(C) \cup B[a]) = SumFunctionOnSet(f, All(C)) + SumFunctionOnSet(f, B[a])
    BY <2>2, <2>3, <2>5, SumOfUnion
  <2>8. SumFunctionOnSet(g, C \cup {a}) = g[a] + SumFunctionOnSet(g, C)
    BY <2>4, SumWithElement
  <2>9. g[a] \in Int /\ SumFunctionOnSet(g, C) \in Int
    BY <2>4, SumType
  <2>10. SumFunctionOnSet(g, C \cup {a}) = SumFunctionOnSet(f, All(C) \cup B[a])
    BY <2>5, <2>7, <2>8, <2>9
  <2>11. C \cup {a} \in SUBSET A
    OBVIOUS
  <2> QED BY <2>1, <2>6, <2>10, <2>11
<1>3. A \in P
  <2> HIDE DEF P
  <2> QED BY <1>1, <1>2, SetInduction
<1>4. All(A) = U
  OBVIOUS
<1> HIDE DEF All
<1>5. IsFiniteSet(All(A)) /\ SumFunctionOnSet(g, A) = SumFunctionOnSet(f, All(A))
  BY <1>3
<1> QED BY <1>4, <1>5

\* Summing in another order.
LEMMA SumRenamed ==
  ASSUME NEW f, NEW S, IsFiniteSet(S), NEW r, NEW g,
         \A x \in S : f[r[x]] \in Int /\ g[x] = f[r[x]],
         \A x, y \in S : r[x] = r[y] => x = y
  PROVE  SumFunctionOnSet(g, S) = SumFunctionOnSet(f, {r[x] : x \in S})
<1> DEFINE To(T) == {r[x] : x \in T}
           P == {T \in SUBSET S : /\ IsFiniteSet(To(T))
                                  /\ SumFunctionOnSet(g, T) = SumFunctionOnSet(f, To(T))}
<1>1. {} \in P
  <2>1. To({}) = {}
    OBVIOUS
  <2> HIDE DEF To
  <2> QED BY <2>1, SumOfNothing, FS_EmptySet
<1>2. ASSUME NEW T \in SUBSET S, NEW x \in S \ T, T \in P PROVE T \cup {x} \in P
  <2>1. To(T \cup {x}) = To(T) \cup {r[x]}
    OBVIOUS
  <2>2. r[x] \notin To(T) /\ \A y \in To(T) : f[y] \in Int
    OBVIOUS
  <2>3. IsFiniteSet(T) /\ (\A y \in T \cup {x} : g[y] \in Int) /\ f[r[x]] \in Int /\ g[x] = f[r[x]]
    BY FS_Subset
  <2>4. IsFiniteSet(To(T)) /\ SumFunctionOnSet(g, T) = SumFunctionOnSet(f, To(T))
    BY <1>2
  <2> HIDE DEF To
  <2>5. SumFunctionOnSet(f, To(T) \cup {r[x]}) = f[r[x]] + SumFunctionOnSet(f, To(T))
    BY <2>2, <2>3, <2>4, SumWithElement
  <2>6. SumFunctionOnSet(g, T \cup {x}) = g[x] + SumFunctionOnSet(g, T)
    BY <2>3, SumWithElement
  <2>7. IsFiniteSet(To(T) \cup {r[x]})
    BY <2>4, FS_AddElement
  <2>8. T \cup {x} \in SUBSET S
    OBVIOUS
  <2> QED BY <2>1, <2>3, <2>4, <2>5, <2>6, <2>7, <2>8
<1>3. S \in P
  <2> HIDE DEF P
  <2> QED BY <1>1, <1>2, SetInduction
<1> QED BY <1>3

----------------------------------------------------------------------------
(* Finite sets of values                                                   *)

\* The values of a function at finitely many places are finitely many.
LEMMA FiniteImage ==
  ASSUME NEW S, IsFiniteSet(S), NEW f
  PROVE  IsFiniteSet({f[x] : x \in S})
<1> DEFINE T == {f[x] : x \in S}
           g == [x \in S |-> f[x]]
<1>1. g \in Surjection(S, T)
  BY DEF Surjection
<1>2. IsFiniteSet(S)
  OBVIOUS
<1> HIDE DEF T, g
<1>3. IsFiniteSet(T)
  BY <1>1, <1>2, FS_Surjection
<1> QED BY <1>3 DEF T

\* A finite set of integers has a greatest and a least one.
LEMMA FiniteExtremes ==
  ASSUME NEW S, IsFiniteSet(S), S \subseteq Int, S # {}
  PROVE  /\ \E m \in S : \A x \in S : x <= m
         /\ \E m \in S : \A x \in S : m <= x
<1> DEFINE Bounded(T) == (\E m \in T : \A x \in T : x <= m) /\ (\E n \in T : \A x \in T : n <= x)
           P == {T \in SUBSET S : T # {} => Bounded(T)}
<1>1. {} \in P
  OBVIOUS
<1>2. ASSUME NEW T \in SUBSET S, NEW y \in S \ T, T \in P PROVE T \cup {y} \in P
  <2>1. y \in Int /\ \A x \in T : x \in Int
    OBVIOUS
  <2>2. CASE T = {}
    BY <2>1, <2>2
  <2>3. CASE T # {}
    <3>1. PICK m \in T : \A x \in T : x <= m
      BY <1>2, <2>3
    <3>2. PICK l \in T : \A x \in T : l <= x
      BY <1>2, <2>3
    <3>3. \E n \in T \cup {y} : \A x \in T \cup {y} : x <= n
      <4>1. CASE y <= m
        BY <2>1, <3>1, <4>1
      <4>2. CASE m <= y
        <5>1. \A x \in T \cup {y} : x <= y
          BY <2>1, <3>1, <4>2
        <5> QED BY <5>1
      <4> QED BY <2>1, <4>1, <4>2
    <3>4. \E n \in T \cup {y} : \A x \in T \cup {y} : n <= x
      <4>1. CASE l <= y
        BY <2>1, <3>2, <4>1
      <4>2. CASE y <= l
        <5>1. \A x \in T \cup {y} : y <= x
          BY <2>1, <3>2, <4>2
        <5> QED BY <5>1
      <4> QED BY <2>1, <4>1, <4>2
    <3> QED BY <3>3, <3>4
  <2> QED BY <2>2, <2>3
<1>3. S \in P
  <2> HIDE DEF P
  <2> QED BY <1>1, <1>2, SetInduction
<1> QED BY <1>3

\* An optional number is a finite set.
LEMMA FiniteOptional ==
  ASSUME NEW S, \A x, y \in S : x = y
  PROVE  IsFiniteSet(S)
<1>1. CASE S = {}
  BY <1>1, FS_EmptySet
<1>2. CASE S # {}
  <2>1. PICK x \in S : TRUE
    BY <1>2
  <2>2. S = {x}
    BY <2>1
  <2> QED BY <2>2, FS_Singleton
<1> QED BY <1>1, <1>2

\* The sum over a function's whole domain.
LEMMA SumFunctionIs == \A f : SumFunction(f) = SumFunctionOnSet(f, DOMAIN f)
BY DEF SumFunction, FoldFunction, SumFunctionOnSet

----------------------------------------------------------------------------
(* Steps                                                                   *)

Steps(N, D, A, F, g) ==
  g \in [0..N -> D] /\ g[0] = A /\ \A n \in 1..N : g[n] = F[g[n - 1]]

\* Applying F again and again defines a sequence of values.
LEMMA StepsExist ==
  ASSUME NEW N, N \in Nat, NEW D, NEW A, A \in D, NEW F, \A x \in D : F[x] \in D
  PROVE  \E g : Steps(N, D, A, F, g)
<1> USE DEF Steps
<1> DEFINE Runs(n, g) == g[0] = A /\ \A m \in 1..n : g[m] = F[g[m - 1]]
           P == {n \in Nat : \E g \in [0..n -> D] : Runs(n, g)}
<1>1. 0 \in P
  <2>1. [k \in 0..0 |-> A] \in [0..0 -> D] /\ Runs(0, [k \in 0..0 |-> A])
    OBVIOUS
  <2> QED BY <2>1
<1>2. ASSUME NEW n \in Nat, n \in P PROVE n + 1 \in P
  <2>1. PICK g \in [0..n -> D] : Runs(n, g)
    BY <1>2
  <2> DEFINE h == [k \in 0..(n + 1) |-> IF k = n + 1 THEN F[g[n]] ELSE g[k]]
  <2>2. h \in [0..(n + 1) -> D]
    OBVIOUS
  <2>3. \A k \in 0..n : h[k] = g[k]
    OBVIOUS
  <2>4. h[n + 1] = F[g[n]]
    OBVIOUS
  <2> HIDE DEF h
  <2>5. h[0] = A
    BY <2>1, <2>3
  <2>6. ASSUME NEW m \in 1..(n + 1) PROVE h[m] = F[h[m - 1]]
    <3>1. CASE m = n + 1
      BY <2>3, <2>4, <3>1
    <3>2. CASE m # n + 1
      <4>1. m \in 1..n /\ m - 1 \in 0..n /\ m \in 0..n
        BY <3>2
      <4> QED BY <2>1, <2>3, <4>1
    <3> QED BY <3>1, <3>2
  <2> QED BY <2>2, <2>5, <2>6
<1> HIDE DEF P
<1>3. N \in P
  BY <1>1, <1>2, NumberInduction
<1> QED BY <1>3 DEF P

----------------------------------------------------------------------------
(* Flows                                                                   *)

\* The arcs from A to B.
Across(A, B) == A \X B

\* What leaves v, counted against what enters it.
Row(V, v) == Across({v}, V \ {v})

\* sent is a flow of the value total from s to t: what goes one way comes back
\* negative, and what a vertex between receives it passes on.
IsFlow(V, s, t, sent, total) ==
  /\ \A u, v \in V : sent[<<u, v>>] \in Int
  /\ \A u, v \in V : u # v => sent[<<u, v>>] = -sent[<<v, u>>]
  /\ \A v \in V \ {s, t} : SumFunctionOnSet(sent, Row(V, v)) = 0
  /\ SumFunctionOnSet(sent, Row(V, s)) = total

\* A cut is a set of vertices with s and without t.
IsCut(V, s, t, S) == S \subseteq V /\ s \in S /\ t \notin S

\* Arcs between finitely many vertices are finitely many.
LEMMA ArcsAreFinite ==
  ASSUME NEW V, IsFiniteSet(V), NEW A \in SUBSET V, NEW B \in SUBSET V
  PROVE  IsFiniteSet(Across(A, B))
BY FS_Subset, FS_Product DEF Across

\* No ends, no arcs.
LEMMA NoArcs == \A A : Across({}, A) = {} /\ Across(A, {}) = {}
BY DEF Across

\* Values on arcs between vertices are values on pairs of vertices.
LEMMA ArcValues ==
  ASSUME NEW V, NEW f, \A u, v \in V : f[<<u, v>>] \in Int, NEW A \in SUBSET V, NEW B \in SUBSET V
  PROVE  \A y \in Across(A, B) : f[y] \in Int
BY DEF Across

\* Turning the arcs of a set round turns the sign of what is sent on them.
LEMMA SumTurnedRound ==
  ASSUME NEW V, IsFiniteSet(V), NEW sent, NEW x \in V, NEW S \in SUBSET V, x \notin S,
         \A u, v \in V : sent[<<u, v>>] \in Int,
         \A u, v \in V : u # v => sent[<<u, v>>] = -sent[<<v, u>>]
  PROVE  SumFunctionOnSet(sent, Across(S, {x})) + SumFunctionOnSet(sent, Across({x}, S)) = 0
<1> DEFINE P == {T \in SUBSET S : SumFunctionOnSet(sent, Across(T, {x}))
                                   + SumFunctionOnSet(sent, Across({x}, T)) = 0}
<1>1. {} \in P
  <2>1. Across({}, {x}) = {} /\ Across({x}, {}) = {}
    BY NoArcs
  <2>2. SumFunctionOnSet(sent, Across({}, {x})) = 0 /\ SumFunctionOnSet(sent, Across({x}, {})) = 0
    BY <2>1, SumOfNothing
  <2> QED BY <2>2
<1>2. ASSUME NEW T \in SUBSET S, NEW y \in S \ T, T \in P PROVE T \cup {y} \in P
  <2> DEFINE A == Across(T, {x})
             B == Across({x}, T)
  <2>1. T \in SUBSET V /\ {y} \in SUBSET V /\ {x} \in SUBSET V /\ T \cap {y} = {} /\ y \in V /\ x # y
    OBVIOUS
  <2>2. IsFiniteSet(A) /\ IsFiniteSet(B)
    BY <2>1, ArcsAreFinite
  <2>3. Across(T \cup {y}, {x}) = A \cup {<<y, x>>} /\ A \cap {<<y, x>>} = {}
    BY <2>1 DEF Across
  <2>4. Across({x}, T \cup {y}) = B \cup {<<x, y>>} /\ B \cap {<<x, y>>} = {}
    BY <2>1 DEF Across
  <2>5. (\A z \in A : sent[z] \in Int) /\ (\A z \in B : sent[z] \in Int)
    BY <2>1, ArcValues
  <2>6. sent[<<y, x>>] \in Int /\ sent[<<x, y>>] \in Int /\ sent[<<y, x>>] = -sent[<<x, y>>]
    BY <2>1
  <2>7. SumFunctionOnSet(sent, A) + SumFunctionOnSet(sent, B) = 0
    BY <1>2
  <2> HIDE DEF A, B
  <2>8. SumFunctionOnSet(sent, A \cup {<<y, x>>}) = sent[<<y, x>>] + SumFunctionOnSet(sent, A)
    <3>1. <<y, x>> \notin A
      BY <2>3
    <3> QED BY <2>2, <2>5, <2>6, <3>1, SumWithElement
  <2>9. SumFunctionOnSet(sent, B \cup {<<x, y>>}) = sent[<<x, y>>] + SumFunctionOnSet(sent, B)
    <3>1. <<x, y>> \notin B
      BY <2>4
    <3> QED BY <2>2, <2>5, <2>6, <3>1, SumWithElement
  <2>10. SumFunctionOnSet(sent, A) \in Int /\ SumFunctionOnSet(sent, B) \in Int
    BY <2>2, <2>5, SumType
  <2>11. SumFunctionOnSet(sent, A \cup {<<y, x>>}) + SumFunctionOnSet(sent, B \cup {<<x, y>>}) = 0
    BY <2>6, <2>7, <2>8, <2>9, <2>10
  <2> QED BY <2>3, <2>4, <2>11
<1>3. S \in P
  <2> HIDE DEF P
  <2> QED BY <1>1, <1>2, FS_Subset, SetInduction
<1> QED BY <1>3

\* What leaves a set of vertices is what its members send out of themselves.
LEMMA SumLeaving ==
  ASSUME NEW V, IsFiniteSet(V), NEW sent, NEW f, NEW S \in SUBSET V,
         \A u, v \in V : sent[<<u, v>>] \in Int,
         \A u, v \in V : u # v => sent[<<u, v>>] = -sent[<<v, u>>],
         \A v \in S : f[v] = SumFunctionOnSet(sent, Row(V, v))
  PROVE  SumFunctionOnSet(sent, Across(S, V \ S)) = SumFunctionOnSet(f, S)
<1> DEFINE P == {T \in SUBSET S : SumFunctionOnSet(sent, Across(T, V \ T)) = SumFunctionOnSet(f, T)}
<1>1. {} \in P
  <2>1. Across({}, V \ {}) = {}
    BY NoArcs
  <2>2. SumFunctionOnSet(sent, Across({}, V \ {})) = SumFunctionOnSet(f, {})
    BY <2>1, SumOfNothing
  <2> QED BY <2>2
<1>2. ASSUME NEW T \in SUBSET S, NEW x \in S \ T, T \in P PROVE T \cup {x} \in P
  <2> DEFINE R == V \ (T \cup {x})
             A == Across(T, {x})
             B == Across(T, R)
             C == Across({x}, R)
             D == Across({x}, T)
  <2>0. /\ T \in SUBSET V /\ {x} \in SUBSET V /\ R \in SUBSET V
        /\ x \in V /\ x \notin T /\ {x} \cap R = {} /\ R \cap T = {} /\ T \cap {x} = {}
        /\ V \ T = {x} \cup R /\ V \ {x} = R \cup T
    OBVIOUS
  <2> HIDE DEF R
  <2>1. Across(T, V \ T) = A \cup B /\ A \cap B = {}
    BY <2>0 DEF Across
  <2>2. Across(T \cup {x}, R) = B \cup C /\ B \cap C = {}
    BY <2>0 DEF Across
  <2>3. Row(V, x) = C \cup D /\ C \cap D = {}
    BY <2>0 DEF Across, Row
  <2>4. IsFiniteSet(A) /\ IsFiniteSet(B) /\ IsFiniteSet(C) /\ IsFiniteSet(D)
    BY <2>0, ArcsAreFinite
  <2>5. /\ \A z \in A : sent[z] \in Int
        /\ \A z \in B : sent[z] \in Int
        /\ \A z \in C : sent[z] \in Int
        /\ \A z \in D : sent[z] \in Int
    BY <2>0, ArcValues
  <2>6. SumFunctionOnSet(sent, A) + SumFunctionOnSet(sent, D) = 0
    BY <2>0, SumTurnedRound
  <2> HIDE DEF A, B, C, D
  <2>7. SumFunctionOnSet(sent, A \cup B) = SumFunctionOnSet(sent, A) + SumFunctionOnSet(sent, B)
    BY <2>1, <2>4, <2>5, SumOfUnion
  <2>8. SumFunctionOnSet(sent, B \cup C) = SumFunctionOnSet(sent, B) + SumFunctionOnSet(sent, C)
    BY <2>2, <2>4, <2>5, SumOfUnion
  <2>9. SumFunctionOnSet(sent, C \cup D) = SumFunctionOnSet(sent, C) + SumFunctionOnSet(sent, D)
    BY <2>3, <2>4, <2>5, SumOfUnion
  <2>10. /\ SumFunctionOnSet(sent, A) \in Int /\ SumFunctionOnSet(sent, B) \in Int
         /\ SumFunctionOnSet(sent, C) \in Int /\ SumFunctionOnSet(sent, D) \in Int
    BY <2>4, <2>5, SumType
  <2>11. f[x] = SumFunctionOnSet(sent, C) + SumFunctionOnSet(sent, D)
    BY <2>3, <2>9
  <2>12. SumFunctionOnSet(f, T \cup {x}) = f[x] + SumFunctionOnSet(f, T)
    <3>1. \A y \in S : f[y] \in Int
      <4> TAKE y \in S
      <4>1. {y} \in SUBSET V /\ V \ {y} \in SUBSET V
        OBVIOUS
      <4>2. IsFiniteSet(Row(V, y)) /\ \A z \in Row(V, y) : sent[z] \in Int
        BY <4>1, ArcsAreFinite, ArcValues DEF Row
      <4> QED BY <4>2, SumType
    <3> QED BY <2>0, <3>1, FS_Subset, SumWithElement
  <2>13. SumFunctionOnSet(sent, A \cup B) = SumFunctionOnSet(f, T)
    BY <1>2, <2>1
  <2>14. SumFunctionOnSet(sent, B \cup C) = SumFunctionOnSet(f, T \cup {x})
    BY <2>6, <2>7, <2>8, <2>10, <2>11, <2>12, <2>13
  <2> QED BY <2>2, <2>14 DEF R
<1>3. S \in P
  <2> HIDE DEF P
  <2> QED BY <1>1, <1>2, FS_Subset, SetInduction
<1> QED BY <1>3

\* Every cut carries the whole flow.
LEMMA CutCarriesFlow ==
  ASSUME NEW V, IsFiniteSet(V), NEW s, NEW t, NEW sent, NEW total, IsFlow(V, s, t, sent, total),
         NEW S, IsCut(V, s, t, S)
  PROVE  SumFunctionOnSet(sent, Across(S, V \ S)) = total
<1> DEFINE f == [v \in V |-> SumFunctionOnSet(sent, Row(V, v))]
<1>1. S \in SUBSET V /\ s \in S /\ t \notin S /\ IsFiniteSet(S)
  BY FS_Subset DEF IsCut
<1>2. SumFunctionOnSet(sent, Across(S, V \ S)) = SumFunctionOnSet(f, S)
  BY <1>1, SumLeaving DEF IsFlow
<1>3. f[s] = total /\ \A v \in S \ {s} : f[v] = 0
  BY <1>1 DEF IsFlow
<1>4. f[s] \in Int
  <2>1. {s} \in SUBSET V /\ V \ {s} \in SUBSET V
    BY <1>1
  <2>2. IsFiniteSet(Row(V, s)) /\ \A y \in Row(V, s) : sent[y] \in Int
    BY <2>1, ArcsAreFinite, ArcValues DEF Row, IsFlow
  <2> QED BY <1>1, <2>2, SumType
<1> HIDE DEF f
<1> QED BY <1>1, <1>2, <1>3, <1>4, SumAtPlace

\* No flow within the capacities exceeds a cut.
LEMMA FlowBelowCut ==
  ASSUME NEW V, IsFiniteSet(V), NEW s, NEW t, NEW sent, NEW total, IsFlow(V, s, t, sent, total),
         NEW c, \A u, v \in V : c[<<u, v>>] \in Int /\ sent[<<u, v>>] <= c[<<u, v>>],
         NEW S, IsCut(V, s, t, S)
  PROVE  total <= SumFunctionOnSet(c, Across(S, V \ S))
<1>1. IsFiniteSet(Across(S, V \ S))
  BY ArcsAreFinite DEF IsCut
<1>2. \A y \in Across(S, V \ S) : sent[y] \in Int /\ c[y] \in Int /\ sent[y] <= c[y]
  BY DEF Across, IsCut, IsFlow
<1>3. SumFunctionOnSet(sent, Across(S, V \ S)) <= SumFunctionOnSet(c, Across(S, V \ S))
  BY <1>1, <1>2, SumOfLess
<1> QED BY <1>3, CutCarriesFlow

\* A flow that fills a cut is as large as it.
LEMMA FlowFillsCut ==
  ASSUME NEW V, IsFiniteSet(V), NEW s, NEW t, NEW sent, NEW total, IsFlow(V, s, t, sent, total),
         NEW S, IsCut(V, s, t, S),
         NEW c, \A u \in S, v \in V \ S : c[<<u, v>>] = sent[<<u, v>>]
  PROVE  total = SumFunctionOnSet(c, Across(S, V \ S))
<1>1. IsFiniteSet(Across(S, V \ S))
  BY ArcsAreFinite DEF IsCut
<1>2. \A y \in Across(S, V \ S) : sent[y] \in Int /\ c[y] = sent[y]
  BY DEF Across, IsCut, IsFlow
<1>3. SumFunctionOnSet(c, Across(S, V \ S)) = SumFunctionOnSet(sent, Across(S, V \ S))
  BY <1>1, <1>2, SumOfEquals
<1> QED BY <1>3, CutCarriesFlow

----------------------------------------------------------------------------
(* Paths                                                                   *)

\* p goes from s to t in n - 1 steps and meets no vertex twice.
IsPath(V, s, t, n, p) ==
  /\ n \in Nat /\ \A i \in 1..n : p[i] \in V
  /\ n >= 1 /\ p[1] = s /\ p[n] = t
  /\ \A i, j \in 1..n : p[i] = p[j] => i = j

PathArcs(n, p) == {<<p[i], p[i + 1]>> : i \in 1..(n - 1)}

\* What a path of d units adds to what is sent on an arc.
Along(n, p, d, u, v) ==
  (IF <<u, v>> \in PathArcs(n, p) THEN d ELSE 0) - (IF <<v, u>> \in PathArcs(n, p) THEN d ELSE 0)

\* A path leaves each of its vertices but the last on one arc.
LEMMA PathLeaves ==
  ASSUME NEW V, IsFiniteSet(V), NEW s, NEW t, NEW n, NEW p, IsPath(V, s, t, n, p), NEW v \in V,
         NEW d \in Int, NEW f,
         \A w \in V : f[<<v, w>>] = IF <<v, w>> \in PathArcs(n, p) THEN d ELSE 0
  PROVE  SumFunctionOnSet(f, Row(V, v)) = IF \E i \in 1..(n - 1) : v = p[i] THEN d ELSE 0
<1>1. IsFiniteSet(Row(V, v))
  BY ArcsAreFinite DEF Row
<1>2. \A y \in Row(V, v) : \E w \in V : y = <<v, w>>
  BY DEF Row, Across
<1>3. CASE \E i \in 1..(n - 1) : v = p[i]
  <2>1. PICK i \in 1..(n - 1) : v = p[i]
    BY <1>3
  <2>2. n \in Nat /\ i \in 1..n /\ i + 1 \in 1..n /\ i # i + 1
    BY DEF IsPath
  <2>3. p[i + 1] \in V /\ p[i + 1] # v
    BY <2>1, <2>2 DEF IsPath
  <2> DEFINE a == <<v, p[i + 1]>>
  <2>4. a \in Row(V, v) /\ f[a] = d
    BY <2>1, <2>3 DEF Row, Across, PathArcs
  <2>5. ASSUME NEW y \in Row(V, v) \ {a} PROVE f[y] = 0
    <3>1. PICK w \in V : y = <<v, w>>
      BY <1>2
    <3>2. w # p[i + 1]
      BY <3>1
    <3>3. ASSUME <<v, w>> \in PathArcs(n, p) PROVE FALSE
      <4>1. PICK j \in 1..(n - 1) : <<v, w>> = <<p[j], p[j + 1]>>
        BY <3>3 DEF PathArcs
      <4>2. j \in 1..n /\ v = p[j] /\ w = p[j + 1]
        BY <2>2, <4>1
      <4>3. j = i
        BY <2>1, <2>2, <4>2 DEF IsPath
      <4> QED BY <3>2, <4>2, <4>3
    <3> QED BY <3>1, <3>3
  <2> HIDE DEF a
  <2>6. SumFunctionOnSet(f, Row(V, v)) = f[a]
    BY <1>1, <2>4, <2>5, SumAtPlace
  <2> QED BY <1>3, <2>4, <2>6
<1>4. CASE ~ \E i \in 1..(n - 1) : v = p[i]
  <2>1. ASSUME NEW y \in Row(V, v) PROVE f[y] = 0
    <3>1. PICK w \in V : y = <<v, w>>
      BY <1>2
    <3>2. <<v, w>> \notin PathArcs(n, p)
      BY <1>4 DEF PathArcs
    <3> QED BY <3>1, <3>2
  <2>2. SumFunctionOnSet(f, Row(V, v)) = 0
    BY <1>1, <2>1, SumOfZeros
  <2> QED BY <1>4, <2>2
<1> QED BY <1>3, <1>4

\* And it enters each but the first on one arc.
LEMMA PathEnters ==
  ASSUME NEW V, IsFiniteSet(V), NEW s, NEW t, NEW n, NEW p, IsPath(V, s, t, n, p), NEW v \in V,
         NEW d \in Int, NEW f,
         \A w \in V : f[<<v, w>>] = IF <<w, v>> \in PathArcs(n, p) THEN d ELSE 0
  PROVE  SumFunctionOnSet(f, Row(V, v)) = IF \E i \in 1..(n - 1) : v = p[i + 1] THEN d ELSE 0
<1>1. IsFiniteSet(Row(V, v))
  BY ArcsAreFinite DEF Row
<1>2. \A y \in Row(V, v) : \E w \in V : y = <<v, w>>
  BY DEF Row, Across
<1>3. CASE \E i \in 1..(n - 1) : v = p[i + 1]
  <2>1. PICK i \in 1..(n - 1) : v = p[i + 1]
    BY <1>3
  <2>2. n \in Nat /\ i \in 1..n /\ i + 1 \in 1..n /\ i # i + 1
    BY DEF IsPath
  <2>3. p[i] \in V /\ p[i] # v
    BY <2>1, <2>2 DEF IsPath
  <2> DEFINE a == <<v, p[i]>>
  <2>4. a \in Row(V, v) /\ f[a] = d
    BY <2>1, <2>3 DEF Row, Across, PathArcs
  <2>5. ASSUME NEW y \in Row(V, v) \ {a} PROVE f[y] = 0
    <3>1. PICK w \in V : y = <<v, w>>
      BY <1>2
    <3>2. w # p[i]
      BY <3>1
    <3>3. ASSUME <<w, v>> \in PathArcs(n, p) PROVE FALSE
      <4>1. PICK j \in 1..(n - 1) : <<w, v>> = <<p[j], p[j + 1]>>
        BY <3>3 DEF PathArcs
      <4>2. j + 1 \in 1..n /\ w = p[j] /\ v = p[j + 1]
        BY <2>2, <4>1
      <4>3. j + 1 = i + 1
        BY <2>1, <2>2, <4>2 DEF IsPath
      <4>4. j = i
        BY <4>3
      <4> QED BY <3>2, <4>2, <4>4
    <3> QED BY <3>1, <3>3
  <2> HIDE DEF a
  <2>6. SumFunctionOnSet(f, Row(V, v)) = f[a]
    BY <1>1, <2>4, <2>5, SumAtPlace
  <2> QED BY <1>3, <2>4, <2>6
<1>4. CASE ~ \E i \in 1..(n - 1) : v = p[i + 1]
  <2>1. ASSUME NEW y \in Row(V, v) PROVE f[y] = 0
    <3>1. PICK w \in V : y = <<v, w>>
      BY <1>2
    <3>2. <<w, v>> \notin PathArcs(n, p)
      BY <1>4 DEF PathArcs
    <3> QED BY <3>1, <3>2
  <2>2. SumFunctionOnSet(f, Row(V, v)) = 0
    BY <1>1, <2>1, SumOfZeros
  <2> QED BY <1>4, <2>2
<1> QED BY <1>3, <1>4

\* A unit more along a path is a flow of one unit more.
LEMMA PathAddsFlow ==
  ASSUME NEW V, IsFiniteSet(V), NEW s \in V, NEW t \in V, s # t,
         NEW sent, NEW total \in Int, IsFlow(V, s, t, sent, total),
         NEW n, NEW p, IsPath(V, s, t, n, p), NEW d \in Int,
         NEW then, \A u, v \in V : then[<<u, v>>] = sent[<<u, v>>] + Along(n, p, d, u, v)
  PROVE  IsFlow(V, s, t, then, total + d)
<1> DEFINE out == [a \in V \X V |-> IF a \in PathArcs(n, p) THEN d ELSE 0]
           in == [a \in V \X V |-> IF <<a[2], a[1]>> \in PathArcs(n, p) THEN d ELSE 0]
           left(v) == \E i \in 1..(n - 1) : v = p[i]
           entered(v) == \E i \in 1..(n - 1) : v = p[i + 1]
<1>1. /\ \A u, v \in V : out[<<u, v>>] = IF <<u, v>> \in PathArcs(n, p) THEN d ELSE 0
      /\ \A u, v \in V : in[<<u, v>>] = IF <<v, u>> \in PathArcs(n, p) THEN d ELSE 0
  OBVIOUS
<1> HIDE DEF out, in
<1>2. \A u, v \in V : /\ sent[<<u, v>>] \in Int /\ out[<<u, v>>] \in Int /\ in[<<u, v>>] \in Int
                      /\ then[<<u, v>>] = sent[<<u, v>>] + (out[<<u, v>>] - in[<<u, v>>])
                      /\ out[<<u, v>>] = in[<<v, u>>]
  <2> SUFFICES ASSUME NEW u \in V, NEW v \in V
               PROVE  /\ sent[<<u, v>>] \in Int /\ out[<<u, v>>] \in Int /\ in[<<u, v>>] \in Int
                      /\ then[<<u, v>>] = sent[<<u, v>>] + (out[<<u, v>>] - in[<<u, v>>])
                      /\ out[<<u, v>>] = in[<<v, u>>]
    OBVIOUS
  <2>1. sent[<<u, v>>] \in Int
    BY DEF IsFlow
  <2>2. out[<<u, v>>] \in Int /\ in[<<u, v>>] \in Int /\ out[<<u, v>>] = in[<<v, u>>]
    BY <1>1
  <2>3. Along(n, p, d, u, v) = out[<<u, v>>] - in[<<u, v>>]
    BY <1>1 DEF Along
  <2>4. then[<<u, v>>] = sent[<<u, v>>] + Along(n, p, d, u, v)
    OBVIOUS
  <2> QED BY <2>1, <2>2, <2>3, <2>4
<1>3. ASSUME NEW v \in V
      PROVE  SumFunctionOnSet(then, Row(V, v)) =
               SumFunctionOnSet(sent, Row(V, v)) + (IF left(v) THEN d ELSE 0) - (IF entered(v) THEN d ELSE 0)
  <2> DEFINE R == Row(V, v)
             back == [a \in V \X V |-> -in[a]]
             step == [a \in V \X V |-> out[a] + back[a]]
  <2>1. IsFiniteSet(R) /\ \A y \in R : \E w \in V : y = <<v, w>>
    <3>1. IsFiniteSet(R)
      BY ArcsAreFinite DEF Row
    <3>2. \A y \in R : \E w \in V : y = <<v, w>>
      BY DEF Row, Across
    <3> QED BY <3>1, <3>2
  <2>2. \A w \in V : /\ back[<<v, w>>] = -in[<<v, w>>]
                     /\ step[<<v, w>>] = out[<<v, w>>] + back[<<v, w>>]
    OBVIOUS
  <2> HIDE DEF back, step
  <2>3. \A y \in R : /\ sent[y] \in Int /\ out[y] \in Int /\ in[y] \in Int /\ back[y] \in Int
                     /\ step[y] \in Int /\ step[y] = out[y] + back[y]
                     /\ then[y] = sent[y] + step[y] /\ 0 = in[y] + back[y]
    <3> SUFFICES ASSUME NEW y \in R
                 PROVE  /\ sent[y] \in Int /\ out[y] \in Int /\ in[y] \in Int /\ back[y] \in Int
                        /\ step[y] \in Int /\ step[y] = out[y] + back[y]
                        /\ then[y] = sent[y] + step[y] /\ 0 = in[y] + back[y]
      OBVIOUS
    <3>1. PICK w \in V : y = <<v, w>>
      BY <2>1
    <3>2. /\ sent[y] \in Int /\ out[y] \in Int /\ in[y] \in Int
          /\ then[y] = sent[y] + (out[y] - in[y])
      BY <1>2, <3>1
    <3>3. back[y] = -in[y] /\ step[y] = out[y] + back[y]
      BY <2>2, <3>1
    <3> QED BY <3>2, <3>3
  <2>4. SumFunctionOnSet(out, R) = IF left(v) THEN d ELSE 0
    BY <1>1, PathLeaves
  <2>5. SumFunctionOnSet(in, R) = IF entered(v) THEN d ELSE 0
    BY <1>1, PathEnters
  <2> HIDE DEF R, left, entered
  <2>6. SumFunctionOnSet(then, R) = SumFunctionOnSet(sent, R) + SumFunctionOnSet(step, R)
    BY <2>1, <2>3, SumOfPairs
  <2>7. SumFunctionOnSet(step, R) = SumFunctionOnSet(out, R) + SumFunctionOnSet(back, R)
    BY <2>1, <2>3, SumOfPairs
  <2>8. SumFunctionOnSet(in, R) + SumFunctionOnSet(back, R) = 0
    <3> DEFINE z == [y \in R |-> 0]
    <3>1. SumFunctionOnSet(z, R) = 0
      BY <2>1, SumOfZeros
    <3>2. \A y \in R : z[y] = in[y] + back[y]
      BY <2>3
    <3> HIDE DEF z
    <3>3. SumFunctionOnSet(z, R) = SumFunctionOnSet(in, R) + SumFunctionOnSet(back, R)
      BY <2>1, <2>3, <3>2, SumOfPairs
    <3> QED BY <3>1, <3>3
  <2>9. /\ SumFunctionOnSet(sent, R) \in Int /\ SumFunctionOnSet(back, R) \in Int
        /\ SumFunctionOnSet(in, R) \in Int /\ SumFunctionOnSet(out, R) \in Int
    BY <2>1, <2>3, SumType
  <2> QED BY <2>4, <2>5, <2>6, <2>7, <2>8, <2>9 DEF R
<1>4. /\ left(s) /\ ~entered(s)
      /\ \A v \in V \ {s, t} : left(v) <=> entered(v)
  <2>1. n \in Nat /\ n >= 2 /\ p[1] = s /\ p[n] = t /\ \A i, j \in 1..n : p[i] = p[j] => i = j
    BY DEF IsPath
  <2>2. left(s)
    <3>1. 1 \in 1..(n - 1)
      BY <2>1
    <3> QED BY <2>1, <3>1
  <2>3. ~entered(s)
    <3> SUFFICES ASSUME NEW i \in 1..(n - 1), p[1] = p[i + 1] PROVE FALSE
      BY <2>1
    <3>1. 1 \in 1..n /\ i + 1 \in 1..n /\ i + 1 # 1
      BY <2>1
    <3> QED BY <2>1, <3>1
  <2>4. ASSUME NEW v \in V, v # s, v # t, left(v) PROVE entered(v)
    <3>1. PICK i \in 1..(n - 1) : v = p[i]
      BY <2>4
    <3>2. i # 1
      BY <2>1, <2>4, <3>1
    <3>3. i - 1 \in 1..(n - 1) /\ (i - 1) + 1 = i
      BY <2>1, <3>2
    <3> QED BY <3>1, <3>3
  <2>5. ASSUME NEW v \in V, v # s, v # t, entered(v) PROVE left(v)
    <3>1. PICK i \in 1..(n - 1) : v = p[i + 1]
      BY <2>5
    <3>2. i + 1 # n
      BY <2>1, <2>5, <3>1
    <3>3. i + 1 \in 1..(n - 1)
      BY <2>1, <3>2
    <3> QED BY <3>1, <3>3
  <2> QED BY <2>2, <2>3, <2>4, <2>5
<1> HIDE DEF left, entered
<1>5. \A u, v \in V : then[<<u, v>>] \in Int
  <2> SUFFICES ASSUME NEW u \in V, NEW v \in V PROVE then[<<u, v>>] \in Int
    OBVIOUS
  <2>1. /\ then[<<u, v>>] = sent[<<u, v>>] + (out[<<u, v>>] - in[<<u, v>>])
        /\ sent[<<u, v>>] \in Int /\ out[<<u, v>>] \in Int /\ in[<<u, v>>] \in Int
    BY <1>2
  <2> QED BY <2>1
<1>6. \A u, v \in V : u # v => then[<<u, v>>] = -then[<<v, u>>]
  <2> SUFFICES ASSUME NEW u \in V, NEW v \in V, u # v PROVE then[<<u, v>>] = -then[<<v, u>>]
    OBVIOUS
  <2>1. sent[<<u, v>>] = -sent[<<v, u>>]
    BY DEF IsFlow
  <2>2. /\ then[<<u, v>>] = sent[<<u, v>>] + (out[<<u, v>>] - in[<<u, v>>])
        /\ then[<<v, u>>] = sent[<<v, u>>] + (out[<<v, u>>] - in[<<v, u>>])
        /\ out[<<u, v>>] = in[<<v, u>>] /\ out[<<v, u>>] = in[<<u, v>>]
    BY <1>2
  <2>3. /\ sent[<<v, u>>] \in Int /\ in[<<u, v>>] \in Int /\ in[<<v, u>>] \in Int
    BY <1>2
  <2> QED BY <2>1, <2>2, <2>3
<1>7. \A v \in V \ {s, t} : SumFunctionOnSet(then, Row(V, v)) = 0
  <2> SUFFICES ASSUME NEW v \in V \ {s, t} PROVE SumFunctionOnSet(then, Row(V, v)) = 0
    OBVIOUS
  <2>1. SumFunctionOnSet(sent, Row(V, v)) = 0
    BY DEF IsFlow
  <2> QED BY <1>3, <1>4, <2>1
<1>8. SumFunctionOnSet(then, Row(V, s)) = total + d
  <2>1. SumFunctionOnSet(sent, Row(V, s)) = total
    BY DEF IsFlow
  <2> QED BY <1>3, <1>4, <2>1
<1> QED BY <1>5, <1>6, <1>7, <1>8 DEF IsFlow

----------------------------------------------------------------------------
(* Search                                                                  *)

\* R[k] is what can be reached from s in k arcs on which r leaves something.
Reaches(V, s, r, N, R) ==
  /\ R[0] = {s}
  /\ \A k \in 1..N : R[k] = UNION {{v \in V : v = u \/ r[<<u, v>>] > 0} : u \in R[k - 1]}

\* What is reached stays within the vertices and is never lost.
LEMMA ReachGrows ==
  ASSUME NEW V, NEW s \in V, NEW r, NEW N \in Nat, NEW R, Reaches(V, s, r, N, R)
  PROVE  /\ \A k \in 0..N : R[k] \subseteq V
         /\ \A i, k \in 0..N : i <= k => R[i] \subseteq R[k]
<1> DEFINE P == {k \in Nat : k <= N => R[k] \subseteq V /\ \A i \in 0..k : R[i] \subseteq R[k]}
<1>1. 0 \in P
  BY DEF Reaches
<1>2. ASSUME NEW k \in Nat, k \in P PROVE k + 1 \in P
  <2> SUFFICES ASSUME k + 1 <= N
               PROVE  R[k + 1] \subseteq V /\ \A i \in 0..(k + 1) : R[i] \subseteq R[k + 1]
    OBVIOUS
  <2>1. k + 1 \in 1..N /\ (k + 1) - 1 = k /\ k <= N
    OBVIOUS
  <2>2. R[k] \subseteq V /\ \A i \in 0..k : R[i] \subseteq R[k]
    BY <1>2, <2>1
  <2>3. R[k + 1] = UNION {{v \in V : v = u \/ r[<<u, v>>] > 0} : u \in R[k]}
    BY <2>1 DEF Reaches
  <2>4. R[k + 1] \subseteq V /\ R[k] \subseteq R[k + 1]
    <3> DEFINE near(u) == {v \in V : v = u \/ r[<<u, v>>] > 0}
    <3>1. \A u \in R[k] : near(u) \subseteq V /\ u \in near(u)
      BY <2>2
    <3>2. R[k + 1] = UNION {near(u) : u \in R[k]}
      BY <2>3
    <3> HIDE DEF near
    <3> QED BY <3>1, <3>2
  <2>5. \A i \in 0..(k + 1) : i \in 0..k \/ i = k + 1
    OBVIOUS
  <2> QED BY <2>2, <2>4, <2>5
<1> HIDE DEF P
<1>3. \A k \in Nat : k \in P
  BY <1>1, <1>2, NumberInduction
<1> QED BY <1>3 DEF P

\* After as many arcs as there are vertices nothing more can be reached.
LEMMA ReachEnds ==
  ASSUME NEW V, IsFiniteSet(V), NEW s \in V, NEW r, NEW R, Reaches(V, s, r, Cardinality(V), R)
  PROVE  \A u \in R[Cardinality(V)], v \in V : r[<<u, v>>] > 0 => v \in R[Cardinality(V)]
<1> DEFINE N == Cardinality(V)
           Closed(k) == \A u \in R[k], v \in V : r[<<u, v>>] > 0 => v \in R[k]
           P == {k \in Nat : k <= N => Closed(k) \/ Cardinality(R[k]) > k}
<1>1. N \in Nat
  BY FS_CardinalityType
<1>2. /\ \A k \in 0..N : R[k] \subseteq V
      /\ \A i, k \in 0..N : i <= k => R[i] \subseteq R[k]
  BY <1>1, ReachGrows
<1>3. Reaches(V, s, r, N, R)
  OBVIOUS
<1> HIDE DEF N
<1>4. \A k \in 0..N : IsFiniteSet(R[k]) /\ Cardinality(R[k]) \in Nat
  BY <1>2, FS_Subset, FS_CardinalityType
<1>5. 0 \in P
  <2>1. R[0] = {s}
    BY <1>3 DEF Reaches
  <2>2. Cardinality(R[0]) = 1
    BY <2>1, FS_Singleton
  <2> QED BY <2>2
<1>6. ASSUME NEW k \in Nat, k \in P PROVE k + 1 \in P
  <2> SUFFICES ASSUME k + 1 <= N PROVE Closed(k + 1) \/ Cardinality(R[k + 1]) > k + 1
    OBVIOUS
  <2>1. k + 1 \in 1..N /\ (k + 1) - 1 = k /\ k <= N /\ k \in 0..N /\ k + 1 \in 0..N
    BY <1>1
  <2>2. R[k + 1] = UNION {{v \in V : v = u \/ r[<<u, v>>] > 0} : u \in R[k]}
    BY <1>3, <2>1 DEF Reaches
  <2>3. R[k] \subseteq R[k + 1] /\ R[k] \subseteq V
    BY <1>2, <2>1
  <2>4. CASE R[k + 1] = R[k]
    <3>1. ASSUME NEW u \in R[k], NEW v \in V, r[<<u, v>>] > 0 PROVE v \in R[k + 1]
      BY <2>2, <3>1
    <3>2. Closed(k + 1)
      BY <2>4, <3>1
    <3> QED BY <3>2
  <2>5. CASE R[k + 1] # R[k]
    <3>1. ~Closed(k)
      BY <2>2, <2>3, <2>5
    <3>2. Cardinality(R[k]) > k
      BY <1>6, <2>1, <3>1
    <3>3. Cardinality(R[k]) <= Cardinality(R[k + 1]) /\ Cardinality(R[k]) # Cardinality(R[k + 1])
      BY <1>4, <2>1, <2>3, <2>5, FS_Subset
    <3>4. Cardinality(R[k]) \in Nat /\ Cardinality(R[k + 1]) \in Nat
      BY <1>4, <2>1
    <3> QED BY <3>2, <3>3, <3>4
  <2> QED BY <2>4, <2>5
<1> HIDE DEF P
<1>7. N \in P
  BY <1>1, <1>5, <1>6, NumberInduction
<1>8. Closed(N) \/ Cardinality(R[N]) > N
  BY <1>1, <1>7 DEF P
<1>9. R[N] \subseteq V
  BY <1>1, <1>2
<1>10. Cardinality(R[N]) <= N
  BY <1>9, FS_Subset DEF N
<1>11. Cardinality(R[N]) \in Nat
  BY <1>1, <1>4
<1>12. Closed(N)
  BY <1>1, <1>8, <1>10, <1>11
<1> QED BY <1>12 DEF N

\* Q[k] are walks of k arcs, each arc to a vertex that cannot be reached earlier.
Walks(s, r, L, R, Q) ==
  /\ Q[0] = {<<s>>}
  /\ \A k \in 1..L :
       Q[k] = UNION {{Append(p, v) : v \in {x \in R[k] \ R[k - 1] : r[<<p[k], x>>] > 0}} : p \in Q[k - 1]}

\* Such a walk is a path.
LEMMA WalksArePaths ==
  ASSUME NEW V, NEW s \in V, NEW r, NEW N \in Nat, NEW R, Reaches(V, s, r, N, R),
         NEW L \in 0..N, NEW Q, Walks(s, r, L, R, Q), NEW p \in Q[L]
  PROVE  /\ p \in Seq(V) /\ Len(p) = L + 1
         /\ IsPath(V, s, p[L + 1], L + 1, p)
         /\ \A i \in 1..L : r[<<p[i], p[i + 1]>>] > 0
<1> DEFINE Walk(k, q) ==
             /\ q \in Seq(V) /\ Len(q) = k + 1 /\ q[1] = s
             /\ \A i \in 1..k : q[i + 1] \in R[i] \ R[i - 1] /\ r[<<q[i], q[i + 1]>>] > 0
           P == {k \in Nat : k <= L => \A q \in Q[k] : Walk(k, q)}
<1>1. 0 \in P
  <2>1. Q[0] = {<<s>>}
    BY DEF Walks
  <2>2. <<s>> \in Seq(V) /\ Len(<<s>>) = 1 /\ <<s>>[1] = s
    OBVIOUS
  <2>3. Walk(0, <<s>>)
    BY <2>2
  <2> HIDE DEF Walk
  <2> QED BY <2>1, <2>3
<1>2. /\ \A k \in 0..N : R[k] \subseteq V
      /\ \A i, k \in 0..N : i <= k => R[i] \subseteq R[k]
  BY ReachGrows
<1>3. ASSUME NEW k \in Nat, k \in P PROVE k + 1 \in P
  <2> SUFFICES ASSUME k + 1 <= L, NEW q \in Q[k + 1] PROVE Walk(k + 1, q)
    OBVIOUS
  <2>1. k + 1 \in 1..L /\ (k + 1) - 1 = k /\ k <= L /\ k + 1 \in 0..N
    OBVIOUS
  <2>2. Q[k + 1] = UNION {{Append(o, v) : v \in {x \in R[k + 1] \ R[k] : r[<<o[k + 1], x>>] > 0}} : o \in Q[k]}
    <3> DEFINE m == k + 1
               More(i, j) == UNION {{Append(o, v) : v \in {x \in R[i] \ R[j] : r[<<o[i], x>>] > 0}} : o \in Q[j]}
    <3>1. m \in 1..L /\ m - 1 = k
      BY <2>1
    <3>2. \A i \in 1..L : Q[i] = More(i, i - 1)
      BY DEF Walks
    <3>3. Q[m] = More(m, k)
      <4> HIDE DEF m, More
      <4>1. Q[m] = More(m, m - 1)
        BY <3>1, <3>2
      <4> QED BY <3>1, <4>1
    <3> QED BY <3>3
  <2>3. PICK o \in Q[k], v \in R[k + 1] \ R[k] : q = Append(o, v) /\ r[<<o[k + 1], v>>] > 0
    BY <2>2
  <2>4. Walk(k, o)
    BY <1>3, <2>1
  <2>5. v \in V
    BY <1>2, <2>1
  <2>6. /\ q \in Seq(V) /\ Len(q) = k + 2 /\ q[k + 2] = v
        /\ \A i \in 1..(k + 1) : q[i] = o[i]
    BY <2>3, <2>4, <2>5
  <2>7. ASSUME NEW i \in 1..(k + 1)
        PROVE  q[i + 1] \in R[i] \ R[i - 1] /\ r[<<q[i], q[i + 1]>>] > 0
    <3>1. CASE i = k + 1
      <4>1. q[i] = o[k + 1] /\ q[i + 1] = v /\ R[i] = R[k + 1] /\ R[i - 1] = R[k]
        BY <2>6, <3>1
      <4> QED BY <2>3, <4>1
    <3>2. CASE i # k + 1
      <4>1. i \in 1..k /\ i + 1 \in 1..(k + 1)
        BY <3>2
      <4>2. q[i] = o[i] /\ q[i + 1] = o[i + 1]
        BY <2>6, <4>1
      <4> QED BY <2>4, <4>1, <4>2
    <3> QED BY <3>1, <3>2
  <2>8. q[1] = s /\ Len(q) = (k + 1) + 1
    BY <2>4, <2>6
  <2> QED BY <2>6, <2>7, <2>8
<1> HIDE DEF P
<1>4. \A k \in Nat : k \in P
  BY <1>1, <1>3, NumberInduction
<1>5. Walk(L, p)
  BY <1>4 DEF P
<1>6. ASSUME NEW i \in 1..(L + 1), NEW j \in 1..(L + 1), i < j PROVE p[i] # p[j]
  <2>1. p[i] \in R[i - 1]
    <3>1. CASE i = 1
      BY <1>5, <3>1 DEF Reaches
    <3>2. CASE i # 1
      <4>1. i - 1 \in 1..L /\ (i - 1) + 1 = i
        BY <3>2
      <4> QED BY <1>5, <4>1
    <3> QED BY <3>1, <3>2
  <2>2. j - 1 \in 1..L /\ (j - 1) + 1 = j
    BY <1>6
  <2>3. p[j] \notin R[(j - 1) - 1]
    BY <1>5, <2>2
  <2>4. i - 1 \in 0..N /\ (j - 1) - 1 \in 0..N /\ i - 1 <= (j - 1) - 1
    BY <1>6
  <2>5. R[i - 1] \subseteq R[(j - 1) - 1]
    BY <1>2, <2>4
  <2> QED BY <2>1, <2>3, <2>5
<1>7. IsPath(V, s, p[L + 1], L + 1, p)
  <2>1. \A i \in 1..(L + 1) : p[i] \in V
    BY <1>5
  <2>2. \A i, j \in 1..(L + 1) : p[i] = p[j] => i = j
    <3> SUFFICES ASSUME NEW i \in 1..(L + 1), NEW j \in 1..(L + 1), p[i] = p[j] PROVE i = j
      OBVIOUS
    <3>1. ~(i < j) /\ ~(j < i)
      BY <1>6
    <3> QED BY <3>1
  <2> QED BY <1>5, <2>1, <2>2 DEF IsPath
<1> QED BY <1>5, <1>7

NumberedSteps(N, D, A, F, g) ==
  g \in [0..N -> D] /\ g[0] = A /\ \A n \in 1..N : g[n] = F[n][g[n - 1]]

\* So does applying a different function at each step.
LEMMA NumberedStepsExist ==
  ASSUME NEW N \in Nat, NEW D, NEW A \in D, NEW F, \A n \in Nat : \A x \in D : F[n][x] \in D
  PROVE  \E g : NumberedSteps(N, D, A, F, g)
<1> DEFINE E == Nat \X D
           G == [q \in E |-> <<q[1] + 1, F[q[1] + 1][q[2]]>>]
<1>1. \A q \in E : G[q] \in E
  OBVIOUS
<1>2. <<0, A>> \in E
  OBVIOUS
<1>3. \A n \in Nat, x \in D : G[<<n, x>>] = <<n + 1, F[n + 1][x]>>
  OBVIOUS
<1> HIDE DEF G
<1>4. PICK h : Steps(N, E, <<0, A>>, G, h)
  <2> HIDE DEF E
  <2> QED BY <1>1, <1>2, StepsExist
<1>5. h \in [0..N -> E] /\ h[0] = <<0, A>> /\ \A n \in 1..N : h[n] = G[h[n - 1]]
  BY <1>4 DEF Steps
<1> DEFINE P == {n \in Nat : n <= N => h[n][1] = n}
<1>6. 0 \in P
  BY <1>5
<1>7. ASSUME NEW n \in Nat, n \in P PROVE n + 1 \in P
  <2> SUFFICES ASSUME n + 1 <= N PROVE h[n + 1][1] = n + 1
    OBVIOUS
  <2>1. n + 1 \in 1..N /\ (n + 1) - 1 = n /\ n \in 0..N
    OBVIOUS
  <2>2. h[n][1] = n /\ h[n] \in E
    BY <1>5, <1>7, <2>1
  <2>3. h[n] = <<n, h[n][2]>> /\ h[n][2] \in D
    BY <2>2
  <2>4. h[n + 1] = G[h[n]]
    BY <1>5, <2>1
  <2>5. G[h[n]] = <<n + 1, F[n + 1][h[n][2]]>>
    BY <1>3, <2>3
  <2> QED BY <2>4, <2>5
<1> HIDE DEF P
<1>8. \A n \in 0..N : h[n] = <<n, h[n][2]>> /\ h[n][2] \in D
  <2> TAKE n \in 0..N
  <2>1. n \in P
    BY <1>6, <1>7, NumberInduction
  <2>2. h[n][1] = n /\ h[n] \in E
    BY <1>5, <2>1 DEF P
  <2> QED BY <2>2
<1> DEFINE g == [n \in 0..N |-> h[n][2]]
<1>9. g \in [0..N -> D]
  BY <1>8
<1>10. g[0] = A
  BY <1>5
<1>11. ASSUME NEW n \in 1..N PROVE g[n] = F[n][g[n - 1]]
  <2>1. n - 1 \in 0..N /\ n \in 0..N /\ (n - 1) + 1 = n /\ n - 1 \in Nat
    OBVIOUS
  <2>2. h[n] = G[<<n - 1, h[n - 1][2]>>]
    BY <1>5, <1>8, <2>1
  <2>3. h[n] = <<n, F[n][h[n - 1][2]]>>
    BY <1>3, <1>8, <2>1, <2>2
  <2> QED BY <2>1, <2>3
<1> QED BY <1>9, <1>10, <1>11 DEF NumberedSteps

----------------------------------------------------------------------------
(* The search as it is written                                             *)

\* The recursion that collects what is near is the search above.
LEMMA SearchReaches ==
  ASSUME NEW V, NEW s \in V, NEW r, NEW N \in Nat, NEW R,
         R = CHOOSE f : f = [k \in 0..N |->
               IF k = 0 THEN {s}
               ELSE UNION {{v \in V : v = u \/ r[<<u, v>>] > 0} : u \in f[k - 1]}]
  PROVE  Reaches(V, s, r, N, R)
<1> DEFINE D == SUBSET V
           Onward(S) == UNION {{v \in V : v = u \/ r[<<u, v>>] > 0} : u \in S}
           F == [S \in D |-> Onward(S)]
           Unfolds(g) == g = [k \in 0..N |-> IF k = 0 THEN {s} ELSE Onward(g[k - 1])]
<1>1. {s} \in D
  OBVIOUS
<1>2. \A S \in D : F[S] \in D /\ F[S] = Onward(S)
  OBVIOUS
<1>3. PICK g : Steps(N, D, {s}, F, g)
  <2> HIDE DEF D, F
  <2> QED BY <1>1, <1>2, StepsExist
<1>4. g \in [0..N -> D] /\ g[0] = {s} /\ \A n \in 1..N : g[n] = F[g[n - 1]]
  BY <1>3 DEF Steps
<1> HIDE DEF F, Onward
<1>5. ASSUME NEW n \in 0..N PROVE g[n] = IF n = 0 THEN {s} ELSE Onward(g[n - 1])
  <2>1. CASE n = 0
    BY <1>4, <2>1
  <2>2. CASE n # 0
    <3>1. n \in 1..N /\ n - 1 \in 0..N
      BY <2>2
    <3>2. g[n - 1] \in D
      BY <1>4, <3>1
    <3> HIDE DEF D
    <3> QED BY <1>2, <1>4, <2>2, <3>1, <3>2
  <2> QED BY <2>1, <2>2
<1>6. Unfolds(g)
  <2> DEFINE h == [n \in 0..N |-> IF n = 0 THEN {s} ELSE Onward(g[n - 1])]
  <2>1. \A n \in 0..N : h[n] = g[n]
    BY <1>5
  <2>2. g = [n \in 0..N |-> g[n]] /\ h = [n \in 0..N |-> h[n]]
    BY <1>4
  <2> HIDE DEF h
  <2>3. g = h
    BY <2>1, <2>2, Zenon
  <2> QED BY <2>3 DEF h
<1>7. R = CHOOSE f : Unfolds(f)
  BY DEF Onward
<1>8. Unfolds(R)
  <2> HIDE DEF Unfolds
  <2> QED BY <1>6, <1>7
<1>9. \A n \in 0..N : R[n] = IF n = 0 THEN {s} ELSE Onward(R[n - 1])
  <2> DEFINE h == [n \in 0..N |-> IF n = 0 THEN {s} ELSE Onward(R[n - 1])]
  <2>1. \A n \in 0..N : h[n] = IF n = 0 THEN {s} ELSE Onward(R[n - 1])
    OBVIOUS
  <2>2. R = h
    BY <1>8
  <2> HIDE DEF h
  <2> QED BY <2>1, <2>2
<1>10. 0 \in 0..N /\ \A n \in 1..N : n \in 0..N /\ n # 0
  OBVIOUS
<1>11. R[0] = {s} /\ \A n \in 1..N : R[n] = Onward(R[n - 1])
  BY <1>9, <1>10, Zenon
<1> QED BY <1>11 DEF Reaches, Onward

\* Walks from s, prolonged by what was reached last.
Prolonged(s, r, L, R) ==
  CHOOSE g : g = [k \in 0..L |->
    IF k = 0 THEN {<<s>>}
    ELSE UNION {{Append(q, v) : v \in {x \in R[k] \ R[k - 1] : r[<<q[k], x>>] > 0}} : q \in g[k - 1]}]

\* They are paths on which something is left.
LEMMA SearchFindsPaths ==
  ASSUME NEW V, NEW s \in V, NEW t, NEW r, NEW N \in Nat, NEW R, Reaches(V, s, r, N, R),
         NEW L \in 0..N, NEW p \in Prolonged(s, r, L, R)[L], p[L + 1] = t
  PROVE  /\ p \in Seq(V) /\ IsPath(V, s, t, Len(p), p)
         /\ \A i \in 1..(Len(p) - 1) : r[<<p[i], p[i + 1]>>] > 0
<1> DEFINE D == SUBSET Seq(V)
           Beyond(q, k) == {x \in R[k] \ R[k - 1] : r[<<q[k], x>>] > 0}
           Longer(k, Q) == UNION {{Append(q, v) : v \in Beyond(q, k)} : q \in Q}
           F == [k \in Nat |-> [Q \in D |-> IF k \in 1..N THEN Longer(k, Q) ELSE Q]]
           Unfolds(g) == g = [k \in 0..L |-> IF k = 0 THEN {<<s>>} ELSE Longer(k, g[k - 1])]
           paths == Prolonged(s, r, L, R)
<1>1. \A k \in 0..N : R[k] \subseteq V
  BY ReachGrows
<1>2. ASSUME NEW k \in 1..N, NEW Q \in D PROVE Longer(k, Q) \in D
  <2>1. R[k] \subseteq V
    BY <1>1
  <2>2. ASSUME NEW q \in Q, NEW v \in Beyond(q, k) PROVE Append(q, v) \in Seq(V)
    BY <2>1
  <2> DEFINE more(q) == {Append(q, v) : v \in Beyond(q, k)}
  <2>3. \A q \in Q : more(q) \subseteq Seq(V)
    BY <2>2
  <2>4. Longer(k, Q) = UNION {more(q) : q \in Q}
    OBVIOUS
  <2> HIDE DEF more, Longer
  <2> QED BY <2>3, <2>4
<1>3. paths = CHOOSE g : Unfolds(g)
  BY DEF Prolonged
<1> HIDE DEF Longer, paths
<1>4. \A k \in Nat : \A Q \in D : F[k][Q] \in D
  BY <1>2
<1>5. {<<s>>} \in D
  OBVIOUS
<1>6. \A k \in 1..N : \A Q \in D : F[k][Q] = Longer(k, Q)
  OBVIOUS
<1> HIDE DEF F, D
<1>7. PICK g \in [0..L -> D] : g[0] = {<<s>>} /\ \A n \in 1..L : g[n] = F[n][g[n - 1]]
  <2> DEFINE A == {<<s>>}
  <2>1. L \in Nat /\ A \in D
    BY <1>5
  <2> HIDE DEF A
  <2>2. \E g : NumberedSteps(L, D, A, F, g)
    BY <1>4, <2>1, NumberedStepsExist
  <2> QED BY <2>2 DEF A, NumberedSteps
<1>8. ASSUME NEW k \in 0..L PROVE g[k] = IF k = 0 THEN {<<s>>} ELSE Longer(k, g[k - 1])
  <2>1. CASE k = 0
    BY <1>7, <2>1
  <2>2. CASE k # 0
    <3>1. k \in 1..L /\ k \in 1..N /\ k - 1 \in 0..L
      BY <2>2
    <3>2. g[k - 1] \in D
      BY <1>7, <3>1
    <3> QED BY <1>6, <1>7, <2>2, <3>1, <3>2
  <2> QED BY <2>1, <2>2
<1>9. Unfolds(g)
  <2> DEFINE h == [k \in 0..L |-> IF k = 0 THEN {<<s>>} ELSE Longer(k, g[k - 1])]
  <2>1. \A k \in 0..L : h[k] = g[k]
    BY <1>8
  <2>2. g = [k \in 0..L |-> g[k]] /\ h = [k \in 0..L |-> h[k]]
    BY <1>7
  <2> HIDE DEF h
  <2>3. g = h
    BY <2>1, <2>2, Zenon
  <2> QED BY <2>3 DEF h
<1>10. Unfolds(paths)
  <2> HIDE DEF Unfolds
  <2> QED BY <1>9, <1>3
<1>11. \A k \in 0..L : paths[k] = IF k = 0 THEN {<<s>>} ELSE Longer(k, paths[k - 1])
  <2> DEFINE h == [k \in 0..L |-> IF k = 0 THEN {<<s>>} ELSE Longer(k, paths[k - 1])]
  <2>1. \A k \in 0..L : h[k] = IF k = 0 THEN {<<s>>} ELSE Longer(k, paths[k - 1])
    OBVIOUS
  <2>2. paths = h
    BY <1>10
  <2> HIDE DEF h
  <2> QED BY <2>1, <2>2
<1>12. paths[0] = {<<s>>} /\ \A k \in 1..L : paths[k] = Longer(k, paths[k - 1])
  <2>1. 0 \in 0..L /\ \A k \in 1..L : k \in 0..L /\ k # 0
    OBVIOUS
  <2> QED BY <1>11, <2>1, Zenon
<1>13. Walks(s, r, L, R, paths)
  BY <1>12 DEF Walks, Longer
<1>14. Walks(s, r, L, R, Prolonged(s, r, L, R))
  BY <1>13 DEF paths
<1>15. /\ p \in Seq(V) /\ Len(p) = L + 1
       /\ IsPath(V, s, p[L + 1], L + 1, p)
       /\ \A i \in 1..L : r[<<p[i], p[i + 1]>>] > 0
  BY <1>14, WalksArePaths
<1>16. Len(p) - 1 = L
  <2>1. L \in Int /\ Len(p) = L + 1
    BY <1>15
  <2> QED BY <2>1
<1> QED BY <1>15, <1>16

----------------------------------------------------------------------------
(* The residuals of a flow                                                 *)

Sent(V, c, r) == [a \in Across(V, V) |-> c[a] - r[a]]

\* r is what a flow of x units leaves of the capacities c.  Below zero it is only where
\* the capacity is, and there nothing is sent.
IsResidual(V, s, t, c, r, x) ==
  /\ r \in [Across(V, V) -> Int] /\ \A a \in Across(V, V) : r[a] >= 0 \/ r[a] >= c[a]
  /\ IsFlow(V, s, t, Sent(V, c, r), x)

\* What capacities, residuals and the flow are at an arc.
LEMMA ResidualAt ==
  ASSUME NEW V, NEW s, NEW t, NEW c \in [Across(V, V) -> Nat], NEW r, NEW x,
         IsResidual(V, s, t, c, r, x), NEW u \in V, NEW v \in V
  PROVE  /\ c[<<u, v>>] \in Nat /\ r[<<u, v>>] \in Int /\ r[<<u, v>>] >= 0
         /\ Sent(V, c, r)[<<u, v>>] = c[<<u, v>>] - r[<<u, v>>]
<1>1. <<u, v>> \in Across(V, V)
  BY DEF Across
<1>2. c[<<u, v>>] \in Nat /\ r[<<u, v>>] \in Int /\ (r[<<u, v>>] >= 0 \/ r[<<u, v>>] >= c[<<u, v>>])
  BY <1>1 DEF IsResidual
<1> QED BY <1>1, <1>2 DEF Sent

\* In the beginning nothing flows.
LEMMA NothingFlows ==
  ASSUME NEW V, IsFiniteSet(V), NEW s \in V, NEW t, NEW c \in [Across(V, V) -> Int]
  PROVE  IsResidual(V, s, t, c, c, 0)
<1>1. \A a \in Across(V, V) : c[a] >= c[a] /\ Sent(V, c, c)[a] = 0
  BY DEF Sent
<1>2. \A u, v \in V : Sent(V, c, c)[<<u, v>>] = 0
  BY <1>1 DEF Across
<1>3. ASSUME NEW v \in V PROVE SumFunctionOnSet(Sent(V, c, c), Row(V, v)) = 0
  <2>1. {v} \in SUBSET V /\ V \ {v} \in SUBSET V
    OBVIOUS
  <2>2. IsFiniteSet(Row(V, v))
    BY <2>1, ArcsAreFinite DEF Row
  <2>3. \A y \in Row(V, v) : Sent(V, c, c)[y] = 0
    BY <1>2 DEF Row, Across
  <2> QED BY <2>2, <2>3, SumOfZeros
<1>4. IsFlow(V, s, t, Sent(V, c, c), 0)
  BY <1>2, <1>3 DEF IsFlow
<1> QED BY <1>1, <1>4 DEF IsResidual

\* A push of no more than is left on a path sends that much more.
LEMMA PushSendsMore ==
  ASSUME NEW V, IsFiniteSet(V), NEW s \in V, NEW t \in V, s # t,
         NEW c \in [Across(V, V) -> Int], NEW r, NEW x \in Nat, IsResidual(V, s, t, c, r, x),
         NEW n, NEW p, IsPath(V, s, t, n, p), PathArcs(n, p) \subseteq Across(V, V),
         NEW d \in Nat, \A a \in PathArcs(n, p) : d <= r[a],
         NEW q,
         q = [a \in Across(V, V) |-> r[a] - (IF a \in PathArcs(n, p) THEN d ELSE 0)
                                          + (IF <<a[2], a[1]>> \in PathArcs(n, p) THEN d ELSE 0)]
  PROVE  IsResidual(V, s, t, c, q, x + d)
<1>1. r \in [Across(V, V) -> Int] /\ \A a \in Across(V, V) : r[a] >= 0 \/ r[a] >= c[a]
  BY DEF IsResidual
<1> DEFINE P == PathArcs(n, p)
<1>2. \A a \in Across(V, V) : q[a] = r[a] - (IF a \in P THEN d ELSE 0)
                                          + (IF <<a[2], a[1]>> \in P THEN d ELSE 0)
  OBVIOUS
<1>3. q \in [Across(V, V) -> Int]
  <2>1. \A a \in Across(V, V) : r[a] - (IF a \in P THEN d ELSE 0)
                                     + (IF <<a[2], a[1]>> \in P THEN d ELSE 0) \in Int
    <3> SUFFICES ASSUME NEW a \in Across(V, V)
                 PROVE  r[a] - (IF a \in P THEN d ELSE 0)
                             + (IF <<a[2], a[1]>> \in P THEN d ELSE 0) \in Int
      OBVIOUS
    <3>1. r[a] \in Int /\ d \in Int
      BY <1>1
    <3> HIDE DEF P
    <3> QED BY <3>1
  <2>2. q \in [Across(V, V) -> Int]
    <3> HIDE DEF P
    <3> QED BY <2>1 DEF P
  <2> QED BY <2>2
<1>4. \A a \in Across(V, V) : q[a] >= 0 \/ q[a] >= c[a]
  <2> SUFFICES ASSUME NEW a \in Across(V, V) PROVE q[a] >= 0 \/ q[a] >= c[a]
    OBVIOUS
  <2>1. /\ r[a] \in Int /\ c[a] \in Int /\ d \in Nat
        /\ r[a] >= 0 \/ r[a] >= c[a]
        /\ a \in P => d <= r[a]
    BY <1>1
  <2> HIDE DEF P
  <2> QED BY <1>2, <2>1
<1>5. \A u, v \in V : Sent(V, c, q)[<<u, v>>] = Sent(V, c, r)[<<u, v>>] + Along(n, p, d, u, v)
  <2> SUFFICES ASSUME NEW u \in V, NEW v \in V
               PROVE  Sent(V, c, q)[<<u, v>>] = Sent(V, c, r)[<<u, v>>] + Along(n, p, d, u, v)
    OBVIOUS
  <2> DEFINE a == <<u, v>>
  <2>1. a \in Across(V, V) /\ a[1] = u /\ a[2] = v
    BY DEF Across
  <2>2. Sent(V, c, q)[a] = c[a] - q[a] /\ Sent(V, c, r)[a] = c[a] - r[a]
    BY <2>1 DEF Sent
  <2>3. c[a] \in Int /\ r[a] \in Int
    BY <1>1, <2>1
  <2>4. q[a] = r[a] - (IF a \in P THEN d ELSE 0) + (IF <<v, u>> \in P THEN d ELSE 0)
    BY <1>2, <2>1
  <2>5. Along(n, p, d, u, v) = (IF a \in P THEN d ELSE 0) - (IF <<v, u>> \in P THEN d ELSE 0)
    BY DEF Along
  <2> HIDE DEF a, P
  <2>6. Sent(V, c, q)[a] = Sent(V, c, r)[a] + Along(n, p, d, u, v)
    BY <2>2, <2>3, <2>4, <2>5
  <2> QED BY <2>6 DEF a
<1>6. IsFlow(V, s, t, Sent(V, c, q), x + d)
  <2>1. IsFlow(V, s, t, Sent(V, c, r), x) /\ x \in Int /\ d \in Int
    BY DEF IsResidual
  <2> QED BY <1>5, <2>1, PathAddsFlow
<1> QED BY <1>3, <1>4, <1>6 DEF IsResidual

\* What flows is no more than a cut can carry, capacities below zero counted as none.
LEMMA ResidualBelowPositive ==
  ASSUME NEW V, IsFiniteSet(V), NEW s, NEW t, NEW c \in [Across(V, V) -> Int], NEW r, NEW x,
         IsResidual(V, s, t, c, r, x), NEW S, IsCut(V, s, t, S),
         NEW h, \A u, v \in V : h[<<u, v>>] \in Int /\ h[<<u, v>>] >= 0 /\ h[<<u, v>>] >= c[<<u, v>>]
  PROVE  x <= SumFunctionOnSet(h, Across(S, V \ S))
<1>1. \A u, v \in V : h[<<u, v>>] \in Int /\ Sent(V, c, r)[<<u, v>>] <= h[<<u, v>>]
  <2> SUFFICES ASSUME NEW u \in V, NEW v \in V
               PROVE  h[<<u, v>>] \in Int /\ Sent(V, c, r)[<<u, v>>] <= h[<<u, v>>]
    OBVIOUS
  <2> DEFINE a == <<u, v>>
  <2>1. a \in Across(V, V)
    BY DEF Across
  <2>2. /\ c[a] \in Int /\ r[a] \in Int
        /\ r[a] >= 0 \/ r[a] >= c[a]
        /\ Sent(V, c, r)[a] = c[a] - r[a]
    BY <2>1 DEF IsResidual, Sent
  <2>3. h[a] \in Int /\ h[a] >= 0 /\ h[a] >= c[a]
    OBVIOUS
  <2> HIDE DEF a
  <2>4. h[a] \in Int /\ Sent(V, c, r)[a] <= h[a]
    BY <2>2, <2>3
  <2> QED BY <2>4 DEF a
<1>2. IsFlow(V, s, t, Sent(V, c, r), x)
  BY DEF IsResidual
<1> QED BY <1>1, <1>2, FlowBelowCut

\* What flows is no more than a cut can carry.
LEMMA ResidualBelowCut ==
  ASSUME NEW V, IsFiniteSet(V), NEW s, NEW t, NEW c \in [Across(V, V) -> Nat], NEW r, NEW x,
         IsResidual(V, s, t, c, r, x), NEW S, IsCut(V, s, t, S)
  PROVE  x <= SumFunctionOnSet(c, Across(S, V \ S))
<1>1. \A u, v \in V : c[<<u, v>>] \in Int /\ Sent(V, c, r)[<<u, v>>] <= c[<<u, v>>]
  <2> SUFFICES ASSUME NEW u \in V, NEW v \in V
               PROVE  c[<<u, v>>] \in Int /\ Sent(V, c, r)[<<u, v>>] <= c[<<u, v>>]
    OBVIOUS
  <2>1. /\ c[<<u, v>>] \in Nat /\ r[<<u, v>>] \in Int /\ r[<<u, v>>] >= 0
        /\ Sent(V, c, r)[<<u, v>>] = c[<<u, v>>] - r[<<u, v>>]
    BY ResidualAt
  <2> QED BY <2>1
<1>2. IsFlow(V, s, t, Sent(V, c, r), x)
  BY DEF IsResidual
<1> QED BY <1>1, <1>2, FlowBelowCut

\* It is as much when nothing is left across the cut.
LEMMA ResidualFillsCut ==
  ASSUME NEW V, IsFiniteSet(V), NEW s, NEW t, NEW c \in [Across(V, V) -> Nat], NEW r, NEW x,
         IsResidual(V, s, t, c, r, x), NEW S, IsCut(V, s, t, S),
         \A u \in S, v \in V \ S : ~(r[<<u, v>>] > 0)
  PROVE  x = SumFunctionOnSet(c, Across(S, V \ S))
<1>1. \A u \in S, v \in V \ S : c[<<u, v>>] = Sent(V, c, r)[<<u, v>>]
  <2> SUFFICES ASSUME NEW u \in S, NEW v \in V \ S
               PROVE  c[<<u, v>>] = Sent(V, c, r)[<<u, v>>]
    OBVIOUS
  <2>1. u \in V /\ v \in V /\ ~(r[<<u, v>>] > 0)
    BY DEF IsCut
  <2>2. /\ c[<<u, v>>] \in Nat /\ r[<<u, v>>] \in Int /\ r[<<u, v>>] >= 0
        /\ Sent(V, c, r)[<<u, v>>] = c[<<u, v>>] - r[<<u, v>>]
    BY <2>1, ResidualAt
  <2> QED BY <2>1, <2>2
<1>2. IsFlow(V, s, t, Sent(V, c, r), x)
  BY DEF IsResidual
<1> QED BY <1>1, <1>2, FlowFillsCut
=============================================================================
