------------------------------ MODULE SumLemmas ------------------------------
(***************************************************************************)
(* What SumFunctionOnSet of the community modules computes over a finite   *)
(* set of indices: it does not depend on the order in which the fold       *)
(* chooses them.  No lemma takes an operator: a set of sets stands for the *)
(* induction hypothesis, and a smallest counterexample for the induction.  *)
(***************************************************************************)
EXTENDS Integers, FiniteSets, Functions, FiniteSetTheorems, WellFoundedInduction, NaturalsInduction, TLAPS

-----------------------------------------------------------------------------
(* Induction over the subsets of a finite set.                             *)

LEMMA Minimum ==
  ASSUME NEW S, S \subseteq Nat, S # {}
  PROVE  \E m \in S : \A x \in S : m <= x
<1>1. PICK m \in S : \A y \in S : ~ (<<y, m>> \in OpToRel(<, Nat))
  BY NatLessThanWellFounded, WFMin, Zenon
<1>2. \A y \in S : ~(y < m)
  BY <1>1 DEF OpToRel
<1> QED
  BY <1>2

\* Whatever holds of a subset when it holds of the subset less each of its
\* elements holds of all subsets.
LEMMA Shrinking ==
  ASSUME NEW S, IsFiniteSet(S), NEW Good,
         \A T \in SUBSET S : (\A x \in T : T \ {x} \in Good) => T \in Good
  PROVE  SUBSET S \subseteq Good
<1> DEFINE Bad == (SUBSET S) \ Good
           Sizes == {Cardinality(T) : T \in Bad}
<1>1. SUFFICES ASSUME Bad # {} PROVE FALSE
  OBVIOUS
<1>2. \A T \in SUBSET S : IsFiniteSet(T) /\ Cardinality(T) \in Nat
  BY FS_Subset, FS_CardinalityType
<1>3. PICK m \in Sizes : \A n \in Sizes : m <= n
  <2>1. Sizes \subseteq Nat /\ Sizes # {}
    BY <1>1, <1>2
  <2> HIDE DEF Sizes
  <2> QED  BY <2>1, Minimum
<1>4. PICK T \in Bad : m = Cardinality(T)
  BY <1>3
<1>5. \A x \in T : T \ {x} \in Good
  <2> SUFFICES ASSUME NEW x \in T, T \ {x} \notin Good
               PROVE  FALSE
    OBVIOUS
  <2>1. T \ {x} \in Bad
    OBVIOUS
  <2>2. Cardinality(T \ {x}) = Cardinality(T) - 1
    BY <1>2, FS_RemoveElement
  <2>3. m <= Cardinality(T \ {x})
    BY <2>1, <1>3
  <2> QED  BY <2>2, <2>3, <1>2, <1>4
<1> QED
  BY <1>4, <1>5

-----------------------------------------------------------------------------
(* The fold.                                                               *)

\* The element a fold takes first from a set.
FirstOf(s) == CHOOSE x \in s : TRUE

\* The recursion by which the fold adds up f, an element of its own choice first.
Adds(iter, f, S) ==
    iter = [s \in SUBSET S |->
               IF s = {} THEN 0
               ELSE f[FirstOf(s)] + iter[s \ {FirstOf(s)}]]

LEMMA FirstIn ==
  ASSUME NEW s, s # {}
  PROVE  FirstOf(s) \in s
  BY DEF FirstOf

LEMMA SumUnfolds ==
  ASSUME NEW f, NEW S
  PROVE  SumFunctionOnSet(f, S) = (CHOOSE iter : Adds(iter, f, S))[S]
  BY DEF SumFunctionOnSet, FoldFunctionOnSet, MapThenFoldSet, Adds, FirstOf

LEMMA AddsStep ==
  ASSUME NEW iter, NEW f, NEW S, Adds(iter, f, S), NEW s \in SUBSET S
  PROVE  iter[s] = IF s = {} THEN 0
                   ELSE f[FirstOf(s)] + iter[s \ {FirstOf(s)}]
  BY DEF Adds

LEMMA AddsAgree ==
  ASSUME NEW f, NEW S, NEW T, NEW i, NEW j, Adds(i, f, S), Adds(j, f, T), IsFiniteSet(S)
  PROVE  \A s \in SUBSET (S \cap T) : i[s] = j[s]
<1> DEFINE Good == {s \in SUBSET (S \cap T) : i[s] = j[s]}
<1>1. IsFiniteSet(S \cap T)
  BY FS_Subset
<1>2. \A s \in SUBSET (S \cap T) : (\A x \in s : s \ {x} \in Good) => s \in Good
  <2> SUFFICES ASSUME NEW s \in SUBSET (S \cap T), \A x \in s : s \ {x} \in Good
               PROVE  i[s] = j[s]
    OBVIOUS
  <2>1. CASE s = {}
    BY <2>1, AddsStep
  <2>2. CASE s # {}
    <3> DEFINE c == FirstOf(s)
    <3>1. c \in s
      BY <2>2, FirstIn
    <3>2. i[s \ {c}] = j[s \ {c}]
      BY <3>1
    <3> HIDE DEF Good
    <3>3. i[s] = f[c] + i[s \ {c}]
      <4>1. s \in SUBSET S
        OBVIOUS
      <4>2. i[s] = IF s = {} THEN 0
                   ELSE f[FirstOf(s)] + i[s \ {FirstOf(s)}]
        BY <4>1, AddsStep
      <4> QED  BY <2>2, <4>2
    <3>4. j[s] = f[c] + j[s \ {c}]
      <4>1. s \in SUBSET T
        OBVIOUS
      <4>2. j[s] = IF s = {} THEN 0
                   ELSE f[FirstOf(s)] + j[s \ {FirstOf(s)}]
        BY <4>1, AddsStep
      <4> QED  BY <2>2, <4>2
    <3> HIDE DEF c
    <3> QED  BY <3>2, <3>3, <3>4
  <2> QED  BY <2>1, <2>2
<1>3. SUBSET (S \cap T) \subseteq Good
  <2> DEFINE common == S \cap T
  <2>1. IsFiniteSet(common) /\ \A s \in SUBSET common : (\A x \in s : s \ {x} \in Good) => s \in Good
    BY <1>1, <1>2
  <2> HIDE DEF Good, common
  <2>2. SUBSET common \subseteq Good
    BY <2>1, Shrinking
  <2> QED  BY <2>2 DEF common
<1> QED
  BY <1>3

LEMMA AddsRestrict ==
  ASSUME NEW f, NEW S, NEW i, Adds(i, f, S), NEW T \in SUBSET S
  PROVE  Adds([s \in SUBSET T |-> i[s]], f, T)
<1> DEFINE r == [s \in SUBSET T |-> i[s]]
           step(s) == IF s = {} THEN 0
                      ELSE f[FirstOf(s)] + r[s \ {FirstOf(s)}]
<1>1. \A s \in SUBSET T : r[s] = step(s)
  <2> TAKE s \in SUBSET T
  <2>1. i[s] = IF s = {} THEN 0
               ELSE f[FirstOf(s)] + i[s \ {FirstOf(s)}]
    BY AddsStep
  <2>2. r[s] = i[s] /\ r[s \ {FirstOf(s)}] = i[s \ {FirstOf(s)}]
    OBVIOUS
  <2> QED  BY <2>1, <2>2
<1>2. r = [s \in SUBSET T |-> step(s)]
  BY <1>1
<1> QED
  BY <1>2 DEF Adds

LEMMA AddsSum ==
  ASSUME NEW f, NEW S, NEW i, Adds(i, f, S), IsFiniteSet(S), NEW T \in SUBSET S
  PROVE  SumFunctionOnSet(f, T) = i[T]
<1> DEFINE j == CHOOSE iter : Adds(iter, f, T)
<1>1. Adds(j, f, T)
  BY AddsRestrict
<1>2. SumFunctionOnSet(f, T) = j[T]
  BY SumUnfolds
<1> HIDE DEF j
<1>3. i[T] = j[T]
  BY <1>1, AddsAgree
<1> QED
  BY <1>2, <1>3

LEMMA AddsExists ==
  ASSUME NEW f, NEW S, IsFiniteSet(S)
  PROVE  \E iter : Adds(iter, f, S)
<1> DEFINE Good == {T \in SUBSET S : \E iter : Adds(iter, f, T)}
<1>1. \A T \in SUBSET S : (\A x \in T : T \ {x} \in Good) => T \in Good
  <2> SUFFICES ASSUME NEW T \in SUBSET S, \A x \in T : T \ {x} \in Good
               PROVE  \E iter : Adds(iter, f, T)
    OBVIOUS
  <2> DEFINE step(s) == IF s = {} THEN 0 ELSE f[FirstOf(s)] + SumFunctionOnSet(f, s \ {FirstOf(s)})
             it == [s \in SUBSET T |-> step(s)]
  <2>1. \A s \in SUBSET T : s # T => SumFunctionOnSet(f, s) = step(s)
    <3> TAKE s \in SUBSET T
    <3> HAVE s # T
    <3>1. PICK x \in T : s \subseteq T \ {x}
      OBVIOUS
    <3>2. PICK i : Adds(i, f, T \ {x})
      OBVIOUS
    <3>3. IsFiniteSet(T \ {x})
      BY FS_Subset
    <3>4. SumFunctionOnSet(f, s) = i[s]
      BY <3>1, <3>2, <3>3, AddsSum
    <3>5. SumFunctionOnSet(f, s \ {FirstOf(s)}) = i[s \ {FirstOf(s)}]
      <4>1. s \ {FirstOf(s)} \in SUBSET (T \ {x})
        BY <3>1
      <4> QED  BY <4>1, <3>2, <3>3, AddsSum
    <3>6. i[s] = IF s = {} THEN 0 ELSE f[FirstOf(s)] + i[s \ {FirstOf(s)}]
      BY <3>1, <3>2, AddsStep
    <3> QED  BY <3>4, <3>5, <3>6
  <2>2. \A s \in SUBSET T : it[s] = IF s = {} THEN 0 ELSE f[FirstOf(s)] + it[s \ {FirstOf(s)}]
    <3> TAKE s \in SUBSET T
    <3>1. CASE s = {}
      BY <3>1
    <3>2. CASE s # {}
      <4>1. FirstOf(s) \in s
        BY <3>2, FirstIn
      <4>2. s \ {FirstOf(s)} \in SUBSET T /\ s \ {FirstOf(s)} # T
        BY <4>1
      <4>3. it[s \ {FirstOf(s)}] = SumFunctionOnSet(f, s \ {FirstOf(s)})
        BY <4>2, <2>1
      <4>4. it[s] = f[FirstOf(s)] + SumFunctionOnSet(f, s \ {FirstOf(s)})
        BY <3>2
      <4> QED  BY <3>2, <4>3, <4>4
    <3> QED  BY <3>1, <3>2
  <2>3. it = [s \in SUBSET T |-> IF s = {} THEN 0 ELSE f[FirstOf(s)] + it[s \ {FirstOf(s)}]]
    <3> HIDE DEF step, Good
    <3>1. it = [s \in SUBSET T |-> it[s]]
      OBVIOUS
    <3> HIDE DEF it
    <3> QED  BY <3>1, <2>2
  <2> HIDE DEF it
  <2> QED  BY <2>3 DEF Adds
<1>2. SUBSET S \subseteq Good
  <2> HIDE DEF Good
  <2> QED  BY <1>1, Shrinking
<1> QED
  BY <1>2

\* The first step of the fold.
LEMMA SumFirst ==
  ASSUME NEW f, NEW S, IsFiniteSet(S)
  PROVE  SumFunctionOnSet(f, S) =
           IF S = {} THEN 0
           ELSE f[FirstOf(S)] + SumFunctionOnSet(f, S \ {FirstOf(S)})
<1>1. PICK i : Adds(i, f, S)
  BY AddsExists
<1>2. SumFunctionOnSet(f, S) = i[S]
  BY <1>1, AddsSum
<1>3. SumFunctionOnSet(f, S \ {FirstOf(S)}) = i[S \ {FirstOf(S)}]
  BY <1>1, AddsSum
<1>4. i[S] = IF S = {} THEN 0
             ELSE f[FirstOf(S)] + i[S \ {FirstOf(S)}]
  BY <1>1, AddsStep
<1> QED
  BY <1>2, <1>3, <1>4

-----------------------------------------------------------------------------
(* Sums of integers.                                                       *)

LEMMA SumEmpty ==
  ASSUME NEW f
  PROVE  SumFunctionOnSet(f, {}) = 0
  BY SumFirst, FS_EmptySet

LEMMA SumType ==
  ASSUME NEW f, NEW S, IsFiniteSet(S), \A x \in S : f[x] \in Int
  PROVE  \A T \in SUBSET S : SumFunctionOnSet(f, T) \in Int
<1> DEFINE Good == {T \in SUBSET S : SumFunctionOnSet(f, T) \in Int}
<1>1. \A T \in SUBSET S : (\A x \in T : T \ {x} \in Good) => T \in Good
  <2> SUFFICES ASSUME NEW T \in SUBSET S, \A x \in T : T \ {x} \in Good
               PROVE  SumFunctionOnSet(f, T) \in Int
    OBVIOUS
  <2>1. IsFiniteSet(T)
    BY FS_Subset
  <2>2. CASE T = {}
    BY <2>2, SumEmpty
  <2>3. CASE T # {}
    <3> DEFINE c == FirstOf(T)
    <3>1. c \in T
      BY <2>3, FirstIn
    <3>2. f[c] \in Int /\ SumFunctionOnSet(f, T \ {c}) \in Int
      BY <3>1
    <3>3. SumFunctionOnSet(f, T) = f[c] + SumFunctionOnSet(f, T \ {c})
      BY <2>1, <2>3, SumFirst
    <3> QED  BY <3>2, <3>3
  <2> QED  BY <2>2, <2>3
<1>2. SUBSET S \subseteq Good
  <2> HIDE DEF Good
  <2> QED  BY <1>1, Shrinking
<1> QED
  BY <1>2

\* Any element may be added last.
LEMMA SumRemove ==
  ASSUME NEW f, NEW S, IsFiniteSet(S), \A x \in S : f[x] \in Int
  PROVE  \A T \in SUBSET S : \A x \in T :
           SumFunctionOnSet(f, T) = f[x] + SumFunctionOnSet(f, T \ {x})
<1> DEFINE Good == {T \in SUBSET S : \A x \in T :
                      SumFunctionOnSet(f, T) = f[x] + SumFunctionOnSet(f, T \ {x})}
<1>1. \A T \in SUBSET S : (\A x \in T : T \ {x} \in Good) => T \in Good
  <2> SUFFICES ASSUME NEW T \in SUBSET S, \A y \in T : T \ {y} \in Good, NEW x \in T
               PROVE  SumFunctionOnSet(f, T) = f[x] + SumFunctionOnSet(f, T \ {x})
    OBVIOUS
  <2> DEFINE c == FirstOf(T)
             rest == (T \ {x}) \ {c}
  <2>1. IsFiniteSet(T)
    BY FS_Subset
  <2>2. c \in T /\ f[c] \in Int /\ f[x] \in Int
    BY FirstIn
  <2>3. SumFunctionOnSet(f, T) = f[c] + SumFunctionOnSet(f, T \ {c})
    BY <2>1, SumFirst
  <2>4. CASE c = x
    BY <2>3, <2>4
  <2>5. CASE c # x
    <3>1. T \ {c} \in Good /\ T \ {x} \in Good /\ x \in T \ {c} /\ c \in T \ {x}
      BY <2>2, <2>5
    <3>2. (T \ {c}) \ {x} = rest
      OBVIOUS
    <3>3. SumFunctionOnSet(f, T \ {c}) = f[x] + SumFunctionOnSet(f, rest)
      BY <3>1, <3>2
    <3>4. SumFunctionOnSet(f, T \ {x}) = f[c] + SumFunctionOnSet(f, rest)
      BY <3>1
    <3>5. SumFunctionOnSet(f, rest) \in Int
      BY SumType
    <3> HIDE DEF c, rest, Good
    <3> QED  BY <2>2, <2>3, <3>3, <3>4, <3>5
  <2> QED  BY <2>4, <2>5
<1>2. SUBSET S \subseteq Good
  <2> HIDE DEF Good
  <2> QED  BY <1>1, Shrinking
<1> QED
  BY <1>2

LEMMA SumSingle ==
  ASSUME NEW f, NEW x, f[x] \in Int
  PROVE  SumFunctionOnSet(f, {x}) = f[x]
<1> DEFINE one == {x}
<1>1. IsFiniteSet(one) /\ x \in one /\ one \ {x} = {} /\ \A y \in one : f[y] \in Int
  BY FS_Singleton
<1> HIDE DEF one
<1>2. SumFunctionOnSet(f, one) = f[x] + SumFunctionOnSet(f, one \ {x})
  BY <1>1, SumRemove
<1>3. SumFunctionOnSet(f, one) = f[x]
  BY <1>1, <1>2, SumEmpty
<1> QED
  BY <1>3 DEF one

\* Sums compare as their terms do.
LEMMA SumMonotone ==
  ASSUME NEW f, NEW g, NEW S, IsFiniteSet(S),
         \A x \in S : f[x] \in Int /\ g[x] \in Int /\ f[x] <= g[x]
  PROVE  SumFunctionOnSet(f, S) <= SumFunctionOnSet(g, S)
<1> DEFINE Good == {T \in SUBSET S : SumFunctionOnSet(f, T) <= SumFunctionOnSet(g, T)}
<1>1. \A T \in SUBSET S : (\A x \in T : T \ {x} \in Good) => T \in Good
  <2> SUFFICES ASSUME NEW T \in SUBSET S, \A x \in T : T \ {x} \in Good
               PROVE  SumFunctionOnSet(f, T) <= SumFunctionOnSet(g, T)
    OBVIOUS
  <2>1. CASE T = {}
    BY <2>1, SumEmpty
  <2>2. CASE T # {}
    <3>1. PICK x \in T : TRUE
      BY <2>2
    <3>2. SumFunctionOnSet(f, T) = f[x] + SumFunctionOnSet(f, T \ {x})
      BY SumRemove
    <3>3. SumFunctionOnSet(g, T) = g[x] + SumFunctionOnSet(g, T \ {x})
      BY SumRemove
    <3>4. /\ SumFunctionOnSet(f, T \ {x}) \in Int
          /\ SumFunctionOnSet(g, T \ {x}) \in Int
      BY SumType
    <3>5. SumFunctionOnSet(f, T \ {x}) <= SumFunctionOnSet(g, T \ {x})
      OBVIOUS
    <3>6. f[x] \in Int /\ g[x] \in Int /\ f[x] <= g[x]
      OBVIOUS
    <3> HIDE DEF Good
    <3> QED  BY <3>2, <3>3, <3>4, <3>5, <3>6
  <2> QED  BY <2>1, <2>2
<1>2. SUBSET S \subseteq Good
  <2> HIDE DEF Good
  <2> QED  BY <1>1, Shrinking
<1> QED
  BY <1>2

\* Only the terms matter.
LEMMA SumAgree ==
  ASSUME NEW f, NEW g, NEW S, IsFiniteSet(S), \A x \in S : f[x] \in Int /\ f[x] = g[x]
  PROVE  SumFunctionOnSet(f, S) = SumFunctionOnSet(g, S)
<1>1. SumFunctionOnSet(f, S) <= SumFunctionOnSet(g, S)
  BY SumMonotone
<1>2. SumFunctionOnSet(g, S) <= SumFunctionOnSet(f, S)
  BY SumMonotone
<1>3. SumFunctionOnSet(f, S) \in Int /\ SumFunctionOnSet(g, S) \in Int
  BY SumType
<1> QED
  BY <1>1, <1>2, <1>3

LEMMA SumNat ==
  ASSUME NEW f, NEW S, IsFiniteSet(S), \A x \in S : f[x] \in Nat
  PROVE  \A T \in SUBSET S : SumFunctionOnSet(f, T) \in Nat
<1> DEFINE Good == {U \in SUBSET S : SumFunctionOnSet(f, U) >= 0}
<1>0. \A U \in SUBSET S : SumFunctionOnSet(f, U) \in Int
  BY SumType
<1>1. \A U \in SUBSET S : (\A x \in U : U \ {x} \in Good) => U \in Good
  <2> SUFFICES ASSUME NEW U \in SUBSET S, \A x \in U : U \ {x} \in Good
               PROVE  SumFunctionOnSet(f, U) >= 0
    OBVIOUS
  <2>1. CASE U = {}
    BY <2>1, SumEmpty
  <2>2. CASE U # {}
    <3>1. PICK x \in U : TRUE
      BY <2>2
    <3>2. SumFunctionOnSet(f, U) = f[x] + SumFunctionOnSet(f, U \ {x})
      BY SumRemove
    <3>3. SumFunctionOnSet(f, U \ {x}) >= 0 /\ SumFunctionOnSet(f, U \ {x}) \in Int
      BY <1>0
    <3>4. f[x] \in Nat
      OBVIOUS
    <3> HIDE DEF Good
    <3> QED  BY <3>2, <3>3, <3>4
  <2> QED  BY <2>1, <2>2
<1>2. SUBSET S \subseteq Good
  <2> HIDE DEF Good
  <2> QED  BY <1>1, Shrinking
<1> QED
  BY <1>0, <1>2

\* Sums over disjoint sets add up.
LEMMA SumUnion ==
  ASSUME NEW f, NEW S, NEW T, IsFiniteSet(S), IsFiniteSet(T), S \cap T = {},
         \A x \in S \cup T : f[x] \in Int
  PROVE  SumFunctionOnSet(f, S \cup T) = SumFunctionOnSet(f, S) + SumFunctionOnSet(f, T)
<1> DEFINE Good == {U \in SUBSET S :
                      SumFunctionOnSet(f, U \cup T) = SumFunctionOnSet(f, U) + SumFunctionOnSet(f, T)}
<1>0. IsFiniteSet(S \cup T)
  BY FS_Union
<1>1. \A U \in SUBSET (S \cup T) : SumFunctionOnSet(f, U) \in Int
  BY <1>0, SumType
<1>2. \A U \in SUBSET S : (\A x \in U : U \ {x} \in Good) => U \in Good
  <2> SUFFICES ASSUME NEW U \in SUBSET S, \A x \in U : U \ {x} \in Good
               PROVE  SumFunctionOnSet(f, U \cup T) = SumFunctionOnSet(f, U) + SumFunctionOnSet(f, T)
    OBVIOUS
  <2>1. CASE U = {}
    <3>1. SumFunctionOnSet(f, U) = 0
      BY <2>1, SumEmpty
    <3>2. SumFunctionOnSet(f, U \cup T) = SumFunctionOnSet(f, T)
      <4>1. U \cup T = T
        BY <2>1
      <4> QED  BY <4>1
    <3>3. SumFunctionOnSet(f, T) \in Int
      BY <1>1
    <3> QED  BY <3>1, <3>2, <3>3
  <2>2. CASE U # {}
    <3>1. PICK x \in U : TRUE
      BY <2>2
    <3>2. U \cup T \in SUBSET (S \cup T) /\ x \in U \cup T
      OBVIOUS
    <3>3. (U \cup T) \ {x} = (U \ {x}) \cup T
      OBVIOUS
    <3>4. SumFunctionOnSet(f, U \cup T) = f[x] + SumFunctionOnSet(f, (U \ {x}) \cup T)
      <4>1. SumFunctionOnSet(f, U \cup T) = f[x] + SumFunctionOnSet(f, (U \cup T) \ {x})
        BY <1>0, <3>2, SumRemove
      <4> QED  BY <4>1, <3>3
    <3>5. SumFunctionOnSet(f, (U \ {x}) \cup T)
            = SumFunctionOnSet(f, U \ {x}) + SumFunctionOnSet(f, T)
      OBVIOUS
    <3>6. SumFunctionOnSet(f, U) = f[x] + SumFunctionOnSet(f, U \ {x})
      <4>1. U \in SUBSET (S \cup T)
        OBVIOUS
      <4> QED  BY <1>0, <4>1, SumRemove
    <3>7. f[x] \in Int /\ SumFunctionOnSet(f, U \ {x}) \in Int /\ SumFunctionOnSet(f, T) \in Int
      BY <1>1
    <3> HIDE DEF Good
    <3> QED  BY <3>4, <3>5, <3>6, <3>7
  <2> QED  BY <2>1, <2>2
<1>3. SUBSET S \subseteq Good
  <2> HIDE DEF Good
  <2> QED  BY <1>2, Shrinking
<1> QED
  BY <1>3

\* A sum over a part.
LEMMA SumPart ==
  ASSUME NEW f, NEW S, NEW T \in SUBSET S, IsFiniteSet(S), \A x \in S : f[x] \in Int
  PROVE  SumFunctionOnSet(f, S) = SumFunctionOnSet(f, T) + SumFunctionOnSet(f, S \ T)
<1>1. IsFiniteSet(T) /\ IsFiniteSet(S \ T)
  BY FS_Subset
<1>2. T \cap (S \ T) = {} /\ T \cup (S \ T) = S
  OBVIOUS
<1> QED
  BY <1>1, <1>2, SumUnion

\* What is zero may be left out.
LEMMA SumSupport ==
  ASSUME NEW f, NEW S, IsFiniteSet(S), NEW T \in SUBSET S,
         \A x \in S : f[x] \in Int, \A x \in S \ T : f[x] = 0
  PROVE  SumFunctionOnSet(f, S) = SumFunctionOnSet(f, T)
<1> DEFINE rest == S \ T
           Good == {U \in SUBSET rest : SumFunctionOnSet(f, U) = 0}
<1>1. IsFiniteSet(rest)
  BY FS_Subset
<1>2. \A U \in SUBSET rest : (\A x \in U : U \ {x} \in Good) => U \in Good
  <2> SUFFICES ASSUME NEW U \in SUBSET rest, \A x \in U : U \ {x} \in Good
               PROVE  SumFunctionOnSet(f, U) = 0
    OBVIOUS
  <2>1. CASE U = {}
    BY <2>1, SumEmpty
  <2>2. CASE U # {}
    <3>1. PICK x \in U : TRUE
      BY <2>2
    <3>2. U \in SUBSET S
      OBVIOUS
    <3>3. SumFunctionOnSet(f, U) = f[x] + SumFunctionOnSet(f, U \ {x})
      BY <3>2, SumRemove
    <3>4. f[x] = 0 /\ SumFunctionOnSet(f, U \ {x}) = 0
      OBVIOUS
    <3> HIDE DEF Good
    <3> QED  BY <3>3, <3>4
  <2> QED  BY <2>1, <2>2
<1>3. SUBSET rest \subseteq Good
  <2> HIDE DEF Good, rest
  <2> QED  BY <1>1, <1>2, Shrinking
<1>4. SumFunctionOnSet(f, S \ T) = 0
  BY <1>3
<1>5. SumFunctionOnSet(f, S) = SumFunctionOnSet(f, T) + SumFunctionOnSet(f, S \ T)
  BY SumPart
<1>6. SumFunctionOnSet(f, T) \in Int
  BY SumType
<1> HIDE DEF Good, rest
<1> QED
  BY <1>4, <1>5, <1>6

\* A linear inequality between terms is one between sums.
LEMMA SumLinear ==
  ASSUME NEW f, NEW g, NEW h, NEW S, IsFiniteSet(S), NEW a \in Int, NEW b \in Int, NEW c \in Int,
         \A x \in S : /\ f[x] \in Int /\ g[x] \in Int /\ h[x] \in Int
                      /\ a * f[x] <= b * g[x] + c * h[x]
  PROVE  a * SumFunctionOnSet(f, S)
           <= b * SumFunctionOnSet(g, S) + c * SumFunctionOnSet(h, S)
<1> DEFINE Good == {T \in SUBSET S : a * SumFunctionOnSet(f, T)
                      <= b * SumFunctionOnSet(g, T) + c * SumFunctionOnSet(h, T)}
<1>1. \A T \in SUBSET S : (\A x \in T : T \ {x} \in Good) => T \in Good
  <2> SUFFICES ASSUME NEW T \in SUBSET S, \A x \in T : T \ {x} \in Good
               PROVE  a * SumFunctionOnSet(f, T)
                        <= b * SumFunctionOnSet(g, T) + c * SumFunctionOnSet(h, T)
    OBVIOUS
  <2>1. CASE T = {}
    <3>1. /\ SumFunctionOnSet(f, T) = 0 /\ SumFunctionOnSet(g, T) = 0
          /\ SumFunctionOnSet(h, T) = 0
      BY <2>1, SumEmpty
    <3> QED  BY <3>1
  <2>2. CASE T # {}
    <3>1. PICK x \in T : TRUE
      BY <2>2
    <3>2. SumFunctionOnSet(f, T) = f[x] + SumFunctionOnSet(f, T \ {x})
      BY SumRemove
    <3>3. SumFunctionOnSet(g, T) = g[x] + SumFunctionOnSet(g, T \ {x})
      BY SumRemove
    <3>4. SumFunctionOnSet(h, T) = h[x] + SumFunctionOnSet(h, T \ {x})
      BY SumRemove
    <3>5. /\ SumFunctionOnSet(f, T \ {x}) \in Int
          /\ SumFunctionOnSet(g, T \ {x}) \in Int
          /\ SumFunctionOnSet(h, T \ {x}) \in Int
      BY SumType
    <3> DEFINE p == SumFunctionOnSet(f, T \ {x})
               q == SumFunctionOnSet(g, T \ {x})
               r == SumFunctionOnSet(h, T \ {x})
    <3>6. a * p <= b * q + c * r
      OBVIOUS
    <3>7. /\ f[x] \in Int /\ g[x] \in Int /\ h[x] \in Int
          /\ a * f[x] <= b * g[x] + c * h[x]
      OBVIOUS
    <3> HIDE DEF Good, p, q, r
    <3>8. /\ a * (f[x] + p) = a * f[x] + a * p
          /\ b * (g[x] + q) = b * g[x] + b * q
          /\ c * (h[x] + r) = c * h[x] + c * r
      BY <3>5, <3>7 DEF p, q, r
    <3>9. a * (f[x] + p) <= b * (g[x] + q) + c * (h[x] + r)
      BY <3>5, <3>6, <3>7, <3>8 DEF p, q, r
    <3> QED  BY <3>2, <3>3, <3>4, <3>9 DEF p, q, r
  <2> QED  BY <2>1, <2>2
<1>2. SUBSET S \subseteq Good
  <2> HIDE DEF Good
  <2> QED  BY <1>1, Shrinking
<1> QED
  BY <1>2

-----------------------------------------------------------------------------
(* Sums over pairs.                                                        *)

Row(f, s, U) == [c \in U |-> f[<<s, c>>]]
PairsWith(s, V) == {<<s, c>> : c \in V}
PairsIn(S, U, E) == {g \in S \X U : g[2] \in E[g[1]]}

LEMMA SumRow ==
  ASSUME NEW f, NEW s, NEW U, IsFiniteSet(U), \A c \in U : f[<<s, c>>] \in Int
  PROVE  \A V \in SUBSET U :
           /\ IsFiniteSet(PairsWith(s, V))
           /\ SumFunctionOnSet(f, PairsWith(s, V)) = SumFunctionOnSet(Row(f, s, U), V)
<1> DEFINE r == Row(f, s, U)
           Good == {V \in SUBSET U :
                      /\ IsFiniteSet(PairsWith(s, V))
                      /\ SumFunctionOnSet(f, PairsWith(s, V)) = SumFunctionOnSet(r, V)}
<1>0. \A c \in U : r[c] = f[<<s, c>>] /\ r[c] \in Int
  BY DEF Row
<1>1. \A V \in SUBSET U : (\A c \in V : V \ {c} \in Good) => V \in Good
  <2> SUFFICES ASSUME NEW V \in SUBSET U, \A c \in V : V \ {c} \in Good
               PROVE  /\ IsFiniteSet(PairsWith(s, V))
                      /\ SumFunctionOnSet(f, PairsWith(s, V)) = SumFunctionOnSet(r, V)
    OBVIOUS
  <2> HIDE DEF r
  <2>1. CASE V = {}
    <3>1. PairsWith(s, V) = {}
      BY <2>1 DEF PairsWith
    <3> QED  BY <2>1, <3>1, SumEmpty, FS_EmptySet
  <2>2. CASE V # {}
    <3>1. PICK c \in V : TRUE
      BY <2>2
    <3> DEFINE less == PairsWith(s, V \ {c})
               all  == PairsWith(s, V)
    <3>2. all = less \cup {<<s, c>>} /\ <<s, c>> \in all /\ all \ {<<s, c>>} = less
      BY DEF PairsWith
    <3>3. IsFiniteSet(less) /\ SumFunctionOnSet(f, less) = SumFunctionOnSet(r, V \ {c})
      OBVIOUS
    <3>4. \A g \in all : f[g] \in Int
      BY DEF PairsWith
    <3> HIDE DEF less, all, Good
    <3>5. IsFiniteSet(all)
      BY <3>2, <3>3, FS_AddElement
    <3>6. SumFunctionOnSet(f, all) = f[<<s, c>>] + SumFunctionOnSet(f, less)
      <4>1. SumFunctionOnSet(f, all) = f[<<s, c>>] + SumFunctionOnSet(f, all \ {<<s, c>>})
        BY <3>2, <3>4, <3>5, SumRemove
      <4> QED  BY <4>1, <3>2
    <3>7. SumFunctionOnSet(r, V) = r[c] + SumFunctionOnSet(r, V \ {c})
      <4>1. \A x \in U : r[x] \in Int
        BY <1>0
      <4> QED  BY <4>1, SumRemove
    <3> QED  BY <1>0, <3>3, <3>5, <3>6, <3>7 DEF all
  <2> QED  BY <2>1, <2>2
<1>2. SUBSET U \subseteq Good
  <2> HIDE DEF Good
  <2> QED  BY <1>1, Shrinking
<1> QED
  BY <1>2

\* A sum over pairs, row by row.
LEMMA SumPairs ==
  ASSUME NEW f, NEW S, NEW U, IsFiniteSet(S), IsFiniteSet(U), NEW E,
         \A s \in S : E[s] \in SUBSET U,
         \A s \in S, c \in U : f[<<s, c>>] \in Int, NEW total,
         \A s \in S : total[s] = SumFunctionOnSet(Row(f, s, U), E[s])
  PROVE  SumFunctionOnSet(f, PairsIn(S, U, E)) = SumFunctionOnSet(total, S)
<1> DEFINE Pairs(T) == {g \in T \X U : g[2] \in E[g[1]]}
           Good == {T \in SUBSET S : SumFunctionOnSet(f, Pairs(T)) = SumFunctionOnSet(total, T)}
<1>0. \A T \in SUBSET S : IsFiniteSet(Pairs(T)) /\ \A g \in Pairs(T) : f[g] \in Int
  <2> TAKE T \in SUBSET S
  <2>1. IsFiniteSet(T)
    BY FS_Subset
  <2>2. IsFiniteSet(T \X U)
    BY <2>1, FS_Product
  <2>3. Pairs(T) \in SUBSET (T \X U)
    OBVIOUS
  <2>4. \A g \in Pairs(T) : g[1] \in S /\ g[2] \in U /\ g = <<g[1], g[2]>>
    OBVIOUS
  <2> QED  BY <2>2, <2>3, <2>4, FS_Subset
<1>1. \A s \in S : /\ total[s] = SumFunctionOnSet(f, PairsWith(s, E[s]))
                   /\ IsFiniteSet(PairsWith(s, E[s]))
                   /\ total[s] \in Int
  <2> TAKE s \in S
  <2>1. /\ IsFiniteSet(PairsWith(s, E[s]))
        /\ SumFunctionOnSet(f, PairsWith(s, E[s])) = SumFunctionOnSet(Row(f, s, U), E[s])
    BY SumRow
  <2>2. \A c \in U : Row(f, s, U)[c] \in Int
    BY DEF Row
  <2>3. SumFunctionOnSet(Row(f, s, U), E[s]) \in Int
    BY <2>2, SumType
  <2> QED  BY <2>1, <2>3
<1>2. \A T \in SUBSET S : (\A s \in T : T \ {s} \in Good) => T \in Good
  <2> SUFFICES ASSUME NEW T \in SUBSET S, \A s \in T : T \ {s} \in Good
               PROVE  SumFunctionOnSet(f, Pairs(T)) = SumFunctionOnSet(total, T)
    OBVIOUS
  <2>1. CASE T = {}
    <3>1. Pairs(T) = {}
      BY <2>1
    <3> QED  BY <2>1, <3>1, SumEmpty
  <2>2. CASE T # {}
    <3>1. PICK s \in T : TRUE
      BY <2>2
    <3> DEFINE row  == PairsWith(s, E[s])
               less == Pairs(T \ {s})
    <3>2. Pairs(T) = less \cup row /\ less \cap row = {}
      BY DEF PairsWith
    <3>3. /\ IsFiniteSet(less) /\ IsFiniteSet(row)
          /\ \A g \in less \cup row : f[g] \in Int
      <4>1. T \ {s} \in SUBSET S
        OBVIOUS
      <4>2. IsFiniteSet(Pairs(T)) /\ \A g \in Pairs(T) : f[g] \in Int
        BY <1>0
      <4>3. IsFiniteSet(Pairs(T \ {s}))
        BY <1>0, <4>1
      <4> QED  BY <1>1, <3>2, <4>2, <4>3
    <3>4. SumFunctionOnSet(f, less) = SumFunctionOnSet(total, T \ {s})
      OBVIOUS
    <3>5. SumFunctionOnSet(total, T) = total[s] + SumFunctionOnSet(total, T \ {s})
      BY <1>1, SumRemove
    <3>6. total[s] = SumFunctionOnSet(f, row) /\ total[s] \in Int
      BY <1>1
    <3>7. SumFunctionOnSet(total, T \ {s}) \in Int
      BY <1>1, SumType
    <3> HIDE DEF less, row, Pairs, Good
    <3>8. SumFunctionOnSet(f, less \cup row) = SumFunctionOnSet(f, less) + SumFunctionOnSet(f, row)
      BY <3>2, <3>3, SumUnion
    <3> QED  BY <3>2, <3>4, <3>5, <3>6, <3>7, <3>8
  <2> QED  BY <2>1, <2>2
<1>3. SUBSET S \subseteq Good
  <2> HIDE DEF Good
  <2> QED  BY <1>2, Shrinking
<1> QED
  BY <1>3 DEF PairsIn
---------------------------------------------------------

-----------------------------------------------------------------------------
(* Counting.                                                               *)

\* What a function makes of a finite set is finite.
LEMMA Images ==
    ASSUME NEW S, IsFiniteSet(S), NEW T, NEW f \in [S -> T], \A y \in T : \E x \in S : f[x] = y
    PROVE  IsFiniteSet(T)
<1>1. f \in Surjection(S, T)
  BY DEF Surjection
<1> QED  BY <1>1, FS_Surjection

\* The elements of a finite set, counted class by class.
Fibre(T, f, s) == {x \in T : f[x] = s}
Over(T, f, S) == {x \in T : f[x] \in S}

LEMMA SumFibres ==
    ASSUME NEW T, IsFiniteSet(T), NEW S, IsFiniteSet(S), NEW f, NEW g,
           \A s \in S : g[s] = Cardinality(Fibre(T, f, s))
    PROVE  SumFunctionOnSet(g, S) = Cardinality(Over(T, f, S))
<1> DEFINE Of(U) == Over(T, f, U)
           Good == {U \in SUBSET S : SumFunctionOnSet(g, U) = Cardinality(Of(U))}
<1>1. \A U : IsFiniteSet(Of(U)) /\ Cardinality(Of(U)) \in Nat
  <2> TAKE U
  <2>1. Of(U) \in SUBSET T
    BY DEF Over
  <2> HIDE DEF Of
  <2> QED  BY <2>1, FS_Subset, FS_CardinalityType
<1>2. \A s \in S : g[s] = Cardinality(Of({s})) /\ g[s] \in Int
  <2> TAKE s \in S
  <2>1. Of({s}) = Fibre(T, f, s)
    BY DEF Fibre, Over
  <2>2. Cardinality(Of({s})) \in Nat
    BY <1>1
  <2> HIDE DEF Of
  <2> QED  BY <2>1, <2>2
<1>3. ASSUME NEW U \in SUBSET S, \A s \in U : U \ {s} \in Good
      PROVE  U \in Good
  <2>1. CASE U = {}
    <3>1. Of(U) = {}
      BY <2>1 DEF Over
    <3> HIDE DEF Of
    <3> QED  BY <2>1, <3>1, SumEmpty, FS_EmptySet
  <2>2. CASE U # {}
    <3>1. PICK s \in U : TRUE
      BY <2>2
    <3>2. SumFunctionOnSet(g, U \ {s}) = Cardinality(Of(U \ {s}))
      BY <1>3, <3>1
    <3>3. SumFunctionOnSet(g, U) = g[s] + SumFunctionOnSet(g, U \ {s})
      <4>1. \A x \in S : g[x] \in Int
        BY <1>2
      <4> HIDE DEF Of, Good
      <4> QED  BY <4>1, SumRemove
    <3>4. Of(U) = Of(U \ {s}) \cup Of({s}) /\ Of(U \ {s}) \cap Of({s}) = {}
      BY <3>1 DEF Over
    <3> HIDE DEF Of
    <3>5. Cardinality(Of(U)) = Cardinality(Of(U \ {s})) + Cardinality(Of({s})) - Cardinality({})
      <4>1. IsFiniteSet(Of(U \ {s})) /\ IsFiniteSet(Of({s}))
        BY <1>1
      <4> DEFINE A == Of(U \ {s})
                 B == Of({s})
      <4>2. A \cap B = {} /\ Of(U) = A \cup B
        BY <3>4
      <4>3. IsFiniteSet(A) /\ IsFiniteSet(B)
        BY <4>1
      <4> HIDE DEF A, B
      <4>4. Cardinality(A \cup B) = Cardinality(A) + Cardinality(B) - Cardinality(A \cap B)
        BY <4>3, FS_Union
      <4> QED  BY <4>2, <4>4 DEF A, B
    <3>6. Cardinality({}) = 0
      BY FS_EmptySet
    <3>7. Cardinality(Of(U \ {s})) \in Nat /\ Cardinality(Of({s})) \in Nat
      BY <1>1
    <3>8. g[s] = Cardinality(Of({s}))
      BY <1>2
    <3> QED  BY <3>2, <3>3, <3>5, <3>6, <3>7, <3>8
  <2> QED  BY <2>1, <2>2
<1> HIDE DEF Good, Of
<1>4. SUBSET S \subseteq Good
  BY <1>3, Shrinking
<1> QED  BY <1>4 DEF Good, Of

\* The sum of sums, term by term.
LEMMA SumAdd ==
  ASSUME NEW f, NEW g, NEW h, NEW S, IsFiniteSet(S),
         \A x \in S : g[x] \in Int /\ h[x] \in Int /\ f[x] = g[x] + h[x]
  PROVE  SumFunctionOnSet(f, S) = SumFunctionOnSet(g, S) + SumFunctionOnSet(h, S)
<1>1. \A x \in S : f[x] \in Int /\ g[x] \in Int /\ h[x] \in Int
  OBVIOUS
<1>2. /\ SumFunctionOnSet(f, S) \in Int /\ SumFunctionOnSet(g, S) \in Int
      /\ SumFunctionOnSet(h, S) \in Int
  BY <1>1, SumType
<1>3. 1 * SumFunctionOnSet(f, S) <= 1 * SumFunctionOnSet(g, S) + 1 * SumFunctionOnSet(h, S)
  <2>1. \A x \in S : /\ f[x] \in Int /\ g[x] \in Int /\ h[x] \in Int
                     /\ 1 * f[x] <= 1 * g[x] + 1 * h[x]
    OBVIOUS
  <2>2. 1 \in Int
    OBVIOUS
  <2> QED  BY <2>1, <2>2, SumLinear, Zenon
<1>4. (-1) * SumFunctionOnSet(f, S) <= (-1) * SumFunctionOnSet(g, S) + (-1) * SumFunctionOnSet(h, S)
  <2>1. \A x \in S : (-1) * f[x] <= (-1) * g[x] + (-1) * h[x]
    OBVIOUS
  <2>2. -1 \in Int
    OBVIOUS
  <2> QED  BY <1>1, <2>1, <2>2, SumLinear
<1> QED
  BY <1>2, <1>3, <1>4

\* A common factor comes out of a sum.
LEMMA SumScale ==
  ASSUME NEW f, NEW g, NEW S, IsFiniteSet(S), NEW k \in Int,
         \A x \in S : g[x] \in Int /\ f[x] = k * g[x]
  PROVE  SumFunctionOnSet(f, S) = k * SumFunctionOnSet(g, S)
<1>1. \A x \in S : f[x] \in Int /\ g[x] \in Int
  OBVIOUS
<1>2. SumFunctionOnSet(f, S) \in Int /\ SumFunctionOnSet(g, S) \in Int
  BY <1>1, SumType
<1>3. 1 * SumFunctionOnSet(f, S) <= k * SumFunctionOnSet(g, S) + 0 * SumFunctionOnSet(g, S)
  <2>1. \A x \in S : /\ f[x] \in Int /\ g[x] \in Int
                     /\ 1 * f[x] <= k * g[x] + 0 * g[x]
    OBVIOUS
  <2>2. 1 \in Int /\ 0 \in Int
    OBVIOUS
  <2> QED  BY <2>1, <2>2, SumLinear, Zenon
<1>4. (-1) * SumFunctionOnSet(f, S) <= (-k) * SumFunctionOnSet(g, S) + 0 * SumFunctionOnSet(g, S)
  <2>1. \A x \in S : /\ f[x] \in Int /\ g[x] \in Int
                     /\ (-1) * f[x] <= (-k) * g[x] + 0 * g[x]
    OBVIOUS
  <2>2. -1 \in Int /\ -k \in Int /\ 0 \in Int
    OBVIOUS
  <2> QED  BY <2>1, <2>2, SumLinear, Zenon
<1>5. \A p, q \in Int : 1 * p <= k * q + 0 * q /\ (-1) * p <= (-k) * q + 0 * q => p = k * q
  OBVIOUS
<1> QED
  BY <1>2, <1>3, <1>4, <1>5

\* Nothing but zeros adds up to zero.
LEMMA SumZero ==
  ASSUME NEW f, NEW S, IsFiniteSet(S), \A x \in S : f[x] = 0
  PROVE  SumFunctionOnSet(f, S) = 0
<1>1. {} \in SUBSET S /\ (\A x \in S : f[x] \in Int) /\ \A x \in S \ {} : f[x] = 0
  OBVIOUS
<1> QED
  BY <1>1, SumSupport, SumEmpty

\* One and the same number, as often as there are elements.
LEMMA SumOnes ==
  ASSUME NEW f, NEW S, IsFiniteSet(S), NEW k \in Int, \A x \in S : f[x] = k
  PROVE  SumFunctionOnSet(f, S) = k * Cardinality(S)
<1> DEFINE one == [x \in S |-> 1]
           id == [x \in S |-> x]
<1>1. SumFunctionOnSet(f, S) = k * SumFunctionOnSet(one, S)
  <2>1. \A x \in S : one[x] \in Int /\ f[x] = k * one[x]
    OBVIOUS
  <2> HIDE DEF one
  <2> QED  BY <2>1, SumScale
<1>2. SumFunctionOnSet(one, S) = Cardinality(S)
  <2>1. \A s \in S : Fibre(S, id, s) = {s}
    BY DEF Fibre
  <2>2. \A s \in S : Cardinality(Fibre(S, id, s)) = 1
    BY <2>1, FS_Singleton
  <2>3. Over(S, id, S) = S
    BY DEF Over
  <2>4. \A s \in S : one[s] = Cardinality(Fibre(S, id, s))
    BY <2>2
  <2> HIDE DEF one, id
  <2> QED  BY <2>3, <2>4, SumFibres
<1> QED
  BY <1>1, <1>2

\* The column of a table over pairs, and the totals of its columns over the rows of T.
Column(f, c, S) == [s \in S |-> f[<<s, c>>]]
Columns(f, S, U, T) == [c \in U |-> SumFunctionOnSet(Column(f, c, S), T)]

\* Every row added up and then the rows: every column added up and then the columns.
LEMMA SumSwap ==
  ASSUME NEW f, NEW S, NEW U, IsFiniteSet(S), IsFiniteSet(U),
         \A s \in S, c \in U : f[<<s, c>>] \in Int, NEW total,
         \A s \in S : total[s] = SumFunctionOnSet(Row(f, s, U), U)
  PROVE  SumFunctionOnSet(total, S) = SumFunctionOnSet(Columns(f, S, U, S), U)
<1> DEFINE Good == {T \in SUBSET S :
                      SumFunctionOnSet(total, T) = SumFunctionOnSet(Columns(f, S, U, T), U)}
<1>1. \A s \in S, c \in U : Row(f, s, U)[c] = f[<<s, c>>] /\ Column(f, c, S)[s] = f[<<s, c>>]
  BY DEF Row, Column
<1>2. \A T : \A c \in U : Columns(f, S, U, T)[c] = SumFunctionOnSet(Column(f, c, S), T)
  BY DEF Columns
<1>3. \A T \in SUBSET S, c \in U : SumFunctionOnSet(Column(f, c, S), T) \in Int
  BY <1>1, SumType
<1>4. \A s \in S : total[s] \in Int
  <2> TAKE s \in S
  <2>1. U \in SUBSET U /\ \A c \in U : Row(f, s, U)[c] \in Int
    BY <1>1
  <2> QED  BY <2>1, SumType
<1>5. \A T \in SUBSET S : (\A x \in T : T \ {x} \in Good) => T \in Good
  <2> SUFFICES ASSUME NEW T \in SUBSET S, \A x \in T : T \ {x} \in Good
               PROVE  SumFunctionOnSet(total, T) = SumFunctionOnSet(Columns(f, S, U, T), U)
    OBVIOUS
  <2>1. CASE T = {}
    <3>1. \A c \in U : Columns(f, S, U, T)[c] = 0
      BY <2>1, <1>2, SumEmpty
    <3>2. SumFunctionOnSet(Columns(f, S, U, T), U) = 0
      BY <3>1, SumZero
    <3> QED  BY <2>1, <3>2, SumEmpty
  <2>2. CASE T # {}
    <3>1. PICK x \in T : TRUE
      BY <2>2
    <3>2. SumFunctionOnSet(total, T) = total[x] + SumFunctionOnSet(total, T \ {x})
      BY <1>4, SumRemove
    <3>3. \A c \in U : SumFunctionOnSet(Column(f, c, S), T)
                         = Column(f, c, S)[x] + SumFunctionOnSet(Column(f, c, S), T \ {x})
      <4> TAKE c \in U
      <4>1. \A s \in S : Column(f, c, S)[s] \in Int
        BY <1>1
      <4> QED  BY <4>1, SumRemove
    <3>4. \A c \in U : /\ Row(f, x, U)[c] \in Int /\ Columns(f, S, U, T \ {x})[c] \in Int
                       /\ Columns(f, S, U, T)[c] = Row(f, x, U)[c] + Columns(f, S, U, T \ {x})[c]
      <4> TAKE c \in U
      <4>1. Columns(f, S, U, T)[c] = SumFunctionOnSet(Column(f, c, S), T)
        BY <1>2
      <4>2. Columns(f, S, U, T \ {x})[c] = SumFunctionOnSet(Column(f, c, S), T \ {x})
        BY <1>2
      <4>3. T \ {x} \in SUBSET S
        OBVIOUS
      <4>4. SumFunctionOnSet(Column(f, c, S), T \ {x}) \in Int
        BY <1>3, <4>3
      <4>5. Row(f, x, U)[c] = Column(f, c, S)[x] /\ Row(f, x, U)[c] \in Int
        BY <1>1
      <4> QED  BY <3>3, <4>1, <4>2, <4>4, <4>5
    <3> DEFINE new == Columns(f, S, U, T)
               old == Columns(f, S, U, T \ {x})
               row == Row(f, x, U)
    <3> HIDE DEF new, old, row
    <3>5. SumFunctionOnSet(Columns(f, S, U, T), U)
            = SumFunctionOnSet(Row(f, x, U), U) + SumFunctionOnSet(Columns(f, S, U, T \ {x}), U)
      <4>1. \A c \in U : row[c] \in Int /\ old[c] \in Int /\ new[c] = row[c] + old[c]
        BY <3>4 DEF new, old, row
      <4>2. SumFunctionOnSet(new, U) = SumFunctionOnSet(row, U) + SumFunctionOnSet(old, U)
        BY <4>1, SumAdd
      <4> QED  BY <4>2 DEF new, old, row
    <3>6. SumFunctionOnSet(total, T \ {x}) = SumFunctionOnSet(Columns(f, S, U, T \ {x}), U)
      OBVIOUS
    <3> QED  BY <3>2, <3>5, <3>6
  <2> QED  BY <2>1, <2>2
<1> HIDE DEF Good
<1>6. SUBSET S \subseteq Good
  BY <1>5, Shrinking
<1>7. S \in Good
  BY <1>6
<1> QED
  BY <1>7 DEF Good
=============================================================================
