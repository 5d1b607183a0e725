------------------------------ MODULE SetLemmas ------------------------------
(***************************************************************************)
(* Facts about finite sets and about sums over them that the proofs need.  *)
(* The services keep figures beside the rows they are the sums of; a proof *)
(* that the two agree must say what becomes of a sum when one row changes  *)
(* or one is added.  SumFunctionOnSet of the module Functions is defined   *)
(* by recursion over subsets.  What it computes is shown by looking at a   *)
(* smallest subset for which a claim fails: there is one, because strict   *)
(* inclusion is well-founded on the subsets of a finite set.               *)
(***************************************************************************)
EXTENDS Integers, Functions, FiniteSetTheorems, TLAPS

\* A set of which any two members are the same has at most one.
LEMMA AtMostOne ==
  ASSUME NEW S, \A x, y \in S : x = y
  PROVE  IsFiniteSet(S) /\ Cardinality(S) <= 1
<1>1. CASE S = {}
  BY <1>1, FS_EmptySet
<1>2. CASE S # {}
  <2>1. PICK x : S = {x}
    BY <1>2
  <2>2. IsFiniteSet({x}) /\ Cardinality({x}) = 1
    BY FS_Singleton
  <2> QED
    BY <2>1, <2>2
<1> QED
  BY <1>1, <1>2

First(s) == CHOOSE x \in s : TRUE

Solves(g, f, D) ==
  g = [s \in D |-> IF s = {} THEN 0 ELSE f[First(s)] + g[s \ {First(s)}]]

LEMMA SumDef ==
  ASSUME NEW f, NEW S
  PROVE  SumFunctionOnSet(f, S) = (CHOOSE g : Solves(g, f, SUBSET S))[S]
BY DEF SumFunctionOnSet, FoldFunctionOnSet, MapThenFoldSet, Solves, First

LEMMA SmallestSubset ==
  ASSUME NEW S, IsFiniteSet(S), NEW T \in SUBSET SUBSET S, T # {}
  PROVE  \E x \in T : \A y \in T : y \subseteq x => y = x
<1>0. T \subseteq FiniteSubsetsOf(S)
  BY FS_Subset DEF FiniteSubsetsOf
<1>1. \E x \in T : \A y \in T : ~ (<<y, x>> \in StrictSubsetOrdering(S))
  BY <1>0, FS_StrictSubsetOrderingWellFounded, WFMin
<1>2. T \subseteq SUBSET S OBVIOUS
<1> QED
  BY <1>1, <1>2 DEF StrictSubsetOrdering

\* The subsets of S with no more elements than s
NoLarger(S, s) == {t \in SUBSET S : Cardinality(t) <= Cardinality(s)}

LEMMA FirstIsIn ==
  ASSUME NEW s, s # {}
  PROVE  First(s) \in s
BY DEF First

LEMMA SumExists ==
  ASSUME NEW f, NEW S, IsFiniteSet(S)
  PROVE  \E g : Solves(g, f, SUBSET S)
<1> DEFINE Bad == {s \in SUBSET S : ~ \E g : Solves(g, f, NoLarger(S, s))}
<1> DEFINE Step(g, s) == IF s = {} THEN 0 ELSE f[First(s)] + g[s \ {First(s)}]
<1>1. \A s \in SUBSET S : /\ IsFiniteSet(s) /\ Cardinality(s) \in Nat
                          /\ Cardinality(s) <= Cardinality(S)
                          /\ Cardinality(s) = 0 <=> s = {}
  BY FS_Subset, FS_CardinalityType, FS_EmptySet
<1>2. \A s \in SUBSET S : \A x \in s : /\ s \ {x} \in SUBSET S
                                       /\ Cardinality(s \ {x}) = Cardinality(s) - 1
  BY <1>1, FS_RemoveElement
<1>3. Bad = {}
  <2>1. SUFFICES ASSUME Bad # {} PROVE FALSE
    OBVIOUS
  <2>2. PICK s \in Bad : \A y \in Bad : y \subseteq s => y = s
    <3>1. Bad \in SUBSET SUBSET S
      OBVIOUS
    <3> HIDE DEF Bad
    <3> QED
      BY <2>1, <3>1, SmallestSubset
  <2>3. CASE s = {}
    <3>1. NoLarger(S, s) = {{}}
      BY <1>1, <2>3 DEF NoLarger
    <3>2. Solves([t \in {{}} |-> 0], f, NoLarger(S, s))
      BY <3>1 DEF Solves
    <3> QED
      BY <3>2, <2>2
  <2>4. CASE s # {}
    <3> DEFINE r == s \ {First(s)}
    <3>1. First(s) \in s /\ r \in SUBSET S /\ Cardinality(r) = Cardinality(s) - 1 /\ r # s
      BY <2>4, FirstIsIn, <1>2
    <3>2. r \notin Bad
      BY <3>1, <2>2
    <3>3. PICK g : Solves(g, f, NoLarger(S, r))
      BY <3>1, <3>2
    <3> DEFINE h == [t \in NoLarger(S, s) |-> Step(g, t)]
    <3>4. \A t \in NoLarger(S, r) : g[t] = Step(g, t)
      BY <3>3, Zenon DEF Solves
    <3>5. ASSUME NEW t \in NoLarger(S, r) PROVE t \in NoLarger(S, s) /\ h[t] = g[t]
      <4>1. t \in NoLarger(S, s)
        BY <1>1, <3>1 DEF NoLarger
      <4> QED
        BY <4>1, <3>4
    <3>6. ASSUME NEW t \in NoLarger(S, s), t # {} PROVE h[t \ {First(t)}] = g[t \ {First(t)}]
      <4>1. First(t) \in t /\ t \in SUBSET S
        BY <3>6, FirstIsIn DEF NoLarger
      <4>2. t \ {First(t)} \in NoLarger(S, r)
        BY <4>1, <1>1, <1>2, <3>1 DEF NoLarger
      <4> QED
        BY <4>2, <3>5
    <3>7. \A t \in NoLarger(S, s) : Step(g, t) = Step(h, t)
      <4> HIDE DEF h
      <4> QED BY <3>6
    <3>8. h = [t \in NoLarger(S, s) |-> Step(h, t)]
      <4>1. h = [t \in NoLarger(S, s) |-> Step(g, t)]
        OBVIOUS
      <4> HIDE DEF h
      <4> QED BY <4>1, <3>7
    <3>9. Solves(h, f, NoLarger(S, s))
      BY <3>8 DEF Solves
    <3> QED
      BY <3>9, <2>2
  <2> QED
    BY <2>3, <2>4
<1>4. NoLarger(S, S) = SUBSET S
  BY <1>1 DEF NoLarger
<1>5. S \notin Bad
  BY <1>3
<1> QED
  BY <1>4, <1>5

LEMMA SumSolved ==
  ASSUME NEW f, NEW S, IsFiniteSet(S)
  PROVE  \E g : Solves(g, f, SUBSET S) /\ SumFunctionOnSet(f, S) = g[S]
BY SumExists, SumDef

LEMMA SolutionStep ==
  ASSUME NEW f, NEW g, NEW S, NEW s \in SUBSET S, Solves(g, f, SUBSET S)
  PROVE  g[s] = IF s = {} THEN 0 ELSE f[First(s)] + g[s \ {First(s)}]
BY Zenon DEF Solves

LEMMA SolutionsAgree ==
  ASSUME NEW f, NEW g, NEW h, NEW S, NEW R, IsFiniteSet(R), S \subseteq R,
         Solves(g, f, SUBSET S), Solves(h, f, SUBSET R)
  PROVE  g[S] = h[S]
<1> DEFINE Bad == {s \in SUBSET S : g[s] # h[s]}
<1>1. IsFiniteSet(S)
  BY FS_Subset
<1>2. SUFFICES ASSUME Bad # {} PROVE FALSE
  OBVIOUS
<1>3. Bad \in SUBSET SUBSET S
  OBVIOUS
<1>4. PICK s \in Bad : \A y \in Bad : y \subseteq s => y = s
  <2> HIDE DEF Bad
  <2> QED
    BY <1>1, <1>2, <1>3, SmallestSubset
<1> DEFINE r == s \ {First(s)}
<1>5. g[s] = IF s = {} THEN 0 ELSE f[First(s)] + g[r]
  <2>1. s \in SUBSET S
    BY <1>4
  <2> QED
    BY <2>1, SolutionStep
<1>6. h[s] = IF s = {} THEN 0 ELSE f[First(s)] + h[r]
  <2>1. s \in SUBSET R
    BY <1>4
  <2> QED
    BY <2>1, SolutionStep
<1>7. s # {} => First(s) \in s
  BY FirstIsIn
<1>8. s # {} => g[r] = h[r]
  BY <1>4, <1>7
<1> QED
  BY <1>4, <1>5, <1>6, <1>8

LEMMA SumEmpty == ASSUME NEW f PROVE SumFunctionOnSet(f, {}) = 0
<1>1. PICK g : Solves(g, f, SUBSET {}) /\ SumFunctionOnSet(f, {}) = g[{}]
  BY SumSolved, FS_EmptySet
<1> QED
  BY <1>1, SolutionStep

LEMMA SumFirst ==
  ASSUME NEW f, NEW S, IsFiniteSet(S), S # {}
  PROVE  SumFunctionOnSet(f, S) = f[First(S)] + SumFunctionOnSet(f, S \ {First(S)})
<1> DEFINE r == S \ {First(S)}
<1>1. IsFiniteSet(r)
  BY FS_RemoveElement
<1>2. PICK g : Solves(g, f, SUBSET S) /\ SumFunctionOnSet(f, S) = g[S]
  BY SumSolved
<1>3. PICK h : Solves(h, f, SUBSET r) /\ SumFunctionOnSet(f, r) = h[r]
  BY <1>1, SumSolved
<1>4. h[r] = g[r]
  <2>1. r \subseteq S /\ Solves(g, f, SUBSET S) /\ Solves(h, f, SUBSET r)
    BY <1>2, <1>3
  <2> HIDE DEF r
  <2>2. h[r] = g[r]
    BY <2>1, SolutionsAgree
  <2> QED
    BY <2>2
<1>5. g[S] = f[First(S)] + g[r]
  BY <1>2, SolutionStep
<1> QED
  BY <1>2, <1>3, <1>4, <1>5

\* The sum of integers is one, and of natural numbers is one of these.
LEMMA SumType ==
  ASSUME NEW f, NEW S, IsFiniteSet(S), \A x \in S : f[x] \in Int
  PROVE  SumFunctionOnSet(f, S) \in Int
<1> DEFINE Bad == {s \in SUBSET S : SumFunctionOnSet(f, s) \notin Int}
<1>1. SUFFICES ASSUME Bad # {} PROVE FALSE
  OBVIOUS
<1>2. Bad \in SUBSET SUBSET S
  OBVIOUS
<1>3. PICK s \in Bad : \A y \in Bad : y \subseteq s => y = s
  <2> HIDE DEF Bad
  <2> QED
    BY <1>1, <1>2, SmallestSubset
<1>4. s # {}
  <2>1. SumFunctionOnSet(f, s) \notin Int
    OBVIOUS
  <2>2. ~ (SumFunctionOnSet(f, {}) \notin Int)
    BY SumEmpty
  <2> QED
    BY <2>1, <2>2, Zenon
<1>5. First(s) \in s /\ IsFiniteSet(s) /\ s \in SUBSET S
  BY <1>4, FirstIsIn, <1>2, FS_Subset
<1>6. SumFunctionOnSet(f, s \ {First(s)}) \in Int
  BY <1>3, <1>5
<1> QED
  BY <1>3, <1>4, <1>5, <1>6, SumFirst

LEMMA SumIsNat ==
  ASSUME NEW f, NEW S, IsFiniteSet(S), \A x \in S : f[x] \in Nat
  PROVE  SumFunctionOnSet(f, S) \in Nat
<1> DEFINE Bad == {s \in SUBSET S : SumFunctionOnSet(f, s) \notin Nat}
<1>1. SUFFICES ASSUME Bad # {} PROVE FALSE
  OBVIOUS
<1>2. Bad \in SUBSET SUBSET S
  OBVIOUS
<1>3. PICK s \in Bad : \A y \in Bad : y \subseteq s => y = s
  <2> HIDE DEF Bad
  <2> QED
    BY <1>1, <1>2, SmallestSubset
<1>4. s # {}
  <2>1. SumFunctionOnSet(f, s) \notin Nat
    OBVIOUS
  <2>2. ~ (SumFunctionOnSet(f, {}) \notin Nat)
    BY SumEmpty
  <2> QED
    BY <2>1, <2>2, Zenon
<1>5. First(s) \in s /\ IsFiniteSet(s) /\ s \in SUBSET S
  BY <1>4, FirstIsIn, <1>2, FS_Subset
<1>6. SumFunctionOnSet(f, s \ {First(s)}) \in Nat
  BY <1>3, <1>5
<1> QED
  BY <1>3, <1>4, <1>5, <1>6, SumFirst

\* Any member may be taken out of a sum.
LEMMA SumSplit ==
  ASSUME NEW f, NEW S, IsFiniteSet(S), \A x \in S : f[x] \in Int, NEW a \in S
  PROVE  SumFunctionOnSet(f, S) = f[a] + SumFunctionOnSet(f, S \ {a})
<1> DEFINE Sum(s) == SumFunctionOnSet(f, s)
<1> DEFINE Bad == {s \in SUBSET S : \E x \in s : Sum(s) # f[x] + Sum(s \ {x})}
<1>1. SUFFICES ASSUME Bad # {} PROVE FALSE
  OBVIOUS
<1>2. Bad \in SUBSET SUBSET S
  OBVIOUS
<1>3. PICK s \in Bad : \A y \in Bad : y \subseteq s => y = s
  <2> HIDE DEF Bad
  <2> QED
    BY <1>1, <1>2, SmallestSubset
<1>4. PICK x \in s : Sum(s) # f[x] + Sum(s \ {x})
  BY <1>3
<1> DEFINE c == First(s)
<1>5. c \in s /\ IsFiniteSet(s) /\ s \in SUBSET S
  BY <1>4, FirstIsIn, <1>2, FS_Subset
<1>6. Sum(s) = f[c] + Sum(s \ {c})
  BY <1>5, SumFirst
<1>7. c # x
  BY <1>4, <1>6
<1> DEFINE both == (s \ {c}) \ {x}
<1>8. Sum(s \ {c}) = f[x] + Sum(both)
  <2>1. s \ {c} \in SUBSET S /\ s \ {c} \notin Bad /\ x \in s \ {c}
    BY <1>3, <1>5, <1>7, <1>4
  <2> QED
    BY <2>1
<1>9. Sum(s \ {x}) = f[c] + Sum(both)
  <2>1. s \ {x} \in SUBSET S /\ s \ {x} \notin Bad /\ c \in s \ {x}
    BY <1>3, <1>5, <1>7, <1>4
  <2>2. (s \ {x}) \ {c} = both
    OBVIOUS
  <2> QED
    BY <2>1, <2>2
<1>10. Sum(both) \in Int /\ f[x] \in Int /\ f[c] \in Int
  <2>1. IsFiniteSet(both) /\ both \subseteq S
    BY <1>5, FS_Subset
  <2> QED
    BY <2>1, <1>4, <1>5, SumType
<1> HIDE DEF Sum, both, c
<1> QED
  BY <1>4, <1>6, <1>8, <1>9, <1>10

\* Functions that agree on a set have the same sum on it.
LEMMA SumSame ==
  ASSUME NEW f, NEW g, NEW S, IsFiniteSet(S), \A x \in S : f[x] = g[x]
  PROVE  SumFunctionOnSet(f, S) = SumFunctionOnSet(g, S)
<1> DEFINE Bad == {s \in SUBSET S : SumFunctionOnSet(f, s) # SumFunctionOnSet(g, s)}
<1>1. SUFFICES ASSUME Bad # {} PROVE FALSE
  OBVIOUS
<1>2. Bad \in SUBSET SUBSET S
  OBVIOUS
<1>3. PICK s \in Bad : \A y \in Bad : y \subseteq s => y = s
  <2> HIDE DEF Bad
  <2> QED
    BY <1>1, <1>2, SmallestSubset
<1>4. s # {}
  <2>1. SumFunctionOnSet(f, s) # SumFunctionOnSet(g, s)
    OBVIOUS
  <2>2. ~ (SumFunctionOnSet(f, {}) # SumFunctionOnSet(g, {}))
    BY SumEmpty
  <2> QED
    BY <2>1, <2>2, Zenon
<1>5. First(s) \in s /\ IsFiniteSet(s) /\ s \in SUBSET S
  BY <1>4, FirstIsIn, <1>2, FS_Subset
<1>6. SumFunctionOnSet(f, s \ {First(s)}) = SumFunctionOnSet(g, s \ {First(s)})
  BY <1>3, <1>5
<1>7. f[First(s)] = g[First(s)]
  BY <1>5
<1> QED
  BY <1>3, <1>4, <1>5, <1>6, <1>7, SumFirst

\* A sum of nothing but zeros
LEMMA SumZero ==
  ASSUME NEW f, NEW S, IsFiniteSet(S), \A x \in S : f[x] = 0
  PROVE  SumFunctionOnSet(f, S) = 0
<1> DEFINE Bad == {s \in SUBSET S : SumFunctionOnSet(f, s) # 0}
<1>1. SUFFICES ASSUME Bad # {} PROVE FALSE
  OBVIOUS
<1>2. Bad \in SUBSET SUBSET S
  OBVIOUS
<1>3. PICK s \in Bad : \A y \in Bad : y \subseteq s => y = s
  <2> HIDE DEF Bad
  <2> QED
    BY <1>1, <1>2, SmallestSubset
<1>4. s # {}
  <2>1. SumFunctionOnSet(f, s) # 0
    OBVIOUS
  <2>2. ~ (SumFunctionOnSet(f, {}) # 0)
    BY SumEmpty
  <2> QED
    BY <2>1, <2>2, Zenon
<1>5. First(s) \in s /\ IsFiniteSet(s) /\ s \in SUBSET S
  BY <1>4, FirstIsIn, <1>2, FS_Subset
<1>6. SumFunctionOnSet(f, s \ {First(s)}) = 0
  BY <1>3, <1>5
<1> QED
  BY <1>3, <1>4, <1>5, <1>6, SumFirst

\* A sum of which one member changes
LEMMA SumChanged ==
  ASSUME NEW f, NEW g, NEW S, IsFiniteSet(S), \A x \in S : f[x] \in Int /\ g[x] \in Int,
         NEW a \in S, \A x \in S \ {a} : g[x] = f[x]
  PROVE  SumFunctionOnSet(g, S) = SumFunctionOnSet(f, S) - f[a] + g[a]
<1>1. IsFiniteSet(S \ {a})
  BY FS_RemoveElement
<1>2. SumFunctionOnSet(f, S \ {a}) = SumFunctionOnSet(g, S \ {a})
  BY <1>1, SumSame
<1>3. SumFunctionOnSet(f, S \ {a}) \in Int
  BY <1>1, SumType
<1>4. SumFunctionOnSet(f, S) = f[a] + SumFunctionOnSet(f, S \ {a})
  BY SumSplit
<1>5. SumFunctionOnSet(g, S) = g[a] + SumFunctionOnSet(g, S \ {a})
  BY SumSplit
<1> QED
  BY <1>2, <1>3, <1>4, <1>5

\* A sum to which a member is added
LEMMA SumAdded ==
  ASSUME NEW f, NEW S, IsFiniteSet(S), NEW a, a \notin S,
         \A x \in S \cup {a} : f[x] \in Int
  PROVE  SumFunctionOnSet(f, S \cup {a}) = SumFunctionOnSet(f, S) + f[a]
<1>1. IsFiniteSet(S \cup {a}) /\ (S \cup {a}) \ {a} = S
  BY FS_AddElement
<1>2. SumFunctionOnSet(f, S) \in Int
  BY SumType
<1> QED
  BY <1>1, <1>2, SumSplit

\* A sum of numbers with the other sign
LEMMA SumNegated ==
  ASSUME NEW f, NEW g, NEW S, IsFiniteSet(S), \A x \in S : f[x] \in Int /\ g[x] = 0 - f[x]
  PROVE  SumFunctionOnSet(g, S) = 0 - SumFunctionOnSet(f, S)
<1> DEFINE Bad == {s \in SUBSET S : ~ (SumFunctionOnSet(g, s) = 0 - SumFunctionOnSet(f, s))}
<1>1. SUFFICES ASSUME Bad # {} PROVE FALSE
  OBVIOUS
<1>2. Bad \in SUBSET SUBSET S
  OBVIOUS
<1>3. PICK s \in Bad : \A y \in Bad : y \subseteq s => y = s
  <2> HIDE DEF Bad
  <2> QED
    BY <1>1, <1>2, SmallestSubset
<1>4. ~ (SumFunctionOnSet(g, s) = 0 - SumFunctionOnSet(f, s))
  BY <1>3
<1>5. s # {}
  <2>1. SumFunctionOnSet(g, {}) = 0 - SumFunctionOnSet(f, {})
    BY SumEmpty
  <2> QED
    BY <2>1, <1>4, Zenon
<1> DEFINE c == First(s)
<1> DEFINE r == s \ {c}
<1>6. /\ c \in s /\ c \in S /\ s \in SUBSET S /\ IsFiniteSet(s)
      /\ r \in SUBSET S /\ IsFiniteSet(r) /\ r # s /\ r \subseteq s /\ c \notin r
  BY <1>5, FirstIsIn, <1>2, FS_Subset
<1>7. SumFunctionOnSet(g, r) = 0 - SumFunctionOnSet(f, r)
  <2>1. r \notin Bad
    BY <1>3, <1>6
  <2> QED
    BY <2>1, <1>6
<1>8. /\ SumFunctionOnSet(f, s) = f[c] + SumFunctionOnSet(f, r)
      /\ SumFunctionOnSet(g, s) = g[c] + SumFunctionOnSet(g, r)
  BY <1>5, <1>6, SumFirst
<1>9. SumFunctionOnSet(f, r) \in Int
  BY <1>6, SumType
<1>10. f[c] \in Int /\ g[c] = 0 - f[c]
  BY <1>6
<1> HIDE DEF c, r
<1> QED
  BY <1>4, <1>7, <1>8, <1>9, <1>10

\* The sum of sums, member by member
LEMMA SumOfSums ==
  ASSUME NEW f, NEW g, NEW h, NEW S, IsFiniteSet(S),
         \A x \in S : f[x] \in Int /\ g[x] \in Int /\ h[x] = f[x] + g[x]
  PROVE  SumFunctionOnSet(h, S) = SumFunctionOnSet(f, S) + SumFunctionOnSet(g, S)
<1> DEFINE Bad == {s \in SUBSET S : ~ (SumFunctionOnSet(h, s) = SumFunctionOnSet(f, s) + SumFunctionOnSet(g, s))}
<1>1. SUFFICES ASSUME Bad # {} PROVE FALSE
  OBVIOUS
<1>2. Bad \in SUBSET SUBSET S
  OBVIOUS
<1>3. PICK s \in Bad : \A y \in Bad : y \subseteq s => y = s
  <2> HIDE DEF Bad
  <2> QED
    BY <1>1, <1>2, SmallestSubset
<1>4. ~ (SumFunctionOnSet(h, s) = SumFunctionOnSet(f, s) + SumFunctionOnSet(g, s))
  BY <1>3
<1>5. s # {}
  <2>1. SumFunctionOnSet(h, {}) = SumFunctionOnSet(f, {}) + SumFunctionOnSet(g, {})
    BY SumEmpty
  <2> QED
    BY <2>1, <1>4, Zenon
<1> DEFINE c == First(s)
<1> DEFINE r == s \ {c}
<1>6. /\ c \in s /\ c \in S /\ s \in SUBSET S /\ IsFiniteSet(s)
      /\ r \in SUBSET S /\ IsFiniteSet(r) /\ r # s /\ r \subseteq s /\ c \notin r
  BY <1>5, FirstIsIn, <1>2, FS_Subset
<1>7. SumFunctionOnSet(h, r) = SumFunctionOnSet(f, r) + SumFunctionOnSet(g, r)
  <2>1. r \notin Bad
    BY <1>3, <1>6
  <2> QED
    BY <2>1, <1>6
<1>8. /\ SumFunctionOnSet(f, s) = f[c] + SumFunctionOnSet(f, r)
      /\ SumFunctionOnSet(g, s) = g[c] + SumFunctionOnSet(g, r)
      /\ SumFunctionOnSet(h, s) = h[c] + SumFunctionOnSet(h, r)
  BY <1>5, <1>6, SumFirst
<1>9. SumFunctionOnSet(f, r) \in Int /\ SumFunctionOnSet(g, r) \in Int
  <2>1. \A x \in r : f[x] \in Int /\ g[x] \in Int
    BY <1>6
  <2> QED
    BY <2>1, <1>6, SumType
<1>10. f[c] \in Int /\ g[c] \in Int /\ h[c] = f[c] + g[c]
  BY <1>6
<1> HIDE DEF c, r
<1> QED
  BY <1>4, <1>7, <1>8, <1>9, <1>10

\* A sum of smaller numbers is smaller.
LEMMA SumMonotone ==
  ASSUME NEW f, NEW g, NEW S, IsFiniteSet(S), \A x \in S : f[x] \in Int /\ g[x] \in Int /\ f[x] <= g[x]
  PROVE  SumFunctionOnSet(f, S) <= SumFunctionOnSet(g, S)
<1> DEFINE Bad == {s \in SUBSET S : ~ (SumFunctionOnSet(f, s) <= SumFunctionOnSet(g, s))}
<1>1. SUFFICES ASSUME Bad # {} PROVE FALSE
  OBVIOUS
<1>2. Bad \in SUBSET SUBSET S
  OBVIOUS
<1>3. PICK s \in Bad : \A y \in Bad : y \subseteq s => y = s
  <2> HIDE DEF Bad
  <2> QED
    BY <1>1, <1>2, SmallestSubset
<1>4. ~ (SumFunctionOnSet(f, s) <= SumFunctionOnSet(g, s))
  BY <1>3
<1>5. s # {}
  <2>1. SumFunctionOnSet(f, {}) <= SumFunctionOnSet(g, {})
    BY SumEmpty
  <2> QED
    BY <2>1, <1>4, Zenon
<1> DEFINE c == First(s)
<1> DEFINE r == s \ {c}
<1>6. /\ c \in s /\ c \in S /\ s \in SUBSET S /\ IsFiniteSet(s)
      /\ r \in SUBSET S /\ IsFiniteSet(r) /\ r # s /\ r \subseteq s /\ c \notin r
  BY <1>5, FirstIsIn, <1>2, FS_Subset
<1>7. SumFunctionOnSet(f, r) <= SumFunctionOnSet(g, r)
  <2>1. r \notin Bad
    BY <1>3, <1>6
  <2> QED
    BY <2>1, <1>6
<1>8. /\ SumFunctionOnSet(f, s) = f[c] + SumFunctionOnSet(f, r)
      /\ SumFunctionOnSet(g, s) = g[c] + SumFunctionOnSet(g, r)
  BY <1>5, <1>6, SumFirst
<1>9. SumFunctionOnSet(f, r) \in Int /\ SumFunctionOnSet(g, r) \in Int
  <2>1. \A x \in r : f[x] \in Int /\ g[x] \in Int
    BY <1>6
  <2> QED
    BY <2>1, <1>6, SumType
<1>10. f[c] \in Int /\ g[c] \in Int /\ f[c] <= g[c]
  BY <1>6
<1> HIDE DEF c, r
<1> QED
  BY <1>4, <1>7, <1>8, <1>9, <1>10

\* g is f, with the members outside T put to zero.
Filtered(g, f, S, T) ==
  \A x \in S : f[x] \in Int /\ g[x] = IF x \in T THEN f[x] ELSE 0

\* A sum of which the members outside T are put to zero is the sum over those inside.
LEMMA SumFiltered ==
  ASSUME NEW f, NEW g, NEW S, NEW T, IsFiniteSet(S), Filtered(g, f, S, T)
  PROVE  SumFunctionOnSet(g, S) = SumFunctionOnSet(f, S \cap T)
<1> USE DEF Filtered
<1> DEFINE Bad == {s \in SUBSET S : ~ (SumFunctionOnSet(g, s) = SumFunctionOnSet(f, s \cap T))}
<1>1. SUFFICES ASSUME Bad # {} PROVE FALSE
  OBVIOUS
<1>2. Bad \in SUBSET SUBSET S
  OBVIOUS
<1>3. PICK s \in Bad : \A y \in Bad : y \subseteq s => y = s
  <2> HIDE DEF Bad
  <2> QED
    BY <1>1, <1>2, SmallestSubset
<1>4. ~ (SumFunctionOnSet(g, s) = SumFunctionOnSet(f, s \cap T))
  BY <1>3
<1>5. s # {}
  <2>1. SumFunctionOnSet(g, {}) = SumFunctionOnSet(f, {} \cap T)
    <3>1. {} \cap T = {}
      OBVIOUS
    <3> QED
      BY <3>1, SumEmpty
  <2> QED
    BY <2>1, <1>4, Zenon
<1> DEFINE c == First(s)
<1> DEFINE r == s \ {c}
<1>6. /\ c \in s /\ c \in S /\ s \in SUBSET S /\ IsFiniteSet(s)
      /\ r \in SUBSET S /\ IsFiniteSet(r) /\ r # s /\ r \subseteq s /\ c \notin r
  BY <1>5, FirstIsIn, <1>2, FS_Subset
<1>7. SumFunctionOnSet(g, r) = SumFunctionOnSet(f, r \cap T)
  <2>1. r \notin Bad
    BY <1>3, <1>6
  <2> QED
    BY <2>1, <1>6
<1>8. SumFunctionOnSet(g, s) = g[c] + SumFunctionOnSet(g, r)
  BY <1>5, <1>6, SumFirst
<1> DEFINE u == r \cap T
<1>9. IsFiniteSet(u) /\ c \notin u /\ \A x \in u \cup {c} : f[x] \in Int
  BY <1>6, FS_Subset
<1>10. SumFunctionOnSet(f, u) \in Int
  BY <1>9, SumType
<1>11. CASE c \in T
  <2>1. s \cap T = u \cup {c} /\ g[c] = f[c] /\ f[c] \in Int
    BY <1>6, <1>11
  <2>2. SumFunctionOnSet(f, u \cup {c}) = SumFunctionOnSet(f, u) + f[c]
    <3> HIDE DEF u, c
    <3> QED
      BY <1>9, SumAdded
  <2>3. SumFunctionOnSet(f, s \cap T) = SumFunctionOnSet(f, u) + f[c]
    BY <2>1, <2>2, Zenon
  <2> HIDE DEF u, c, r
  <2>4. SumFunctionOnSet(g, r) = SumFunctionOnSet(f, u)
    BY <1>7 DEF u
  <2> QED
    BY <2>1, <2>3, <2>4, <1>4, <1>8, <1>10
<1>12. CASE c \notin T
  <2>1. s \cap T = u /\ g[c] = 0
    BY <1>6, <1>12
  <2>2. SumFunctionOnSet(f, s \cap T) = SumFunctionOnSet(f, u)
    BY <2>1, Zenon
  <2> HIDE DEF u, c, r
  <2>3. SumFunctionOnSet(g, r) = SumFunctionOnSet(f, u)
    BY <1>7 DEF u
  <2> QED
    BY <2>1, <2>2, <2>3, <1>4, <1>8, <1>10
<1> QED
  BY <1>11, <1>12

\* The sum over two parts that share nothing
LEMMA SumOfParts ==
  ASSUME NEW f, NEW S, NEW T, IsFiniteSet(S), IsFiniteSet(T), S \cap T = {},
         \A x \in S \cup T : f[x] \in Int
  PROVE  SumFunctionOnSet(f, S \cup T) = SumFunctionOnSet(f, S) + SumFunctionOnSet(f, T)
<1> DEFINE U == S \cup T
<1> DEFINE g == [x \in U |-> IF x \in S THEN f[x] ELSE 0]
<1> DEFINE h == [x \in U |-> IF x \in T THEN f[x] ELSE 0]
<1>1. IsFiniteSet(U)
  BY FS_Union
<1>2. U \cap S = S /\ U \cap T = T
  OBVIOUS
<1>3. /\ \A x \in U : g[x] = IF x \in S THEN f[x] ELSE 0
      /\ \A x \in U : h[x] = IF x \in T THEN f[x] ELSE 0
      /\ \A x \in U : f[x] \in Int /\ g[x] \in Int /\ h[x] \in Int /\ f[x] = g[x] + h[x]
  OBVIOUS
<1> HIDE DEF U, g, h
<1>4. SumFunctionOnSet(g, U) = SumFunctionOnSet(f, S)
  <2>1. SumFunctionOnSet(g, U) = SumFunctionOnSet(f, U \cap S)
    <3>1. Filtered(g, f, U, S)
      BY <1>3 DEF Filtered
    <3> QED
      BY <3>1, <1>1, SumFiltered
  <2> QED
    BY <2>1, <1>2, Zenon
<1>5. SumFunctionOnSet(h, U) = SumFunctionOnSet(f, T)
  <2>1. SumFunctionOnSet(h, U) = SumFunctionOnSet(f, U \cap T)
    <3>1. Filtered(h, f, U, T)
      BY <1>3 DEF Filtered
    <3> QED
      BY <3>1, <1>1, SumFiltered
  <2> QED
    BY <2>1, <1>2, Zenon
<1>6. SumFunctionOnSet(f, U) = SumFunctionOnSet(g, U) + SumFunctionOnSet(h, U)
  BY <1>1, <1>3, SumOfSums
<1>7. SumFunctionOnSet(f, U) = SumFunctionOnSet(f, S) + SumFunctionOnSet(f, T)
  BY <1>4, <1>5, <1>6
<1> QED
  BY <1>7 DEF U

\* Members that are zero may be left out.
LEMMA SumWithoutZeros ==
  ASSUME NEW f, NEW S, NEW T, IsFiniteSet(S), T \subseteq S,
         \A x \in S : f[x] \in Int, \A x \in S \ T : f[x] = 0
  PROVE  SumFunctionOnSet(f, S) = SumFunctionOnSet(f, T)
<1>1. S \cap T = T
  OBVIOUS
<1>2. Filtered(f, f, S, T)
  BY DEF Filtered
<1>3. SumFunctionOnSet(f, S) = SumFunctionOnSet(f, S \cap T)
  BY <1>2, SumFiltered
<1> QED
  BY <1>1, <1>3

\* A sum of natural numbers over a subset is not larger.
LEMMA SumOfSubset ==
  ASSUME NEW f, NEW S, NEW T, IsFiniteSet(S), T \subseteq S, \A x \in S : f[x] \in Nat
  PROVE  SumFunctionOnSet(f, T) <= SumFunctionOnSet(f, S)
<1>1. IsFiniteSet(T) /\ IsFiniteSet(S \ T) /\ T \cap (S \ T) = {} /\ T \cup (S \ T) = S
  BY FS_Subset
<1> DEFINE R == S \ T
<1>2. SumFunctionOnSet(f, T \cup R) = SumFunctionOnSet(f, T) + SumFunctionOnSet(f, R)
  <2>1. IsFiniteSet(R) /\ T \cap R = {} /\ \A x \in T \cup R : f[x] \in Int
    BY <1>1
  <2> HIDE DEF R
  <2> QED
    BY <2>1, <1>1, SumOfParts
<1>3. SumFunctionOnSet(f, R) \in Nat /\ SumFunctionOnSet(f, T) \in Nat
  BY <1>1, SumIsNat
<1>4. SumFunctionOnSet(f, S) = SumFunctionOnSet(f, T) + SumFunctionOnSet(f, R)
  BY <1>1, <1>2, Zenon
<1> HIDE DEF R
<1> QED
  BY <1>3, <1>4

\* A sum of which one member alone is not zero
LEMMA SumSingle ==
  ASSUME NEW f, NEW S, IsFiniteSet(S), NEW a \in S, f[a] \in Int, \A x \in S \ {a} : f[x] = 0
  PROVE  SumFunctionOnSet(f, S) = f[a]
<1>1. IsFiniteSet(S \ {a}) /\ \A x \in S : f[x] \in Int
  BY FS_RemoveElement
<1>2. SumFunctionOnSet(f, S \ {a}) = 0
  BY <1>1, SumZero
<1>3. SumFunctionOnSet(f, S) = f[a] + SumFunctionOnSet(f, S \ {a})
  BY <1>1, SumSplit
<1> QED
  BY <1>2, <1>3

\* The member of a sum of natural numbers is not larger than the sum.
LEMMA SumAtLeast ==
  ASSUME NEW f, NEW S, IsFiniteSet(S), \A x \in S : f[x] \in Nat, NEW a \in S
  PROVE  f[a] <= SumFunctionOnSet(f, S)
<1>1. IsFiniteSet(S \ {a})
  BY FS_RemoveElement
<1>2. SumFunctionOnSet(f, S \ {a}) \in Nat
  BY <1>1, SumIsNat
<1>3. SumFunctionOnSet(f, S) = f[a] + SumFunctionOnSet(f, S \ {a})
  BY SumSplit
<1> QED
  BY <1>2, <1>3

\* rows and columns hold the sums of the table m by its first and its second argument.
Tabulated(m, S, B, rows, columns) ==
  /\ \A a \in S, b \in B : m[a][b] \in Int
  /\ \A a \in S : rows[a] = SumFunctionOnSet([b \in B |-> m[a][b]], B)
  /\ \A b \in B : columns[b] = SumFunctionOnSet([a \in S |-> m[a][b]], S)

\* The sum of a table is the same by its rows and by its columns.
LEMMA SumByColumns ==
  ASSUME NEW m, NEW S, NEW B, IsFiniteSet(S), IsFiniteSet(B), NEW rows, NEW columns,
         Tabulated(m, S, B, rows, columns)
  PROVE  SumFunctionOnSet(rows, S) = SumFunctionOnSet(columns, B)
<1> USE DEF Tabulated
<1>0. SUFFICES SumFunctionOnSet(rows, S)
                 = SumFunctionOnSet([b \in B |-> SumFunctionOnSet([a \in S |-> m[a][b]], S)], B)
  <2> DEFINE h == [b \in B |-> SumFunctionOnSet([a \in S |-> m[a][b]], S)]
  <2>1. \A b \in B : columns[b] = h[b]
    OBVIOUS
  <2> HIDE DEF h
  <2>2. SumFunctionOnSet(columns, B) = SumFunctionOnSet(h, B)
    BY <2>1, SumSame
  <2> QED
    BY <2>2 DEF h
<1> DEFINE Bad == {s \in SUBSET S : ~ (SumFunctionOnSet(rows, s) = SumFunctionOnSet([b \in B |-> SumFunctionOnSet([a \in S |-> m[a][b]], s)], B))}
<1>1. SUFFICES ASSUME Bad # {} PROVE FALSE
  OBVIOUS
<1>2. Bad \in SUBSET SUBSET S
  OBVIOUS
<1>3. PICK s \in Bad : \A y \in Bad : y \subseteq s => y = s
  <2> HIDE DEF Bad
  <2> QED
    BY <1>1, <1>2, SmallestSubset
<1>4. ~ (SumFunctionOnSet(rows, s) = SumFunctionOnSet([b \in B |-> SumFunctionOnSet([a \in S |-> m[a][b]], s)], B))
  BY <1>3
<1>5. s # {}
  <2>1. SumFunctionOnSet(rows, {}) = SumFunctionOnSet([b \in B |-> SumFunctionOnSet([a \in S |-> m[a][b]], {})], B)
    <3> DEFINE z == [b \in B |-> SumFunctionOnSet([a \in S |-> m[a][b]], {})]
    <3>1. \A b \in B : z[b] = 0
      BY SumEmpty
    <3>2. SumFunctionOnSet(z, B) = 0
      <4> HIDE DEF z
      <4> QED
        BY <3>1, SumZero
    <3> QED
      BY <3>2, SumEmpty
  <2> QED
    BY <2>1, <1>4, Zenon
<1> DEFINE c == First(s)
<1> DEFINE r == s \ {c}
<1>6. /\ c \in s /\ c \in S /\ s \in SUBSET S /\ IsFiniteSet(s)
      /\ r \in SUBSET S /\ IsFiniteSet(r) /\ r # s /\ r \subseteq s /\ c \notin r
  BY <1>5, FirstIsIn, <1>2, FS_Subset
<1>7. SumFunctionOnSet(rows, r) = SumFunctionOnSet([b \in B |-> SumFunctionOnSet([a \in S |-> m[a][b]], r)], B)
  <2>1. r \notin Bad
    BY <1>3, <1>6
  <2> QED
    BY <2>1, <1>6
<1> DEFINE col(b) == [a \in S |-> m[a][b]]
<1>8. SumFunctionOnSet(rows, s) = rows[c] + SumFunctionOnSet(rows, r)
  BY <1>5, <1>6, SumFirst
<1> DEFINE f == [b \in B |-> m[c][b]]
<1> DEFINE g == [b \in B |-> SumFunctionOnSet(col(b), r)]
<1> DEFINE h == [b \in B |-> SumFunctionOnSet(col(b), s)]
<1>9. ASSUME NEW b \in B PROVE f[b] \in Int /\ g[b] \in Int /\ h[b] = f[b] + g[b]
  <2> DEFINE k == col(b)
  <2>1. k[c] = m[c][b] /\ \A x \in S : k[x] \in Int
    BY <1>6
  <2>2. SumFunctionOnSet(k, r) \in Int
    <3>1. \A x \in r : k[x] \in Int
      BY <2>1, <1>6
    <3> HIDE DEF k, r
    <3> QED
      BY <3>1, <1>6, SumType
  <2>3. SumFunctionOnSet(k, s) = k[c] + SumFunctionOnSet(k, r)
    <3> HIDE DEF k
    <3> QED
      BY <1>5, <1>6, SumFirst
  <2>4. g[b] = SumFunctionOnSet(k, r) /\ h[b] = SumFunctionOnSet(k, s) /\ f[b] = m[c][b]
    OBVIOUS
  <2>5. f[b] \in Int
    BY <1>6
  <2> HIDE DEF f, g, h, k
  <2> QED
    BY <2>1, <2>2, <2>3, <2>4, <2>5
<1>10. SumFunctionOnSet(h, B) = SumFunctionOnSet(f, B) + SumFunctionOnSet(g, B)
  <2> HIDE DEF f, g, h
  <2> QED
    BY <1>9, SumOfSums
<1>11. rows[c] = SumFunctionOnSet(f, B)
  BY <1>6
<1>12. SumFunctionOnSet(rows, r) = SumFunctionOnSet(g, B)
  BY <1>7
<1>13. SumFunctionOnSet(rows, s) # SumFunctionOnSet(h, B)
  BY <1>4
<1> HIDE DEF f, g, h, c, r
<1> QED
  BY <1>8, <1>10, <1>11, <1>12, <1>13

-----------------------------------------------------------------------------
(* Numbers: a set of them that is not empty has a least member, and one that is *)
(* bounded has a greatest.  Induction over them is a claim about the least      *)
(* number for which something fails.                                            *)

LEMMA GreatestOf ==
  ASSUME NEW S, S \subseteq Nat, IsFiniteSet(S), S # {}
  PROVE  \E m \in S : \A k \in S : k <= m
<1> DEFINE U == {k \in S : k \in Nat}
           Above(m) == {k \in U : k >= m}
           T == {Above(m) : m \in U}
<1>0. U = S
  OBVIOUS
<1>1. IsFiniteSet(U)
  BY <1>0
<1>6. T \in SUBSET SUBSET U /\ T # {}
  BY <1>0
<1>2. PICK x \in T : \A y \in T : y \subseteq x => y = x
  <2> HIDE DEF T, U
  <2> QED
    BY <1>1, <1>6, SmallestSubset
<1>3. PICK m \in U : x = Above(m)
  BY <1>2
<1>4. ASSUME NEW k \in U, k > m PROVE FALSE
  <2>0. k \in Nat /\ m \in Nat /\ \A j \in U : j \in Nat
    OBVIOUS
  <2>1. Above(k) \in T /\ Above(k) \subseteq x
    <3>1. Above(k) \in T
      OBVIOUS
    <3>2. \A j \in Above(k) : j \in Above(m)
      BY <2>0, <1>4
    <3> QED
      BY <1>3, <3>1, <3>2
  <2>2. Above(k) = Above(m)
    BY <1>2, <1>3, <2>1
  <2>3. m \in Above(m) /\ m \notin Above(k)
    BY <1>4
  <2> QED
    BY <2>2, <2>3
<1>5. \A k \in U : ~(k > m)
  BY <1>4
<1> QED
  BY <1>0, <1>3, <1>5

LEMMA LeastOf ==
  ASSUME NEW S \in SUBSET Nat, S # {}
  PROVE  \E m \in S : \A k \in S : m <= k
<1>1. PICK n \in S : TRUE
  OBVIOUS
<1> DEFINE U == {k \in S : k <= n}
           Below(m) == {k \in U : k <= m}
           T == {Below(m) : m \in U}
<1>2. IsFiniteSet(U)
  <2>1. IsFiniteSet(0..n) /\ U \subseteq 0..n
    <3>1. n \in Nat /\ 0 \in Int
      OBVIOUS
    <3>2. IsFiniteSet(0..n)
      BY <3>1, FS_Interval
    <3>3. \A k \in U : k \in 0..n
      BY <3>1
    <3> HIDE DEF U
    <3> QED
      BY <3>2, <3>3
  <2> QED
    BY <2>1, FS_Subset
<1>3. T \in SUBSET SUBSET U /\ T # {}
  <2>1. n \in U
    OBVIOUS
  <2> HIDE DEF U
  <2> QED
    BY <2>1
<1>4. PICK x \in T : \A y \in T : y \subseteq x => y = x
  <2> HIDE DEF T, U
  <2> QED
    BY <1>2, <1>3, SmallestSubset
<1>5. PICK m \in U : x = Below(m)
  BY <1>4
<1>6. ASSUME NEW k \in U, k < m PROVE FALSE
  <2>0. k \in Nat /\ m \in Nat /\ \A j \in U : j \in Nat
    OBVIOUS
  <2>1. Below(k) \in T /\ Below(k) \subseteq x
    <3>1. Below(k) \in T
      OBVIOUS
    <3>2. \A j \in Below(k) : j \in Below(m)
      BY <2>0, <1>6
    <3> QED
      BY <1>5, <3>1, <3>2
  <2>2. Below(k) = Below(m)
    BY <1>4, <1>5, <2>1
  <2>3. m \in Below(m) /\ m \notin Below(k)
    BY <1>5, <1>6
  <2> QED
    BY <2>2, <2>3
<1>7. \A k \in S : m <= k
  <2> SUFFICES ASSUME NEW k \in S PROVE m <= k
    OBVIOUS
  <2>1. CASE k \in U
    BY <1>6, <2>1
  <2>2. CASE k \notin U
    BY <2>2
  <2> QED
    BY <2>1, <2>2
<1> QED
  BY <1>5, <1>7
=============================================================================

