---------------------------- MODULE SumTheorems ----------------------------
(***************************************************************************)
(* Sums over finite sets of integers, as SumFunctionOnSet of the community *)
(* module Functions computes them, and rounded-down quotients: the facts   *)
(* the proofs about balances and shares need.  The recursion behind a sum  *)
(* is justified with the principle of the minimal counterexample, which    *)
(* needs no operator parameter.                                            *)
(***************************************************************************)
EXTENDS Functions, FiniteSetTheorems, TLAPS

\* The element a sum over s takes first.
Some(s) == CHOOSE x \in s : TRUE

\* The sum over s, given the sums g over smaller sets.
SumStep(g, f, s) == IF s = {} THEN 0 ELSE f[Some(s)] + g[s \ {Some(s)}]

\* The sums over the subsets of S.
Sums(f, S) == CHOOSE g : g = [s \in SUBSET S |-> SumStep(g, f, s)]

-----------------------------------------------------------------------------
(***************************************************************************)
(* Minimal counterexamples.                                                *)
(***************************************************************************)

\* A nonempty set of numbers has a least element.
LEMMA LeastNatural ==
  ASSUME NEW T \in SUBSET Nat, T # {}
  PROVE  \E n \in T : \A m \in T : n <= m
<1> DEFINE less == {p \in Nat \X Nat : p[1] < p[2]}
<1>1. IsWellFoundedOn(less, Nat)
  BY NatLessThanWellFounded DEF OpToRel
<1>2. PICK n \in T : \A m \in T : ~(<<m, n>> \in less)
  BY <1>1, WFMin
<1>3. ASSUME NEW m \in T
      PROVE  n <= m
  <2>1. <<m, n>> \in Nat \X Nat
    OBVIOUS
  <2>2. ~(m < n)
    BY <1>2, <2>1
  <2> QED
    BY <2>2
<1> QED
  BY <1>3

\* A nonempty set of subsets of a finite set has an element that contains no other.
LEMMA MinimalSubset ==
  ASSUME NEW S, IsFiniteSet(S), NEW T \in SUBSET (SUBSET S), T # {}
  PROVE  \E s \in T : \A t \in SUBSET s : t \in T => t = s
<1>1. IsWellFoundedOn(StrictSubsetOrdering(S), SUBSET S)
  BY FS_StrictSubsetOrderingWellFounded, FS_FiniteSubsetsOfFinite
<1>2. PICK s \in T : \A t \in T : ~(<<t, s>> \in StrictSubsetOrdering(S))
  BY <1>1, WFMin
<1>3. ASSUME NEW t \in SUBSET s, t \in T, t # s
      PROVE  FALSE
  <2>1. <<t, s>> \in (SUBSET S) \X (SUBSET S)
    BY <1>3
  <2>2. <<t, s>> \in StrictSubsetOrdering(S)
    BY <2>1, <1>3 DEF StrictSubsetOrdering
  <2> QED
    BY <2>2, <1>2, <1>3
<1> QED
  BY <1>3

-----------------------------------------------------------------------------
(***************************************************************************)
(* The recursion is well defined.                                          *)
(***************************************************************************)

\* Some(s) is an element of a nonempty s.
LEMMA SomeIsIn ==
  ASSUME NEW s, s # {}
  PROVE  Some(s) \in s
BY DEF Some

\* g satisfies the equation on the subsets of S of at most n elements.
SumsUpTo(g, f, S, n) ==
  /\ g = [s \in SUBSET S |-> g[s]]
  /\ \A s \in SUBSET S : Cardinality(s) <= n => g[s] = SumStep(g, f, s)

\* Such a function exists for every n.
LEMMA SumsExistUpTo ==
  ASSUME NEW f, NEW S, IsFiniteSet(S)
  PROVE  \A n \in Nat : \E g : SumsUpTo(g, f, S, n)
<1> DEFINE Good(n) == \E g : SumsUpTo(g, f, S, n)
<1>1. Good(0)
  <2> DEFINE g == [s \in SUBSET S |-> 0]
  <2>1. ASSUME NEW s \in SUBSET S, Cardinality(s) <= 0
        PROVE  g[s] = SumStep(g, f, s)
    <3>1. IsFiniteSet(s) /\ Cardinality(s) \in Nat
      BY FS_Subset, FS_CardinalityType
    <3>2. s = {}
      BY <3>1, <2>1, FS_EmptySet
    <3> QED
      BY <3>2 DEF SumStep
  <2>2. g = [s \in SUBSET S |-> g[s]]
    OBVIOUS
  <2> QED
    BY <2>1, <2>2 DEF SumsUpTo
<1>2. ASSUME NEW n \in Nat, Good(n)
      PROVE  Good(n + 1)
  <2>1. PICK g : SumsUpTo(g, f, S, n)
    BY <1>2
  <2> DEFINE h == [s \in SUBSET S |-> IF Cardinality(s) <= n THEN g[s] ELSE SumStep(g, f, s)]
  <2>2. ASSUME NEW s \in SUBSET S, Cardinality(s) <= n + 1
        PROVE  h[s] = SumStep(h, f, s)
    <3>1. IsFiniteSet(s) /\ Cardinality(s) \in Nat
      BY FS_Subset, FS_CardinalityType
    <3>2. h[s] = SumStep(g, f, s)
      BY <2>1 DEF SumsUpTo
    <3>3. CASE s = {}
      BY <3>2, <3>3 DEF SumStep
    <3>4. CASE s # {}
      <4> DEFINE t == s \ {Some(s)}
      <4>1. Some(s) \in s
        BY <3>4, SomeIsIn
      <4>2. Cardinality(t) = Cardinality(s) - 1
        BY <4>1, <3>1, FS_RemoveElement
      <4>3. Cardinality(t) <= n
        BY <4>2, <3>1, <2>2
      <4>4. t \in SUBSET S
        OBVIOUS
      <4> HIDE DEF t
      <4>5. h[t] = g[t]
        BY <4>3, <4>4
      <4> QED
        BY <4>5, <3>2, <3>4 DEF SumStep, t
    <3> QED
      BY <3>3, <3>4
  <2>3. h = [s \in SUBSET S |-> h[s]]
    OBVIOUS
  <2> HIDE DEF h
  <2> QED
    BY <2>2, <2>3 DEF SumsUpTo
<1> HIDE DEF Good
<1> DEFINE Bad == {n \in Nat : ~Good(n)}
<1>3. Bad = {}
  <2> SUFFICES ASSUME Bad # {}
               PROVE  FALSE
    OBVIOUS
  <2>1. PICK n \in Bad : \A m \in Bad : n <= m
    BY LeastNatural
  <2>2. n \in Nat /\ n # 0
    BY <1>1
  <2>3. (n - 1) \in Nat /\ (n - 1) \notin Bad
    BY <2>1, <2>2
  <2>4. Good(n - 1)
    BY <2>3
  <2>5. Good((n - 1) + 1)
    BY <2>3, <2>4, <1>2
  <2>6. (n - 1) + 1 = n
    BY <2>2
  <2> QED
    BY <2>5, <2>6
<1>4. \A n \in Nat : Good(n)
  BY <1>3
<1> QED
  BY <1>4 DEF Good

\* The function that CHOOSE picks satisfies the equation everywhere.
LEMMA SumsExist ==
  ASSUME NEW f, NEW S, IsFiniteSet(S)
  PROVE  \A s \in SUBSET S : Sums(f, S)[s] = SumStep(Sums(f, S), f, s)
<1>1. Cardinality(S) \in Nat
  BY FS_CardinalityType
<1>2. PICK g : SumsUpTo(g, f, S, Cardinality(S))
  BY <1>1, SumsExistUpTo
<1>3. ASSUME NEW s \in SUBSET S
      PROVE  g[s] = SumStep(g, f, s)
  <2>1. Cardinality(s) <= Cardinality(S)
    BY FS_Subset
  <2> QED
    BY <2>1, <1>2 DEF SumsUpTo
<1>4. g = [s \in SUBSET S |-> SumStep(g, f, s)]
  BY <1>2, <1>3 DEF SumsUpTo
<1>5. Sums(f, S) = [s \in SUBSET S |-> SumStep(Sums(f, S), f, s)]
  BY <1>4 DEF Sums
<1>6. PICK h : h = Sums(f, S)
  OBVIOUS
<1>7. h = [s \in SUBSET S |-> SumStep(h, f, s)]
  BY <1>5, <1>6
<1>8. \A s \in SUBSET S : h[s] = SumStep(h, f, s)
  BY <1>7
<1> QED
  BY <1>6, <1>8

\* Two functions that satisfy the equation agree where both are defined.
LEMMA SumsAgree ==
  ASSUME NEW f, NEW S, IsFiniteSet(S), NEW g, NEW h,
         \A s \in SUBSET S : g[s] = SumStep(g, f, s) /\ h[s] = SumStep(h, f, s)
  PROVE  \A s \in SUBSET S : g[s] = h[s]
<1> DEFINE T == {s \in SUBSET S : g[s] # h[s]}
<1> SUFFICES ASSUME T # {}
             PROVE  FALSE
  OBVIOUS
<1>0. T \in SUBSET (SUBSET S)
  OBVIOUS
<1> HIDE DEF T
<1>1. PICK s \in T : \A t \in SUBSET s : t \in T => t = s
  BY <1>0, MinimalSubset
<1> USE DEF T
<1>2. s # {}
  BY DEF SumStep
<1>3. Some(s) \in s
  BY <1>2, SomeIsIn
<1>4. s \ {Some(s)} \notin T
  BY <1>1, <1>3
<1>5. g[s \ {Some(s)}] = h[s \ {Some(s)}]
  BY <1>4
<1> QED
  BY <1>5 DEF SumStep

\* The sum over S is the last value of the recursion.
LEMMA SumIsRecursion ==
  ASSUME NEW f, NEW S
  PROVE  SumFunctionOnSet(f, S) = Sums(f, S)[S]
BY DEF SumFunctionOnSet, FoldFunctionOnSet, MapThenFoldSet, Sums, SumStep, Some

\* The equation, for sums themselves.
LEMMA SumEquation ==
  ASSUME NEW f, NEW S, IsFiniteSet(S)
  PROVE  /\ S = {} => SumFunctionOnSet(f, S) = 0
         /\ S # {} => SumFunctionOnSet(f, S) =
                        f[Some(S)] + SumFunctionOnSet(f, S \ {Some(S)})
<1> DEFINE S1 == S \ {Some(S)}
<1>1. IsFiniteSet(S1) /\ S1 \in SUBSET S
  BY FS_Subset
<1> HIDE DEF S1
<1>2. PICK g, h : g = Sums(f, S) /\ h = Sums(f, S1)
  OBVIOUS
<1>3. \A s \in SUBSET S : g[s] = SumStep(g, f, s)
  BY <1>2, SumsExist
<1>4. \A s \in SUBSET S1 : h[s] = SumStep(h, f, s)
  BY <1>1, <1>2, SumsExist
<1>5. \A s \in SUBSET S1 : g[s] = SumStep(g, f, s) /\ h[s] = SumStep(h, f, s)
  BY <1>1, <1>3, <1>4
<1>6. g[S1] = h[S1]
  BY <1>1, <1>5, SumsAgree
<1>7. g[S] = SumStep(g, f, S)
  BY <1>3
<1>8. SumFunctionOnSet(f, S) = g[S] /\ SumFunctionOnSet(f, S1) = h[S1]
  BY <1>2, SumIsRecursion
<1> QED
  BY <1>6, <1>7, <1>8 DEF SumStep, S1

-----------------------------------------------------------------------------
(***************************************************************************)
(* The facts.                                                              *)
(***************************************************************************)

\* The empty sum.
LEMMA SumEmpty ==
  ASSUME NEW f
  PROVE  SumFunctionOnSet(f, {}) = 0
BY SumEquation, FS_EmptySet

\* A sum of members of a set that is closed under addition is one.
LEMMA SumClosed ==
  ASSUME NEW V \in SUBSET Int, 0 \in V, \A u, v \in V : u + v \in V,
         NEW S, IsFiniteSet(S), NEW f, \A x \in S : f[x] \in V
  PROVE  SumFunctionOnSet(f, S) \in V
<1> DEFINE T == {s \in SUBSET S : SumFunctionOnSet(f, s) \notin V}
<1> SUFFICES ASSUME T # {}
             PROVE  FALSE
  OBVIOUS
<1>1. T \in SUBSET (SUBSET S)
  OBVIOUS
<1> HIDE DEF T
<1>2. PICK s \in T : \A t \in SUBSET s : t \in T => t = s
  BY <1>1, MinimalSubset
<1>3. s \in SUBSET S /\ SumFunctionOnSet(f, s) \notin V /\ IsFiniteSet(s)
  BY <1>1, <1>2, FS_Subset DEF T
<1>4. s # {}
  BY <1>3, SumEmpty
<1>5. Some(s) \in s
  BY <1>4, SomeIsIn
<1>6. SumFunctionOnSet(f, s \ {Some(s)}) \in V
  BY <1>2, <1>3, <1>5 DEF T
<1>7. f[Some(s)] \in V
  BY <1>3, <1>5
<1>8. f[Some(s)] + SumFunctionOnSet(f, s \ {Some(s)}) \in V
  BY <1>6, <1>7
<1>9. SumFunctionOnSet(f, s) = f[Some(s)] + SumFunctionOnSet(f, s \ {Some(s)})
  BY <1>3, <1>4, SumEquation
<1> QED
  BY <1>3, <1>8, <1>9

\* A sum of integers is one.
LEMMA SumInt ==
  ASSUME NEW S, IsFiniteSet(S), NEW f, \A x \in S : f[x] \in Int
  PROVE  SumFunctionOnSet(f, S) \in Int
<1>1. Int \in SUBSET Int /\ 0 \in Int /\ \A u, v \in Int : u + v \in Int
  OBVIOUS
<1> QED
  BY <1>1, SumClosed

\* A sum of naturals is one.
LEMMA SumNat ==
  ASSUME NEW S, IsFiniteSet(S), NEW f, \A x \in S : f[x] \in Nat
  PROVE  SumFunctionOnSet(f, S) \in Nat
<1>1. Nat \in SUBSET Int /\ 0 \in Nat /\ \A u, v \in Nat : u + v \in Nat
  OBVIOUS
<1> QED
  BY <1>1, SumClosed

\* A sum of zeros is zero.
LEMMA SumZero ==
  ASSUME NEW S, IsFiniteSet(S), NEW f, \A x \in S : f[x] = 0
  PROVE  SumFunctionOnSet(f, S) = 0
<1> DEFINE V == {0}
<1>1. V \in SUBSET Int /\ 0 \in V /\ \A u, v \in V : u + v \in V
  OBVIOUS
<1>2. \A x \in S : f[x] \in V
  OBVIOUS
<1> HIDE DEF V
<1>3. SumFunctionOnSet(f, S) \in V
  BY <1>1, <1>2, SumClosed
<1> QED
  BY <1>3 DEF V

\* Any element may be taken first.
LEMMA SumTakeOut ==
  ASSUME NEW S, IsFiniteSet(S), NEW f, \A x \in S : f[x] \in Int, NEW x \in S
  PROVE  SumFunctionOnSet(f, S) = f[x] + SumFunctionOnSet(f, S \ {x})
<1> DEFINE T == {s \in SUBSET S : \E y \in s :
                   SumFunctionOnSet(f, s) # f[y] + SumFunctionOnSet(f, s \ {y})}
<1> SUFFICES ASSUME T # {}
             PROVE  FALSE
  OBVIOUS
<1>0. T \in SUBSET (SUBSET S)
  OBVIOUS
<1> HIDE DEF T
<1>1. PICK s \in T : \A t \in SUBSET s : t \in T => t = s
  BY <1>0, MinimalSubset
<1>2. s \in SUBSET S /\ IsFiniteSet(s)
  BY <1>0, <1>1, FS_Subset
<1>3. PICK y \in s : SumFunctionOnSet(f, s) # f[y] + SumFunctionOnSet(f, s \ {y})
  BY <1>1 DEF T
<1> DEFINE z == Some(s)
<1>4. /\ z \in s
      /\ SumFunctionOnSet(f, s) = f[z] + SumFunctionOnSet(f, s \ {z})
  BY <1>2, <1>3, SomeIsIn, SumEquation
<1> HIDE DEF z
<1>5. y # z
  BY <1>3, <1>4
<1>6. s \ {z} \notin T /\ s \ {y} \notin T
  BY <1>1, <1>3, <1>4
<1>7. SumFunctionOnSet(f, s \ {z}) = f[y] + SumFunctionOnSet(f, (s \ {z}) \ {y})
  BY <1>2, <1>3, <1>5, <1>6 DEF T
<1>8. SumFunctionOnSet(f, s \ {y}) = f[z] + SumFunctionOnSet(f, (s \ {y}) \ {z})
  BY <1>2, <1>4, <1>5, <1>6 DEF T
<1>9. SumFunctionOnSet(f, (s \ {y}) \ {z}) = SumFunctionOnSet(f, (s \ {z}) \ {y})
  <2>1. (s \ {z}) \ {y} = (s \ {y}) \ {z}
    OBVIOUS
  <2> QED
    BY <2>1
<1>10. SumFunctionOnSet(f, (s \ {z}) \ {y}) \in Int
  <2>1. IsFiniteSet((s \ {z}) \ {y}) /\ \A v \in (s \ {z}) \ {y} : f[v] \in Int
    BY <1>2, FS_Subset
  <2> QED
    BY <2>1, SumInt
<1>11. f[y] \in Int /\ f[z] \in Int
  BY <1>2, <1>3, <1>4
<1> QED
  BY <1>3, <1>4, <1>7, <1>8, <1>9, <1>10, <1>11

\* Only the values on the set matter.
LEMMA SumSame ==
  ASSUME NEW S, IsFiniteSet(S), NEW f, NEW g, \A x \in S : f[x] = g[x]
  PROVE  SumFunctionOnSet(f, S) = SumFunctionOnSet(g, S)
<1> DEFINE T == {s \in SUBSET S : SumFunctionOnSet(f, s) # SumFunctionOnSet(g, s)}
<1> SUFFICES ASSUME T # {}
             PROVE  FALSE
  OBVIOUS
<1>0. T \in SUBSET (SUBSET S)
  OBVIOUS
<1> HIDE DEF T
<1>1. PICK s \in T : \A t \in SUBSET s : t \in T => t = s
  BY <1>0, MinimalSubset
<1>2. s \in SUBSET S /\ SumFunctionOnSet(f, s) # SumFunctionOnSet(g, s) /\ IsFiniteSet(s)
  BY <1>0, <1>1, FS_Subset DEF T
<1>3. s # {}
  BY <1>2, SumEmpty
<1>4. Some(s) \in s
  BY <1>3, SomeIsIn
<1>5. SumFunctionOnSet(f, s \ {Some(s)}) = SumFunctionOnSet(g, s \ {Some(s)})
  BY <1>1, <1>2, <1>4 DEF T
<1> QED
  BY <1>2, <1>3, <1>4, <1>5, SumEquation

\* What a change of one value does to the sum.
LEMMA SumChange ==
  ASSUME NEW S, IsFiniteSet(S), NEW f, NEW g, NEW x \in S,
         \A y \in S : f[y] \in Int, g[x] \in Int,
         \A y \in S \ {x} : g[y] = f[y]
  PROVE  SumFunctionOnSet(g, S) = SumFunctionOnSet(f, S) + (g[x] - f[x])
<1>1. IsFiniteSet(S \ {x}) /\ \A y \in S : g[y] \in Int
  BY FS_Subset
<1>2. SumFunctionOnSet(g, S) = g[x] + SumFunctionOnSet(g, S \ {x})
  BY <1>1, SumTakeOut
<1>3. SumFunctionOnSet(f, S) = f[x] + SumFunctionOnSet(f, S \ {x})
  BY SumTakeOut
<1>4. SumFunctionOnSet(g, S \ {x}) = SumFunctionOnSet(f, S \ {x})
  BY <1>1, SumSame
<1>5. SumFunctionOnSet(f, S \ {x}) \in Int
  BY <1>1, SumInt
<1> QED
  BY <1>1, <1>2, <1>3, <1>4, <1>5

\* The same, for a function with one value replaced.
LEMMA SumExcept ==
  ASSUME NEW S, IsFiniteSet(S), NEW f \in [S -> Int], NEW x \in S, NEW v \in Int
  PROVE  SumFunctionOnSet([f EXCEPT ![x] = v], S) = SumFunctionOnSet(f, S) + (v - f[x])
<1> DEFINE g == [f EXCEPT ![x] = v]
<1>1. /\ \A y \in S : f[y] \in Int
      /\ g[x] = v
      /\ \A y \in S \ {x} : g[y] = f[y]
  OBVIOUS
<1> HIDE DEF g
<1>2. SumFunctionOnSet(g, S) = SumFunctionOnSet(f, S) + (g[x] - f[x])
  BY <1>1, SumChange
<1> QED
  BY <1>1, <1>2 DEF g

\* A value among naturals is at most their sum.
LEMMA SumAbove ==
  ASSUME NEW S, IsFiniteSet(S), NEW f, NEW x \in S, \A y \in S : f[y] \in Nat
  PROVE  f[x] <= SumFunctionOnSet(f, S)
<1>1. IsFiniteSet(S \ {x})
  BY FS_Subset
<1>2. SumFunctionOnSet(f, S \ {x}) \in Nat
  BY <1>1, SumNat
<1>3. SumFunctionOnSet(f, S) = f[x] + SumFunctionOnSet(f, S \ {x})
  BY SumTakeOut
<1> QED
  BY <1>2, <1>3

\* Sums follow the order of what is summed.
LEMMA SumLeq ==
  ASSUME NEW S, IsFiniteSet(S), NEW f, NEW g,
         \A x \in S : f[x] \in Int /\ g[x] \in Int /\ f[x] <= g[x]
  PROVE  SumFunctionOnSet(f, S) <= SumFunctionOnSet(g, S)
<1> DEFINE T == {s \in SUBSET S : ~(SumFunctionOnSet(f, s) <= SumFunctionOnSet(g, s))}
<1> SUFFICES ASSUME T # {}
             PROVE  FALSE
  OBVIOUS
<1>0. T \in SUBSET (SUBSET S)
  OBVIOUS
<1> HIDE DEF T
<1>1. PICK s \in T : \A t \in SUBSET s : t \in T => t = s
  BY <1>0, MinimalSubset
<1>2. /\ s \in SUBSET S /\ IsFiniteSet(s)
      /\ ~(SumFunctionOnSet(f, s) <= SumFunctionOnSet(g, s))
  BY <1>0, <1>1, FS_Subset DEF T
<1>3. s # {}
  BY <1>2, SumEmpty
<1>4. PICK x : x = Some(s)
  OBVIOUS
<1>5. x \in s /\ s \ {x} \in SUBSET S /\ IsFiniteSet(s \ {x})
  BY <1>2, <1>3, <1>4, SomeIsIn, FS_Subset
<1>6. SumFunctionOnSet(f, s \ {x}) <= SumFunctionOnSet(g, s \ {x})
  BY <1>1, <1>5 DEF T
<1>7. SumFunctionOnSet(f, s \ {x}) \in Int /\ SumFunctionOnSet(g, s \ {x}) \in Int
  BY <1>5, SumInt
<1>8. /\ SumFunctionOnSet(f, s) = f[x] + SumFunctionOnSet(f, s \ {x})
      /\ SumFunctionOnSet(g, s) = g[x] + SumFunctionOnSet(g, s \ {x})
  BY <1>2, <1>3, <1>4, SumEquation
<1>9. f[x] \in Int /\ g[x] \in Int /\ f[x] <= g[x]
  BY <1>2, <1>5
<1> QED
  BY <1>2, <1>6, <1>7, <1>8, <1>9

\* A common factor comes out of a sum.
LEMMA SumTimes ==
  ASSUME NEW S, IsFiniteSet(S), NEW c \in Int, NEW f, NEW g,
         \A x \in S : f[x] \in Int /\ g[x] = c * f[x]
  PROVE  SumFunctionOnSet(g, S) = c * SumFunctionOnSet(f, S)
<1> DEFINE T == {s \in SUBSET S : SumFunctionOnSet(g, s) # c * SumFunctionOnSet(f, s)}
<1> SUFFICES ASSUME T # {}
             PROVE  FALSE
  OBVIOUS
<1>0. T \in SUBSET (SUBSET S)
  OBVIOUS
<1> HIDE DEF T
<1>1. PICK s \in T : \A t \in SUBSET s : t \in T => t = s
  BY <1>0, MinimalSubset
<1>2. s \in SUBSET S /\ IsFiniteSet(s) /\ SumFunctionOnSet(g, s) # c * SumFunctionOnSet(f, s)
  BY <1>0, <1>1, FS_Subset DEF T
<1>3. s # {}
  <2>1. c * 0 = 0
    OBVIOUS
  <2>2. s = {} => SumFunctionOnSet(f, s) = 0 /\ SumFunctionOnSet(g, s) = 0
    BY SumEmpty
  <2> QED
    BY <1>2, <2>1, <2>2
<1>4. PICK x : x = Some(s)
  OBVIOUS
<1>5. x \in s /\ s \ {x} \in SUBSET S /\ IsFiniteSet(s \ {x})
  BY <1>2, <1>3, <1>4, SomeIsIn, FS_Subset
<1>6. SumFunctionOnSet(g, s \ {x}) = c * SumFunctionOnSet(f, s \ {x})
  BY <1>1, <1>5 DEF T
<1>7. PICK rest \in Int : rest = SumFunctionOnSet(f, s \ {x})
  BY <1>5, SumInt
<1>8. /\ SumFunctionOnSet(f, s) = f[x] + rest
      /\ SumFunctionOnSet(g, s) = g[x] + c * rest
  BY <1>2, <1>3, <1>4, <1>6, <1>7, SumEquation
<1>9. PICK v \in Int : v = f[x] /\ g[x] = c * v
  BY <1>2, <1>5
<1>10. c * (v + rest) = c * v + c * rest
  OBVIOUS
<1> QED
  BY <1>2, <1>8, <1>9, <1>10

\* A sum of successors counts what is summed.
LEMMA SumSuccessors ==
  ASSUME NEW S, IsFiniteSet(S), NEW f, NEW g, \A x \in S : f[x] \in Int /\ g[x] = f[x] + 1
  PROVE  SumFunctionOnSet(g, S) = SumFunctionOnSet(f, S) + Cardinality(S)
<1> DEFINE T == {s \in SUBSET S : SumFunctionOnSet(g, s) # SumFunctionOnSet(f, s) + Cardinality(s)}
<1> SUFFICES ASSUME T # {}
             PROVE  FALSE
  OBVIOUS
<1>0. T \in SUBSET (SUBSET S)
  OBVIOUS
<1> HIDE DEF T
<1>1. PICK s \in T : \A t \in SUBSET s : t \in T => t = s
  BY <1>0, MinimalSubset
<1>2. /\ s \in SUBSET S /\ IsFiniteSet(s)
      /\ SumFunctionOnSet(g, s) # SumFunctionOnSet(f, s) + Cardinality(s)
  BY <1>0, <1>1, FS_Subset DEF T
<1>3. s # {}
  BY <1>2, SumEmpty, FS_EmptySet
<1>4. PICK x : x = Some(s)
  OBVIOUS
<1>5. x \in s /\ s \ {x} \in SUBSET S /\ IsFiniteSet(s \ {x})
  BY <1>2, <1>3, <1>4, SomeIsIn, FS_Subset
<1>6. SumFunctionOnSet(g, s \ {x}) = SumFunctionOnSet(f, s \ {x}) + Cardinality(s \ {x})
  BY <1>1, <1>5 DEF T
<1>7. PICK rest \in Int, n \in Nat :
        rest = SumFunctionOnSet(f, s \ {x}) /\ n = Cardinality(s) /\ n - 1 = Cardinality(s \ {x})
  BY <1>2, <1>5, SumInt, FS_CardinalityType, FS_RemoveElement
<1>8. /\ SumFunctionOnSet(f, s) = f[x] + rest
      /\ SumFunctionOnSet(g, s) = g[x] + (rest + (n - 1))
  BY <1>2, <1>3, <1>4, <1>6, <1>7, SumEquation
<1>9. f[x] \in Int /\ g[x] = f[x] + 1
  BY <1>2, <1>5
<1> QED
  BY <1>2, <1>7, <1>8, <1>9

-----------------------------------------------------------------------------
(***************************************************************************)
(* Books of accounts.                                                      *)
(***************************************************************************)

\* The sum of the balances of an account book.
TotalOf(book, S) == SumFunctionOnSet(book, S)

\* The totals of books of naturals are naturals, and no entry exceeds its total.
LEMMA BookTotals ==
  ASSUME NEW S, IsFiniteSet(S), NEW book \in [S -> Nat]
  PROVE  /\ TotalOf(book, S) \in Nat
         /\ \A x \in S : book[x] <= TotalOf(book, S)
BY SumNat, SumAbove DEF TotalOf

\* An entry of d in a book, at x.
Entry(book, after, S, x, d) ==
  /\ IsFiniteSet(S) /\ book \in [S -> Nat] /\ x \in S /\ d \in Int
  /\ after = [book EXCEPT ![x] = @ + d]

\* What an entry of a book does to its total.
LEMMA BookEntry ==
  ASSUME NEW S, NEW book, NEW after, NEW x, NEW d, Entry(book, after, S, x, d)
  PROVE  TotalOf(after, S) = TotalOf(book, S) + d
<1>1. /\ IsFiniteSet(S) /\ book \in [S -> Int] /\ x \in S
      /\ book[x] \in Int /\ d \in Int /\ book[x] + d \in Int
      /\ after = [book EXCEPT ![x] = book[x] + d]
  BY DEF Entry
<1>2. TotalOf(after, S) = TotalOf(book, S) + ((book[x] + d) - book[x])
  BY <1>1, SumExcept DEF TotalOf
<1>3. TotalOf(book, S) \in Int
  BY <1>1, SumInt DEF TotalOf
<1> QED
  BY <1>1, <1>2, <1>3

\* The accounts outside T may be counted as empty.
LEMMA SumOfPart ==
  ASSUME NEW S, IsFiniteSet(S), NEW T \in SUBSET S, NEW f, \A x \in S : f[x] \in Int
  PROVE  SumFunctionOnSet(f, T) = SumFunctionOnSet([x \in S |-> IF x \in T THEN f[x] ELSE 0], S)
<1> DEFINE g == [x \in S |-> IF x \in T THEN f[x] ELSE 0]
           W == {s \in SUBSET S : SumFunctionOnSet(f, T \cap s) # SumFunctionOnSet(g, s)}
<1> SUFFICES ASSUME W # {}
             PROVE  FALSE
  <2>1. S \notin W => SumFunctionOnSet(f, T) = SumFunctionOnSet(g, S)
    <3>1. T \cap S = T
      OBVIOUS
    <3> QED
      BY <3>1
  <2> QED
    BY <2>1
<1>1. W \in SUBSET (SUBSET S)
  OBVIOUS
<1> HIDE DEF W
<1>2. PICK s \in W : \A t \in SUBSET s : t \in W => t = s
  BY <1>1, MinimalSubset
<1>3. s \in SUBSET S /\ IsFiniteSet(s) /\ IsFiniteSet(T \cap s)
  BY <1>1, FS_Subset
<1>4. s # {}
  <2>1. ASSUME s = {} PROVE FALSE
    <3>1. SumFunctionOnSet(f, T \cap s) = 0 /\ SumFunctionOnSet(g, s) = 0
      <4>1. T \cap s = {}
        BY <2>1
      <4> HIDE DEF g
      <4> QED
        BY <2>1, <4>1, SumEmpty
    <3> QED
      BY <1>2, <3>1 DEF W
  <2> QED
    BY <2>1
<1>5. PICK x : x \in s
  BY <1>4
<1>6. SumFunctionOnSet(f, T \cap (s \ {x})) = SumFunctionOnSet(g, s \ {x})
  <2>1. s \ {x} \in SUBSET s /\ s \ {x} # s /\ s \ {x} \in SUBSET S
    BY <1>3, <1>5
  <2>2. s \ {x} \notin W
    BY <1>2, <2>1
  <2> QED
    BY <2>1, <2>2 DEF W
<1>7. \A y \in s : g[y] \in Int /\ g[y] = IF y \in T THEN f[y] ELSE 0
  BY <1>3
<1> HIDE DEF g
<1>8. SumFunctionOnSet(g, s) = g[x] + SumFunctionOnSet(g, s \ {x})
  BY <1>3, <1>5, <1>7, SumTakeOut
<1>9. SumFunctionOnSet(g, s \ {x}) \in Int
  <2>1. IsFiniteSet(s \ {x}) /\ \A y \in s \ {x} : g[y] \in Int
    BY <1>3, <1>7, FS_Subset
  <2> QED
    BY <2>1, SumInt
<1>10. CASE x \in T
  <2>1. x \in T \cap s /\ \A y \in T \cap s : f[y] \in Int
    BY <1>3, <1>5, <1>10
  <2>2. SumFunctionOnSet(f, T \cap s) = f[x] + SumFunctionOnSet(f, (T \cap s) \ {x})
    BY <1>3, <2>1, SumTakeOut
  <2>3. (T \cap s) \ {x} = T \cap (s \ {x})
    OBVIOUS
  <2>4. SumFunctionOnSet(f, T \cap s) = SumFunctionOnSet(g, s)
    BY <1>5, <1>6, <1>7, <1>8, <1>10, <2>2, <2>3
  <2> QED
    BY <1>2, <2>4 DEF W
<1>11. CASE x \notin T
  <2>1. T \cap s = T \cap (s \ {x})
    BY <1>11
  <2>2. SumFunctionOnSet(g, s) = SumFunctionOnSet(g, s \ {x})
    <3>1. g[x] = 0
      BY <1>5, <1>7, <1>11
    <3> QED
      BY <1>8, <1>9, <3>1
  <2>3. SumFunctionOnSet(f, T \cap s) = SumFunctionOnSet(f, T \cap (s \ {x}))
    BY <2>1
  <2>4. SumFunctionOnSet(f, T \cap s) = SumFunctionOnSet(g, s)
    BY <1>6, <2>2, <2>3
  <2> QED
    BY <1>2, <2>4 DEF W
<1> QED
  BY <1>10, <1>11

\* A sum over a part of S when one entry changes, and with it perhaps whether it is
\* in the part.
LEMMA PartChange ==
  ASSUME NEW S, IsFiniteSet(S), NEW T \in SUBSET S, NEW U \in SUBSET S, NEW f, NEW g, NEW x \in S,
         \A y \in S : f[y] \in Int, g[x] \in Int,
         \A y \in S \ {x} : g[y] = f[y] /\ (y \in U <=> y \in T)
  PROVE  SumFunctionOnSet(g, U)
           = SumFunctionOnSet(f, T) + ((IF x \in U THEN g[x] ELSE 0) - (IF x \in T THEN f[x] ELSE 0))
<1> DEFINE ft == [y \in S |-> IF y \in T THEN f[y] ELSE 0]
           gu == [y \in S |-> IF y \in U THEN g[y] ELSE 0]
<1>1. \A y \in S : g[y] \in Int
  OBVIOUS
<1>2. /\ SumFunctionOnSet(f, T) = SumFunctionOnSet(ft, S)
      /\ SumFunctionOnSet(g, U) = SumFunctionOnSet(gu, S)
  BY <1>1, SumOfPart
<1>3. gu[x] = (IF x \in U THEN g[x] ELSE 0) /\ ft[x] = (IF x \in T THEN f[x] ELSE 0)
  OBVIOUS
<1>4. \A y \in S : ft[y] \in Int
  OBVIOUS
<1>5. gu[x] \in Int
  BY <1>1
<1>6. \A y \in S \ {x} : gu[y] = ft[y]
  OBVIOUS
<1> HIDE DEF ft, gu
<1>7. SumFunctionOnSet(gu, S) = SumFunctionOnSet(ft, S) + (gu[x] - ft[x])
  BY ONLY <1>4, <1>5, <1>6, SumChange, x \in S, IsFiniteSet(S)
<1> QED
  BY <1>2, <1>3, <1>7

\* A part of naturals sums to no more than the whole.
LEMMA SumPartLeq ==
  ASSUME NEW S, IsFiniteSet(S), NEW T \in SUBSET S, NEW f, \A x \in S : f[x] \in Nat
  PROVE  SumFunctionOnSet(f, T) <= SumFunctionOnSet(f, S)
<1> DEFINE g == [x \in S |-> IF x \in T THEN f[x] ELSE 0]
<1>1. SumFunctionOnSet(f, T) = SumFunctionOnSet(g, S)
  BY SumOfPart
<1>2. \A x \in S : g[x] \in Int /\ f[x] \in Int /\ g[x] <= f[x]
  OBVIOUS
<1> HIDE DEF g
<1> QED
  BY <1>1, <1>2, SumLeq

-----------------------------------------------------------------------------
(***************************************************************************)
(* Rounded-down quotients.                                                 *)
(***************************************************************************)

\* What rounding down loses is less than the divisor.
LEMMA QuotientBounds ==
  ASSUME NEW a \in Nat, NEW b \in Nat \ {0}
  PROVE  a \div b \in Nat /\ b * (a \div b) <= a /\ a < b * (a \div b) + b
OBVIOUS

\* Rounding down keeps the order.
LEMMA QuotientMonotone ==
  ASSUME NEW a \in Nat, NEW c \in Nat, NEW b \in Nat \ {0}, a <= c
  PROVE  a \div b <= c \div b
OBVIOUS

\* So does multiplication.
LEMMA ProductMonotone ==
  ASSUME NEW a \in Nat, NEW b \in Nat, NEW c \in Nat, NEW d \in Nat, a <= b, c <= d
  PROVE  a * c <= b * d /\ a * c \in Nat /\ b * d \in Nat
OBVIOUS
=============================================================================
