------------------------------ MODULE SumProofs -------------------------------
(***************************************************************************)
(* What SumOver computes, for every finite set.  The fold of the library   *)
(* is a recursive function over the subsets of a set, which takes its      *)
(* elements in the order of CHOOSE; here it is shown to have a solution    *)
(* and not to depend on that order.  The induction is over the subsets of  *)
(* a finite set, with a set in the place of a predicate.                   *)
(***************************************************************************)
EXTENDS Requests, FiniteSetTheorems, TLAPS

\* The element a sum takes first.
Pick(s) == CHOOSE x \in s : TRUE

\* One step of the recursion, over the subsets of S.
Unfold(f, S, g) ==
  [s \in SUBSET S |-> IF s = {} THEN 0 ELSE f[Pick(s)] + g[s \ {Pick(s)}]]

\* SumOver is a choice among the solutions of its recursion.
LEMMA SumOverChoice ==
  ASSUME NEW f, NEW S
  PROVE  SumOver(f, S) = (CHOOSE g : g = Unfold(f, S, g))[S]
  BY DEF SumOver, MapThenSumSet, MapThenFoldSet, Unfold, Pick

\* Induction over the subsets of a finite set.
LEMMA SubsetInduction ==
  ASSUME NEW S, IsFiniteSet(S), NEW G,
         \A T \in SUBSET S : (\A U \in SUBSET T : U # T => U \in G) => T \in G
  PROVE  \A T \in SUBSET S : T \in G
<1> DEFINE Bad == {T \in SUBSET S : T \notin G}
<1>1. IsWellFoundedOn(StrictSubsetOrdering(S), SUBSET S)
  BY FS_StrictSubsetOrderingWellFounded, FS_FiniteSubsetsOfFinite
<1> SUFFICES ASSUME Bad # {} PROVE FALSE
  OBVIOUS
<1>2. PICK T \in Bad : \A U \in Bad : <<U, T>> \notin StrictSubsetOrdering(S)
  <2>1. Bad \subseteq SUBSET S
    OBVIOUS
  <2> HIDE DEF Bad
  <2> QED
    BY <1>1, <2>1, WFMin
<1>3. \A U \in SUBSET T : U # T => U \in G
  BY <1>2 DEF StrictSubsetOrdering
<1> QED
  BY <1>2, <1>3

\* Solutions of the recursion over a set and over a part of it agree on the part.
LEMMA UnfoldAgrees ==
  ASSUME NEW f, NEW S, NEW T \in SUBSET S, IsFiniteSet(T), NEW g, NEW h,
         g = Unfold(f, S, g), h = Unfold(f, T, h)
  PROVE  \A s \in SUBSET T : g[s] = h[s]
<1> DEFINE G == {s \in SUBSET T : g[s] = h[s]}
<1>1. ASSUME NEW s \in SUBSET T, \A u \in SUBSET s : u # s => u \in G
      PROVE  s \in G
  <2>1. CASE s = {}
    BY <2>1 DEF Unfold
  <2>2. CASE s # {}
    <3>1. Pick(s) \in s
      BY <2>2 DEF Pick
    <3>2. g[s \ {Pick(s)}] = h[s \ {Pick(s)}]
      BY <1>1, <3>1
    <3>3. /\ g[s] = f[Pick(s)] + g[s \ {Pick(s)}]
          /\ h[s] = f[Pick(s)] + h[s \ {Pick(s)}]
      BY <2>2 DEF Unfold
    <3> QED
      BY <3>2, <3>3
  <2> QED
    BY <2>1, <2>2
<1> HIDE DEF G
<1>2. \A s \in SUBSET T : s \in G
  BY <1>1, SubsetInduction
<1> QED
  BY <1>2 DEF G

\* The recursion has a solution over S.
Defined(f, S) == \E g : g = Unfold(f, S, g)

\* Where the recursion has solutions, the chosen ones obey it.
LEMMA DefinedSum ==
  ASSUME NEW f, NEW S, IsFiniteSet(S), Defined(f, S),
         \A u \in SUBSET S : Defined(f, u)
  PROVE  SumOver(f, S) = IF S = {} THEN 0 ELSE f[Pick(S)] + SumOver(f, S \ {Pick(S)})
<1> DEFINE h == CHOOSE g : g = Unfold(f, S, g)
<1>1. h = Unfold(f, S, h)
  BY DEF Defined
<1>2. SumOver(f, S) = h[S]
  BY SumOverChoice
<1> HIDE DEF h
<1>3. CASE S = {}
  BY <1>1, <1>2, <1>3 DEF Unfold
<1>4. CASE S # {}
  <2> DEFINE T == S \ {Pick(S)}
             k == CHOOSE g : g = Unfold(f, T, g)
  <2>1. k = Unfold(f, T, k)
    BY DEF Defined
  <2>2. SumOver(f, T) = k[T]
    BY SumOverChoice
  <2>3. IsFiniteSet(T)
    BY FS_Subset
  <2> HIDE DEF k
  <2>4. h[T] = k[T]
    BY <1>1, <2>1, <2>3, UnfoldAgrees
  <2>5. h[S] = f[Pick(S)] + h[T]
    BY <1>1, <1>4 DEF Unfold
  <2> QED
    BY <1>2, <1>4, <2>2, <2>4, <2>5
<1> QED
  BY <1>3, <1>4

\* By induction: the solutions over the proper subsets give one over the set.
LEMMA UnfoldExists ==
  ASSUME NEW f, NEW S, IsFiniteSet(S)
  PROVE  \A T \in SUBSET S : Defined(f, T)
<1> DEFINE G == {T \in SUBSET S : Defined(f, T)}
<1>1. ASSUME NEW T \in SUBSET S, \A U \in SUBSET T : U # T => U \in G
      PROVE  T \in G
  <2> DEFINE g == [s \in SUBSET T |-> IF s = {} THEN 0
                                      ELSE f[Pick(s)] + SumOver(f, s \ {Pick(s)})]
  <2>1. ASSUME NEW s \in SUBSET T, s # {}
        PROVE  g[s \ {Pick(s)}] = SumOver(f, s \ {Pick(s)})
    <3> DEFINE u == s \ {Pick(s)}
    <3>1. Pick(s) \in s
      BY <2>1 DEF Pick
    <3>2. u \in SUBSET T /\ u # T
      BY <3>1
    <3>3. IsFiniteSet(u)
      BY <3>2, FS_Subset
    <3>4. \A v \in SUBSET u : Defined(f, v)
      <4> SUFFICES ASSUME NEW v \in SUBSET u PROVE Defined(f, v)
        OBVIOUS
      <4>1. v \in SUBSET T /\ v # T
        BY <3>1
      <4> QED
        BY <1>1, <4>1
    <3>5. Defined(f, u)
      BY <3>4
    <3> HIDE DEF u
    <3>6. SumOver(f, u) = IF u = {} THEN 0 ELSE f[Pick(u)] + SumOver(f, u \ {Pick(u)})
      BY <3>3, <3>4, <3>5, DefinedSum
    <3>7. g[u] = SumOver(f, u)
      BY <3>2, <3>6
    <3> QED
      BY <3>7 DEF u
  <2>2. g = Unfold(f, T, g)
    <3>1. Unfold(f, T, g) = [s \in SUBSET T |-> IF s = {} THEN 0
                                 ELSE f[Pick(s)] + g[s \ {Pick(s)}]]
      BY DEF Unfold
    <3>2. \A s \in SUBSET T : g[s] = Unfold(f, T, g)[s]
      BY <2>1, <3>1
    <3> QED
      BY <3>1, <3>2
  <2> HIDE DEF g
  <2>3. Defined(f, T)
    BY <2>2 DEF Defined
  <2> QED
    BY <2>3
<1> HIDE DEF G
<1>2. \A T \in SUBSET S : T \in G
  BY <1>1, SubsetInduction
<1> QED
  BY <1>2 DEF G

-----------------------------------------------------------------------------

\* Arithmetic of the sums below.
LEMMA SumArithmetic ==
  /\ \A a \in Int : a = a + a => a = 0
  /\ \A a, b \in Int : a + b = b + a
  /\ \A a, b, c \in Int : a + (b + c) = b + (a + c)
  /\ \A a \in Int : a + 0 = a
  OBVIOUS

\* A sum over nothing is 0.
LEMMA SumEmpty == ASSUME NEW f PROVE SumOver(f, {}) = 0
<1>1. IsFiniteSet({})
  BY FS_EmptySet
<1>2. \A T \in SUBSET {} : Defined(f, T)
  BY <1>1, UnfoldExists
<1>3. Defined(f, {})
  BY <1>2
<1> QED
  BY <1>1, <1>2, <1>3, DefinedSum

\* A sum is the element picked and the sum of the others.
LEMMA SumPick ==
  ASSUME NEW f, NEW S, IsFiniteSet(S), S # {}
  PROVE  Pick(S) \in S /\ SumOver(f, S) = f[Pick(S)] + SumOver(f, S \ {Pick(S)})
<1>1. \A T \in SUBSET S : Defined(f, T)
  BY UnfoldExists
<1>2. Defined(f, S)
  BY <1>1
<1>3. Pick(S) \in S
  BY DEF Pick
<1> QED
  BY <1>1, <1>2, <1>3, DefinedSum

\* A sum of integers is an integer.
LEMMA SumType ==
  ASSUME NEW f, NEW S, IsFiniteSet(S), \A x \in S : f[x] \in Int
  PROVE  SumOver(f, S) \in Int
<1> DEFINE G == {T \in SUBSET S : SumOver(f, T) \in Int}
<1>1. ASSUME NEW T \in SUBSET S, \A U \in SUBSET T : U # T => U \in G
      PROVE  T \in G
  <2>1. CASE T = {}
    BY <2>1, SumEmpty
  <2>2. CASE T # {}
    <3>1. IsFiniteSet(T)
      BY FS_Subset
    <3>2. Pick(T) \in T /\ SumOver(f, T) = f[Pick(T)] + SumOver(f, T \ {Pick(T)})
      BY <2>2, <3>1, SumPick
    <3>3. SumOver(f, T \ {Pick(T)}) \in Int
      BY <1>1, <3>2
    <3> QED
      BY <3>2, <3>3
  <2> QED
    BY <2>1, <2>2
<1> HIDE DEF G
<1>2. \A T \in SUBSET S : T \in G
  BY <1>1, SubsetInduction
<1> QED
  BY <1>2 DEF G

\* Any element may be taken out of a sum, not only the one the fold picks.
LEMMA SumTakeOut ==
  ASSUME NEW f, NEW S, IsFiniteSet(S), \A x \in S : f[x] \in Int, NEW x \in S
  PROVE  SumOver(f, S) = f[x] + SumOver(f, S \ {x})
<1> DEFINE G == {T \in SUBSET S : \A y \in T : SumOver(f, T) = f[y] + SumOver(f, T \ {y})}
<1>1. ASSUME NEW T \in SUBSET S, \A U \in SUBSET T : U # T => U \in G
      PROVE  T \in G
  <2> SUFFICES ASSUME NEW y \in T PROVE SumOver(f, T) = f[y] + SumOver(f, T \ {y})
    OBVIOUS
  <2> DEFINE c == Pick(T)
  <2>1. IsFiniteSet(T)
    BY FS_Subset
  <2>2. c \in T /\ SumOver(f, T) = f[c] + SumOver(f, T \ {c})
    BY <2>1, SumPick
  <2> HIDE DEF c
  <2>3. CASE y = c
    BY <2>2, <2>3
  <2>4. CASE y # c
    <3>1. T \ {c} \in G /\ T \ {y} \in G
      BY <1>1, <2>2
    <3>2. SumOver(f, T \ {c}) = f[y] + SumOver(f, (T \ {c}) \ {y})
      BY <2>4, <3>1
    <3>3. SumOver(f, T \ {y}) = f[c] + SumOver(f, (T \ {y}) \ {c})
      BY <2>2, <2>4, <3>1
    <3>4. (T \ {c}) \ {y} = (T \ {y}) \ {c}
      OBVIOUS
    <3>5. SumOver(f, (T \ {c}) \ {y}) \in Int
      <4>1. IsFiniteSet((T \ {c}) \ {y})
        BY <2>1, FS_Subset
      <4> QED
        BY <4>1, SumType
    <3>6. f[c] \in Int /\ f[y] \in Int
      BY <2>2
    <3>7. SumOver(f, T) = f[c] + (f[y] + SumOver(f, (T \ {c}) \ {y}))
      BY <2>2, <3>2, Zenon
    <3>8. f[y] + SumOver(f, T \ {y}) = f[y] + (f[c] + SumOver(f, (T \ {c}) \ {y}))
      BY <3>3, <3>4, Zenon
    <3>9. f[c] + (f[y] + SumOver(f, (T \ {c}) \ {y}))
            = f[y] + (f[c] + SumOver(f, (T \ {c}) \ {y}))
      BY <3>5, <3>6, SumArithmetic, Zenon
    <3> QED
      BY <3>7, <3>8, <3>9, Zenon
  <2> QED
    BY <2>3, <2>4
<1> HIDE DEF G
<1>2. \A T \in SUBSET S : T \in G
  BY <1>1, SubsetInduction
<1> QED
  BY <1>2 DEF G

\* A new element adds its value.
LEMMA SumPutIn ==
  ASSUME NEW f, NEW S, IsFiniteSet(S), \A y \in S : f[y] \in Int,
         NEW x, x \notin S, f[x] \in Int
  PROVE  SumOver(f, S \cup {x}) = SumOver(f, S) + f[x]
<1>1. IsFiniteSet(S \cup {x})
  BY FS_AddElement
<1>2. SumOver(f, S \cup {x}) = f[x] + SumOver(f, (S \cup {x}) \ {x})
  BY <1>1, SumTakeOut
<1>3. (S \cup {x}) \ {x} = S
  OBVIOUS
<1>4. SumOver(f, S) \in Int
  BY SumType
<1> QED
  BY <1>2, <1>3, <1>4, SumArithmetic, Zenon

\* The sum of two functions is the sum of their sums.
LEMMA SumAdds ==
  ASSUME NEW f, NEW g, NEW h, NEW S, IsFiniteSet(S),
         \A x \in S : f[x] \in Int /\ g[x] \in Int /\ h[x] = f[x] + g[x]
  PROVE  SumOver(h, S) = SumOver(f, S) + SumOver(g, S)
<1> DEFINE G == {T \in SUBSET S : SumOver(h, T) = SumOver(f, T) + SumOver(g, T)}
<1>1. ASSUME NEW T \in SUBSET S, \A U \in SUBSET T : U # T => U \in G
      PROVE  T \in G
  <2>1. CASE T = {}
    BY <2>1, SumEmpty
  <2>2. CASE T # {}
    <3> DEFINE c == Pick(T)
               R == T \ {c}
    <3>1. IsFiniteSet(T)
      BY FS_Subset
    <3>2. /\ c \in T
          /\ SumOver(f, T) = f[c] + SumOver(f, R)
          /\ SumOver(g, T) = g[c] + SumOver(g, R)
          /\ SumOver(h, T) = h[c] + SumOver(h, R)
      BY <2>2, <3>1, SumPick
    <3>3. IsFiniteSet(R) /\ R \in SUBSET T /\ R # T
      BY <3>1, <3>2, FS_Subset
    <3> HIDE DEF c, R
    <3>4. SumOver(h, R) = SumOver(f, R) + SumOver(g, R)
      BY <1>1, <3>3
    <3>5. SumOver(f, R) \in Int /\ SumOver(g, R) \in Int
      BY <3>3, SumType
    <3>6. f[c] \in Int /\ g[c] \in Int /\ h[c] = f[c] + g[c]
      BY <3>2
    <3> QED
      BY <3>2, <3>4, <3>5, <3>6
  <2> QED
    BY <2>1, <2>2
<1> HIDE DEF G
<1>2. \A T \in SUBSET S : T \in G
  BY <1>1, SubsetInduction
<1> QED
  BY <1>2 DEF G

\* A sum looks at its function only inside its set.
LEMMA SumSame ==
  ASSUME NEW f, NEW g, NEW S, IsFiniteSet(S),
         \A x \in S : f[x] \in Int /\ g[x] = f[x]
  PROVE  SumOver(g, S) = SumOver(f, S)
<1> DEFINE z == [x \in S |-> 0]
<1>0. \A x \in S : z[x] \in Int /\ g[x] = f[x] + z[x] /\ z[x] = z[x] + z[x]
  OBVIOUS
<1> HIDE DEF z
<1>1. SumOver(g, S) = SumOver(f, S) + SumOver(z, S)
  BY <1>0, SumAdds
<1>2. SumOver(z, S) = SumOver(z, S) + SumOver(z, S)
  BY <1>0, SumAdds
<1>3. SumOver(f, S) \in Int /\ SumOver(z, S) \in Int
  BY <1>0, SumType
<1>4. SumOver(z, S) = 0
  BY <1>2, <1>3, SumArithmetic, Zenon
<1> QED
  BY <1>1, <1>3, <1>4, SumArithmetic, Zenon

\* A sum of zeros is zero.
LEMMA SumZeros ==
  ASSUME NEW f, NEW S, IsFiniteSet(S), \A x \in S : f[x] = 0
  PROVE  SumOver(f, S) = 0
<1>1. SumOver(f, S) = SumOver(f, S) + SumOver(f, S)
  BY SumAdds
<1>2. SumOver(f, S) \in Int
  BY SumType
<1> QED
  BY <1>1, <1>2, SumArithmetic, Zenon

\* A sum with one value that is not zero is that value.
LEMMA SumOne ==
  ASSUME NEW f, NEW S, IsFiniteSet(S), NEW x \in S, f[x] \in Int,
         \A y \in S \ {x} : f[y] = 0
  PROVE  SumOver(f, S) = f[x]
<1>1. SumOver(f, S) = f[x] + SumOver(f, S \ {x})
  <2>1. \A y \in S : f[y] \in Int
    OBVIOUS
  <2> QED
    BY <2>1, SumTakeOut
<1>2. SumOver(f, S \ {x}) = 0
  BY FS_Subset, SumZeros
<1> QED
  BY <1>1, <1>2

=============================================================================
