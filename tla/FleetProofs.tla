------------------------------ MODULE FleetProofs ------------------------------
(***************************************************************************)
(* The fleet: FleetPlanner assigns as well as can be, for any fleet, all   *)
(* distances and every budget (the vectors of least energy are the         *)
(* assignments of least distance), and FleetRegistry keeps its references, *)
(* for any number of rows of each kind and of requests.                    *)
(***************************************************************************)
EXTENDS FleetPlanner, FleetRegistry, SequenceTheorems, FiniteSetTheorems,
        WellFoundedInduction, TLAPS

LEMMA Least ==
    ASSUME NEW T, T \subseteq Nat, T # {}
    PROVE  \E n \in T : \A m \in T : ~(m < n)
<1> DEFINE R == OpToRel(<, Nat)
<1>1. IsWellFoundedOn(R, Nat)
  BY NatLessThanWellFounded
<1>2. \A x, y \in Nat : y < x => <<y, x>> \in R
  BY DEF OpToRel
<1> HIDE DEF R
<1>3. PICK n \in T : \A m \in T : ~ (<<m, n>> \in R)
  BY <1>1, WFMin
<1> QED BY <1>2, <1>3

-----------------------------------------------------------------------------
(***************************************************************************)
(* Finite sums.  The sum of a function is a fold, which picks the elements *)
(* of the domain in an order of its own: the order does not matter.  What  *)
(* holds of every finite set is shown by looking at a smallest set of      *)
(* which it does not.                                                      *)
(***************************************************************************)

Folds(f, g) == g = [s \in SUBSET DOMAIN f |->
                      IF s = {} THEN 0
                      ELSE LET x == CHOOSE x \in s : TRUE IN f[x] + g[s \ {x}]]
LEMMA SumIs == ASSUME NEW f PROVE SumFunction(f) = (CHOOSE g : Folds(f, g))[DOMAIN f]
  BY DEF SumFunction, SumFunctionOnSet, FoldFunctionOnSet, MapThenFoldSet, Folds

Pick(s) == CHOOSE x \in s : TRUE

\* Folds up to sets of n elements.
FoldsTo(f, n, g) == g = [s \in {u \in SUBSET DOMAIN f : Cardinality(u) <= n} |->
                            IF s = {} THEN 0 ELSE f[Pick(s)] + g[s \ {Pick(s)}]]

LEMMA Picked == ASSUME NEW s, s # {}, IsFiniteSet(s)
                PROVE  /\ Pick(s) \in s /\ IsFiniteSet(s \ {Pick(s)})
                       /\ Cardinality(s) \in Nat /\ Cardinality(s \ {Pick(s)}) = Cardinality(s) - 1
                       /\ Cardinality(s) # 0
<1>1. Pick(s) \in s
  BY DEF Pick
<1> QED BY <1>1, FS_RemoveElement, FS_CardinalityType, FS_EmptySet

LEMMA FoldExists == ASSUME NEW f, IsFiniteSet(DOMAIN f) PROVE \E g : Folds(f, g)
<1> DEFINE S(n) == {u \in SUBSET DOMAIN f : Cardinality(u) <= n}
           Bad == {n \in Nat : ~ \E g : FoldsTo(f, n, g)}
<1>0. \A u \in SUBSET DOMAIN f : IsFiniteSet(u) /\ Cardinality(u) \in Nat /\ Cardinality(u) <= Cardinality(DOMAIN f)
  BY FS_Subset, FS_CardinalityType
<1>1. FoldsTo(f, 0, [s \in S(0) |-> 0])
  <2>1. \A s \in S(0) : s = {}
    BY <1>0, FS_EmptySet
  <2> QED BY <2>1 DEF FoldsTo
<1>2. ASSUME NEW n \in Nat, NEW g, FoldsTo(f, n, g)
      PROVE  FoldsTo(f, n + 1, [s \in S(n + 1) |-> IF s \in S(n) THEN g[s] ELSE f[Pick(s)] + g[s \ {Pick(s)}]])
  <2> DEFINE h == [s \in S(n + 1) |-> IF s \in S(n) THEN g[s] ELSE f[Pick(s)] + g[s \ {Pick(s)}]]
  <2>1. \A s \in S(n) : g[s] = IF s = {} THEN 0 ELSE f[Pick(s)] + g[s \ {Pick(s)}]
    BY <1>2 DEF FoldsTo
  <2>2. ASSUME NEW s \in S(n + 1)
        PROVE  h[s] = IF s = {} THEN 0 ELSE f[Pick(s)] + h[s \ {Pick(s)}]
    <3>1. CASE s = {}
      <4>1. s \in S(n)
        BY <3>1, FS_EmptySet
      <4> QED BY <3>1, <4>1, <2>1
    <3>2. CASE s # {}
      <4>1. s \ {Pick(s)} \in S(n) /\ s \ {Pick(s)} \in S(n + 1)
        BY <1>0, <3>2, Picked
      <4>2. h[s \ {Pick(s)}] = g[s \ {Pick(s)}]
        BY <4>1
      <4>3. h[s] = f[Pick(s)] + g[s \ {Pick(s)}]
        BY <2>1, <3>2
      <4> QED BY <3>2, <4>2, <4>3
    <3> QED BY <3>1, <3>2
  <2>3. h = [s \in S(n + 1) |-> h[s]]
    OBVIOUS
  <2> HIDE DEF h
  <2>4. FoldsTo(f, n + 1, h)
    BY <2>2, <2>3 DEF FoldsTo
  <2> QED BY <2>4 DEF h
<1> HIDE DEF S
<1>3. Bad = {}
  <2> SUFFICES ASSUME Bad # {} PROVE FALSE
    OBVIOUS
  <2>1. PICK n \in Bad : \A m \in Bad : ~(m < n)
    BY Least
  <2>2. n # 0
    BY <1>1, <2>1
  <2>3. n - 1 \in Nat /\ n - 1 < n /\ n = (n - 1) + 1
    BY <2>1, <2>2
  <2>4. PICK g : FoldsTo(f, n - 1, g)
    BY <2>1, <2>3
  <2>5. \E h : FoldsTo(f, (n - 1) + 1, h)
    BY <1>2, <2>3, <2>4
  <2> QED BY <2>1, <2>3, <2>5
<1>4. PICK g : FoldsTo(f, Cardinality(DOMAIN f), g)
  BY <1>3, FS_CardinalityType
<1>5. {u \in SUBSET DOMAIN f : Cardinality(u) <= Cardinality(DOMAIN f)} = SUBSET DOMAIN f
  BY <1>0
<1>6. Folds(f, g)
  BY <1>4, <1>5 DEF Folds, FoldsTo, Pick
<1> QED BY <1>6

\* Folds of functions that agree agree.
LEMMA FoldsAgree ==
    ASSUME NEW f, NEW g, Folds(f, g), NEW e, NEW h, Folds(e, h), NEW T, IsFiniteSet(T),
           T \subseteq DOMAIN f, T \subseteq DOMAIN e, \A x \in T : e[x] = f[x]
    PROVE  g[T] = h[T]
<1> DEFINE Bad == {n \in Nat : \E s \in SUBSET T : Cardinality(s) = n /\ g[s] # h[s]}
<1>0. \A u \in SUBSET T : IsFiniteSet(u) /\ Cardinality(u) \in Nat
  BY FS_Subset, FS_CardinalityType
<1>1. \A s \in SUBSET T : /\ g[s] = IF s = {} THEN 0 ELSE f[Pick(s)] + g[s \ {Pick(s)}]
                          /\ h[s] = IF s = {} THEN 0 ELSE e[Pick(s)] + h[s \ {Pick(s)}]
  BY DEF Folds, Pick
<1>2. Bad = {}
  <2> SUFFICES ASSUME Bad # {} PROVE FALSE
    OBVIOUS
  <2>1. PICK n \in Bad : \A m \in Bad : ~(m < n)
    BY Least
  <2>2. PICK s \in SUBSET T : Cardinality(s) = n /\ g[s] # h[s]
    BY <2>1
  <2>3. s # {}
    BY <1>1, <2>2
  <2>4. Pick(s) \in s /\ Cardinality(s \ {Pick(s)}) = n - 1 /\ n \in Nat /\ n - 1 \in Nat
    BY <1>0, <2>2, <2>3, Picked
  <2>5. s \ {Pick(s)} \in SUBSET T
    OBVIOUS
  <2>6. g[s \ {Pick(s)}] = h[s \ {Pick(s)}]
    <3>1. n - 1 \notin Bad
      BY <2>1, <2>4
    <3> QED BY <2>4, <2>5, <3>1
  <2>7. f[Pick(s)] = e[Pick(s)]
    BY <2>2, <2>4
  <2> QED BY <1>1, <2>2, <2>3, <2>6, <2>7
<1> QED BY <1>0, <1>2

\* A property of subsets that adding an element keeps.
LEMMA Grows ==
    ASSUME NEW S, IsFiniteSet(S), NEW G, {} \in G,
           \A T \in SUBSET S, x \in S : T \in G /\ x \notin T => T \cup {x} \in G
    PROVE  S \in G
<1> DEFINE Bad == {n \in Nat : \E T \in SUBSET S : T \notin G /\ Cardinality(T) = n}
<1>1. \A T \in SUBSET S : IsFiniteSet(T) /\ Cardinality(T) \in Nat
  BY FS_Subset, FS_CardinalityType
<1>2. Bad = {}
  <2> SUFFICES ASSUME Bad # {} PROVE FALSE
    OBVIOUS
  <2>1. PICK n \in Bad : \A m \in Bad : ~(m < n)
    BY Least
  <2>2. PICK T \in SUBSET S : T \notin G /\ Cardinality(T) = n
    BY <2>1
  <2>3. T # {}
    BY <2>2
  <2>4. Pick(T) \in T /\ Cardinality(T \ {Pick(T)}) = n - 1 /\ n - 1 \in Nat /\ n - 1 < n
    <3>1. IsFiniteSet(T) /\ n \in Nat
      BY <1>1, <2>1
    <3>2. Pick(T) \in T /\ Cardinality(T \ {Pick(T)}) = n - 1 /\ n # 0
      BY <2>2, <2>3, <3>1, Picked
    <3> QED BY <3>1, <3>2
  <2>5. T \ {Pick(T)} \in G
    BY <2>1, <2>4
  <2>6. (T \ {Pick(T)}) \cup {Pick(T)} = T
    BY <2>4
  <2> QED BY <2>2, <2>4, <2>5, <2>6
<1> QED BY <1>1, <1>2

\* The sum of f over s.
Over(f, s) == SumFunction([y \in s |-> f[y]])

\* The sum takes out the element the fold picks.
LEMMA SumTakes ==
    ASSUME NEW f, IsFiniteSet(DOMAIN f), NEW s \in SUBSET DOMAIN f, s # {}
    PROVE  SumFunction([y \in s |-> f[y]])
             = f[Pick(s)] + SumFunction([y \in s \ {Pick(s)} |-> f[y]])
<1> DEFINE e == [y \in s |-> f[y]]
           r == [y \in s \ {Pick(s)} |-> f[y]]
<1>1. IsFiniteSet(s) /\ IsFiniteSet(s \ {Pick(s)}) /\ Pick(s) \in s
  BY FS_Subset, Picked
<1>2. DOMAIN e = s /\ DOMAIN r = s \ {Pick(s)} /\ \A y \in s : e[y] = f[y]
  OBVIOUS
<1>3. \A y \in s \ {Pick(s)} : r[y] = e[y]
  OBVIOUS
<1> HIDE DEF e, r
<1>4. PICK g : Folds(e, g) /\ SumFunction(e) = g[s]
  <2>1. \E g : Folds(e, g)
    BY <1>1, <1>2, FoldExists
  <2> QED BY <1>2, <2>1, SumIs
<1>5. PICK h : Folds(r, h) /\ SumFunction(r) = h[s \ {Pick(s)}]
  <2>1. \E h : Folds(r, h)
    BY <1>1, <1>2, FoldExists
  <2> QED BY <1>2, <2>1, SumIs
<1>6. g[s] = e[Pick(s)] + g[s \ {Pick(s)}]
  BY <1>2, <1>4 DEF Folds, Pick
<1>7. g[s \ {Pick(s)}] = h[s \ {Pick(s)}]
  BY <1>1, <1>2, <1>3, <1>4, <1>5, FoldsAgree
<1>8. SumFunction(e) = f[Pick(s)] + SumFunction(r)
  BY <1>1, <1>2, <1>4, <1>5, <1>6, <1>7
<1> QED BY <1>8 DEF e, r

\* The sum over nothing.
LEMMA SumEmpty == ASSUME NEW f, DOMAIN f = {} PROVE SumFunction(f) = 0
<1>1. PICK g : Folds(f, g) /\ SumFunction(f) = g[DOMAIN f]
  BY FS_EmptySet, FoldExists, SumIs
<1> QED BY <1>1 DEF Folds

\* The sum over nothing and over everything.
LEMMA OverNone == ASSUME NEW f PROVE Over(f, {}) = 0
  BY SumEmpty DEF Over

LEMMA OverAll == ASSUME NEW S, NEW f, f = [y \in S |-> f[y]] PROVE SumFunction(f) = Over(f, S)
  BY DEF Over

\* Integers add up to an integer, and any element may be taken out.
LEMMA SumParts ==
    ASSUME NEW S, IsFiniteSet(S), NEW f \in [S -> Int], NEW T \in SUBSET S
    PROVE  /\ Over(f, T) \in Int
           /\ \A x \in T : Over(f, T) = f[x] + Over(f, T \ {x})
<1> DEFINE W(U) == Over(f, U)
           Good(U) == W(U) \in Int /\ \A x \in U : W(U) = f[x] + W(U \ {x})
           Bad == {n \in Nat : \E U \in SUBSET S : Cardinality(U) = n /\ ~Good(U)}
<1>1. \A U \in SUBSET S : IsFiniteSet(U) /\ Cardinality(U) \in Nat
  BY FS_Subset, FS_CardinalityType
<1>2. W({}) = 0
  BY OverNone
<1>3. \A U \in SUBSET S : U # {} => W(U) = f[Pick(U)] + W(U \ {Pick(U)})
  BY SumTakes DEF Over
<1> HIDE DEF W
<1>4. Bad = {}
  <2> SUFFICES ASSUME Bad # {} PROVE FALSE
    OBVIOUS
  <2>1. PICK n \in Bad : \A m \in Bad : ~(m < n)
    BY Least
  <2>2. PICK U \in SUBSET S : Cardinality(U) = n /\ ~Good(U)
    BY <2>1
  <2>3. U # {}
    BY <1>2, <2>2
  <2> DEFINE p == Pick(U)
  <2>4. p \in U /\ W(U) = f[p] + W(U \ {p})
    BY <1>1, <1>3, <2>2, <2>3, Picked
  <2> HIDE DEF p
  <2>5. \A x \in U : Good(U \ {x})
    <3> SUFFICES ASSUME NEW x \in U PROVE Good(U \ {x})
      OBVIOUS
    <3>1. Cardinality(U \ {x}) = n - 1 /\ n - 1 \in Nat
      BY SMTT(20), <1>1, <2>2, <2>3, FS_RemoveElement, FS_EmptySet
    <3>2. n - 1 \notin Bad
      BY <2>1, <3>1
    <3> QED BY <2>2, <3>1, <3>2
  <2>6. W(U) \in Int
    <3>1. f[p] \in Int /\ W(U \ {p}) \in Int
      BY <2>4, <2>5
    <3> QED BY <2>4, <3>1
  <2>7. ASSUME NEW x \in U PROVE W(U) = f[x] + W(U \ {x})
    <3>1. CASE x = p
      BY <2>4, <3>1
    <3>2. CASE x # p
      <4>1. W(U \ {p}) = f[x] + W((U \ {p}) \ {x})
        BY <2>4, <2>5, <3>2
      <4>2. W(U \ {x}) = f[p] + W((U \ {x}) \ {p})
        BY <2>4, <2>5, <3>2
      <4>3. (U \ {x}) \ {p} = (U \ {p}) \ {x}
        OBVIOUS
      <4>4. W((U \ {p}) \ {x}) \in Int
        <5>1. Good(U \ {p})
          BY <2>4, <2>5
        <5>2. W(U \ {p}) \in Int /\ f[x] \in Int
          BY <5>1
        <5>3. PICK w : w = W((U \ {p}) \ {x})
          OBVIOUS
        <5>4. U \ {p, x} \in SUBSET S /\ (U \ {p}) \ {x} = U \ {p, x} /\ x \in U \ {p}
          BY <3>2
        <5>5. Cardinality(U \ {p, x}) < n /\ Cardinality(U \ {p, x}) \in Nat
          <6>1. Cardinality(U \ {p}) = n - 1 /\ IsFiniteSet(U \ {p})
            BY <1>1, <2>2, <2>4, FS_RemoveElement
          <6> DEFINE V == U \ {p}
          <6>4. x \in V /\ IsFiniteSet(V) /\ Cardinality(V) = n - 1
            BY <5>4, <6>1
          <6> HIDE DEF V
          <6>5. Cardinality(V \ {x}) = (n - 1) - 1
            BY <6>4, FS_RemoveElement
          <6>2. Cardinality((U \ {p}) \ {x}) = (n - 1) - 1
            BY <6>5 DEF V
          <6>3. n \in Nat /\ Cardinality(U \ {p, x}) \in Nat
            BY <1>1, <2>1, <5>4
          <6> QED BY <5>4, <6>2, <6>3
        <5>6. Good(U \ {p, x})
          BY <2>1, <5>4, <5>5
        <5> QED BY <5>4, <5>6
      <4>5. f[p] \in Int /\ f[x] \in Int
        BY <2>4
      <4>6. \A i, j, k \in Int : i + (j + k) = j + (i + k)
        OBVIOUS
      <4>7. W(U) = f[p] + (f[x] + W((U \ {p}) \ {x}))
        BY <2>4, <4>1
      <4>8. W(U \ {x}) = f[p] + W((U \ {p}) \ {x})
        BY <4>2, <4>3
      <4>9. W(U) = f[x] + (f[p] + W((U \ {p}) \ {x}))
        BY <4>4, <4>5, <4>6, <4>7
      <4> QED BY <4>8, <4>9
    <3> QED BY <3>1, <3>2
  <2> QED BY <2>2, <2>6, <2>7
<1>5. Good(T)
  BY <1>1, <1>4
<1> QED BY <1>5 DEF W

\* Adding an element to a sum of integers.
LEMMA SumAdds ==
    ASSUME NEW S, IsFiniteSet(S), NEW f \in [S -> Int], NEW T \in SUBSET S, NEW x \in S, x \notin T
    PROVE  /\ Over(f, T) \in Int
           /\ Over(f, T \cup {x}) = f[x] + Over(f, T)
<1>1. T \cup {x} \in SUBSET S /\ (T \cup {x}) \ {x} = T
  OBVIOUS
<1> QED BY <1>1, SumParts

\* The sum of a function of integers is an integer.
LEMMA SumTyped ==
    ASSUME NEW S, IsFiniteSet(S), NEW f \in [S -> Int]
    PROVE  SumFunction(f) \in Int
<1>1. f = [y \in S |-> f[y]] /\ S \in SUBSET S
  OBVIOUS
<1> QED BY <1>1, SumParts, OverAll

\* A sum of naturals is at least each of them.
LEMMA SumCovers ==
    ASSUME NEW S, IsFiniteSet(S), NEW f \in [S -> Nat]
    PROVE  SumFunction(f) \in Nat /\ \A x \in S : f[x] <= SumFunction(f)
<1> DEFINE G == {T \in SUBSET S : Over(f, T) \in Nat}
<1>0. f \in [S -> Int] /\ f = [y \in S |-> f[y]]
  OBVIOUS
<1>1. {} \in G
  BY OverNone
<1>2. ASSUME NEW T \in SUBSET S, NEW x \in S, T \in G, x \notin T PROVE T \cup {x} \in G
  <2>1. Over(f, T \cup {x}) = f[x] + Over(f, T)
    BY <1>0, <1>2, SumAdds
  <2> QED BY <1>2, <2>1
<1>3. \A T \in SUBSET S : T \in G
  <2> SUFFICES ASSUME NEW T \in SUBSET S PROVE T \in G
    OBVIOUS
  <2>1. IsFiniteSet(T)
    BY FS_Subset
  <2>2. \A U \in SUBSET T, x \in T : U \in G /\ x \notin U => U \cup {x} \in G
    BY <1>2
  <2> HIDE DEF G
  <2> QED BY <1>1, <2>1, <2>2, Grows
<1>4. ASSUME NEW x \in S PROVE f[x] <= SumFunction(f)
  <2>1. Over(f, S) = f[x] + Over(f, S \ {x})
    BY <1>0, SumParts
  <2>2. Over(f, S \ {x}) \in Nat
    BY <1>3
  <2> QED BY <1>0, <2>1, <2>2, OverAll
<1>5. SumFunction(f) \in Nat
  BY <1>0, <1>3, OverAll
<1> QED BY <1>4, <1>5

\* A sum of zeros.
LEMMA SumZeros ==
    ASSUME NEW S, IsFiniteSet(S), NEW f \in [S -> Int], \A x \in S : f[x] = 0
    PROVE  SumFunction(f) = 0
<1> DEFINE G == {T \in SUBSET S : Over(f, T) = 0}
<1>1. {} \in G
  BY OverNone
<1>2. \A T \in SUBSET S, x \in S : T \in G /\ x \notin T => T \cup {x} \in G
  BY SumAdds
<1>3. f = [y \in S |-> f[y]]
  OBVIOUS
<1>4. S \in G
  <2> HIDE DEF G
  <2> QED BY <1>1, <1>2, Grows
<1> QED BY <1>3, <1>4, OverAll

\* The sum of the negated terms.
LEMMA SumNegates ==
    ASSUME NEW S, IsFiniteSet(S), NEW f \in [S -> Int], NEW g \in [S -> Int],
           \A x \in S : g[x] = -f[x]
    PROVE  SumFunction(g) = -SumFunction(f)
<1> DEFINE G == {T \in SUBSET S : Over(g, T) = -Over(f, T)}
<1>1. {} \in G
  <2>1. Over(g, {}) = 0 /\ Over(f, {}) = 0
    BY OverNone
  <2> QED BY <2>1
<1>2. ASSUME NEW T \in SUBSET S, NEW x \in S, T \in G, x \notin T PROVE T \cup {x} \in G
  <2>1. /\ Over(f, T) \in Int
        /\ Over(f, T \cup {x}) = f[x] + Over(f, T)
    BY <1>2, SumAdds
  <2>2. Over(g, T \cup {x}) = g[x] + Over(g, T)
    BY <1>2, SumAdds
  <2>3. f[x] \in Int /\ g[x] = -f[x]
    OBVIOUS
  <2>4. \A i, j \in Int : -i + -j = -(i + j)
    OBVIOUS
  <2> QED BY <1>2, <2>1, <2>2, <2>3, <2>4
<1>3. f = [y \in S |-> f[y]] /\ g = [y \in S |-> g[y]]
  OBVIOUS
<1>4. S \in G
  <2>1. \A T \in SUBSET S, x \in S : T \in G /\ x \notin T => T \cup {x} \in G
    BY <1>2
  <2> HIDE DEF G
  <2> QED BY <1>1, <2>1, Grows
<1> QED BY <1>3, <1>4, OverAll

\* The sum with the terms of b negated is smaller by twice their sum.
LEMMA SumSigns ==
    ASSUME NEW S, IsFiniteSet(S), NEW f \in [S -> Int], NEW b \in SUBSET S, NEW g \in [S -> Int],
           \A x \in S : g[x] = IF x \in b THEN -f[x] ELSE f[x]
    PROVE  SumFunction(g) = SumFunction(f) - 2 * Over(f, b)
<1> DEFINE Sf(T) == Over(f, T)
           Sg(T) == Over(g, T)
           G == {T \in SUBSET S : Sg(T) = Sf(T) - 2 * Sf(T \cap b)}
<1>0. \A T \in SUBSET S : Sf(T) \in Int /\ Sg(T) \in Int
  BY SumParts
<1>6. \A T \in SUBSET S, x \in S : x \notin T => /\ Sf(T \cup {x}) = f[x] + Sf(T)
                                                 /\ Sg(T \cup {x}) = g[x] + Sg(T)
  BY SumAdds
<1>7. Sf({}) = 0 /\ Sg({}) = 0
  BY OverNone
<1>3. f = [y \in S |-> f[y]] /\ g = [y \in S |-> g[y]] /\ S \cap b = b
  OBVIOUS
<1>8. SumFunction(f) = Sf(S) /\ SumFunction(g) = Sg(S)
  BY <1>3, OverAll
<1> HIDE DEF Sf, Sg
<1>1. {} \in G
  <2>1. {} \cap b = {}
    OBVIOUS
  <2> QED BY <1>7, <2>1
<1>2. ASSUME NEW T \in SUBSET S, NEW x \in S, T \in G, x \notin T PROVE T \cup {x} \in G
  <2>1. f[x] \in Int /\ T \cap b \in SUBSET S /\ x \notin T \cap b
    BY <1>2
  <2>2. CASE x \in b
    <3>1. (T \cup {x}) \cap b = (T \cap b) \cup {x} /\ g[x] = -f[x]
      BY <2>2
    <3>2. Sf((T \cup {x}) \cap b) = f[x] + Sf(T \cap b)
      BY <1>6, <2>1, <3>1
    <3>3. \A i, j, k \in Int : -i + (j - 2 * k) = (i + j) - 2 * (i + k)
      OBVIOUS
    <3>4. Sg(T) = Sf(T) - 2 * Sf(T \cap b) /\ Sg(T \cup {x}) = -f[x] + Sg(T)
      BY <1>2, <1>6, <3>1
    <3>5. Sg(T \cup {x}) = (f[x] + Sf(T)) - 2 * (f[x] + Sf(T \cap b))
      BY <1>0, <2>1, <3>3, <3>4
    <3>6. Sg(T \cup {x}) = Sf(T \cup {x}) - 2 * Sf((T \cup {x}) \cap b)
      BY <1>2, <1>6, <3>2, <3>5
    <3> QED BY <3>6
  <2>3. CASE x \notin b
    <3>1. (T \cup {x}) \cap b = T \cap b /\ g[x] = f[x]
      BY <2>3
    <3>3. \A i, j, k \in Int : i + (j - 2 * k) = (i + j) - 2 * k
      OBVIOUS
    <3>4. Sg(T) = Sf(T) - 2 * Sf(T \cap b) /\ Sg(T \cup {x}) = f[x] + Sg(T)
      BY <1>2, <1>6, <3>1
    <3>5. Sg(T \cup {x}) = (f[x] + Sf(T)) - 2 * Sf(T \cap b)
      BY <1>0, <2>1, <3>3, <3>4
    <3>6. Sg(T \cup {x}) = Sf(T \cup {x}) - 2 * Sf((T \cup {x}) \cap b)
      BY <1>2, <1>6, <3>1, <3>5
    <3> QED BY <3>6
  <2> QED BY <2>2, <2>3
<1>4. S \in G
  <2>1. \A T \in SUBSET S, x \in S : T \in G /\ x \notin T => T \cup {x} \in G
    BY <1>2
  <2> HIDE DEF G
  <2> QED BY <1>1, <2>1, Grows
<1> QED BY <1>3, <1>4, <1>8 DEF Sf

\* A function of integers takes a largest and a least value on a finite set.
LEMMA HasExtremes ==
    ASSUME NEW S, IsFiniteSet(S), S # {}, NEW f \in [S -> Int]
    PROVE  /\ \E x \in S : \A y \in S : f[y] <= f[x]
           /\ \E x \in S : \A y \in S : f[x] <= f[y]
<1> DEFINE G == {T \in SUBSET S : T # {} => /\ \E x \in T : \A y \in T : f[y] <= f[x]
                                            /\ \E x \in T : \A y \in T : f[x] <= f[y]}
<1>1. {} \in G
  OBVIOUS
<1>2. ASSUME NEW T \in SUBSET S, NEW x \in S, T \in G, x \notin T PROVE T \cup {x} \in G
  <2>1. CASE T = {}
    <3>1. \A y \in T \cup {x} : y = x
      BY <2>1
    <3>2. f[x] <= f[x]
      OBVIOUS
    <3> QED BY <3>1, <3>2
  <2>2. CASE T # {}
    <3>1. PICK m \in T : \A y \in T : f[y] <= f[m]
      BY <1>2, <2>2
    <3>2. PICK l \in T : \A y \in T : f[l] <= f[y]
      BY <1>2, <2>2
    <3>3. \E u \in T \cup {x} : \A y \in T \cup {x} : f[y] <= f[u]
      <4>1. CASE f[x] <= f[m]
        BY <3>1, <4>1
      <4>2. CASE f[m] <= f[x]
        BY <3>1, <4>2
      <4> QED BY <4>1, <4>2
    <3>4. \E u \in T \cup {x} : \A y \in T \cup {x} : f[u] <= f[y]
      <4>1. CASE f[l] <= f[x]
        BY <3>2, <4>1
      <4>2. CASE f[x] <= f[l]
        BY <3>2, <4>2
      <4> QED BY <4>1, <4>2
    <3> QED BY <3>3, <3>4
  <2> QED BY <2>1, <2>2
<1>3. S \in G
  <2>1. \A T \in SUBSET S, x \in S : T \in G /\ x \notin T => T \cup {x} \in G
    BY <1>2
  <2> HIDE DEF G
  <2> QED BY <1>1, <2>1, Grows
<1> QED BY <1>3

\* The pairs of b are the sets of two elements of b.
LEMMA PairsAre == ASSUME NEW b, NEW p PROVE p \in Pairs(b) <=> \E x, y \in b : x # y /\ p = {x, y}
<1>1. ASSUME NEW x \in b, NEW y \in b, x # y, p = {x, y} PROVE p \in Pairs(b)
  <2>1. \A z \in b : p # {z}
    BY <1>1
  <2> QED BY <1>1, <2>1 DEF Pairs
<1>2. ASSUME p \in Pairs(b) PROVE \E x, y \in b : x # y /\ p = {x, y}
  <2>1. PICK x, y \in b : p = {x, y}
    BY <1>2 DEF Pairs
  <2>2. p # {x}
    BY <1>2 DEF Pairs
  <2> QED BY <2>1, <2>2
<1> QED BY <1>1, <1>2

LEMMA PairsFinite ==
    ASSUME NEW S, IsFiniteSet(S), NEW b \in SUBSET S
    PROVE  IsFiniteSet(Pairs(S)) /\ Pairs(b) \in SUBSET Pairs(S)
<1>1. IsFiniteSet(SUBSET S)
  BY FS_SUBSET
<1>2. Pairs(S) \in SUBSET SUBSET S
  BY PairsAre
<1>3. IsFiniteSet(Pairs(S))
  BY <1>1, <1>2, FS_Subset
<1>4. Pairs(b) \in SUBSET Pairs(S)
  BY PairsAre
<1> QED BY <1>3, <1>4

\* The pairs that an element adds to those of b.
Both(x, y) == {x, y}

LEMMA SumPairs ==
    ASSUME NEW S, IsFiniteSet(S), NEW f \in [Pairs(S) -> Int], NEW b \in SUBSET S,
           NEW x \in S, x \notin b, NEW g \in [b -> Int], \A y \in b : g[y] = f[Both(x, y)]
    PROVE  /\ Over(f, Pairs(b)) \in Int
           /\ Over(f, Pairs(b \cup {x})) = Over(f, Pairs(b)) + SumFunction(g)
<1> DEFINE J(T) == Pairs(b) \cup {{x, y} : y \in T}
           G == {T \in SUBSET b : Over(f, J(T)) = Over(f, Pairs(b)) + Over(g, T)}
<1>1. IsFiniteSet(Pairs(S)) /\ Pairs(b) \in SUBSET Pairs(S) /\ IsFiniteSet(b)
  BY PairsFinite, FS_Subset
<1>2. Over(f, Pairs(b)) \in Int
  BY <1>1, SumParts
<1>3. {} \in G
  <2>1. J({}) = Pairs(b)
    OBVIOUS
  <2> HIDE DEF J
  <2>2. Over(f, J({})) = Over(f, Pairs(b)) + Over(g, {})
    BY <1>2, <2>1, OverNone
  <2> QED BY <2>2
<1>4. ASSUME NEW T \in SUBSET b, NEW y \in b, T \in G, y \notin T PROVE T \cup {y} \in G
  <2>1. J(T \cup {y}) = J(T) \cup {{x, y}}
    OBVIOUS
  <2>2. {x, y} \in Pairs(S) /\ J(T) \in SUBSET Pairs(S)
    BY <1>1, PairsAre
  <2>3. {x, y} \notin J(T)
    <3>1. {x, y} \notin Pairs(b)
      <4> SUFFICES ASSUME {x, y} \in Pairs(b) PROVE FALSE
        OBVIOUS
      <4>1. PICK u, v \in b : {x, y} = {u, v}
        BY DEF Pairs
      <4>2. x \in {u, v}
        BY <4>1
      <4> QED BY <4>2
    <3>2. \A z \in T : {x, y} # {x, z}
      BY <1>4
    <3> QED BY <3>1, <3>2
  <2> HIDE DEF J
  <2>4. Over(f, J(T) \cup {{x, y}}) = f[{x, y}] + Over(f, J(T))
    <3> DEFINE p == {x, y}
    <3>1. p \in Pairs(S) /\ p \notin J(T)
      BY <2>2, <2>3
    <3> HIDE DEF p
    <3>2. Over(f, J(T) \cup {p}) = f[p] + Over(f, J(T))
      BY <1>1, <2>2, <3>1, SumAdds
    <3> QED BY <3>2 DEF p
  <2>5. Over(g, T) \in Int /\ Over(g, T \cup {y}) = g[y] + Over(g, T)
    BY <1>1, <1>4, SumAdds
  <2>6. g[y] \in Int /\ f[{x, y}] = g[y]
    BY DEF Both
  <2>7. \A i, j, k \in Int : i + (j + k) = j + (i + k)
    OBVIOUS
  <2>8. Over(f, J(T)) = Over(f, Pairs(b)) + Over(g, T)
    BY <1>4
  <2>9. Over(f, J(T \cup {y})) = g[y] + (Over(f, Pairs(b)) + Over(g, T))
    BY <2>1, <2>4, <2>6, <2>8
  <2>10. Over(f, J(T \cup {y})) = Over(f, Pairs(b)) + (g[y] + Over(g, T))
    BY <1>2, <2>5, <2>6, <2>7, <2>9
  <2>11. Over(f, J(T \cup {y})) = Over(f, Pairs(b)) + Over(g, T \cup {y})
    BY <2>5, <2>10
  <2> QED BY <2>11
<1>5. b \in G
  <2>1. \A T \in SUBSET b, y \in b : T \in G /\ y \notin T => T \cup {y} \in G
    BY <1>4
  <2> HIDE DEF G
  <2> QED BY <1>1, <1>3, <2>1, Grows
<1>6. J(b) = Pairs(b \cup {x})
  <2>2. \A p : p \in J(b) <=> p \in Pairs(b) \/ \E u \in b : p = {x, u}
    OBVIOUS
  <2> HIDE DEF J
  <2>1. ASSUME NEW p PROVE p \in J(b) <=> p \in Pairs(b \cup {x})
    <3>1. CASE p \in J(b)
      <4>1. CASE p \in Pairs(b)
        <5>1. PICK y, z \in b : y # z /\ p = {y, z}
          BY <4>1, PairsAre
        <5>2. y \in b \cup {x} /\ z \in b \cup {x}
          OBVIOUS
        <5> QED BY <3>1, <5>1, <5>2, PairsAre
      <4>2. CASE \E y \in b : p = {x, y}
        <5>1. PICK y \in b : p = {x, y}
          BY <4>2
        <5>2. y \in b \cup {x} /\ x \in b \cup {x} /\ x # y
          OBVIOUS
        <5> QED BY <3>1, <5>1, <5>2, PairsAre
      <4> QED BY <2>2, <3>1, <4>1, <4>2
    <3>2. CASE p \in Pairs(b \cup {x})
      <4>1. PICK y, z \in b \cup {x} : y # z /\ p = {y, z}
        BY <3>2, PairsAre
      <4>2. CASE y \in b /\ z \in b
        BY <2>2, <4>1, <4>2, PairsAre
      <4>3. CASE y = x
        <5>1. z \in b /\ p = {x, z}
          BY <4>1, <4>3
        <5> QED BY <2>2, <3>2, <5>1
      <4>4. CASE z = x
        <5>1. y \in b /\ p = {x, y}
          <6>1. {y, x} = {x, y}
            OBVIOUS
          <6> QED BY <4>1, <4>4, <6>1
        <5> QED BY <2>2, <3>2, <5>1
      <4> QED BY <4>2, <4>3, <4>4
    <3> QED BY <3>1, <3>2
  <2> QED BY <2>1
<1>7. g = [y \in b |-> g[y]]
  OBVIOUS
<1>8. SumFunction(g) = Over(g, b)
  BY <1>7, OverAll
<1> HIDE DEF J
<1> QED BY <1>2, <1>5, <1>6, <1>8

-----------------------------------------------------------------------------
(***************************************************************************)
(* The energy of a vector and how it changes with one variable.            *)
(***************************************************************************)

\* A sub-problem with its distances.
Priced(ds, ts) == /\ IsFiniteSet(ds) /\ IsFiniteSet(ts) /\ ds # {} /\ ts # {}
                  /\ \A x \in ds \X ts : asks.cost[x] \in Nat

\* The penalty is more than any distance.
LEMMA PenaltyIs ==
    ASSUME NEW ds, NEW ts, Priced(ds, ts)
    PROVE  /\ Penalty(ds, ts) \in Nat
           /\ \A x \in ds \X ts : asks.cost[x] < Penalty(ds, ts)
           /\ IsFiniteSet(ds \X ts)
<1> DEFINE S == ds \X ts
           f == [x \in S |-> asks.cost[x]]
<1>1. IsFiniteSet(S) /\ S # {} /\ \A x \in S : asks.cost[x] \in Nat
  <2>1. IsFiniteSet(S)
    BY FS_Product DEF Priced
  <2>2. PICK i \in ds, j \in ts : TRUE
    BY DEF Priced
  <2>3. <<i, j>> \in S
    BY <2>2
  <2> QED BY <2>1, <2>3 DEF Priced
<1>2. f \in [S -> Int]
  BY <1>1
<1>3. PICK m \in S : \A y \in S : f[y] <= f[m]
  <2> HIDE DEF f, S
  <2> QED BY <1>1, <1>2, HasExtremes
<1>4. Largest(ds, ts) \in {asks.cost[x] : x \in S} /\ \A x \in S : Largest(ds, ts) >= asks.cost[x]
  <2> DEFINE V == {asks.cost[x] : x \in S}
  <2>1. asks.cost[m] \in V /\ \A v \in V : asks.cost[m] >= v
    BY <1>1, <1>3
  <2>2. Largest(ds, ts) = CHOOSE v \in V : \A w \in V : v >= w
    BY DEF Largest, Max
  <2> HIDE DEF V
  <2>3. Largest(ds, ts) \in V /\ \A v \in V : Largest(ds, ts) >= v
    BY <2>1, <2>2
  <2> QED BY <2>3 DEF V
<1>5. Largest(ds, ts) \in Nat
  BY <1>1, <1>4
<1>6. Cardinality(ts) \in Nat /\ Cardinality(ts) >= 1
  BY FS_CardinalityType, FS_EmptySet DEF Priced
<1>7. \A l, n \in Nat : n >= 1 /\ l # 0 => 2 * l * n \in Nat /\ 2 * l * n > l
  <2> SUFFICES ASSUME NEW l \in Nat, NEW n \in Nat, n >= 1, l # 0
               PROVE  2 * l * n \in Nat /\ 2 * l * n > l
    OBVIOUS
  <2>1. 2 * l * n = l * n + l * n /\ l * n \in Nat
    OBVIOUS
  <2>2. l * n = l * (n - 1) + l /\ l * (n - 1) \in Nat
    OBVIOUS
  <2> QED BY <2>1, <2>2
<1>8. CASE Largest(ds, ts) = 0
  <2>1. Penalty(ds, ts) = 1
    BY <1>8 DEF Penalty
  <2> QED BY <1>1, <1>4, <1>8, <2>1
<1>9. CASE Largest(ds, ts) # 0
  <2>1. Penalty(ds, ts) = 2 * Largest(ds, ts) * Cardinality(ts)
    BY <1>9 DEF Penalty
  <2>2. Penalty(ds, ts) \in Nat /\ Penalty(ds, ts) > Largest(ds, ts)
    BY <1>5, <1>6, <1>7, <1>9, <2>1
  <2> QED BY <1>1, <1>4, <1>5, <2>2
<1> QED BY <1>8, <1>9

LEMMA QuadraticIs ==
    ASSUME NEW ds, NEW ts, Penalty(ds, ts) \in Nat
    PROVE  /\ \A p : Quadratic(ds, ts, p) \in Nat
           /\ \A x, y : x # y => Quadratic(ds, ts, {x, y})
                                   = IF x[2] = y[2] THEN 2 * Penalty(ds, ts) ELSE 0
<1>1. 2 * Penalty(ds, ts) \in Nat
  OBVIOUS
<1> HIDE DEF Penalty
<1>2. ASSUME NEW x, NEW y, x # y
      PROVE  Quadratic(ds, ts, {x, y}) = IF x[2] = y[2] THEN 2 * Penalty(ds, ts) ELSE 0
  <2>1. (\E u, v \in {x, y} : u # v /\ u[2] = v[2]) <=> x[2] = y[2]
    BY <1>2
  <2> QED BY <2>1 DEF Quadratic
<1> QED BY <1>1, <1>2 DEF Quadratic

\* What x costs beside the elements of b: a penalty for each with the same target.
Pull(ds, ts, b, x) == SumFunction([y \in b |-> Quadratic(ds, ts, {x, y})])

LEMMA BitsFinite ==
    ASSUME NEW ds, NEW ts, Priced(ds, ts), NEW b \in Bits(ds, ts)
    PROVE  b \in SUBSET (ds \X ts) /\ IsFiniteSet(b)
<1>1. b \in SUBSET (ds \X ts)
  BY DEF Bits
<1> QED BY <1>1, PenaltyIs, FS_Subset

LEMMA PullIs ==
    ASSUME NEW ds, NEW ts, Priced(ds, ts), NEW b \in Bits(ds, ts), NEW x \in ds \X ts, x \notin b
    PROVE  /\ Pull(ds, ts, b, x) \in Nat
           /\ (\A y \in b : y[2] # x[2]) => Pull(ds, ts, b, x) = 0
           /\ (\E y \in b : y[2] = x[2]) => Pull(ds, ts, b, x) >= 2 * Penalty(ds, ts)
<1> DEFINE f == [y \in b |-> Quadratic(ds, ts, {x, y})]
<1>1. IsFiniteSet(b) /\ Penalty(ds, ts) \in Nat
  BY BitsFinite, PenaltyIs
<1>2. \A y \in b : f[y] = IF x[2] = y[2] THEN 2 * Penalty(ds, ts) ELSE 0
  BY <1>1, QuadraticIs
<1>3. f \in [b -> Nat] /\ f \in [b -> Int]
  BY <1>1, QuadraticIs
<1>4. Pull(ds, ts, b, x) = SumFunction(f)
  BY DEF Pull
<1> HIDE DEF f
<1>5. SumFunction(f) \in Nat /\ \A y \in b : f[y] <= SumFunction(f)
  BY <1>1, <1>3, SumCovers
<1>6. ASSUME \A y \in b : y[2] # x[2] PROVE SumFunction(f) = 0
  <2>1. \A y \in b : f[y] = 0
    BY <1>2, <1>6
  <2> QED BY <1>1, <1>3, <2>1, SumZeros
<1>7. ASSUME NEW y \in b, y[2] = x[2] PROVE SumFunction(f) >= 2 * Penalty(ds, ts)
  <2>1. f[y] = 2 * Penalty(ds, ts)
    BY <1>2, <1>7
  <2> QED BY <1>1, <1>5, <2>1
<1> QED BY <1>4, <1>5, <1>6, <1>7

\* The terms of the energy and of the distance.
Linears(ds, ts) == [x \in ds \X ts |-> Linear(ds, ts, x)]
Quadratics(ds, ts) == [p \in Pairs(ds \X ts) |-> Quadratic(ds, ts, p)]
Costs(ds, ts) == [x \in ds \X ts |-> asks.cost[x]]

LEMMA TermsTyped ==
    ASSUME NEW ds, NEW ts, Priced(ds, ts)
    PROVE  /\ Linears(ds, ts) \in [ds \X ts -> Int]
           /\ Quadratics(ds, ts) \in [Pairs(ds \X ts) -> Int]
           /\ Costs(ds, ts) \in [ds \X ts -> Int] /\ Costs(ds, ts) \in [ds \X ts -> Nat]
           /\ \A x \in ds \X ts : /\ Linear(ds, ts, x) \in Int
                                  /\ Linear(ds, ts, x) < 0
                                  /\ Linears(ds, ts)[x] = Linear(ds, ts, x)
                                  /\ Costs(ds, ts)[x] = asks.cost[x]
<1>1. /\ Penalty(ds, ts) \in Nat
      /\ \A x \in ds \X ts : asks.cost[x] \in Nat /\ asks.cost[x] < Penalty(ds, ts)
  BY PenaltyIs DEF Priced
<1>2. \A x \in ds \X ts : Linear(ds, ts, x) \in Int /\ Linear(ds, ts, x) < 0
  BY <1>1 DEF Linear
<1>3. \A p : Quadratic(ds, ts, p) \in Int
  BY <1>1, QuadraticIs
<1>4. Linears(ds, ts) \in [ds \X ts -> Int]
  BY <1>2 DEF Linears
<1>5. Quadratics(ds, ts) \in [Pairs(ds \X ts) -> Int]
  BY <1>3 DEF Quadratics
<1>6. Costs(ds, ts) \in [ds \X ts -> Int] /\ Costs(ds, ts) \in [ds \X ts -> Nat]
  BY <1>1 DEF Costs
<1> QED BY <1>2, <1>4, <1>5, <1>6 DEF Linears, Costs

LEMMA EnergyIs ==
    ASSUME NEW ds, NEW ts, Priced(ds, ts), NEW b \in Bits(ds, ts)
    PROVE  /\ Energy(ds, ts, b) = Over(Linears(ds, ts), b) + Over(Quadratics(ds, ts), Pairs(b))
           /\ Energy(ds, ts, b) \in Int
           /\ TotalCost(b) = Over(Costs(ds, ts), b) /\ TotalCost(b) \in Nat
<1>1. b \in SUBSET (ds \X ts) /\ IsFiniteSet(ds \X ts)
  BY BitsFinite, PenaltyIs
<1>2. IsFiniteSet(Pairs(ds \X ts)) /\ Pairs(b) \in SUBSET Pairs(ds \X ts)
  BY <1>1, PairsFinite
<1>3. [x \in b |-> Linear(ds, ts, x)] = [x \in b |-> Linears(ds, ts)[x]]
  BY <1>1 DEF Linears
<1>4. [p \in Pairs(b) |-> Quadratic(ds, ts, p)] = [p \in Pairs(b) |-> Quadratics(ds, ts)[p]]
  BY <1>2 DEF Quadratics
<1>5. [x \in b |-> asks.cost[x]] = [x \in b |-> Costs(ds, ts)[x]]
  BY <1>1 DEF Costs
<1>6. Energy(ds, ts, b) = Over(Linears(ds, ts), b) + Over(Quadratics(ds, ts), Pairs(b))
  BY <1>3, <1>4 DEF Energy, Over
<1>7. TotalCost(b) = Over(Costs(ds, ts), b)
  BY <1>5 DEF TotalCost, Over
<1>8. Over(Linears(ds, ts), b) \in Int /\ Over(Quadratics(ds, ts), Pairs(b)) \in Int
  BY <1>1, <1>2, TermsTyped, SumParts
<1>9. TotalCost(b) \in Nat
  <2> DEFINE f == [x \in b |-> asks.cost[x]]
  <2>1. f \in [b -> Nat] /\ IsFiniteSet(b)
    BY <1>1, BitsFinite DEF Priced
  <2>2. SumFunction(f) \in Nat
    <3> HIDE DEF f
    <3> QED BY <2>1, SumCovers
  <2> QED BY <2>2 DEF TotalCost
<1> QED BY <1>6, <1>7, <1>8, <1>9

\* Setting one more variable.
LEMMA EnergyStep ==
    ASSUME NEW ds, NEW ts, Priced(ds, ts), NEW b \in Bits(ds, ts), NEW x \in ds \X ts, x \notin b
    PROVE  /\ b \cup {x} \in Bits(ds, ts)
           /\ Energy(ds, ts, b \cup {x})
                = Energy(ds, ts, b) + (Linear(ds, ts, x) + Pull(ds, ts, b, x))
           /\ TotalCost(b \cup {x}) = TotalCost(b) + asks.cost[x]
<1> DEFINE l == Linears(ds, ts)
           q == Quadratics(ds, ts)
           g == [y \in b |-> Quadratic(ds, ts, {x, y})]
<1>1. b \in SUBSET (ds \X ts) /\ IsFiniteSet(ds \X ts) /\ b \cup {x} \in Bits(ds, ts)
  BY BitsFinite, PenaltyIs DEF Bits
<1>2. g \in [b -> Int] /\ \A y \in b : g[y] = q[Both(x, y)]
  <2>0. Penalty(ds, ts) \in Nat
    BY PenaltyIs
  <2>1. \A y \in b : Quadratic(ds, ts, {x, y}) \in Int
    BY <2>0, QuadraticIs
  <2>2. \A y \in b : {x, y} \in Pairs(ds \X ts)
    BY <1>1, PairsAre
  <2> QED BY <2>1, <2>2 DEF Quadratics, Both
<1>3. SumFunction(g) = Pull(ds, ts, b, x)
  BY DEF Pull
<1>4. l \in [ds \X ts -> Int] /\ q \in [Pairs(ds \X ts) -> Int] /\ l[x] = Linear(ds, ts, x)
  BY TermsTyped
<1>5. Costs(ds, ts) \in [ds \X ts -> Int] /\ Costs(ds, ts)[x] = asks.cost[x]
  BY ZenonT(120), TermsTyped
<1> HIDE DEF l, q, g
<1>6. Over(l, b) \in Int /\ Over(l, b \cup {x}) = l[x] + Over(l, b)
  BY <1>1, <1>4, SumAdds
<1>7. /\ Over(q, Pairs(b)) \in Int
      /\ Over(q, Pairs(b \cup {x})) = Over(q, Pairs(b)) + SumFunction(g)
  <2> DEFINE S == ds \X ts
  <2>2. IsFiniteSet(S) /\ b \in SUBSET S /\ x \in S /\ q \in [Pairs(S) -> Int]
    BY <1>1, <1>4
  <2> HIDE DEF S
  <2>3. g \in [b -> Int]
    BY <1>2
  <2>4. \A y \in b : g[y] = q[Both(x, y)]
    BY <1>2
  <2>5. Over(q, Pairs(b)) \in Int
    BY <2>2, PairsFinite, SumParts
  <2>6. Over(q, Pairs(b \cup {x})) = Over(q, Pairs(b)) + SumFunction(g)
    BY <2>2, <2>3, <2>4, SumPairs
  <2> QED BY <2>5, <2>6
<1>8. Over(Costs(ds, ts), b) \in Int
      /\ Over(Costs(ds, ts), b \cup {x}) = asks.cost[x] + Over(Costs(ds, ts), b)
  BY <1>1, <1>5, SumAdds
<1>9. /\ Energy(ds, ts, b) = Over(l, b) + Over(q, Pairs(b))
      /\ Energy(ds, ts, b \cup {x}) = Over(l, b \cup {x}) + Over(q, Pairs(b \cup {x}))
      /\ TotalCost(b) = Over(Costs(ds, ts), b)
      /\ TotalCost(b \cup {x}) = Over(Costs(ds, ts), b \cup {x})
  BY <1>1, EnergyIs DEF l, q
<1>10. Pull(ds, ts, b, x) \in Int /\ l[x] \in Int /\ asks.cost[x] \in Int
  BY <1>4, <1>5, PullIs DEF l
<1>11. \A i, j, k, m \in Int : (i + j) + (k + m) = (j + k) + (i + m)
  OBVIOUS
<1>12. Energy(ds, ts, b \cup {x}) = Energy(ds, ts, b) + (Linear(ds, ts, x) + Pull(ds, ts, b, x))
  BY <1>3, <1>4, <1>6, <1>7, <1>9, <1>10, <1>11
<1>13. TotalCost(b \cup {x}) = TotalCost(b) + asks.cost[x]
  BY <1>8, <1>9, <1>10
<1> QED BY <1>1, <1>12, <1>13

-----------------------------------------------------------------------------
(***************************************************************************)
(* The Ising terms change by four times as much as the energy.             *)
(***************************************************************************)

\* The spins of a pair agree unless exactly one of its variables is set.
LEMMA BondIs ==
    ASSUME NEW b, NEW x, NEW y, y # x
    PROVE  Bond(b, Both(x, y)) = IF x \in b <=> y \in b THEN 1 ELSE -1
<1>1. IsFiniteSet({x, y}) /\ Cardinality({x, y}) # 1
  <2>1. IsFiniteSet({x}) /\ {x, y} = {x} \cup {y}
    BY FS_Singleton
  <2>2. IsFiniteSet({x, y})
    BY <2>1, FS_AddElement
  <2>3. \A z : {x, y} # {z}
    OBVIOUS
  <2> QED BY <2>2, <2>3, FS_Singleton
<1>2. Cardinality({x}) = 1 /\ Cardinality({y}) = 1 /\ Cardinality({}) = 0
  BY FS_Singleton, FS_EmptySet
<1>3. CASE x \in b /\ y \in b
  <2>1. Both(x, y) \cap b = {x, y}
    BY <1>3 DEF Both
  <2> QED BY <1>1, <1>3, <2>1 DEF Bond
<1>4. CASE x \in b /\ y \notin b
  <2>1. Both(x, y) \cap b = {x}
    BY <1>4 DEF Both
  <2> QED BY <1>2, <1>4, <2>1 DEF Bond
<1>5. CASE x \notin b /\ y \in b
  <2>1. Both(x, y) \cap b = {y}
    BY <1>5 DEF Both
  <2> QED BY <1>2, <1>5, <2>1 DEF Bond
<1>6. CASE x \notin b /\ y \notin b
  <2>1. Both(x, y) \cap b = {}
    BY <1>6 DEF Both
  <2> QED BY <1>2, <1>6, <2>1 DEF Bond
<1> QED BY <1>3, <1>4, <1>5, <1>6

\* The products of integers by one or minus one.
LEMMA Signed == ASSUME NEW i \in Int PROVE i * 1 = i /\ i * (-1) = -i /\ -(-i) = i
  OBVIOUS

LEMMA FieldTyped ==
    ASSUME NEW ds, NEW ts, Priced(ds, ts), NEW x \in ds \X ts
    PROVE  /\ Field(ds, ts, x) \in Int
           /\ Pull(ds, ts, (ds \X ts) \ {x}, x) \in Int
           /\ Field(ds, ts, x) = -2 * Linear(ds, ts, x) - Pull(ds, ts, (ds \X ts) \ {x}, x)
<1>1. Pull(ds, ts, (ds \X ts) \ {x}, x) \in Int
  <2>1. (ds \X ts) \ {x} \in Bits(ds, ts)
    BY DEF Bits
  <2> QED BY <2>1, PullIs
<1>2. Linear(ds, ts, x) \in Int
  BY TermsTyped
<1>3. Field(ds, ts, x) = -2 * Linear(ds, ts, x) - Pull(ds, ts, (ds \X ts) \ {x}, x)
  BY DEF Field, Pull
<1> QED BY <1>1, <1>2, <1>3

LEMMA IsingStep ==
    ASSUME NEW ds, NEW ts, Priced(ds, ts), NEW b \in Bits(ds, ts), NEW x \in ds \X ts, x \notin b
    PROVE  /\ Ising(ds, ts, b) \in Int
           /\ Ising(ds, ts, b \cup {x})
                = Ising(ds, ts, b) + 4 * (Linear(ds, ts, x) + Pull(ds, ts, b, x))
<1> DEFINE A == ds \X ts
           V == A \ {x}
           c == b \cup {x}
           Fields(u) == [y \in A |-> Field(ds, ts, y) * Spin(u, y)]
           Bonds(u) == [p \in Pairs(A) |-> Quadratic(ds, ts, p) * Bond(u, p)]
           Beside(u) == [y \in V |-> Quadratic(ds, ts, Both(x, y)) * Bond(u, Both(x, y))]
           k == [y \in V |-> Quadratic(ds, ts, Both(x, y))]
<1>1. IsFiniteSet(A) /\ IsFiniteSet(V) /\ V \in SUBSET A /\ x \notin V /\ V \cup {x} = A
  BY PenaltyIs, FS_Subset
<1>2. b \in SUBSET V /\ c \in SUBSET A
  BY DEF Bits
<1>3. Penalty(ds, ts) \in Nat
  BY PenaltyIs
<1>4. \A p : Quadratic(ds, ts, p) \in Int
  BY <1>3, QuadraticIs
<1>5. \A u, y : Spin(u, y) \in {-1, 1} /\ Bond(u, y) \in {-1, 1}
  BY DEF Spin, Bond
<1>6. \A u : Fields(u) \in [A -> Int] /\ Bonds(u) \in [Pairs(A) -> Int]
  <2>1. \A y \in A : Field(ds, ts, y) \in Int
    BY FieldTyped
  <2>2. \A i \in Int, s \in {-1, 1} : i * s \in Int
    OBVIOUS
  <2> QED BY <1>4, <1>5, <2>1, <2>2
<1>7. k \in [V -> Int] /\ \A u : Beside(u) \in [V -> Int]
  <2>1. \A i \in Int, s \in {-1, 1} : i * s \in Int
    OBVIOUS
  <2> QED BY <1>4, <1>5, <2>1
<1>8. \A u : Ising(ds, ts, u) = SumFunction(Fields(u)) + SumFunction(Bonds(u))
  BY DEF Ising
<1>9. /\ Fields(b)[x] = Field(ds, ts, x) /\ Fields(c)[x] = -Field(ds, ts, x)
      /\ \A y \in V : Fields(c)[y] = Fields(b)[y]
  <2>1. Spin(b, x) = 1 /\ Spin(c, x) = -1 /\ \A y \in V : Spin(c, y) = Spin(b, y)
    BY <1>2 DEF Spin
  <2>2. Field(ds, ts, x) \in Int
    BY FieldTyped
  <2> QED BY <2>1, <2>2, Signed
<1>10. /\ \A p \in Pairs(V) : Bonds(c)[p] = Bonds(b)[p]
       /\ \A u : \A y \in V : Beside(u)[y] = Bonds(u)[Both(x, y)]
  <2>1. \A p \in Pairs(V) : x \notin p /\ p \in Pairs(A)
    BY DEF Pairs
  <2>2. \A y \in V : Both(x, y) \in Pairs(A)
    BY PairsAre DEF Both
  <2>3. ASSUME NEW p, x \notin p PROVE Bond(c, p) = Bond(b, p)
    <3>1. p \cap c = p \cap b
      BY <2>3
    <3> QED BY <3>1 DEF Bond
  <2>4. \A p \in Pairs(V) : Bonds(c)[p] = Bonds(b)[p]
    <3> HIDE DEF c, V, A
    <3> QED BY <2>1, <2>3
  <2>5. \A u : \A y \in V : Beside(u)[y] = Bonds(u)[Both(x, y)]
    <3> HIDE DEF V, A
    <3> QED BY <2>2
  <2> QED BY <2>4, <2>5
<1>11. /\ \A y \in V : Beside(b)[y] = IF y \in b THEN -k[y] ELSE k[y]
       /\ \A y \in V : Beside(c)[y] = -Beside(b)[y]
  <2> SUFFICES ASSUME NEW y \in V
               PROVE  /\ Beside(b)[y] = IF y \in b THEN -k[y] ELSE k[y]
                      /\ Beside(c)[y] = -Beside(b)[y]
    OBVIOUS
  <2>1. k[y] \in Int /\ Beside(b)[y] = k[y] * Bond(b, Both(x, y))
        /\ Beside(c)[y] = k[y] * Bond(c, Both(x, y))
    BY <1>4
  <2>2. /\ Bond(b, Both(x, y)) = IF y \in b THEN -1 ELSE 1
        /\ Bond(c, Both(x, y)) = IF y \in b THEN 1 ELSE -1
    <3>1. y # x
      OBVIOUS
    <3>2. Bond(b, Both(x, y)) = IF y \in b THEN -1 ELSE 1
      BY <3>1, BondIs
    <3>3. Bond(b \cup {x}, Both(x, y)) = IF y \in b THEN 1 ELSE -1
      BY <3>1, BondIs
    <3> QED BY <3>2, <3>3
  <2> HIDE DEF k, Beside, c, V
  <2> QED BY <2>1, <2>2, Signed
<1>12. SumFunction(k) = Pull(ds, ts, V, x) /\ Over(k, b) = Pull(ds, ts, b, x)
  <2>1. [y \in b |-> k[y]] = [y \in b |-> Quadratic(ds, ts, {x, y})]
    BY <1>2 DEF Both
  <2> QED BY <2>1 DEF Pull, Over, Both
<1>13. /\ Field(ds, ts, x) \in Int /\ Pull(ds, ts, V, x) \in Int
       /\ Field(ds, ts, x) = -2 * Linear(ds, ts, x) - Pull(ds, ts, V, x)
       /\ Linear(ds, ts, x) \in Int /\ Pull(ds, ts, b, x) \in Int
  <2>1. Linear(ds, ts, x) \in Int
    BY TermsTyped
  <2>2. Pull(ds, ts, b, x) \in Int
    BY PullIs
  <2> QED BY <2>1, <2>2, FieldTyped
<1>14. /\ \A u : Fields(u) = [y \in A |-> Fields(u)[y]]
       /\ \A u : Bonds(u) = [p \in Pairs(A) |-> Bonds(u)[p]]
  OBVIOUS
<1> HIDE DEF A, V, c, Fields, Bonds, Beside, k
<1>15. /\ SumFunction(Fields(b)) = Field(ds, ts, x) + Over(Fields(b), V)
       /\ SumFunction(Fields(c)) = -Field(ds, ts, x) + Over(Fields(b), V)
       /\ Over(Fields(b), V) \in Int
  <2>1. Over(Fields(c), V) = Over(Fields(b), V)
    BY <1>9 DEF Over
  <2>2. \A u : /\ SumFunction(Fields(u)) = Fields(u)[x] + Over(Fields(u), V)
               /\ Over(Fields(u), V) \in Int
    <3> SUFFICES ASSUME NEW u
                 PROVE  /\ SumFunction(Fields(u)) = Fields(u)[x] + Over(Fields(u), V)
                        /\ Over(Fields(u), V) \in Int
      OBVIOUS
    <3>1. x \in A
      BY DEF A
    <3>2. /\ Over(Fields(u), V \cup {x}) = Fields(u)[x] + Over(Fields(u), V)
          /\ Over(Fields(u), V) \in Int
      BY <1>1, <1>6, <3>1, SumAdds
    <3> QED BY <1>1, <1>14, <3>2, OverAll
  <2> QED BY <1>9, <2>1, <2>2
<1>16. /\ SumFunction(Bonds(b)) = Over(Bonds(b), Pairs(V)) + SumFunction(Beside(b))
       /\ SumFunction(Bonds(c)) = Over(Bonds(b), Pairs(V)) + SumFunction(Beside(c))
       /\ Over(Bonds(b), Pairs(V)) \in Int
  <2>1. Over(Bonds(c), Pairs(V)) = Over(Bonds(b), Pairs(V))
    BY <1>10 DEF Over
  <2>2. \A u : /\ SumFunction(Bonds(u)) = Over(Bonds(u), Pairs(V)) + SumFunction(Beside(u))
               /\ Over(Bonds(u), Pairs(V)) \in Int
    <3> SUFFICES ASSUME NEW u
                 PROVE  /\ SumFunction(Bonds(u)) = Over(Bonds(u), Pairs(V)) + SumFunction(Beside(u))
                        /\ Over(Bonds(u), Pairs(V)) \in Int
      OBVIOUS
    <3>1. x \in A
      BY DEF A
    <3>2. Over(Bonds(u), Pairs(V)) \in Int
      BY <1>1, <1>6, PairsFinite, SumParts
    <3>3. \A y \in V : Beside(u)[y] = Bonds(u)[Both(x, y)]
      BY <1>10
    <3>4. Over(Bonds(u), Pairs(V \cup {x})) = Over(Bonds(u), Pairs(V)) + SumFunction(Beside(u))
      BY <1>1, <1>6, <1>7, <3>1, <3>3, SumPairs
    <3> QED BY <1>1, <1>14, <3>2, <3>4, OverAll
  <2> QED BY <2>1, <2>2
<1>17. SumFunction(Beside(b)) = Pull(ds, ts, V, x) - 2 * Pull(ds, ts, b, x)
  BY <1>1, <1>2, <1>7, <1>11, <1>12, SumSigns
<1>18. SumFunction(Beside(c)) = -SumFunction(Beside(b))
  BY <1>1, <1>7, <1>11, SumNegates
<1>19. Ising(ds, ts, b) = (Field(ds, ts, x) + Over(Fields(b), V))
                            + (Over(Bonds(b), Pairs(V)) + SumFunction(Beside(b)))
  BY <1>8, <1>15, <1>16
<1>20. Ising(ds, ts, c) = (-Field(ds, ts, x) + Over(Fields(b), V))
                            + (Over(Bonds(b), Pairs(V)) + -SumFunction(Beside(b)))
  BY <1>8, <1>15, <1>16, <1>18
<1>22. \A i, j, m, v, w, f \in Int : f = -2 * i - j =>
          (-f + v) + (w + -(j - 2 * m)) = ((f + v) + (w + (j - 2 * m))) + 4 * (i + m)
  OBVIOUS
<1>23. Ising(ds, ts, c) = Ising(ds, ts, b) + 4 * (Linear(ds, ts, x) + Pull(ds, ts, b, x))
  BY <1>13, <1>15, <1>16, <1>17, <1>19, <1>20, <1>22
<1>24. Ising(ds, ts, b) \in Int
  BY <1>13, <1>15, <1>16, <1>17, <1>19
<1> QED BY <1>23, <1>24 DEF c

\* The constant between four times the energy and the Ising terms.
LEMMA IsingAgrees ==
    ASSUME NEW ds, NEW ts, Priced(ds, ts), NEW b \in Bits(ds, ts)
    PROVE  4 * Energy(ds, ts, b) - Ising(ds, ts, b) = 4 * Energy(ds, ts, {}) - Ising(ds, ts, {})
<1> DEFINE D(u) == 4 * Energy(ds, ts, u) - Ising(ds, ts, u)
           G == {u \in SUBSET b : D(u) = D({})}
<1>1. b \in SUBSET (ds \X ts) /\ IsFiniteSet(b)
  BY BitsFinite
<1>2. ASSUME NEW u \in SUBSET b, NEW x \in b, u \in G, x \notin u PROVE u \cup {x} \in G
  <2>1. u \in Bits(ds, ts) /\ x \in ds \X ts
    BY <1>1 DEF Bits
  <2>2. /\ Energy(ds, ts, u) \in Int /\ Linear(ds, ts, x) \in Int /\ Pull(ds, ts, u, x) \in Int
        /\ Energy(ds, ts, u \cup {x}) = Energy(ds, ts, u) + (Linear(ds, ts, x) + Pull(ds, ts, u, x))
    <3>1. Energy(ds, ts, u) \in Int
      BY <2>1, EnergyIs
    <3>2. Linear(ds, ts, x) \in Int
      BY <2>1, TermsTyped
    <3>3. Pull(ds, ts, u, x) \in Int
      BY <1>2, <2>1, PullIs
    <3>4. Energy(ds, ts, u \cup {x}) = Energy(ds, ts, u) + (Linear(ds, ts, x) + Pull(ds, ts, u, x))
      BY <1>2, <2>1, EnergyStep
    <3> QED BY <3>1, <3>2, <3>3, <3>4
  <2>3. /\ Ising(ds, ts, u) \in Int
        /\ Ising(ds, ts, u \cup {x})
             = Ising(ds, ts, u) + 4 * (Linear(ds, ts, x) + Pull(ds, ts, u, x))
    BY <1>2, <2>1, IsingStep
  <2>4. \A e, i, l, p \in Int : 4 * (e + (l + p)) - (i + 4 * (l + p)) = 4 * e - i
    OBVIOUS
  <2>5. D(u \cup {x}) = D(u)
    BY <2>2, <2>3, <2>4
  <2> QED BY <1>2, <2>5
<1>3. {} \in G
  OBVIOUS
<1>4. b \in G
  <2>1. \A u \in SUBSET b, x \in b : u \in G /\ x \notin u => u \cup {x} \in G
    BY <1>2
  <2> HIDE DEF G
  <2> QED BY <1>1, <1>3, <2>1, Grows
<1> QED BY <1>4

-----------------------------------------------------------------------------
(***************************************************************************)
(* Exchanging drones.  A vector that is not an assignment of least         *)
(* distance has a neighbour with less energy: an unserved target takes a   *)
(* drone, a target with two drops one, or a target takes a nearer drone.   *)
(***************************************************************************)

\* An assignment serves each target once.
LEMMA FeasibleIs ==
    ASSUME NEW ds, NEW ts, Priced(ds, ts), NEW b \in Bits(ds, ts)
    PROVE  IsFeasible(ts, b) <=> \A j \in ts : \E x \in b : /\ x[2] = j
                                                            /\ \A y \in b : y[2] = j => y = x
<1> SUFFICES ASSUME NEW j \in ts
             PROVE  Cardinality(Decode(b, j)) = 1 <=> \E x \in b : /\ x[2] = j
                                                                   /\ \A y \in b : y[2] = j => y = x
  BY DEF IsFeasible
<1>1. b \in SUBSET (ds \X ts) /\ \A x \in b : x = <<x[1], x[2]>> /\ x[1] \in ds
  BY BitsFinite
<1>2. IsFiniteSet(Decode(b, j))
  <2>1. Decode(b, j) \in SUBSET ds
    BY <1>1 DEF Decode
  <2> QED BY <2>1, FS_Subset DEF Priced
<1>3. Cardinality(Decode(b, j)) = 1 <=> \E i : Decode(b, j) = {i}
  BY <1>2, FS_Singleton
<1>4. \A i : i \in Decode(b, j) <=> \E x \in b : x[2] = j /\ x[1] = i
  BY DEF Decode
<1>5. ASSUME NEW i, Decode(b, j) = {i}
      PROVE  \E x \in b : x[2] = j /\ \A y \in b : y[2] = j => y = x
  <2>1. PICK x \in b : x[2] = j /\ x[1] = i
    BY <1>4, <1>5
  <2>2. ASSUME NEW y \in b, y[2] = j PROVE y = x
    <3>1. y[1] = i
      BY <1>4, <1>5, <2>2
    <3>2. y = <<y[1], y[2]>> /\ x = <<x[1], x[2]>>
      BY <1>1
    <3> QED BY <2>1, <2>2, <3>1, <3>2
  <2> QED BY <2>1, <2>2
<1>6. ASSUME NEW x \in b, x[2] = j, \A y \in b : y[2] = j => y = x
      PROVE  Decode(b, j) = {x[1]}
  BY <1>4, <1>6
<1> QED BY <1>3, <1>5, <1>6

\* Another drone for the target of x.
Swapped(b, x, z) == (b \ {x}) \cup {z}

LEMMA Swap ==
    ASSUME NEW ds, NEW ts, Priced(ds, ts), NEW b \in Bits(ds, ts), IsFeasible(ts, b),
           NEW x \in b, NEW z \in ds \X ts, z[2] = x[2], z # x
    PROVE  /\ Swapped(b, x, z) \in Bits(ds, ts) /\ z \notin b
           /\ IsFeasible(ts, Swapped(b, x, z))
           /\ Energy(ds, ts, Swapped(b, x, z)) = Energy(ds, ts, b) + (asks.cost[z] - asks.cost[x])
           /\ TotalCost(Swapped(b, x, z)) = TotalCost(b) + (asks.cost[z] - asks.cost[x])
<1> DEFINE a == b \ {x}
           c == a \cup {z}
<1>1. /\ b \in SUBSET (ds \X ts) /\ x \in ds \X ts /\ x[2] \in ts
      /\ a \in Bits(ds, ts) /\ c \in Bits(ds, ts) /\ a \cup {x} = b
  BY DEF Bits
<1>2. \A j \in ts : \E u \in b : u[2] = j /\ \A y \in b : y[2] = j => y = u
  BY FeasibleIs
<1>3. \A y \in a : y[2] # x[2]
  BY <1>1, <1>2
<1>4. z \notin a /\ x \notin a /\ z \notin b
  BY <1>3
<1>5. \A j \in ts : \E u \in c : u[2] = j /\ \A y \in c : y[2] = j => y = u
  <2> SUFFICES ASSUME NEW j \in ts
               PROVE  \E u \in c : u[2] = j /\ \A y \in c : y[2] = j => y = u
    OBVIOUS
  <2>1. CASE j = x[2]
    <3>1. z \in c /\ \A y \in c : y[2] = j => y = z
      BY <1>3, <2>1
    <3> QED BY <2>1, <3>1
  <2>2. CASE j # x[2]
    <3>1. PICK u \in b : u[2] = j /\ \A y \in b : y[2] = j => y = u
      BY <1>2
    <3>2. u \in c /\ \A y \in c : y[2] = j => y = u
      BY <2>2, <3>1
    <3> QED BY <3>1, <3>2
  <2> QED BY <2>1, <2>2
<1>6. IsFeasible(ts, c)
  BY <1>1, <1>5, FeasibleIs
<1> HIDE DEF a, c, Swapped
<1>7. Pull(ds, ts, a, x) = 0 /\ Pull(ds, ts, a, z) = 0
  BY <1>1, <1>3, <1>4, PullIs
<1>8. /\ Energy(ds, ts, a) \in Int /\ TotalCost(a) \in Int
      /\ Linear(ds, ts, x) \in Int /\ Linear(ds, ts, z) \in Int
      /\ asks.cost[x] \in Int /\ asks.cost[z] \in Int /\ Penalty(ds, ts) \in Int
      /\ Linear(ds, ts, x) = asks.cost[x] - Penalty(ds, ts)
      /\ Linear(ds, ts, z) = asks.cost[z] - Penalty(ds, ts)
  <2>1. Energy(ds, ts, a) \in Int /\ TotalCost(a) \in Int
    BY <1>1, EnergyIs
  <2>2. Linear(ds, ts, x) \in Int /\ Linear(ds, ts, z) \in Int
    BY <1>1, TermsTyped
  <2>3. Penalty(ds, ts) \in Nat
    BY PenaltyIs
  <2>4. asks.cost[x] \in Int /\ asks.cost[z] \in Int
    BY <1>1 DEF Priced
  <2> QED BY <2>1, <2>2, <2>3, <2>4 DEF Linear
<1>9. /\ Energy(ds, ts, b) = Energy(ds, ts, a) + (Linear(ds, ts, x) + 0)
      /\ TotalCost(b) = TotalCost(a) + asks.cost[x]
  BY <1>1, <1>4, <1>7, EnergyStep
<1>10. /\ Energy(ds, ts, c) = Energy(ds, ts, a) + (Linear(ds, ts, z) + 0)
       /\ TotalCost(c) = TotalCost(a) + asks.cost[z]
  BY <1>1, <1>4, <1>7, EnergyStep DEF c
<1>11. Energy(ds, ts, c) = Energy(ds, ts, b) + (asks.cost[z] - asks.cost[x])
  BY <1>8, <1>9, <1>10
<1>12. TotalCost(c) = TotalCost(b) + (asks.cost[z] - asks.cost[x])
  BY <1>8, <1>9, <1>10
<1> QED BY <1>1, <1>4, <1>6, <1>11, <1>12 DEF a, c, Swapped

\* What is not an assignment of least distance has a better neighbour.
LEMMA HasBetter ==
    ASSUME NEW ds, NEW ts, Priced(ds, ts), NEW b \in Bits(ds, ts), b \notin Nearest(ds, ts)
    PROVE  \E c \in Bits(ds, ts) :
              /\ Energy(ds, ts, c) < Energy(ds, ts, b)
              /\ IsFeasible(ts, b) => IsFeasible(ts, c) /\ TotalCost(c) < TotalCost(b)
<1>1. b \in SUBSET (ds \X ts) /\ Energy(ds, ts, b) \in Int
  BY BitsFinite, EnergyIs
<1>2. CASE ~IsFeasible(ts, b)
  <2>1. PICK j \in ts : \A x \in b : x[2] = j => \E y \in b : y[2] = j /\ y # x
    BY <1>2, FeasibleIs
  <2>2. CASE \A y \in b : y[2] # j
    <3>1. PICK i \in ds : TRUE
      BY DEF Priced
    <3> DEFINE x == <<i, j>>
    <3>2. x \in ds \X ts /\ x \notin b /\ \A y \in b : y[2] # x[2]
      BY <2>2
    <3> HIDE DEF x
    <3>3. Pull(ds, ts, b, x) = 0
      BY <3>2, PullIs
    <3>4. Linear(ds, ts, x) \in Int /\ Linear(ds, ts, x) < 0
      BY <3>2, TermsTyped
    <3>5. /\ b \cup {x} \in Bits(ds, ts)
          /\ Energy(ds, ts, b \cup {x}) = Energy(ds, ts, b) + (Linear(ds, ts, x) + 0)
      BY <3>2, <3>3, EnergyStep
    <3>6. Energy(ds, ts, b \cup {x}) < Energy(ds, ts, b)
      BY <1>1, <3>4, <3>5
    <3> QED BY <1>2, <3>5, <3>6
  <2>3. CASE \E x \in b : x[2] = j
    <3>1. PICK x \in b : x[2] = j
      BY <2>3
    <3>2. PICK y \in b : y[2] = j /\ y # x
      BY <2>1, <3>1
    <3> DEFINE a == b \ {x}
    <3>3. /\ a \in Bits(ds, ts) /\ x \notin a /\ a \cup {x} = b /\ x \in ds \X ts
          /\ y \in a /\ y[2] = x[2]
      BY <1>1, <3>1, <3>2 DEF Bits
    <3> HIDE DEF a
    <3>4. Pull(ds, ts, a, x) \in Nat /\ Pull(ds, ts, a, x) >= 2 * Penalty(ds, ts)
      BY <3>3, PullIs
    <3>5. /\ asks.cost[x] \in Nat /\ Penalty(ds, ts) \in Nat /\ asks.cost[x] < Penalty(ds, ts)
          /\ Linear(ds, ts, x) = asks.cost[x] - Penalty(ds, ts)
      BY <3>3, PenaltyIs DEF Priced, Linear
    <3>6. /\ Energy(ds, ts, b) = Energy(ds, ts, a) + (Linear(ds, ts, x) + Pull(ds, ts, a, x))
          /\ Energy(ds, ts, a) \in Int
      BY <3>3, EnergyStep, EnergyIs
    <3>7. Energy(ds, ts, a) < Energy(ds, ts, b)
      BY <3>4, <3>5, <3>6
    <3> QED BY <1>2, <3>3, <3>7
  <2> QED BY <2>2, <2>3
<1>3. CASE IsFeasible(ts, b)
  <2>1. PICK x \in b, i \in ds : ~(asks.cost[x] <= asks.cost[<<i, x[2]>>])
    BY <1>3 DEF Nearest
  <2> DEFINE z == <<i, x[2]>>
             c == Swapped(b, x, z)
  <2>2. x \in ds \X ts /\ z \in ds \X ts /\ z[2] = x[2]
    BY <1>1
  <2>3. asks.cost[x] \in Nat /\ asks.cost[z] \in Nat /\ asks.cost[z] < asks.cost[x]
    BY <2>1, <2>2 DEF Priced
  <2>4. z # x
    BY <2>3
  <2> HIDE DEF z
  <2>5. /\ c \in Bits(ds, ts) /\ IsFeasible(ts, c)
        /\ Energy(ds, ts, c) = Energy(ds, ts, b) + (asks.cost[z] - asks.cost[x])
        /\ TotalCost(c) = TotalCost(b) + (asks.cost[z] - asks.cost[x])
    BY <1>3, <2>2, <2>4, Swap
  <2> HIDE DEF c
  <2>6. TotalCost(b) \in Int
    BY EnergyIs
  <2>7. Energy(ds, ts, c) < Energy(ds, ts, b) /\ TotalCost(c) < TotalCost(b)
    BY <1>1, <2>3, <2>5, <2>6
  <2> QED BY <2>5, <2>7
<1> QED BY <1>2, <1>3

\* The assignments of least distance have the same energy and the same distance:
\* one becomes the other by swaps of drones that are as near.
LEMMA NearestAgree ==
    ASSUME NEW ds, NEW ts, Priced(ds, ts), NEW b \in Nearest(ds, ts), NEW c \in Nearest(ds, ts)
    PROVE  Energy(ds, ts, b) = Energy(ds, ts, c) /\ TotalCost(b) = TotalCost(c)
<1> DEFINE Agrees(u) == Energy(ds, ts, u) = Energy(ds, ts, c) /\ TotalCost(u) = TotalCost(c)
           Bad == {n \in Nat : \E u \in Nearest(ds, ts) : Cardinality(u \ c) = n /\ ~Agrees(u)}
<1>1. \A u \in Nearest(ds, ts) :
         /\ u \in Bits(ds, ts) /\ IsFeasible(ts, u)
         /\ u \in SUBSET (ds \X ts) /\ IsFiniteSet(u)
         /\ \A x \in u, i \in ds : asks.cost[x] <= asks.cost[<<i, x[2]>>]
  BY BitsFinite DEF Nearest
<1>2. \A u \in Nearest(ds, ts) : IsFiniteSet(u \ c) /\ Cardinality(u \ c) \in Nat
  BY <1>1, FS_Difference, FS_CardinalityType
<1>3. \A u \in Nearest(ds, ts) : \A j \in ts : \E x \in u : x[2] = j /\ \A y \in u : y[2] = j => y = x
  BY <1>1, FeasibleIs
<1>4. \A x \in ds \X ts : x[2] \in ts /\ x[1] \in ds /\ x = <<x[1], x[2]>>
  OBVIOUS
<1>5. ASSUME NEW u \in Nearest(ds, ts), u \subseteq c PROVE u = c
  <2>1. ASSUME NEW y \in c PROVE y \in u
    <3>1. y[2] \in ts
      BY <1>1, <1>4
    <3>2. PICK x \in u : x[2] = y[2]
      BY <1>3, <3>1
    <3>3. PICK z \in c : \A w \in c : w[2] = y[2] => w = z
      BY <1>3, <3>1
    <3> QED BY <1>5, <3>2, <3>3
  <2> QED BY <1>5, <2>1
<1>6. Bad = {}
  <2> SUFFICES ASSUME Bad # {} PROVE FALSE
    OBVIOUS
  <2>1. PICK n \in Bad : \A m \in Bad : ~(m < n)
    BY Least
  <2>2. PICK u \in Nearest(ds, ts) : Cardinality(u \ c) = n /\ ~Agrees(u)
    BY <2>1
  <2>3. PICK x \in u : x \notin c
    BY <1>5, <2>2
  <2>4. x \in ds \X ts /\ x[2] \in ts
    BY <1>1, <1>4
  <2>5. PICK z \in c : z[2] = x[2]
    BY <1>3, <2>4
  <2>6. z \in ds \X ts /\ z # x
    BY <1>1, <2>3, <2>5
  <2> DEFINE v == Swapped(u, x, z)
  <2>7. /\ v \in Bits(ds, ts) /\ z \notin u /\ IsFeasible(ts, v)
        /\ Energy(ds, ts, v) = Energy(ds, ts, u) + (asks.cost[z] - asks.cost[x])
        /\ TotalCost(v) = TotalCost(u) + (asks.cost[z] - asks.cost[x])
    <3>1. u \in Bits(ds, ts) /\ IsFeasible(ts, u)
      BY <1>1
    <3> QED BY <2>4, <2>5, <2>6, <3>1, Swap
  <2>8. asks.cost[z] = asks.cost[x] /\ asks.cost[x] \in Int
    <3>1. asks.cost[x] <= asks.cost[<<z[1], x[2]>>]
      BY <1>1, <1>4, <2>2, <2>3, <2>6
    <3>2. asks.cost[z] <= asks.cost[<<x[1], z[2]>>]
      BY <1>1, <1>4, <2>4, <2>5
    <3>3. <<z[1], x[2]>> = z /\ <<x[1], z[2]>> = x
      BY <1>4, <2>4, <2>5, <2>6
    <3>4. asks.cost[x] \in Nat /\ asks.cost[z] \in Nat
      BY <2>4, <2>6 DEF Priced
    <3> QED BY <3>1, <3>2, <3>3, <3>4
  <2>9. v \in Nearest(ds, ts)
    <3>1. ASSUME NEW y \in v, NEW i \in ds PROVE asks.cost[y] <= asks.cost[<<i, y[2]>>]
      <4>1. CASE y \in u
        BY <1>1, <4>1
      <4>2. CASE y = z
        BY <1>1, <2>5, <4>2
      <4> QED BY <3>1, <4>1, <4>2 DEF Swapped
    <3> QED BY <2>7, <3>1 DEF Nearest
  <2>10. Cardinality(v \ c) = n - 1
    <3>1. v \ c = (u \ c) \ {x} /\ x \in u \ c
      BY <2>3, <2>5 DEF Swapped
    <3> HIDE DEF v
    <3>2. Cardinality((u \ c) \ {x}) = Cardinality(u \ c) - 1
      BY <1>2, <3>1, FS_RemoveElement
    <3> QED BY <2>2, <3>1, <3>2
  <2>11. n \in Nat /\ n - 1 \in Nat /\ n - 1 < n
    <3>1. n \in Nat
      BY <2>1
    <3> HIDE DEF v
    <3>2. Cardinality(v \ c) \in Nat
      BY <1>2, <2>9
    <3> QED BY <2>10, <3>1, <3>2
  <2>12. Energy(ds, ts, u) \in Int /\ TotalCost(u) \in Int
    BY <1>1, EnergyIs
  <2> HIDE DEF v
  <2>13. Energy(ds, ts, v) = Energy(ds, ts, u) /\ TotalCost(v) = TotalCost(u)
    BY <2>7, <2>8, <2>12
  <2>14. ~Agrees(v)
    BY <2>2, <2>13
  <2>15. n - 1 \in Bad
    BY <2>9, <2>10, <2>11, <2>14
  <2> QED BY <2>1, <2>11, <2>15
<1>7. Agrees(b)
  BY <1>2, <1>6
<1> QED BY <1>7

\* The vectors of least energy, and the solver's answers, are these assignments.
LEMMA LeastAreNearest ==
    ASSUME NEW ds, NEW ts, Priced(ds, ts), NEW e, e = [b \in Bits(ds, ts) |-> Energy(ds, ts, b)]
    PROVE  Lowest(e) = Nearest(ds, ts)
<1> DEFINE V == {e[c] : c \in Bits(ds, ts)}
<1>1. e \in [Bits(ds, ts) -> Int] /\ \A b \in Bits(ds, ts) : e[b] = Energy(ds, ts, b)
  BY EnergyIs
<1>2. IsFiniteSet(Bits(ds, ts)) /\ Bits(ds, ts) # {}
  BY PenaltyIs, FS_SUBSET DEF Bits
<1>3. PICK a \in Bits(ds, ts) : \A c \in Bits(ds, ts) : e[a] <= e[c]
  BY <1>1, <1>2, HasExtremes
<1>4. Min(V) \in V /\ \A v \in V : Min(V) <= v
  <2>1. e[a] \in V /\ \A v \in V : e[a] <= v
    BY <1>3
  <2> HIDE DEF V
  <2> QED BY <2>1 DEF Min
<1>5. Min(V) = e[a]
  <2>1. Min(V) <= e[a] /\ e[a] <= Min(V) /\ e[a] \in Int
    BY <1>1, <1>3, <1>4
  <2>2. Min(V) \in Int
    BY <1>1, <1>4
  <2> HIDE DEF V
  <2> QED BY <2>1, <2>2
<1> HIDE DEF V
<1>6. ASSUME NEW b \in Bits(ds, ts), e[b] = e[a] PROVE b \in Nearest(ds, ts)
  <2> SUFFICES ASSUME b \notin Nearest(ds, ts) PROVE FALSE
    OBVIOUS
  <2>1. PICK c \in Bits(ds, ts) : Energy(ds, ts, c) < Energy(ds, ts, b)
    BY HasBetter
  <2>2. e[c] < e[b] /\ e[a] <= e[c] /\ e[a] \in Int /\ e[c] \in Int
    BY <1>1, <1>3, <2>1
  <2> QED BY <1>6, <2>2
<1>7. ASSUME NEW b \in Nearest(ds, ts) PROVE b \in Bits(ds, ts) /\ e[b] = e[a]
  <2>1. a \in Nearest(ds, ts) /\ b \in Bits(ds, ts)
    BY <1>6 DEF Nearest
  <2>2. Energy(ds, ts, b) = Energy(ds, ts, a)
    BY <2>1, NearestAgree
  <2> QED BY <1>1, <2>1, <2>2
<1>8. {b \in Bits(ds, ts) : e[b] = Min(V)} = Nearest(ds, ts)
  BY <1>5, <1>6, <1>7
<1>9. DOMAIN e = Bits(ds, ts)
  BY <1>1
<1> QED BY <1>8, <1>9 DEF V, Lowest

LEMMA NearestAreBest ==
    ASSUME NEW ds, NEW ts, Priced(ds, ts) PROVE Nearest(ds, ts) = Best(ds, ts)
<1> DEFINE F == {b \in Bits(ds, ts) : IsFeasible(ts, b)}
<1>1. Best(ds, ts) = {b \in F : \A c \in F : TotalCost(b) <= TotalCost(c)}
  BY DEF Best
<1>2. \A b \in F : TotalCost(b) \in Int
  BY EnergyIs
<1>3. ASSUME NEW b \in F, \A c \in F : TotalCost(b) <= TotalCost(c) PROVE b \in Nearest(ds, ts)
  <2> SUFFICES ASSUME b \notin Nearest(ds, ts) PROVE FALSE
    OBVIOUS
  <2>1. PICK c \in Bits(ds, ts) : IsFeasible(ts, c) /\ TotalCost(c) < TotalCost(b)
    BY HasBetter
  <2>2. c \in F /\ TotalCost(b) <= TotalCost(c) /\ TotalCost(b) \in Int /\ TotalCost(c) \in Int
    BY <1>2, <1>3, <2>1
  <2> QED BY <2>1, <2>2
<1>4. ASSUME NEW b \in Nearest(ds, ts) PROVE b \in F /\ \A c \in F : TotalCost(b) <= TotalCost(c)
  <2>1. b \in F
    BY DEF Nearest
  <2>2. IsFiniteSet(F)
    <3>1. IsFiniteSet(Bits(ds, ts)) /\ F \in SUBSET Bits(ds, ts)
      BY PenaltyIs, FS_SUBSET DEF Bits
    <3> QED BY <3>1, FS_Subset
  <2> DEFINE t == [c \in F |-> TotalCost(c)]
  <2>3. t \in [F -> Int] /\ \A c \in F : t[c] = TotalCost(c)
    BY <1>2
  <2> HIDE DEF F, t
  <2>4. PICK a \in F : \A c \in F : t[a] <= t[c]
    BY <2>1, <2>2, <2>3, HasExtremes
  <2>5. a \in Nearest(ds, ts)
    BY <1>3, <2>3, <2>4
  <2>6. TotalCost(b) = TotalCost(a)
    BY <2>5, NearestAgree
  <2> QED BY <2>1, <2>3, <2>4, <2>6
<1> HIDE DEF F
<1> QED BY <1>1, <1>3, <1>4

-----------------------------------------------------------------------------
(***************************************************************************)
(* The decomposition: groups of targets one after the other, each with     *)
(* drones near it.                                                         *)
(***************************************************************************)

LEMMA DivIs ==
    ASSUME NEW a \in Nat, NEW t \in Nat, t # 0
    PROVE  a \div t \in Nat /\ (a \div t) * t <= a /\ a < (a \div t) * t + t
  OBVIOUS

LEMMA Times == ASSUME NEW i \in Nat, NEW j \in Nat, NEW t \in Nat, i <= j PROVE i * t <= j * t
<1>1. j = i + (j - i) /\ j - i \in Nat
  OBVIOUS
<1>2. j * t = i * t + (j - i) * t
  BY <1>1
<1>3. (j - i) * t \in Nat /\ i * t \in Nat
  BY <1>1
<1> QED BY <1>2, <1>3

\* The largest number whose square is at most n.
LEMMA IsqrtIs == ASSUME NEW n \in Nat PROVE Isqrt(n) \in 0..n
<1> DEFINE Above == {m \in Nat : m * m > n}
<1>1. n + 1 \in Above
  <2>1. (n + 1) * (n + 1) = n * n + n + n + 1 /\ n * n \in Nat
    OBVIOUS
  <2> QED BY <2>1
<1>2. PICK m \in Above : \A l \in Above : ~(l < m)
  BY <1>1, Least
<1>3. m \in Nat /\ m * m > n /\ m # 0
  BY <1>2
<1>4. m - 1 \in Nat /\ ~((m - 1) * (m - 1) > n)
  BY <1>2, <1>3
<1>5. m - 1 <= n
  <2>1. ~(n + 1 < m)
    BY <1>1, <1>2
  <2> QED BY <1>3, <2>1
<1>6. m - 1 \in 0..n /\ (m - 1) * (m - 1) <= n /\ ((m - 1) + 1) * ((m - 1) + 1) > n
  <2>1. (m - 1) * (m - 1) \in Nat /\ (m - 1) + 1 = m
    BY <1>3, <1>4
  <2> QED BY <1>3, <1>4, <1>5, <2>1
<1>7. \E r \in 0..n : r * r <= n /\ (r + 1) * (r + 1) > n
  BY <1>6
<1> QED BY <1>7 DEF Isqrt

\* A request.
AskTyped == /\ asks.drones \subseteq 1..MaxFleet /\ asks.targets \subseteq 1..MaxFleet
            /\ asks.drones # {} /\ asks.targets # {} /\ asks.budget \in Nat
            /\ \A x \in asks.drones \X asks.targets : asks.cost[x] \in Nat

LEMMA AskFinite ==
    ASSUME AskTyped
    PROVE  /\ IsFiniteSet(asks.drones) /\ IsFiniteSet(asks.targets)
           /\ Cardinality(asks.drones) \in Nat \ {0} /\ Cardinality(asks.targets) \in Nat \ {0}
<1>1. IsFiniteSet(1..MaxFleet)
  BY PlannerAssumption, FS_Interval
<1>2. IsFiniteSet(asks.drones) /\ IsFiniteSet(asks.targets)
  BY <1>1, FS_Subset DEF AskTyped
<1> QED BY <1>2, FS_CardinalityType, FS_EmptySet DEF AskTyped

\* The sizes of a sub-problem keep a budget of two or more.
LEMMA SizesFit ==
    ASSUME AskTyped
    PROVE  /\ DronesPerSub \in 1..Cardinality(asks.drones) /\ TargetsPerSub \in Nat \ {0}
           /\ asks.budget >= 2 => DronesPerSub * TargetsPerSub <= asks.budget
<1>1. Cardinality(asks.drones) \in Nat /\ Cardinality(asks.drones) >= 1 /\ asks.budget \in Nat
  BY AskFinite DEF AskTyped
<1>2. Isqrt(asks.budget) \in 0..asks.budget
  BY <1>1, IsqrtIs
<1>3. /\ AtLeast(2, Isqrt(asks.budget)) \in Nat /\ AtLeast(2, Isqrt(asks.budget)) >= 2
      /\ asks.budget >= 2 => AtLeast(2, Isqrt(asks.budget)) <= asks.budget
  BY <1>1, <1>2 DEF AtLeast
<1>4. /\ DronesPerSub \in 1..Cardinality(asks.drones)
      /\ asks.budget >= 2 => DronesPerSub <= asks.budget
  BY <1>1, <1>3 DEF DronesPerSub, AtMost
<1> DEFINE q == asks.budget \div DronesPerSub
<1>5. q \in Nat /\ q * DronesPerSub <= asks.budget /\ DronesPerSub \in Nat
  BY <1>1, <1>4, DivIs
<1>6. TargetsPerSub = AtLeast(1, q)
  BY DEF TargetsPerSub
<1> HIDE DEF q
<1>7. CASE q >= 1
  <2>1. TargetsPerSub = q
    BY <1>5, <1>6, <1>7 DEF AtLeast
  <2>2. DronesPerSub * q = q * DronesPerSub
    BY <1>5
  <2> QED BY <1>4, <1>5, <1>7, <2>1, <2>2
<1>8. CASE q = 0
  <2>1. TargetsPerSub = 1
    BY <1>6, <1>8 DEF AtLeast
  <2>2. DronesPerSub * 1 = DronesPerSub
    BY <1>5
  <2> QED BY <1>4, <2>1, <2>2
<1> QED BY <1>5, <1>7, <1>8

\* The places of group k among n targets.
PlacesOf(k, t, n) == ((k - 1) * t + 1)..AtMost(k * t, n)

LEMMA PlacesDivide ==
    ASSUME NEW n \in Nat, n # 0, NEW t \in Nat, t # 0, NEW g, g = (n + t - 1) \div t
    PROVE  /\ g \in Nat
           /\ \A k \in 1..g : /\ PlacesOf(k, t, n) # {} /\ PlacesOf(k, t, n) \subseteq 1..n
                              /\ IsFiniteSet(PlacesOf(k, t, n)) /\ Cardinality(PlacesOf(k, t, n)) <= t
           /\ \A k, l \in 1..g : k # l => PlacesOf(k, t, n) \cap PlacesOf(l, t, n) = {}
           /\ \A j \in 1..n : \E k \in 1..g : j \in PlacesOf(k, t, n)
<1>1. g \in Nat /\ g * t <= n + t - 1 /\ n + t - 1 < g * t + t
  BY DivIs
<1>2. ASSUME NEW k \in 1..g
      PROVE  /\ (k - 1) * t \in Nat /\ k * t = (k - 1) * t + t /\ (k - 1) * t < n
             /\ k * t \in Nat
  <2>1. k * t = (k - 1) * t + t /\ (k - 1) * t \in Nat /\ k * t \in Nat
    OBVIOUS
  <2>2. k * t <= g * t /\ g * t \in Nat
    BY <1>1, Times
  <2> QED BY <1>1, <2>1, <2>2
<1>3. ASSUME NEW k \in 1..g
      PROVE  /\ PlacesOf(k, t, n) # {} /\ PlacesOf(k, t, n) \subseteq 1..n
             /\ IsFiniteSet(PlacesOf(k, t, n)) /\ Cardinality(PlacesOf(k, t, n)) <= t
  <2> DEFINE lo == (k - 1) * t + 1
             hi == AtMost(k * t, n)
  <2>1. lo \in 1..n /\ hi \in lo..n /\ hi - lo + 1 <= t
    BY <1>2 DEF AtMost
  <2>2. PlacesOf(k, t, n) = lo..hi
    BY DEF PlacesOf
  <2> HIDE DEF lo, hi
  <2>3. IsFiniteSet(lo..hi) /\ Cardinality(lo..hi) = hi - lo + 1
    BY <2>1, FS_Interval
  <2>4. lo \in lo..hi /\ lo..hi \subseteq 1..n
    BY <2>1
  <2> QED BY <2>1, <2>2, <2>3, <2>4
<1>4. ASSUME NEW k \in 1..g, NEW l \in 1..g, k < l PROVE PlacesOf(k, t, n) \cap PlacesOf(l, t, n) = {}
  <2>1. k * t <= (l - 1) * t
    BY <1>4, Times
  <2>2. \A j \in PlacesOf(k, t, n) : j \in Int /\ j <= k * t
    BY <1>2 DEF PlacesOf, AtMost
  <2>3. \A j \in PlacesOf(l, t, n) : j \in Int /\ j > (l - 1) * t
    BY <1>2 DEF PlacesOf
  <2>4. k * t \in Int /\ (l - 1) * t \in Int
    BY <1>2
  <2> QED BY <2>1, <2>2, <2>3, <2>4
<1>5. ASSUME NEW j \in 1..n PROVE \E k \in 1..g : j \in PlacesOf(k, t, n)
  <2> DEFINE q == (j - 1) \div t
  <2>1. q \in Nat /\ q * t <= j - 1 /\ j - 1 < q * t + t
    BY DivIs
  <2> HIDE DEF q
  <2>2. q * t \in Nat /\ (q + 1) * t = q * t + t
    BY <2>1
  <2>3. q + 1 <= g
    <3> SUFFICES ASSUME g <= q PROVE FALSE
      BY <1>1, <2>1
    <3>1. g * t <= q * t
      BY <1>1, <2>1, Times
    <3> QED BY <1>1, <2>1, <2>2, <3>1
  <2>4. j \in PlacesOf(q + 1, t, n)
    <3>1. (q + 1) - 1 = q
      BY <2>1
    <3> QED BY <2>1, <2>2, <3>1 DEF PlacesOf, AtMost
  <2>5. q + 1 \in 1..g
    BY <1>1, <2>1, <2>3
  <2> QED BY <2>4, <2>5
<1>6. \A k, l \in 1..g : k # l => PlacesOf(k, t, n) \cap PlacesOf(l, t, n) = {}
  BY <1>4
<1> QED BY <1>1, <1>3, <1>5, <1>6

-----------------------------------------------------------------------------
(***************************************************************************)
(* The inductive invariant.                                                *)
(***************************************************************************)

\* What is a sub-problem of the request.
SubFits(s) == /\ s \in (SUBSET asks.drones) \X (SUBSET asks.targets) /\ s[1] # {} /\ s[2] # {}
              /\ asks.quantum /\ asks.budget >= 2 => Cardinality(s[1]) * Cardinality(s[2]) <= asks.budget

SubsFit == /\ subs \in Seq((SUBSET asks.drones) \X (SUBSET asks.targets))
           /\ \A k \in 1..Len(subs) : SubFits(subs[k])
           /\ \A k, l \in 1..Len(subs) : k # l => subs[k][2] \cap subs[l][2] = {}

\* The targets of the sub-problems not solved yet have no drone so far.
Waiting == \A x \in chosen, k \in 1..Len(subs) : x[2] \notin subs[k][2]

Served == \A j \in asks.targets : \/ \E k \in 1..Len(subs) : j \in subs[k][2]
                                  \/ Cardinality(Decode(chosen, j)) = 1

PlanIInv == /\ asks = NoAsk \/ AskTyped
            /\ asks = NoAsk => subs = <<>> /\ chosen = {}
            /\ SubsFit /\ Waiting
            /\ chosen \subseteq asks.drones \X asks.targets /\ feasible \in BOOLEAN
            /\ asks # NoAsk /\ feasible => Served \/ (subs = <<>> /\ chosen = {})

LEMMA NoSubs == ASSUME subs = <<>> PROVE SubsFit /\ Waiting
<1>1. Len(subs) = 0
  OBVIOUS
<1>2. subs \in Seq((SUBSET asks.drones) \X (SUBSET asks.targets))
  OBVIOUS
<1> QED BY <1>1, <1>2 DEF SubsFit, Waiting

LEMMA InitPlanIInv == PlannerInit => PlanIInv
<1> SUFFICES ASSUME PlannerInit PROVE PlanIInv
  OBVIOUS
<1>1. asks = NoAsk /\ subs = <<>> /\ chosen = {} /\ feasible = TRUE
  BY DEF PlannerInit
<1>2. SubsFit /\ Waiting
  BY <1>1, NoSubs
<1> QED BY <1>1, <1>2 DEF PlanIInv

LEMMA PlansFleetKeeps == PlanIInv /\ PlansFleet => PlanIInv'
<1> SUFFICES ASSUME PlanIInv, PlansFleet PROVE PlanIInv'
  OBVIOUS
<1>1. subs' = <<>> /\ chosen' = {} /\ feasible' \in BOOLEAN
  BY DEF PlanIInv, PlansFleet
<1>2. AskTyped'
  <2>1. PICK d \in 1..MaxFleet, t \in 1..MaxFleet, k \in Budgets, q \in BOOLEAN :
             \E c \in [(1..d) \X (1..t) -> Distances] :
                asks' = [drones |-> 1..d, targets |-> 1..t, cost |-> c, budget |-> k, quantum |-> q]
    BY DEF PlansFleet
  <2>2. PICK c \in [(1..d) \X (1..t) -> Distances] :
             asks' = [drones |-> 1..d, targets |-> 1..t, cost |-> c, budget |-> k, quantum |-> q]
    BY <2>1
  <2>3. /\ asks'.drones = 1..d /\ asks'.targets = 1..t /\ asks'.budget = k /\ asks'.cost = c
    BY <2>2
  <2>4. /\ 1 \in 1..d /\ 1 \in 1..t /\ 1..d \subseteq 1..MaxFleet /\ 1..t \subseteq 1..MaxFleet
    BY PlannerAssumption
  <2>5. k \in Nat /\ \A x \in (1..d) \X (1..t) : c[x] \in Nat
    BY PlannerAssumption
  <2> QED BY <2>3, <2>4, <2>5 DEF AskTyped
<1>3. SubsFit' /\ Waiting'
  <2>1. Len(subs') = 0 /\ subs' \in Seq((SUBSET asks'.drones) \X (SUBSET asks'.targets))
    BY <1>1
  <2> QED BY <2>1 DEF SubsFit, Waiting
<1> QED BY <1>1, <1>2, <1>3 DEF PlanIInv

LEMMA DecomposesKeeps == PlanIInv /\ Decomposes => PlanIInv'
<1> SUFFICES ASSUME PlanIInv, Decomposes PROVE PlanIInv'
  OBVIOUS
<1>1. /\ asks' = asks /\ chosen' = {} /\ chosen = {} /\ feasible' = feasible /\ subs = <<>>
      /\ asks # NoAsk /\ AskTyped /\ feasible \in BOOLEAN
  BY DEF PlanIInv, Decomposes
<1>2. /\ IsFiniteSet(asks.drones) /\ IsFiniteSet(asks.targets)
      /\ Cardinality(asks.drones) \in Nat \ {0} /\ Cardinality(asks.targets) \in Nat \ {0}
  BY <1>1, AskFinite
<1> DEFINE n == Cardinality(asks.targets)
           groups == (n + TargetsPerSub - 1) \div TargetsPerSub
           Sub == (SUBSET asks.drones) \X (SUBSET asks.targets)
\* What is to show of the new sub-problems.
<1>3. ASSUME NEW m \in Nat, subs' \in [1..m -> Sub],
             \A k \in 1..m : SubFits(subs'[k]),
             \A k, l \in 1..m : k # l => subs'[k][2] \cap subs'[l][2] = {},
             \A j \in asks.targets : \E k \in 1..m : j \in subs'[k][2]
      PROVE  PlanIInv'
  <2>1. subs' \in Seq(Sub) /\ Len(subs') = m /\ DOMAIN subs' = 1..m
    BY <1>3
  <2>2. SubsFit'
    <3>1. \A k \in 1..m : SubFits(subs[k])'
      BY <1>1, <1>3 DEF SubFits
    <3> QED BY <1>1, <1>3, <2>1, <3>1 DEF SubsFit
  <2>3. Waiting' /\ Served'
    BY <1>1, <1>3, <2>1 DEF Waiting, Served
  <2>4. AskTyped'
    BY <1>1 DEF AskTyped
  <2> QED BY <1>1, <2>2, <2>3, <2>4 DEF PlanIInv
<1>4. CASE ~asks.quantum \/ Cardinality(asks.drones) * n <= asks.budget
  <2>1. subs' = <<<<asks.drones, asks.targets>>>>
    BY <1>4 DEF Decomposes
  <2>2. subs' \in [1..1 -> Sub] /\ subs'[1] = <<asks.drones, asks.targets>>
    BY <2>1
  <2>3. SubFits(subs'[1])
    BY <1>1, <1>4, <2>2 DEF SubFits, AskTyped
  <2>4. \A k \in 1..1 : k = 1
    OBVIOUS
  <2>5. \A j \in asks.targets : j \in subs'[1][2]
    BY <2>2
  <2> HIDE DEF Sub
  <2> QED BY <1>3, <2>2, <2>3, <2>4, <2>5
<1>5. CASE ~(~asks.quantum \/ Cardinality(asks.drones) * n <= asks.budget)
  <2>1. PICK order \in Rankings(asks.targets), near \in [1..groups -> kSubset(DronesPerSub, asks.drones)] :
             subs' = [k \in 1..groups |->
                        <<near[k], {order[j] : j \in ((k - 1) * TargetsPerSub + 1)
                                                      ..AtMost(k * TargetsPerSub, n)}>>]
    BY <1>5 DEF Decomposes
  <2>2. subs' = [k \in 1..groups |-> <<near[k], {order[j] : j \in PlacesOf(k, TargetsPerSub, n)}>>]
    BY <2>1 DEF PlacesOf
  <2>3. /\ DronesPerSub \in 1..Cardinality(asks.drones) /\ TargetsPerSub \in Nat \ {0}
        /\ asks.budget >= 2 => DronesPerSub * TargetsPerSub <= asks.budget
    BY <1>1, SizesFit
  <2>4. /\ groups \in Nat
        /\ \A k \in 1..groups : /\ PlacesOf(k, TargetsPerSub, n) # {} /\ PlacesOf(k, TargetsPerSub, n) \subseteq 1..n
                                /\ IsFiniteSet(PlacesOf(k, TargetsPerSub, n))
                                /\ Cardinality(PlacesOf(k, TargetsPerSub, n)) <= TargetsPerSub
        /\ \A k, l \in 1..groups : k # l => PlacesOf(k, TargetsPerSub, n) \cap PlacesOf(l, TargetsPerSub, n) = {}
        /\ \A j \in 1..n : \E k \in 1..groups : j \in PlacesOf(k, TargetsPerSub, n)
    BY <1>2, <2>3, PlacesDivide
  <2>5. order \in [1..n -> asks.targets] /\ \A x \in asks.targets : \E j \in 1..n : order[j] = x
    BY DEF Rankings
  <2>6. \A i, j \in 1..n : order[i] = order[j] => i = j
    <3>1. order \in Surjection(1..n, asks.targets)
      BY <2>5 DEF Surjection
    <3>2. IsFiniteSet(1..n) /\ Cardinality(1..n) = n
      BY <1>2, FS_Interval
    <3>3. order \in Injection(1..n, asks.targets)
      BY <3>1, <3>2, FS_Surjection
    <3> QED BY <2>5, <3>3 DEF Injection, IsInjective
  <2> DEFINE Group(k) == {order[j] : j \in PlacesOf(k, TargetsPerSub, n)}
  <2>7. \A k \in 1..groups : subs'[k] = <<near[k], Group(k)>>
    BY <2>2
  <2>8. \A k \in 1..groups : near[k] \in SUBSET asks.drones /\ Cardinality(near[k]) = DronesPerSub
    BY DEF kSubset
  <2>9. \A k \in 1..groups : Group(k) \in SUBSET asks.targets /\ Group(k) # {}
    BY <2>4, <2>5
  <2>10. ASSUME NEW k \in 1..groups PROVE Cardinality(Group(k)) \in Nat /\ Cardinality(Group(k)) <= TargetsPerSub
    <3> DEFINE P == PlacesOf(k, TargetsPerSub, n)
               f == [j \in P |-> order[j]]
    <3>1. f \in Surjection(P, Group(k))
      BY DEF Surjection
    <3>2. IsFiniteSet(P) /\ Cardinality(P) <= TargetsPerSub /\ Cardinality(P) \in Nat
      BY <2>4, FS_CardinalityType
    <3> HIDE DEF P, f, Group
    <3>3. IsFiniteSet(Group(k)) /\ Cardinality(Group(k)) <= Cardinality(P)
      BY <3>1, <3>2, FS_Surjection
    <3>4. Cardinality(Group(k)) \in Nat
      BY <3>3, FS_CardinalityType
    <3> QED BY <2>3, <3>2, <3>3, <3>4
  <2>11. ASSUME NEW k \in 1..groups PROVE SubFits(subs'[k])
    <3>1. asks.budget >= 2 => Cardinality(near[k]) * Cardinality(Group(k)) <= asks.budget
      <4> SUFFICES ASSUME asks.budget >= 2 PROVE Cardinality(near[k]) * Cardinality(Group(k)) <= asks.budget
        OBVIOUS
      <4> HIDE DEF Group
      <4>1. Cardinality(Group(k)) * DronesPerSub <= TargetsPerSub * DronesPerSub
        BY <2>3, <2>10, Times
      <4>2. /\ Cardinality(Group(k)) * DronesPerSub = DronesPerSub * Cardinality(Group(k))
            /\ TargetsPerSub * DronesPerSub = DronesPerSub * TargetsPerSub
            /\ Cardinality(Group(k)) * DronesPerSub \in Int /\ TargetsPerSub * DronesPerSub \in Int
        BY <2>3, <2>10
      <4>3. asks.budget \in Int
        BY <1>1 DEF AskTyped
      <4> QED BY <2>3, <2>8, <4>1, <4>2, <4>3
    <3>2. near[k] # {}
      <4>1. Cardinality(near[k]) # 0
        BY <2>3, <2>8
      <4> QED BY <4>1, FS_EmptySet
    <3> DEFINE s == <<near[k], Group(k)>>
    <3>3. s[1] = near[k] /\ s[2] = Group(k) /\ s = subs'[k]
      BY <2>7
    <3> HIDE DEF Group
    <3>4. s \in (SUBSET asks.drones) \X (SUBSET asks.targets)
      BY <2>8, <2>9
    <3> HIDE DEF s
    <3>5. SubFits(s)
      BY <2>9, <3>1, <3>2, <3>3, <3>4 DEF SubFits
    <3> QED BY <3>3, <3>5
  <2>12. \A k, l \in 1..groups : k # l => Group(k) \cap Group(l) = {}
    <3> SUFFICES ASSUME NEW k \in 1..groups, NEW l \in 1..groups, k # l,
                        NEW x, x \in Group(k), x \in Group(l)
                 PROVE  FALSE
      OBVIOUS
    <3>1. PICK i \in PlacesOf(k, TargetsPerSub, n) : x = order[i]
      OBVIOUS
    <3>2. PICK j \in PlacesOf(l, TargetsPerSub, n) : x = order[j]
      OBVIOUS
    <3>3. i \in 1..n /\ j \in 1..n
      BY <2>4
    <3>4. i = j
      BY <2>6, <3>1, <3>2, <3>3
    <3>5. PlacesOf(k, TargetsPerSub, n) \cap PlacesOf(l, TargetsPerSub, n) = {}
      BY <2>4
    <3> QED BY <3>4, <3>5
  <2>13. \A j \in asks.targets : \E k \in 1..groups : j \in Group(k)
    BY <2>4, <2>5
  <2>14. subs' \in [1..groups -> Sub]
    <3> HIDE DEF Group, groups
    <3>1. \A k \in 1..groups : <<near[k], Group(k)>> \in Sub
      BY <2>8, <2>9
    <3>2. subs' = [k \in 1..groups |-> <<near[k], Group(k)>>]
      BY <2>2 DEF Group
    <3> HIDE DEF Sub
    <3> QED BY <3>1, <3>2
  <2> HIDE DEF Group, groups, Sub, n
  <2>15. \A k \in 1..groups : subs'[k][2] = Group(k)
    BY <2>7
  <2>16. \A k, l \in 1..groups : k # l => subs'[k][2] \cap subs'[l][2] = {}
    BY <2>12, <2>15
  <2>17. \A j \in asks.targets : \E k \in 1..groups : j \in subs'[k][2]
    BY <2>13, <2>15
  <2> QED BY <1>3, <2>4, <2>11, <2>14, <2>16, <2>17
<1> QED BY <1>4, <1>5

LEMMA SolvesNextKeeps == PlanIInv /\ SolvesNext => PlanIInv'
<1> SUFFICES ASSUME PlanIInv, SolvesNext PROVE PlanIInv'
  OBVIOUS
<1> DEFINE ds == Head(subs)[1]
           ts == Head(subs)[2]
           Sub == (SUBSET asks.drones) \X (SUBSET asks.targets)
<1>1. /\ subs # <<>> /\ subs \in Seq(Sub) /\ subs' = Tail(subs) /\ asks' = asks
      /\ asks # NoAsk /\ AskTyped
      /\ \A k \in 1..Len(subs) : SubFits(subs[k])
      /\ \A k, l \in 1..Len(subs) : k # l => subs[k][2] \cap subs[l][2] = {}
      /\ \A x \in chosen, k \in 1..Len(subs) : x[2] \notin subs[k][2]
      /\ chosen \subseteq asks.drones \X asks.targets /\ feasible \in BOOLEAN
      /\ feasible => Served
  BY DEF PlanIInv, SolvesNext, SubsFit, Waiting
<1>2. PICK b \in Bits(ds, ts) : /\ chosen' = chosen \cup b
                                /\ feasible' = (feasible /\ IsFeasible(ts, b))
  BY DEF SolvesNext, Best
<1>3. /\ Len(subs) \in Nat /\ Len(subs) >= 1 /\ Head(subs) = subs[1] /\ 1 \in 1..Len(subs)
      /\ Tail(subs) \in Seq(Sub) /\ Len(Tail(subs)) = Len(subs) - 1
      /\ \A k \in 1..(Len(subs) - 1) : Tail(subs)[k] = subs[k + 1]
  <2> HIDE DEF Sub
  <2>1. subs \in Seq(Sub) /\ subs # <<>>
    BY <1>1
  <2> QED BY <2>1
<1>4. \A k \in 1..(Len(subs) - 1) : k + 1 \in 1..Len(subs) /\ k + 1 # 1
  BY <1>3
<1>5. ds \subseteq asks.drones /\ ts \subseteq asks.targets /\ b \subseteq ds \X ts
  <2>1. SubFits(subs[1])
    BY <1>1, <1>3
  <2> QED BY <1>3, <2>1 DEF SubFits, Bits
<1> HIDE DEF ds, ts, Sub
<1>6. SubsFit'
  <2>1. \A k \in 1..Len(subs') : SubFits(subs[k])'
    BY <1>1, <1>3, <1>4 DEF SubFits
  <2>2. \A k, l \in 1..Len(subs') : k # l => subs'[k][2] \cap subs'[l][2] = {}
    <3> SUFFICES ASSUME NEW k \in 1..Len(subs'), NEW l \in 1..Len(subs'), k # l
                 PROVE  subs'[k][2] \cap subs'[l][2] = {}
      OBVIOUS
    <3>1. k + 1 \in 1..Len(subs) /\ l + 1 \in 1..Len(subs) /\ k + 1 # l + 1
      BY <1>1, <1>3
    <3>2. subs'[k] = subs[k + 1] /\ subs'[l] = subs[l + 1]
      BY <1>1, <1>3
    <3> QED BY <1>1, <3>1, <3>2
  <2>3. subs' \in Seq((SUBSET asks'.drones) \X (SUBSET asks'.targets))
    BY <1>1, <1>3 DEF Sub
  <2> QED BY <2>1, <2>2, <2>3 DEF SubsFit
<1>7. \A k \in 1..Len(subs') : subs'[k] = subs[k + 1] /\ k + 1 \in 1..Len(subs) /\ subs'[k][2] \cap ts = {}
  <2> SUFFICES ASSUME NEW k \in 1..Len(subs')
               PROVE  subs'[k] = subs[k + 1] /\ k + 1 \in 1..Len(subs) /\ subs'[k][2] \cap ts = {}
    OBVIOUS
  <2>1. subs'[k] = subs[k + 1] /\ k + 1 \in 1..Len(subs) /\ k + 1 # 1
    BY <1>1, <1>3, <1>4
  <2>2. subs[k + 1][2] \cap subs[1][2] = {}
    BY <1>1, <1>3, <2>1
  <2>3. ts = subs[1][2]
    BY <1>3 DEF ts
  <2> QED BY <2>1, <2>2, <2>3
<1>8. \A x \in b : x[1] \in ds /\ x[2] \in ts
  BY <1>5
<1>9. Waiting'
  <2> SUFFICES ASSUME NEW x \in chosen', NEW k \in 1..Len(subs') PROVE x[2] \notin subs'[k][2]
    BY DEF Waiting
  <2>1. CASE x \in chosen
    BY <1>1, <1>7, <2>1
  <2>2. CASE x \in b
    BY <1>7, <1>8, <2>2
  <2> QED BY <1>2, <2>1, <2>2
<1>10. chosen' \subseteq asks.drones \X asks.targets /\ feasible' \in BOOLEAN
  <2>1. b \subseteq asks.drones \X asks.targets
    BY <1>5
  <2>2. (feasible /\ IsFeasible(ts, b)) \in BOOLEAN
    OBVIOUS
  <2> QED BY <1>1, <1>2, <2>1, <2>2
<1>11. ASSUME feasible' PROVE Served'
  <2>1. feasible /\ IsFeasible(ts, b)
    BY <1>2, <1>11
  <2> SUFFICES ASSUME NEW j \in asks.targets, \A k \in 1..Len(subs') : j \notin subs'[k][2]
               PROVE  Cardinality(Decode(chosen', j)) = 1
    BY <1>1 DEF Served
  <2>2. CASE j \in ts
    <3>1. \A x \in chosen : x[2] # j
      BY <1>1, <1>3, <2>2 DEF ts
    <3>2. Decode(chosen', j) = Decode(b, j)
      BY <1>2, <3>1 DEF Decode
    <3> QED BY <2>1, <2>2, <3>2 DEF IsFeasible
  <2>3. CASE j \notin ts
    <3>1. \A x \in b : x[2] # j
      BY <1>8, <2>3
    <3>2. Decode(chosen', j) = Decode(chosen, j)
      BY <1>2, <3>1 DEF Decode
    <3>3. \A k \in 1..Len(subs) : j \notin subs[k][2]
      <4> SUFFICES ASSUME NEW k \in 1..Len(subs), j \in subs[k][2] PROVE FALSE
        OBVIOUS
      <4>1. k # 1
        BY <1>3, <2>3 DEF ts
      <4>2. k - 1 \in 1..Len(subs') /\ (k - 1) + 1 = k
        BY <1>1, <1>3, <4>1
      <4>3. subs'[k - 1] = subs[k]
        BY <1>7, <4>2
      <4> QED BY <4>2, <4>3
    <3> QED BY <1>1, <2>1, <3>2, <3>3 DEF Served
  <2> QED BY <2>2, <2>3
<1>12. AskTyped'
  BY <1>1 DEF AskTyped
<1> QED BY <1>1, <1>6, <1>9, <1>10, <1>11, <1>12 DEF PlanIInv

LEMMA NextPlanIInv == PlanIInv /\ [PlannerNext]_planvars => PlanIInv'
<1> SUFFICES ASSUME PlanIInv, [PlannerNext]_planvars PROVE PlanIInv'
  OBVIOUS
<1>1. CASE PlansFleet
  BY <1>1, PlansFleetKeeps
<1>2. CASE Decomposes
  BY <1>2, DecomposesKeeps
<1>3. CASE SolvesNext
  BY <1>3, SolvesNextKeeps
<1>4. CASE UNCHANGED planvars
  BY <1>4 DEF planvars, PlanIInv, AskTyped, SubsFit, SubFits, Waiting, Served, Decode
<1> QED BY <1>1, <1>2, <1>3, <1>4 DEF PlannerNext

LEMMA PlanInvariant == PlannerSpec => []PlanIInv
  BY InitPlanIInv, NextPlanIInv, PTL DEF PlannerSpec

LEMMA PlannerTyped == PlanIInv => PlannerTypeOK
<1> SUFFICES ASSUME PlanIInv PROVE PlannerTypeOK
  OBVIOUS
<1>1. asks.drones \subseteq 1..MaxFleet /\ asks.targets \subseteq 1..MaxFleet
  BY DEF PlanIInv, AskTyped, NoAsk
<1>2. \A k \in 1..Len(subs) : subs[k][1] \subseteq asks.drones /\ subs[k][2] \subseteq asks.targets
  BY DEF PlanIInv, SubsFit, SubFits
<1> QED BY <1>1, <1>2 DEF PlanIInv, PlannerTypeOK

\* Every variable of the planner keeps its type, whatever the bounds.
THEOREM PlannerTypeCorrect == PlannerSpec => []PlannerTypeOK
  BY PlannerTyped, PlanInvariant, PTL

LEMMA AssignsBest == PlanIInv => AssignmentIsBest
<1> SUFFICES ASSUME PlanIInv PROVE AssignmentIsBest
  OBVIOUS
<1>1. ASSUME NEW k \in 1..Len(subs), NEW ds, ds = subs[k][1], NEW ts, ts = subs[k][2],
             NEW e, e = [b \in Bits(ds, ts) |-> Energy(ds, ts, b)]
      PROVE  /\ Lowest(e) = Nearest(ds, ts)
             /\ Nearest(ds, ts) = Best(ds, ts)
             /\ \A b \in Bits(ds, ts) : 4 * e[b] - Ising(ds, ts, b) = 4 * e[{}] - Ising(ds, ts, {})
             /\ asks.quantum /\ asks.budget >= 2 => Cardinality(ds) * Cardinality(ts) <= asks.budget
             /\ \A l \in 1..Len(subs) \ {k} : ts \cap subs[l][2] = {}
  <2>1. /\ SubFits(subs[k]) /\ AskTyped
        /\ \A l \in 1..Len(subs) : k # l => subs[k][2] \cap subs[l][2] = {}
    <3>1. asks # NoAsk
      BY DEF PlanIInv
    <3> QED BY <3>1 DEF PlanIInv, SubsFit
  <2>2. ds \in SUBSET asks.drones /\ ts \in SUBSET asks.targets /\ ds # {} /\ ts # {}
    BY <1>1, <2>1 DEF SubFits
  <2>3. Priced(ds, ts)
    <3>1. IsFiniteSet(ds) /\ IsFiniteSet(ts)
      BY <2>1, <2>2, AskFinite, FS_Subset
    <3> QED BY <2>1, <2>2, <3>1 DEF Priced, AskTyped
  <2>4. \A b \in Bits(ds, ts) : 4 * e[b] - Ising(ds, ts, b) = 4 * e[{}] - Ising(ds, ts, {})
    <3>1. {} \in Bits(ds, ts)
      BY DEF Bits
    <3>2. \A b \in Bits(ds, ts) : e[b] = Energy(ds, ts, b)
      BY <1>1
    <3> QED BY <2>3, <3>1, <3>2, IsingAgrees
  <2>5. asks.quantum /\ asks.budget >= 2 => Cardinality(ds) * Cardinality(ts) <= asks.budget
    BY <1>1, <2>1 DEF SubFits
  <2>6. \A l \in 1..Len(subs) \ {k} : ts \cap subs[l][2] = {}
    BY <1>1, <2>1
  <2>7. Lowest(e) = Nearest(ds, ts)
    BY <1>1, <2>3, LeastAreNearest
  <2>8. Nearest(ds, ts) = Best(ds, ts)
    BY <2>3, NearestAreBest
  <2> QED BY <2>4, <2>5, <2>6, <2>7, <2>8
<1>2. ASSUME asks # NoAsk, subs = <<>>, chosen # {}, feasible PROVE IsFeasible(asks.targets, chosen)
  <2>1. Served /\ Len(subs) = 0
    BY <1>2 DEF PlanIInv
  <2> QED BY <2>1 DEF Served, IsFeasible
<1> QED BY <1>1, <1>2 DEF AssignmentIsBest

\* For every fleet, all distances and every budget: in each sub-problem the vectors of
\* least energy are the assignments of least distance and the Ising terms say the same,
\* the sub-problems divide the targets and keep the budget, and an answer that is called
\* feasible serves every target once (build_qubo, _qubo_to_ising and
\* decompose_fleet_indices, fleet_router.py).
THEOREM BestAssigned == PlannerSpec => []AssignmentIsBest
  BY AssignsBest, PlanInvariant, PTL

-----------------------------------------------------------------------------
(***************************************************************************)
(* FleetRegistry keeps its types and its references, for any number of     *)
(* rows of each kind and of requests.                                      *)
(*                                                                         *)
(* Rows change only when a request commits.  So a request that finds the   *)
(* number of commits unchanged since its checks finds the rows it checked  *)
(* unchanged: what it checked still holds when it writes (StillChecked).   *)
(***************************************************************************)

\* A request names rows of the kinds its operation is about.
Names(op, on, to) ==
    /\ op \in {"create type", "delete type"} => on \in TypeIds
    /\ op \in {"register", "retype", "renumber", "remove drone", "carry", "assign"} => on \in DroneIds
    /\ op \in {"create vessel", "archive vessel"} => on \in VesselIds
    /\ op \in {"create payload", "delete payload"} => on \in PayloadIds
    /\ op \in {"create threat", "delete threat"} => on \in ThreatIds
    /\ op \in {"create template", "update template", "archive template"} => on \in TemplateIds
    /\ op \in {"link", "unlink"} => <<on, to>> \in Linkable
    /\ op \in {"register", "retype", "create template", "update template"} => to \in TypeIds
    /\ op = "renumber" => to \in 1..2
    /\ op = "carry" => to \in PayloadIds
    /\ op = "assign" => to \in VesselIds \cup {NoRow}
    /\ op = "plan" => on \in MissionIds /\ to \in DroneIds
    /\ op = "delete mission" => on \in MissionIds /\ to = NoRow

\* What the checks of a request have established.
Checked(op, on, to, saw, sysid) ==
    /\ op \in {"register", "create template", "update template"} => types[to] = "active"
    /\ op = "register" => sysid \notin Taken
    /\ op = "delete type" => saw = {d \in Stored : drones[d].type = on}
    /\ op = "remove drone" => saw = {m \in MissionIds : missions[m] = on}
    /\ op = "assign" /\ to # NoRow => vessels[to] = "active"
    /\ op = "archive vessel" => \A d \in Stored : drones[d].vessel # on
    /\ op = "archive template" => templates[on].life = "active"

CheckedBy(r) == Checked(r.op, r.on, r.to, r.saw, r.sysid)
NamedBy(r) == Names(r.op, r.on, r.to)
StillChecked == \A s \in Slots : asked[s].at = commits => CheckedBy(asked[s])

UnderWay == {s \in Slots : asked[s] # Idle}

\* Requests carry a system id at most three above the commits they have seen, and
\* no more of them are under way than may still commit.
Numbered ==
    /\ \A s \in Slots : /\ asked[s].at \in 0..commits
                        /\ asked[s].sysid \in 1..(asked[s].at + 3)
    /\ \A d \in DroneIds : drones[d].sysid <= commits + 2
    /\ commits + Cardinality(UnderWay) <= MaxCommits

\* The drones and the templates in use have a type, that of the last one to set it;
\* and so does a template about to be archived.
TypesKnown ==
    /\ \A d \in Stored : drones[d].type \in TypeIds
    /\ \A k \in TemplateIds : templates[k].life \in {"active", "archived"} => templates[k].type \in TypeIds
ArchivesKnown ==
    \A s \in Slots : asked[s].op = "archive template" => templates[asked[s].on].type \in TypeIds

FleetIInv == /\ FleetTypeOK /\ FleetReferences /\ StillChecked /\ Numbered
             /\ TypesKnown /\ ArchivesKnown
             /\ \A s \in Slots : NamedBy(asked[s])

-----------------------------------------------------------------------------
(* System ids *)

\* A nonempty set of bounded numbers has a highest one.
LEMMA HasHighest ==
    ASSUME NEW n \in Nat, NEW S, S \subseteq 0..n, S # {}
    PROVE  \E x \in S : \A y \in S : y <= x
<1> DEFINE T == {n - x : x \in S}
           R == OpToRel(<, Nat)
<1>1. T \subseteq Nat /\ T # {}
  <2>1. \A x \in S : n - x \in Nat
    OBVIOUS
  <2> QED BY <2>1
<1>2. IsWellFoundedOn(R, Nat)
  BY NatLessThanWellFounded
<1>3. \A x, y \in Nat : y < x => <<y, x>> \in R
  BY DEF OpToRel
<1> HIDE DEF T, R
<1>4. PICK k \in T : \A m \in T : ~ (<<m, k>> \in R)
  BY <1>1, <1>2, WFMin
<1>5. PICK x \in S : k = n - x
  BY <1>4 DEF T
<1>6. ASSUME NEW y \in S PROVE y <= x
  <2>1. n - y \in T /\ n - y \in Nat /\ k \in Nat
    BY <1>1, <1>4 DEF T
  <2>2. ~(n - y < k)
    BY <2>1, <1>3, <1>4
  <2> QED BY <2>1, <2>2, <1>5
<1> QED BY <1>6

\* The id a registration takes is free and follows the highest one in use.
LEMMA FreeIdIsFree ==
    ASSUME FleetTypeOK, Numbered
    PROVE  FreeSystemId \in 1..(commits + 3) /\ FreeSystemId \notin Taken
<1>1. commits \in Nat /\ Taken \subseteq 1..(commits + 2)
  BY FleetAssumption DEF FleetTypeOK, Numbered, Taken, Stored, DroneRow, SystemIds
<1>2. CASE 1 \notin Taken
  BY <1>1, <1>2 DEF FreeSystemId
<1>3. CASE 1 \in Taken
  <2> DEFINE top == CHOOSE n \in Taken : \A m \in Taken : m <= n
  <2>1. \E n \in Taken : \A m \in Taken : m <= n
    BY <1>1, <1>3, HasHighest, commits + 2 \in Nat, Taken \subseteq 0..(commits + 2)
  <2>2. top \in Taken /\ \A m \in Taken : m <= top
    BY <2>1
  <2> HIDE DEF top
  <2>3. FreeSystemId = 1 + top
    BY <1>3 DEF FreeSystemId, top
  <2> QED BY <1>1, <2>2, <2>3
<1> QED BY <1>2, <1>3

-----------------------------------------------------------------------------
(* Requests that begin, and that are rolled back *)

\* What leaves rows, commits and history alone keeps what is said about rows.
RowsKept == UNCHANGED <<fleetrows, commits, crossed, unchecked>>

LEMMA RowsKeptPreserves ==
    ASSUME FleetIInv, RowsKept
    PROVE  FleetReferences' /\ TypesKnown' /\ \A r : CheckedBy(r) <=> CheckedBy(r)'
<1>1. Stored' = Stored /\ Taken' = Taken /\ Catalogued' = Catalogued
  BY DEF RowsKept, fleetrows, Stored, Taken, Catalogued
<1>2. FleetReferences'
  BY <1>1 DEF FleetIInv, RowsKept, fleetrows, FleetReferences
<1>3. \A r : CheckedBy(r) <=> CheckedBy(r)'
  BY <1>1 DEF RowsKept, fleetrows, CheckedBy, Checked
<1>4. TypesKnown'
  BY <1>1 DEF FleetIInv, RowsKept, fleetrows, TypesKnown
<1> QED BY <1>2, <1>3, <1>4

\* The checks of a request hold.
Begun(op, on, to, saw) ==
    Names(op, on, to) /\ \A n \in SystemIds \ Taken : Checked(op, on, to, saw, n)

\* A request whose checks hold begins.
LEMMA AsksPreserves ==
    ASSUME FleetIInv, NEW s \in Slots, NEW op \in Ops \ {"idle"}, NEW on \in Rows,
           NEW to \in Rows \cup {NoRow} \cup 1..2, NEW saw \in SUBSET (DroneIds \cup MissionIds),
           Asks(s, op, on, to, saw),
           Begun(op, on, to, saw)
    PROVE  FleetIInv'
<1> DEFINE r == [op |-> op, on |-> on, to |-> to, saw |-> saw, sysid |-> FreeSystemId, at |-> commits]
<1>1. RowsKept /\ asked[s] = Idle /\ asked' = [asked EXCEPT ![s] = r]
      /\ commits + Cardinality(UnderWay) < MaxCommits
  BY DEF Asks, RowsKept, UnderWay
<1>2. FreeSystemId \in 1..(commits + 3) /\ FreeSystemId \notin Taken
  BY FreeIdIsFree DEF FleetIInv
<1>3. commits \in 0..MaxCommits /\ MaxCommits \in Nat
  BY FleetAssumption DEF FleetIInv, FleetTypeOK
<1>4. NamedBy(r) /\ CheckedBy(r)
  BY <1>2, <1>3 DEF Begun, NamedBy, CheckedBy, SystemIds
<1>5. r \in Request /\ r.sysid = FreeSystemId /\ r.at = commits /\ r.op = op
  BY <1>2, <1>3 DEF Request, SystemIds
<1>6. r # Idle
  BY DEF Idle
<1> HIDE DEF r
<1>7. asked \in [Slots -> Request] /\ asked' \in [Slots -> Request] /\ asked'[s] = r
      /\ \A x \in Slots \ {s} : asked'[x] = asked[x]
  BY <1>1, <1>5 DEF FleetIInv, FleetTypeOK
<1>8. FleetTypeOK'
  BY <1>1, <1>7 DEF FleetIInv, FleetTypeOK, RowsKept, fleetrows
<1>9. FleetReferences' /\ TypesKnown' /\ \A q : CheckedBy(q) <=> CheckedBy(q)'
  BY <1>1, RowsKeptPreserves
<1>10. StillChecked'
  <2>1. \A x \in Slots : asked'[x].at = commits => CheckedBy(asked'[x])
    BY <1>4, <1>7 DEF FleetIInv, StillChecked
  <2>2. commits' = commits
    BY <1>1 DEF RowsKept
  <2> QED BY <2>1, <2>2, <1>9 DEF StillChecked
<1>11. Numbered'
  <2>1. IsFiniteSet(UnderWay) /\ s \notin UnderWay /\ UnderWay' = UnderWay \cup {s}
    <3>1. IsFiniteSet(UnderWay)
      BY FleetAssumption, FS_Subset, UnderWay \in SUBSET Slots DEF UnderWay
    <3> QED BY <3>1, <1>1, <1>6, <1>7 DEF UnderWay
  <2>2. Cardinality(UnderWay') = Cardinality(UnderWay) + 1 /\ Cardinality(UnderWay) \in Nat
    BY <2>1, FS_AddElement, FS_CardinalityType
  <2>3. commits' = commits /\ drones' = drones
    BY <1>1 DEF RowsKept, fleetrows
  <2>4. \A x \in Slots : /\ asked'[x].at \in 0..commits
                         /\ asked'[x].sysid \in 1..(asked'[x].at + 3)
    BY <1>2, <1>3, <1>5, <1>7 DEF FleetIInv, Numbered
  <2> QED
    BY <1>1, <1>3, <2>2, <2>3, <2>4 DEF FleetIInv, Numbered
<1>12. \A x \in Slots : NamedBy(asked'[x])
  BY <1>4, <1>7 DEF FleetIInv
<1>13. ArchivesKnown'
  <2>1. op = "archive template" => templates[r.on].type \in TypeIds
    BY <1>4, <1>5 DEF NamedBy, Names, CheckedBy, Checked, FleetIInv, TypesKnown
  <2> QED BY <2>1, <1>1, <1>5, <1>7 DEF FleetIInv, ArchivesKnown, RowsKept, fleetrows
<1> QED BY <1>8, <1>9, <1>10, <1>11, <1>12, <1>13 DEF FleetIInv, NamedBy, Names

\* The handlers' checks are what Checked says.
LEMMA AsksStepPreserves ==
    ASSUME FleetIInv, NEW s \in Slots,
           \/ AsksOfType(s) \/ AsksOfDrone(s) \/ AsksOfVessel(s) \/ AsksOfPayload(s)
           \/ AsksOfThreat(s) \/ AsksOfLink(s) \/ AsksOfTemplate(s) \/ AsksForPlan(s)
    PROVE  FleetIInv'
<1>1. CASE AsksOfType(s)
  <2>1. ASSUME NEW t \in TypeIds, types[t] = "none",
             Asks(s, "create type", t, NoRow, {})
      PROVE  FleetIInv'
    <3>1. Begun("create type", t, NoRow, {})
      BY <2>1 DEF Begun, Names, Checked
    <3> QED BY <2>1, <3>1, AsksPreserves DEF Ops, Rows
  <2>2. ASSUME NEW t \in TypeIds, types[t] = "active",
             Asks(s, "delete type", t, NoRow, {d \in Stored : drones[d].type = t})
      PROVE  FleetIInv'
    <3>1. Begun("delete type", t, NoRow, {d \in Stored : drones[d].type = t})
      BY <2>2 DEF Begun, Names, Checked
    <3> QED BY <2>2, <3>1, AsksPreserves DEF Ops, Rows, Stored
  <2> QED BY <1>1, <2>1, <2>2 DEF AsksOfType
<1>2. CASE AsksOfDrone(s)
  <2>1. ASSUME NEW d \in DroneIds, NEW t \in TypeIds, types[t] = "active",
             Asks(s, "register", d, t, {})
      PROVE  FleetIInv'
    <3>1. Begun("register", d, t, {})
      BY <2>1 DEF Begun, Names, Checked
    <3> QED BY <2>1, <3>1, AsksPreserves DEF Ops, Rows
  <2>2. ASSUME NEW d \in DroneIds, NEW t \in TypeIds,
             Asks(s, "retype", d, t, {})
      PROVE  FleetIInv'
    <3>1. Begun("retype", d, t, {})
      BY <2>2 DEF Begun, Names, Checked
    <3> QED BY <2>2, <3>1, AsksPreserves DEF Ops, Rows
  <2>3. ASSUME NEW d \in DroneIds, NEW n \in 1..2,
             Asks(s, "renumber", d, n, {})
      PROVE  FleetIInv'
    <3>1. Begun("renumber", d, n, {})
      BY <2>3 DEF Begun, Names, Checked
    <3> QED BY <2>3, <3>1, AsksPreserves DEF Ops, Rows
  <2>4. ASSUME NEW d \in DroneIds,
             Asks(s, "remove drone", d, NoRow, {m \in MissionIds : missions[m] = d})
      PROVE  FleetIInv'
    <3>1. Begun("remove drone", d, NoRow, {m \in MissionIds : missions[m] = d})
      BY <2>4 DEF Begun, Names, Checked
    <3> QED BY <2>4, <3>1, AsksPreserves DEF Ops, Rows
  <2>5. ASSUME NEW d \in DroneIds, NEW p \in PayloadIds,
             Asks(s, "carry", d, p, {})
      PROVE  FleetIInv'
    <3>1. Begun("carry", d, p, {})
      BY <2>5 DEF Begun, Names, Checked
    <3> QED BY <2>5, <3>1, AsksPreserves DEF Ops, Rows
  <2>6. ASSUME NEW d \in DroneIds,
             Asks(s, "assign", d, NoRow, {})
      PROVE  FleetIInv'
    <3>1. Begun("assign", d, NoRow, {})
      BY <2>6 DEF Begun, Names, Checked
    <3> QED BY <2>6, <3>1, AsksPreserves DEF Ops, Rows
  <2>7. ASSUME NEW d \in DroneIds, NEW v \in VesselIds, vessels[v] = "active",
             Asks(s, "assign", d, v, {})
      PROVE  FleetIInv'
    <3>1. Begun("assign", d, v, {})
      BY <2>7 DEF Begun, Names, Checked
    <3> QED BY <2>7, <3>1, AsksPreserves DEF Ops, Rows
  <2> QED BY <1>2, <2>1, <2>2, <2>3, <2>4, <2>5, <2>6, <2>7 DEF AsksOfDrone
<1>3. CASE AsksOfVessel(s)
  <2>1. ASSUME NEW v \in VesselIds,
             Asks(s, "create vessel", v, NoRow, {})
      PROVE  FleetIInv'
    <3>1. Begun("create vessel", v, NoRow, {})
      BY <2>1 DEF Begun, Names, Checked
    <3> QED BY <2>1, <3>1, AsksPreserves DEF Ops, Rows
  <2>2. ASSUME NEW v \in VesselIds, \A d \in Stored : drones[d].vessel # v,
             Asks(s, "archive vessel", v, NoRow, {})
      PROVE  FleetIInv'
    <3>1. Begun("archive vessel", v, NoRow, {})
      BY <2>2 DEF Begun, Names, Checked
    <3> QED BY <2>2, <3>1, AsksPreserves DEF Ops, Rows
  <2> QED BY <1>3, <2>1, <2>2 DEF AsksOfVessel
<1>4. CASE AsksOfPayload(s)
  <2>1. ASSUME NEW p \in PayloadIds,
             Asks(s, "create payload", p, NoRow, {})
      PROVE  FleetIInv'
    <3>1. Begun("create payload", p, NoRow, {})
      BY <2>1 DEF Begun, Names, Checked
    <3> QED BY <2>1, <3>1, AsksPreserves DEF Ops, Rows
  <2>2. ASSUME NEW p \in PayloadIds,
             Asks(s, "delete payload", p, NoRow, {})
      PROVE  FleetIInv'
    <3>1. Begun("delete payload", p, NoRow, {})
      BY <2>2 DEF Begun, Names, Checked
    <3> QED BY <2>2, <3>1, AsksPreserves DEF Ops, Rows
  <2> QED BY <1>4, <2>1, <2>2 DEF AsksOfPayload
<1>5. CASE AsksOfThreat(s)
  <2>1. ASSUME NEW h \in ThreatIds,
             Asks(s, "create threat", h, NoRow, {})
      PROVE  FleetIInv'
    <3>1. Begun("create threat", h, NoRow, {})
      BY <2>1 DEF Begun, Names, Checked
    <3> QED BY <2>1, <3>1, AsksPreserves DEF Ops, Rows
  <2>2. ASSUME NEW h \in ThreatIds,
             Asks(s, "delete threat", h, NoRow, {})
      PROVE  FleetIInv'
    <3>1. Begun("delete threat", h, NoRow, {})
      BY <2>2 DEF Begun, Names, Checked
    <3> QED BY <2>2, <3>1, AsksPreserves DEF Ops, Rows
  <2> QED BY <1>5, <2>1, <2>2 DEF AsksOfThreat
<1>6. CASE AsksOfLink(s)
  <2>1. ASSUME NEW l \in Linkable,
             Asks(s, "link", l[1], l[2], {})
      PROVE  FleetIInv'
    <3>1. Begun("link", l[1], l[2], {})
      BY <2>1 DEF Begun, Names, Checked, Linkable
    <3>2. l[1] \in Rows /\ l[2] \in Rows \cup {NoRow} \cup 1..2
      BY DEF Linkable, Rows
    <3>3. "link" \in Ops \ {"idle"} /\ {} \in SUBSET (DroneIds \cup MissionIds)
      BY DEF Ops
    <3> QED BY <2>1, <3>1, <3>2, <3>3, AsksPreserves
  <2>2. ASSUME NEW l \in Linkable,
             Asks(s, "unlink", l[1], l[2], {})
      PROVE  FleetIInv'
    <3>1. Begun("unlink", l[1], l[2], {})
      BY <2>2 DEF Begun, Names, Checked, Linkable
    <3>2. l[1] \in Rows /\ l[2] \in Rows \cup {NoRow} \cup 1..2
      BY DEF Linkable, Rows
    <3>3. "unlink" \in Ops \ {"idle"} /\ {} \in SUBSET (DroneIds \cup MissionIds)
      BY DEF Ops
    <3> QED BY <2>2, <3>1, <3>2, <3>3, AsksPreserves
  <2> QED BY <1>6, <2>1, <2>2 DEF AsksOfLink
<1>7. CASE AsksOfTemplate(s)
  <2>1. ASSUME NEW k \in TemplateIds, NEW t \in TypeIds, types[t] = "active",
             Asks(s, "create template", k, t, {})
      PROVE  FleetIInv'
    <3>1. Begun("create template", k, t, {})
      BY <2>1 DEF Begun, Names, Checked
    <3> QED BY <2>1, <3>1, AsksPreserves DEF Ops, Rows
  <2>2. ASSUME NEW k \in TemplateIds, NEW t \in TypeIds, types[t] = "active",
             Asks(s, "update template", k, t, {})
      PROVE  FleetIInv'
    <3>1. Begun("update template", k, t, {})
      BY <2>2 DEF Begun, Names, Checked
    <3> QED BY <2>2, <3>1, AsksPreserves DEF Ops, Rows
  <2>3. ASSUME NEW k \in TemplateIds, templates[k].life = "active",
             Asks(s, "archive template", k, NoRow, {})
      PROVE  FleetIInv'
    <3>1. Begun("archive template", k, NoRow, {})
      BY <2>3 DEF Begun, Names, Checked
    <3> QED BY <2>3, <3>1, AsksPreserves DEF Ops, Rows
  <2> QED BY <1>7, <2>1, <2>2, <2>3 DEF AsksOfTemplate
<1>8. CASE AsksForPlan(s)
  <2>1. ASSUME NEW m \in MissionIds, NEW d \in DroneIds,
             Asks(s, "plan", m, d, {})
      PROVE  FleetIInv'
    <3>1. Begun("plan", m, d, {})
      BY <2>1 DEF Begun, Names, Checked
    <3> QED BY <2>1, <3>1, AsksPreserves DEF Ops, Rows
  <2>2. ASSUME NEW m \in MissionIds, Asks(s, "delete mission", m, NoRow, {})
        PROVE  FleetIInv'
    <3>1. Begun("delete mission", m, NoRow, {})
      BY <2>2 DEF Begun, Names, Checked
    <3> QED BY <2>2, <3>1, AsksPreserves DEF Ops, Rows
  <2> QED BY <1>8, <2>1, <2>2 DEF AsksForPlan
<1> QED BY <1>1, <1>2, <1>3, <1>4, <1>5, <1>6, <1>7, <1>8

\* An empty slot holds a request of its type.
LEMMA IdleIsRequest == Idle \in Request
<1>1. MaxCommits \in Nat
  BY FleetAssumption
<1>2. "idle" \in Ops /\ NoRow \in Rows \cup {NoRow} /\ NoRow \in Rows \cup {NoRow} \cup 1..2
      /\ {} \in SUBSET (DroneIds \cup MissionIds) /\ 1 \in SystemIds /\ 0 \in 0..MaxCommits
  BY <1>1 DEF Ops, SystemIds
<1> QED BY <1>2 DEF Idle, Request

\* A request that is rolled back leaves its slot.
LEMMA RollsBackPreserves ==
    ASSUME FleetIInv, NEW s \in Slots, RollsBack(s)
    PROVE  FleetIInv'
<1>1. RowsKept /\ asked' = [asked EXCEPT ![s] = Idle] /\ asked[s].op # "idle"
  BY DEF RollsBack, RowsKept
<1>2. commits \in 0..MaxCommits /\ MaxCommits \in Nat /\ asked \in [Slots -> Request]
  BY FleetAssumption DEF FleetIInv, FleetTypeOK
<1>3. Idle \in Request
  BY IdleIsRequest
<1>4. asked' \in [Slots -> Request] /\ asked'[s] = Idle
      /\ \A x \in Slots \ {s} : asked'[x] = asked[x]
  BY <1>1, <1>2, <1>3
<1>5. FleetTypeOK'
  BY <1>1, <1>4 DEF FleetIInv, FleetTypeOK, RowsKept, fleetrows
<1>6. FleetReferences' /\ TypesKnown' /\ \A q : CheckedBy(q) <=> CheckedBy(q)'
  BY <1>1, RowsKeptPreserves
<1>7. CheckedBy(Idle) /\ NamedBy(Idle) /\ Idle.at = 0 /\ Idle.sysid = 1
  BY DEF Idle, CheckedBy, Checked, NamedBy, Names
<1>8. StillChecked'
  <2>1. \A x \in Slots : asked'[x].at = commits => CheckedBy(asked'[x])
    BY <1>4, <1>7 DEF FleetIInv, StillChecked
  <2> QED BY <1>1, <2>1, <1>6 DEF StillChecked, RowsKept
<1>9. Numbered'
  <2>1. IsFiniteSet(UnderWay) /\ UnderWay' \in SUBSET UnderWay
    <3>1. IsFiniteSet(UnderWay)
      BY FleetAssumption, FS_Subset, UnderWay \in SUBSET Slots DEF UnderWay
    <3> QED BY <3>1, <1>4 DEF UnderWay
  <2>2. IsFiniteSet(UnderWay') /\ Cardinality(UnderWay') <= Cardinality(UnderWay)
    BY <2>1, FS_Subset
  <2>3. Cardinality(UnderWay') \in Nat /\ Cardinality(UnderWay) \in Nat
    BY <2>1, <2>2, FS_CardinalityType
  <2>4. commits' = commits /\ drones' = drones
    BY <1>1 DEF RowsKept, fleetrows
  <2>5. \A x \in Slots : /\ asked'[x].at \in 0..commits
                         /\ asked'[x].sysid \in 1..(asked'[x].at + 3)
    BY <1>2, <1>4, <1>7 DEF FleetIInv, Numbered
  <2> QED BY <1>2, <2>2, <2>3, <2>4, <2>5 DEF FleetIInv, Numbered
<1>10. \A x \in Slots : NamedBy(asked'[x])
  BY <1>4, <1>7 DEF FleetIInv
<1>11. ArchivesKnown'
  BY <1>1, <1>4, Idle.op = "idle" DEF FleetIInv, ArchivesKnown, RowsKept, fleetrows, Idle
<1> QED BY <1>5, <1>6, <1>8, <1>9, <1>10, <1>11 DEF FleetIInv, NamedBy, Names

-----------------------------------------------------------------------------
(* Requests that commit *)

RowsTyped ==
    /\ types \in [TypeIds -> Life] /\ vessels \in [VesselIds -> Life] /\ payloads \in [PayloadIds -> Life]
    /\ threats \in [ThreatIds -> Life]
    /\ drones \in [DroneIds -> DroneRow]
    /\ templates \in [TemplateIds -> [life : Life, type : TypeIds \cup {NoRow}]]
    /\ missions \in [MissionIds -> DroneIds \cup {NoRow}]
    /\ linked \subseteq Linkable
    /\ unchecked \subseteq DroneIds \cup MissionIds

\* What a request may have written.
Wrote == /\ RowsTyped' /\ FleetReferences' /\ TypesKnown'
         /\ \A d \in DroneIds : drones'[d].sysid <= commits + 3
         /\ \A k \in TemplateIds : templates[k].type \in TypeIds => templates'[k].type \in TypeIds

\* A commit ends its request, and makes what the others have checked out of date.
LEMMA CommitsPreserves ==
    ASSUME FleetIInv, NEW s \in Slots, asked[s].op # "idle", Commits(s),
           Wrote
    PROVE  FleetIInv'
<1>1. /\ commits' = commits + 1 /\ asked' = [asked EXCEPT ![s] = Idle]
      /\ crossed' = (crossed \/ asked[s].at # commits)
  BY DEF Commits
<1>2. commits \in 0..MaxCommits /\ MaxCommits \in Nat /\ asked \in [Slots -> Request]
  BY FleetAssumption DEF FleetIInv, FleetTypeOK
<1>3. Idle \in Request
  BY IdleIsRequest
<1>4. asked' \in [Slots -> Request] /\ asked'[s] = Idle
      /\ \A x \in Slots \ {s} : asked'[x] = asked[x]
  BY <1>1, <1>2, <1>3
<1>5. CheckedBy(Idle)' /\ NamedBy(Idle) /\ Idle.at = 0 /\ Idle.sysid = 1 /\ Idle.op = "idle"
  BY DEF Idle, CheckedBy, Checked, NamedBy, Names
<1>6. IsFiniteSet(UnderWay) /\ s \in UnderWay /\ UnderWay' = UnderWay \ {s}
  <2>1. IsFiniteSet(UnderWay)
    BY FleetAssumption, FS_Subset, UnderWay \in SUBSET Slots DEF UnderWay
  <2> QED BY <2>1, <1>4, <1>5 DEF UnderWay
<1>7. Cardinality(UnderWay') = Cardinality(UnderWay) - 1 /\ Cardinality(UnderWay) \in Nat
      /\ Cardinality(UnderWay') \in Nat
  BY <1>6, FS_RemoveElement, FS_CardinalityType
<1>8. commits' \in 0..MaxCommits /\ commits' + Cardinality(UnderWay') <= MaxCommits
  BY <1>1, <1>2, <1>7 DEF FleetIInv, Numbered
<1>9. FleetTypeOK'
  BY <1>1, <1>4, <1>8 DEF FleetIInv, FleetTypeOK, RowsTyped, Wrote
<1>10. StillChecked'
  <2>1. \A x \in Slots \ {s} : asked'[x].at # commits'
    BY <1>1, <1>2, <1>4 DEF FleetIInv, Numbered
  <2> QED BY <2>1, <1>4, <1>5 DEF StillChecked
<1>11. Numbered'
  <2>1. \A x \in Slots : /\ asked'[x].at \in 0..commits'
                         /\ asked'[x].sysid \in 1..(asked'[x].at + 3)
    BY <1>1, <1>2, <1>4, <1>5 DEF FleetIInv, Numbered
  <2>2. \A d \in DroneIds : drones'[d].sysid <= commits' + 2
    BY <1>1, <1>2, (commits + 1) + 2 = commits + 3 DEF Wrote
  <2> QED BY <1>8, <2>1, <2>2 DEF Numbered
<1>12. \A x \in Slots : NamedBy(asked'[x])
  BY <1>4, <1>5 DEF FleetIInv
<1>13. ArchivesKnown'
  BY <1>4, <1>5 DEF FleetIInv, ArchivesKnown, Wrote, NamedBy, Names
<1> QED BY <1>9, <1>10, <1>11, <1>12, <1>13 DEF FleetIInv, NamedBy, Names, Wrote

\* The parts of FleetReferences.
LinksHold == \A l \in linked : {l[1], l[2]} \subseteq Catalogued
HomesHold == \A d \in Stored : drones[d].vessel # NoRow => vessels[drones[d].vessel] = "active"
TypesHold == \A d \in Stored \ unchecked : types[drones[d].type] = "active"
NumbersDiffer == \A d, e \in Stored \ unchecked : d # e => drones[d].sysid # drones[e].sysid
TemplatesHold == \A k \in TemplateIds : templates[k].life \in {"active", "archived"}
                                           => types[templates[k].type] = "active"
MissionsHold == \A m \in MissionIds \ unchecked : missions[m] # NoRow => drones[missions[m]].life = "active"
RowsHold == HomesHold /\ TypesHold /\ NumbersDiffer /\ TemplatesHold /\ MissionsHold

\* A request that no other overlapped writes from rows that are as it checked them.
LEMMA WritesFromChecked ==
    ASSUME FleetIInv, NEW s \in Slots, Commits(s)
    PROVE  /\ LinksHold /\ RowsTyped /\ TypesKnown /\ NamedBy(asked[s])
           /\ asked[s] \in Request /\ asked[s].sysid <= commits + 3 /\ commits \in Nat
           /\ \A d \in DroneIds : drones[d].sysid <= commits + 3
           /\ ~crossed' => RowsHold /\ CheckedBy(asked[s])
           /\ LinksHold' /\ (~crossed' => RowsHold') => FleetReferences'
<1>1. commits \in Nat /\ asked[s] \in Request /\ asked[s].at \in 0..commits /\ asked[s].sysid \in 1..(asked[s].at + 3)
  BY FleetAssumption DEF FleetIInv, FleetTypeOK, Numbered
<1>2. LinksHold /\ RowsTyped /\ TypesKnown /\ NamedBy(asked[s]) /\ asked[s].sysid <= commits + 3
  BY <1>1 DEF FleetIInv, FleetReferences, LinksHold, FleetTypeOK, RowsTyped
<1>3. \A d \in DroneIds : drones[d].sysid <= commits + 3
  <2>1. \A d \in DroneIds : drones[d].sysid \in Nat /\ drones[d].sysid <= commits + 2
    BY <1>2, FleetAssumption DEF FleetIInv, Numbered, RowsTyped, DroneRow, SystemIds
  <2> QED BY <1>1, <2>1
<1>4. ~crossed' => RowsHold /\ CheckedBy(asked[s])
  BY DEF Commits, FleetIInv, FleetReferences, StillChecked, RowsHold, HomesHold, TypesHold,
         NumbersDiffer, TemplatesHold, MissionsHold
<1>5. LinksHold' /\ (~crossed' => RowsHold') => FleetReferences'
  BY DEF FleetReferences, LinksHold, RowsHold, HomesHold, TypesHold, NumbersDiffer, TemplatesHold, MissionsHold
<1> QED BY <1>1, <1>2, <1>3, <1>4, <1>5

LEMMA WritesTypeKeeps ==
    ASSUME FleetIInv, NEW s \in Slots, WritesType(s)
    PROVE  Wrote
<1> DEFINE r == asked[s]
<1>1. Commits(s) /\ UNCHANGED <<vessels, payloads, threats, unchecked>>
  BY DEF WritesType
<1>2. CASE /\ r.op = "create type" /\ types[r.on] = "none" /\ types' = [types EXCEPT ![r.on] = "active"]
           /\ UNCHANGED <<drones, templates, missions, linked>>
  <2>1. r.on \in TypeIds /\ RowsTyped' /\ Stored' = Stored
    BY <1>1, <1>2, WritesFromChecked DEF NamedBy, Names, RowsTyped, Life, Stored
  <2>2. \A t \in TypeIds : types[t] = "active" => types'[t] = "active"
    BY <1>2, <2>1, WritesFromChecked, <1>1 DEF RowsTyped
  <2>3. LinksHold'
    BY ZenonT(120), <1>1, <1>2, <2>2, WritesFromChecked DEF LinksHold, Catalogued
  <2>4. TypesKnown'
    BY <1>1, <1>2, <2>1, WritesFromChecked DEF TypesKnown
  <2>5. ~crossed' => RowsHold'
    <3>1. RowsHold => TypesHold' /\ TemplatesHold'
      BY <1>1, <1>2, <2>1, <2>2, WritesFromChecked DEF RowsHold, TypesHold, TemplatesHold, TypesKnown
    <3>2. RowsHold => HomesHold'
      BY <1>1, <1>2, <2>1 DEF RowsHold, HomesHold
    <3>3. RowsHold => NumbersDiffer'
      <4>1. drones' = drones /\ unchecked' = unchecked
        BY <1>1, <1>2
      <4> QED BY <2>1, <4>1 DEF RowsHold, NumbersDiffer
    <3>4. RowsHold => MissionsHold'
      BY <1>1, <1>2 DEF RowsHold, MissionsHold
    <3> QED BY <1>1, <3>1, <3>2, <3>3, <3>4, WritesFromChecked DEF RowsHold
  <2> QED BY <1>1, <1>2, <2>1, <2>3, <2>4, <2>5, WritesFromChecked DEF Wrote
<1>3. CASE /\ r.op = "delete type" /\ types' = [types EXCEPT ![r.on] = "deleted"]
           /\ drones' = [d \in DroneIds |-> IF d \in r.saw THEN [drones[d] EXCEPT !.life = "deleted"]
                                           ELSE drones[d]]
           /\ missions' = [m \in MissionIds |-> IF missions[m] \in r.saw THEN NoRow ELSE missions[m]]
           /\ templates' = [k \in TemplateIds |-> IF templates[k].type = r.on
                                                 THEN [templates[k] EXCEPT !.life = "deleted"]
                                                 ELSE templates[k]]
           /\ linked' = Unlinked(r.on)
  <2>1. r.on \in TypeIds /\ RowsTyped
    BY <1>1, <1>3, WritesFromChecked DEF NamedBy, Names
  <2>2. \A d \in DroneIds : /\ drones'[d].type = drones[d].type /\ drones'[d].vessel = drones[d].vessel
                             /\ drones'[d].sysid = drones[d].sysid /\ drones'[d] \in DroneRow
                             /\ drones'[d].life = IF d \in r.saw THEN "deleted" ELSE drones[d].life
    <3> SUFFICES ASSUME NEW d \in DroneIds
                 PROVE  /\ drones'[d].type = drones[d].type /\ drones'[d].vessel = drones[d].vessel
                        /\ drones'[d].sysid = drones[d].sysid /\ drones'[d] \in DroneRow
                        /\ drones'[d].life = IF d \in r.saw THEN "deleted" ELSE drones[d].life
      OBVIOUS
    <3>1. drones[d] \in DroneRow
      BY <2>1 DEF RowsTyped
    <3>2. drones'[d] = IF d \in r.saw THEN [drones[d] EXCEPT !.life = "deleted"] ELSE drones[d]
      BY <1>3
    <3>3. CASE d \in r.saw
      BY <3>1, <3>2, <3>3 DEF DroneRow, Life
    <3>4. CASE d \notin r.saw
      BY <3>1, <3>2, <3>4
    <3> QED BY <3>3, <3>4
  <2>3. \A k \in TemplateIds : /\ templates'[k].type = templates[k].type
                                /\ templates'[k] \in [life : Life, type : TypeIds \cup {NoRow}]
                                /\ templates'[k].life = IF templates[k].type = r.on THEN "deleted"
                                                         ELSE templates[k].life
    BY <1>3, <2>1 DEF RowsTyped, Life
  <2>4. Stored' = Stored \ r.saw
    BY <2>2 DEF Stored
  <2>5. RowsTyped'
    <3>1. drones' \in [DroneIds -> DroneRow]
      BY <1>3, <2>2
    <3>2. templates' \in [TemplateIds -> [life : Life, type : TypeIds \cup {NoRow}]]
      BY <1>3, <2>3
    <3>3. types' \in [TypeIds -> Life] /\ missions' \in [MissionIds -> DroneIds \cup {NoRow}]
          /\ linked' \subseteq Linkable
      BY <1>3, <2>1 DEF RowsTyped, Life, Unlinked
    <3> QED BY <1>1, <2>1, <3>1, <3>2, <3>3 DEF RowsTyped
  <2>6. \A t \in TypeIds \ {r.on} : types'[t] = types[t]
    BY <1>3, <2>1 DEF RowsTyped
  <2>7. LinksHold'
    <3>1. Catalogued \ {r.on} \subseteq Catalogued'
      BY <1>1, <2>6 DEF Catalogued
    <3> QED BY <1>1, <1>3, <3>1, WritesFromChecked DEF LinksHold, Unlinked
  <2>8. TypesKnown'
    BY <1>1, <2>2, <2>3, <2>4, WritesFromChecked DEF TypesKnown, Stored
  <2>9. ASSUME ~crossed' PROVE RowsHold'
    <3>1. RowsHold /\ r.saw = {d \in Stored : drones[d].type = r.on} /\ TypesKnown
      BY <1>1, <1>3, <2>9, WritesFromChecked DEF CheckedBy, Checked
    <3>2. TypesHold' /\ TemplatesHold'
      BY <1>1, <2>2, <2>3, <2>4, <2>6, <3>1 DEF RowsHold, TypesHold, TemplatesHold, TypesKnown, Stored
    <3>3. HomesHold' /\ NumbersDiffer'
      BY <1>1, <2>2, <2>4, <3>1 DEF RowsHold, HomesHold, NumbersDiffer, Stored
    <3>4. MissionsHold'
      BY <1>1, <1>3, <2>1, <2>2, <3>1 DEF RowsHold, MissionsHold, RowsTyped
    <3> QED BY <3>2, <3>3, <3>4 DEF RowsHold
  <2> QED BY <1>1, <2>2, <2>3, <2>5, <2>7, <2>8, <2>9, WritesFromChecked DEF Wrote
<1> QED BY <1>1, <1>2, <1>3 DEF WritesType

LEMMA WritesVesselKeeps ==
    ASSUME FleetIInv, NEW s \in Slots, WritesVessel(s)
    PROVE  Wrote
<1> DEFINE r == asked[s]
<1>1. /\ r.op \in {"create vessel", "archive vessel"}
      /\ vessels' = [vessels EXCEPT ![r.on] = IF r.op = "create vessel" THEN "active" ELSE "archived"]
      /\ Commits(s)
      /\ UNCHANGED <<types, payloads, threats, drones, templates, missions, linked, unchecked>>
  BY DEF WritesVessel
<1>2. r.on \in VesselIds /\ RowsTyped' /\ Stored' = Stored
  BY <1>1, WritesFromChecked DEF NamedBy, Names, RowsTyped, Life, Stored
<1>3. LinksHold' /\ TypesKnown'
  BY ZenonT(120), <1>1, <1>2, WritesFromChecked DEF LinksHold, Catalogued, TypesKnown
<1>4. ASSUME ~crossed' PROVE RowsHold'
  <2>1. RowsHold /\ RowsTyped /\ (r.op = "archive vessel" => \A d \in Stored : drones[d].vessel # r.on)
    BY <1>1, <1>4, WritesFromChecked DEF CheckedBy, Checked
  <2>2. HomesHold'
    BY <1>1, <1>2, <2>1 DEF RowsHold, HomesHold, RowsTyped, DroneRow, Stored
  <2>3. TypesHold' /\ TemplatesHold'
    BY <1>1, <1>2, <2>1 DEF RowsHold, TypesHold, TemplatesHold
  <2>4. NumbersDiffer'
    BY ZenonT(120), <1>1, <1>2, <2>1 DEF RowsHold, NumbersDiffer
  <2>5. MissionsHold'
    BY <1>1, <2>1 DEF RowsHold, MissionsHold
  <2> QED BY <2>2, <2>3, <2>4, <2>5 DEF RowsHold
<1> QED BY <1>1, <1>2, <1>3, <1>4, WritesFromChecked DEF Wrote

\* Payloads, threats and links concern none but the links.
LEMMA SameFleetKeeps ==
    ASSUME FleetIInv, NEW s \in Slots, Commits(s), RowsTyped', LinksHold',
           UNCHANGED <<types, vessels, drones, templates, missions, unchecked>>
    PROVE  Wrote
<1>1. Stored' = Stored
  BY DEF Stored
<1>2. TypesKnown'
  BY <1>1, WritesFromChecked DEF TypesKnown
<1>3. ASSUME RowsHold PROVE RowsHold'
  <2>1. HomesHold' /\ TypesHold' /\ TemplatesHold'
    BY <1>1, <1>3 DEF RowsHold, HomesHold, TypesHold, TemplatesHold
  <2>2. NumbersDiffer'
    BY <1>1, <1>3 DEF RowsHold, NumbersDiffer
  <2>3. MissionsHold'
    BY <1>3 DEF RowsHold, MissionsHold
  <2> QED BY <2>1, <2>2, <2>3 DEF RowsHold
<1> QED BY <1>2, <1>3, WritesFromChecked DEF Wrote

LEMMA WritesPayloadKeeps ==
    ASSUME FleetIInv, NEW s \in Slots, WritesPayload(s)
    PROVE  Wrote
<1> DEFINE r == asked[s]
<1>1. /\ Commits(s) /\ r.op \in {"create payload", "delete payload"}
      /\ UNCHANGED <<types, vessels, threats, drones, templates, missions, unchecked>>
      /\ payloads' = [payloads EXCEPT ![r.on] = IF r.op = "create payload" THEN "active" ELSE "deleted"]
      /\ linked' = IF r.op = "create payload" THEN linked ELSE Unlinked(r.on)
  BY DEF WritesPayload
<1>2. r.on \in PayloadIds /\ RowsTyped' /\ Stored' = Stored
  BY <1>1, WritesFromChecked DEF NamedBy, Names, RowsTyped, Life, Stored, Unlinked
<1>3. LinksHold'
  <2>1. r.op = "create payload" => Catalogued \subseteq Catalogued'
    BY <1>1, <1>2, WritesFromChecked DEF Catalogued, RowsTyped
  <2>2. Catalogued \ {r.on} \subseteq Catalogued'
    BY <1>1, <1>2, WritesFromChecked DEF Catalogued, RowsTyped
  <2> QED BY <1>1, <2>1, <2>2, WritesFromChecked DEF LinksHold, Unlinked
<1> QED BY <1>1, <1>2, <1>3, SameFleetKeeps

LEMMA WritesThreatKeeps ==
    ASSUME FleetIInv, NEW s \in Slots, WritesThreat(s)
    PROVE  Wrote
<1> DEFINE r == asked[s]
<1>1. /\ Commits(s) /\ r.op \in {"create threat", "delete threat"}
      /\ UNCHANGED <<types, vessels, payloads, drones, templates, missions, unchecked>>
      /\ threats' = [threats EXCEPT ![r.on] = IF r.op = "create threat" THEN "active" ELSE "deleted"]
      /\ linked' = IF r.op = "create threat" THEN linked ELSE Unlinked(r.on)
  BY DEF WritesThreat
<1>2. r.on \in ThreatIds /\ RowsTyped' /\ Stored' = Stored
  BY <1>1, WritesFromChecked DEF NamedBy, Names, RowsTyped, Life, Stored, Unlinked
<1>3. LinksHold'
  <2>1. r.op = "create threat" => Catalogued \subseteq Catalogued'
    BY <1>1, <1>2, WritesFromChecked DEF Catalogued, RowsTyped
  <2>2. Catalogued \ {r.on} \subseteq Catalogued'
    BY <1>1, <1>2, WritesFromChecked DEF Catalogued, RowsTyped
  <2> QED BY <1>1, <2>1, <2>2, WritesFromChecked DEF LinksHold, Unlinked
<1> QED BY <1>1, <1>2, <1>3, SameFleetKeeps

LEMMA WritesLinkKeeps ==
    ASSUME FleetIInv, NEW s \in Slots, WritesLink(s)
    PROVE  Wrote
<1> DEFINE l == <<asked[s].on, asked[s].to>>
<1>1. Commits(s) /\ UNCHANGED <<types, vessels, payloads, threats, drones, templates, missions, unchecked>>
  BY DEF WritesLink
<1>2. asked[s].op \in {"link", "unlink"} /\ l \in Linkable
      /\ linked' \subseteq linked \cup {l} /\ (l \in linked' \ linked => {l[1], l[2]} \subseteq Catalogued)
  BY <1>1, WritesFromChecked DEF WritesLink, NamedBy, Names
<1>3. RowsTyped' /\ LinksHold' /\ Catalogued' = Catalogued
  BY <1>1, <1>2, WritesFromChecked DEF RowsTyped, LinksHold, Catalogued
<1> QED BY <1>1, <1>3, SameFleetKeeps

LEMMA WritesTemplateKeeps ==
    ASSUME FleetIInv, NEW s \in Slots, WritesTemplate(s)
    PROVE  Wrote
<1> DEFINE r == asked[s]
           k == r.on
<1>1. Commits(s) /\ UNCHANGED <<types, vessels, payloads, threats, drones, missions, linked, unchecked>>
  BY DEF WritesTemplate
<1>2. k \in TemplateIds /\ RowsTyped /\ templates[k] \in [life : Life, type : TypeIds \cup {NoRow}]
  BY <1>1, WritesFromChecked DEF WritesTemplate, NamedBy, Names, RowsTyped
<1>3. \A x \in TemplateIds \ {k} : templates'[x] = templates[x]
  BY <1>2 DEF WritesTemplate, RowsTyped
<1>4. /\ templates' \in [TemplateIds -> [life : Life, type : TypeIds \cup {NoRow}]]
      /\ \/ /\ r.op \in {"create template", "update template"}
            /\ r.to \in TypeIds /\ templates'[k].type = r.to
         \/ /\ r.op = "archive template" /\ templates'[k].type = templates[k].type
  <2>1. CASE /\ r.op \in {"create template", "update template"}
             /\ templates' = [templates EXCEPT ![r.on].life = IF @ = "none" THEN "active" ELSE @,
                                               ![r.on].type = r.to]
    <3>1. r.to \in TypeIds
      BY <1>1, <2>1, WritesFromChecked DEF NamedBy, Names
    <3>2. templates'[k] = [life |-> IF templates[k].life = "none" THEN "active" ELSE templates[k].life,
                           type |-> r.to]
      BY <1>2, <2>1 DEF RowsTyped
    <3>3. templates'[k] \in [life : Life, type : TypeIds \cup {NoRow}] /\ templates'[k].type = r.to
      BY <1>2, <3>1, <3>2 DEF Life
    <3>4. templates' = [templates EXCEPT ![k] = templates'[k]]
      BY <1>2, <2>1, <3>2 DEF RowsTyped
    <3> QED BY <1>2, <2>1, <3>1, <3>3, <3>4 DEF RowsTyped
  <2>2. CASE r.op = "archive template" /\ templates' = [templates EXCEPT ![r.on].life = "archived"]
    BY <1>2, <2>2 DEF RowsTyped, Life
  <2> QED BY <2>1, <2>2 DEF WritesTemplate
<1>5. RowsTyped' /\ Stored' = Stored
  BY <1>1, <1>2, <1>4 DEF RowsTyped, Stored
<1>6. LinksHold'
  BY <1>1, WritesFromChecked DEF LinksHold, Catalogued
<1>7. templates'[k].type \in TypeIds
  BY <1>4 DEF FleetIInv, ArchivesKnown
<1>8. TypesKnown'
  BY <1>1, <1>3, <1>5, <1>7, WritesFromChecked DEF TypesKnown
<1>9. ASSUME ~crossed' PROVE RowsHold'
  <2>1. RowsHold /\ CheckedBy(r)
    BY <1>1, <1>9, WritesFromChecked
  <2>2. types[templates'[k].type] = "active"
    BY <1>2, <1>4, <2>1 DEF CheckedBy, Checked, RowsHold, TemplatesHold
  <2>3. TemplatesHold'
    BY <1>1, <1>3, <2>1, <2>2 DEF RowsHold, TemplatesHold
  <2>4. HomesHold' /\ TypesHold'
    BY <1>1, <1>5, <2>1 DEF RowsHold, HomesHold, TypesHold
  <2>5. NumbersDiffer'
    BY <1>1, <1>5, <2>1 DEF RowsHold, NumbersDiffer
  <2>6. MissionsHold'
    BY <1>1, <2>1 DEF RowsHold, MissionsHold
  <2> QED BY <2>3, <2>4, <2>5, <2>6 DEF RowsHold
<1> QED BY <1>1, <1>3, <1>5, <1>6, <1>7, <1>8, <1>9, WritesFromChecked DEF Wrote

LEMMA WritesPlanKeeps ==
    ASSUME FleetIInv, NEW s \in Slots, WritesPlan(s)
    PROVE  Wrote
<1> DEFINE r == asked[s]
<1>1. /\ Commits(s) /\ r.op \in {"plan", "delete mission"} /\ missions' = [missions EXCEPT ![r.on] = r.to]
      /\ unchecked' = IF r.op = "plan" /\ drones[r.to].life # "active" THEN unchecked \cup {r.on}
                      ELSE unchecked
      /\ UNCHANGED <<types, vessels, payloads, threats, drones, templates, linked>>
  BY DEF WritesPlan
<1>2. /\ RowsTyped /\ r.on \in MissionIds /\ r.to \in DroneIds \cup {NoRow}
      /\ r.to # NoRow => r.op = "plan"
  BY <1>1, WritesFromChecked DEF NamedBy, Names
<1>3. RowsTyped' /\ Stored' = Stored
  BY <1>1, <1>2 DEF RowsTyped, Stored
<1>4. LinksHold' /\ TypesKnown'
  BY <1>1, <1>3, WritesFromChecked DEF LinksHold, Catalogued, TypesKnown
<1>5. ASSUME ~crossed' PROVE RowsHold'
  <2>1. RowsHold
    BY <1>1, <1>5, WritesFromChecked
  <2>2. MissionsHold'
    BY <1>1, <1>2, <2>1 DEF RowsHold, MissionsHold, RowsTyped
  <2>3. HomesHold' /\ TemplatesHold'
    BY <1>1, <1>3, <2>1 DEF RowsHold, HomesHold, TemplatesHold
  <2>4. TypesHold'
    BY <1>1, <1>3, <2>1 DEF RowsHold, TypesHold
  <2>5. NumbersDiffer'
    BY <1>1, <1>3, <2>1 DEF RowsHold, NumbersDiffer
  <2> QED BY <2>2, <2>3, <2>4, <2>5 DEF RowsHold
<1> QED BY <1>1, <1>3, <1>4, <1>5, WritesFromChecked DEF Wrote

\* One drone's row is written: what it names exists, and its missions are active or leave it.
LEMMA DroneWritten ==
    ASSUME RowsHold, RowsTyped, NEW d \in DroneIds, NEW row \in DroneRow,
           drones' = [drones EXCEPT ![d] = row], row.life \in {"active", "archived"},
           UNCHANGED <<types, vessels, templates>>, unchecked \subseteq unchecked',
           row.vessel # NoRow => vessels[row.vessel] = "active",
           d \in unchecked' \/ /\ types[row.type] = "active"
                               /\ \A e \in (Stored \ unchecked) \ {d} : drones[e].sysid # row.sysid,
           \A m \in MissionIds : missions'[m] = missions[m] \/ missions'[m] = NoRow,
           \/ row.life = "active" \/ drones[d].life # "active"
           \/ \A m \in MissionIds \ unchecked : missions'[m] # NoRow => missions'[m] # d
    PROVE  RowsHold' /\ Stored' = Stored \cup {d}
<1>1. drones'[d] = row /\ \A x \in DroneIds \ {d} : drones'[x] = drones[x]
  BY DEF RowsTyped
<1>2. Stored' = Stored \cup {d}
  BY <1>1 DEF Stored
<1>3. HomesHold'
  <2> SUFFICES ASSUME NEW e \in Stored', drones'[e].vessel # NoRow
               PROVE  vessels'[drones'[e].vessel] = "active"
    BY DEF HomesHold
  <2>1. CASE e = d
    BY <1>1, <2>1
  <2>2. CASE e # d
    BY <1>1, <1>2, <2>2 DEF RowsHold, HomesHold, Stored
  <2> QED BY <2>1, <2>2
<1>4. TypesHold'
  <2> SUFFICES ASSUME NEW e \in Stored' \ unchecked'
               PROVE  types'[drones'[e].type] = "active"
    BY DEF TypesHold
  <2>1. CASE e = d
    BY <1>1, <2>1
  <2>2. CASE e # d
    BY <1>1, <1>2, <2>2 DEF RowsHold, TypesHold, Stored
  <2> QED BY <2>1, <2>2
<1>5. NumbersDiffer'
  <2> SUFFICES ASSUME NEW e \in Stored' \ unchecked', NEW f \in Stored' \ unchecked', e # f
               PROVE  drones'[e].sysid # drones'[f].sysid
    BY DEF NumbersDiffer
  <2>1. CASE e # d /\ f # d
    BY <1>1, <1>2, <2>1 DEF RowsHold, NumbersDiffer, Stored
  <2>2. CASE e = d
    BY <1>1, <1>2, <2>2 DEF Stored
  <2>3. CASE f = d
    BY <1>1, <1>2, <2>3 DEF Stored
  <2> QED BY <2>1, <2>2, <2>3
<1>6. TemplatesHold'
  BY DEF RowsHold, TemplatesHold
<1>7. MissionsHold'
  <2> SUFFICES ASSUME NEW m \in MissionIds \ unchecked', missions'[m] # NoRow
               PROVE  drones'[missions'[m]].life = "active"
    BY DEF MissionsHold
  <2>1. missions'[m] = missions[m] /\ m \notin unchecked /\ missions[m] \in DroneIds
        /\ drones[missions[m]].life = "active"
    BY DEF RowsHold, MissionsHold, RowsTyped
  <2> QED BY <1>1, <2>1
<1> QED BY <1>2, <1>3, <1>4, <1>5, <1>6, <1>7 DEF RowsHold

\* The drone a request is about stays where it is, or has just been registered; what it
\* carries concerns no one.
LEMMA WritesDroneKeeps ==
    ASSUME FleetIInv, NEW s \in Slots, WritesDrone(s)
    PROVE  Wrote
<1> DEFINE r == asked[s]
           d == r.on
<1>1. Commits(s) /\ UNCHANGED <<types, vessels, payloads, threats, templates, linked>>
  BY DEF WritesDrone
<1>2. d \in DroneIds /\ RowsTyped /\ drones[d] \in DroneRow /\ NamedBy(r) /\ r.saw \subseteq DroneIds \cup MissionIds
      /\ r.sysid \in SystemIds /\ MaxCommits \in Nat
  BY <1>1, WritesFromChecked, FleetAssumption DEF WritesDrone, NamedBy, Names, RowsTyped, Stored, Request
<1>3. CASE /\ r.op = "register" /\ drones[d].life = "none"
           /\ drones' = [drones EXCEPT ![d] = [NoDroneRow EXCEPT !.life = "active", !.type = r.to, !.sysid = r.sysid]]
           /\ UNCHANGED <<missions, unchecked>>
  <2>1. r.to \in TypeIds /\ NoRow \in VesselIds \cup {NoRow} /\ NoRow \in PayloadIds \cup {NoRow}
    BY <1>2, <1>3 DEF NamedBy, Names
  <2>2. /\ drones'[d] = [life |-> "active", type |-> r.to, vessel |-> NoRow, payload |-> NoRow, sysid |-> r.sysid]
        /\ \A x \in DroneIds \ {d} : drones'[x] = drones[x]
    BY <1>2, <1>3 DEF NoDroneRow, RowsTyped
  <2>3. drones'[d] \in DroneRow
    BY <1>2, <2>1, <2>2 DEF DroneRow, Life
  <2>4. drones' \in [DroneIds -> DroneRow]
    BY <1>2, <1>3, <2>2, <2>3 DEF RowsTyped
  <2>5. Stored' = Stored \cup {d} /\ d \notin Stored
    BY <1>2, <1>3, <2>2 DEF Stored
  <2>6. RowsTyped'
    BY <1>1, <1>2, <1>3, <2>4 DEF RowsTyped
  <2>7. LinksHold'
    BY <1>1, WritesFromChecked DEF LinksHold, Catalogued
  <2>8. TypesKnown'
    <3> SUFFICES ASSUME NEW e \in Stored' PROVE drones'[e].type \in TypeIds
      BY <1>1, WritesFromChecked DEF TypesKnown
    <3>1. CASE e = d
      BY <2>1, <2>2, <3>1
    <3>2. CASE e # d
      BY <1>1, <2>2, <2>5, <3>2, WritesFromChecked DEF TypesKnown, Stored
    <3> QED BY <3>1, <3>2
  <2>9. \A x \in DroneIds : drones'[x].sysid <= commits + 3
    BY <1>1, <2>2, WritesFromChecked
  <2>10. ASSUME ~crossed' PROVE RowsHold'
    <3>1. RowsHold /\ types[r.to] = "active" /\ r.sysid \notin Taken
      BY <1>1, <1>3, <2>10, WritesFromChecked DEF CheckedBy, Checked
    <3>2. \A e \in (Stored \ unchecked) \ {d} : drones[e].sysid # drones'[d].sysid
      BY <2>2, <3>1 DEF Taken
    <3>3. /\ drones' = [drones EXCEPT ![d] = drones'[d]] /\ drones'[d].life = "active"
          /\ drones'[d].vessel = NoRow /\ types[drones'[d].type] = "active"
      <4>1. drones' = [drones EXCEPT ![d] = drones'[d]]
        BY <1>3, <2>2
      <4> QED BY <2>2, <3>1, <4>1
    <3>4. /\ UNCHANGED <<types, vessels, templates>> /\ unchecked \subseteq unchecked'
          /\ \A m \in MissionIds : missions'[m] = missions[m] \/ missions'[m] = NoRow
      BY <1>1, <1>3
    <3> HIDE DEF d
    <3> QED BY <1>2, <2>3, <3>1, <3>2, <3>3, <3>4, DroneWritten
  <2> QED BY <1>1, <2>6, <2>7, <2>8, <2>9, <2>10, WritesFromChecked DEF Wrote
<1>4. CASE r.op \in {"retype", "renumber", "carry", "assign", "remove drone"} /\ d \in Stored
  <2>1. PICK row : drones' = [drones EXCEPT ![d] = row]
    BY <1>4 DEF WritesDrone
  <2>2. drones'[d] = row /\ \A x \in DroneIds \ {d} : drones'[x] = drones[x]
    BY <1>2, <2>1 DEF RowsTyped
  <2>3. /\ row \in DroneRow /\ row.life \in {"active", "archived"}
        /\ row.life = IF r.op = "remove drone" THEN "archived" ELSE drones[d].life
        /\ row.type = IF r.op = "retype" THEN r.to ELSE drones[d].type
        /\ row.vessel = IF r.op = "assign" THEN r.to ELSE drones[d].vessel
        /\ row.sysid = IF r.op = "renumber" THEN r.to ELSE drones[d].sysid
    <3>1. drones[d].life \in {"active", "archived"}
      BY <1>4 DEF Stored
    <3>2. CASE r.op = "retype"
      <4>1. row = [drones[d] EXCEPT !.type = r.to]
        BY <1>2, <2>2, <3>2 DEF WritesDrone, RowsTyped
      <4> QED BY <1>2, <3>1, <3>2, <4>1 DEF NamedBy, Names, DroneRow, Life
    <3>3. CASE r.op = "renumber"
      <4>1. row = [drones[d] EXCEPT !.sysid = r.to]
        BY <1>2, <2>2, <3>3 DEF WritesDrone, RowsTyped
      <4>2. r.to \in SystemIds
        BY <1>2, <3>3 DEF NamedBy, Names, SystemIds
      <4> QED BY <1>2, <3>1, <3>3, <4>1, <4>2 DEF DroneRow, Life
    <3>4. CASE r.op = "carry"
      <4>1. row = [drones[d] EXCEPT !.payload = r.to]
        BY <1>2, <2>2, <3>4 DEF WritesDrone, RowsTyped
      <4> QED BY <1>2, <3>1, <3>4, <4>1 DEF NamedBy, Names, DroneRow, Life
    <3>5. CASE r.op = "assign"
      <4>1. row = [drones[d] EXCEPT !.vessel = r.to]
        BY <1>2, <2>2, <3>5 DEF WritesDrone, RowsTyped
      <4> QED BY <1>2, <3>1, <3>5, <4>1 DEF NamedBy, Names, DroneRow, Life
    <3>6. CASE r.op = "remove drone"
      <4>1. row = [drones[d] EXCEPT !.life = "archived"]
        BY <1>2, <2>2, <3>6 DEF WritesDrone, RowsTyped
      <4> QED BY <1>2, <3>6, <4>1 DEF DroneRow, Life
    <3> QED BY <1>4, <3>2, <3>3, <3>4, <3>5, <3>6
  <2>4. /\ missions' = IF r.op = "remove drone"
                       THEN [m \in MissionIds |-> IF m \in r.saw THEN NoRow ELSE missions[m]]
                       ELSE missions
        /\ unchecked' = IF r.op \in {"retype", "renumber"} THEN unchecked \cup {d} ELSE unchecked
    <3>1. CASE r.op \in {"retype", "renumber"}
      BY <1>4, <3>1 DEF WritesDrone
    <3>2. CASE r.op \in {"carry", "assign"}
      BY <1>4, <3>2 DEF WritesDrone
    <3>3. CASE r.op = "remove drone"
      <4>1. missions' = [m \in MissionIds |-> IF m \in r.saw THEN NoRow ELSE missions[m]]
        BY <1>4, <3>3 DEF WritesDrone
      <4>2. unchecked' = unchecked
        BY <1>4, <3>3 DEF WritesDrone
      <4> QED BY <3>3, <4>1, <4>2
    <3> QED BY <1>4, <3>1, <3>2, <3>3
  <2>5. Stored' = Stored
    BY <1>4, <2>2, <2>3 DEF Stored
  <2>6. RowsTyped'
    <3>1. drones' \in [DroneIds -> DroneRow]
      BY <1>2, <2>1, <2>3 DEF RowsTyped
    <3>2. missions' \in [MissionIds -> DroneIds \cup {NoRow}] /\ unchecked' \subseteq DroneIds \cup MissionIds
      BY <1>2, <2>4 DEF RowsTyped
    <3> QED BY <1>1, <1>2, <3>1, <3>2 DEF RowsTyped
  <2>7. LinksHold'
    BY <1>1, WritesFromChecked DEF LinksHold, Catalogued
  <2>8. TypesKnown'
    <3>1. row.type \in TypeIds
      BY <1>1, <1>2, <1>4, <2>3, WritesFromChecked DEF NamedBy, Names, TypesKnown
    <3> SUFFICES ASSUME NEW e \in Stored PROVE drones'[e].type \in TypeIds
      BY <1>1, <2>5, WritesFromChecked DEF TypesKnown
    <3>2. CASE e = d
      BY <2>2, <3>1, <3>2
    <3>3. CASE e # d
      BY <1>1, <2>2, <3>3, WritesFromChecked DEF TypesKnown, Stored
    <3> QED BY <3>2, <3>3
  <2>9. \A x \in DroneIds : drones'[x].sysid <= commits + 3
    <3>1. commits \in Nat /\ \A x \in DroneIds : drones[x].sysid <= commits + 3
      BY <1>1, WritesFromChecked
    <3>2. row.sysid <= commits + 3
      <4>1. CASE r.op = "renumber"
        <5>1. row.sysid \in 1..2
          BY <1>2, <2>3, <4>1 DEF NamedBy, Names
        <5> QED BY <3>1, <5>1
      <4>2. CASE r.op # "renumber"
        BY <1>2, <2>3, <3>1, <4>2
      <4> QED BY <4>1, <4>2
    <3> QED BY <2>2, <3>1, <3>2
  <2>10. ASSUME ~crossed' PROVE RowsHold'
    <3>1. RowsHold /\ (r.op = "assign" /\ r.to # NoRow => vessels[r.to] = "active")
          /\ (r.op = "remove drone" => r.saw = {m \in MissionIds : missions[m] = d})
      BY <1>1, <2>10, WritesFromChecked DEF CheckedBy, Checked
    <3>2. row.vessel # NoRow => vessels[row.vessel] = "active"
      BY <1>4, <2>3, <3>1 DEF RowsHold, HomesHold
    <3>3. d \in unchecked' \/ /\ types[row.type] = "active"
                              /\ \A e \in (Stored \ unchecked) \ {d} : drones[e].sysid # row.sysid
      <4>1. CASE r.op \in {"retype", "renumber"}
        BY <2>4, <4>1
      <4>2. CASE d \in unchecked
        BY <2>4, <4>2
      <4>3. CASE r.op \notin {"retype", "renumber"} /\ d \notin unchecked
        <5>1. row.type = drones[d].type /\ row.sysid = drones[d].sysid
          BY <2>3, <4>3
        <5> QED BY <1>4, <3>1, <4>3, <5>1 DEF RowsHold, TypesHold, NumbersDiffer
      <4> QED BY <4>1, <4>2, <4>3
    <3>4. \A m \in MissionIds : missions'[m] = missions[m] \/ missions'[m] = NoRow
      BY <2>4
    <3>5. \/ row.life = "active" \/ drones[d].life # "active"
          \/ \A m \in MissionIds \ unchecked : missions'[m] # NoRow => missions'[m] # d
      <4>1. CASE r.op = "remove drone"
        <5>1. \A m \in MissionIds : missions'[m] = IF m \in r.saw THEN NoRow ELSE missions[m]
          BY <2>4, <4>1
        <5> QED BY <3>1, <4>1, <5>1
      <4> QED BY <2>3, <4>1
    <3>6. unchecked \subseteq unchecked'
      BY <2>4
    <3> HIDE DEF d
    <3> QED BY <1>1, <1>2, <2>1, <2>3, <3>1, <3>2, <3>3, <3>4, <3>5, <3>6, DroneWritten
  <2> QED BY <1>1, <2>6, <2>7, <2>8, <2>9, <2>10, WritesFromChecked DEF Wrote
<1> QED BY <1>3, <1>4 DEF WritesDrone

-----------------------------------------------------------------------------
(* The registry *)

\* The installed fleet is whole: its drone has its type, home and payload.
LEMMA InitFleetIInv == FleetInit => FleetIInv
<1> SUFFICES ASSUME FleetInit PROVE FleetIInv
  OBVIOUS
<1>1. PICK stocked \in BOOLEAN :
        /\ drones = [d \in DroneIds |->
                       IF d # Fleet.drone THEN NoDroneRow
                       ELSE [NoDroneRow EXCEPT !.life = "active", !.type = Fleet.type,
                                               !.vessel = IF stocked THEN Fleet.vessel ELSE NoRow,
                                               !.payload = IF stocked THEN Fleet.payload ELSE NoRow]]
        /\ templates = [k \in TemplateIds |-> IF stocked THEN [life |-> "active", type |-> Fleet.type]
                                             ELSE [life |-> "none", type |-> NoRow]]
        /\ missions = [m \in MissionIds |-> IF stocked THEN Fleet.drone ELSE NoRow]
        /\ linked = IF stocked THEN {l \in Linkable : {l[1], l[2]} \subseteq Catalogued} ELSE {}
  BY DEF FleetInit
<1>2. /\ types = [t \in TypeIds |-> IF t = Fleet.type THEN "active" ELSE "none"]
      /\ vessels = [v \in VesselIds |-> IF v = Fleet.vessel THEN "active" ELSE "none"]
      /\ payloads = [p \in PayloadIds |-> IF p = Fleet.payload THEN "active" ELSE "none"]
      /\ threats = [h \in ThreatIds |-> IF h = Fleet.threat THEN "active" ELSE "none"]
      /\ asked = [s \in Slots |-> Idle] /\ commits = 0 /\ crossed = FALSE /\ unchecked = {}
  BY DEF FleetInit
<1>3. Fleet.type \in TypeIds /\ Fleet.drone \in DroneIds /\ Fleet.vessel \in VesselIds
      /\ Fleet.payload \in PayloadIds /\ MaxCommits \in Nat
  BY FleetAssumption
<1>4. NoDroneRow \in DroneRow
  <2>1. /\ "none" \in Life /\ NoRow \in TypeIds \cup {NoRow} /\ NoRow \in VesselIds \cup {NoRow}
        /\ NoRow \in PayloadIds \cup {NoRow} /\ 1 \in SystemIds
    BY <1>3 DEF Life, SystemIds
  <2> QED BY <2>1 DEF NoDroneRow, DroneRow
<1>5. /\ drones[Fleet.drone] \in DroneRow
      /\ drones[Fleet.drone].life = "active" /\ drones[Fleet.drone].type = Fleet.type
      /\ drones[Fleet.drone].vessel \in {Fleet.vessel, NoRow}
  BY <1>1, <1>3, <1>4 DEF DroneRow, Life, NoDroneRow
<1>6. \A d \in DroneIds \ {Fleet.drone} : drones[d] = NoDroneRow
  BY <1>1
<1>7. \A d \in DroneIds : drones[d].sysid = 1
  BY <1>1 DEF NoDroneRow
<1>8. Stored = {Fleet.drone}
  BY <1>3, <1>5, <1>6 DEF Stored, NoDroneRow
<1>9. FleetTypeOK
  <2>1. drones \in [DroneIds -> DroneRow]
    BY <1>1, <1>4, <1>5, <1>6
  <2>2. templates \in [TemplateIds -> [life : Life, type : TypeIds \cup {NoRow}]]
    BY <1>1, <1>3 DEF Life
  <2>3. missions \in [MissionIds -> DroneIds \cup {NoRow}] /\ linked \subseteq Linkable
    BY <1>1, <1>3
  <2>4. types \in [TypeIds -> Life] /\ vessels \in [VesselIds -> Life] /\ payloads \in [PayloadIds -> Life]
        /\ threats \in [ThreatIds -> Life]
    BY <1>2 DEF Life
  <2>5. asked \in [Slots -> Request] /\ commits \in 0..MaxCommits /\ crossed \in BOOLEAN
        /\ unchecked \subseteq DroneIds \cup MissionIds
    <3>1. asked \in [Slots -> Request]
      <4>1. asked = [s \in Slots |-> Idle]
        BY <1>2
      <4> QED BY <4>1, IdleIsRequest
    <3>2. commits = 0 /\ crossed = FALSE /\ unchecked = {}
      BY <1>2
    <3>3. commits \in 0..MaxCommits /\ unchecked \subseteq DroneIds \cup MissionIds
      BY <1>3, <3>2
    <3> QED BY <3>1, <3>2, <3>3
  <2> QED BY <2>1, <2>2, <2>3, <2>4, <2>5 DEF FleetTypeOK
<1>10. FleetReferences
  <2>1. \A l \in linked : {l[1], l[2]} \subseteq Catalogued
    BY <1>1
  <2>2. \A d \in Stored : drones[d].vessel # NoRow => vessels[drones[d].vessel] = "active"
    BY <1>2, <1>3, <1>5, <1>8
  <2>3. \A d \in Stored : types[drones[d].type] = "active"
    BY <1>2, <1>3, <1>5, <1>8
  <2>4. \A k \in TemplateIds : templates[k].life \in {"active", "archived"}
                               => types[templates[k].type] = "active"
    BY <1>1, <1>2, <1>3
  <2>5. \A m \in MissionIds : missions[m] # NoRow => drones[missions[m]].life = "active"
    BY <1>1, <1>5
  <2> QED BY <1>8, <2>1, <2>2, <2>3, <2>4, <2>5 DEF FleetReferences
<1>11. CheckedBy(Idle) /\ NamedBy(Idle) /\ Idle.at = 0 /\ Idle.sysid = 1 /\ Idle.op = "idle"
  BY DEF Idle, CheckedBy, Checked, NamedBy, Names
<1>12. \A s \in Slots : asked[s] = Idle
  BY <1>2
<1>13. Numbered
  <2>1. UnderWay = {}
    BY <1>12 DEF UnderWay
  <2>2. Cardinality(UnderWay) = 0
    BY <2>1, FS_EmptySet
  <2> QED BY <1>2, <1>3, <1>7, <1>11, <1>12, <2>2 DEF Numbered
<1>14. TypesKnown /\ ArchivesKnown
  BY <1>1, <1>3, <1>5, <1>8, <1>11, <1>12 DEF TypesKnown, ArchivesKnown
<1> QED BY <1>9, <1>10, <1>11, <1>12, <1>13, <1>14 DEF FleetIInv, StillChecked

\* Every step of a request keeps the invariant.
LEMMA FleetStepPreserves == FleetIInv /\ [FleetNext]_fleetvars => FleetIInv'
<1> SUFFICES ASSUME FleetIInv, [FleetNext]_fleetvars PROVE FleetIInv'
  OBVIOUS
<1>1. ASSUME NEW s \in Slots, FleetStep(s) PROVE FleetIInv'
  <2>1. CASE \/ AsksOfType(s) \/ AsksOfDrone(s) \/ AsksOfVessel(s) \/ AsksOfPayload(s)
             \/ AsksOfThreat(s) \/ AsksOfLink(s) \/ AsksOfTemplate(s) \/ AsksForPlan(s)
    BY <2>1, AsksStepPreserves
  <2>2. CASE RollsBack(s)
    BY <2>2, RollsBackPreserves
  <2>3. CASE \/ WritesType(s) \/ WritesDrone(s) \/ WritesVessel(s) \/ WritesPayload(s)
             \/ WritesThreat(s) \/ WritesLink(s) \/ WritesTemplate(s) \/ WritesPlan(s)
    <3>1. Wrote
      BY <2>3, WritesTypeKeeps, WritesDroneKeeps, WritesVesselKeeps, WritesPayloadKeeps,
         WritesThreatKeeps, WritesLinkKeeps, WritesTemplateKeeps, WritesPlanKeeps
    <3>2. asked[s].op # "idle" /\ Commits(s)
      BY <2>3 DEF WritesType, WritesDrone, WritesVessel, WritesPayload, WritesThreat, WritesLink,
                  WritesTemplate, WritesPlan
    <3> QED BY <3>1, <3>2, CommitsPreserves
  <2> QED BY <1>1, <2>1, <2>2, <2>3 DEF FleetStep
<1>2. CASE UNCHANGED fleetvars
  <2>1. RowsKept /\ asked' = asked
    BY <1>2 DEF fleetvars, RowsKept
  <2>2. FleetReferences' /\ TypesKnown' /\ \A q : CheckedBy(q) <=> CheckedBy(q)'
    BY <2>1, RowsKeptPreserves
  <2>3. UnderWay' = UnderWay
    BY <2>1 DEF UnderWay
  <2> QED
    BY <2>1, <2>2, <2>3 DEF FleetIInv, FleetTypeOK, StillChecked, Numbered, ArchivesKnown, RowsKept,
                            fleetrows, NamedBy, Names
<1> QED BY <1>1, <1>2 DEF FleetNext

\* The invariant holds in every state.
LEMMA FleetInvariant == FleetSpec => []FleetIInv
  BY InitFleetIInv, FleetStepPreserves, PTL DEF FleetSpec

\* Every variable of the registry keeps its type.
THEOREM FleetTypeCorrect == FleetSpec => []FleetTypeOK
<1>1. FleetIInv => FleetTypeOK
  BY DEF FleetIInv
<1> QED BY <1>1, FleetInvariant, PTL

\* A link has both its ends, and unless two requests overlapped so has every other
\* reference of the registry but those nobody checks (drone_master/service.py).
THEOREM ReferencesHold == FleetSpec => []FleetReferences
<1>1. FleetIInv => FleetReferences
  BY DEF FleetIInv
<1> QED BY <1>1, FleetInvariant, PTL
=============================================================================
