------------------------------ MODULE Counting ------------------------------
(***************************************************************************)
(* Facts the proofs share: how the size of a set and the sum of a function *)
(* change in a step, induction over the subsets of a finite set, the least *)
(* and greatest elements of small sets, and what is left of a queue when   *)
(* an element is taken out.                                                *)
(***************************************************************************)
EXTENDS Integers, SequencesExt, FiniteSetTheorems, SequenceTheorems, TLAPS

\* Two sets that agree except on one element: their sizes differ as the
\* membership of that element does.
LEMMA CountMove ==
    ASSUME NEW B, IsFiniteSet(B), NEW A, NEW a, A \ {a} = B \ {a}
    PROVE  /\ IsFiniteSet(A)
           /\ Cardinality(B) \in Nat
           /\ Cardinality(A) = Cardinality(B) + (IF a \in B THEN 0 ELSE 1)
                                              - (IF a \in A THEN 0 ELSE 1)
<1>1. Cardinality(B) \in Nat
  BY FS_CardinalityType
<1>2. CASE a \in A <=> a \in B
  <2>1. A = B
    BY <1>2
  <2>2. QED
    BY <2>1, <1>1
<1>3. CASE a \in B /\ a \notin A
  <2>1. A = B \ {a}
    BY <1>3
  <2>2. IsFiniteSet(A) /\ Cardinality(A) = Cardinality(B) - 1
    BY <2>1, <1>3, FS_RemoveElement
  <2>3. QED
    BY <2>2, <1>1, <1>3
<1>4. CASE a \notin B /\ a \in A
  <2>1. A = B \cup {a}
    BY <1>4
  <2>2. IsFiniteSet(A) /\ Cardinality(A) = Cardinality(B) + 1
    BY <2>1, <1>4, FS_AddElement
  <2>3. QED
    BY <2>2, <1>1, <1>4
<1>5. QED
  BY <1>2, <1>3, <1>4

\* Min and Max of two integers.
LEMMA MinMaxPair ==
    ASSUME NEW a \in Int, NEW b \in Int
    PROVE  /\ Min({a, b}) = IF a <= b THEN a ELSE b
           /\ Max({a, b}) = IF a >= b THEN a ELSE b
<1>1. Min({a, b}) \in {a, b} /\ Min({a, b}) <= a /\ Min({a, b}) <= b
  BY DEF Min
<1>2. Max({a, b}) \in {a, b} /\ Max({a, b}) >= a /\ Max({a, b}) >= b
  BY DEF Max
<1>3. QED
  BY <1>1, <1>2

-----------------------------------------------------------------------------
\* Induction over the subsets of a finite set, for a set of subsets: what
\* holds of the empty set, and of T whenever it holds of T without any one
\* of its elements, holds of every subset.
LEMMA SubsetInduction ==
    ASSUME NEW S, IsFiniteSet(S), NEW G, {} \in G,
           \A T \in SUBSET S : T # {} /\ (\A x \in T : T \ {x} \in G) => T \in G
    PROVE  SUBSET S \subseteq G
<1> DEFINE Bad == (SUBSET S) \ G
<1>1. SUFFICES ASSUME Bad # {} PROVE FALSE
  OBVIOUS
<1>2. IsWellFoundedOn(StrictSubsetOrdering(S), SUBSET S)
  BY FS_StrictSubsetOrderingWellFounded, FS_FiniteSubsetsOfFinite
<1>3. PICK T \in Bad : \A U \in Bad : <<U, T>> \notin StrictSubsetOrdering(S)
  <2>1. Bad \subseteq SUBSET S
    OBVIOUS
  <2> HIDE DEF Bad
  <2>2. QED
    BY <1>1, <1>2, <2>1, WFMin
<1>4. ASSUME NEW x \in T PROVE T \ {x} \in G
  <2>1. <<T \ {x}, T>> \in StrictSubsetOrdering(S)
    BY DEF StrictSubsetOrdering
  <2>2. QED
    BY <1>3, <2>1
<1>5. QED
  BY <1>4

-----------------------------------------------------------------------------
(* Sums of a function over a finite set, SumFunctionOnSet of Functions. *)

\* h gives the sum of f over every subset of S.
Sums(h, f, S) ==
    /\ h \in [SUBSET S -> Int]
    /\ h[{}] = 0
    /\ \A T \in SUBSET S : \A x \in T : h[T] = f[x] + h[T \ {x}]

\* Such a function exists.
LEMMA SumsExist ==
    ASSUME NEW S, IsFiniteSet(S), NEW f, \A x \in S : f[x] \in Int
    PROVE  \E h : Sums(h, f, S)
<1> DEFINE G == {T \in SUBSET S : \E h : Sums(h, f, T)}
<1>1. {} \in G
  <2>1. Sums([T \in SUBSET {} |-> 0], f, {})
    BY DEF Sums
  <2>2. QED
    BY <2>1
<1>2. ASSUME NEW T \in SUBSET S, T # {}, \A x \in T : T \ {x} \in G
      PROVE  T \in G
  <2>0. PICK x \in T : T \ {x} \in G
    BY <1>2
  <2>1. PICK h : Sums(h, f, T \ {x})
    BY <2>0
  <2> DEFINE k == [U \in SUBSET T |-> IF x \in U THEN f[x] + h[U \ {x}] ELSE h[U]]
  <2>2. k \in [SUBSET T -> Int]
    <3>1. \A U \in SUBSET T : /\ U \ {x} \in SUBSET (T \ {x})
                              /\ x \notin U => U \in SUBSET (T \ {x})
      OBVIOUS
    <3>2. QED
      BY <2>1, <3>1 DEF Sums
  <2>3. k[{}] = 0
    BY <2>1 DEF Sums
  <2>4. ASSUME NEW U \in SUBSET T, NEW y \in U
        PROVE  k[U] = f[y] + k[U \ {y}]
    <3>1. CASE x = y
      BY <2>4, <3>1
    <3>2. CASE x # y /\ x \notin U
      <4>1. U \in SUBSET (T \ {x}) /\ U \ {y} \in SUBSET T
        BY <3>2
      <4>2. QED
        BY <2>1, <3>2, <4>1 DEF Sums
    <3>3. CASE x # y /\ x \in U
      <4>1. /\ U \ {x} \in SUBSET (T \ {x}) /\ y \in U \ {x}
            /\ U \ {y} \in SUBSET T /\ x \in U \ {y}
            /\ (U \ {x}) \ {y} = (U \ {y}) \ {x}
            /\ (U \ {x}) \ {y} \in SUBSET (T \ {x})
        BY <3>3
      <4>2. h[U \ {x}] = f[y] + h[(U \ {y}) \ {x}]
        <5>1. h[U \ {x}] = f[y] + h[(U \ {x}) \ {y}]
          BY <2>1, <4>1 DEF Sums
        <5>2. QED
          BY <4>1, <5>1
      <4>3. k[U] = f[x] + h[U \ {x}] /\ k[U \ {y}] = f[x] + h[(U \ {y}) \ {x}]
        BY <3>3, <4>1
      <4>4. f[x] \in Int /\ f[y] \in Int /\ h[(U \ {y}) \ {x}] \in Int
        BY <2>1, <4>1 DEF Sums
      <4>5. QED
        BY <4>2, <4>3, <4>4
    <3>4. QED
      BY <3>1, <3>2, <3>3
  <2>5. Sums(k, f, T)
    BY <2>2, <2>3, <2>4 DEF Sums
  <2>6. QED
    BY <2>5
<1>3. SUBSET S \subseteq G
  <2> HIDE DEF G
  <2>1. QED
    BY <1>1, <1>2, SubsetInduction
<1>4. QED
  BY <1>3

\* The function by which the fold computes the sum over S.
Iter(f, S) ==
    CHOOSE g : g = [T \in SUBSET S |->
        IF T = {} THEN 0
        ELSE f[CHOOSE x \in T : TRUE] + g[T \ {CHOOSE x \in T : TRUE}]]

\* It computes that sum, whatever the order in which it takes the elements.
LEMMA SumIs ==
    ASSUME NEW S, IsFiniteSet(S), NEW f, NEW h, Sums(h, f, S)
    PROVE  SumFunctionOnSet(f, S) = h[S]
<1> DEFINE Pick(T) == CHOOSE x \in T : TRUE
           g == Iter(f, S)
<1>1. SumFunctionOnSet(f, S) = g[S]
  BY DEF SumFunctionOnSet, FoldFunctionOnSet, MapThenFoldSet, Iter
<1>2. h = [T \in SUBSET S |-> IF T = {} THEN 0 ELSE f[Pick(T)] + h[T \ {Pick(T)}]]
  <2>1. \A T \in SUBSET S : T # {} => Pick(T) \in T
    OBVIOUS
  <2>2. \A T \in SUBSET S : h[T] = IF T = {} THEN 0 ELSE f[Pick(T)] + h[T \ {Pick(T)}]
    BY <2>1 DEF Sums
  <2>3. QED
    BY <2>2 DEF Sums
<1>3. g = [T \in SUBSET S |-> IF T = {} THEN 0 ELSE f[Pick(T)] + g[T \ {Pick(T)}]]
  BY <1>2 DEF Iter
<1> DEFINE G == {T \in SUBSET S : g[T] = h[T]}
<1>4. {} \in G
  BY <1>3 DEF Sums
<1>5. ASSUME NEW T \in SUBSET S, T # {}, \A x \in T : T \ {x} \in G
      PROVE  T \in G
  <2>1. Pick(T) \in T
    BY <1>5
  <2>2. g[T \ {Pick(T)}] = h[T \ {Pick(T)}]
    BY <2>1, <1>5
  <2>3. g[T] = f[Pick(T)] + g[T \ {Pick(T)}]
    BY <1>3, <1>5
  <2>4. h[T] = f[Pick(T)] + h[T \ {Pick(T)}]
    BY <1>2, <1>5
  <2>5. QED
    BY <2>2, <2>3, <2>4
<1>6. SUBSET S \subseteq G
  <2> HIDE DEF G
  <2>1. QED
    BY <1>4, <1>5, SubsetInduction
<1>7. QED
  BY <1>1, <1>6

\* The sum over a finite set: an integer, 0 for no elements, and any one
\* element can be split off.
LEMMA SumSplit ==
    ASSUME NEW S, IsFiniteSet(S), NEW f, \A x \in S : f[x] \in Int
    PROVE  /\ SumFunctionOnSet(f, S) \in Int
           /\ S = {} => SumFunctionOnSet(f, S) = 0
           /\ \A x \in S : SumFunctionOnSet(f, S) = f[x] + SumFunctionOnSet(f, S \ {x})
<1>1. PICK h : Sums(h, f, S)
  BY SumsExist
<1>2. SumFunctionOnSet(f, S) = h[S]
  BY <1>1, SumIs
<1>3. ASSUME NEW x \in S
      PROVE  SumFunctionOnSet(f, S) = f[x] + SumFunctionOnSet(f, S \ {x})
  <2> DEFINE T == S \ {x}
             k == [U \in SUBSET T |-> h[U]]
  <2>1. IsFiniteSet(T)
    BY FS_Subset
  <2>2. Sums(k, f, T)
    <3>1. \A U \in SUBSET T : U \in SUBSET S
      OBVIOUS
    <3>2. k \in [SUBSET T -> Int] /\ k[{}] = 0
      BY <1>1, <3>1 DEF Sums
    <3>3. ASSUME NEW U \in SUBSET T, NEW y \in U PROVE k[U] = f[y] + k[U \ {y}]
      <4>1. U \in SUBSET S /\ U \ {y} \in SUBSET T
        BY <3>1
      <4>2. h[U] = f[y] + h[U \ {y}]
        BY <1>1, <4>1 DEF Sums
      <4>3. QED
        BY <4>1, <4>2
    <3>4. QED
      BY <3>2, <3>3 DEF Sums
  <2>3. SumFunctionOnSet(f, T) = k[T]
    <3> HIDE DEF k, T
    <3>1. QED
      BY <2>1, <2>2, SumIs
  <2>4. k[T] = h[T]
    OBVIOUS
  <2>5. h[S] = f[x] + h[T]
    BY <1>1 DEF Sums
  <2>6. QED
    BY <1>2, <2>3, <2>4, <2>5
<1>4. SumFunctionOnSet(f, S) \in Int /\ (S = {} => SumFunctionOnSet(f, S) = 0)
  BY <1>1, <1>2 DEF Sums
<1>5. QED
  BY <1>3, <1>4

\* Adding e on the elements of E adds the sum of e over E.
LEMMA SumAdd ==
    ASSUME NEW S, IsFiniteSet(S), NEW E \in SUBSET S, NEW f, NEW e, NEW g,
           \A x \in S : f[x] \in Int /\ e[x] \in Int,
           \A x \in S : g[x] = f[x] + (IF x \in E THEN e[x] ELSE 0)
    PROVE  SumFunctionOnSet(g, S) = SumFunctionOnSet(f, S) + SumFunctionOnSet(e, E)
<1> DEFINE G == {T \in SUBSET S : SumFunctionOnSet(g, T) =
                    SumFunctionOnSet(f, T) + SumFunctionOnSet(e, E \cap T)}
<1>1. \A T \in SUBSET S : IsFiniteSet(T) /\ IsFiniteSet(E \cap T)
  BY FS_Subset
<1>2. \A x \in S : g[x] \in Int
  OBVIOUS
<1>3. {} \in G
  <2>1. /\ SumFunctionOnSet(g, {}) = 0
        /\ SumFunctionOnSet(f, {}) = 0
        /\ SumFunctionOnSet(e, {}) = 0
    BY SumSplit, FS_EmptySet
  <2>2. E \cap {} = {}
    OBVIOUS
  <2>3. QED
    BY <2>1, <2>2
<1>4. ASSUME NEW T \in SUBSET S, T # {}, \A x \in T : T \ {x} \in G
      PROVE  T \in G
  <2>1. PICK x \in T : T \ {x} \in G
    BY <1>4
  <2> DEFINE U == T \ {x}
  <2>2. /\ SumFunctionOnSet(g, T) = g[x] + SumFunctionOnSet(g, U)
        /\ SumFunctionOnSet(f, T) = f[x] + SumFunctionOnSet(f, U)
    BY <1>1, <1>2, SumSplit
  <2>3. SumFunctionOnSet(g, U) = SumFunctionOnSet(f, U) + SumFunctionOnSet(e, E \cap U)
    BY <2>1
  <2>4. SumFunctionOnSet(f, U) \in Int /\ SumFunctionOnSet(e, E \cap U) \in Int
    <3>1. U \in SUBSET S
      OBVIOUS
    <3>2. (\A y \in U : f[y] \in Int) /\ (\A y \in E \cap U : e[y] \in Int)
      OBVIOUS
    <3>3. IsFiniteSet(U) /\ IsFiniteSet(E \cap U)
      BY <1>1, <3>1
    <3>4. QED
      BY <3>2, <3>3, SumSplit
  <2>5. CASE x \in E
    <3>1. x \in E \cap T /\ (E \cap T) \ {x} = E \cap U
      BY <2>5
    <3>2. SumFunctionOnSet(e, E \cap T) = e[x] + SumFunctionOnSet(e, E \cap U)
      <4>1. \A y \in E \cap T : e[y] \in Int
        OBVIOUS
      <4>2. SumFunctionOnSet(e, E \cap T) = e[x] + SumFunctionOnSet(e, (E \cap T) \ {x})
        BY <1>1, <3>1, <4>1, SumSplit
      <4>3. QED
        BY <3>1, <4>2
    <3>3. g[x] = f[x] + e[x] /\ f[x] \in Int /\ e[x] \in Int
      BY <2>5
    <3>4. QED
      BY <2>2, <2>3, <2>4, <3>2, <3>3
  <2>6. CASE x \notin E
    <3>1. E \cap T = E \cap U
      BY <2>6
    <3>2. g[x] = f[x] /\ f[x] \in Int
      BY <2>6
    <3>3. SumFunctionOnSet(g, T) = SumFunctionOnSet(f, T) + SumFunctionOnSet(e, E \cap U)
      BY <2>2, <2>3, <2>4, <3>2
    <3>4. QED
      BY <3>1, <3>3
  <2>7. QED
    BY <2>5, <2>6
<1>5. SUBSET S \subseteq G
  <2> HIDE DEF G
  <2>1. QED
    BY <1>3, <1>4, SubsetInduction
<1>6. E \cap S = E
  OBVIOUS
<1>7. QED
  BY <1>5, <1>6

\* Changing the value of one element changes the sum by the difference.
LEMMA SumChange ==
    ASSUME NEW S, IsFiniteSet(S), NEW f, NEW g, NEW a \in S,
           \A x \in S : f[x] \in Int /\ g[x] \in Int,
           \A x \in S \ {a} : g[x] = f[x]
    PROVE  SumFunctionOnSet(g, S) = SumFunctionOnSet(f, S) + g[a] - f[a]
<1> DEFINE e == [x \in S |-> IF x = a THEN g[a] - f[a] ELSE 0]
<1>1. SumFunctionOnSet(g, S) = SumFunctionOnSet(f, S) + SumFunctionOnSet(e, {a})
  <2>1. /\ {a} \in SUBSET S
        /\ \A x \in S : f[x] \in Int /\ e[x] \in Int
        /\ \A x \in S : g[x] = f[x] + (IF x \in {a} THEN e[x] ELSE 0)
    OBVIOUS
  <2> HIDE DEF e
  <2>2. QED
    BY <2>1, SumAdd
<1>2. SumFunctionOnSet(e, {a}) = e[a] + SumFunctionOnSet(e, {})
  <2>1. IsFiniteSet({a}) /\ {a} \ {a} = {} /\ \A x \in {a} : e[x] \in Int
    BY FS_Singleton
  <2>2. SumFunctionOnSet(e, {a}) = e[a] + SumFunctionOnSet(e, {a} \ {a})
    <3> HIDE DEF e
    <3>1. QED
      BY <2>1, SumSplit
  <2>3. QED
    BY <2>1, <2>2
<1>3. SumFunctionOnSet(e, {}) = 0
  <2> HIDE DEF e
  <2>1. QED
    BY FS_EmptySet, SumSplit
<1>4. SumFunctionOnSet(f, S) \in Int
  BY SumSplit
<1>5. QED
  BY <1>1, <1>2, <1>3, <1>4

\* Among finitely many elements there is one with the greatest value.
LEMMA Greatest ==
    ASSUME NEW S, IsFiniteSet(S), S # {}, NEW f, \A x \in S : f[x] \in Int
    PROVE  \E x \in S : \A y \in S : f[x] >= f[y]
<1> DEFINE G == {T \in SUBSET S : T = {} \/ \E x \in T : \A y \in T : f[x] >= f[y]}
<1>1. {} \in G
  OBVIOUS
<1>2. ASSUME NEW T \in SUBSET S, T # {}, \A x \in T : T \ {x} \in G
      PROVE  T \in G
  <2>1. PICK a \in T : T \ {a} \in G
    BY <1>2
  <2>2. CASE T \ {a} = {}
    <3>1. \A y \in T : f[a] >= f[y]
      BY <2>2
    <3>2. QED
      BY <3>1
  <2>3. CASE T \ {a} # {}
    <3>1. PICK x \in T \ {a} : \A y \in T \ {a} : f[x] >= f[y]
      BY <2>1, <2>3
    <3>2. CASE f[x] >= f[a]
      <4>1. \A y \in T : f[x] >= f[y]
        BY <3>1, <3>2
      <4>2. QED
        BY <4>1
    <3>3. CASE f[a] >= f[x]
      <4>1. \A y \in T : f[a] >= f[y]
        BY <3>1, <3>3
      <4>2. QED
        BY <4>1
    <3>4. QED
      BY <3>2, <3>3
  <2>4. QED
    BY <2>2, <2>3
<1>3. SUBSET S \subseteq G
  <2> HIDE DEF G
  <2>1. QED
    BY <1>1, <1>2, SubsetInduction
<1>4. QED
  BY <1>3

\* A set of natural numbers that is not empty has a least element.
LEMMA MinOfNaturals ==
    ASSUME NEW S \in SUBSET Nat, S # {}
    PROVE  Min(S) \in S /\ \A y \in S : Min(S) <= y
<1>1. PICK n \in S : TRUE
  OBVIOUS
<1> DEFINE F == {k \in S : k <= n}
           f == [k \in F |-> 0 - k]
<1>2. IsFiniteSet(F) /\ F # {} /\ \A k \in F : f[k] \in Int
  <2>1. IsFiniteSet(F)
    <3>1. F \in SUBSET Nat /\ n \in Nat /\ \A k \in F : k <= n
      OBVIOUS
    <3> HIDE DEF F
    <3>2. QED
      BY <3>1, FS_BoundedSetOfNaturals
  <2>2. QED
    BY <2>1, <1>1
<1>3. PICK x \in F : \A y \in F : f[x] >= f[y]
  <2> HIDE DEF F, f
  <2>1. QED
    BY <1>2, Greatest
<1>4. \A y \in S : x <= y
  BY <1>1, <1>3
<1>5. QED
  BY <1>4 DEF Min

-----------------------------------------------------------------------------
(* Queues. *)

\* The queue q of members of E holds those of S, each once.
Once(q, E, S) == q \in Seq(E) /\ IsInjective(q) /\ ToSet(q) = S

\* What RemoveAt leaves of a sequence.
LEMMA RemoveAtIs ==
    ASSUME NEW S, NEW s \in Seq(S), NEW i \in 1..Len(s)
    PROVE  /\ RemoveAt(s, i) \in Seq(S)
           /\ DOMAIN RemoveAt(s, i) = 1..(Len(s) - 1)
           /\ \A j \in 1..(Len(s) - 1) :
                 RemoveAt(s, i)[j] = IF j < i THEN s[j] ELSE s[j + 1]
<1> DEFINE a == SubSeq(s, 1, i - 1)
           b == SubSeq(s, i + 1, Len(s))
<1>1. Len(s) \in Nat /\ \A j \in 1..Len(s) : s[j] \in S
  BY LenProperties, ElementOfSeq
<1>2. /\ a \in Seq(S) /\ Len(a) = i - 1
      /\ \A j \in 1..(i - 1) : a[j] = s[j]
  BY <1>1, SubSeqProperties
<1>3. /\ b \in Seq(S) /\ Len(b) = Len(s) - i
      /\ \A j \in 1..(Len(s) - i) : b[j] = s[i + j]
  BY <1>1, SubSeqProperties
<1> HIDE DEF a, b
<1>4. /\ a \o b \in Seq(S) /\ Len(a \o b) = Len(s) - 1
      /\ \A j \in 1..(Len(s) - 1) : (a \o b)[j] = IF j <= i - 1 THEN a[j] ELSE b[j - (i - 1)]
  <2>1. /\ a \o b \in Seq(S) /\ Len(a \o b) = Len(a) + Len(b)
        /\ \A j \in 1..(Len(a) + Len(b)) :
              (a \o b)[j] = IF j <= Len(a) THEN a[j] ELSE b[j - Len(a)]
    BY <1>2, <1>3, ConcatProperties
  <2>2. Len(a) + Len(b) = Len(s) - 1
    BY <1>1, <1>2, <1>3
  <2>3. QED
    BY <1>2, <2>1, <2>2
<1>5. RemoveAt(s, i) = a \o b
  BY DEF RemoveAt, a, b
<1>6. ASSUME NEW j \in 1..(Len(s) - 1)
      PROVE  (a \o b)[j] = IF j < i THEN s[j] ELSE s[j + 1]
  <2>1. CASE j < i
    <3>1. j \in 1..(i - 1) /\ j <= i - 1
      BY <1>1, <2>1
    <3>2. QED
      BY <1>2, <1>4, <2>1, <3>1
  <2>2. CASE ~(j < i)
    <3>1. j - (i - 1) \in 1..(Len(s) - i) /\ i + (j - (i - 1)) = j + 1 /\ ~(j <= i - 1)
      BY <1>1, <2>2
    <3>2. b[j - (i - 1)] = s[j + 1]
      BY <1>3, <3>1
    <3>3. QED
      BY <1>4, <2>2, <3>1, <3>2
  <2>3. QED
    BY <2>1, <2>2
<1>7. DOMAIN (a \o b) = 1..(Len(s) - 1)
  BY <1>4, LenProperties
<1>8. QED
  BY <1>4, <1>5, <1>6, <1>7

\* Taking n out takes no other element with it.
LEMMA TakenOut ==
    ASSUME NEW q, NEW E, NEW S, Once(q, E, S), NEW n
    PROVE  Once(IF Contains(q, n) THEN RemoveAt(q, CHOOSE i \in 1..Len(q) : q[i] = n) ELSE q,
                E, S \ {n})
<1> DEFINE L == Len(q)
           i == CHOOSE x \in 1..L : q[x] = n
           w == RemoveAt(q, i)
<1>1. q \in Seq(E) /\ L \in Nat /\ DOMAIN q = 1..L
  BY LenProperties DEF Once
<1>2. CASE Contains(q, n)
  <2>1. i \in 1..L /\ q[i] = n
    BY <1>2 DEF Contains
  <2> HIDE DEF i
  <2>2. /\ w \in Seq(E) /\ DOMAIN w = 1..(L - 1)
        /\ \A j \in 1..(L - 1) : w[j] = IF j < i THEN q[j] ELSE q[j + 1]
    BY <1>1, <2>1, RemoveAtIs
  <2> HIDE DEF w
  <2>3. \A x, y \in 1..L : q[x] = q[y] => x = y
    BY <1>1 DEF Once, IsInjective
  <2>4. ASSUME NEW j \in 1..(L - 1)
        PROVE  \E x \in 1..L : w[j] = q[x] /\ x # i /\ x = IF j < i THEN j ELSE j + 1
    BY <1>1, <2>1, <2>2
  <2>5. IsInjective(w)
    <3>1. SUFFICES ASSUME NEW j \in 1..(L - 1), NEW k \in 1..(L - 1), w[j] = w[k] PROVE j = k
      BY <2>2 DEF IsInjective
    <3>2. PICK x \in 1..L : w[j] = q[x] /\ x # i /\ x = IF j < i THEN j ELSE j + 1
      BY <2>4
    <3>3. PICK y \in 1..L : w[k] = q[y] /\ y # i /\ y = IF k < i THEN k ELSE k + 1
      BY <2>4
    <3>4. x = y
      BY <2>3, <3>1, <3>2, <3>3
    <3>5. QED
      BY <1>1, <2>1, <3>2, <3>3, <3>4
  <2>6. ToSet(w) \subseteq S \ {n}
    <3>1. SUFFICES ASSUME NEW j \in 1..(L - 1) PROVE w[j] \in S /\ w[j] # n
      BY <2>2 DEF ToSet
    <3>2. PICK x \in 1..L : w[j] = q[x] /\ x # i
      BY <2>4
    <3>3. q[x] \in S
      BY <1>1 DEF Once, ToSet
    <3>4. QED
      BY <2>1, <2>3, <3>2, <3>3
  <2>7. S \ {n} \subseteq ToSet(w)
    <3>1. SUFFICES ASSUME NEW m \in S, m # n PROVE \E j \in 1..(L - 1) : w[j] = m
      BY <2>2 DEF ToSet
    <3>2. PICK x \in 1..L : q[x] = m
      BY <1>1 DEF Once, ToSet
    <3>3. x # i
      BY <2>1, <3>1, <3>2
    <3>4. CASE x < i
      <4>1. x \in 1..(L - 1) /\ w[x] = q[x]
        BY <1>1, <2>1, <2>2, <3>4
      <4>2. QED
        BY <3>2, <4>1
    <3>5. CASE x > i
      <4>1. x - 1 \in 1..(L - 1) /\ ~(x - 1 < i) /\ (x - 1) + 1 = x
        BY <1>1, <2>1, <3>5
      <4>2. w[x - 1] = q[x]
        BY <2>2, <4>1
      <4>3. QED
        BY <3>2, <4>1, <4>2
    <3>6. QED
      BY <1>1, <2>1, <3>3, <3>4, <3>5
  <2>8. RemoveAt(q, CHOOSE x \in 1..Len(q) : q[x] = n) = w
    BY DEF w, i
  <2>9. QED
    BY <1>2, <2>2, <2>5, <2>6, <2>7, <2>8 DEF Once
<1>3. CASE ~Contains(q, n)
  <2>2. n \notin S
    BY <1>1, <1>3 DEF Contains, Once, ToSet
  <2>3. QED
    BY <1>3, <2>2 DEF Once
<1>4. QED
  BY <1>2, <1>3

\* A new element is put at the head.
LEMMA PutAtHead ==
    ASSUME NEW q, NEW E, NEW S, Once(q, E, S), NEW n \in E, n \notin S
    PROVE  Once(<<n>> \o q, E, S \cup {n})
<1> DEFINE L == Len(q)
           w == <<n>> \o q
<1>1. q \in Seq(E) /\ L \in Nat /\ DOMAIN q = 1..L
  BY LenProperties DEF Once
<1>2. <<n>> \in Seq(E) /\ Len(<<n>>) = 1 /\ <<n>>[1] = n
  OBVIOUS
<1>3. /\ w \in Seq(E) /\ Len(w) = L + 1
      /\ \A j \in 1..(L + 1) : w[j] = IF j <= 1 THEN <<n>>[j] ELSE q[j - 1]
  BY <1>1, <1>2, ConcatProperties
<1>4. /\ DOMAIN w = 1..(L + 1) /\ w[1] = n
      /\ \A j \in 1..L : w[j + 1] = q[j]
      /\ \A j \in 2..(L + 1) : j - 1 \in 1..L /\ w[j] = q[j - 1]
  <2>1. DOMAIN w = 1..(L + 1)
    BY <1>3, LenProperties
  <2>2. w[1] = n
    BY <1>1, <1>2, <1>3
  <2> HIDE DEF w
  <2>3. \A j \in 2..(L + 1) : j - 1 \in 1..L /\ w[j] = q[j - 1]
    BY <1>1, <1>3
  <2>4. ASSUME NEW j \in 1..L PROVE w[j + 1] = q[j]
    <3>1. j + 1 \in 1..(L + 1) /\ ~(j + 1 <= 1) /\ (j + 1) - 1 = j
      BY <1>1
    <3>2. QED
      BY <1>3, <3>1
  <2>5. QED
    BY <2>1, <2>2, <2>3, <2>4
<1> HIDE DEF w
<1>5. \A x, y \in 1..L : q[x] = q[y] => x = y
  BY <1>1 DEF Once, IsInjective
<1>6. \A x \in 1..L : q[x] \in S
  BY <1>1 DEF Once, ToSet
<1>7. IsInjective(w)
  <2>1. SUFFICES ASSUME NEW j \in 1..(L + 1), NEW k \in 1..(L + 1), w[j] = w[k] PROVE j = k
    BY <1>4 DEF IsInjective
  <2>2. CASE j = 1 /\ k # 1
    BY <1>1, <1>4, <1>6, <2>1, <2>2
  <2>3. CASE j # 1 /\ k = 1
    BY <1>1, <1>4, <1>6, <2>1, <2>3
  <2>4. CASE j # 1 /\ k # 1
    <3>1. j \in 2..(L + 1) /\ k \in 2..(L + 1)
      BY <1>1, <2>4
    <3>2. j - 1 = k - 1
      BY <1>4, <1>5, <2>1, <3>1
    <3>3. QED
      BY <3>1, <3>2, <1>1
  <2>5. QED
    BY <2>2, <2>3, <2>4
<1>8. ToSet(w) = S \cup {n}
  <2>1. ASSUME NEW j \in 1..(L + 1) PROVE w[j] \in S \cup {n}
    BY <1>1, <1>4, <1>6
  <2>2. ASSUME NEW m \in S PROVE \E j \in 1..(L + 1) : w[j] = m
    <3>1. PICK x \in 1..L : q[x] = m
      BY <1>1 DEF Once, ToSet
    <3>2. x + 1 \in 1..(L + 1) /\ w[x + 1] = m
      BY <1>1, <1>4, <3>1
    <3>3. QED
      BY <3>2
  <2>3. 1 \in 1..(L + 1) /\ w[1] = n
    BY <1>1, <1>4
  <2>4. ToSet(w) = {w[j] : j \in 1..(L + 1)}
    BY <1>4 DEF ToSet
  <2>5. S \cup {n} \subseteq ToSet(w)
    BY <2>2, <2>3, <2>4
  <2>6. ToSet(w) \subseteq S \cup {n}
    BY <2>1, <2>4
  <2>7. QED
    BY <2>5, <2>6
<1>9. QED
  BY <1>3, <1>7, <1>8 DEF Once, w

=============================================================================
