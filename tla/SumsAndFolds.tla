---------------------------- MODULE SumsAndFolds ----------------------------
(***************************************************************************)
(* Lemmas on what the community modules compute by recursion over data: a  *)
(* sum over a finite set, SumFunctionOnSet, and a pass over a sequence,    *)
(* FoldLeft.                                                               *)
(***************************************************************************)
EXTENDS Integers, SequencesExt, SequenceTheorems, FiniteSetTheorems,
        WellFoundedInduction, TLAPS

-----------------------------------------------------------------------------
(* Induction.  The induction theorems of the library take an operator, which *)
(* the provers cannot instantiate: induction is over a set here.            *)

\* Induction over a set of numbers, in a form the provers can use.
LEMMA NatSetInduction ==
  ASSUME NEW T \in SUBSET Nat, 0 \in T, \A n \in T : n + 1 \in T
  PROVE  T = Nat
<1> DEFINE Less == {p \in Nat \X Nat : p[1] < p[2]}
<1> SUFFICES ASSUME Nat \ T # {}
             PROVE  FALSE
  OBVIOUS
<1>1. IsWellFoundedOn(Less, Nat)
  BY NatLessThanWellFounded DEF OpToRel
<1>2. PICK x \in Nat \ T : \A y \in Nat \ T : ~ (<<y, x>> \in Less)
  <2> HIDE DEF Less
  <2> QED
    BY <1>1, WFMin, Zenon
<1>3. x # 0 /\ x - 1 \in Nat
  OBVIOUS
<1>4. <<x - 1, x>> \in Less
  BY <1>3
<1>5. x - 1 \in T
  BY <1>2, <1>3, <1>4
<1> QED
  BY <1>3, <1>5

-----------------------------------------------------------------------------
(* Sums.  SumFunctionOnSet adds in an order of its own; the order is no matter. *)

\* The element SumFunctionOnSet takes first.
First(s) == CHOOSE x \in s : TRUE

\* The function by which SumFunctionOnSet adds over the sets in D.
IsSum(f, v, D) ==
  f = [s \in D |-> IF s = {} THEN 0 ELSE v[First(s)] + f[s \ {First(s)}]]

UpTo(S, k) == {s \in SUBSET S : Cardinality(s) =< k}

\* A finite set without one of its elements.
LEMMA OneLess ==
  ASSUME NEW S, IsFiniteSet(S), NEW s \in SUBSET S, NEW x \in s
  PROVE  /\ IsFiniteSet(s) /\ IsFiniteSet(s \ {x})
         /\ Cardinality(s) \in Nat /\ Cardinality(s \ {x}) \in Nat
         /\ Cardinality(s \ {x}) + 1 = Cardinality(s)
         /\ s \ {x} \in SUBSET S
<1>1. IsFiniteSet(s)
  BY FS_Subset
<1>2. IsFiniteSet(s \ {x}) /\ Cardinality(s \ {x}) = Cardinality(s) - 1
  BY <1>1, FS_RemoveElement
<1>3. Cardinality(s) \in Nat /\ Cardinality(s \ {x}) \in Nat
  BY <1>1, <1>2, FS_CardinalityType
<1> QED
  BY <1>1, <1>2, <1>3

\* Some element comes first.
LEMMA FirstIsOne == \A s : s # {} => First(s) \in s
BY DEF First

\* The recursive function under a sum exists.
LEMMA SumExists ==
  ASSUME NEW v, NEW S, IsFiniteSet(S)
  PROVE  \E f : IsSum(f, v, SUBSET S)
<1> DEFINE T == {k \in Nat : \E f : IsSum(f, v, UpTo(S, k))}
<1>1. 0 \in T
  <2>1. \A s \in UpTo(S, 0) : s = {}
    <3> SUFFICES ASSUME NEW s \in UpTo(S, 0)
                 PROVE  s = {}
      OBVIOUS
    <3>1. IsFiniteSet(s) /\ Cardinality(s) =< 0
      BY FS_Subset DEF UpTo
    <3> QED
      BY <3>1, FS_CardinalityType, FS_EmptySet
  <2>2. IsSum([s \in UpTo(S, 0) |-> 0], v, UpTo(S, 0))
    BY <2>1 DEF IsSum
  <2> QED
    BY <2>2
<1>2. ASSUME NEW k \in T
      PROVE  k + 1 \in T
  <2>1. PICK f : IsSum(f, v, UpTo(S, k))
    OBVIOUS
  <2> DEFINE G(h, s) == IF s = {} THEN 0 ELSE v[First(s)] + h[s \ {First(s)}]
             g == [s \in UpTo(S, k + 1) |-> G(f, s)]
  <2>2. \A s \in UpTo(S, k) : s \in UpTo(S, k + 1) /\ f[s] = G(f, s)
    <3>1. \A s \in UpTo(S, k) : s \in UpTo(S, k + 1)
      <4> SUFFICES ASSUME NEW s \in UpTo(S, k)
                   PROVE  s \in UpTo(S, k + 1)
        OBVIOUS
      <4>1. Cardinality(s) \in Nat
        BY FS_Subset, FS_CardinalityType DEF UpTo
      <4> QED
        BY <4>1 DEF UpTo
    <3>2. \A s \in UpTo(S, k) : f[s] = G(f, s)
      BY <2>1 DEF IsSum
    <3> QED
      BY <3>1, <3>2
  <2>3. \A s \in UpTo(S, k) : g[s] = f[s]
    <3> HIDE DEF G
    <3> QED
      BY <2>2
  <2>4. ASSUME NEW s \in UpTo(S, k + 1)
        PROVE  g[s] = G(g, s)
    <3>1. CASE s = {}
      BY <3>1
    <3>2. CASE s # {}
      <4>1. s \ {First(s)} \in UpTo(S, k)
        <5>1. s \in SUBSET S /\ First(s) \in s /\ Cardinality(s) =< k + 1
          BY <3>2, FirstIsOne DEF UpTo
        <5>2. /\ Cardinality(s) \in Nat /\ Cardinality(s \ {First(s)}) \in Nat
              /\ Cardinality(s \ {First(s)}) + 1 = Cardinality(s)
              /\ s \ {First(s)} \in SUBSET S
          BY <5>1, OneLess
        <5>3. Cardinality(s \ {First(s)}) =< k
          BY <5>1, <5>2
        <5> QED
          BY <5>2, <5>3 DEF UpTo
      <4>2. g[s \ {First(s)}] = f[s \ {First(s)}]
        BY <2>3, <4>1
      <4>3. g[s] = G(f, s)
        OBVIOUS
      <4> HIDE DEF g
      <4> QED
        BY <3>2, <4>2, <4>3
    <3> QED
      BY <3>1, <3>2
  <2>5. g = [s \in UpTo(S, k + 1) |-> G(g, s)]
    <3> HIDE DEF G
    <3>1. g = [s \in UpTo(S, k + 1) |-> g[s]]
      OBVIOUS
    <3> HIDE DEF g
    <3> QED
      BY <2>4, <3>1
  <2>6. IsSum(g, v, UpTo(S, k + 1))
    <3> HIDE DEF g
    <3> QED
      BY <2>5 DEF IsSum
  <2> QED
    BY <2>6
<1> HIDE DEF T
<1>3. T = Nat
  <2>1. T \in SUBSET Nat
    BY DEF T
  <2> QED
    BY <1>1, <1>2, <2>1, NatSetInduction
<1>4. Cardinality(S) \in T
  BY <1>3, FS_CardinalityType
<1>5. UpTo(S, Cardinality(S)) = SUBSET S
  BY FS_Subset DEF UpTo
<1> QED
  BY <1>4, <1>5 DEF T

\* Whichever element is taken first, the sum is the same.
Additive(f, v, S) ==
  /\ f[{}] = 0
  /\ \A s \in SUBSET S : f[s] \in Int
  /\ \A s \in SUBSET S : \A x \in s : f[s] = v[x] + f[s \ {x}]

\* It may be unfolded at any element, not only at the first.
LEMMA SumStep ==
  ASSUME NEW D, NEW v \in [D -> Int], NEW S \in SUBSET D, IsFiniteSet(S),
         NEW f, IsSum(f, v, SUBSET S)
  PROVE  Additive(f, v, S)
<1> DEFINE Adds(s) == f[s] \in Int /\ \A x \in s : f[s] = v[x] + f[s \ {x}]
           T == {k \in Nat : \A s \in UpTo(S, k) : Adds(s)}
<1>1. f[{}] = 0
  BY DEF IsSum
<1>2. 0 \in T
  <2>1. \A s \in UpTo(S, 0) : s = {}
    <3> SUFFICES ASSUME NEW s \in UpTo(S, 0)
                 PROVE  s = {}
      OBVIOUS
    <3>1. IsFiniteSet(s) /\ Cardinality(s) =< 0
      BY FS_Subset DEF UpTo
    <3> QED
      BY <3>1, FS_CardinalityType, FS_EmptySet
  <2>2. Adds({})
    BY <1>1
  <2> HIDE DEF Adds
  <2> QED
    BY <2>1, <2>2
<1>3. ASSUME NEW k \in T
      PROVE  k + 1 \in T
  <2>1. ASSUME NEW s \in UpTo(S, k + 1)
        PROVE  Adds(s)
    <3>1. CASE s = {}
      BY <1>1, <3>1
    <3>2. CASE s # {}
      <4> DEFINE p == First(s)
      <4>1. s \in SUBSET S /\ Cardinality(s) =< k + 1 /\ p \in s
        BY <3>2, FirstIsOne DEF UpTo
      <4>2. f[s] = v[p] + f[s \ {p}]
        BY <3>2, <4>1 DEF IsSum
      <4> HIDE DEF p
      <4>3. \A x \in s : s \ {x} \in UpTo(S, k)
        <5> SUFFICES ASSUME NEW x \in s
                     PROVE  s \ {x} \in UpTo(S, k)
          OBVIOUS
        <5>1. /\ Cardinality(s) \in Nat /\ Cardinality(s \ {x}) \in Nat
              /\ Cardinality(s \ {x}) + 1 = Cardinality(s)
              /\ s \ {x} \in SUBSET S
          BY <4>1, OneLess
        <5>2. Cardinality(s \ {x}) =< k
          BY <4>1, <5>1
        <5> QED
          BY <5>1, <5>2 DEF UpTo
      <4>4. \A x \in s : v[x] \in Int /\ f[s \ {x}] \in Int
        <5>1. \A t \in UpTo(S, k) : f[t] \in Int
          OBVIOUS
        <5> QED
          BY <4>1, <4>3, <5>1
      <4>5. ASSUME NEW x \in s, x # p
            PROVE  f[s] = v[x] + f[s \ {x}]
        <5>1. f[s \ {p}] = v[x] + f[(s \ {p}) \ {x}]
          BY <4>1, <4>3, <4>5
        <5>2. f[s \ {x}] = v[p] + f[(s \ {x}) \ {p}]
          BY <4>1, <4>3, <4>5
        <5>3. (s \ {p}) \ {x} = (s \ {x}) \ {p}
          OBVIOUS
        <5> DEFINE rest == f[(s \ {x}) \ {p}]
        <5>4. rest \in Int
          <6> DEFINE r == s \ {x}
          <6>1. r \in UpTo(S, k) /\ p \in r
            BY <4>1, <4>3, <4>5
          <6> HIDE DEF r
          <6>2. r \in SUBSET S /\ Cardinality(r) =< k
            BY <6>1 DEF UpTo
          <6>3. /\ Cardinality(r) \in Nat /\ Cardinality(r \ {p}) \in Nat
                /\ Cardinality(r \ {p}) + 1 = Cardinality(r)
                /\ r \ {p} \in SUBSET S
            BY <6>1, <6>2, OneLess
          <6>4. Cardinality(r \ {p}) =< k
            BY <6>2, <6>3
          <6>5. r \ {p} \in UpTo(S, k)
            BY <6>3, <6>4 DEF UpTo
          <6>6. f[r \ {p}] \in Int
            BY <6>5
          <6> QED
            BY <6>6 DEF r
        <5>5. f[s \ {p}] = v[x] + rest /\ f[s \ {x}] = v[p] + rest
          BY <5>1, <5>2, <5>3
        <5> HIDE DEF rest
        <5>6. v[x] \in Int /\ v[p] \in Int
          BY <4>1, <4>4
        <5> QED
          BY <4>2, <5>4, <5>5, <5>6
      <4>6. f[s] \in Int
        BY <4>1, <4>2, <4>4
      <4> QED
        BY <4>2, <4>5, <4>6
    <3> QED
      BY <3>1, <3>2
  <2> HIDE DEF Adds
  <2> QED
    BY <2>1
<1> HIDE DEF T
<1>4. T = Nat
  <2>1. T \in SUBSET Nat
    BY DEF T
  <2> QED
    BY <1>2, <1>3, <2>1, NatSetInduction
<1>5. ASSUME NEW s \in SUBSET S
      PROVE  Adds(s)
  <2>1. Cardinality(s) \in Nat
    BY FS_Subset, FS_CardinalityType
  <2>2. s \in UpTo(S, Cardinality(s))
    BY <2>1 DEF UpTo
  <2> HIDE DEF Adds
  <2> QED
    BY <1>4, <2>1, <2>2 DEF T
<1> QED
  BY <1>1, <1>5 DEF Additive

\* Sums over a set and over a larger one agree on what they have in common.
LEMMA SumsAgree ==
  ASSUME NEW D, NEW v \in [D -> Int], NEW R \in SUBSET D, IsFiniteSet(R), NEW S \in SUBSET R,
         NEW f, IsSum(f, v, SUBSET R), NEW g, IsSum(g, v, SUBSET S)
  PROVE  g[S] = f[S]
<1>1. IsFiniteSet(S)
  BY FS_Subset
<1> DEFINE T == {k \in Nat : \A s \in UpTo(S, k) : g[s] = f[s]}
<1>2. g[{}] = 0 /\ f[{}] = 0
  BY DEF IsSum
<1>3. 0 \in T
  <2> SUFFICES ASSUME NEW s \in UpTo(S, 0)
               PROVE  g[s] = f[s]
    OBVIOUS
  <2>1. IsFiniteSet(s) /\ Cardinality(s) =< 0
    BY <1>1, FS_Subset DEF UpTo
  <2>2. s = {}
    BY <2>1, FS_CardinalityType, FS_EmptySet
  <2> QED
    BY <1>2, <2>2
<1>4. ASSUME NEW k \in T
      PROVE  k + 1 \in T
  <2>1. ASSUME NEW s \in UpTo(S, k + 1), s # {}
        PROVE  g[s] = f[s]
    <3> DEFINE p == First(s)
    <3>1. s \in SUBSET S /\ s \in SUBSET R /\ Cardinality(s) =< k + 1 /\ p \in s
      BY <2>1, FirstIsOne DEF UpTo
    <3>2. f[s] = v[p] + f[s \ {p}] /\ g[s] = v[p] + g[s \ {p}]
      BY <2>1, <3>1 DEF IsSum
    <3> HIDE DEF p
    <3>3. /\ Cardinality(s) \in Nat /\ Cardinality(s \ {p}) \in Nat
          /\ Cardinality(s \ {p}) + 1 = Cardinality(s)
          /\ s \ {p} \in SUBSET S
      BY <1>1, <3>1, OneLess
    <3>4. Cardinality(s \ {p}) =< k
      BY <3>1, <3>3
    <3>5. s \ {p} \in UpTo(S, k)
      BY <3>3, <3>4 DEF UpTo
    <3>6. g[s \ {p}] = f[s \ {p}]
      BY <3>5
    <3> QED
      BY <3>2, <3>6
  <2>2. \A s \in UpTo(S, k + 1) : g[s] = f[s]
    <3> SUFFICES ASSUME NEW s \in UpTo(S, k + 1)
                 PROVE  g[s] = f[s]
      OBVIOUS
    <3>1. CASE s = {}
      BY <1>2, <3>1
    <3> QED
      BY <2>1, <3>1
  <2> QED
    BY <2>2
<1> HIDE DEF T
<1>5. T = Nat
  <2>1. T \in SUBSET Nat
    BY DEF T
  <2> QED
    BY <1>3, <1>4, <2>1, NatSetInduction
<1>6. Cardinality(S) \in Nat
  BY <1>1, FS_CardinalityType
<1>7. S \in UpTo(S, Cardinality(S))
  BY <1>6 DEF UpTo
<1> QED
  BY <1>5, <1>6, <1>7 DEF T

\* What SumFunctionOnSet returns, element by element.
LEMMA SumOfElements ==
  ASSUME NEW D, NEW v \in [D -> Int], NEW S \in SUBSET D, IsFiniteSet(S)
  PROVE  /\ SumFunctionOnSet(v, S) \in Int
         /\ S = {} => SumFunctionOnSet(v, S) = 0
         /\ \A x \in S : SumFunctionOnSet(v, S) = v[x] + SumFunctionOnSet(v, S \ {x})
<1> DEFINE iter(s) == CHOOSE f : IsSum(f, v, SUBSET s)
<1>1. \A s : IsFiniteSet(s) => IsSum(iter(s), v, SUBSET s)
  BY SumExists
<1>2. ASSUME NEW s
      PROVE  SumFunctionOnSet(v, s) = iter(s)[s]
  BY DEF SumFunctionOnSet, FoldFunctionOnSet, MapThenFoldSet, IsSum, First
<1> HIDE DEF iter
<1>3. SumFunctionOnSet(v, S) = iter(S)[S] /\ IsSum(iter(S), v, SUBSET S)
  BY <1>1, <1>2
<1>4. PICK f : SumFunctionOnSet(v, S) = f[S] /\ IsSum(f, v, SUBSET S)
  BY <1>3
<1>5. Additive(f, v, S)
  BY <1>4, SumStep
<1>6. ASSUME NEW x \in S
      PROVE  SumFunctionOnSet(v, S) = v[x] + SumFunctionOnSet(v, S \ {x})
  <2> DEFINE R == S \ {x}
  <2>1. IsFiniteSet(R) /\ R \in SUBSET S
    BY OneLess
  <2>2. f[S] = v[x] + f[R]
    BY <1>5 DEF Additive
  <2> HIDE DEF R
  <2>3. PICK g : SumFunctionOnSet(v, R) = g[R] /\ IsSum(g, v, SUBSET R)
    BY <1>1, <1>2, <2>1
  <2>4. g[R] = f[R]
    <3>1. IsSum(f, v, SUBSET S)
      BY <1>4
    <3>2. IsSum(g, v, SUBSET R)
      BY <2>3
    <3>3. R \in SUBSET S
      BY <2>1
    <3> QED
      BY <3>1, <3>2, <3>3, SumsAgree
  <2>5. SumFunctionOnSet(v, S) = v[x] + SumFunctionOnSet(v, R)
    BY <1>4, <2>2, <2>3, <2>4
  <2> QED
    BY <2>5 DEF R
<1>7. SumFunctionOnSet(v, S) \in Int /\ (S = {} => SumFunctionOnSet(v, S) = 0)
  BY <1>4, <1>5 DEF Additive
<1> QED
  BY <1>6, <1>7

\* The same, for one element at a time and for none.
Summable(v, S) == \E D : v \in [D -> Int] /\ S \in SUBSET D /\ IsFiniteSet(S)

\* One element and the rest.
LEMMA SumAddsOne ==
  ASSUME NEW v, NEW S, Summable(v, S), NEW x \in S
  PROVE  SumFunctionOnSet(v, S) = v[x] + SumFunctionOnSet(v, S \ {x})
<1>1. PICK D : v \in [D -> Int] /\ S \in SUBSET D /\ IsFiniteSet(S)
  BY DEF Summable
<1> QED
  BY <1>1, SumOfElements

\* Nothing adds up to 0.
LEMMA SumOfNone ==
  ASSUME NEW D, NEW v \in [D -> Int]
  PROVE  SumFunctionOnSet(v, {}) = 0
<1>1. {} \in SUBSET D /\ IsFiniteSet({})
  BY FS_EmptySet
<1> QED
  BY <1>1, SumOfElements

\* A sum of integers is an integer.
LEMMA SumType ==
  ASSUME NEW v, NEW S, Summable(v, S)
  PROVE  SumFunctionOnSet(v, S) \in Int
<1>1. PICK D : v \in [D -> Int] /\ S \in SUBSET D /\ IsFiniteSet(S)
  BY DEF Summable
<1> QED
  BY <1>1, SumOfElements

\* Only the values at what is summed matter.
LEMMA SumOfSame ==
  ASSUME NEW D, NEW v \in [D -> Int], NEW S \in SUBSET D, IsFiniteSet(S),
         NEW w \in [S -> Int], \A x \in S : w[x] = v[x]
  PROVE  SumFunctionOnSet(w, S) = SumFunctionOnSet(v, S)
<1>1. PICK f : IsSum(f, v, SUBSET S) /\ SumFunctionOnSet(v, S) = f[S]
  <2> DEFINE h == CHOOSE s : IsSum(s, v, SUBSET S)
  <2>1. SumFunctionOnSet(v, S) = h[S]
    BY DEF SumFunctionOnSet, FoldFunctionOnSet, MapThenFoldSet, IsSum, First
  <2>2. IsSum(h, v, SUBSET S)
    BY SumExists
  <2> QED
    BY <2>1, <2>2
<1>2. PICK g : IsSum(g, w, SUBSET S) /\ SumFunctionOnSet(w, S) = g[S]
  <2> DEFINE h == CHOOSE s : IsSum(s, w, SUBSET S)
  <2>1. SumFunctionOnSet(w, S) = h[S]
    BY DEF SumFunctionOnSet, FoldFunctionOnSet, MapThenFoldSet, IsSum, First
  <2>2. IsSum(h, w, SUBSET S)
    BY SumExists
  <2> QED
    BY <2>1, <2>2
<1>3. \A s \in SUBSET S : s # {} => w[First(s)] = v[First(s)]
  BY FirstIsOne
<1>4. IsSum(g, v, SUBSET S)
  <2>1. g = [s \in SUBSET S |-> IF s = {} THEN 0
                               ELSE w[First(s)] + g[s \ {First(s)}]]
    BY <1>2 DEF IsSum
  <2>2. g = [s \in SUBSET S |-> IF s = {} THEN 0
                               ELSE v[First(s)] + g[s \ {First(s)}]]
    BY <1>3, <2>1
  <2> QED
    BY <2>2 DEF IsSum
<1>5. g[S] = f[S]
  <2>1. IsSum(f, v, SUBSET S)
    BY <1>1
  <2>2. ASSUME NEW R \in SUBSET S, IsSum(g, v, SUBSET R)
        PROVE  g[R] = f[R]
    <3>1. IsSum(g, v, SUBSET R)
      BY <2>2
    <3> QED
      BY ONLY v \in [D -> Int], S \in SUBSET D, IsFiniteSet(S), R \in SUBSET S,
              <2>1, <3>1, SumsAgree, Zenon
  <2>3. S \in SUBSET S
    OBVIOUS
  <2> QED
    BY <1>4, <2>2, <2>3
<1> QED
  BY <1>1, <1>2, <1>5

\* A sum over positions is the sum over the positions a permutation takes them to.
ImageOf(p, S) == {p[x] : x \in S}

\* The sum over a set of positions, permuted.
LEMMA SumOfImage ==
  ASSUME NEW D, NEW v \in [D -> Int], NEW p \in [D -> D],
         \A x, y \in D : p[x] = p[y] => x = y,
         NEW S \in SUBSET D, IsFiniteSet(S)
  PROVE  SumFunctionOnSet([x \in D |-> v[p[x]]], S) = SumFunctionOnSet(v, ImageOf(p, S))
<1> DEFINE w == [x \in D |-> v[p[x]]]
           Same(s) == SumFunctionOnSet(w, s) = SumFunctionOnSet(v, ImageOf(p, s))
           T == {k \in Nat : \A s \in SUBSET S : Cardinality(s) = k => Same(s)}
<1>1. w \in [D -> Int] /\ \A x \in D : w[x] = v[p[x]]
  OBVIOUS
<1> HIDE DEF w
<1>2. \A s \in SUBSET S : IsFiniteSet(s) /\ IsFiniteSet(ImageOf(p, s))
  <2> SUFFICES ASSUME NEW s \in SUBSET S
               PROVE  IsFiniteSet(s) /\ IsFiniteSet(ImageOf(p, s))
    OBVIOUS
  <2>1. IsFiniteSet(s)
    BY FS_Subset
  <2>2. IsFiniteSet({p[x] : x \in s})
    <3> DEFINE q == [x \in s |-> p[x]]
    <3>1. q \in Surjection(s, {p[x] : x \in s})
      BY DEF Surjection
    <3> QED
      BY <2>1, <3>1, FS_Surjection
  <2> QED
    BY <2>1, <2>2 DEF ImageOf
<1>3. ASSUME NEW s \in SUBSET S
      PROVE  Summable(w, s) /\ Summable(v, ImageOf(p, s))
  <2>1. ImageOf(p, s) \in SUBSET D /\ s \in SUBSET D
    BY DEF ImageOf
  <2> QED
    BY <1>1, <1>2, <2>1 DEF Summable
<1>4. 0 \in T
  <2> SUFFICES ASSUME NEW s \in SUBSET S, Cardinality(s) = 0
               PROVE  Same(s)
    OBVIOUS
  <2>1. s = {}
    BY <1>2, FS_EmptySet
  <2>2. ImageOf(p, s) = {}
    BY <2>1 DEF ImageOf
  <2> QED
    BY <1>1, <2>1, <2>2, SumOfNone
<1>5. ASSUME NEW k \in T
      PROVE  k + 1 \in T
  <2> SUFFICES ASSUME NEW s \in SUBSET S, Cardinality(s) = k + 1
               PROVE  Same(s)
    OBVIOUS
  <2>1. PICK x : x \in s
    <3>1. k \in Nat /\ k + 1 # 0
      OBVIOUS
    <3> QED
      BY <3>1, FS_EmptySet
  <2> DEFINE r == s \ {x}
  <2>2. r \in SUBSET S /\ Cardinality(r) = k
    <3>1. /\ Cardinality(s \ {x}) + 1 = Cardinality(s) /\ s \ {x} \in SUBSET S
          /\ Cardinality(s \ {x}) \in Nat
      BY <2>1, OneLess
    <3> QED
      BY <3>1
  <2>3. p[x] \in ImageOf(p, s) /\ ImageOf(p, s) \ {p[x]} = ImageOf(p, r)
    BY <2>1 DEF ImageOf
  <2>4. SumFunctionOnSet(w, s) = w[x] + SumFunctionOnSet(w, r)
    BY <1>3, <2>1, SumAddsOne
  <2> HIDE DEF r
  <2>5. SumFunctionOnSet(v, ImageOf(p, s)) = v[p[x]] + SumFunctionOnSet(v, ImageOf(p, r))
    BY <1>3, <2>3, SumAddsOne
  <2>6. w[x] = v[p[x]]
    BY <1>1, <2>1
  <2>7. Same(r)
    BY <2>2
  <2> QED
    BY <2>4, <2>5, <2>6, <2>7
<1> HIDE DEF T
<1>6. T = Nat
  <2>1. T \in SUBSET Nat
    BY DEF T
  <2> QED
    BY <1>4, <1>5, <2>1, NatSetInduction
<1>7. Cardinality(S) \in Nat
  BY FS_CardinalityType
<1> QED
  BY <1>6, <1>7 DEF T, w

-----------------------------------------------------------------------------
(* Folds.  FoldLeft recurs over the sets of positions, by their maximum.   *)

\* The last of the first n + 1 positions.
LEMMA MaxOfLast ==
  ASSUME NEW n \in Nat, NEW s \in SUBSET (1..n + 1), n + 1 \in s
  PROVE  Max(s) = n + 1 /\ s \ {n + 1} \in SUBSET (1..n)
<1>1. \A y \in s : y \in 1..n + 1
  OBVIOUS
<1>2. \A y \in s : n + 1 >= y
  BY <1>1
<1>3. \A x \in s : (\A y \in s : x >= y) => x = n + 1
  BY <1>1
<1>4. Max(s) = n + 1
  BY <1>2, <1>3 DEF Max
<1>5. \A y \in s \ {n + 1} : y \in 1..n
  BY <1>1
<1> QED
  BY <1>4, <1>5

\* A set of the first n positions has a last.
LEMMA LastPosition ==
  ASSUME NEW n \in Nat, NEW s \in SUBSET (1..n), s # {}
  PROVE  Max(s) \in s
<1> DEFINE T == {k \in Nat : \A r \in SUBSET (1..k) : r # {} => Max(r) \in r}
<1>1. 0 \in T
  <2>1. SUBSET (1..0) = {{}}
    OBVIOUS
  <2> QED
    BY <2>1
<1>2. ASSUME NEW k \in T
      PROVE  k + 1 \in T
  <2> SUFFICES ASSUME NEW r \in SUBSET (1..k + 1), r # {}
               PROVE  Max(r) \in r
    OBVIOUS
  <2>1. CASE k + 1 \in r
    BY <2>1, MaxOfLast
  <2>2. CASE k + 1 \notin r
    <3>1. \A y \in r : y \in 1..k + 1 /\ y # k + 1
      BY <2>2
    <3>2. \A y \in r : y \in 1..k
      BY <3>1
    <3> QED
      BY <3>2
  <2> QED
    BY <2>1, <2>2
<1> HIDE DEF T
<1>3. T = Nat
  <2>1. T \in SUBSET Nat
    BY DEF T
  <2> QED
    BY <1>1, <1>2, <2>1, NatSetInduction
<1> QED
  BY <1>3 DEF T

\* The function by which a fold with F goes through the first n elements of seq.
IsFold(f, F, base, seq, n) ==
  f = [s \in SUBSET (1..n) |->
         IF s = {} THEN base ELSE F[f[s \ {Max(s)}], seq[Max(s)]]]

HasFold(A, F, base, seq, n) ==
  \E f \in [SUBSET (1..n) -> A] : IsFold(f, F, base, seq, n)

\* It exists, where F takes what it has gathered and an element to more of it.
LEMMA FoldExists ==
  ASSUME NEW A, NEW E, NEW F \in [A \X E -> A], NEW base \in A, NEW seq \in Seq(E)
  PROVE  HasFold(A, F, base, seq, Len(seq))
<1>1. Len(seq) \in Nat /\ \A k \in 1..Len(seq) : seq[k] \in E
  OBVIOUS
<1> DEFINE T == {k \in Nat : k =< Len(seq) => HasFold(A, F, base, seq, k)}
<1>2. 0 \in T
  <2>1. SUBSET (1..0) = {{}}
    OBVIOUS
  <2>2. IsFold([s \in SUBSET (1..0) |-> base], F, base, seq, 0)
    BY <2>1 DEF IsFold
  <2> QED
    BY <2>2 DEF HasFold
<1>3. ASSUME NEW k \in T
      PROVE  k + 1 \in T
  <2> SUFFICES ASSUME k + 1 =< Len(seq)
               PROVE  HasFold(A, F, base, seq, k + 1)
    OBVIOUS
  <2>1. PICK f \in [SUBSET (1..k) -> A] : IsFold(f, F, base, seq, k)
    <3>1. k \in Nat /\ k =< Len(seq)
      BY <1>1
    <3> QED
      BY <3>1 DEF HasFold
  <2>2. seq[k + 1] \in E
    BY <1>1
  <2> DEFINE new(s) == IF k + 1 \in s THEN F[f[s \ {k + 1}], seq[k + 1]] ELSE f[s]
             g == [s \in SUBSET (1..k + 1) |-> new(s)]
             G(s) == IF s = {} THEN base ELSE F[g[s \ {Max(s)}], seq[Max(s)]]
  <2>3. \A s \in SUBSET (1..k) : s \in SUBSET (1..k + 1) /\ g[s] = f[s]
    <3>1. k \in Nat /\ k + 1 \notin 1..k /\ 1..k \subseteq 1..k + 1
      OBVIOUS
    <3>2. \A s \in SUBSET (1..k) : s \in SUBSET (1..k + 1) /\ k + 1 \notin s
      BY <3>1
    <3> QED
      BY <3>2
  <2>4. ASSUME NEW s \in SUBSET (1..k + 1)
        PROVE  g[s] = G(s) /\ new(s) \in A
    <3>1. CASE k + 1 \in s
      <4>1. Max(s) = k + 1 /\ s \ {k + 1} \in SUBSET (1..k)
        BY <3>1, MaxOfLast
      <4>2. g[s \ {k + 1}] = f[s \ {k + 1}]
        BY <2>3, <4>1
      <4>3. g[s] = F[f[s \ {k + 1}], seq[k + 1]] /\ new(s) = F[f[s \ {k + 1}], seq[k + 1]]
        BY <3>1
      <4>4. F[f[s \ {k + 1}], seq[k + 1]] \in A
        BY <2>1, <2>2, <4>1
      <4> HIDE DEF g, new
      <4> QED
        BY <3>1, <4>1, <4>2, <4>3, <4>4
    <3>2. CASE k + 1 \notin s
      <4>1. s \in SUBSET (1..k) /\ s \ {Max(s)} \in SUBSET (1..k)
        <5>1. \A y \in s : y \in 1..k + 1 /\ y # k + 1
          BY <3>2
        <5>2. \A y \in s : y \in 1..k
          BY <5>1
        <5> QED
          BY <5>2
      <4>2. g[s] = f[s] /\ g[s \ {Max(s)}] = f[s \ {Max(s)}] /\ new(s) = f[s]
        BY <2>3, <3>2, <4>1
      <4>3. f[s] = IF s = {} THEN base ELSE F[f[s \ {Max(s)}], seq[Max(s)]]
        BY <2>1, <4>1 DEF IsFold
      <4>4. f[s] \in A
        BY <2>1, <4>1
      <4> HIDE DEF g, new
      <4> QED
        BY <4>2, <4>3, <4>4
    <3> QED
      BY <3>1, <3>2
  <2>5. g \in [SUBSET (1..k + 1) -> A]
    <3> HIDE DEF new
    <3> QED
      BY <2>4
  <2>6. g = [s \in SUBSET (1..k + 1) |-> G(s)]
    <3> HIDE DEF G, new
    <3> QED
      BY <2>4
  <2>7. IsFold(g, F, base, seq, k + 1)
    <3> HIDE DEF g
    <3> QED
      BY <2>6 DEF IsFold
  <2> HIDE DEF g
  <2> QED
    BY <2>5, <2>7 DEF HasFold
<1> HIDE DEF T
<1>4. T = Nat
  <2>1. T \in SUBSET Nat
    BY DEF T
  <2> QED
    BY <1>2, <1>3, <2>1, NatSetInduction
<1> QED
  BY <1>1, <1>4 DEF T

\* The first positions of a sequence, one after another.
LEMMA FirstPositions ==
  ASSUME NEW n \in Nat, NEW k \in 0..n - 1
  PROVE  /\ 1..k \in SUBSET (1..n) /\ 1..k + 1 \in SUBSET (1..n) /\ 1..k + 1 # {}
         /\ Max(1..k + 1) = k + 1 /\ (1..k + 1) \ {k + 1} = 1..k
         /\ k \in 0..n /\ k + 1 \in 0..n /\ k + 1 \in 1..n
<1>1. k \in Nat /\ k + 1 \in 1..n /\ k \in 0..n /\ k + 1 \in 0..n
  OBVIOUS
<1>2. k + 1 \in 1..k + 1
  BY <1>1
<1>3. Max(1..k + 1) = k + 1
  BY <1>1, <1>2, MaxOfLast
<1>4. \A i : i \in (1..k + 1) \ {k + 1} <=> i \in 1..k
  BY <1>1
<1>5. \A i \in 1..k + 1 : i \in 1..n
  BY <1>1
<1> QED
  BY <1>1, <1>2, <1>3, <1>4, <1>5

\* What holds at 0 and is passed on from each position to the next holds up to n.
LEMMA UpToInduction ==
  ASSUME NEW n \in Nat, NEW T \in SUBSET (0..n), 0 \in T,
         \A k \in 0..n - 1 : k \in T => k + 1 \in T
  PROVE  T = 0..n
<1> DEFINE R == {k \in Nat : k =< n => k \in T}
<1>1. 0 \in R
  OBVIOUS
<1>2. ASSUME NEW k \in R
      PROVE  k + 1 \in R
  OBVIOUS
<1> HIDE DEF R
<1>3. R = Nat
  <2>1. R \in SUBSET Nat
    BY DEF R
  <2> QED
    BY <1>1, <1>2, <2>1, NatSetInduction
<1>4. \A k \in 0..n : k \in R /\ k =< n
  BY <1>3
<1>5. \A k \in 0..n : k \in T
  BY <1>4 DEF R
<1> QED
  BY <1>5

\* A set of the first n positions has a first.
LEMMA FirstPosition ==
  ASSUME NEW n \in Nat, NEW s \in SUBSET (1..n), s # {}
  PROVE  Min(s) \in s /\ \A k \in s : Min(s) =< k
<1> DEFINE Less == {p \in Nat \X Nat : p[1] < p[2]}
<1>1. IsWellFoundedOn(Less, Nat)
  BY NatLessThanWellFounded DEF OpToRel
<1>2. PICK x \in s : \A y \in s : ~ (<<y, x>> \in Less)
  <2>1. s \in SUBSET Nat
    OBVIOUS
  <2> HIDE DEF Less
  <2> QED
    BY <1>1, <2>1, WFMin, Zenon
<1>3. ASSUME NEW y \in s
      PROVE  x =< y
  <2>1. y \in Nat /\ x \in Nat /\ ~ (<<y, x>> \in Less)
    BY <1>2
  <2> QED
    BY <2>1
<1> QED
  BY <1>3 DEF Min

=============================================================================
