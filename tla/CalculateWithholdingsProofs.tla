-------------------- MODULE CalculateWithholdingsProofs ---------------------
(***************************************************************************)
(* Proofs about WithholdingEngine and CalculateWithholdings, for any       *)
(* uploads, invoices of any length and reference tables as the migration   *)
(* seeds them: the bounds of the arithmetic, what the grouping of lines by *)
(* concept computes, and the rows an upload leaves.                        *)
(***************************************************************************)
EXTENDS CalculateWithholdings, SumsAndFolds

-----------------------------------------------------------------------------
(* Arithmetic.                                                             *)

\* Rounding: its range, and that it never exceeds a whole.
LEMMA RoundType ==
  ASSUME NEW x \in Int, NEW d \in Nat \ {0}
  PROVE  Round(x, d) \in Int
BY DEF Round

\* Round keeps the sign.
LEMMA RoundNat ==
  ASSUME NEW x \in Nat, NEW d \in Nat \ {0}
  PROVE  Round(x, d) \in Nat
<1>1. 2 * x + d \in Nat /\ 2 * d \in Nat \ {0}
  OBVIOUS
<1>2. \A m \in Nat, n \in Nat \ {0} : m \div n \in Nat
  OBVIOUS
<1> QED
  BY <1>1, <1>2 DEF Round

\* Products respect an order of their factors.
LEMMA ProductIsMonotonic ==
  ASSUME NEW b \in Nat, NEW t \in Nat, NEW m \in Nat, t =< m
  PROVE  b * t \in Nat /\ b * t =< b * m
<1>1. m - t \in Nat /\ b * (m - t) \in Nat
  OBVIOUS
<1>2. b * (m - t) = b * m - b * t
  OBVIOUS
<1> QED
  BY <1>1, <1>2

\* A hundred percent is a positive number of units.
LEMMA OneHundredPercentType == OneHundredPercent \in Nat \ {0}
BY SMT DEF OneHundredPercent

\* The t-th part of m of a base is, rounded, no more than the base.
LEMMA PartIsWithinBase ==
  ASSUME NEW base \in Nat, NEW m \in Nat \ {0}, NEW t \in 0..m
  PROVE  Round(base * t, m) \in 0..base
<1> DEFINE x == base * t
           y == base * m
<1>1. x \in Nat /\ y \in Nat /\ x =< y
  BY ProductIsMonotonic
<1>2. Round(x, m) \in Nat
  BY <1>1, RoundNat
<1>3. (2 * x + m) \div (2 * m) =< base
  <2>1. 2 * x + m < (2 * m) * (base + 1)
    <3>1. (2 * m) * (base + 1) = 2 * y + 2 * m
      OBVIOUS
    <3> HIDE DEF x, y
    <3> QED
      BY <1>1, <3>1
  <2> HIDE DEF x, y
  <2> DEFINE q == (2 * x + m) \div (2 * m)
  <2>2. q \in Nat /\ (2 * m) * q =< 2 * x + m
    BY <1>1
  <2>3. (2 * m) * q < (2 * m) * (base + 1)
    BY <1>1, <2>1, <2>2
  <2>4. q < base + 1
    <3> HIDE DEF q
    <3> SUFFICES ASSUME q >= base + 1
                 PROVE  FALSE
      BY <2>2
    <3>1. (2 * m) * (base + 1) =< (2 * m) * q
      BY <2>2, ProductIsMonotonic
    <3> QED
      BY <2>2, <2>3, <3>1
  <2> QED
    BY <2>2, <2>4
<1>4. Round(x, m) = (2 * x + m) \div (2 * m)
  BY <1>1 DEF Round
<1> QED
  BY <1>2, <1>3, <1>4

\* What a calculation says of an amount: nothing withheld, or what a rule takes.
LEMMA MinimumBaseWithin ==
  ASSUME NEW rule, NEW uvt \in Nat, NEW amount \in Int,
         rule.minBase \in Nat, rule.tariff \in 0..OneHundredPercent
  PROVE  LET c == CalculateWithMinimumBase(rule, uvt, amount)
         IN  /\ c = Calculation(c.tax, c.base, c.tariff, c.value)
             /\ c.tax = rule.tax
             /\ c.base \in Int
             /\ c.tariff \in {0, rule.tariff}
             /\ c.value \in Nat
             /\ c.value =< c.base \/ c.value = 0
<1> DEFINE base == Round(amount, Fraction)
<1>1. base \in Int
  BY RoundType, FractionAssumption
<1>2. MinimumBase(rule, uvt) \in Nat
  BY RoundNat, ProductIsMonotonic DEF MinimumBase
<1> HIDE DEF base
<1>3. CASE base < MinimumBase(rule, uvt)
  BY <1>1, <1>3 DEF CalculateWithMinimumBase, Calculation, base
<1>4. CASE ~ (base < MinimumBase(rule, uvt))
  <2>1. base \in Nat
    BY <1>1, <1>2, <1>4
  <2>2. Round(base * rule.tariff, OneHundredPercent) \in 0..base
    BY <2>1, PartIsWithinBase, OneHundredPercentType
  <2>3. CalculateWithMinimumBase(rule, uvt, amount) =
          Calculation(rule.tax, base, rule.tariff,
                      Round(base * rule.tariff, OneHundredPercent))
    BY <1>4 DEF CalculateWithMinimumBase, base
  <2> QED
    BY <2>1, <2>2, <2>3 DEF Calculation
<1> QED
  BY <1>3, <1>4

\* RETEIVA is never more than the IVA it is computed on.
LEMMA ReteivaWithin ==
  ASSUME NEW rule, NEW amount \in Int, rule.tariff \in 0..OneHundredPercent
  PROVE  LET c == CalculateReteiva(rule, amount)
         IN  /\ c = Calculation(c.tax, c.base, c.tariff, c.value)
             /\ c.tax = rule.tax
             /\ c.base \in Int
             /\ c.tariff \in {0, rule.tariff}
             /\ c.value \in Nat
             /\ c.value =< c.base \/ c.value = 0
<1> DEFINE iva == Round(amount, Fraction)
<1>1. iva \in Int
  BY RoundType, FractionAssumption
<1> HIDE DEF iva
<1>2. CASE iva =< 0
  BY <1>1, <1>2 DEF CalculateReteiva, Calculation, iva
<1>3. CASE ~ (iva =< 0)
  <2>1. iva \in Nat
    BY <1>1, <1>3
  <2>2. Round(iva * rule.tariff, OneHundredPercent) \in 0..iva
    BY <2>1, PartIsWithinBase, OneHundredPercentType
  <2>3. CalculateReteiva(rule, amount) =
          Calculation(rule.tax, iva, rule.tariff,
                      Round(iva * rule.tariff, OneHundredPercent))
    BY <1>3 DEF CalculateReteiva, iva
  <2> QED
    BY <2>1, <2>2, <2>3 DEF Calculation
<1> QED
  BY <1>2, <1>3

\* What rounding loses: at most half a unit, here times d and doubled.
Near(x, r, d) == -d =< 2 * (d * r - x) /\ 2 * (d * r - x) =< d

\* Round loses at most half a unit.
LEMMA RoundIsNear ==
  ASSUME NEW x \in Int, NEW d \in Nat \ {0}
  PROVE  Near(x, Round(x, d), d)
<1>1. \A a \in Int : \E q \in Int : q = a \div (2 * d) /\ (2 * d) * q =< a /\ a < (2 * d) * q + 2 * d
  <2> DEFINE m == 2 * d
  <2>1. m \in Nat \ {0}
    OBVIOUS
  <2> HIDE DEF m
  <2>2. \A a \in Int : \E q \in Int : q = a \div m /\ m * q =< a /\ a < m * q + m
    BY <2>1
  <2> QED
    BY <2>2 DEF m
<1>2. CASE x >= 0
  <2>1. PICK q \in Int : /\ q = (2 * x + d) \div (2 * d)
                         /\ (2 * d) * q =< 2 * x + d /\ 2 * x + d < (2 * d) * q + 2 * d
    BY <1>1
  <2>2. Round(x, d) = q
    BY <1>2, <2>1 DEF Round
  <2>3. (2 * d) * q = 2 * (d * q) /\ d * q \in Int
    OBVIOUS
  <2> DEFINE y == d * q
  <2>4. y \in Int /\ 2 * y =< 2 * x + d /\ 2 * x + d < 2 * y + 2 * d
    BY <2>1, <2>3
  <2> HIDE DEF y
  <2>5. -d =< 2 * (y - x) /\ 2 * (y - x) =< d
    BY <2>4
  <2> QED
    BY <2>2, <2>5 DEF y, Near
<1>3. CASE x < 0
  <2>1. PICK q \in Int : /\ q = (d - 2 * x) \div (2 * d)
                         /\ (2 * d) * q =< d - 2 * x /\ d - 2 * x < (2 * d) * q + 2 * d
    BY <1>1
  <2>2. Round(x, d) = -q
    BY <1>3, <2>1 DEF Round
  <2>3. (2 * d) * q = 2 * (d * q) /\ d * q \in Int /\ d * (-q) = -(d * q)
    OBVIOUS
  <2> DEFINE y == d * q
  <2>4. /\ y \in Int /\ 2 * y =< d - 2 * x /\ d - 2 * x < 2 * y + 2 * d
        /\ d * (-q) = -y
    BY <2>1, <2>3
  <2> HIDE DEF y
  <2>5. -d =< 2 * (-y - x) /\ 2 * (-y - x) =< d
    BY <2>4
  <2> QED
    BY <2>2, <2>4, <2>5 DEF Near
<1> QED
  BY <1>2, <1>3

\* A sum of numbers rounded one by one loses that for each of them.
SumsAreNear(v, w, s, d) ==
  LET lost == 2 * (d * SumFunctionOnSet(w, s) - SumFunctionOnSet(v, s))
  IN  -(d * Cardinality(s)) =< lost /\ lost =< d * Cardinality(s)

\* Numbers that are near have sums that are near.
LEMMA NearAddsUp ==
  ASSUME NEW a \in Int, NEW b \in Int, NEW p \in Int, NEW q \in Int, NEW n \in Nat,
         NEW d \in Nat \ {0}, Near(p, q, d),
         -(d * n) =< 2 * (d * b - a), 2 * (d * b - a) =< d * n
  PROVE  /\ -(d * (n + 1)) =< 2 * (d * (q + b) - (p + a))
         /\ 2 * (d * (q + b) - (p + a)) =< d * (n + 1)
<1> DEFINE db == d * b
           dq == d * q
           dn == d * n
<1>1. db \in Int /\ dq \in Int /\ dn \in Int /\ d * (q + b) = dq + db /\ d * (n + 1) = dn + d
  OBVIOUS
<1>2. /\ -dn =< 2 * (db - a) /\ 2 * (db - a) =< dn
      /\ -d =< 2 * (dq - p) /\ 2 * (dq - p) =< d
  BY DEF Near
<1> HIDE DEF db, dq, dn
<1>3. /\ -(dn + d) =< 2 * ((dq + db) - (p + a))
      /\ 2 * ((dq + db) - (p + a)) =< dn + d
  BY <1>1, <1>2
<1> QED
  BY <1>1, <1>3

\* Sums of near terms are near, by half a unit for each term.
LEMMA SumsOfNear ==
  ASSUME NEW D, NEW v \in [D -> Int], NEW w \in [D -> Int], NEW S \in SUBSET D,
         IsFiniteSet(S), NEW d \in Nat \ {0}, \A x \in S : Near(v[x], w[x], d)
  PROVE  SumsAreNear(v, w, S, d)
<1> DEFINE T == {k \in Nat : \A s \in SUBSET S : Cardinality(s) = k => SumsAreNear(v, w, s, d)}
<1>1. \A s \in SUBSET S : IsFiniteSet(s) /\ Cardinality(s) \in Nat /\ Summable(v, s) /\ Summable(w, s)
  BY FS_Subset, FS_CardinalityType DEF Summable
<1>2. 0 \in T
  <2> SUFFICES ASSUME NEW s \in SUBSET S, Cardinality(s) = 0
               PROVE  SumsAreNear(v, w, s, d)
    OBVIOUS
  <2>1. s = {}
    BY <1>1, FS_EmptySet
  <2>2. SumFunctionOnSet(v, s) = 0 /\ SumFunctionOnSet(w, s) = 0
    BY <2>1, SumOfNone
  <2> QED
    BY <2>2 DEF SumsAreNear
<1>3. ASSUME NEW k \in T
      PROVE  k + 1 \in T
  <2> SUFFICES ASSUME NEW s \in SUBSET S, Cardinality(s) = k + 1
               PROVE  SumsAreNear(v, w, s, d)
    OBVIOUS
  <2>1. PICK x : x \in s
    BY FS_EmptySet
  <2> DEFINE r == s \ {x}
  <2>2. r \in SUBSET S /\ Cardinality(r) = k
    <3>1. /\ Cardinality(s \ {x}) + 1 = Cardinality(s) /\ s \ {x} \in SUBSET S
          /\ Cardinality(s \ {x}) \in Nat
      BY <2>1, OneLess
    <3> QED
      BY <3>1
  <2>3. /\ SumFunctionOnSet(v, s) = v[x] + SumFunctionOnSet(v, r)
        /\ SumFunctionOnSet(w, s) = w[x] + SumFunctionOnSet(w, r)
    BY <1>1, <2>1, SumAddsOne
  <2> HIDE DEF r
  <2>4. SumsAreNear(v, w, r, d)
    BY <2>2
  <2>5. SumFunctionOnSet(v, r) \in Int /\ SumFunctionOnSet(w, r) \in Int
    BY <1>1, <2>2, SumType
  <2>6. v[x] \in Int /\ w[x] \in Int /\ Near(v[x], w[x], d)
    BY <2>1
  <2> DEFINE a == SumFunctionOnSet(v, r)
             b == SumFunctionOnSet(w, r)
             p == v[x]
             q == w[x]
  <2>7. /\ a \in Int /\ b \in Int /\ p \in Int /\ q \in Int /\ k \in Nat /\ Near(p, q, d)
        /\ -(d * k) =< 2 * (d * b - a) /\ 2 * (d * b - a) =< d * k
    BY <2>2, <2>4, <2>5, <2>6 DEF SumsAreNear
  <2> HIDE DEF a, b, p, q
  <2>8. /\ -(d * (k + 1)) =< 2 * (d * (q + b) - (p + a))
        /\ 2 * (d * (q + b) - (p + a)) =< d * (k + 1)
    BY <2>7, NearAddsUp
  <2>9. SumFunctionOnSet(v, s) = p + a /\ SumFunctionOnSet(w, s) = q + b
    BY <2>3 DEF a, b, p, q
  <2> QED
    BY <2>8, <2>9 DEF SumsAreNear
<1> HIDE DEF T
<1>4. T = Nat
  <2>1. T \in SUBSET Nat
    BY DEF T
  <2> QED
    BY <1>2, <1>3, <2>1, NatSetInduction
<1> QED
  BY <1>1, <1>4 DEF T

\* The rounded sum and the sum of the rounded: half a unit each and one half more.
LEMMA RoundedSums ==
  ASSUME NEW D, NEW v \in [D -> Int], NEW w \in [D -> Int], NEW S \in SUBSET D,
         IsFiniteSet(S), NEW d \in Nat \ {0}, \A x \in S : w[x] = Round(v[x], d)
  PROVE  2 * (Round(SumFunctionOnSet(v, S), d) - SumFunctionOnSet(w, S))
           \in -(Cardinality(S) + 1)..(Cardinality(S) + 1)
<1> DEFINE a == SumFunctionOnSet(v, S)
           b == SumFunctionOnSet(w, S)
           r == Round(a, d)
           n == Cardinality(S)
<1>1. a \in Int /\ b \in Int
  BY SumType DEF Summable
<1>2. r \in Int /\ Near(a, r, d)
  BY <1>1, RoundType, RoundIsNear
<1>3. SumsAreNear(v, w, S, d)
  <2>1. \A x \in S : Near(v[x], w[x], d)
    BY RoundIsNear
  <2> QED
    BY <2>1, SumsOfNear
<1>4. n \in Nat
  BY FS_CardinalityType
<1>5. -(d * n) =< 2 * (d * b - a) /\ 2 * (d * b - a) =< d * n
  BY <1>3 DEF SumsAreNear
<1> HIDE DEF a, b, r, n
<1> DEFINE z == 2 * (r - b)
<1>6. z \in Int /\ -(d * (n + 1)) =< d * z /\ d * z =< d * (n + 1)
  <2> DEFINE db == d * b
             dr == d * r
             dn == d * n
  <2>1. /\ db \in Int /\ dr \in Int /\ dn \in Int
        /\ d * (n + 1) = dn + d /\ d * z = 2 * (dr - db)
    BY <1>1, <1>2, <1>4
  <2>2. /\ -dn =< 2 * (db - a) /\ 2 * (db - a) =< dn
        /\ -d =< 2 * (dr - a) /\ 2 * (dr - a) =< d
    BY <1>2, <1>5 DEF Near
  <2>3. z \in Int
    BY <1>1, <1>2
  <2> HIDE DEF db, dr, dn, z
  <2> QED
    BY <1>1, <2>1, <2>2, <2>3
<1> HIDE DEF z
<1>7. z =< n + 1
  <2> SUFFICES ASSUME z >= n + 2
               PROVE  FALSE
    BY <1>4, <1>6
  <2>1. z \in Nat /\ n + 2 \in Nat
    BY <1>4, <1>6
  <2>2. d * (n + 2) =< d * z
    BY <2>1, ProductIsMonotonic
  <2>3. d * (n + 2) = d * (n + 1) + d /\ d * (n + 1) \in Int /\ d * z \in Int
    BY <1>4, <1>6
  <2> QED
    BY <1>6, <2>2, <2>3
<1>8. -z =< n + 1
  <2> SUFFICES ASSUME -z >= n + 2
               PROVE  FALSE
    BY <1>4, <1>6
  <2>1. -z \in Nat /\ n + 2 \in Nat
    BY <1>4, <1>6
  <2>2. d * (n + 2) =< d * (-z)
    BY <2>1, ProductIsMonotonic
  <2>3. /\ d * (n + 2) = d * (n + 1) + d /\ d * (n + 1) \in Int /\ d * z \in Int
        /\ d * (-z) = -(d * z)
    BY <1>4, <1>6
  <2> QED
    BY <1>6, <2>2, <2>3
<1>9. z \in -(n + 1)..(n + 1)
  BY <1>4, <1>6, <1>7, <1>8
<1> QED
  BY <1>9 DEF z, r, a, b, n

-----------------------------------------------------------------------------
(* Grouping.                                                               *)

\* Lines, and so groups, of concepts in C.
Amounts(C) == [concept: C, total: Int, iva: Int]

ConceptsOf(seq) == {seq[i].concept : i \in DOMAIN seq}

OncePerConcept(groups) ==
  \A i, j \in DOMAIN groups : groups[i].concept = groups[j].concept => i = j

\* One more line keeps one group for each concept.
LEMMA GroupedKeeps ==
  ASSUME NEW C, NEW groups \in Seq(Amounts(C)), OncePerConcept(groups),
         NEW line \in Amounts(C)
  PROVE  /\ Grouped(groups, line) \in Seq(Amounts(C))
         /\ OncePerConcept(Grouped(groups, line))
         /\ ConceptsOf(Grouped(groups, line)) = ConceptsOf(groups) \cup {line.concept}
<1>1. CASE \E j \in DOMAIN groups : groups[j].concept = line.concept
  <2> DEFINE add(j) == IF groups[j].concept = line.concept
                       THEN [groups[j] EXCEPT !.total = @ + line.total, !.iva = @ + line.iva]
                       ELSE groups[j]
             new == [j \in DOMAIN groups |-> add(j)]
  <2>1. Grouped(groups, line) = new
    BY <1>1 DEF Grouped
  <2>2. ASSUME NEW j \in DOMAIN groups
        PROVE  add(j) \in Amounts(C) /\ add(j).concept = groups[j].concept
    <3>1. groups[j] \in Amounts(C)
      OBVIOUS
    <3>2. \A a \in Amounts(C) : \A x \in Int :
            /\ [a EXCEPT !.total = x] \in Amounts(C)
            /\ [a EXCEPT !.total = x].concept = a.concept
            /\ [a EXCEPT !.iva = x] \in Amounts(C)
            /\ [a EXCEPT !.iva = x].concept = a.concept
      BY DEF Amounts
    <3>3. groups[j].total + line.total \in Int /\ groups[j].iva + line.iva \in Int
      BY <3>1 DEF Amounts
    <3> DEFINE total == [groups[j] EXCEPT !.total = @ + line.total]
               both  == [total EXCEPT !.iva = groups[j].iva + line.iva]
    <3>4. total \in Amounts(C) /\ total.concept = groups[j].concept
      BY <3>1, <3>2, <3>3
    <3>5. both \in Amounts(C) /\ both.concept = groups[j].concept
      <4> HIDE DEF total
      <4> QED
        BY <3>2, <3>3, <3>4
    <3>6. [groups[j] EXCEPT !.total = @ + line.total, !.iva = @ + line.iva] = both
      BY <3>1 DEF Amounts
    <3> HIDE DEF both
    <3> QED
      BY <3>1, <3>5, <3>6
  <2> HIDE DEF add
  <2>3. new \in Seq(Amounts(C))
    <3>1. Len(groups) \in Nat /\ DOMAIN groups = 1..Len(groups)
      OBVIOUS
    <3>2. \A j \in 1..Len(groups) : add(j) \in Amounts(C)
      BY <2>2, <3>1
    <3>3. new \in [1..Len(groups) -> Amounts(C)]
      BY <3>1, <3>2
    <3> QED
      BY <3>1, <3>3, SeqDef
  <2>4. DOMAIN new = DOMAIN groups /\ \A j \in DOMAIN groups : new[j].concept = groups[j].concept
    BY <2>2
  <2> HIDE DEF new
  <2>5. OncePerConcept(new)
    BY <2>4 DEF OncePerConcept
  <2>6. ConceptsOf(new) = ConceptsOf(groups)
    BY <2>4 DEF ConceptsOf
  <2>7. line.concept \in ConceptsOf(groups)
    BY <1>1 DEF ConceptsOf
  <2> QED
    BY <2>1, <2>3, <2>5, <2>6, <2>7
<1>2. CASE ~ \E j \in DOMAIN groups : groups[j].concept = line.concept
  <2> DEFINE g == [concept |-> line.concept, total |-> line.total, iva |-> line.iva]
             new == Append(groups, g)
  <2>1. Grouped(groups, line) = new
    BY <1>2 DEF Grouped
  <2>2. g \in Amounts(C) /\ g.concept = line.concept
    BY DEF Amounts
  <2> HIDE DEF g
  <2>3. /\ new \in Seq(Amounts(C))
        /\ Len(new) = Len(groups) + 1
        /\ new[Len(groups) + 1] = g
        /\ \A j \in DOMAIN groups : new[j] = groups[j]
    BY <2>2, AppendProperties
  <2> HIDE DEF new
  <2>4. DOMAIN groups = 1..Len(groups) /\ DOMAIN new = 1..Len(groups) + 1 /\ Len(groups) \in Nat
    BY <2>3
  <2>5. \A j \in DOMAIN new : j \in DOMAIN groups \/ j = Len(groups) + 1
    BY <2>4
  <2>6. OncePerConcept(new)
    BY <1>2, <2>2, <2>3, <2>5 DEF OncePerConcept
  <2>7. DOMAIN groups \subseteq DOMAIN new /\ Len(groups) + 1 \in DOMAIN new
    BY <2>4
  <2>8. ConceptsOf(new) = ConceptsOf(groups) \cup {line.concept}
    BY <2>2, <2>3, <2>5, <2>7 DEF ConceptsOf
  <2> QED
    BY <2>1, <2>3, <2>6, <2>8
<1> QED
  BY <1>1, <1>2

\* The groups after each line: none at first, and each line joins those before.
IsGrouping(g, lines) ==
  /\ g[0] = <<>>
  /\ \A k \in 0..Len(lines) - 1 : g[k + 1] = Grouped(g[k], lines[k + 1])
  /\ g[Len(lines)] = groupLinesByConcept(lines)

\* The loop of groupLinesByConcept, line by line.
LEMMA GroupingExists ==
  ASSUME NEW C, NEW lines \in Seq(Amounts(C))
  PROVE  \E g : IsGrouping(g, lines)
<1> DEFINE n == Len(lines)
           A == {groups \in Seq(Amounts(C)) : OncePerConcept(groups)}
           F == [p \in A \X Amounts(C) |-> Grouped(p[1], p[2])]
           Passes(f) == f = [s \in SUBSET (1..n) |->
                               IF s = {} THEN <<>>
                               ELSE Grouped(f[s \ {Max(s)}], lines[Max(s)])]
           iter == CHOOSE f : Passes(f)
           g == [k \in 0..n |-> iter[1..k]]
<1>1. n \in Nat /\ DOMAIN lines = 1..n /\ \A k \in 1..n : lines[k] \in Amounts(C)
  OBVIOUS
<1>2. F \in [A \X Amounts(C) -> A]
  BY GroupedKeeps
<1>3. <<>> \in A
  BY DEF OncePerConcept
<1>4. PICK f \in [SUBSET (1..n) -> A] : IsFold(f, F, <<>>, lines, n)
  <2> HIDE DEF A, F
  <2> QED
    BY <1>2, <1>3, FoldExists DEF HasFold
<1>5. Passes(f)
  <2>1. ASSUME NEW s \in SUBSET (1..n), s # {}
        PROVE  f[s \ {Max(s)}] \in A /\ lines[Max(s)] \in Amounts(C)
    <3>1. Max(s) \in s
      BY <1>1, <2>1, LastPosition
    <3> QED
      BY <1>1, <1>4, <3>1
  <2>2. \A a \in A : \A e \in Amounts(C) : F[a, e] = Grouped(a, e)
    OBVIOUS
  <2> HIDE DEF A, F
  <2> QED
    BY <1>4, <2>1, <2>2 DEF IsFold
<1>6. Passes(iter)
  <2> HIDE DEF Passes
  <2> QED
    BY <1>5
<1>7. groupLinesByConcept(lines) = iter[1..n]
  BY <1>1 DEF groupLinesByConcept, FoldLeft, MapThenFoldSet
<1> HIDE DEF iter
<1>8. g[0] = <<>>
  <2>1. 1..0 = {} /\ 1..0 \in SUBSET (1..n) /\ 0 \in 0..n
    BY <1>1
  <2> QED
    BY <1>6, <2>1
<1>9. ASSUME NEW k \in 0..n - 1
      PROVE  g[k + 1] = Grouped(g[k], lines[k + 1])
  <2> HIDE DEF n
  <2>1. /\ 1..k + 1 \in SUBSET (1..n) /\ 1..k + 1 # {}
        /\ Max(1..k + 1) = k + 1 /\ (1..k + 1) \ {k + 1} = 1..k
        /\ k \in 0..n /\ k + 1 \in 0..n
    BY <1>1, FirstPositions
  <2>2. iter[1..k + 1] = Grouped(iter[1..k], lines[k + 1])
    BY <1>6, <2>1
  <2> QED
    BY <2>1, <2>2
<1>10. g[n] = groupLinesByConcept(lines)
  BY <1>1, <1>7
<1> QED
  BY <1>8, <1>9, <1>10 DEF IsGrouping

\* What one more line does to each group.
LEMMA GroupedAdds ==
  ASSUME NEW C, NEW groups \in Seq(Amounts(C)), NEW line \in Amounts(C),
         NEW j \in DOMAIN Grouped(groups, line)
  PROVE  LET h == Grouped(groups, line)[j]
         IN  \/ /\ j \in DOMAIN groups /\ h.concept = groups[j].concept
                /\ h.concept = line.concept
                /\ h.total = groups[j].total + line.total
                /\ h.iva = groups[j].iva + line.iva
             \/ /\ j \in DOMAIN groups /\ h = groups[j] /\ h.concept # line.concept
             \/ /\ h = line /\ h.concept \notin ConceptsOf(groups)
<1>1. CASE \E i \in DOMAIN groups : groups[i].concept = line.concept
  <2> DEFINE both == [groups[j] EXCEPT !.total = @ + line.total, !.iva = @ + line.iva]
  <2>1. /\ j \in DOMAIN groups
        /\ Grouped(groups, line)[j] = IF groups[j].concept = line.concept THEN both ELSE groups[j]
    BY <1>1 DEF Grouped
  <2>2. groups[j] \in Amounts(C)
    BY <2>1
  <2>3. /\ both.concept = groups[j].concept
        /\ both.total = groups[j].total + line.total
        /\ both.iva = groups[j].iva + line.iva
    BY <2>2 DEF Amounts
  <2> HIDE DEF both
  <2> QED
    BY <2>1, <2>3
<1>2. CASE ~ \E i \in DOMAIN groups : groups[i].concept = line.concept
  <2>1. [concept |-> line.concept, total |-> line.total, iva |-> line.iva] = line
    BY DEF Amounts
  <2>2. Grouped(groups, line) = Append(groups, line)
    BY <1>2, <2>1 DEF Grouped
  <2>3. /\ Len(groups) \in Nat /\ DOMAIN groups = 1..Len(groups)
        /\ DOMAIN Append(groups, line) = 1..Len(groups) + 1
        /\ Append(groups, line)[Len(groups) + 1] = line
        /\ \A i \in DOMAIN groups : Append(groups, line)[i] = groups[i]
    BY AppendProperties
  <2>4. CASE j \in DOMAIN groups
    BY <1>2, <2>2, <2>3, <2>4
  <2>5. CASE j = Len(groups) + 1
    BY <1>2, <2>2, <2>3, <2>5 DEF ConceptsOf
  <2> QED
    BY <2>2, <2>3, <2>4, <2>5
<1> QED
  BY <1>1, <1>2

\* The positions, up to the k-th, of the lines of a concept.
LinesOf(lines, k, concept) == {i \in 1..k : lines[i].concept = concept}

TotalsOf(lines) == [i \in DOMAIN lines |-> lines[i].total]
IvasOf(lines)   == [i \in DOMAIN lines |-> lines[i].iva]

\* The positions of lines among the first are finitely many.
LEMMA LinesOfType ==
  ASSUME NEW lines, NEW k \in Nat, NEW concept
  PROVE  /\ LinesOf(lines, k, concept) \in SUBSET (1..k)
         /\ IsFiniteSet(LinesOf(lines, k, concept))
<1>1. IsFiniteSet(1..k)
  BY FS_Interval
<1> QED
  BY <1>1, FS_Subset DEF LinesOf

\* A column of the groups has the sums of the same column of the first k lines.
AddsUp(v, lines, k, concept, amount) ==
  amount = SumFunctionOnSet(v, LinesOf(lines, k, concept))

\* One more line adds its amount to the sums over its concept.
LEMMA OneMoreLineAddsUp ==
  ASSUME NEW m \in Nat, NEW lines, NEW v \in [1..m -> Int],
         NEW k \in Nat, k + 1 =< m, NEW concept, NEW amount \in Int,
         AddsUp(v, lines, k, concept, amount)
  PROVE  AddsUp(v, lines, k + 1, concept,
                IF lines[k + 1].concept = concept THEN amount + v[k + 1] ELSE amount)
<1> DEFINE n == k + 1
           S == LinesOf(lines, n, concept)
<1>1. n \in Nat /\ n =< m
  OBVIOUS
<1>2. S \in SUBSET (1..m) /\ IsFiniteSet(S)
  <2>1. S \in SUBSET (1..n) /\ IsFiniteSet(S)
    <3> HIDE DEF n
    <3> QED
      BY <1>1, LinesOfType
  <2>2. \A i \in 1..n : i \in 1..m
    BY <1>1
  <2> HIDE DEF S
  <2> QED
    BY <2>1, <2>2
<1>3. CASE lines[k + 1].concept = concept
  <2>1. k + 1 \in S /\ S \ {k + 1} = LinesOf(lines, k, concept)
    <3>1. \A i : i \in 1..n /\ i # k + 1 <=> i \in 1..k
      OBVIOUS
    <3> QED
      BY <1>3, <3>1 DEF LinesOf
  <2> HIDE DEF S
  <2>2. SumFunctionOnSet(v, S) = v[k + 1] + SumFunctionOnSet(v, S \ {k + 1})
    <3>1. Summable(v, S) /\ k + 1 \in S
      BY <1>2, <2>1 DEF Summable
    <3> QED
      BY <3>1, SumAddsOne
  <2>3. v[k + 1] \in Int
    BY <1>2, <2>1
  <2>4. amount = SumFunctionOnSet(v, S \ {k + 1})
    BY <2>1 DEF AddsUp
  <2>5. amount + v[k + 1] = SumFunctionOnSet(v, S)
    BY <2>2, <2>3, <2>4
  <2> QED
    BY <1>3, <2>5 DEF AddsUp, S
<1>4. CASE lines[k + 1].concept # concept
  <2>1. \A i : i \in 1..n <=> i \in 1..k \/ i = k + 1
    OBVIOUS
  <2>2. LinesOf(lines, n, concept) = LinesOf(lines, k, concept)
    BY <1>4, <2>1 DEF LinesOf
  <2> QED
    BY <1>4, <2>2 DEF AddsUp
<1> QED
  BY <1>3, <1>4

\* Nothing of a concept no line has.
LEMMA NoLineAddsUp ==
  ASSUME NEW m \in Nat, NEW lines, NEW v \in [1..m -> Int], NEW k \in Nat, NEW concept,
         concept \notin {lines[i].concept : i \in 1..k}
  PROVE  AddsUp(v, lines, k, concept, 0)
<1>1. LinesOf(lines, k, concept) = {}
  BY DEF LinesOf
<1>2. SumFunctionOnSet(v, {}) = 0
  BY SumOfNone
<1> QED
  BY <1>1, <1>2 DEF AddsUp

GroupsAddUp(lines, groups, k) ==
  \A j \in DOMAIN groups :
     /\ AddsUp(TotalsOf(lines), lines, k, groups[j].concept, groups[j].total)
     /\ AddsUp(IvasOf(lines), lines, k, groups[j].concept, groups[j].iva)

\* The columns of the lines are functions to sum.
LEMMA ColumnsType ==
  ASSUME NEW C, NEW lines \in Seq(Amounts(C))
  PROVE  TotalsOf(lines) \in [DOMAIN lines -> Int] /\ IvasOf(lines) \in [DOMAIN lines -> Int]
<1>1. \A i \in DOMAIN lines : lines[i] \in Amounts(C)
  OBVIOUS
<1> QED
  BY <1>1 DEF TotalsOf, IvasOf, Amounts

\* Groups that have the sums of some lines have them of one more.
LEMMA GroupedAddsUp ==
  ASSUME NEW C, NEW lines \in Seq(Amounts(C)), NEW groups \in Seq(Amounts(C)),
         NEW k \in Nat, k + 1 =< Len(lines),
         ConceptsOf(groups) = {lines[i].concept : i \in 1..k},
         GroupsAddUp(lines, groups, k)
  PROVE  GroupsAddUp(lines, Grouped(groups, lines[k + 1]), k + 1)
<1> DEFINE line == lines[k + 1]
           h(j) == Grouped(groups, line)[j]
<1>1. k + 1 \in DOMAIN lines /\ line \in Amounts(C)
  OBVIOUS
<1> DEFINE m == Len(lines)
<1>0. m \in Nat /\ DOMAIN lines = 1..m /\ k + 1 =< m
  OBVIOUS
<1>2. /\ TotalsOf(lines) \in [1..m -> Int] /\ IvasOf(lines) \in [1..m -> Int]
      /\ TotalsOf(lines)[k + 1] = line.total /\ IvasOf(lines)[k + 1] = line.iva
      /\ line.total \in Int /\ line.iva \in Int
  <2>1. TotalsOf(lines)[k + 1] = line.total /\ IvasOf(lines)[k + 1] = line.iva
    BY <1>1 DEF TotalsOf, IvasOf
  <2>2. TotalsOf(lines) \in [DOMAIN lines -> Int] /\ IvasOf(lines) \in [DOMAIN lines -> Int]
    BY ColumnsType
  <2>3. line.total \in Int /\ line.iva \in Int
    BY <1>1 DEF Amounts
  <2> QED
    BY <1>0, <2>1, <2>2, <2>3
<1>3. \A j \in DOMAIN groups : groups[j].total \in Int /\ groups[j].iva \in Int
  <2>1. \A j \in DOMAIN groups : groups[j] \in Amounts(C)
    OBVIOUS
  <2> QED
    BY <2>1 DEF Amounts
<1> SUFFICES ASSUME NEW j \in DOMAIN Grouped(groups, line)
             PROVE  /\ AddsUp(TotalsOf(lines), lines, k + 1, h(j).concept, h(j).total)
                    /\ AddsUp(IvasOf(lines), lines, k + 1, h(j).concept, h(j).iva)
  BY DEF GroupsAddUp
<1>4. \/ /\ j \in DOMAIN groups /\ h(j).concept = groups[j].concept
         /\ h(j).concept = line.concept
         /\ h(j).total = groups[j].total + line.total
         /\ h(j).iva = groups[j].iva + line.iva
      \/ /\ j \in DOMAIN groups /\ h(j) = groups[j] /\ h(j).concept # line.concept
      \/ /\ h(j) = line /\ h(j).concept \notin ConceptsOf(groups)
  <2> HIDE DEF line
  <2>1. LET g == Grouped(groups, line)[j]
        IN  \/ /\ j \in DOMAIN groups /\ g.concept = groups[j].concept
               /\ g.concept = line.concept
               /\ g.total = groups[j].total + line.total
               /\ g.iva = groups[j].iva + line.iva
            \/ /\ j \in DOMAIN groups /\ g = groups[j] /\ g.concept # line.concept
            \/ /\ g = line /\ g.concept \notin ConceptsOf(groups)
    BY <1>1, GroupedAdds
  <2> QED
    BY <2>1
<1>5. \A i \in DOMAIN groups :
        /\ AddsUp(TotalsOf(lines), lines, k, groups[i].concept, groups[i].total)
        /\ AddsUp(IvasOf(lines), lines, k, groups[i].concept, groups[i].iva)
  BY DEF GroupsAddUp
<1> HIDE DEF h
<1>6. ASSUME NEW concept, NEW total \in Int, NEW iva \in Int,
             AddsUp(TotalsOf(lines), lines, k, concept, total),
             AddsUp(IvasOf(lines), lines, k, concept, iva)
      PROVE  /\ AddsUp(TotalsOf(lines), lines, k + 1, concept,
                        IF line.concept = concept THEN total + line.total ELSE total)
             /\ AddsUp(IvasOf(lines), lines, k + 1, concept,
                        IF line.concept = concept THEN iva + line.iva ELSE iva)
  <2> DEFINE v == TotalsOf(lines)
             w == IvasOf(lines)
  <2>1. v \in [1..m -> Int] /\ w \in [1..m -> Int] /\ v[k + 1] = line.total /\ w[k + 1] = line.iva
    BY <1>2
  <2>2. AddsUp(v, lines, k, concept, total) /\ AddsUp(w, lines, k, concept, iva)
    BY <1>6
  <2> HIDE DEF v, w, m
  <2>3. AddsUp(v, lines, k + 1, concept,
               IF lines[k + 1].concept = concept THEN total + v[k + 1] ELSE total)
    BY <1>0, <2>1, <2>2, OneMoreLineAddsUp
  <2>4. AddsUp(w, lines, k + 1, concept,
               IF lines[k + 1].concept = concept THEN iva + w[k + 1] ELSE iva)
    BY <1>0, <2>1, <2>2, OneMoreLineAddsUp
  <2> QED
    BY <2>1, <2>3, <2>4 DEF v, w
<1>7. CASE j \in DOMAIN groups /\ h(j).concept = groups[j].concept
  BY <1>3, <1>4, <1>5, <1>6, <1>7 DEF ConceptsOf
<1>8. CASE h(j) = line /\ h(j).concept \notin ConceptsOf(groups)
  <2>1. /\ AddsUp(TotalsOf(lines), lines, k, line.concept, 0)
        /\ AddsUp(IvasOf(lines), lines, k, line.concept, 0)
    <3> HIDE DEF m
    <3> QED
      BY <1>0, <1>2, <1>8, NoLineAddsUp
  <2>2. /\ AddsUp(TotalsOf(lines), lines, k + 1, line.concept, 0 + line.total)
        /\ AddsUp(IvasOf(lines), lines, k + 1, line.concept, 0 + line.iva)
    BY <1>6, <2>1
  <2> QED
    BY <1>2, <1>8, <2>2
<1> QED
  BY <1>4, <1>6, <1>7, <1>8

\* The first k lines are grouped well.
GroupedWell(C, lines, groups, k) ==
  /\ groups \in Seq(Amounts(C))
  /\ OncePerConcept(groups)
  /\ ConceptsOf(groups) = {lines[i].concept : i \in 1..k}
  /\ GroupsAddUp(lines, groups, k)

\* An invoice of any length has one group for each of its lines' concepts, with
\* the sums of the amounts of all lines of the concept, wherever they stand.
THEOREM OneGroupPerConcept ==
  ASSUME NEW C, NEW lines \in Seq(Amounts(C))
  PROVE  /\ groupLinesByConcept(lines) \in Seq(Amounts(C))
         /\ OncePerConcept(groupLinesByConcept(lines))
         /\ ConceptsOf(groupLinesByConcept(lines)) = ConceptsOf(lines)
         /\ GroupsAddUp(lines, groupLinesByConcept(lines), Len(lines))
<1>1. PICK g : IsGrouping(g, lines)
  BY GroupingExists
<1>2. Len(lines) \in Nat /\ DOMAIN lines = 1..Len(lines)
  OBVIOUS
<1> DEFINE T == {k \in Nat : k =< Len(lines) => GroupedWell(C, lines, g[k], k)}
<1>3. 0 \in T
  <2>1. g[0] = <<>>
    BY <1>1 DEF IsGrouping
  <2>2. 1..0 = {}
    OBVIOUS
  <2>3. GroupedWell(C, lines, <<>>, 0)
    <3>1. <<>> \in Seq(Amounts(C)) /\ DOMAIN <<>> = {}
      OBVIOUS
    <3>2. OncePerConcept(<<>>)
      BY <3>1 DEF OncePerConcept
    <3>3. ConceptsOf(<<>>) = {lines[i].concept : i \in 1..0}
      BY <2>2, <3>1 DEF ConceptsOf
    <3>4. GroupsAddUp(lines, <<>>, 0)
      BY <3>1 DEF GroupsAddUp
    <3> QED
      BY <3>1, <3>2, <3>3, <3>4 DEF GroupedWell
  <2> QED
    BY <2>1, <2>3
<1>4. ASSUME NEW k \in T
      PROVE  k + 1 \in T
  <2> SUFFICES ASSUME k + 1 =< Len(lines)
               PROVE  GroupedWell(C, lines, g[k + 1], k + 1)
    OBVIOUS
  <2>1. k \in Nat /\ k \in 0..Len(lines) - 1 /\ k + 1 \in 1..Len(lines) /\ k =< Len(lines)
    BY <1>2
  <2>2. GroupedWell(C, lines, g[k], k)
    BY <2>1
  <2>3. lines[k + 1] \in Amounts(C)
    BY <1>2, <2>1
  <2>4. g[k + 1] = Grouped(g[k], lines[k + 1])
    BY <1>1, <2>1 DEF IsGrouping
  <2>5. {lines[i].concept : i \in 1..k + 1} =
          {lines[i].concept : i \in 1..k} \cup {lines[k + 1].concept}
    <3>1. \A i : i \in 1..k + 1 <=> i \in 1..k \/ i = k + 1
      BY <2>1
    <3> QED
      BY <3>1
  <2>6. /\ Grouped(g[k], lines[k + 1]) \in Seq(Amounts(C))
        /\ OncePerConcept(Grouped(g[k], lines[k + 1]))
        /\ ConceptsOf(Grouped(g[k], lines[k + 1])) =
             ConceptsOf(g[k]) \cup {lines[k + 1].concept}
    BY <2>2, <2>3, GroupedKeeps DEF GroupedWell
  <2>7. ConceptsOf(g[k]) = {lines[i].concept : i \in 1..k}
    BY <2>2 DEF GroupedWell
  <2>8. GroupsAddUp(lines, Grouped(g[k], lines[k + 1]), k + 1)
    <3>1. /\ g[k] \in Seq(Amounts(C)) /\ GroupsAddUp(lines, g[k], k)
          /\ ConceptsOf(g[k]) = {lines[i].concept : i \in 1..k}
      BY <2>2 DEF GroupedWell
    <3> QED
      BY <2>1, <3>1, GroupedAddsUp
  <2> QED
    BY <2>4, <2>5, <2>6, <2>7, <2>8 DEF GroupedWell
<1> HIDE DEF T
<1>5. T = Nat
  <2>1. T \in SUBSET Nat
    BY DEF T
  <2> QED
    BY <1>3, <1>4, <2>1, NatSetInduction
<1>6. GroupedWell(C, lines, g[Len(lines)], Len(lines))
  BY <1>2, <1>5 DEF T
<1> QED
  BY <1>1, <1>2, <1>6 DEF IsGrouping, GroupedWell, ConceptsOf

-----------------------------------------------------------------------------
(* What an invoice is to have for one group and tax.                       *)

Group == Amounts(Concepts \cup {Null})

\* Nothing withheld, or the tariff of a rule in force for the group.
FromRule(c, tax, concept, where, date) ==
  \E r \in FindApplicable(tax, concept, where, date) : c.tariff = r.tariff

IsCalculation(c, tax) ==
  /\ c = Calculation(c.tax, c.base, c.tariff, c.value)
  /\ c.tax = tax
  /\ c.base \in Int
  /\ c.tariff \in Int
  /\ c.value \in Int
  /\ 0 =< c.value /\ (c.value =< c.base \/ c.value = 0)

\* The types of what the engine computes from the seeded tables.
LEMMA NotApplicableIsCalculation ==
  ASSUME NEW tax
  PROVE  IsCalculation(NotApplicable(tax), tax) /\ NotApplicable(tax).tariff = 0
BY DEF NotApplicable, Calculation, IsCalculation

\* FindApplicable returns rules of the table, for what it was asked.
LEMMA ApplicableRules ==
  ASSUME NEW tax, NEW concept, NEW where, NEW date,
         NEW r \in FindApplicable(tax, concept, where, date)
  PROVE  r \in Rule /\ r \in TaxRules /\ r.tax = tax /\ r.concept = concept /\ r.city = where
BY TablesAssumption DEF FindApplicable, Applicable, Latest, TablesAreSeeded

\* A UVT value that is found is not negative.
LEMMA UvtType ==
  ASSUME NEW i, FindUVTValue(i.date) # {}
  PROVE  Uvt(i) \in Nat
<1>1. FindUVTValue(i.date) \subseteq UVTValue
  BY TablesAssumption DEF FindUVTValue, Latest, TablesAreSeeded
<1>2. (CHOOSE v \in FindUVTValue(i.date) : TRUE) \in FindUVTValue(i.date)
  OBVIOUS
<1> QED
  BY <1>1, <1>2 DEF Uvt, UVTValue

\* A tax with a minimum base stays within its base, by a rule in force.
LEMMA MinimumBaseTax ==
  ASSUME NEW tax, NEW i, FindUVTValue(i.date) # {}, NEW group \in Group, NEW where
  PROVE  LET c == calculateMinimumBaseTax(tax, i, group, where)
         IN  /\ IsCalculation(c, tax)
             /\ c.tariff # 0 => FromRule(c, tax, group.concept, where, i.date)
<1> DEFINE rules == FindApplicable(tax, group.concept, where, i.date)
           rule  == CHOOSE r \in rules : TRUE
<1>1. CASE rules = {}
  BY <1>1, NotApplicableIsCalculation DEF calculateMinimumBaseTax
<1>2. CASE rules # {}
  <2>1. rule \in rules
    BY <1>2
  <2>2. rule \in Rule /\ rule.tax = tax
    BY <2>1, ApplicableRules
  <2>3. Uvt(i) \in Nat /\ group.total \in Int
    BY UvtType DEF Group, Amounts
  <2>4. rule.minBase \in Nat /\ rule.tariff \in 0..OneHundredPercent /\ rule.tariff \in Int
    BY <2>2, OneHundredPercentType DEF Rule
  <2>5. calculateMinimumBaseTax(tax, i, group, where)
          = CalculateWithMinimumBase(rule, Uvt(i), group.total)
    BY <1>2 DEF calculateMinimumBaseTax
  <2> HIDE DEF rule
  <2>6. LET c == CalculateWithMinimumBase(rule, Uvt(i), group.total)
        IN  /\ c = Calculation(c.tax, c.base, c.tariff, c.value)
            /\ c.tax = rule.tax
            /\ c.base \in Int
            /\ c.tariff \in {0, rule.tariff}
            /\ c.value \in Nat
            /\ c.value =< c.base \/ c.value = 0
    BY <2>3, <2>4, MinimumBaseWithin
  <2> QED
    <3> DEFINE c == CalculateWithMinimumBase(rule, Uvt(i), group.total)
    <3> HIDE DEF c
    <3>1. IsCalculation(c, tax)
      BY <2>2, <2>4, <2>6 DEF c, IsCalculation
    <3>2. c.tariff # 0 => FromRule(c, tax, group.concept, where, i.date)
      BY <2>1, <2>6 DEF c, FromRule
    <3> QED
      BY <2>5, <3>1, <3>2 DEF c
<1> QED
  BY <1>1, <1>2

\* ReteIVA stays within the IVA it is taken from, by a rule in force.
LEMMA ReteivaTax ==
  ASSUME NEW i, NEW group \in Group
  PROVE  LET c == calculateReteiva(i, group)
         IN  /\ IsCalculation(c, "RETEIVA")
             /\ c.tariff # 0 => FromRule(c, "RETEIVA", group.concept, NoCity, i.date)
<1> DEFINE rules == FindApplicable("RETEIVA", group.concept, NoCity, i.date)
           rule  == CHOOSE r \in rules : TRUE
<1>1. CASE ~ IsVATWithholdingAgent \/ rules = {}
  BY <1>1, NotApplicableIsCalculation DEF calculateReteiva
<1>2. CASE IsVATWithholdingAgent /\ rules # {}
  <2>1. rule \in rules
    BY <1>2
  <2>2. rule \in Rule /\ rule.tax = "RETEIVA"
    BY <2>1, ApplicableRules
  <2>3. group.iva \in Int
    BY DEF Group, Amounts
  <2>4. rule.tariff \in 0..OneHundredPercent /\ rule.tariff \in Int
    BY <2>2, OneHundredPercentType DEF Rule
  <2>5. calculateReteiva(i, group) = CalculateReteiva(rule, group.iva)
    BY <1>2 DEF calculateReteiva
  <2> HIDE DEF rule
  <2>6. LET c == CalculateReteiva(rule, group.iva)
        IN  /\ c = Calculation(c.tax, c.base, c.tariff, c.value)
            /\ c.tax = rule.tax
            /\ c.base \in Int
            /\ c.tariff \in {0, rule.tariff}
            /\ c.value \in Nat
            /\ c.value =< c.base \/ c.value = 0
    BY <2>3, <2>4, ReteivaWithin
  <2> QED
    <3> DEFINE c == CalculateReteiva(rule, group.iva)
    <3> HIDE DEF c
    <3>1. IsCalculation(c, "RETEIVA")
      BY <2>2, <2>4, <2>6 DEF c, IsCalculation
    <3>2. c.tariff # 0 => FromRule(c, "RETEIVA", group.concept, NoCity, i.date)
      BY <2>1, <2>6 DEF c, FromRule
    <3> QED
      BY <2>5, <3>1, <3>2 DEF c
<1> QED
  BY <1>1, <1>2

CityOf(tax, where) == IF tax = "RETEICA" THEN where ELSE NoCity

\* Whatever the tax and the group, the outcome is a calculation.
LEMMA CalculateIsCalculation ==
  ASSUME NEW i, FindUVTValue(i.date) # {}, NEW where, NEW group \in Group,
         NEW tax \in TaxTypes
  PROVE  LET c == Calculate(i, where, group, tax)
         IN  /\ IsCalculation(c, tax)
             /\ c.tariff # 0 =>
                  /\ group.concept # Null
                  /\ FromRule(c, tax, group.concept, CityOf(tax, where), i.date)
<1>1. CASE group.concept = Null
  BY <1>1, NotApplicableIsCalculation DEF Calculate
<1>2. CASE group.concept # Null /\ tax = "RETEFUENTE"
  BY <1>2, MinimumBaseTax DEF Calculate, CityOf
<1>3. CASE group.concept # Null /\ tax = "RETEIVA"
  BY <1>3, ReteivaTax DEF Calculate, CityOf
<1>4. CASE group.concept # Null /\ tax = "RETEICA"
  <2>1. Calculate(i, where, group, tax) = calculateReteica(i, group, where)
    BY <1>4 DEF Calculate
  <2>2. CASE where = NoCity
    BY <1>4, <2>1, <2>2, NotApplicableIsCalculation DEF calculateReteica
  <2>3. CASE where # NoCity
    BY <1>4, <2>1, <2>3, MinimumBaseTax DEF calculateReteica, CityOf
  <2> QED
    BY <2>2, <2>3
<1> QED
  BY <1>1, <1>2, <1>3, <1>4 DEF TaxTypes

-----------------------------------------------------------------------------
(* The rows of an upload.                                                  *)

\* The groups of an invoice, and how many rows they make.
LEMMA InvoiceGroups ==
  ASSUME NEW i \in Invoices
  PROVE  /\ i \in Invoice
         /\ groupLinesByConcept(i.lines) \in Seq(Group)
         /\ OncePerConcept(groupLinesByConcept(i.lines))
         /\ ConceptsOf(groupLinesByConcept(i.lines)) = ConceptsOf(i.lines)
         /\ StepsOf(i) \in Nat
<1>1. i \in Invoice /\ i.lines \in Seq(Line)
  BY InvoicesAssumption DEF Invoice
<1>2. i.lines \in Seq(Group)
  BY <1>1 DEF Line, Group, Amounts
<1>3. /\ groupLinesByConcept(i.lines) \in Seq(Group)
      /\ OncePerConcept(groupLinesByConcept(i.lines))
      /\ ConceptsOf(groupLinesByConcept(i.lines)) = ConceptsOf(i.lines)
  BY <1>2, OneGroupPerConcept DEF Group
<1>4. Len(groupLinesByConcept(i.lines)) \in Nat
  BY <1>3
<1> QED
  BY <1>1, <1>3, <1>4 DEF StepsOf

\* Each step has a group and a tax.
LEMMA StepsType ==
  ASSUME NEW i \in Invoices, NEW n \in 1..StepsOf(i)
  PROVE  /\ ((n - 1) \div 3) + 1 \in DOMAIN groupLinesByConcept(i.lines)
         /\ GroupAt(i, n) \in Group
         /\ TaxAt(n) \in TaxTypes
<1> DEFINE groups == groupLinesByConcept(i.lines)
<1>1. groups \in Seq(Group) /\ Len(groups) \in Nat /\ DOMAIN groups = 1..Len(groups)
  BY InvoiceGroups
<1>2. n \in Nat /\ n >= 1 /\ n =< 3 * Len(groups)
  BY <1>1 DEF StepsOf
<1>3. ((n - 1) \div 3) + 1 \in 1..Len(groups) /\ ((n - 1) % 3) + 1 \in 1..3
  <2> HIDE DEF groups
  <2> QED
    BY <1>1, <1>2
<1>4. \A k \in 1..3 : allTaxTypes[k] \in TaxTypes
  BY DEF allTaxTypes, TaxTypes
<1> QED
  BY <1>1, <1>3, <1>4 DEF GroupAt, TaxAt

IsRow(row, i, n, where) ==
  /\ row \in CalculationRow
  /\ Within(row)
  /\ row.invoice = i.id
  /\ row.concept = ConceptColumn(GroupAt(i, n).concept)
  /\ row.tax = TaxAt(n)
  /\ row.tariff # 0 =>
       /\ GroupAt(i, n).concept # Null
       /\ FromRule(row, row.tax, row.concept, CityOf(row.tax, where), i.date)

\* A row to be upserted is a row of the table.
LEMMA RowsAreRows ==
  ASSUME NEW u, inv[u] \in Invoices, Ready(inv[u]),
         NEW n \in 1..StepsOf(inv[u])
  PROVE  IsRow(RowAt(u, n), inv[u], n, city[u])
<1> DEFINE group == GroupAt(inv[u], n)
           tax   == TaxAt(n)
           c     == Calculate(inv[u], city[u], group, tax)
<1>1. group \in Group /\ tax \in TaxTypes
  BY StepsType
<1>2. /\ IsCalculation(c, tax)
      /\ c.tariff # 0 =>
           /\ group.concept # Null
           /\ FromRule(c, tax, group.concept, CityOf(tax, city[u]), inv[u].date)
  BY <1>1, CalculateIsCalculation DEF Ready
<1>3. RowAt(u, n) =
        [invoice |-> inv[u].id, concept |-> ConceptColumn(group.concept), tax |-> c.tax,
         base |-> c.base, tariff |-> c.tariff, value |-> c.value]
  <2> HIDE DEF c, tax
  <2>1. RowAt(u, n) = [c EXCEPT !.invoice = inv[u].id,
                                !.concept = ConceptColumn(group.concept)]
    BY DEF RowAt, Row, c, tax
  <2>2. c = [invoice |-> 0, concept |-> 0, tax |-> c.tax, base |-> c.base,
             tariff |-> c.tariff, value |-> c.value]
    BY <1>2 DEF IsCalculation, Calculation
  <2> QED
    BY <2>1, <2>2
<1>4. inv[u].id \in Nat \ {0}
  BY InvoicesAssumption DEF Invoice, Ready
<1>5. ConceptColumn(group.concept) \in Concepts \cup {0}
  BY <1>1 DEF ConceptColumn, Group, Amounts
<1>6. group.concept # Null => ConceptColumn(group.concept) = group.concept
  BY DEF ConceptColumn
<1> HIDE DEF c, tax, group
<1>7. RowAt(u, n) \in CalculationRow /\ Within(RowAt(u, n))
  BY <1>1, <1>2, <1>3, <1>4, <1>5 DEF IsCalculation, CalculationRow, Within
<1>8. c.tariff # 0 =>
        FromRule(RowAt(u, n), tax, ConceptColumn(group.concept), CityOf(tax, city[u]),
                 inv[u].date)
  BY <1>2, <1>3, <1>6 DEF FromRule
<1> QED
  BY <1>2, <1>3, <1>7, <1>8 DEF IsRow, IsCalculation, group, tax

\* No concept shares its column's value with the lines that have none.
LEMMA ConceptColumnIsInjective ==
  ASSUME NEW c \in Concepts \cup {Null}, NEW d \in Concepts \cup {Null},
         ConceptColumn(c) = ConceptColumn(d)
  PROVE  c = d
BY ConceptsAssumption DEF ConceptColumn

\* No step overwrites the row of another step of its upload.
LEMMA RowsHaveKeys ==
  ASSUME NEW u, inv[u] \in Invoices, Ready(inv[u]),
         NEW n \in 1..StepsOf(inv[u]), NEW m \in 1..StepsOf(inv[u]),
         SameKey(RowAt(u, n), RowAt(u, m))
  PROVE  n = m
<1> DEFINE groups == groupLinesByConcept(inv[u].lines)
           i == ((n - 1) \div 3) + 1
           j == ((m - 1) \div 3) + 1
           a == ((n - 1) % 3) + 1
           b == ((m - 1) % 3) + 1
<1>1. /\ ConceptColumn(groups[i].concept) = ConceptColumn(groups[j].concept)
      /\ allTaxTypes[a] = allTaxTypes[b]
  <2>1. IsRow(RowAt(u, n), inv[u], n, city[u]) /\ IsRow(RowAt(u, m), inv[u], m, city[u])
    BY RowsAreRows
  <2>2. /\ ConceptColumn(GroupAt(inv[u], n).concept) = ConceptColumn(GroupAt(inv[u], m).concept)
        /\ TaxAt(n) = TaxAt(m)
    BY <2>1 DEF SameKey, IsRow
  <2> QED
    BY <2>2 DEF GroupAt, TaxAt
<1>2. i \in DOMAIN groups /\ j \in DOMAIN groups
  BY StepsType
<1>3. groups[i].concept = groups[j].concept
  <2>1. groups[i] \in Group /\ groups[j] \in Group
    BY StepsType DEF GroupAt
  <2> QED
    BY <1>1, <2>1, ConceptColumnIsInjective DEF Group, Amounts
<1>4. i = j
  BY <1>2, <1>3, InvoiceGroups DEF OncePerConcept
<1>5. n \in Nat \ {0} /\ m \in Nat \ {0}
  BY InvoiceGroups
<1>6. a \in 1..3 /\ b \in 1..3
  BY <1>5
<1>7. a = b
  BY <1>1, <1>6 DEF allTaxTypes
<1> QED
  BY <1>4, <1>5, <1>7

\* Every group and every tax have a step.
LEMMA EveryGroupHasItsSteps ==
  ASSUME NEW i \in Invoices, NEW j \in DOMAIN groupLinesByConcept(i.lines),
         NEW tax \in TaxTypes
  PROVE  \E n \in 1..StepsOf(i) :
           GroupAt(i, n) = groupLinesByConcept(i.lines)[j] /\ TaxAt(n) = tax
<1> DEFINE groups == groupLinesByConcept(i.lines)
<1>1. groups \in Seq(Group) /\ Len(groups) \in Nat /\ DOMAIN groups = 1..Len(groups)
  BY InvoiceGroups
<1>2. PICK t \in 1..3 : allTaxTypes[t] = tax
  BY DEF allTaxTypes, TaxTypes
<1> DEFINE n == 3 * (j - 1) + t
<1>3. j \in Nat /\ j >= 1 /\ j =< Len(groups)
  BY <1>1
<1>4. n \in 1..3 * Len(groups) /\ ((n - 1) \div 3) + 1 = j /\ ((n - 1) % 3) + 1 = t
  <2> DEFINE m == j - 1
             s == t - 1
  <2>1. m \in Nat /\ m < Len(groups) /\ s \in 0..2 /\ n - 1 = 3 * m + s
    BY <1>1, <1>3
  <2> HIDE DEF m, s, n, groups
  <2>2. (n - 1) \div 3 = m /\ (n - 1) % 3 = s
    BY <2>1
  <2>3. n \in 1..3 * Len(groups)
    <3>1. t \in 1..3 /\ j \in Nat /\ 1 =< j /\ j =< Len(groups) /\ Len(groups) \in Nat
      BY <1>1, <1>2, <1>3
    <3>2. \A l \in Nat : j =< l => 3 * (j - 1) + t \in 1..3 * l
      BY <3>1
    <3> QED
      BY <3>1, <3>2 DEF n
  <2> QED
    BY <1>3, <2>2, <2>3 DEF m, s
<1>5. n \in 1..StepsOf(i)
  BY <1>4 DEF StepsOf
<1>6. GroupAt(i, n) = groups[j] /\ TaxAt(n) = tax
  BY <1>2, <1>4 DEF GroupAt, TaxAt
<1> HIDE DEF n
<1> QED
  BY <1>5, <1>6

\* Every concept of a line and every tax have a step.
LEMMA EveryConceptHasItsSteps ==
  ASSUME NEW u, inv[u] \in Invoices, Ready(inv[u]),
         NEW k \in DOMAIN inv[u].lines, NEW tax \in TaxTypes
  PROVE  \E n \in 1..StepsOf(inv[u]) :
           /\ RowAt(u, n).invoice = inv[u].id
           /\ RowAt(u, n).concept = ConceptColumn(inv[u].lines[k].concept)
           /\ RowAt(u, n).tax = tax
<1> DEFINE groups == groupLinesByConcept(inv[u].lines)
<1>1. PICK j \in DOMAIN groups : groups[j].concept = inv[u].lines[k].concept
  <2>1. inv[u].lines[k].concept \in ConceptsOf(inv[u].lines)
    BY DEF ConceptsOf
  <2>2. inv[u].lines[k].concept \in ConceptsOf(groups)
    BY <2>1, InvoiceGroups
  <2> QED
    BY <2>2 DEF ConceptsOf
<1>2. PICK n \in 1..StepsOf(inv[u]) : GroupAt(inv[u], n) = groups[j] /\ TaxAt(n) = tax
  BY EveryGroupHasItsSteps
<1> QED
  BY <1>1, <1>2, RowsAreRows DEF IsRow

-----------------------------------------------------------------------------
(* The inductive invariant.                                                *)

Shape ==
  /\ inv \in [Uploads -> Invoices]
  /\ city \in [Uploads -> Cities \cup {NoCity}]
  /\ results \in [Uploads -> Seq(CalculationRow)]
  /\ pc \in [Uploads -> {"idle", "persist"} \cup Finished]

\* What u has persisted are its rows, one for each step it has made.
UploadInv(u) ==
  /\ pc[u] = "idle" => results[u] = <<>>
  /\ pc[u] = "persist" => Len(results[u]) < StepsOf(inv[u])
  /\ pc[u] = "calculated" => Len(results[u]) = StepsOf(inv[u])
  /\ Len(results[u]) =< StepsOf(inv[u])
  /\ (pc[u] \in {"persist", "calculated"} \/ results[u] # <<>>)
       => Ready(inv[u])
  /\ \A n \in 1..Len(results[u]) : results[u][n] = RowAt(u, n)

RowsInv ==
  /\ \A row \in calculations : row \in CalculationRow /\ Within(row)
  /\ \A row, other \in calculations : SameKey(row, other) => row = other

IInv == Shape /\ RowsInv /\ \A u \in Uploads : UploadInv(u)

\* The invariant holds at first.
LEMMA InitInv == Init => IInv
<1> SUFFICES ASSUME Init PROVE IInv
  OBVIOUS
<1>1. Shape
  BY DEF Init, Shape
<1>2. ASSUME NEW u \in Uploads
      PROVE  UploadInv(u)
  <2>1. results[u] = <<>> /\ pc[u] = "idle" /\ inv[u] \in Invoices
    BY DEF Init
  <2>2. StepsOf(inv[u]) \in Nat
    BY <2>1, InvoiceGroups
  <2> QED
    BY <2>1, <2>2 DEF UploadInv
<1> QED
  BY <1>1, <1>2 DEF Init, IInv, RowsInv

\* The row u is about to persist.
LEMMA PendingRow ==
  ASSUME IInv, NEW u \in Uploads, pc[u] = "persist"
  PROVE  /\ Pending(u) \in 1..StepsOf(inv[u])
         /\ IsRow(RowAt(u, Pending(u)), inv[u], Pending(u), city[u])
<1>1. inv[u] \in Invoices /\ results[u] \in Seq(CalculationRow)
  BY DEF IInv, Shape
<1>2. StepsOf(inv[u]) \in Nat /\ Len(results[u]) \in Nat
  BY <1>1, InvoiceGroups
<1>3. Pending(u) \in 1..StepsOf(inv[u])
  BY <1>2 DEF IInv, UploadInv, Pending
<1> QED
  BY <1>1, <1>3, RowsAreRows DEF IInv, UploadInv

\* What each action does to the invariant.
LEMMA UpsertKeepsRows ==
  ASSUME RowsInv, NEW row \in CalculationRow, Within(row), Upsert(row)
  PROVE  RowsInv'
BY DEF RowsInv, Upsert, Within, SameKey

\* The steps of another upload leave u alone.
LEMMA UploadFrame ==
  ASSUME IInv, NEW u \in Uploads, inv' = inv, city'[u] = city[u], results'[u] = results[u],
         pc'[u] \in {pc[u], "failed"}
  PROVE  UploadInv(u)'
<1>1. UploadInv(u)
  BY DEF IInv
<1>2. \A n : RowAt(u, n)' = RowAt(u, n)
  BY DEF RowAt, Row
<1>3. StepsOf(inv[u])' = StepsOf(inv[u])
  OBVIOUS
<1> QED
  BY <1>1, <1>2, <1>3 DEF UploadInv

\* The reads keep it.
LEMMA FindReferenceDataKeeps ==
  ASSUME IInv, NEW u \in Uploads, FindReferenceData(u)
  PROVE  IInv'
<1>1. PICK c \in FindCityByName(inv[u].city) : city' = [city EXCEPT ![u] = c]
  BY DEF FindReferenceData
<1>2. inv[u] \in Invoice /\ StepsOf(inv[u]) \in Nat
  BY InvoiceGroups DEF IInv, Shape
<1>3. c \in Cities \cup {NoCity}
  <2>1. inv[u].city \in DOMAIN Matches
    BY <1>2 DEF Invoice
  <2>2. Matches[inv[u].city] \in SUBSET Cities
    BY <2>1, TablesAssumption DEF TablesAreSeeded
  <2> QED
    BY <2>2 DEF FindCityByName
<1>4. Shape'
  BY <1>1, <1>3 DEF FindReferenceData, IInv, Shape, Goto, Finished
<1>5. RowsInv'
  BY DEF FindReferenceData, IInv, RowsInv, Within, SameKey
<1>6. UploadInv(u)'
  <2>1. results[u] = <<>> /\ Len(results[u]) = 0
    BY DEF FindReferenceData, IInv, UploadInv
  <2>2. pc'[u] = IF StepsOf(inv[u]) = 0 THEN "calculated" ELSE "persist"
    BY DEF FindReferenceData, Goto, IInv, Shape
  <2>3. inv' = inv /\ results' = results /\ Ready(inv[u])
    BY DEF FindReferenceData
  <2>4. StepsOf(inv[u])' = StepsOf(inv[u])
    BY <2>3
  <2> QED
    BY <1>2, <2>1, <2>2, <2>3, <2>4 DEF UploadInv
<1>7. ASSUME NEW v \in Uploads, v # u
      PROVE  UploadInv(v)'
  <2>1. /\ inv' = inv /\ results'[v] = results[v]
        /\ pc'[v] = pc[v] /\ city'[v] = city[v]
    BY <1>1, <1>7 DEF FindReferenceData, Goto, IInv, Shape
  <2> QED
    BY <2>1, UploadFrame
<1> QED
  BY <1>4, <1>5, <1>6, <1>7 DEF IInv

\* An upsert keeps it.
LEMMA PersistKeeps ==
  ASSUME IInv, NEW u \in Uploads, Persist(u)
  PROVE  IInv'
<1> DEFINE row == RowAt(u, Pending(u))
<1>1. /\ pc[u] = "persist" /\ Upsert(row) /\ inv' = inv /\ city' = city
      /\ results' = [results EXCEPT ![u] = Append(results[u], row)]
      /\ pc' = [pc EXCEPT ![u] = IF Pending(u) = StepsOf(inv[u])
                                 THEN "calculated" ELSE "persist"]
  BY DEF Persist, Goto, RowAt
<1>2. /\ Pending(u) \in 1..StepsOf(inv[u])
      /\ row \in CalculationRow /\ Within(row)
  BY <1>1, PendingRow DEF IsRow
<1>3. /\ results[u] \in Seq(CalculationRow) /\ Len(results[u]) \in Nat
      /\ StepsOf(inv[u]) \in Nat
  BY InvoiceGroups DEF IInv, Shape
<1>4. \A n : RowAt(u, n)' = RowAt(u, n)
  BY <1>1 DEF RowAt, Row
<1> HIDE DEF row
<1>5. /\ results'[u] \in Seq(CalculationRow)
      /\ Len(results'[u]) = Pending(u)
      /\ results'[u][Pending(u)] = row
      /\ \A n \in 1..Len(results[u]) : results'[u][n] = results[u][n]
  <2>1. results'[u] = Append(results[u], row)
    BY <1>1 DEF IInv, Shape
  <2> QED
    BY <1>2, <1>3, <2>1, AppendProperties DEF Pending
<1>6. Shape'
  <2>1. results' \in [Uploads -> Seq(CalculationRow)]
    <3>1. Append(results[u], row) \in Seq(CalculationRow)
      BY <1>2, <1>3, AppendProperties
    <3> QED
      BY <1>1, <3>1 DEF IInv, Shape
  <2> QED
    BY <1>1, <2>1 DEF IInv, Shape, Finished
<1>7. RowsInv'
  BY <1>1, <1>2, UpsertKeepsRows DEF IInv
<1>8. UploadInv(u)'
  <2>1. \A n \in 1..Pending(u) : results'[u][n] = RowAt(u, n)
    BY <1>3, <1>5 DEF row, IInv, UploadInv, Pending
  <2>2. pc'[u] = IF Pending(u) = StepsOf(inv[u]) THEN "calculated" ELSE "persist"
    BY <1>1 DEF IInv, Shape
  <2>3. StepsOf(inv[u])' = StepsOf(inv[u])
    BY <1>1
  <2>4. Ready(inv[u])
    BY <1>1 DEF IInv, UploadInv
  <2> QED
    BY <1>1, <1>2, <1>3, <1>4, <1>5, <2>1, <2>2, <2>3, <2>4 DEF UploadInv
<1>9. ASSUME NEW v \in Uploads, v # u
      PROVE  UploadInv(v)'
  <2>1. results'[v] = results[v] /\ pc'[v] = pc[v]
    BY <1>1, <1>9 DEF IInv, Shape
  <2> QED
    BY <1>1, <2>1, UploadFrame
<1> QED
  BY <1>6, <1>7, <1>8, <1>9 DEF IInv

\* A failure keeps it.
LEMMA FailKeeps ==
  ASSUME IInv, NEW u \in Uploads, Fail(u) \/ UpsertUnacknowledged(u)
  PROVE  IInv'
<1>1. inv' = inv /\ city' = city /\ results' = results /\ pc' = [pc EXCEPT ![u] = "failed"]
  BY DEF Fail, UpsertUnacknowledged, Goto
<1>2. Shape'
  BY <1>1 DEF IInv, Shape, Finished
<1>3. RowsInv'
  <2>1. CASE UNCHANGED calculations
    BY <2>1 DEF IInv, RowsInv, Within, SameKey
  <2>2. CASE UpsertUnacknowledged(u)
    <3>1. RowAt(u, Pending(u)) \in CalculationRow /\ Within(RowAt(u, Pending(u)))
      BY <2>2, PendingRow DEF IsRow, UpsertUnacknowledged
    <3> QED
      BY <2>2, <3>1, UpsertKeepsRows DEF IInv, UpsertUnacknowledged
  <2> QED
    BY <2>1, <2>2 DEF Fail
<1>4. ASSUME NEW v \in Uploads
      PROVE  UploadInv(v)'
  <2>1. pc'[v] \in {pc[v], "failed"}
    BY <1>1 DEF IInv, Shape
  <2> QED
    BY <1>1, <2>1, UploadFrame
<1> QED
  BY <1>2, <1>3, <1>4 DEF IInv

\* A stutter keeps it.
LEMMA StutterKeeps ==
  ASSUME IInv, UNCHANGED vars
  PROVE  IInv'
<1>1. Shape' /\ RowsInv'
  BY DEF vars, IInv, Shape, RowsInv, Within, SameKey
<1>2. ASSUME NEW u \in Uploads
      PROVE  UploadInv(u)'
  BY UploadFrame DEF vars
<1> QED
  BY <1>1, <1>2 DEF IInv

\* Every step keeps the invariant.
LEMMA NextInv == IInv /\ [Next]_vars => IInv'
BY FindReferenceDataKeeps, PersistKeeps, FailKeeps, StutterKeeps DEF Next, Terminated

\* An upload that has calculated has a result for every line's concept and tax.
LEMMA CalculatedIsComplete ==
  ASSUME IInv, NEW u \in Uploads, pc[u] = "calculated"
  PROVE  \A k \in DOMAIN inv[u].lines : \A tax \in TaxTypes :
           \E n \in DOMAIN results[u] :
             /\ results[u][n].invoice = inv[u].id
             /\ results[u][n].concept = ConceptColumn(inv[u].lines[k].concept)
             /\ results[u][n].tax = tax
<1> SUFFICES ASSUME NEW k \in DOMAIN inv[u].lines, NEW tax \in TaxTypes
             PROVE  \E n \in DOMAIN results[u] :
                      /\ results[u][n].invoice = inv[u].id
                      /\ results[u][n].concept = ConceptColumn(inv[u].lines[k].concept)
                      /\ results[u][n].tax = tax
  OBVIOUS
<1>1. /\ inv[u] \in Invoices
      /\ results[u] \in Seq(CalculationRow)
      /\ Ready(inv[u])
      /\ Len(results[u]) = StepsOf(inv[u])
      /\ \A n \in 1..Len(results[u]) : results[u][n] = RowAt(u, n)
  BY DEF IInv, Shape, UploadInv
<1>2. PICK n \in 1..StepsOf(inv[u]) :
        /\ RowAt(u, n).invoice = inv[u].id
        /\ RowAt(u, n).concept = ConceptColumn(inv[u].lines[k].concept)
        /\ RowAt(u, n).tax = tax
  BY <1>1, EveryConceptHasItsSteps
<1>3. n \in DOMAIN results[u]
  BY <1>1
<1> QED
  BY <1>1, <1>2, <1>3

\* The invariant holds in every reachable state.
THEOREM Invariance == Spec => []IInv
BY InitInv, NextInv, PTL DEF Spec

\* The state of the calculations is well typed, and an upload at work has a row
\* left to persist.
THEOREM TypeCorrect == Spec => []TypeOK
<1>1. ASSUME IInv
      PROVE  TypeOK
  <2>1. \A u \in Uploads : pc[u] = "persist" => Pending(u) =< StepsOf(inv[u])
    BY <1>1, PendingRow
  <2> QED
    BY <1>1, <2>1 DEF IInv, Shape, RowsInv, TypeOK
<1> QED
  BY <1>1, Invariance, PTL

\* Nothing stored is negative or more than its base, whatever the lines add up
\* to and however base and value are rounded.
THEOREM WithheldCorrect == Spec => []WithheldWithinBase
<1>1. IInv => WithheldWithinBase
  BY DEF IInv, RowsInv, WithheldWithinBase
<1> QED
  BY <1>1, Invariance, PTL

\* A tariff applied is that of the rule in force that took effect last, for the
\* concept, the tax and, for RETEICA, the city.
THEOREM TariffCorrect == Spec => []TariffIsInForce
<1>1. ASSUME IInv, NEW u \in Uploads, NEW row \in ToSet(results[u]), row.tariff # 0
      PROVE  \E rule \in TaxRules :
               /\ rule.tax = row.tax /\ rule.concept = row.concept
               /\ rule.tariff = row.tariff
               /\ rule.city = IF row.tax = "RETEICA" THEN city[u] ELSE NoCity
               /\ InForce(rule, inv[u].date)
               /\ ~ \E later \in TaxRules :
                     /\ later.tax = rule.tax /\ later.concept = rule.concept
                     /\ later.city = rule.city /\ later.from > rule.from
                     /\ InForce(later, inv[u].date)
  <2>1. inv[u] \in Invoices /\ results[u] \in Seq(CalculationRow)
    BY <1>1 DEF IInv, Shape
  <2>2. PICK n \in 1..Len(results[u]) : row = results[u][n]
    BY <1>1, <2>1 DEF ToSet
  <2>3. n \in 1..StepsOf(inv[u]) /\ row = RowAt(u, n) /\ Ready(inv[u])
    BY <1>1, <2>1, <2>2, InvoiceGroups DEF IInv, UploadInv
  <2>4. IsRow(row, inv[u], n, city[u])
    BY <2>1, <2>3, RowsAreRows
  <2> DEFINE where == CityOf(row.tax, city[u])
             at    == inv[u].date
  <2>5. PICK rule \in FindApplicable(row.tax, row.concept, where, at) :
          row.tariff = rule.tariff
    BY <1>1, <2>4 DEF IsRow, FromRule
  <2>6. /\ rule \in TaxRules /\ rule.tax = row.tax /\ rule.concept = row.concept
        /\ rule.city = where
    BY ApplicableRules
  <2>7. at \in Int
    BY <2>1, InvoicesAssumption DEF Invoice
  <2>8. ASSUME NEW r \in TaxRules
        PROVE  InForce(r, at) <=> ValidAt(r, at)
    <3>1. r.to \in Int \cup {NoEnd}
      BY TablesAssumption DEF TablesAreSeeded, Rule
    <3> QED
      BY <2>7, <3>1 DEF InForce, ValidAt
  <2>9. /\ ValidAt(rule, at)
        /\ \A q \in TaxRules :
             (/\ q.tax = row.tax /\ q.concept = row.concept /\ q.city = where
              /\ ValidAt(q, at))
                => rule.from > q.from \/ rule.from = q.from
    BY <2>5 DEF FindApplicable, Applicable, Latest
  <2>10. \A q \in TaxRules : q.from \in Int
    BY TablesAssumption DEF TablesAreSeeded, Rule
  <2>11. ASSUME NEW later \in TaxRules,
                later.tax = rule.tax, later.concept = rule.concept,
                later.city = rule.city, later.from > rule.from, InForce(later, at)
         PROVE  FALSE
    BY <2>6, <2>8, <2>9, <2>10, <2>11
  <2> QED
    BY <2>5, <2>6, <2>8, <2>9, <2>11 DEF CityOf
<1>2. IInv => TariffIsInForce
  BY <1>1 DEF TariffIsInForce
<1> QED
  BY <1>2, Invariance, PTL

\* A group has the sums of the lines whose column has its concept.
LinesUnder(i, column) ==
  {k \in DOMAIN i.lines : ConceptColumn(i.lines[k].concept) = column}

\* A group has the sums of the lines of its concept.
LEMMA GroupSums ==
  ASSUME NEW i \in Invoices, NEW group \in ToSet(groupLinesByConcept(i.lines))
  PROVE  LET under == LinesUnder(i, ConceptColumn(group.concept))
         IN  /\ group.total = SumFunctionOnSet(TotalsOf(i.lines), under)
             /\ group.iva = SumFunctionOnSet(IvasOf(i.lines), under)
<1> DEFINE groups == groupLinesByConcept(i.lines)
<1>1. i.lines \in Seq(Group) /\ DOMAIN i.lines = 1..Len(i.lines)
  <2>1. i.lines \in Seq(Line)
    BY InvoicesAssumption DEF Invoice
  <2> QED
    BY <2>1 DEF Line, Group, Amounts
<1>2. GroupsAddUp(i.lines, groups, Len(i.lines))
  BY <1>1, OneGroupPerConcept DEF Group
<1>3. group \in Group
  BY InvoiceGroups DEF ToSet
<1>4. /\ group.total = SumFunctionOnSet(TotalsOf(i.lines),
                                        LinesOf(i.lines, Len(i.lines), group.concept))
      /\ group.iva = SumFunctionOnSet(IvasOf(i.lines),
                                      LinesOf(i.lines, Len(i.lines), group.concept))
  BY <1>2 DEF GroupsAddUp, AddsUp, ToSet
<1>5. LinesOf(i.lines, Len(i.lines), group.concept) =
        LinesUnder(i, ConceptColumn(group.concept))
  <2>1. group.concept \in Concepts \cup {Null}
    BY <1>3 DEF Group, Amounts
  <2>2. \A k \in DOMAIN i.lines : i.lines[k].concept \in Concepts \cup {Null}
    <3>1. \A k \in DOMAIN i.lines : i.lines[k] \in Group
      BY <1>1
    <3> QED
      BY <3>1 DEF Group, Amounts
  <2>3. ASSUME NEW k \in DOMAIN i.lines
        PROVE  i.lines[k].concept = group.concept <=>
                 ConceptColumn(i.lines[k].concept) = ConceptColumn(group.concept)
    BY <2>1, <2>2, ConceptColumnIsInjective
  <2> QED
    BY <1>1, <2>3 DEF LinesOf, LinesUnder
<1> QED
  BY <1>4, <1>5

\* The rule that is alone in force is the one that is looked up.
OnlyInForce(rule, tax, concept, where, at) ==
  {r \in TaxRules : r.tax = tax /\ r.concept = concept /\ r.city = where
                      /\ InForce(r, at)} = {rule}

\* The only rule in force is the one found.
LEMMA OnlyRule ==
  ASSUME NEW tax, NEW concept, NEW where, NEW at \in Int, NEW rule,
         OnlyInForce(rule, tax, concept, where, at)
  PROVE  FindApplicable(tax, concept, where, at) = {rule}
<1>1. ASSUME NEW r \in TaxRules
      PROVE  InForce(r, at) <=> ValidAt(r, at)
  <2>1. r.to \in Int \cup {NoEnd}
    BY TablesAssumption DEF TablesAreSeeded, Rule
  <2> QED
    BY <2>1 DEF InForce, ValidAt
<1>2. {r \in TaxRules : r.tax = tax /\ r.concept = concept /\ r.city = where
                          /\ ValidAt(r, at)} = {rule}
  BY <1>1 DEF OnlyInForce
<1>3. rule \in TaxRules
  BY DEF OnlyInForce
<1>4. rule.from \in Int /\ rule.id \in Nat
  BY <1>3, TablesAssumption DEF TablesAreSeeded, Rule
<1>5. Latest({rule}) = {rule}
  BY <1>4 DEF Latest
<1> QED
  BY <1>2, <1>5 DEF FindApplicable, Applicable

\* The minimum base is weighed against the total of a concept, wherever its
\* lines stand in an invoice of any length.
THEOREM ThresholdCorrect == Spec => []ThresholdIsPerInvoice
<1> DEFINE Rules(u, row) ==
             {r \in TaxRules : r.tax = "RETEFUENTE" /\ r.concept = row.concept
                                 /\ r.city = NoCity /\ InForce(r, inv[u].date)}
           Reaches(u, row, rule) ==
             Round(TotalOf(inv[u], row.concept), Fraction) >= MinimumBase(rule, Uvt(inv[u]))
<1>1. ASSUME IInv, NEW u \in Uploads, NEW row \in ToSet(results[u]),
             row.tax = "RETEFUENTE", NEW rule \in Rules(u, row),
             Rules(u, row) = {rule}
      PROVE  row.tariff = IF Reaches(u, row, rule) THEN rule.tariff ELSE 0
  <2>1. inv[u] \in Invoices /\ results[u] \in Seq(CalculationRow)
    BY <1>1 DEF IInv, Shape
  <2>2. PICK n \in 1..Len(results[u]) : row = results[u][n]
    BY <1>1, <2>1 DEF ToSet
  <2>3. n \in 1..StepsOf(inv[u]) /\ row = RowAt(u, n) /\ Ready(inv[u])
    BY <1>1, <2>1, <2>2, InvoiceGroups DEF IInv, UploadInv
  <2> DEFINE group == GroupAt(inv[u], n)
             base  == Round(group.total, Fraction)
             least == MinimumBase(rule, Uvt(inv[u]))
  <2>4. /\ group \in ToSet(groupLinesByConcept(inv[u].lines))
        /\ group \in Group
    BY <2>1, <2>3, StepsType DEF GroupAt, ToSet
  <2>5. /\ row.concept = ConceptColumn(group.concept)
        /\ TaxAt(n) = "RETEFUENTE"
    BY <1>1, <2>1, <2>3, RowsAreRows DEF IsRow
  <2>6. /\ rule \in Rule /\ rule \in TaxRules /\ rule.tax = "RETEFUENTE"
        /\ rule.concept = row.concept
    BY TablesAssumption DEF TablesAreSeeded
  <2>7. group.concept # Null /\ group.concept = row.concept
    <3>1. row.concept \in Concepts
      BY <2>6 DEF Rule
    <3> QED
      BY <2>5, <3>1, ConceptsAssumption DEF ConceptColumn
  <2>8. FindApplicable("RETEFUENTE", group.concept, NoCity, inv[u].date) = {rule}
    <3>1. OnlyInForce(rule, "RETEFUENTE", group.concept, NoCity, inv[u].date)
      BY <1>1, <2>7 DEF OnlyInForce
    <3>2. inv[u].date \in Int
      BY <2>1, InvoicesAssumption DEF Invoice
    <3> QED
      BY <3>1, <3>2, OnlyRule
  <2>9. Calculate(inv[u], city[u], group, "RETEFUENTE") =
          CalculateWithMinimumBase(rule, Uvt(inv[u]), group.total)
    BY <2>7, <2>8 DEF Calculate, calculateMinimumBaseTax
  <2>10. row.tariff = CalculateWithMinimumBase(rule, Uvt(inv[u]), group.total).tariff
    BY <2>3, <2>5, <2>9 DEF RowAt, Row, CalculateWithMinimumBase, Calculation
  <2>11. base \in Int /\ least \in Nat
    <3>1. group.total \in Int
      BY <2>4 DEF Group, Amounts
    <3>2. Uvt(inv[u]) \in Nat /\ rule.minBase \in Nat
      BY <2>3, <2>6, UvtType DEF Ready, Rule
    <3>3. base \in Int
      BY <3>1, RoundType, FractionAssumption
    <3>4. least \in Nat
      <4> DEFINE uvt == Uvt(inv[u])
                 min == rule.minBase
      <4>1. uvt \in Nat /\ min \in Nat
        BY <3>2
      <4> HIDE DEF uvt, min
      <4>2. min * uvt \in Nat
        BY <4>1, ProductIsMonotonic
      <4>3. Round(min * uvt, 100) \in Nat
        <5> DEFINE x == min * uvt
        <5>1. x \in Nat
          BY <4>2
        <5> HIDE DEF x
        <5>2. 100 \in Nat \ {0}
          OBVIOUS
        <5>3. Round(x, 100) \in Nat
          BY <5>1, <5>2, RoundNat
        <5> QED
          BY <5>3 DEF x
      <4> QED
        BY <4>3 DEF MinimumBase, uvt, min
    <3> QED
      BY <3>3, <3>4
  <2>12. row.tariff = IF base < least THEN 0 ELSE rule.tariff
    BY <2>10 DEF CalculateWithMinimumBase, Calculation
  <2>13. group.total = TotalOf(inv[u], row.concept)
    BY <2>1, <2>4, <2>5, GroupSums DEF TotalOf, TotalsOf, LinesUnder
  <2> QED
    BY <2>11, <2>12, <2>13
<1>2. IInv => ThresholdIsPerInvoice
  BY <1>1 DEF ThresholdIsPerInvoice
<1> QED
  BY <1>2, Invariance, PTL

\* What a tax is computed on: the sum of an amount of the lines, rounded once.
Amount(tax, line) == IF tax = "RETEIVA" THEN line.iva ELSE line.total

\* The base under a tariff is the group's amount, rounded once.
LEMMA BaseOfTariff ==
  ASSUME NEW i, NEW where, NEW group, NEW tax \in TaxTypes,
         Calculate(i, where, group, tax).tariff # 0
  PROVE  Calculate(i, where, group, tax).base = Round(Amount(tax, group), Fraction)
<1>1. NotApplicable(tax).tariff = 0
  BY DEF NotApplicable, Calculation
<1>2. \A rule, uvt, amount :
        CalculateWithMinimumBase(rule, uvt, amount).base = Round(amount, Fraction)
  BY DEF CalculateWithMinimumBase, Calculation
<1>3. \A rule, amount : CalculateReteiva(rule, amount).base = Round(amount, Fraction)
  BY DEF CalculateReteiva, Calculation
<1>4. ASSUME NEW at, calculateMinimumBaseTax(tax, i, group, at).tariff # 0
      PROVE  calculateMinimumBaseTax(tax, i, group, at).base = Round(group.total, Fraction)
  BY <1>1, <1>2, <1>4 DEF calculateMinimumBaseTax
<1>5. group.concept # Null
  BY <1>1 DEF Calculate
<1>6. CASE tax = "RETEFUENTE"
  BY <1>4, <1>5, <1>6 DEF Calculate, Amount
<1>7. CASE tax = "RETEIVA"
  BY <1>1, <1>3, <1>5, <1>7 DEF Calculate, Amount, calculateReteiva
<1>8. CASE tax = "RETEICA"
  BY <1>1, <1>4, <1>5, <1>8 DEF Calculate, Amount, calculateReteica
<1> QED
  BY <1>6, <1>7, <1>8 DEF TaxTypes

\* A base and the sum of the lines' amounts, each of them rounded.
RoundedFor(i, tax) ==
  [k \in DOMAIN i.lines |-> Round(Amount(tax, i.lines[k]), Fraction)]

BaseIsNear(i, row) ==
  LET under == LinesUnder(i, row.concept)
  IN  2 * (row.base - SumFunctionOnSet(RoundedFor(i, row.tax), under))
        \in -(Cardinality(under) + 1)..(Cardinality(under) + 1)

\* Bases are near the sums of the lines.
LEMMA BasesAreNear ==
  ASSUME IInv, NEW u \in Uploads, NEW n \in DOMAIN results[u], results[u][n].tariff # 0
  PROVE  BaseIsNear(inv[u], results[u][n])
<1> DEFINE i     == inv[u]
           row   == results[u][n]
           group == GroupAt(i, n)
           under == LinesUnder(i, row.concept)
           v     == [k \in DOMAIN i.lines |-> Amount(row.tax, i.lines[k])]
           w     == RoundedFor(i, row.tax)
<1>1. i \in Invoices /\ results[u] \in Seq(CalculationRow)
  BY DEF IInv, Shape
<1>2. n \in 1..StepsOf(i) /\ row = RowAt(u, n) /\ Ready(i)
  BY <1>1, InvoiceGroups DEF IInv, UploadInv
<1>3. /\ group \in ToSet(groupLinesByConcept(i.lines))
      /\ TaxAt(n) \in TaxTypes
  BY <1>1, <1>2, StepsType DEF GroupAt, ToSet
<1>4. row.tax = TaxAt(n) /\ row.concept = ConceptColumn(group.concept)
  BY <1>1, <1>2, RowsAreRows DEF IsRow
<1>5. row.base = Round(Amount(row.tax, group), Fraction)
  <2> DEFINE c == Calculate(i, city[u], group, TaxAt(n))
  <2>1. row = [c EXCEPT !.invoice = i.id, !.concept = ConceptColumn(group.concept)]
    BY <1>2 DEF RowAt, Row
  <2>2. IsCalculation(c, TaxAt(n))
    BY <1>1, <1>2, <1>3, StepsType, CalculateIsCalculation DEF Ready
  <2> HIDE DEF c, row
  <2>3. row.tariff = c.tariff /\ row.base = c.base
    BY <2>1, <2>2 DEF IsCalculation, Calculation
  <2>4. c.tariff # 0
    BY <2>3 DEF row
  <2> QED
    BY <1>3, <1>4, <2>3, <2>4, BaseOfTariff DEF c
<1>6. i.lines \in Seq(Line) /\ IsFiniteSet(DOMAIN i.lines)
  <2>1. i.lines \in Seq(Line)
    BY <1>1, InvoicesAssumption DEF Invoice
  <2>2. PICK m \in Nat : DOMAIN i.lines = 1..m
    BY <2>1
  <2>3. IsFiniteSet(1..m)
    BY FS_Interval
  <2> QED
    BY <2>1, <2>2, <2>3
<1>7. under \in SUBSET DOMAIN i.lines /\ IsFiniteSet(under)
  BY <1>6, FS_Subset DEF LinesUnder
<1>8. Amount(row.tax, group) = SumFunctionOnSet(v, under)
  <2>1. /\ group.total = SumFunctionOnSet(TotalsOf(i.lines), under)
        /\ group.iva = SumFunctionOnSet(IvasOf(i.lines), under)
    BY <1>1, <1>3, <1>4, GroupSums
  <2>2. CASE row.tax = "RETEIVA"
    <3>1. v = IvasOf(i.lines)
      BY <2>2 DEF Amount, IvasOf
    <3> QED
      BY <2>1, <2>2, <3>1 DEF Amount
  <2>3. CASE row.tax # "RETEIVA"
    <3>1. v = TotalsOf(i.lines)
      BY <2>3 DEF Amount, TotalsOf
    <3> QED
      BY <2>1, <2>3, <3>1 DEF Amount
  <2> QED
    BY <2>2, <2>3
<1>9. v \in [DOMAIN i.lines -> Int]
  <2>1. \A k \in DOMAIN i.lines : i.lines[k] \in Line
    BY <1>6
  <2> QED
    BY <2>1 DEF Line, Amount
<1>10. /\ w \in [DOMAIN i.lines -> Int]
       /\ \A k \in under : w[k] = Round(v[k], Fraction)
  <2>1. \A k \in DOMAIN i.lines : Round(v[k], Fraction) \in Int
    BY <1>9, RoundType, FractionAssumption
  <2> QED
    BY <1>7, <2>1 DEF RoundedFor
<1> HIDE DEF v, w, under
<1>11. 2 * (Round(SumFunctionOnSet(v, under), Fraction) - SumFunctionOnSet(w, under))
         \in -(Cardinality(under) + 1)..(Cardinality(under) + 1)
  BY <1>7, <1>9, <1>10, FractionAssumption, RoundedSums
<1> QED
  BY <1>5, <1>8, <1>11 DEF BaseIsNear, w, under

-----------------------------------------------------------------------------
(* The order of an invoice's lines.                                        *)

OncePerRow(rows) == \A n, m \in DOMAIN rows : rows[n] = rows[m] => n = m

\* The rows that carry a tax's values, and 0 for the others.
ValuesOf(tax) == [row \in CalculationRow |-> IF row.tax = tax THEN row.value ELSE 0]

\* The summary does not depend on the order of rows that are all different.
LEMMA SummaryRuns ==
  ASSUME NEW tax \in TaxTypes, NEW rows \in Seq(CalculationRow)
  PROVE  \E g : /\ g[0] = 0
                /\ \A k \in 0..Len(rows) - 1 : g[k + 1] = g[k] + ValuesOf(tax)[rows[k + 1]]
                /\ \A k \in 0..Len(rows) : g[k] \in Int
                /\ g[Len(rows)] = SummarizeByTaxType(rows)[tax]
<1> DEFINE n == Len(rows)
           Add(sum, c) == IF c.tax = tax THEN sum + c.value ELSE sum
           F == [p \in Int \X CalculationRow |-> Add(p[1], p[2])]
           Passes(f) == f = [s \in SUBSET (1..n) |->
                               IF s = {} THEN 0
                               ELSE Add(f[s \ {Max(s)}], rows[Max(s)])]
           iter == CHOOSE f : Passes(f)
           g == [k \in 0..n |-> iter[1..k]]
<1>1. n \in Nat /\ DOMAIN rows = 1..n /\ \A k \in 1..n : rows[k] \in CalculationRow
  OBVIOUS
<1>2. \A sum \in Int : \A c \in CalculationRow :
         Add(sum, c) \in Int /\ Add(sum, c) = sum + ValuesOf(tax)[c]
  BY DEF CalculationRow, ValuesOf
<1>3. F \in [Int \X CalculationRow -> Int]
  <2>1. \A p \in Int \X CalculationRow : p[1] \in Int /\ p[2] \in CalculationRow
    OBVIOUS
  <2> HIDE DEF Add
  <2>2. \A p \in Int \X CalculationRow : Add(p[1], p[2]) \in Int
    BY <1>2, <2>1
  <2> QED
    BY <2>2
<1>4. PICK f \in [SUBSET (1..n) -> Int] : IsFold(f, F, 0, rows, n)
  <2>1. 0 \in Int
    OBVIOUS
  <2> HIDE DEF F
  <2>2. HasFold(Int, F, 0, rows, Len(rows))
    BY <1>3, <2>1, FoldExists
  <2> QED
    BY <2>2 DEF HasFold
<1>5. Passes(f)
  <2>1. ASSUME NEW s \in SUBSET (1..n), s # {}
        PROVE  f[s \ {Max(s)}] \in Int /\ rows[Max(s)] \in CalculationRow
    <3>1. Max(s) \in s
      BY <1>1, <2>1, LastPosition
    <3> QED
      BY <1>1, <1>4, <3>1
  <2>2. \A a \in Int : \A e \in CalculationRow : F[a, e] = Add(a, e)
    OBVIOUS
  <2> HIDE DEF F, Add
  <2> QED
    BY <1>4, <2>1, <2>2 DEF IsFold
<1>6. Passes(iter)
  <2> HIDE DEF Passes
  <2> QED
    BY <1>5
<1>7. SummarizeByTaxType(rows)[tax] = iter[1..n]
  BY <1>1 DEF SummarizeByTaxType, FoldLeft, MapThenFoldSet
<1> HIDE DEF iter, Add
<1>8. g[0] = 0
  <2>1. 1..0 = {} /\ 1..0 \in SUBSET (1..n) /\ 0 \in 0..n
    BY <1>1
  <2> QED
    BY <1>6, <2>1
<1>9. ASSUME NEW k \in 0..n - 1
      PROVE  g[k + 1] = Add(g[k], rows[k + 1]) /\ rows[k + 1] \in CalculationRow
  <2>1. rows[k + 1] \in CalculationRow
    BY <1>1
  <2> HIDE DEF n
  <2>2. /\ 1..k + 1 \in SUBSET (1..n) /\ 1..k + 1 # {}
        /\ Max(1..k + 1) = k + 1 /\ (1..k + 1) \ {k + 1} = 1..k
        /\ k \in 0..n /\ k + 1 \in 0..n
    BY <1>1, FirstPositions
  <2>3. iter[1..k + 1] = Add(iter[1..k], rows[k + 1])
    BY <1>6, <2>2
  <2> QED
    BY <2>1, <2>2, <2>3
<1>10. g[n] = SummarizeByTaxType(rows)[tax]
  BY <1>1, <1>7
<1> HIDE DEF g
<1> DEFINE T == {k \in Nat : k =< n => g[k] \in Int}
<1>11. 0 \in T
  BY <1>8
<1>12. ASSUME NEW k \in T
       PROVE  k + 1 \in T
  <2> SUFFICES ASSUME k + 1 =< n
               PROVE  g[k + 1] \in Int
    OBVIOUS
  <2>1. k \in 0..n - 1 /\ g[k] \in Int
    BY <1>1
  <2> QED
    BY <1>2, <1>9, <2>1
<1> HIDE DEF T
<1>13. T = Nat
  <2>1. T \in SUBSET Nat
    BY DEF T
  <2> QED
    BY <1>11, <1>12, <2>1, NatSetInduction
<1>14. \A k \in 0..n : g[k] \in Int
  BY <1>1, <1>13 DEF T
<1>15. \A k \in 0..n - 1 : g[k + 1] = g[k] + ValuesOf(tax)[rows[k + 1]]
  <2> SUFFICES ASSUME NEW k \in 0..n - 1
               PROVE  g[k + 1] = g[k] + ValuesOf(tax)[rows[k + 1]]
    OBVIOUS
  <2>1. k \in 0..n
    BY <1>1
  <2> QED
    BY <1>2, <1>9, <1>14, <2>1
<1> QED
  BY <1>8, <1>10, <1>14, <1>15

\* The summary of a tax is the sum over its results.
LEMMA SummaryIsSum ==
  ASSUME NEW tax \in TaxTypes, NEW rows \in Seq(CalculationRow), OncePerRow(rows)
  PROVE  SummarizeByTaxType(rows)[tax] = SumFunctionOnSet(ValuesOf(tax), ToSet(rows))
<1> DEFINE n == Len(rows)
           v == ValuesOf(tax)
           first(k) == {rows[i] : i \in 1..k}
<1>1. n \in Nat /\ DOMAIN rows = 1..n /\ \A k \in 1..n : rows[k] \in CalculationRow
  OBVIOUS
<1>2. v \in [CalculationRow -> Int]
  BY DEF ValuesOf, CalculationRow
<1>3. PICK g : /\ g[0] = 0
               /\ \A k \in 0..n - 1 : g[k + 1] = g[k] + v[rows[k + 1]]
               /\ \A k \in 0..n : g[k] \in Int
               /\ g[n] = SummarizeByTaxType(rows)[tax]
  BY SummaryRuns
<1> HIDE DEF v
<1>4. \A k \in 0..n : Summable(v, first(k))
  <2> SUFFICES ASSUME NEW k \in 0..n
               PROVE  Summable(v, first(k))
    OBVIOUS
  <2>1. first(k) \in SUBSET CalculationRow
    BY <1>1
  <2>2. IsFiniteSet(first(k))
    <3> DEFINE q == [i \in 1..k |-> rows[i]]
    <3>1. q \in Surjection(1..k, first(k))
      BY DEF Surjection
    <3>2. IsFiniteSet(1..k)
      BY FS_Interval
    <3> QED
      BY <3>1, <3>2, FS_Surjection
  <2> QED
    BY <1>2, <2>1, <2>2 DEF Summable
<1> DEFINE T == {k \in Nat : k =< n => g[k] = SumFunctionOnSet(v, first(k))}
<1>5. 0 \in T
  <2>1. first(0) = {}
    OBVIOUS
  <2> QED
    BY <1>2, <1>3, <2>1, SumOfNone
<1>6. ASSUME NEW k \in T
      PROVE  k + 1 \in T
  <2> SUFFICES ASSUME k + 1 =< n
               PROVE  g[k + 1] = SumFunctionOnSet(v, first(k + 1))
    OBVIOUS
  <2>1. k \in 0..n - 1 /\ k + 1 \in 0..n /\ k + 1 \in 1..n /\ k \in 0..n
    BY <1>1
  <2>2. g[k] = SumFunctionOnSet(v, first(k))
    BY <2>1
  <2>3. rows[k + 1] \in first(k + 1) /\ first(k + 1) \ {rows[k + 1]} = first(k)
    <3>1. \A i : i \in 1..k + 1 <=> i \in 1..k \/ i = k + 1
      BY <2>1
    <3>2. \A i \in 1..k : i # k + 1 /\ i \in DOMAIN rows
      BY <1>1, <2>1
    <3>3. \A i \in 1..k : rows[i] # rows[k + 1]
      BY <1>1, <2>1, <3>2 DEF OncePerRow
    <3> QED
      BY <3>1, <3>3
  <2>4. v[rows[k + 1]] \in Int
    BY <1>1, <1>2, <2>1
  <2>5. g[k + 1] = g[k] + v[rows[k + 1]] /\ g[k] \in Int
    BY <1>3, <2>1
  <2>6. Summable(v, first(k + 1))
    BY <1>4, <2>1
  <2> HIDE DEF first
  <2>7. SumFunctionOnSet(v, first(k + 1)) = v[rows[k + 1]] + SumFunctionOnSet(v, first(k))
    BY <2>3, <2>6, SumAddsOne
  <2> QED
    BY <2>2, <2>4, <2>5, <2>7
<1> HIDE DEF T
<1>7. T = Nat
  <2>1. T \in SUBSET Nat
    BY DEF T
  <2> QED
    BY <1>5, <1>6, <2>1, NatSetInduction
<1>8. first(n) = ToSet(rows)
  BY <1>1 DEF ToSet
<1>9. g[n] = SumFunctionOnSet(v, first(n))
  <2>1. n \in Nat /\ n =< n
    BY <1>1
  <2> HIDE DEF n, first
  <2> QED
    BY <1>7, <2>1 DEF T
<1> QED
  BY <1>3, <1>8, <1>9 DEF v

\* The lines of j are those of i in another order.
Reordered(i, j) ==
  /\ i.date = j.date /\ i.id = j.id
  /\ \E p \in Bijection(DOMAIN i.lines, DOMAIN i.lines) :
        j.lines = [k \in DOMAIN i.lines |-> i.lines[p[k]]]

\* What a concept's group is to be.
GroupOf(i, concept) ==
  LET under == LinesUnder(i, ConceptColumn(concept))
  IN  [concept |-> concept,
       total   |-> SumFunctionOnSet(TotalsOf(i.lines), under),
       iva     |-> SumFunctionOnSet(IvasOf(i.lines), under)]

\* The groups, as a set, are those of the concepts that occur.
LEMMA GroupsAreOfConcepts ==
  ASSUME NEW i \in Invoices
  PROVE  ToSet(groupLinesByConcept(i.lines)) = {GroupOf(i, c) : c \in ConceptsOf(i.lines)}
<1> DEFINE groups == groupLinesByConcept(i.lines)
<1>1. groups \in Seq(Group) /\ ConceptsOf(groups) = ConceptsOf(i.lines)
  BY InvoiceGroups
<1> HIDE DEF groups
<1>2. ASSUME NEW group \in ToSet(groups)
      PROVE  group = GroupOf(i, group.concept)
  <2>1. group \in Group
    BY <1>1 DEF ToSet
  <2>2. group = [concept |-> group.concept, total |-> group.total, iva |-> group.iva]
    BY <2>1 DEF Group, Amounts
  <2>3. /\ group.total = SumFunctionOnSet(TotalsOf(i.lines),
                                          LinesUnder(i, ConceptColumn(group.concept)))
        /\ group.iva = SumFunctionOnSet(IvasOf(i.lines),
                                        LinesUnder(i, ConceptColumn(group.concept)))
    BY <1>2, GroupSums DEF groups
  <2> QED
    BY <2>2, <2>3 DEF GroupOf
<1>3. ConceptsOf(groups) = {group.concept : group \in ToSet(groups)}
  BY DEF ConceptsOf, ToSet
<1> QED
  BY <1>1, <1>2, <1>3 DEF groups

\* The sums of a concept's lines, and so its group, do not depend on their order.
LEMMA ReorderedSum ==
  ASSUME NEW D, IsFiniteSet(D), NEW v \in [D -> Int], NEW w \in [D -> Int],
         NEW p \in Bijection(D, D), \A k \in D : w[k] = v[p[k]],
         NEW R \in SUBSET D, NEW S \in SUBSET D, \A k \in D : k \in S <=> p[k] \in R
  PROVE  SumFunctionOnSet(w, S) = SumFunctionOnSet(v, R)
<1>1. p \in Injection(D, D) /\ p \in Surjection(D, D)
  BY DEF Bijection
<1>2. p \in [D -> D] /\ \A x, y \in D : p[x] = p[y] => x = y
  BY <1>1 DEF Injection, IsInjective
<1>3. \A x \in D : \E y \in D : p[y] = x
  BY <1>1 DEF Surjection
<1>4. w = [k \in D |-> v[p[k]]]
  OBVIOUS
<1>5. ImageOf(p, S) = R
  BY <1>2, <1>3 DEF ImageOf
<1>6. IsFiniteSet(S)
  BY FS_Subset
<1> QED
  BY <1>2, <1>4, <1>5, <1>6, SumOfImage

\* Invoices that differ in the order of their lines have the same groups.
LEMMA ReorderedGroups ==
  ASSUME NEW i \in Invoices, NEW j \in Invoices, Reordered(i, j)
  PROVE  ToSet(groupLinesByConcept(i.lines)) = ToSet(groupLinesByConcept(j.lines))
<1> DEFINE D == DOMAIN i.lines
<1>1. /\ i.lines \in Seq(Group) /\ j.lines \in Seq(Group)
      /\ D = 1..Len(i.lines) /\ Len(i.lines) \in Nat
  <2>1. i.lines \in Seq(Line) /\ j.lines \in Seq(Line)
    BY InvoicesAssumption DEF Invoice
  <2> QED
    BY <2>1 DEF Line, Group, Amounts
<1>2. PICK p \in Bijection(D, D) : j.lines = [k \in D |-> i.lines[p[k]]]
  BY DEF Reordered
<1>3. p \in [D -> D] /\ \A x \in D : \E y \in D : p[y] = x
  <2>1. p \in Surjection(D, D)
    BY <1>2 DEF Bijection
  <2> QED
    BY <2>1 DEF Surjection
<1>4. DOMAIN j.lines = D /\ \A k \in D : j.lines[k] = i.lines[p[k]]
  BY <1>2
<1>5. IsFiniteSet(D)
  BY <1>1, FS_Interval
<1>6. /\ TotalsOf(i.lines) \in [D -> Int] /\ IvasOf(i.lines) \in [D -> Int]
      /\ TotalsOf(j.lines) \in [D -> Int] /\ IvasOf(j.lines) \in [D -> Int]
  BY <1>1, <1>4, ColumnsType DEF Group
<1> HIDE DEF D
<1>7. \A k \in D : /\ TotalsOf(j.lines)[k] = TotalsOf(i.lines)[p[k]]
                   /\ IvasOf(j.lines)[k] = IvasOf(i.lines)[p[k]]
  BY <1>3, <1>4 DEF TotalsOf, IvasOf, D
<1>8. ASSUME NEW c
      PROVE  GroupOf(i, c) = GroupOf(j, c)
  <2> DEFINE R == LinesUnder(i, ConceptColumn(c))
             S == LinesUnder(j, ConceptColumn(c))
  <2>1. R \in SUBSET D /\ S \in SUBSET D /\ \A k \in D : k \in S <=> p[k] \in R
    BY <1>3, <1>4 DEF LinesUnder, D
  <2> HIDE DEF R, S
  <2>2. SumFunctionOnSet(TotalsOf(j.lines), S) = SumFunctionOnSet(TotalsOf(i.lines), R)
    BY <1>5, <1>6, <1>7, <2>1, ReorderedSum
  <2>3. SumFunctionOnSet(IvasOf(j.lines), S) = SumFunctionOnSet(IvasOf(i.lines), R)
    BY <1>5, <1>6, <1>7, <2>1, ReorderedSum
  <2> QED
    BY <2>2, <2>3 DEF GroupOf, R, S
<1>9. ConceptsOf(i.lines) = ConceptsOf(j.lines)
  BY <1>3, <1>4 DEF ConceptsOf, D
<1> QED
  BY <1>8, <1>9, GroupsAreOfConcepts

\* An upload's results are, as a set, a row for each of its groups and taxes.
LEMMA ResultsAreRows ==
  ASSUME IInv, NEW u \in Uploads, pc[u] = "calculated"
  PROVE  /\ results[u] \in Seq(CalculationRow)
         /\ OncePerRow(results[u])
         /\ Len(results[u]) = Cardinality(ToSet(results[u]))
         /\ ToSet(results[u]) =
              {Row(u, group, tax) : group \in ToSet(groupLinesByConcept(inv[u].lines)),
                                    tax \in TaxTypes}
<1> DEFINE groups == groupLinesByConcept(inv[u].lines)
           n == Len(results[u])
<1>1. /\ inv[u] \in Invoices
      /\ results[u] \in Seq(CalculationRow)
      /\ Ready(inv[u])
      /\ n = StepsOf(inv[u])
      /\ \A k \in 1..n : results[u][k] = RowAt(u, k)
  BY DEF IInv, Shape, UploadInv
<1>2. n \in Nat /\ DOMAIN results[u] = 1..n
  BY <1>1
<1>3. OncePerRow(results[u])
  <2> SUFFICES ASSUME NEW k \in 1..n, NEW m \in 1..n, results[u][k] = results[u][m]
               PROVE  k = m
    BY <1>2 DEF OncePerRow
  <2>1. SameKey(RowAt(u, k), RowAt(u, m))
    BY <1>1 DEF SameKey
  <2> QED
    BY <1>1, <2>1, RowsHaveKeys
<1>4. n = Cardinality(ToSet(results[u]))
  <2>1. results[u] \in Bijection(1..n, ToSet(results[u]))
    <3>1. results[u] \in [1..n -> ToSet(results[u])]
      BY <1>1, <1>2 DEF ToSet
    <3>2. results[u] \in Injection(1..n, ToSet(results[u]))
      BY <1>2, <1>3, <3>1 DEF Injection, IsInjective, OncePerRow
    <3>3. results[u] \in Surjection(1..n, ToSet(results[u]))
      BY <1>2, <3>1 DEF Surjection, ToSet
    <3> QED
      BY <3>2, <3>3 DEF Bijection
  <2>2. ExistsBijection(1..n, ToSet(results[u]))
    BY <2>1 DEF ExistsBijection
  <2>3. IsFiniteSet(1..n) /\ Cardinality(1..n) = n
    BY <1>2, FS_Interval
  <2> QED
    BY <2>2, <2>3, FS_Bijection
<1>5. ASSUME NEW k \in 1..n
      PROVE  \E group \in ToSet(groups) : \E tax \in TaxTypes :
               results[u][k] = Row(u, group, tax)
  <2>1. k \in 1..StepsOf(inv[u]) /\ results[u][k] = Row(u, GroupAt(inv[u], k), TaxAt(k))
    BY <1>1 DEF RowAt
  <2>2. TaxAt(k) \in TaxTypes /\ GroupAt(inv[u], k) \in ToSet(groups)
    BY <1>1, <2>1, StepsType DEF GroupAt, ToSet
  <2> HIDE DEF groups
  <2> QED
    BY <2>1, <2>2
<1>6. ASSUME NEW group \in ToSet(groups), NEW tax \in TaxTypes
      PROVE  \E k \in 1..n : results[u][k] = Row(u, group, tax)
  <2>1. \E j \in DOMAIN groups : group = groups[j]
    <3> HIDE DEF groups
    <3> QED
      BY DEF ToSet
  <2>5. PICK j \in DOMAIN groups : group = groups[j]
    BY <2>1
  <2>6. \E k \in 1..StepsOf(inv[u]) :
          GroupAt(inv[u], k) = groupLinesByConcept(inv[u].lines)[j] /\ TaxAt(k) = tax
    <3>1. inv[u] \in Invoices /\ j \in DOMAIN groupLinesByConcept(inv[u].lines)
      BY <1>1
    <3> QED
      BY ONLY <3>1, tax \in TaxTypes, EveryGroupHasItsSteps
  <2>2. PICK k \in 1..StepsOf(inv[u]) : GroupAt(inv[u], k) = groups[j] /\ TaxAt(k) = tax
    BY <2>6
  <2>3. k \in 1..n /\ results[u][k] = Row(u, GroupAt(inv[u], k), TaxAt(k))
    BY <1>1 DEF RowAt
  <2> HIDE DEF groups
  <2> QED
    BY <2>5, <2>2, <2>3
<1> HIDE DEF groups, n
<1>7. ToSet(results[u]) = {Row(u, group, tax) : group \in ToSet(groups), tax \in TaxTypes}
  <2>1. ToSet(results[u]) = {results[u][k] : k \in 1..n}
    BY <1>2 DEF ToSet
  <2> QED
    BY <1>5, <1>6, <2>1
<1> QED
  BY <1>1, <1>3, <1>4, <1>7 DEF groups, n

\* An invoice of any length has one result for each tax and concept, and the same
\* results and summary whatever the order of its lines.
THEOREM OrderCorrect == Spec => []OrderOfLinesIsIrrelevant
<1>1. ASSUME IInv, NEW u \in Uploads, NEW v \in Uploads,
             pc[u] = "calculated", pc[v] = "calculated",
             Reordered(inv[u], inv[v]), city[u] = city[v]
      PROVE  /\ Len(results[u]) = Cardinality(ToSet(results[u]))
             /\ ToSet(results[u]) = ToSet(results[v])
             /\ SummarizeByTaxType(results[u]) = SummarizeByTaxType(results[v])
  <2>1. /\ results[u] \in Seq(CalculationRow) /\ OncePerRow(results[u])
        /\ results[v] \in Seq(CalculationRow) /\ OncePerRow(results[v])
        /\ Len(results[u]) = Cardinality(ToSet(results[u]))
    BY <1>1, ResultsAreRows
  <2>2. ASSUME NEW group, NEW tax
        PROVE  Row(u, group, tax) = Row(v, group, tax)
    <3>1. inv[u].id = inv[v].id /\ inv[u].date = inv[v].date
      BY <1>1 DEF Reordered
    <3>2. Calculate(inv[u], city[u], group, tax) = Calculate(inv[v], city[v], group, tax)
      BY <1>1, <3>1 DEF Calculate, calculateMinimumBaseTax, calculateReteiva,
         calculateReteica, Uvt
    <3> QED
      BY <3>1, <3>2 DEF Row
  <2>3. ToSet(groupLinesByConcept(inv[u].lines)) = ToSet(groupLinesByConcept(inv[v].lines))
    BY <1>1, ReorderedGroups DEF IInv, Shape
  <2>4. ToSet(results[u]) = ToSet(results[v])
    <3>1. ToSet(results[u]) =
            {Row(u, group, tax) : group \in ToSet(groupLinesByConcept(inv[u].lines)),
                                  tax \in TaxTypes}
      BY <1>1, ResultsAreRows
    <3>2. ToSet(results[v]) =
            {Row(v, group, tax) : group \in ToSet(groupLinesByConcept(inv[v].lines)),
                                  tax \in TaxTypes}
      BY <1>1, ResultsAreRows
    <3> QED
      BY <2>2, <2>3, <3>1, <3>2
  <2>5. \A tax \in TaxTypes :
          SummarizeByTaxType(results[u])[tax] = SummarizeByTaxType(results[v])[tax]
    BY <2>1, <2>4, SummaryIsSum
  <2>6. SummarizeByTaxType(results[u]) = SummarizeByTaxType(results[v])
    <3>1. \A r : SummarizeByTaxType(r) = [tax \in TaxTypes |-> SummarizeByTaxType(r)[tax]]
      BY DEF SummarizeByTaxType
    <3> HIDE DEF SummarizeByTaxType
    <3> QED
      BY <2>5, <3>1
  <2> QED
    BY <2>1, <2>4, <2>6
<1>2. ASSUME IInv
      PROVE  OrderOfLinesIsIrrelevant
  BY <1>1, <1>2 DEF OrderOfLinesIsIrrelevant, Reordered
<1> QED
  BY <1>2, Invariance, PTL

=============================================================================
