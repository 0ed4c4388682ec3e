-------------------------- MODULE XmlParserProofs ---------------------------
(***************************************************************************)
(* Proofs about XmlParser: what Parse returns for a file with any number   *)
(* of lines, taxes and withholdings.  Parse runs alone and in one step, so *)
(* its invariant says which invoice it returned; the rest of the proofs is *)
(* about the loops over what the file holds.                               *)
(***************************************************************************)
EXTENDS XmlParser, SumsAndFolds

\* Every text reads as an amount, if only as zero.
LEMMA AmountsAreIntegers == \A raw : parseDecimalOptional(raw) \in Int
BY NumbersAssumption DEF parseDecimalOptional

-----------------------------------------------------------------------------
(* The IVA of the header.                                                  *)

SubtotalAmounts == [s \in xmlTaxSubtotal |-> parseDecimalOptional(s.amount)]

\* What the loops of sumIVA have gathered: the total of what they have seen.
Sums ==
  {sum \in [seen: SUBSET xmlTaxSubtotal, total: Int] :
     /\ IsFiniteSet(sum.seen)
     /\ sum.total = SumFunctionOnSet(SubtotalAmounts, sum.seen)}

IVAIn(block) == {s \in ToSet(block) : isIVAScheme(s)}

\* A subtotal is its own key.
LEMMA KeyIsSubtotal == \A s \in xmlTaxSubtotal : ivaSubtotalKey(s) = s
BY DEF ivaSubtotalKey, xmlTaxSubtotal

\* The amounts, as a function to sum.
LEMMA AmountsType == SubtotalAmounts \in [xmlTaxSubtotal -> Int]
BY AmountsAreIntegers DEF SubtotalAmounts

\* Where the loops start.
LEMMA NothingIsSum == Nothing \in Sums /\ Nothing.seen = {}
<1>1. SumFunctionOnSet(SubtotalAmounts, {}) = 0
  BY AmountsType, SumOfNone
<1> QED
  BY <1>1, FS_EmptySet DEF Nothing, Sums

\* A subtotal adds itself, if it is an IVA that has not been seen.
LEMMA CountOnceAdds ==
  ASSUME NEW sum \in Sums, NEW s \in xmlTaxSubtotal
  PROVE  /\ CountOnce(sum, s) \in Sums
         /\ CountOnce(sum, s).seen = sum.seen \cup {x \in {s} : isIVAScheme(x)}
<1>1. /\ sum \in [seen: SUBSET xmlTaxSubtotal, total: Int]
      /\ IsFiniteSet(sum.seen)
      /\ sum.total = SumFunctionOnSet(SubtotalAmounts, sum.seen)
  BY DEF Sums
<1>2. CASE ~isIVAScheme(s) \/ s \in sum.seen
  <2>1. CountOnce(sum, s) = sum
    BY <1>2, KeyIsSubtotal DEF CountOnce
  <2> QED
    BY <1>2, <2>1
<1>3. CASE isIVAScheme(s) /\ s \notin sum.seen
  <2> DEFINE both == sum.seen \cup {s}
             more == [seen |-> both, total |-> sum.total + parseDecimalOptional(s.amount)]
  <2>1. CountOnce(sum, s) = more
    BY <1>3, KeyIsSubtotal DEF CountOnce
  <2>2. both \in SUBSET xmlTaxSubtotal /\ IsFiniteSet(both)
    BY <1>1, FS_AddElement
  <2>3. s \in both /\ both \ {s} = sum.seen
    BY <1>3
  <2> HIDE DEF both
  <2>4. SumFunctionOnSet(SubtotalAmounts, both) =
          SubtotalAmounts[s] + SumFunctionOnSet(SubtotalAmounts, sum.seen)
    BY <2>2, <2>3, AmountsType, SumOfElements
  <2>5. SubtotalAmounts[s] = parseDecimalOptional(s.amount) /\ SubtotalAmounts[s] \in Int
    BY AmountsType DEF SubtotalAmounts
  <2>6. more \in Sums
    BY <1>1, <2>2, <2>4, <2>5 DEF Sums
  <2>7. more.seen = sum.seen \cup {x \in {s} : isIVAScheme(x)}
    BY <1>3 DEF both
  <2> HIDE DEF more
  <2> QED
    BY <2>1, <2>6, <2>7
<1> QED
  BY <1>2, <1>3

\* The loop over a block, subtotal by subtotal.
LEMMA CountSteps ==
  ASSUME NEW sum \in Sums, NEW block \in Seq(xmlTaxSubtotal)
  PROVE  \E g : /\ g[0] = sum
                /\ \A k \in 0..Len(block) - 1 : g[k + 1] = CountOnce(g[k], block[k + 1])
                /\ g[Len(block)] = CountBlock(sum, block)
<1> DEFINE n == Len(block)
           F == [p \in Sums \X xmlTaxSubtotal |-> CountOnce(p[1], p[2])]
           Passes(f) == f = [s \in SUBSET (1..n) |->
                               IF s = {} THEN sum
                               ELSE CountOnce(f[s \ {Max(s)}], block[Max(s)])]
           iter == CHOOSE f : Passes(f)
           g == [k \in 0..n |-> iter[1..k]]
<1>1. n \in Nat /\ DOMAIN block = 1..n /\ \A k \in 1..n : block[k] \in xmlTaxSubtotal
  OBVIOUS
<1>2. F \in [Sums \X xmlTaxSubtotal -> Sums]
  BY CountOnceAdds
<1>3. PICK f \in [SUBSET (1..n) -> Sums] : IsFold(f, F, sum, block, n)
  <2> HIDE DEF F
  <2>1. HasFold(Sums, F, sum, block, Len(block))
    BY <1>2, FoldExists
  <2> QED
    BY <2>1 DEF HasFold
<1>4. Passes(f)
  <2>1. ASSUME NEW s \in SUBSET (1..n), s # {}
        PROVE  f[s \ {Max(s)}] \in Sums /\ block[Max(s)] \in xmlTaxSubtotal
    <3>1. Max(s) \in s
      BY <1>1, <2>1, LastPosition
    <3> QED
      BY <1>1, <1>3, <3>1
  <2>2. \A a \in Sums : \A e \in xmlTaxSubtotal : F[a, e] = CountOnce(a, e)
    OBVIOUS
  <2> HIDE DEF F
  <2> QED
    BY <1>3, <2>1, <2>2 DEF IsFold
<1>5. Passes(iter)
  <2> HIDE DEF Passes
  <2> QED
    BY <1>4
<1>6. CountBlock(sum, block) = iter[1..n]
  BY <1>1 DEF CountBlock, FoldLeft, MapThenFoldSet
<1> HIDE DEF iter
<1>7. g[0] = sum
  <2>1. 1..0 = {} /\ 1..0 \in SUBSET (1..n) /\ 0 \in 0..n
    BY <1>1
  <2> QED
    BY <1>5, <2>1
<1>8. ASSUME NEW k \in 0..n - 1
      PROVE  g[k + 1] = CountOnce(g[k], block[k + 1])
  <2> HIDE DEF n
  <2>1. /\ 1..k + 1 \in SUBSET (1..n) /\ 1..k + 1 # {}
        /\ Max(1..k + 1) = k + 1 /\ (1..k + 1) \ {k + 1} = 1..k
        /\ k \in 0..n /\ k + 1 \in 0..n
    BY <1>1, FirstPositions
  <2>2. iter[1..k + 1] = CountOnce(iter[1..k], block[k + 1])
    BY <1>5, <2>1
  <2> QED
    BY <2>1, <2>2
<1>9. g[n] = CountBlock(sum, block)
  BY <1>1, <1>6
<1> QED
  BY <1>7, <1>8, <1>9

\* A block adds the subtotals of an IVA it holds, each once.
LEMMA BlockCounted ==
  ASSUME NEW sum \in Sums, NEW block \in Seq(xmlTaxSubtotal)
  PROVE  /\ CountBlock(sum, block) \in Sums
         /\ CountBlock(sum, block).seen = sum.seen \cup IVAIn(block)
<1> DEFINE n == Len(block)
           Upto(k) == {s \in {block[i] : i \in 1..k} : isIVAScheme(s)}
<1>1. n \in Nat /\ DOMAIN block = 1..n /\ \A k \in 1..n : block[k] \in xmlTaxSubtotal
  OBVIOUS
<1>2. PICK g : /\ g[0] = sum
               /\ \A k \in 0..n - 1 : g[k + 1] = CountOnce(g[k], block[k + 1])
               /\ g[n] = CountBlock(sum, block)
  BY CountSteps
<1> DEFINE T == {k \in 0..n : g[k] \in Sums /\ g[k].seen = sum.seen \cup Upto(k)}
<1>3. 0 \in T
  <2>1. Upto(0) = {}
    OBVIOUS
  <2> QED
    BY <1>1, <1>2, <2>1
<1>4. ASSUME NEW k \in 0..n - 1, k \in T
      PROVE  k + 1 \in T
  <2> DEFINE s == block[k + 1]
  <2>1. k + 1 \in 1..n /\ k + 1 \in 0..n /\ s \in xmlTaxSubtotal /\ g[k + 1] = CountOnce(g[k], s)
    BY <1>1, <1>2
  <2>2. Upto(k + 1) = Upto(k) \cup {x \in {s} : isIVAScheme(x)}
    <3>1. \A i : i \in 1..k + 1 <=> i \in 1..k \/ i = k + 1
      BY <1>1
    <3> QED
      BY <3>1
  <2>3. g[k] \in Sums /\ g[k].seen = sum.seen \cup Upto(k)
    BY <1>4
  <2> HIDE DEF s, Upto
  <2>4. g[k + 1] \in Sums /\ g[k + 1].seen = g[k].seen \cup {x \in {s} : isIVAScheme(x)}
    BY <2>1, <2>3, CountOnceAdds
  <2> QED
    BY <2>1, <2>2, <2>3, <2>4
<1> HIDE DEF T
<1>5. T = 0..n
  <2>1. T \in SUBSET (0..n)
    BY DEF T
  <2> QED
    BY <1>1, <1>3, <1>4, <2>1, UpToInduction
<1>6. n \in T /\ Upto(n) = IVAIn(block)
  BY <1>1, <1>5 DEF IVAIn, ToSet
<1> QED
  BY <1>2, <1>6 DEF T

\* The loop over the blocks.
LEMMA BlockSteps ==
  ASSUME NEW blocks \in Seq(xmlTaxTotal)
  PROVE  \E g : /\ g[0] = Nothing
                /\ \A k \in 0..Len(blocks) - 1 : g[k + 1] = CountBlock(g[k], blocks[k + 1])
                /\ g[Len(blocks)].total = sumIVA(blocks)
<1> DEFINE n == Len(blocks)
           F == [p \in Sums \X xmlTaxTotal |-> CountBlock(p[1], p[2])]
           Passes(f) == f = [s \in SUBSET (1..n) |->
                               IF s = {} THEN Nothing
                               ELSE CountBlock(f[s \ {Max(s)}], blocks[Max(s)])]
           iter == CHOOSE f : Passes(f)
           g == [k \in 0..n |-> iter[1..k]]
<1>1. n \in Nat /\ DOMAIN blocks = 1..n /\ \A k \in 1..n : blocks[k] \in xmlTaxTotal
  OBVIOUS
<1>2. F \in [Sums \X xmlTaxTotal -> Sums]
  BY BlockCounted DEF xmlTaxTotal
<1>3. PICK f \in [SUBSET (1..n) -> Sums] : IsFold(f, F, Nothing, blocks, n)
  <2> HIDE DEF F
  <2>1. HasFold(Sums, F, Nothing, blocks, Len(blocks))
    BY <1>2, NothingIsSum, FoldExists
  <2> QED
    BY <2>1 DEF HasFold
<1>4. Passes(f)
  <2>1. ASSUME NEW s \in SUBSET (1..n), s # {}
        PROVE  f[s \ {Max(s)}] \in Sums /\ blocks[Max(s)] \in xmlTaxTotal
    <3>1. Max(s) \in s
      BY <1>1, <2>1, LastPosition
    <3> QED
      BY <1>1, <1>3, <3>1
  <2>2. \A a \in Sums : \A e \in xmlTaxTotal : F[a, e] = CountBlock(a, e)
    OBVIOUS
  <2> HIDE DEF F
  <2> QED
    BY <1>3, <2>1, <2>2 DEF IsFold
<1>5. Passes(iter)
  <2> HIDE DEF Passes
  <2> QED
    BY <1>4
<1>6. sumIVA(blocks) = iter[1..n].total
  BY <1>1 DEF sumIVA, FoldLeft, MapThenFoldSet
<1> HIDE DEF iter
<1>7. g[0] = Nothing
  <2>1. 1..0 = {} /\ 1..0 \in SUBSET (1..n) /\ 0 \in 0..n
    BY <1>1
  <2> QED
    BY <1>5, <2>1
<1>8. ASSUME NEW k \in 0..n - 1
      PROVE  g[k + 1] = CountBlock(g[k], blocks[k + 1])
  <2> HIDE DEF n
  <2>1. /\ 1..k + 1 \in SUBSET (1..n) /\ 1..k + 1 # {}
        /\ Max(1..k + 1) = k + 1 /\ (1..k + 1) \ {k + 1} = 1..k
        /\ k \in 0..n /\ k + 1 \in 0..n
    BY <1>1, FirstPositions
  <2>2. iter[1..k + 1] = CountBlock(iter[1..k], blocks[k + 1])
    BY <1>5, <2>1
  <2> QED
    BY <2>1, <2>2
<1>9. g[n].total = sumIVA(blocks)
  BY <1>1, <1>6
<1> QED
  BY <1>7, <1>8, <1>9

\* What sumIVA gathers from the blocks is every IVA they hold.
LEMMA BlocksCounted ==
  ASSUME NEW blocks \in Seq(xmlTaxTotal)
  PROVE  \E sum \in Sums : /\ sumIVA(blocks) = sum.total
                           /\ sum.seen = {s \in Subtotals(blocks) : isIVAScheme(s)}
<1> DEFINE n == Len(blocks)
           Upto(k) == UNION {IVAIn(blocks[i]) : i \in 1..k}
<1>1. n \in Nat /\ DOMAIN blocks = 1..n /\ \A k \in 1..n : blocks[k] \in xmlTaxTotal
  OBVIOUS
<1>2. PICK g : /\ g[0] = Nothing
               /\ \A k \in 0..n - 1 : g[k + 1] = CountBlock(g[k], blocks[k + 1])
               /\ g[n].total = sumIVA(blocks)
  BY BlockSteps
<1> DEFINE T == {k \in 0..n : g[k] \in Sums /\ g[k].seen = Upto(k)}
<1>3. 0 \in T
  <2>1. Upto(0) = {}
    OBVIOUS
  <2> QED
    BY <1>1, <1>2, <2>1, NothingIsSum
<1>4. ASSUME NEW k \in 0..n - 1, k \in T
      PROVE  k + 1 \in T
  <2>1. /\ k + 1 \in 1..n /\ k + 1 \in 0..n /\ blocks[k + 1] \in Seq(xmlTaxSubtotal)
        /\ g[k + 1] = CountBlock(g[k], blocks[k + 1])
    BY <1>1, <1>2 DEF xmlTaxTotal
  <2>2. Upto(k + 1) = Upto(k) \cup IVAIn(blocks[k + 1])
    <3>1. \A i : i \in 1..k + 1 <=> i \in 1..k \/ i = k + 1
      BY <1>1
    <3> QED
      BY <3>1
  <2>3. g[k] \in Sums /\ g[k].seen = Upto(k)
    BY <1>4
  <2> HIDE DEF Upto
  <2>4. g[k + 1] \in Sums /\ g[k + 1].seen = g[k].seen \cup IVAIn(blocks[k + 1])
    BY <2>1, <2>3, BlockCounted
  <2> QED
    BY <2>1, <2>2, <2>3, <2>4
<1> HIDE DEF T
<1>5. T = 0..n
  <2>1. T \in SUBSET (0..n)
    BY DEF T
  <2> QED
    BY <1>1, <1>3, <1>4, <2>1, UpToInduction
<1>6. Upto(n) = {s \in Subtotals(blocks) : isIVAScheme(s)}
  BY <1>1 DEF IVAIn, Subtotals
<1>7. g[n] \in Sums /\ g[n].seen = Upto(n)
  BY <1>1, <1>5 DEF T
<1> QED
  BY <1>2, <1>6, <1>7

\* sumIVA is the sum over the different IVA subtotals of all blocks.
LEMMA DifferentSubtotalsAreSummed ==
  ASSUME NEW blocks \in Seq(xmlTaxTotal)
  PROVE  LET different == {s \in Subtotals(blocks) : isIVAScheme(s)}
         IN  /\ sumIVA(blocks) \in Int
             /\ sumIVA(blocks) =
                  SumFunctionOnSet([s \in different |-> parseDecimalOptional(s.amount)],
                                   different)
<1> DEFINE different == {s \in Subtotals(blocks) : isIVAScheme(s)}
           amounts == [s \in different |-> parseDecimalOptional(s.amount)]
<1>1. PICK sum \in Sums : sumIVA(blocks) = sum.total /\ sum.seen = different
  BY BlocksCounted
<1>2. /\ different \in SUBSET xmlTaxSubtotal /\ IsFiniteSet(different)
      /\ sum.total \in Int /\ sum.total = SumFunctionOnSet(SubtotalAmounts, different)
  BY <1>1 DEF Sums
<1> HIDE DEF different
<1>3. amounts \in [different -> Int] /\ \A s \in different : amounts[s] = SubtotalAmounts[s]
  BY <1>2, AmountsAreIntegers DEF SubtotalAmounts
<1> HIDE DEF amounts
<1>4. SumFunctionOnSet(amounts, different) = SumFunctionOnSet(SubtotalAmounts, different)
  BY <1>2, <1>3, AmountsType, SumOfSame
<1> QED
  BY <1>1, <1>2, <1>4 DEF different, amounts

-----------------------------------------------------------------------------
(* The withholdings.                                                       *)

KindAt(block, j) == classifyWithholdingName(block.subtotals[j].name)

\* The first subtotal with a known name stands at j, and it names kind.
NamedAt(block, j, kind) ==
  KindAt(block, j) = kind /\ \A k \in 1..(j - 1) : KindAt(block, k) = Null

\* A block is of the kind its first subtotal with a known name is of.
LEMMA KindIsFirstNamed ==
  ASSUME NEW block \in xmlWithholdingTaxTotal
  PROVE  /\ KindOf(block) \in WithholdingKinds \cup {Null}
         /\ \A kind \in WithholdingKinds :
              KindOf(block) = kind <=> \E j \in DOMAIN block.subtotals : NamedAt(block, j, kind)
<1> DEFINE n == Len(block.subtotals)
           Known == {i \in 1..n : KindAt(block, i) # Null}
<1>1. n \in Nat /\ DOMAIN block.subtotals = 1..n
  BY DEF xmlWithholdingTaxTotal
<1>2. KindOf(block) = IF (IF Known # {} THEN Min(Known) ELSE 0) = 0 THEN Null
                      ELSE KindAt(block, IF Known # {} THEN Min(Known) ELSE 0)
  BY DEF KindOf, SelectInSeq, KindAt
<1>3. \A i : KindAt(block, i) \in WithholdingKinds \cup {Null}
  BY DEF KindAt, classifyWithholdingName, WithholdingKinds
<1>4. Null \notin WithholdingKinds
  BY NullAssumption
<1>5. CASE Known = {}
  <2>1. KindOf(block) = Null
    BY <1>2, <1>5
  <2>2. \A j \in 1..n : KindAt(block, j) = Null
    BY <1>5
  <2> QED
    BY <1>1, <1>4, <2>1, <2>2 DEF NamedAt
<1>6. CASE Known # {}
  <2> DEFINE m == Min(Known)
  <2>1. m \in Known /\ \A k \in Known : m =< k
    BY <1>1, <1>6, FirstPosition
  <2>2. m \in 1..n /\ KindAt(block, m) # Null
    BY <2>1
  <2>3. \A k \in 1..(m - 1) : KindAt(block, k) = Null
    BY <1>1, <2>1, <2>2
  <2> HIDE DEF m
  <2>4. KindOf(block) = KindAt(block, m)
    BY <1>2, <1>6, <2>2 DEF m
  <2>5. ASSUME NEW kind \in WithholdingKinds, NEW j \in 1..n, NamedAt(block, j, kind)
        PROVE  j = m
    <3>1. j \in Known /\ \A k \in 1..(j - 1) : KindAt(block, k) = Null
      BY <1>4, <2>5 DEF NamedAt
    <3>2. m =< j /\ ~(m \in 1..(j - 1))
      BY <2>1, <2>2, <3>1
    <3> QED
      BY <1>1, <2>2, <3>2
  <2>6. ASSUME NEW kind \in WithholdingKinds, KindOf(block) = kind
        PROVE  NamedAt(block, m, kind)
    BY <2>3, <2>4, <2>6 DEF NamedAt
  <2>7. ASSUME NEW kind \in WithholdingKinds, NEW j \in 1..n, NamedAt(block, j, kind)
        PROVE  KindOf(block) = kind
    <3>1. j = m
      BY <2>5, <2>7
    <3> QED
      BY <2>4, <2>7, <3>1 DEF NamedAt
  <2>8. KindOf(block) \in WithholdingKinds \cup {Null}
    BY <1>3, <2>4
  <2> QED
    BY <1>1, <2>2, <2>6, <2>7, <2>8
<1> QED
  BY <1>5, <1>6

Reports == [WithholdingKinds -> Int \cup {Null}]

\* A block as it is reported: its amount, in the place of its kind.
Reported(acc, block) ==
  IF KindOf(block) = Null THEN acc
  ELSE [acc EXCEPT ![KindOf(block)] = parseDecimalOptional(block.amount)]

\* One block changes what is reported of its kind only.
LEMMA ReportedType ==
  ASSUME NEW acc \in Reports, NEW block \in xmlWithholdingTaxTotal
  PROVE  /\ Reported(acc, block) \in Reports
         /\ \A kind \in WithholdingKinds :
              Reported(acc, block)[kind] =
                IF KindOf(block) = kind THEN parseDecimalOptional(block.amount) ELSE acc[kind]
<1>1. KindOf(block) \in WithholdingKinds \cup {Null}
  BY KindIsFirstNamed
<1>2. parseDecimalOptional(block.amount) \in Int
  BY AmountsAreIntegers
<1> QED
  BY <1>1, <1>2, NullAssumption DEF Reported, Reports

\* The loop over the blocks of withholdings.
LEMMA ReportSteps ==
  ASSUME NEW blocks \in Seq(xmlWithholdingTaxTotal)
  PROVE  \E g : /\ g[0] = NothingReported
                /\ \A k \in 0..Len(blocks) - 1 : g[k + 1] = Reported(g[k], blocks[k + 1])
                /\ g[Len(blocks)] = extractWithholding(blocks)
<1> DEFINE n == Len(blocks)
           F == [p \in Reports \X xmlWithholdingTaxTotal |-> Reported(p[1], p[2])]
           Passes(f) == f = [s \in SUBSET (1..n) |->
                               IF s = {} THEN NothingReported
                               ELSE Reported(f[s \ {Max(s)}], blocks[Max(s)])]
           iter == CHOOSE f : Passes(f)
           g == [k \in 0..n |-> iter[1..k]]
<1>1. /\ n \in Nat /\ DOMAIN blocks = 1..n
      /\ \A k \in 1..n : blocks[k] \in xmlWithholdingTaxTotal
  OBVIOUS
<1>2. F \in [Reports \X xmlWithholdingTaxTotal -> Reports]
  BY ReportedType
<1>3. PICK f \in [SUBSET (1..n) -> Reports] : IsFold(f, F, NothingReported, blocks, n)
  <2> HIDE DEF F
  <2>1. NothingReported \in Reports
    BY DEF NothingReported, Reports
  <2>2. HasFold(Reports, F, NothingReported, blocks, Len(blocks))
    BY <1>2, <2>1, FoldExists
  <2> QED
    BY <2>2 DEF HasFold
<1>4. Passes(f)
  <2>1. ASSUME NEW s \in SUBSET (1..n), s # {}
        PROVE  f[s \ {Max(s)}] \in Reports /\ blocks[Max(s)] \in xmlWithholdingTaxTotal
    <3>1. Max(s) \in s
      BY <1>1, <2>1, LastPosition
    <3> QED
      BY <1>1, <1>3, <3>1
  <2>2. \A a \in Reports : \A e \in xmlWithholdingTaxTotal : F[a, e] = Reported(a, e)
    OBVIOUS
  <2> HIDE DEF F
  <2> QED
    BY <1>3, <2>1, <2>2 DEF IsFold
<1>5. Passes(iter)
  <2> HIDE DEF Passes
  <2> QED
    BY <1>4
<1>6. extractWithholding(blocks) = iter[1..n]
  BY <1>1 DEF extractWithholding, Reported, FoldLeft, MapThenFoldSet
<1> HIDE DEF iter
<1>7. g[0] = NothingReported
  <2>1. 1..0 = {} /\ 1..0 \in SUBSET (1..n) /\ 0 \in 0..n
    BY <1>1
  <2> QED
    BY <1>5, <2>1
<1>8. ASSUME NEW k \in 0..n - 1
      PROVE  g[k + 1] = Reported(g[k], blocks[k + 1])
  <2> HIDE DEF n
  <2>1. /\ 1..k + 1 \in SUBSET (1..n) /\ 1..k + 1 # {}
        /\ Max(1..k + 1) = k + 1 /\ (1..k + 1) \ {k + 1} = 1..k
        /\ k \in 0..n /\ k + 1 \in 0..n
    BY <1>1, FirstPositions
  <2>2. iter[1..k + 1] = Reported(iter[1..k], blocks[k + 1])
    BY <1>5, <2>1
  <2> QED
    BY <2>1, <2>2
<1>9. g[n] = extractWithholding(blocks)
  BY <1>1, <1>6
<1> QED
  BY <1>7, <1>8, <1>9

\* A kind is reported with the amount of its last block, if it has one.
LEMMA LastBlocksAreReported ==
  ASSUME NEW blocks \in Seq(xmlWithholdingTaxTotal)
  PROVE  /\ extractWithholding(blocks) \in Reports
         /\ \A kind \in WithholdingKinds :
              LET those == {i \in DOMAIN blocks : KindOf(blocks[i]) = kind}
              IN  extractWithholding(blocks)[kind] =
                    IF those = {} THEN Null
                    ELSE parseDecimalOptional(blocks[Max(those)].amount)
<1> DEFINE n == Len(blocks)
           Those(kind, k) == {i \in 1..k : KindOf(blocks[i]) = kind}
           Amount(those) == IF those = {} THEN Null
                            ELSE parseDecimalOptional(blocks[Max(those)].amount)
<1>1. /\ n \in Nat /\ DOMAIN blocks = 1..n
      /\ \A k \in 1..n : blocks[k] \in xmlWithholdingTaxTotal
  OBVIOUS
<1>2. PICK g : /\ g[0] = NothingReported
               /\ \A k \in 0..n - 1 : g[k + 1] = Reported(g[k], blocks[k + 1])
               /\ g[n] = extractWithholding(blocks)
  BY ReportSteps
<1> DEFINE T == {k \in 0..n :
                   /\ g[k] \in Reports
                   /\ \A kind \in WithholdingKinds : g[k][kind] = Amount(Those(kind, k))}
<1>3. 0 \in T
  <2>1. \A kind : Those(kind, 0) = {}
    OBVIOUS
  <2>2. /\ NothingReported \in Reports
        /\ \A kind \in WithholdingKinds : NothingReported[kind] = Null
    BY DEF NothingReported, Reports
  <2> QED
    BY <1>1, <1>2, <2>1, <2>2
<1>4. ASSUME NEW k \in 0..n - 1, k \in T
      PROVE  k + 1 \in T
  <2>1. /\ k \in Nat /\ k + 1 \in 1..n /\ k + 1 \in 0..n
        /\ blocks[k + 1] \in xmlWithholdingTaxTotal
        /\ g[k + 1] = Reported(g[k], blocks[k + 1])
    BY <1>1, <1>2
  <2>2. /\ g[k] \in Reports
        /\ \A kind \in WithholdingKinds : g[k][kind] = Amount(Those(kind, k))
    BY <1>4
  <2>3. /\ g[k + 1] \in Reports
        /\ \A kind \in WithholdingKinds :
             g[k + 1][kind] = IF KindOf(blocks[k + 1]) = kind
                              THEN parseDecimalOptional(blocks[k + 1].amount) ELSE g[k][kind]
    BY <2>1, <2>2, ReportedType
  <2>4. ASSUME NEW kind \in WithholdingKinds
        PROVE  g[k + 1][kind] = Amount(Those(kind, k + 1))
    <3>1. CASE KindOf(blocks[k + 1]) = kind
      <4>1. k + 1 \in Those(kind, k + 1) /\ Those(kind, k + 1) \in SUBSET (1..k + 1)
        BY <2>1, <3>1
      <4>2. Max(Those(kind, k + 1)) = k + 1
        <5> HIDE DEF Those
        <5> QED
          BY <2>1, <4>1, MaxOfLast
      <4> HIDE DEF Those
      <4> QED
        BY <2>3, <3>1, <4>1, <4>2
    <3>2. CASE KindOf(blocks[k + 1]) # kind
      <4>1. \A i : i \in 1..k + 1 <=> i \in 1..k \/ i = k + 1
        BY <2>1
      <4>2. Those(kind, k + 1) = Those(kind, k)
        BY <3>2, <4>1
      <4> HIDE DEF Those, Amount
      <4> QED
        BY <2>2, <2>3, <3>2, <4>2
    <3> QED
      BY <3>1, <3>2
  <2> HIDE DEF Those, Amount
  <2> QED
    BY <2>1, <2>3, <2>4
<1> HIDE DEF T
<1>5. T = 0..n
  <2>1. T \in SUBSET (0..n)
    BY DEF T
  <2> QED
    BY <1>1, <1>3, <1>4, <2>1, UpToInduction
<1>6. \A kind : Those(kind, n) = {i \in DOMAIN blocks : KindOf(blocks[i]) = kind}
  BY <1>1
<1>7. /\ g[n] \in Reports
      /\ \A kind \in WithholdingKinds : g[n][kind] = Amount(Those(kind, n))
  <2>1. n \in T
    BY <1>1, <1>5
  <2> HIDE DEF Those, Amount
  <2> QED
    BY <2>1 DEF T
<1> HIDE DEF Those
<1> QED
  BY <1>2, <1>6, <1>7

-----------------------------------------------------------------------------
(* The invoice.                                                            *)

\* A line whose number reads becomes a line.
LEMMA LineType ==
  ASSUME NEW x \in xmlInvoiceLine, LineReads(x)
  PROVE  mapLine(x) \in Line /\ mapLine(x).sku # Blank
<1>1. Number[x.id] \in Int
  BY NumbersAssumption DEF LineReads
<1>2. mapSKU(x.sku) \in Texts \cup {Null} /\ mapSKU(x.sku) # Blank
  BY NullAssumption DEF mapSKU, xmlInvoiceLine
<1>3. x.descriptions # <<>> => x.descriptions[1] \in Texts
  BY DEF xmlInvoiceLine
<1>4. findIVASubtotal(x.taxTotals) \in [rate: Int, value: Int]
  BY AmountsAreIntegers DEF findIVASubtotal
<1>5. parseDecimalOptional(x.total) \in Int
  BY AmountsAreIntegers
<1> QED
  BY <1>1, <1>2, <1>3, <1>4, <1>5, BlankAssumption DEF mapLine, Line

Reads(x) == FieldsRead(x) /\ \A i \in DOMAIN x.lines : LineReads(x.lines[i])

\* What reads becomes an invoice, and all else is rejected.
LEMMA InvoiceType ==
  ASSUME NEW x \in xmlInvoice, NEW xmlType \in Roots
  PROVE  LET result == mapInvoice(x, xmlType)
         IN  /\ ~Reads(x) => result = Rejected
             /\ Reads(x) => /\ result \in Invoice
                            /\ result.cufe = x.uuid /\ result.number = x.id
                            /\ result.issuer = x.issuer /\ result.buyer = x.buyer
                            /\ result.date = x.date
                            /\ result.iva = sumIVA(x.taxTotals)
                            /\ result.reported = extractWithholding(x.withholdings)
                            /\ \A i \in DOMAIN result.lines : result.lines[i].sku # Blank
<1>1. CASE ~Reads(x)
  BY <1>1 DEF Reads, mapInvoice
<1>2. CASE Reads(x)
  <2> DEFINE lines == [i \in DOMAIN x.lines |-> mapLine(x.lines[i])]
             city == IF x.location # Blank THEN x.location ELSE x.registration
             result == [cufe |-> x.uuid, number |-> x.id, date |-> x.date, type |-> xmlType,
                        issuer |-> x.issuer, city |-> city, buyer |-> x.buyer,
                        subtotal |-> parseDecimalOptional(x.extension),
                        iva |-> sumIVA(x.taxTotals), total |-> Decimal[x.payable],
                        reported |-> extractWithholding(x.withholdings), lines |-> lines]
  <2>1. mapInvoice(x, xmlType) = result
    BY <1>2 DEF Reads, mapInvoice
  <2>2. /\ x.uuid \in Texts /\ x.id \in Texts /\ x.date \in Texts
        /\ x.issuer \in Texts /\ x.buyer \in Texts
        /\ x.location \in Texts /\ x.registration \in Texts
        /\ x.taxTotals \in Seq(xmlTaxTotal)
        /\ x.withholdings \in Seq(xmlWithholdingTaxTotal)
        /\ x.lines \in Seq(xmlInvoiceLine)
    BY DEF xmlInvoice
  <2>3. lines \in Seq(Line) /\ \A i \in DOMAIN lines : lines[i].sku # Blank
    <3>1. \A i \in DOMAIN x.lines : mapLine(x.lines[i]) \in Line /\ mapLine(x.lines[i]).sku # Blank
      BY <1>2, <2>2, LineType DEF Reads
    <3>2. Len(x.lines) \in Nat /\ DOMAIN x.lines = 1..Len(x.lines)
      BY <2>2
    <3> QED
      BY <3>1, <3>2
  <2>4. sumIVA(x.taxTotals) \in Int
    BY <2>2, DifferentSubtotalsAreSummed
  <2>5. extractWithholding(x.withholdings) \in [WithholdingKinds -> Int \cup {Null}]
    BY <2>2, LastBlocksAreReported DEF Reports
  <2>6. Decimal[x.payable] \in Int /\ parseDecimalOptional(x.extension) \in Int
    BY <1>2, AmountsAreIntegers, NumbersAssumption DEF Reads, FieldsRead
  <2>7. city \in Texts
    BY <2>2
  <2> HIDE DEF lines, city
  <2>8. result \in Invoice
    BY <2>2, <2>3, <2>4, <2>5, <2>6, <2>7 DEF Invoice
  <2> QED
    BY <1>2, <2>1, <2>3, <2>8
<1> QED
  BY <1>1, <1>2

-----------------------------------------------------------------------------
(* The invariant: what was returned is what the file, as it came, becomes. *)

Parsed(d) ==
  IF d.root = "Invoice" THEN Read(d.content, "Invoice")
  ELSE IF d.root = "AttachedDocument" /\ d.content # Blank
       THEN Read(d.content, "AttachedDocument")
       ELSE Rejected

IInv ==
  /\ document \in Documents
  /\ pc \in {"received", "parsed"}
  /\ pc = "parsed" => invoice = Parsed(document)

\* It holds: Parse is one step.
LEMMA Invariance == Spec => []IInv
<1>1. Init => IInv
  BY DEF Init, IInv
<1>2. IInv /\ [Next]_vars => IInv'
  <2> SUFFICES ASSUME IInv, [Next]_vars
               PROVE  IInv'
    OBVIOUS
  <2>1. CASE ParseInvoice
    BY <2>1 DEF IInv, ParseInvoice, Return, Parsed
  <2>2. CASE ParseAttachedDocument
    BY <2>2 DEF IInv, ParseAttachedDocument, Return, Parsed
  <2>3. CASE RejectRoot
    BY <2>3 DEF IInv, RejectRoot, Return, Parsed
  <2>4. CASE Terminated \/ UNCHANGED vars
    BY <2>4 DEF IInv, Terminated, vars
  <2> QED
    BY <2>1, <2>2, <2>3, <2>4 DEF Next
<1> QED
  BY <1>1, <1>2, PTL DEF Spec

\* What is accepted is the invoice of the file's own content.
LEMMA AcceptedReads ==
  ASSUME IInv, Accepted
  PROVE  LET x == document.content
         IN  /\ x \in xmlInvoice /\ Reads(x)
             /\ \E xmlType \in Roots : invoice = mapInvoice(x, xmlType)
<1>1. /\ document \in Document /\ invoice = Parsed(document) /\ invoice # Rejected
  BY DocumentsAssumption DEF IInv, Accepted
<1>2. \E xmlType : /\ document.root = xmlType
                   /\ document.content # Malformed
                   /\ xmlType = "AttachedDocument" => document.content # Blank
                   /\ invoice = mapInvoice(document.content, xmlType)
  BY <1>1 DEF Parsed, Read
<1>3. document.content \in xmlInvoice /\ document.root \in Roots
  BY <1>1, <1>2 DEF Document
<1>4. \E xmlType \in Roots : invoice = mapInvoice(document.content, xmlType)
  BY <1>2, <1>3
<1>5. Reads(document.content)
  BY <1>1, <1>3, <1>4, InvoiceType
<1> QED
  BY <1>3, <1>4, <1>5

\* What Parse returns without an error is an invoice as the other components
\* assume one, whatever the file holds.
THEOREM TypeCorrect == Spec => []TypeOK
<1>1. ASSUME IInv
      PROVE  TypeOK
  <2> SUFFICES ASSUME Accepted
               PROVE  /\ invoice \in Invoice
                      /\ Blank \notin {invoice.cufe, invoice.number, invoice.issuer, invoice.buyer}
                      /\ invoice.date \in Dates
                      /\ \A i \in DOMAIN invoice.lines : invoice.lines[i].sku # Blank
    BY <1>1 DEF IInv, TypeOK
  <2> DEFINE x == document.content
  <2>1. PICK xmlType \in Roots : x \in xmlInvoice /\ Reads(x) /\ invoice = mapInvoice(x, xmlType)
    BY <1>1, AcceptedReads
  <2>2. /\ Blank \notin {x.uuid, x.id, x.issuer, x.buyer}
        /\ x.date \in Dates
    BY <2>1 DEF Reads, FieldsRead
  <2> HIDE DEF x
  <2> QED
    BY <2>1, <2>2, InvoiceType
<1> QED
  BY <1>1, Invariance, PTL

\* The IVA of the header, over any number of blocks of any number of subtotals:
\* every different subtotal is in it once.
THEOREM IVACorrect == Spec => []EqualSubtotalsCountOnce
<1>1. ASSUME IInv
      PROVE  EqualSubtotalsCountOnce
  <2> SUFFICES ASSUME Accepted
               PROVE  LET different ==
                            {s \in Subtotals(document.content.taxTotals) : isIVAScheme(s)}
                      IN  invoice.iva =
                            SumFunctionOnSet([s \in different |-> parseDecimalOptional(s.amount)],
                                             different)
    BY DEF EqualSubtotalsCountOnce
  <2> DEFINE x == document.content
  <2>1. PICK xmlType \in Roots : x \in xmlInvoice /\ Reads(x) /\ invoice = mapInvoice(x, xmlType)
    BY <1>1, AcceptedReads
  <2>2. invoice.iva = sumIVA(x.taxTotals)
    BY <2>1, InvoiceType
  <2>3. x.taxTotals \in Seq(xmlTaxTotal)
    BY <2>1 DEF xmlInvoice
  <2> QED
    BY <2>2, <2>3, DifferentSubtotalsAreSummed
<1> QED
  BY <1>1, Invariance, PTL

\* Withholdings, over any number of blocks: the last block of a kind, which its
\* first subtotal with a known name tells, is the one reported.
THEOREM WithholdingsCorrect == Spec => []LastBlockOfAKindIsReported
<1>1. ASSUME IInv
      PROVE  LastBlockOfAKindIsReported
  <2> SUFFICES ASSUME Accepted
               PROVE  LastBlockOfAKindIsReported
    BY DEF LastBlockOfAKindIsReported
  <2> DEFINE x == document.content
             blocks == x.withholdings
             Those(kind) == {i \in DOMAIN blocks : KindOf(blocks[i]) = kind}
             Names(i, kind) == \E j \in DOMAIN blocks[i].subtotals : NamedAt(blocks[i], j, kind)
  <2>1. PICK xmlType \in Roots : x \in xmlInvoice /\ Reads(x) /\ invoice = mapInvoice(x, xmlType)
    BY <1>1, AcceptedReads
  <2>2. invoice.reported = extractWithholding(blocks)
    BY <2>1, InvoiceType
  <2>3. blocks \in Seq(xmlWithholdingTaxTotal)
    BY <2>1 DEF xmlInvoice
  <2>4. /\ DOMAIN invoice.reported = WithholdingKinds
        /\ \A kind \in WithholdingKinds :
             invoice.reported[kind] =
               IF Those(kind) = {} THEN Null
               ELSE parseDecimalOptional(blocks[Max(Those(kind))].amount)
    BY <2>2, <2>3, LastBlocksAreReported DEF Reports
  <2>5. \A kind \in WithholdingKinds : Those(kind) = {i \in DOMAIN blocks : Names(i, kind)}
    <3> SUFFICES ASSUME NEW kind \in WithholdingKinds, NEW i \in DOMAIN blocks
                 PROVE  KindOf(blocks[i]) = kind <=> Names(i, kind)
      OBVIOUS
    <3>1. blocks[i] \in xmlWithholdingTaxTotal
      BY <2>3
    <3> QED
      BY <3>1, KindIsFirstNamed
  <2> HIDE DEF Those
  <2>6. \A kind \in DOMAIN invoice.reported :
           LET those == {i \in DOMAIN blocks : Names(i, kind)}
           IN  invoice.reported[kind] =
                 IF those = {} THEN Null ELSE parseDecimalOptional(blocks[Max(those)].amount)
    BY <2>4, <2>5
  <2> QED
    BY <2>6 DEF LastBlockOfAKindIsReported, NamedAt, KindAt
<1> QED
  BY <1>1, Invariance, PTL

\* A required field or a line number that does not read makes Parse return an
\* error, whatever the file holds, and nothing else does.
THEOREM RejectionsCorrect == Spec => []RequiredFieldsDecide
<1>1. ASSUME IInv
      PROVE  RequiredFieldsDecide
  <2> SUFFICES ASSUME pc = "parsed"
               PROVE  RequiredFieldsDecide
    BY DEF RequiredFieldsDecide
  <2> DEFINE x == document.content
             Known == document.root \in {"Invoice", "AttachedDocument"}
             Empty == document.root = "AttachedDocument" /\ x = Blank
             Unreadable ==
               \/ Blank \in {x.uuid, x.id, x.date, x.issuer, x.buyer, x.payable}
               \/ x.date \notin Dates \/ x.payable \notin DOMAIN Decimal
               \/ \E i \in DOMAIN x.lines : x.lines[i].id \notin DOMAIN Number
  <2>1. document \in Document /\ invoice = Parsed(document)
    BY <1>1, DocumentsAssumption DEF IInv
  <2>2. Unreadable <=> ~Reads(x)
    BY BlankAssumption DEF Reads, FieldsRead, LineReads
  <2>3. CASE ~Known \/ x = Malformed \/ Empty
    BY <2>1, <2>3 DEF Parsed, Read, RequiredFieldsDecide
  <2>4. CASE Known /\ x # Malformed /\ ~Empty
    <3>1. x \in xmlInvoice /\ document.root \in Roots
      BY <2>1, <2>4 DEF Document
    <3>2. invoice = mapInvoice(x, document.root)
      BY <2>1, <2>4 DEF Parsed, Read
    <3>3. invoice = Rejected <=> ~Reads(x)
      BY <3>1, <3>2, InvoiceType, RejectedAssumption
    <3> HIDE DEF x
    <3> QED
      BY <2>2, <2>4, <3>3 DEF RequiredFieldsDecide, x
  <2> QED
    BY <2>3, <2>4
<1> QED
  BY <1>1, Invariance, PTL

=============================================================================
