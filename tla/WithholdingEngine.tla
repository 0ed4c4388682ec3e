-------------------------- MODULE WithholdingEngine -------------------------
(***************************************************************************)
(* The arithmetic of a withholding: the pure functions of                  *)
(* domain/service/withholding_engine.go and the grouping of lines by       *)
(* concept.  Decimals are integers in a named unit:                        *)
(*   an amount of a line    1/Fraction of a centavo, as parsed;            *)
(*   a base, a value, a UVT centavos (two decimals);                       *)
(*   a minimum base         hundredths of a UVT, NUMERIC(10,2);            *)
(*   a tariff               ten-thousandths of a percent, NUMERIC(7,4).    *)
(* Every product and the division by 100 are exact in shopspring/decimal   *)
(* at these scales, so that Round is the only loss.                        *)
(***************************************************************************)
EXTENDS Integers, SequencesExt

CONSTANT Fraction  \* how many units of a line's amount make a centavo

ASSUME FractionAssumption == Fraction \in Nat \ {0}

TaxTypes == {"RETEFUENTE", "RETEIVA", "RETEICA"}

OneHundredPercent == 100 * 10000

\* Decimal.Round: x / d to the nearest integer, a half away from zero.
Round(x, d) ==
  IF x >= 0 THEN (2 * x + d) \div (2 * d) ELSE -((d - 2 * x) \div (2 * d))

MinimumBase(rule, uvt) == Round(rule.minBase * uvt, 100)

\* Whose calculation it is, is left zero.
Calculation(tax, base, tariff, value) ==
  [invoice |-> 0, concept |-> 0, tax |-> tax, base |-> base, tariff |-> tariff,
   value |-> value]

\* Bug: a base equal to the minimum is below it.
ExclusiveMinimumBase(rule, uvt, amount) ==
  LET base == Round(amount, Fraction)
  IN  IF base =< MinimumBase(rule, uvt)
      THEN Calculation(rule.tax, base, 0, 0)
      ELSE Calculation(rule.tax, base, rule.tariff,
                       Round(base * rule.tariff, OneHundredPercent))

CalculateWithMinimumBase(rule, uvt, amount) ==
  LET base == Round(amount, Fraction)
  IN  IF base < MinimumBase(rule, uvt)
      THEN Calculation(rule.tax, base, 0, 0)
      ELSE Calculation(rule.tax, base, rule.tariff,
                       Round(base * rule.tariff, OneHundredPercent))

\* Bug: only an IVA of zero is nothing to withhold on.
CalculateSignedReteiva(rule, amount) ==
  LET iva == Round(amount, Fraction)
  IN  IF iva = 0
      THEN Calculation(rule.tax, iva, 0, 0)
      ELSE Calculation(rule.tax, iva, rule.tariff,
                       Round(iva * rule.tariff, OneHundredPercent))

CalculateReteiva(rule, amount) ==
  LET iva == Round(amount, Fraction)
  IN  IF iva =< 0
      THEN Calculation(rule.tax, iva, 0, 0)
      ELSE Calculation(rule.tax, iva, rule.tariff,
                       Round(iva * rule.tariff, OneHundredPercent))

NotApplicable(tax) == Calculation(tax, 0, 0, 0)

\* One line into the groups: the group of its concept, or a new one at the end.
Grouped(groups, line) ==
  IF \E j \in DOMAIN groups : groups[j].concept = line.concept
  THEN [j \in DOMAIN groups |->
          IF groups[j].concept = line.concept
          THEN [groups[j] EXCEPT !.total = @ + line.total, !.iva = @ + line.iva]
          ELSE groups[j]]
  ELSE Append(groups, [concept |-> line.concept, total |-> line.total, iva |-> line.iva])

\* Bug: only neighbouring lines of a concept are put together.
groupRunsOfLines(lines) ==
  LET runs(groups, line) ==
        IF groups # <<>> /\ Last(groups).concept = line.concept
        THEN Front(groups) \o Grouped(<<Last(groups)>>, line)
        ELSE Append(groups, [concept |-> line.concept, total |-> line.total,
                             iva |-> line.iva])
  IN  FoldLeft(runs, <<>>, lines)

\* Bug: a line without a concept belongs to no group.
groupClassifiedLines(lines) ==
  FoldLeft(Grouped, <<>>, SelectSeq(lines, LAMBDA line : line.concept \in Nat))

groupLinesByConcept(lines) == FoldLeft(Grouped, <<>>, lines)

\* The total per tax type of what was calculated.
SummarizeByTaxType(calculations) ==
  [tax \in TaxTypes |->
     FoldLeft(LAMBDA sum, c : IF c.tax = tax THEN sum + c.value ELSE sum,
              0, calculations)]

=============================================================================
