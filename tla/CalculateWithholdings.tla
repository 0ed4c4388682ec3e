----------------------- MODULE CalculateWithholdings ------------------------
(***************************************************************************)
(* CalculateWithholdings.Execute, run by several uploads against the table *)
(* withholding_calculations.  An upload reads the reference data, groups   *)
(* its lines by concept, and for every group and tax type looks the rule   *)
(* up, computes, and upserts the row of (invoice, concept, tax type) in a  *)
(* transaction of its own: no transaction spans two rows.  Uploads of one  *)
(* invoice, a re-upload for instance, interleave row by row.               *)
(*                                                                         *)
(* A rule lookup and the upsert after it are one action: the rules do not  *)
(* change, and an error in either is an error before the upsert.           *)
(***************************************************************************)
EXTENDS WithholdingEngine, ReferenceData

CONSTANTS
  Uploads,                \* calls of Execute
  Invoices,               \* invoices they may be called with; an id of 0 is not persisted
  Concepts,               \* ids of concepts
  IsVATWithholdingAgent,  \* the configuration's flag
  Null                    \* the ConceptID of a line without a concept

ASSUME AgentAssumption == IsVATWithholdingAgent \in BOOLEAN

ASSUME ConceptsAssumption == Concepts \subseteq Nat \ {0} /\ Null \notin Concepts

Rule     == [id: Nat, tax: TaxTypes, concept: Concepts, city: Cities \cup {NoCity},
             from: Int, to: Int \cup {NoEnd}, minBase: Nat,
             tariff: 0..OneHundredPercent]
UVTValue == [id: Nat, from: Int, to: Int \cup {NoEnd}, value: Nat]

\* The reference tables as the migration seeds them: no row is negative and no
\* tariff above 100 percent, which the schema itself would allow.
TablesAreSeeded ==
  /\ TaxRules \subseteq Rule
  /\ UVTValues \subseteq UVTValue
  /\ Matches \in [DOMAIN Matches -> SUBSET Cities]
  /\ NoCity \notin Cities

ASSUME TablesAssumption == TablesAreSeeded

Line    == [concept: Concepts \cup {Null}, total: Int, iva: Int]
Invoice == [id: Nat, date: Int, city: DOMAIN Matches, lines: Seq(Line)]

ASSUME InvoicesAssumption == Invoices \subseteq Invoice

VARIABLES
  calculations,  \* rows of withholding_calculations
  inv,           \* inv[u]: the invoice of u, with its id
  city,          \* city[u]: the issuer's city, once looked up
  results,       \* results[u]: the calculations u has persisted, in order
  pc             \* pc[u]

vars == <<calculations, inv, city, results, pc>>

\* Bug: a line without a concept has no bucket of its own.
UnmappedConcept(concept) == concept

\* CalculationToModel: the concept_id column is 0 for no concept.
ConceptColumn(concept) == IF concept = Null THEN 0 ELSE concept

\* Bug: an invoice without an id is calculated.
ReadyUnpersisted(i) == FindUVTValue(i.date) # {}

\* What Execute asks of an invoice: its id, and a UVT value in force on its day.
Ready(i) == i.id # 0 /\ FindUVTValue(i.date) # {}

Uvt(i) == (CHOOSE v \in FindUVTValue(i.date) : TRUE).value

calculateMinimumBaseTax(tax, i, group, where) ==
  LET rules == FindApplicable(tax, group.concept, where, i.date)
  IN  IF rules = {} THEN NotApplicable(tax)
      ELSE CalculateWithMinimumBase(CHOOSE r \in rules : TRUE, Uvt(i), group.total)

calculateReteiva(i, group) ==
  LET rules == FindApplicable("RETEIVA", group.concept, NoCity, i.date)
  IN  IF ~IsVATWithholdingAgent \/ rules = {} THEN NotApplicable("RETEIVA")
      ELSE CalculateReteiva(CHOOSE r \in rules : TRUE, group.iva)

calculateReteica(i, group, where) ==
  IF where = NoCity THEN NotApplicable("RETEICA")
  ELSE calculateMinimumBaseTax("RETEICA", i, group, where)

\* What invoice i, its issuer in city where, is to have for a group and tax.
Calculate(i, where, group, tax) ==
  IF group.concept = Null THEN NotApplicable(tax)
  ELSE CASE tax = "RETEFUENTE" -> calculateMinimumBaseTax(tax, i, group, NoCity)
         [] tax = "RETEIVA"    -> calculateReteiva(i, group)
         [] tax = "RETEICA"    -> calculateReteica(i, group, where)

allTaxTypes == <<"RETEFUENTE", "RETEIVA", "RETEICA">>

\* The row for the n-th step of the loops over groups and tax types.
Pending(u) == Len(results[u]) + 1
StepsOf(i) == 3 * Len(groupLinesByConcept(i.lines))

GroupAt(i, n) == groupLinesByConcept(i.lines)[((n - 1) \div 3) + 1]
TaxAt(n)      == allTaxTypes[((n - 1) % 3) + 1]

\* The row of u for a group of its lines and a tax type.
Row(u, group, tax) ==
  [Calculate(inv[u], city[u], group, tax) EXCEPT
     !.invoice = inv[u].id, !.concept = ConceptColumn(group.concept)]

RowAt(u, n) == Row(u, GroupAt(inv[u], n), TaxAt(n))

SameKey(r, q) == r.invoice = q.invoice /\ r.concept = q.concept /\ r.tax = q.tax

\* Bug: a row that is already there is left as it is.
DoNothing(row) ==
  calculations' = IF \E r \in calculations : SameKey(r, row)
                  THEN calculations ELSE calculations \cup {row}

\* INSERT ... ON CONFLICT (invoice_id, concept_id, tax_type) DO UPDATE.
Upsert(row) ==
  calculations' = {r \in calculations : ~SameKey(r, row)} \cup {row}

Goto(u, station) == pc' = [pc EXCEPT ![u] = station]

-----------------------------------------------------------------------------
Init ==
  /\ calculations = {}
  /\ inv \in [Uploads -> Invoices]
  /\ city = [u \in Uploads |-> NoCity]
  /\ results = [u \in Uploads |-> <<>>]
  /\ pc = [u \in Uploads |-> "idle"]

\* The guard and the reads before the loop.  An invoice that is not Ready fails.
FindReferenceData(u) ==
  /\ pc[u] = "idle"
  /\ Ready(inv[u])
  /\ \E c \in FindCityByName(inv[u].city) : city' = [city EXCEPT ![u] = c]
  /\ Goto(u, IF StepsOf(inv[u]) = 0 THEN "calculated" ELSE "persist")
  /\ UNCHANGED <<calculations, inv, results>>

Persist(u) ==
  /\ pc[u] = "persist"
  /\ \E group \in {GroupAt(inv[u], Pending(u))} :
     \E row \in {Row(u, group, TaxAt(Pending(u)))} :
        /\ Upsert(row)
        /\ results' = [results EXCEPT ![u] = Append(@, row)]
  /\ Goto(u, IF Pending(u) = StepsOf(inv[u]) THEN "calculated" ELSE "persist")
  /\ UNCHANGED <<inv, city>>

\* A read or an upsert fails, or the invoice is not Ready: Execute returns the
\* error, and the rows upserted so far stay.
Fail(u) ==
  /\ pc[u] \in {"idle", "persist"}
  /\ Goto(u, "failed")
  /\ UNCHANGED <<calculations, inv, city, results>>

\* An upsert takes effect and its acknowledgement is lost.
UpsertUnacknowledged(u) ==
  /\ pc[u] = "persist"
  /\ Upsert(RowAt(u, Pending(u)))
  /\ Goto(u, "failed")
  /\ UNCHANGED <<inv, city, results>>

Finished == {"calculated", "failed"}

Terminated ==
  /\ \A u \in Uploads : pc[u] \in Finished
  /\ UNCHANGED vars

Next ==
  \/ \E u \in Uploads : \/ FindReferenceData(u)
                        \/ Persist(u)
                        \/ Fail(u)
                        \/ UpsertUnacknowledged(u)
  \/ Terminated

Spec == Init /\ [][Next]_vars

-----------------------------------------------------------------------------
(* Properties.                                                             *)

CalculationRow ==
  [invoice: Nat \ {0}, concept: Concepts \cup {0}, tax: TaxTypes, base: Int,
   tariff: Int, value: Int]

TypeOK ==
  /\ calculations \subseteq CalculationRow
  /\ inv \in [Uploads -> Invoices]
  /\ city \in [Uploads -> Cities \cup {NoCity}]
  /\ results \in [Uploads -> Seq(CalculationRow)]
  /\ pc \in [Uploads -> {"idle", "persist"} \cup Finished]
  /\ \A u \in Uploads : pc[u] = "persist" => Pending(u) =< StepsOf(inv[u])

\* No withholding is negative or more than its base, which a credit may make
\* negative: rounding and the sums over a concept's lines included.
Within(row) == 0 =< row.value /\ (row.value =< row.base \/ row.value = 0)

WithheldWithinBase == \A row \in calculations : Within(row)

\* The sum of the exact amounts of the lines of invoice i with a concept.
TotalOf(i, concept) ==
  SumFunctionOnSet([k \in DOMAIN i.lines |-> i.lines[k].total],
                   {k \in DOMAIN i.lines : ConceptColumn(i.lines[k].concept) = concept})

InForce(rule, at) == rule.from =< at /\ (rule.to = NoEnd \/ at =< rule.to)

\* The minimum base of RETEFUENTE is weighed against all an invoice has under
\* a concept, wherever its lines stand in it, and a base equal to it is enough:
\* with one national rule in force, its tariff applies if and only if the total
\* is there.
ThresholdIsPerInvoice ==
  \A u \in Uploads : pc[u] = "calculated" =>
     \A row \in ToSet(results[u]) :
        LET rules == {r \in TaxRules : r.tax = "RETEFUENTE" /\ r.concept = row.concept
                                         /\ r.city = NoCity /\ InForce(r, inv[u].date)}
        IN  row.tax = "RETEFUENTE" =>
              \A rule \in rules : rules = {rule} =>
                 LET total == TotalOf(inv[u], row.concept)
                 IN  row.tariff = IF Round(total, Fraction) >= MinimumBase(rule, Uvt(inv[u]))
                                  THEN rule.tariff ELSE 0

\* A tariff applied is one in force on the day of the invoice, and none that a
\* later validity has replaced, its issuer's city's own for RETEICA.
TariffIsInForce ==
  \A u \in Uploads : \A row \in ToSet(results[u]) : row.tariff # 0 =>
     \E rule \in TaxRules :
        /\ rule.tax = row.tax /\ rule.concept = row.concept
        /\ rule.tariff = row.tariff
        /\ rule.city = IF row.tax = "RETEICA" THEN city[u] ELSE NoCity
        /\ InForce(rule, inv[u].date)
        /\ ~ \E later \in TaxRules :
              /\ later.tax = rule.tax /\ later.concept = rule.concept
              /\ later.city = rule.city /\ later.from > rule.from
              /\ InForce(later, inv[u].date)

\* One result for each tax type and concept of the invoice, the lines without a
\* concept counting as one, and the same results whatever the order of lines.
OrderOfLinesIsIrrelevant ==
  \A u, v \in Uploads :
     LET i == inv[u]
         j == inv[v]
     IN  (/\ pc[u] = "calculated" /\ pc[v] = "calculated"
          /\ i.id = j.id /\ i.date = j.date /\ city[u] = city[v]
          /\ \E p \in Bijection(DOMAIN i.lines, DOMAIN i.lines) :
                j.lines = [k \in DOMAIN i.lines |-> i.lines[p[k]]])
         => /\ Len(results[u]) = Cardinality(ToSet(results[u]))
            /\ ToSet(results[u]) = ToSet(results[v])
            /\ SummarizeByTaxType(results[u]) = SummarizeByTaxType(results[v])

=============================================================================
