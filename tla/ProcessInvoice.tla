--------------------------- MODULE ProcessInvoice ---------------------------
(***************************************************************************)
(* ProcessInvoice.Execute from end to end, run by several uploads: parse,  *)
(* classify, save the invoice, calculate its withholdings, respond.  It    *)
(* composes the steps of ClassifyInvoiceLines, what InvoiceRepository      *)
(* promises (InvoiceStore: a save is one step) and the steps of            *)
(* CalculateWithholdings.  No transaction spans two of them, and nothing   *)
(* keeps two uploads of one invoice apart.                                 *)
(*                                                                         *)
(* What the components hand to each other is derived: the invoice that     *)
(* is saved and calculated is the upload's file with the concepts that     *)
(* classification has left in its lines.  A CUFE stands for the id of its  *)
(* invoice, which InvoiceRepository never changes (IdsAreStable).          *)
(***************************************************************************)
EXTENDS Integers, Sequences
LOCAL INSTANCE FiniteSetsExt
LOCAL INSTANCE SequencesExt

CONSTANTS
  Uploads, Cufes,
  Files,                                 \* what the parser makes of the XML files
  Issuers, SKUs, Descriptions, Keys, Normal, Replies,  \* as in ClassifyInvoiceLines
  Fraction, TaxRules, UVTValues, Cities, Matches, NoCity, NoEnd, Concepts,
  IsVATWithholdingAgent, Null,           \* as in CalculateWithholdings
  Nobody                                 \* no upload

FileLine ==
  [number: Int, sku: SKUs \cup {Null}, desc: Descriptions, total: Int, iva: Int]
File ==
  [cufe: Cufes, date: Int, city: DOMAIN Matches, issuer: Issuers, lines: Seq(FileLine)]

ASSUME FilesAssumption    == Files \subseteq File
ASSUME NormalAssumption   == Normal \in [Descriptions -> Keys]
ASSUME ConceptsAssumption == Concepts \subseteq Nat \ {0}
ASSUME NullAssumption     == Null \notin SKUs \cup Issuers \cup Concepts
ASSUME CufesAssumption    == Cufes \subseteq Nat \ {0}
ASSUME FractionAssumption == Fraction \in Nat \ {0}
ASSUME AgentAssumption    == IsVATWithholdingAgent \in BOOLEAN
ASSUME NobodyAssumption   == Nobody \notin Uploads

VARIABLES
  file,     \* file[u]: the file u uploads
  rows, nextId, tx, pos, concept, answer, pc, answers,  \* of ClassifyInvoiceLines
  stored, status,                                       \* of InvoiceStore
  calculations, city, results, calc,                    \* of CalculateWithholdings
  stage,    \* stage[u]: how far u is
  current,  \* history: current[c] is the upload that has had invoice c for
            \* itself since it began, or Nobody
  known     \* history: known[u] has the lines of u whose item was stored with a
            \* concept when u began

-----------------------------------------------------------------------------
(* One invoice as each component sees it.                                  *)

Classifiable(f) ==
  [issuer |-> f.issuer,
   lines  |-> [i \in DOMAIN f.lines |->
                 [sku |-> f.lines[i].sku, desc |-> f.lines[i].desc]]]

\* The in-memory invoice, its amounts as parsed.
Calculable(f, concepts) ==
  [id |-> f.cufe, date |-> f.date, city |-> f.city,
   lines |-> [i \in DOMAIN f.lines |->
                [concept |-> concepts[i], total |-> f.lines[i].total,
                 iva |-> f.lines[i].iva]]]

Withholdings == INSTANCE CalculateWithholdings
  WITH inv <- [u \in Uploads |-> Calculable(file[u], concept[u])],
       Invoices <- UNION {{Calculable(f, c) :
                             c \in [DOMAIN f.lines -> Concepts \cup {Null}]} : f \in Files},
       pc <- calc

ASSUME TablesAssumption == Withholdings!TablesAreSeeded

\* The columns of amounts have two decimals: the database rounds to centavos.
Centavos(amount) == Withholdings!Round(amount, Fraction)

StoredAs(f, concepts) ==
  [cufe |-> f.cufe,
   head |-> [issuer |-> f.issuer, date |-> f.date, city |-> f.city],
   lines |-> [i \in DOMAIN f.lines |->
                [number |-> f.lines[i].number,
                 body   |-> [sku |-> f.lines[i].sku, desc |-> f.lines[i].desc,
                             concept |-> concepts[i],
                             total |-> Centavos(f.lines[i].total),
                             iva |-> Centavos(f.lines[i].iva)]]]]

Heads  == [issuer: Issuers, date: Int, city: DOMAIN Matches]
Bodies == [sku: SKUs \cup {Null}, desc: Descriptions, concept: Concepts \cup {Null},
           total: Int, iva: Int]

doc == [u \in Uploads |-> StoredAs(file[u], concept[u])]

Store == INSTANCE InvoiceStore
  WITH Docs <- UNION {{StoredAs(f, c) :
                         c \in [DOMAIN f.lines -> Concepts \cup {Null}]} : f \in Files}

Classification == INSTANCE ClassifyInvoiceLines
  WITH invoice <- [u \in Uploads |-> Classifiable(file[u])],
       Invoices <- {Classifiable(f) : f \in Files},
       Catalog <- Concepts

cacheVars == <<rows, nextId, tx, pos, concept, answer, pc, answers>>
storeVars == <<stored, status>>
calcVars  == <<calculations, city, results, calc>>
vars      == <<file, rows, nextId, tx, pos, concept, answer, pc, answers, stored,
               status, calculations, city, results, calc, stage, current, known>>

InProgress == {"classify", "save", "calculate"}
Ended      == {"responded", "failed"}

Goto(u, s) == stage' = [stage EXCEPT ![u] = s]

\* Classification goes on, or ends well, or ends the upload.
Classified(u) ==
  Goto(u, CASE pc'[u] = "classified" -> "save"
            [] pc'[u] = "failed"     -> "failed"
            [] OTHER                 -> "classify")

-----------------------------------------------------------------------------
Init ==
  /\ file \in [Uploads -> Files]
  /\ Classification!Init
  /\ Store!Init
  /\ Withholdings!Init
  /\ stage = [u \in Uploads |-> "idle"]
  /\ current = [c \in Cufes |-> Nobody]
  /\ known = [u \in Uploads |-> {}]

\* Whether the store has, under issuer, the item of a line with a concept.
KnownItem(issuer, line) ==
  \E s \in stored : \E l \in s.lines :
     /\ s.head.issuer = issuer
     /\ l.body.sku = line.sku
     /\ Normal[l.body.desc] = Normal[line.desc]
     /\ l.body.concept # Null

\* The parser accepts the file.  (An upload it rejects has no effect.)
Parse(u) ==
  /\ stage[u] = "idle"
  /\ UNCHANGED <<file, storeVars, calcVars>>
  /\ Classification!Begin(u)
  /\ Classified(u)
  /\ LET others == {v \in Uploads : stage[v] \in InProgress /\ file[v].cufe = file[u].cufe}
     IN  current' = [current EXCEPT ![file[u].cufe] = IF others = {} THEN u ELSE Nobody]
  /\ known' = [known EXCEPT ![u] =
                 {i \in DOMAIN file[u].lines : KnownItem(file[u].issuer, file[u].lines[i])}]

\* Classification before the save, so that the lines are stored with concepts.
ClassifyStep(u) ==
  /\ stage[u] = "classify"
  /\ UNCHANGED <<file, storeVars, calcVars, current, known>>
  /\ \/ Classification!FindByIssuerAndSKU(u)
     \/ Classification!FindByDescription(u)
     \/ Classification!Classify(u)
     \/ Classification!Save(u)
     \/ Classification!Commit(u)
  /\ Classified(u)

ClassifyError(u) ==
  /\ stage[u] = "classify"
  /\ UNCHANGED <<file, storeVars, calcVars, current, known>>
  /\ Classification!RepositoryError(u) \/ Classification!CommitUnacknowledged(u)
  /\ Classified(u)

SaveInvoice(u) ==
  /\ stage[u] = "save"
  /\ UNCHANGED <<file, cacheVars, calcVars, current, known>>
  /\ Store!Save(u)
  /\ Goto(u, "calculate")

\* Bug: the error of the save is dropped.
SaveErrorIgnored(u) ==
  /\ stage[u] = "save"
  /\ status' = [status EXCEPT ![u] = "failed"]
  /\ Goto(u, "calculate")
  /\ UNCHANGED <<file, stored, cacheVars, calcVars, current, known>>

\* Bug: when the save fails the whole upload is tried again, for ever.
SaveRetried(u) ==
  /\ stage[u] = "save"
  /\ Goto(u, "idle")
  /\ pc' = [pc EXCEPT ![u] = "idle"]
  /\ pos' = [pos EXCEPT ![u] = 1]
  /\ UNCHANGED <<file, rows, nextId, tx, concept, answer, answers, storeVars,
                 calcVars, current, known>>

\* The save fails, or takes effect and its acknowledgement is lost.
SaveError(u) ==
  /\ stage[u] = "save"
  /\ UNCHANGED <<file, cacheVars, calcVars, current, known>>
  /\ \/ Store!SaveUnacknowledged(u)
     \/ status' = [status EXCEPT ![u] = "failed"] /\ UNCHANGED stored
  /\ Goto(u, "failed")

\* A step of CalculateWithholdings.Execute, the last of which responds.
CalculateStep(u) ==
  /\ stage[u] = "calculate"
  /\ UNCHANGED <<file, cacheVars, storeVars, current, known>>
  /\ Withholdings!FindReferenceData(u) \/ Withholdings!Persist(u)
  /\ Goto(u, IF calc'[u] = "calculated" THEN "responded" ELSE "calculate")

CalculateError(u) ==
  /\ stage[u] = "calculate"
  /\ UNCHANGED <<file, cacheVars, storeVars, current, known>>
  /\ Withholdings!Fail(u) \/ Withholdings!UpsertUnacknowledged(u)
  /\ Goto(u, "failed")

\* The server dies with all uploads in progress, wherever each of them is.
Crash ==
  /\ \E u \in Uploads : stage[u] \in InProgress
  /\ stage' = [u \in Uploads |-> IF stage[u] \in InProgress THEN "failed" ELSE stage[u]]
  /\ tx' = [u \in Uploads |-> {}]
  /\ pc' = [u \in Uploads |-> IF stage[u] = "classify" THEN "failed" ELSE pc[u]]
  /\ UNCHANGED <<file, rows, nextId, pos, concept, answer, answers, storeVars,
                 calcVars, current, known>>

Terminated ==
  /\ \A u \in Uploads : stage[u] \in Ended
  /\ UNCHANGED vars

Step(u) ==
  Parse(u) \/ ClassifyStep(u) \/ SaveInvoice(u) \/ CalculateStep(u)

Error(u) == ClassifyError(u) \/ SaveError(u) \/ CalculateError(u)

Next ==
  \/ \E u \in Uploads : Step(u) \/ Error(u)
  \/ Crash
  \/ Terminated

Spec == Init /\ [][Next]_vars

\* The errors the data make unavoidable: a repeated line number, a day without
\* a UVT value.
Unavoidable(u) ==
  \/ Store!RepeatsNumber(doc[u]) /\ SaveError(u)
  \/ Withholdings!FindUVTValue(file[u].date) = {} /\ CalculateError(u)

\* Calls return and locks are granted once free: while some upload can go on,
\* one does.  Neither chance errors nor fairness between uploads is needed.
FairSpec == Spec /\ WF_vars(\E u \in Uploads : Step(u) \/ Unavoidable(u))

-----------------------------------------------------------------------------
(* Properties.                                                             *)

\* Variables have their types, every stored invoice is one that some upload
\* carries, with the concepts it found, and who calculates has saved.
TypeOK ==
  /\ file \in [Uploads -> Files]
  /\ Classification!TypeOK
  /\ Withholdings!TypeOK
  /\ stored \subseteq Store!Stored
  /\ \A s \in stored : \E u \in Uploads : s = Store!Content(doc[u])
  /\ status \in [Uploads -> {"pending", "saved", "failed"}]
  /\ stage \in [Uploads -> {"idle"} \cup InProgress \cup Ended]
  /\ current \in [Cufes -> Uploads \cup {Nobody}]
  /\ known \in [Uploads -> SUBSET Nat]
  /\ \A u \in Uploads : stage[u] \in {"calculate", "responded"} => status[u] = "saved"

\* Whoever is answered while nobody else touched its invoice finds in the
\* database what the answer says: the invoice as this upload carried it and each
\* calculation it lists, whatever earlier uploads of the invoice left.
ResponseIsStored ==
  \A u \in Uploads :
     (stage[u] = "responded" /\ current[file[u].cufe] = u)
        => /\ Store!Content(doc[u]) \in stored
           /\ ToSet(results[u]) \subseteq calculations

\* No calculation is stored for an invoice that is not: no foreign key keeps
\* this, only the order of the steps and that a failed save ends the upload.  The
\* guard on the id does not: a save has set it before its COMMIT may fail.
NoOrphanCalculations ==
  \A row \in calculations : \E s \in stored : s.cufe = row.invoice

\* A stored invoice without all of its calculations has been given up by an
\* error or is being worked on: no answer is sent for one.
IncompleteOnlyAfterError ==
  \A s \in stored :
     (\A u \in Uploads : (file[u].cufe = s.cufe /\ stage[u] # "idle")
                            => stage[u] = "responded")
     => \A l \in s.lines : \A tax \in Withholdings!TaxTypes :
          \E row \in calculations :
             /\ row.invoice = s.cufe /\ row.tax = tax
             /\ row.concept = Withholdings!ConceptColumn(l.body.concept)

\* The concept of a stored line is backed by an entry of the cache under a key
\* of the line: across the two components, and whatever failed or died between
\* their transactions, nothing is stored with a concept that is not cached.
StoredConceptIsCached ==
  \A s \in stored : \A l \in s.lines :
     l.body.concept # Null => Classification!CachedFor(s.head.issuer, l.body) # {}

\* An upload does not ask the model about a line whose item was stored with a
\* concept when it began, so a re-upload cannot leave such a line unclassified
\* (its concept may change, and an upload already under way may undo it).
StoredItemIsNotAskedAgain ==
  \A u \in Uploads : pc[u] = "llm" => pos[u] \notin known[u]

\* The bases calculated from the amounts as parsed and the amounts of the lines
\* rounded by the database agree but for half a centavo a line and half for the
\* base: totals for RETEFUENTE and RETEICA, the IVA for RETEIVA.
BaseIsNearStoredLines ==
  \A u \in Uploads :
     (stage[u] = "responded" /\ current[file[u].cufe] = u) =>
        \A row \in calculations :
           LET lines == {i \in DOMAIN file[u].lines :
                           Withholdings!ConceptColumn(concept[u][i]) = row.concept}
               amount == [i \in DOMAIN file[u].lines |->
                            IF row.tax = "RETEIVA" THEN doc[u].lines[i].body.iva
                                                   ELSE doc[u].lines[i].body.total]
               sum == Withholdings!SumFunctionOnSet(amount, lines)
           IN  (row.invoice = file[u].cufe /\ lines # {} /\ row.tariff # 0)
                  => 2 * (row.base - sum) \in -(Cardinality(lines) + 1)..(Cardinality(lines) + 1)

\* Of the pipeline one sees in the cache and in the lines what uploads that only
\* classify would do, crashes included, so that what is proved of them holds here.
ClassifiesAsAlone == Classification!Spec

\* Every upload that begins is answered or fails.
EveryUploadEnds ==
  \A u \in Uploads : stage[u] \in InProgress ~> stage[u] \in Ended

\* up.sql:145-146: "Recalculating overwrites, no history is kept", so after an
\* upload that had the invoice for itself all rows are of its concepts.
NoHistoryIsKept ==
  \A u \in Uploads :
     (stage[u] = "responded" /\ current[file[u].cufe] = u)
        => \A row \in calculations : row.invoice = file[u].cufe =>
             \E i \in DOMAIN concept[u] :
                row.concept = Withholdings!ConceptColumn(concept[u][i])

=============================================================================
