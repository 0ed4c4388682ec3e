------------------------ MODULE ClassifyInvoiceLines ------------------------
(***************************************************************************)
(* Classification of invoice lines into withholding concepts: the use case *)
(* ClassifyInvoiceLines.Execute run by several uploads at once against the *)
(* one table line_classifications, which they use as a cache of what the   *)
(* language model answered.                                                *)
(*                                                                         *)
(* An upload walks its lines in order.  For each it looks for an entry by  *)
(* (issuer, SKU), then by normalized description; on a miss it asks the    *)
(* model and saves the answer before it writes it into the line.  Every    *)
(* query, the call to the model, the INSERT and its COMMIT are steps of    *)
(* their own, and other uploads run between them.                          *)
(***************************************************************************)
EXTENDS Integers, Sequences

CONSTANTS
  Uploads,       \* requests, or files of a batch; a retry is another upload
  Issuers,       \* NITs
  SKUs,          \* non-empty seller item codes
  Descriptions,  \* raw line descriptions
  Keys,          \* normalized descriptions
  Normal,        \* what normalizeDescription makes of each description
  Invoices,      \* parsed invoices an upload may carry
  Catalog,       \* concepts whose codes the classifier knows
  Replies,       \* what the model may reply: concepts, or anything else
  Null           \* nil / SQL NULL

Line    == [sku: SKUs \cup {Null}, desc: Descriptions]
Invoice == [issuer: Issuers, lines: Seq(Line)]
Row     == [id: Nat, issuer: Issuers \cup {Null}, sku: SKUs \cup {Null},
            desc: Keys, concept: Catalog]
Answer  == [issuer: Issuers, sku: SKUs \cup {Null}, desc: Keys,
            concept: Catalog]

ASSUME NormalAssumption   == Normal \in [Descriptions -> Keys]
ASSUME InvoicesAssumption == Invoices \subseteq Invoice
ASSUME NullAssumption     == Null \notin SKUs \cup Issuers \cup Catalog

VARIABLES
  rows,      \* committed rows of line_classifications
  nextId,    \* the table's id sequence
  tx,        \* tx[u]: the row u has written and not yet committed, if any
  invoice,   \* invoice[u]: the invoice u carries
  pos,       \* pos[u]: the line u is at
  concept,   \* concept[u][i]: ConceptID of line i
  answer,    \* answer[u]: the concept the model gave for the current line
  pc,        \* pc[u]: the call u is about to make
  answers    \* history: every valid answer of the model, with what it was for

vars == <<rows, nextId, tx, invoice, pos, concept, answer, pc, answers>>

Settled == {"classified", "failed"}
Working == {"bySKU", "byDescription", "llm", "save", "commit"}

-----------------------------------------------------------------------------
(* The lines of an upload and the entries of the cache.                    *)

normalizeDescription(d) == Normal[d]

Current(u)    == invoice[u].lines[pos[u]]
CurrentKey(u) == normalizeDescription(Current(u).desc)

\* The first call Execute makes for line i, or its return after the last line.
Station(u, i) ==
  IF i > Len(invoice[u].lines) THEN "classified"
  ELSE IF invoice[u].lines[i].sku = Null THEN "byDescription" ELSE "bySKU"

\* Bug: the key without the issuer.
BySKUOfAnyIssuer(issuer, sku) == {r \in rows : sku # Null /\ r.sku = sku}

BySKU(issuer, sku) == {r \in rows : sku # Null /\ r.issuer = issuer /\ r.sku = sku}
ByDescription(key) == {r \in rows : r.desc = key}

\* First(): of the rows that match, the one with the least primary key.
IsFirst(r, found) == r \in found /\ \A q \in found : r.id =< q.id

\* Bug: an entry keyed by the description as it came.
NewEntryUnnormalized(u) ==
  [id      |-> nextId,
   issuer  |-> IF Current(u).sku = Null THEN Null ELSE invoice[u].issuer,
   sku     |-> Current(u).sku,
   desc    |-> Current(u).desc,
   concept |-> answer[u]]

\* The entry Execute builds from an answer: issuer and SKU only with a SKU.
NewEntry(u) ==
  [id      |-> nextId,
   issuer  |-> IF Current(u).sku = Null THEN Null ELSE invoice[u].issuer,
   sku     |-> Current(u).sku,
   desc    |-> CurrentKey(u),
   concept |-> answer[u]]

\* Another open transaction holds the unique key (issuer_nit, sku) of u's entry.
Blocked(u) ==
  \E v \in Uploads \ {u} : \E t \in tx[v] :
     /\ t.sku = Current(u).sku
     /\ t.sku # Null
     /\ t.issuer = invoice[u].issuer

-----------------------------------------------------------------------------
(* Steps that several actions share.                                       *)

Goto(u, station) == pc' = [pc EXCEPT ![u] = station]

\* The line gets c (Null: it stays unclassified) and the loop goes on.
Advance(u, c) ==
  /\ concept' = [concept EXCEPT ![u] = [@ EXCEPT ![pos[u]] = c]]
  /\ pos' = [pos EXCEPT ![u] = @ + 1]
  /\ Goto(u, Station(u, pos[u] + 1))

\* COMMIT: the written row replaces the version with its id.
Publish(u) ==
  rows' = {r \in rows : \A t \in tx[u] : t.id # r.id} \cup tx[u]

-----------------------------------------------------------------------------
Init ==
  /\ rows = {}
  /\ nextId = 1
  /\ tx = [u \in Uploads |-> {}]
  /\ invoice \in [Uploads -> Invoices]
  /\ pos = [u \in Uploads |-> 1]
  /\ concept = [u \in Uploads |-> [i \in 1..Len(invoice[u].lines) |-> Null]]
  /\ answer = [u \in Uploads |-> Null]
  /\ pc = [u \in Uploads |-> "idle"]
  /\ answers = {}

Begin(u) ==
  /\ pc[u] = "idle"
  /\ Goto(u, Station(u, 1))
  /\ UNCHANGED <<rows, nextId, tx, invoice, pos, concept, answer, answers>>

FindByIssuerAndSKU(u) ==
  /\ pc[u] = "bySKU"
  /\ LET found == BySKU(invoice[u].issuer, Current(u).sku)
     IN  \/ \E r \in found : IsFirst(r, found) /\ Advance(u, r.concept)
         \/ /\ found = {}
            /\ Goto(u, "byDescription")
            /\ UNCHANGED <<pos, concept>>
  /\ UNCHANGED <<rows, nextId, tx, invoice, answer, answers>>

FindByDescription(u) ==
  /\ pc[u] = "byDescription"
  /\ LET found == ByDescription(CurrentKey(u))
     IN  \/ \E r \in found : IsFirst(r, found) /\ Advance(u, r.concept)
         \/ /\ found = {}
            /\ Goto(u, "llm")
            /\ UNCHANGED <<pos, concept>>
  /\ UNCHANGED <<rows, nextId, tx, invoice, answer, answers>>

\* Bug: a code is not looked up in the catalog.
ClassifyUnchecked(u) ==
  /\ pc[u] = "llm"
  /\ \E reply \in Replies : answer' = [answer EXCEPT ![u] = reply]
  /\ Goto(u, "save")
  /\ UNCHANGED <<rows, nextId, tx, invoice, pos, concept, answers>>

\* Bug: a line is tried again from its lookup until the model answers well.
ClassifyWithRetries(u) ==
  /\ pc[u] = "llm"
  /\ \E reply \in Replies :
       /\ answer' = [answer EXCEPT ![u] = IF reply \in Catalog THEN reply ELSE @]
       /\ Goto(u, IF reply \in Catalog THEN "save" ELSE Station(u, pos[u]))
  /\ UNCHANGED <<rows, nextId, tx, invoice, pos, concept, answers>>

\* The call to the model.  No answer, or a code outside the catalog, is an
\* error, and an error is only logged: the line stays without a concept.
Classify(u) ==
  /\ pc[u] = "llm"
  /\ \E reply \in Replies :
       \/ /\ reply \in Catalog
          /\ answer' = [answer EXCEPT ![u] = reply]
          /\ answers' = answers \cup
               {[issuer |-> invoice[u].issuer, sku |-> Current(u).sku,
                 desc |-> CurrentKey(u), concept |-> reply]}
          /\ Goto(u, "save")
          /\ UNCHANGED <<pos, concept>>
       \/ /\ reply \notin Catalog
          /\ Advance(u, Null)
          /\ UNCHANGED <<answer, answers>>
  /\ UNCHANGED <<rows, nextId, tx, invoice>>

\* Bug: a plain INSERT, on a table without its unique index.
SaveWithoutUpsert(u) ==
  /\ pc[u] = "save"
  /\ tx' = [tx EXCEPT ![u] = {NewEntry(u)}]
  /\ nextId' = nextId + 1
  /\ Goto(u, "commit")
  /\ UNCHANGED <<rows, invoice, pos, concept, answer, answers>>

\* Bug: the upsert takes the description along with the answer.
SaveWithDescription(u) ==
  /\ pc[u] = "save"
  /\ ~Blocked(u)
  /\ LET conflict == BySKU(invoice[u].issuer, Current(u).sku)
     IN  tx' = [tx EXCEPT ![u] =
                  IF conflict = {} THEN {NewEntry(u)}
                  ELSE {[NewEntry(u) EXCEPT !.id = r.id] : r \in conflict}]
  /\ nextId' = nextId + 1
  /\ Goto(u, "commit")
  /\ UNCHANGED <<rows, invoice, pos, concept, answer, answers>>

\* INSERT ... ON CONFLICT (issuer_nit, sku) DO UPDATE of the answer's columns.
\* The id is drawn from the sequence whether or not there is a conflict.
Save(u) ==
  /\ pc[u] = "save"
  /\ ~Blocked(u)
  /\ LET conflict == BySKU(invoice[u].issuer, Current(u).sku)
     IN  tx' = [tx EXCEPT ![u] =
                  IF conflict = {} THEN {NewEntry(u)}
                  ELSE {[r EXCEPT !.concept = answer[u]] : r \in conflict}]
  /\ nextId' = nextId + 1
  /\ Goto(u, "commit")
  /\ UNCHANGED <<rows, invoice, pos, concept, answer, answers>>

Commit(u) ==
  /\ pc[u] = "commit"
  /\ Publish(u)
  /\ tx' = [tx EXCEPT ![u] = {}]
  /\ Advance(u, answer[u])
  /\ UNCHANGED <<nextId, invoice, answer, answers>>

\* Bug: a failed Save is logged like a failed call to the model.
RepositoryErrorLogged(u) ==
  /\ pc[u] \in {"save", "commit"}
  /\ tx' = [tx EXCEPT ![u] = {}]
  /\ Advance(u, answer[u])
  /\ UNCHANGED <<rows, nextId, invoice, answer, answers>>

\* A query or the transaction of Save fails: Execute returns the error.
RepositoryError(u) ==
  /\ pc[u] \in Working \ {"llm"}
  /\ tx' = [tx EXCEPT ![u] = {}]
  /\ Goto(u, "failed")
  /\ UNCHANGED <<rows, nextId, invoice, pos, concept, answer, answers>>

\* The COMMIT takes effect and its acknowledgement is lost.
CommitUnacknowledged(u) ==
  /\ pc[u] = "commit"
  /\ Publish(u)
  /\ tx' = [tx EXCEPT ![u] = {}]
  /\ Goto(u, "failed")
  /\ UNCHANGED <<nextId, invoice, pos, concept, answer, answers>>

\* The server dies: its uploads are lost, the database rolls back what they
\* had not committed, and uploads that had not begun find a new server.
Crash ==
  /\ \E u \in Uploads : pc[u] \in Working
  /\ tx' = [u \in Uploads |-> {}]
  /\ pc' = [u \in Uploads |-> IF pc[u] \in Working THEN "failed" ELSE pc[u]]
  /\ UNCHANGED <<rows, nextId, invoice, pos, concept, answer, answers>>

Terminated ==
  /\ \A u \in Uploads : pc[u] \in Settled
  /\ UNCHANGED vars

Step(u) ==
  \/ Begin(u)
  \/ FindByIssuerAndSKU(u)
  \/ FindByDescription(u)
  \/ Classify(u)
  \/ Save(u)
  \/ Commit(u)

Next ==
  \/ \E u \in Uploads : Step(u) \/ RepositoryError(u) \/ CommitUnacknowledged(u)
  \/ Crash
  \/ Terminated

Spec == Init /\ [][Next]_vars

\* Every call returns: database calls end or fail with the context, the SDK
\* bounds the call to the model, and PostgreSQL grants a lock once it is free.
FairSpec == Spec /\ \A u \in Uploads : WF_vars(Step(u))

-----------------------------------------------------------------------------
(* Properties.                                                             *)

TypeOK ==
  /\ rows \subseteq Row
  /\ nextId \in Nat \ {0}
  /\ tx \in [Uploads -> SUBSET Row]
  /\ invoice \in [Uploads -> Invoices]
  /\ pos \in [Uploads -> Nat \ {0}]
  /\ concept \in [Uploads -> Seq(Catalog \cup {Null})]
  /\ \A u \in Uploads : Len(concept[u]) = Len(invoice[u].lines)
  /\ answer \in [Uploads -> Catalog \cup {Null}]
  /\ pc \in [Uploads -> {"idle"} \cup Working \cup Settled]
  /\ \A u \in Uploads : pc[u] \in Working => pos[u] \in 1..Len(invoice[u].lines)
  /\ answers \subseteq Answer

CachedFor(issuer, line) ==
  BySKU(issuer, line.sku) \cup ByDescription(normalizeDescription(line.desc))

\* A line carries a concept only while the cache holds an entry under one of
\* the line's own keys: Execute assigns a concept it found, or one whose entry
\* is committed, and no upsert or crash takes an entry or its keys away.
ClassifiedLineIsCached ==
  \A u \in Uploads : \A i \in DOMAIN concept[u] :
     concept[u][i] # Null => CachedFor(invoice[u].issuer, invoice[u].lines[i]) # {}

\* Whether a is an answer for a line that the key of row r stands for.
Accounts(a, r) ==
  /\ a.concept = r.concept
  /\ IF r.sku = Null THEN a.desc = r.desc
                     ELSE a.issuer = r.issuer /\ a.sku = r.sku

\* An entry's concept is one the model gave for a line of the entry's key, the
\* issuer and SKU if it has them and else the description, whichever uploads
\* raced to write it and however often the upsert changed it.
EntryProvenance ==
  \A r \in rows : \E a \in answers : Accounts(a, r)

\* There is one committed entry for an issuer and SKU, whoever missed the cache
\* at the same time: what the comment on Save says the upsert is for.
OneEntryPerSKU ==
  \A r, q \in rows :
     (r.sku # Null /\ r.sku = q.sku /\ r.issuer = q.issuer) => r = q

SameItem(u, i, j) ==
  LET lines == invoice[u].lines
  IN  /\ lines[i].sku = lines[j].sku
      /\ normalizeDescription(lines[i].desc) = normalizeDescription(lines[j].desc)

\* Within an invoice the model is not asked twice about one item: once a line
\* is classified, a later line with its SKU and normalized description hits the
\* cache, whatever other uploads do between its two lookups.
ItemAskedOnce ==
  \A u \in Uploads : pc[u] = "llm" =>
     \A j \in 1..(pos[u] - 1) : SameItem(u, j, pos[u]) => concept[u][j] = Null

\* An entry, once committed, keeps its id and its keys for ever: an upsert may
\* give it another concept, and nothing deletes it or gives its keys away.
EntriesKeepTheirKeys ==
  [][\A r \in rows : \E q \in rows' :
        q.id = r.id /\ q.issuer = r.issuer /\ q.sku = r.sku /\ q.desc = r.desc]_vars

\* An upload that has begun is never stuck, neither behind another one's open
\* transaction nor behind a failing model: it classifies its lines or fails.
EveryUploadSettles ==
  \A u \in Uploads : pc[u] # "idle" ~> pc[u] \in Settled

-----------------------------------------------------------------------------
(* The inductive invariant behind ClassifiedLineIsCached, EntryProvenance,  *)
(* OneEntryPerSKU and ItemAskedOnce.                                       *)

\* The rows of the table, committed or not yet.
Versions == rows \cup UNION {tx[u] : u \in Uploads}

SameKeys(r, q) == r.issuer = q.issuer /\ r.sku = q.sku /\ r.desc = q.desc

\* Ids come from the sequence, two versions of one row differ in the answer
\* only, an upload writes one row, and an issuer and SKU have one row.
IdsAreFresh   == \A r \in Versions : r.id < nextId
VersionsAgree == \A r, q \in Versions : r.id = q.id => SameKeys(r, q)
CommittedOnce == \A r, q \in rows : r.id = q.id => r = q
WritesOneRow  == \A u \in Uploads : \A r, q \in tx[u] : r = q
SKUHasOneRow  ==
  \A r, q \in Versions :
     (r.sku # Null /\ r.sku = q.sku /\ r.issuer = q.issuer) => r.id = q.id

TableInv ==
  IdsAreFresh /\ VersionsAgree /\ CommittedOnce /\ WritesOneRow /\ SKUHasOneRow

\* What an upload saves was answered for its current line.
SavedAnswerIsRecorded ==
  \A u \in Uploads : pc[u] \in {"save", "commit"} =>
     [issuer |-> invoice[u].issuer, sku |-> Current(u).sku,
      desc |-> CurrentKey(u), concept |-> answer[u]] \in answers

VersionProvenance == \A r \in Versions : \E a \in answers : Accounts(a, r)

AnswersInv == SavedAnswerIsRecorded /\ VersionProvenance

\* What an upload writes is keyed for its current line.
KeyedFor(r, issuer, line) ==
  IF line.sku = Null THEN r.desc = normalizeDescription(line.desc)
                     ELSE r.issuer = issuer /\ r.sku = line.sku

PendingEntryIsKeyed ==
  \A u \in Uploads : pc[u] = "commit" =>
     \E t \in tx[u] : KeyedFor(t, invoice[u].issuer, Current(u))

\* A line that missed by SKU and repeats a classified one hits by description.
RepeatHitsByDescription ==
  \A u \in Uploads : pc[u] = "byDescription" =>
     \A j \in 1..(pos[u] - 1) :
        (SameItem(u, j, pos[u]) /\ concept[u][j] # Null)
           => ByDescription(CurrentKey(u)) # {}

LinesInv ==
  /\ PendingEntryIsKeyed
  /\ RepeatHitsByDescription
  /\ ClassifiedLineIsCached
  /\ ItemAskedOnce

\* The properties speak of committed rows and classified lines; the other parts
\* speak of what is on its way there.
IInv == TableInv /\ AnswersInv /\ LinesInv

-----------------------------------------------------------------------------
(* What the repository's texts say and the code does not do.               *)

\* README.md:25-26: the cache is "por proveedor + descripcion", per supplier and
\* description, so an entry used for a line comes from the line's supplier.
CachedPerSupplier ==
  \A u \in Uploads : \A i \in DOMAIN concept[u] :
     concept[u][i] # Null =>
        \E a \in answers : a.concept = concept[u][i] /\ a.issuer = invoice[u].issuer

\* classification_entity.go:3-4 and :16: an entry is keyed "by (issuer_nit, sku)
\* or by normalized description" and holds the model's answer for one
\* description, so what is found by a description was answered for it.
FoundByDescriptionWasAnsweredForIt ==
  \A r \in rows : \E a \in answers : a.desc = r.desc /\ a.concept = r.concept

=============================================================================
