-------------------------- MODULE InvoiceRepository -------------------------
(***************************************************************************)
(* InvoiceRepository over PostgreSQL: Save runs, in one transaction, the   *)
(* upsert of the invoice by CUFE, the upsert of its lines by (invoice,     *)
(* number) and the deletion of the lines it no longer has.  Statements of  *)
(* several transactions interleave under READ COMMITTED; the row or unique *)
(* key of a CUFE written by one keeps the others waiting until it ends.    *)
(* FindByCUFE reads the invoice and then its lines, in two statements      *)
(* outside any transaction.                                                *)
(***************************************************************************)
EXTENDS Integers, Sequences

CONSTANTS Uploads, Cufes, Heads, Bodies, Docs,  \* as in InvoiceStore
          Readers                               \* calls of FindByCUFE

ASSUME DocsAssumption ==
  Docs \subseteq [cufe: Cufes, head: Heads, lines: Seq([number: Int, body: Bodies])]

VARIABLES
  invoices,     \* committed rows of the table invoices
  lines,        \* committed rows of the table invoice_lines
  nextInvoice,  \* the id sequences of the two tables
  nextLine,
  doc,          \* doc[u]: the invoice u saves
  txInvoice,    \* the invoice row u's transaction has written, if any
  txLines,      \* the line rows it has written
  txGone,       \* ids of the line rows it has deleted
  pc,           \* pc[u]: the statement u is about to run
  found,        \* found[r]: the invoice row reader r has read, if any
  read,         \* read[r]: the lines it has read
  rpc           \* rpc[r]: what it is about to do

tables  == <<invoices, lines>>
ids     == <<nextInvoice, nextLine>>
writes  == <<txInvoice, txLines, txGone>>
reading == <<found, read, rpc>>
vars    == <<invoices, lines, nextInvoice, nextLine, doc, txInvoice, txLines,
             txGone, pc, found, read, rpc>>

InvoiceRow == [id: Nat \ {0}, cufe: Cufes, head: Heads]
LineRow    == [id: Nat, invoice: Nat \ {0}, number: Int, body: Bodies]

Open == {"lines", "stale", "commit"}

RepeatsNumber(d) ==
  \E i, j \in DOMAIN d.lines : i # j /\ d.lines[i].number = d.lines[j].number

\* Another transaction has written the invoice with u's CUFE.
Blocked(u) ==
  \E v \in Uploads \ {u} : \E row \in txInvoice[v] : row.cufe = doc[u].cufe

Goto(u, statement) == pc' = [pc EXCEPT ![u] = statement]

\* Bug: an ended transaction keeps its locks.
ForgetNothing(u) == UNCHANGED writes

Forget(u) ==
  /\ txInvoice' = [txInvoice EXCEPT ![u] = {}]
  /\ txLines' = [txLines EXCEPT ![u] = {}]
  /\ txGone' = [txGone EXCEPT ![u] = {}]

\* COMMIT: u's rows replace the versions with their ids, its deletions apply.
Publish(u) ==
  /\ invoices' = {r \in invoices : \A w \in txInvoice[u] : w.id # r.id}
                   \cup txInvoice[u]
  /\ lines' = {l \in lines : l.id \notin txGone[u]
                               /\ \A w \in txLines[u] : w.id # l.id}
                \cup txLines[u]

-----------------------------------------------------------------------------
Init ==
  /\ invoices = {}
  /\ lines = {}
  /\ nextInvoice = 1
  /\ nextLine = 1
  /\ doc \in [Uploads -> Docs]
  /\ txInvoice = [u \in Uploads |-> {}]
  /\ txLines = [u \in Uploads |-> {}]
  /\ txGone = [u \in Uploads |-> {}]
  /\ pc = [u \in Uploads |-> "invoice"]
  /\ found = [r \in Readers |-> {}]
  /\ read = [r \in Readers |-> {}]
  /\ rpc = [r \in Readers |-> "invoice"]

\* INSERT the invoice ON CONFLICT (cufe) DO UPDATE of its columns.
UpsertInvoice(u) ==
  /\ pc[u] = "invoice"
  /\ ~Blocked(u)
  /\ LET same == {r \in invoices : r.cufe = doc[u].cufe}
     IN  txInvoice' = [txInvoice EXCEPT ![u] =
           IF same = {}
           THEN {[id |-> nextInvoice, cufe |-> doc[u].cufe, head |-> doc[u].head]}
           ELSE {[r EXCEPT !.head = doc[u].head] : r \in same}]
  /\ nextInvoice' = nextInvoice + 1
  /\ Goto(u, IF doc[u].lines = <<>> THEN "stale" ELSE "lines")
  /\ UNCHANGED <<tables, nextLine, doc, txLines, txGone, reading>>

\* Bug: the lines are always inserted as new, the old ones left to RemoveStale.
FreshLines(d, id) ==
  {[id |-> nextLine + i - 1, invoice |-> id,
    number |-> d.lines[i].number, body |-> d.lines[i].body] : i \in DOMAIN d.lines}

\* Bug: the lines are written before they know their invoice.
OrphanLines(d, id) ==
  {[id |-> nextLine + i - 1, invoice |-> 0,
    number |-> d.lines[i].number, body |-> d.lines[i].body] : i \in DOMAIN d.lines}

\* The rows the lines of d become under invoice id: a number the invoice has
\* keeps its row, another gets the id drawn for it.
UpsertedLines(d, id) ==
  LET has(i) == {l \in lines : l.invoice = id /\ l.number = d.lines[i].number}
  IN  UNION {
        IF has(i) = {}
        THEN {[id |-> nextLine + i - 1, invoice |-> id,
               number |-> d.lines[i].number, body |-> d.lines[i].body]}
        ELSE {[l EXCEPT !.body = d.lines[i].body] : l \in has(i)}
        : i \in DOMAIN d.lines}

\* Bug: the statement is given the pool instead of the transaction.
UpsertLinesOutside(u) ==
  /\ pc[u] = "lines"
  /\ ~RepeatsNumber(doc[u])
  /\ \E row \in txInvoice[u] :
       LET new == UpsertedLines(doc[u], row.id)
       IN  /\ txLines' = [txLines EXCEPT ![u] = new]
           /\ lines' = {l \in lines : \A w \in new : w.id # l.id} \cup new
  /\ nextLine' = nextLine + Len(doc[u].lines)
  /\ Goto(u, "stale")
  /\ UNCHANGED <<invoices, nextInvoice, doc, txInvoice, txGone, reading>>

\* INSERT of all lines ON CONFLICT (invoice_id, line_number) DO UPDATE.  The
\* statement may not touch a row twice, so a repeated number is an error.
UpsertLines(u) ==
  /\ pc[u] = "lines"
  /\ ~RepeatsNumber(doc[u])
  /\ \E row \in txInvoice[u] :
       txLines' = [txLines EXCEPT ![u] = UpsertedLines(doc[u], row.id)]
  /\ nextLine' = nextLine + Len(doc[u].lines)
  /\ Goto(u, "stale")
  /\ UNCHANGED <<tables, nextInvoice, doc, txInvoice, txGone, reading>>

\* Bug: lines a corrected invoice no longer has are left behind.
RemoveNothing(u) ==
  /\ pc[u] = "stale"
  /\ Goto(u, "commit")
  /\ UNCHANGED <<tables, ids, doc, writes, reading>>

\* DELETE of the invoice's lines whose ids are not among those just written.
RemoveStale(u) ==
  /\ pc[u] = "stale"
  /\ \E row \in txInvoice[u] :
       txGone' = [txGone EXCEPT ![u] =
         {l.id : l \in {m \in lines : m.invoice = row.id
                                       /\ \A w \in txLines[u] : w.id # m.id}}]
  /\ Goto(u, "commit")
  /\ UNCHANGED <<tables, ids, doc, txInvoice, txLines, reading>>

Commit(u) ==
  /\ pc[u] = "commit"
  /\ Publish(u)
  /\ Forget(u)
  /\ Goto(u, "saved")
  /\ UNCHANGED <<ids, doc, reading>>

\* A statement fails, as the one with a repeated number always does: the
\* transaction is rolled back and Save returns the error.
Rollback(u) ==
  /\ pc[u] \in {"invoice"} \cup Open
  /\ Forget(u)
  /\ Goto(u, "failed")
  /\ UNCHANGED <<tables, ids, doc, reading>>

\* The COMMIT takes effect and its acknowledgement is lost.
CommitUnacknowledged(u) ==
  /\ pc[u] = "commit"
  /\ Publish(u)
  /\ Forget(u)
  /\ Goto(u, "failed")
  /\ UNCHANGED <<ids, doc, reading>>

\* The server dies, and with it every open transaction.
Crash ==
  /\ \E u \in Uploads : pc[u] \in Open
  /\ txInvoice' = [u \in Uploads |-> {}]
  /\ txLines' = [u \in Uploads |-> {}]
  /\ txGone' = [u \in Uploads |-> {}]
  /\ pc' = [u \in Uploads |-> IF pc[u] \in Open THEN "failed" ELSE pc[u]]
  /\ UNCHANGED <<tables, ids, doc, reading>>

-----------------------------------------------------------------------------
(* FindByCUFE.                                                             *)

ReadInvoice(r) ==
  /\ rpc[r] = "invoice"
  /\ \E row \in invoices :
       /\ found' = [found EXCEPT ![r] = {row}]
       /\ rpc' = [rpc EXCEPT ![r] = "lines"]
  /\ UNCHANGED <<tables, ids, writes, doc, pc, read>>

ReadLines(r) ==
  /\ rpc[r] = "lines"
  /\ \E row \in found[r] :
       read' = [read EXCEPT ![r] =
                  {[number |-> l.number, body |-> l.body] :
                     l \in {m \in lines : m.invoice = row.id}}]
  /\ rpc' = [rpc EXCEPT ![r] = "done"]
  /\ UNCHANGED <<tables, ids, writes, doc, pc, found>>

-----------------------------------------------------------------------------
Finished == {"saved", "failed"}

Terminated ==
  /\ \A u \in Uploads : pc[u] \in Finished
  /\ UNCHANGED vars

Step(u) ==
  UpsertInvoice(u) \/ UpsertLines(u) \/ RemoveStale(u) \/ Commit(u)

Next ==
  \/ \E u \in Uploads : Step(u) \/ Rollback(u) \/ CommitUnacknowledged(u)
  \/ \E r \in Readers : ReadInvoice(r) \/ ReadLines(r)
  \/ Crash
  \/ Terminated

Spec == Init /\ [][Next]_vars

\* Statements end, those that can only fail included, and PostgreSQL grants a
\* lock once it is free.
FairSpec ==
  /\ Spec
  /\ \A u \in Uploads : /\ WF_vars(Step(u))
                        /\ WF_vars(RepeatsNumber(doc[u]) /\ Rollback(u))

-----------------------------------------------------------------------------
(* Properties.                                                             *)

Types ==
  /\ invoices \subseteq InvoiceRow
  /\ lines \subseteq LineRow
  /\ nextInvoice \in Nat \ {0} /\ nextLine \in Nat \ {0}
  /\ doc \in [Uploads -> Docs]
  /\ txInvoice \in [Uploads -> SUBSET InvoiceRow]
  /\ txLines \in [Uploads -> SUBSET LineRow]
  /\ txGone \in [Uploads -> SUBSET Nat]
  /\ pc \in [Uploads -> {"invoice"} \cup Open \cup Finished]
  /\ found \in [Readers -> SUBSET InvoiceRow]
  /\ read \in [Readers -> SUBSET [number: Int, body: Bodies]]
  /\ rpc \in [Readers -> {"invoice", "lines", "done"}]

\* The primary and unique keys of the two tables.
UniqueKeys ==
  /\ \A r, q \in invoices : (r.id = q.id \/ r.cufe = q.cufe) => r = q
  /\ \A l, m \in lines :
        (l.id = m.id \/ (l.invoice = m.invoice /\ l.number = m.number)) => l = m

\* Variables have their types, and transactions that interleave never leave two
\* rows with one key.
TypeOK == Types /\ UniqueKeys

\* The invoices as InvoiceStore sees them, and what became of each save.
Contents ==
  {[cufe |-> r.cufe, head |-> r.head,
    lines |-> {[number |-> l.number, body |-> l.body] :
                 l \in {m \in lines : m.invoice = r.id}}] : r \in invoices}

Status == [u \in Uploads |-> IF pc[u] \in Finished THEN pc[u] ELSE "pending"]

Store == INSTANCE InvoiceStore WITH stored <- Contents, status <- Status

\* Save is one indivisible replacement of the invoice with its CUFE and of all
\* of its lines, of uploads of one CUFE that interleave, fail halfway or crash.
SaveIsAtomic == Store!Spec

\* Re-uploading an invoice, however its lines change, keeps its id, and the id
\* of each line that keeps its number: the comment on Save asks this of the
\* upsert, and rows of withholding_calculations refer to the invoice by id.
IdsAreStable ==
  [][/\ \A r \in invoices : \E q \in invoices' : q.id = r.id /\ q.cufe = r.cufe
     /\ \A l \in lines, m \in lines' :
          (l.invoice = m.invoice /\ l.number = m.number) => l.id = m.id]_vars

\* The lines FindByCUFE returns are those of one version of the invoice, all of
\* them and no other, though a save may commit between its two statements.  The
\* invoice they hang on may be of an earlier version: its row was read before.
ReadIsOneVersion ==
  \A r \in Readers : rpc[r] = "done" =>
     \E row \in found[r], d \in Docs :
        d.cufe = row.cufe /\ read[r] = Store!LineSet(d)

\* Every save ends: none waits for ever for a transaction on its CUFE.
EverySaveEnds == \A u \in Uploads : <>(pc[u] \in Finished)

=============================================================================
