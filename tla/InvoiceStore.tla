---------------------------- MODULE InvoiceStore ----------------------------
(***************************************************************************)
(* What InvoiceRepository.Save promises (repositories.go: "Save upserts by *)
(* CUFE and replaces existing lines; re-importing the same invoice does    *)
(* not duplicate lines"): invoices saved by several uploads, each save one *)
(* indivisible replacement of whatever the CUFE had.                       *)
(***************************************************************************)
EXTENDS Integers, Sequences

CONSTANTS
  Uploads,  \* calls of Save
  Cufes,    \* invoice identifiers
  Heads,    \* contents of an invoice's own columns
  Bodies,   \* contents of a line's columns, its concept included
  Docs      \* the invoices uploads may carry

DocLine == [number: Int, body: Bodies]
Doc     == [cufe: Cufes, head: Heads, lines: Seq(DocLine)]  \* Docs is of these
Stored  == [cufe: Cufes, head: Heads, lines: SUBSET DocLine]

VARIABLES
  stored,  \* the invoices stored, one per CUFE
  doc,     \* doc[u]: the invoice u carries
  status   \* status[u]

vars == <<stored, doc, status>>

LineSet(d) == {d.lines[i] : i \in DOMAIN d.lines}
Content(d) == [cufe |-> d.cufe, head |-> d.head, lines |-> LineSet(d)]

\* Two lines with one number cannot be stored together.
RepeatsNumber(d) ==
  \E i, j \in DOMAIN d.lines : i # j /\ d.lines[i].number = d.lines[j].number

Init ==
  /\ stored = {}
  /\ doc \in [Uploads -> Docs]
  /\ status = [u \in Uploads |-> "pending"]

Replace(u) ==
  /\ ~RepeatsNumber(doc[u])
  /\ stored' = {s \in stored : s.cufe # doc[u].cufe} \cup {Content(doc[u])}

Save(u) ==
  /\ status[u] = "pending"
  /\ Replace(u)
  /\ status' = [status EXCEPT ![u] = "saved"]
  /\ UNCHANGED doc

\* The save takes effect but its caller sees an error.
SaveUnacknowledged(u) ==
  /\ status[u] = "pending"
  /\ Replace(u)
  /\ status' = [status EXCEPT ![u] = "failed"]
  /\ UNCHANGED doc

\* Some saves fail without effect: one by an error, or several in a crash.
Fail ==
  /\ \E S \in SUBSET {u \in Uploads : status[u] = "pending"} :
       status' = [u \in Uploads |-> IF u \in S THEN "failed" ELSE status[u]]
  /\ UNCHANGED <<stored, doc>>

Next == (\E u \in Uploads : Save(u) \/ SaveUnacknowledged(u)) \/ Fail

Spec == Init /\ [][Next]_vars

=============================================================================
