---------------------- MODULE InvoiceRepositoryProofs -----------------------
(***************************************************************************)
(* Proofs about InvoiceRepository, for any uploads, invoices and readers:  *)
(* Save is one indivisible replacement, ids are stable, and FindByCUFE     *)
(* reads one version.  The invariant says what each open transaction may   *)
(* rely on in the tables until it commits, whoever commits before it.      *)
(***************************************************************************)
EXTENDS InvoiceRepository, SequenceTheorems, TLAPS

-----------------------------------------------------------------------------
(* The invariant.                                                          *)

\* What an invoice's lines are to a reader.
Pairs(S) == {[number |-> l.number, body |-> l.body] : l \in S}
LinesOf(id) == {l \in lines : l.invoice = id}

\* The tables have their keys, ids are drawn from the sequences, and an
\* invoice's lines are those of one document.
TablesInv ==
  /\ UniqueKeys
  /\ \A r \in invoices : r.id < nextInvoice
  /\ \A l \in lines : l.id < nextLine
  /\ \A r \in invoices :
        \E d \in Docs : d.cufe = r.cufe /\ Pairs(LinesOf(r.id)) = Store!LineSet(d)

\* Nobody else's rows have the CUFE or the id of u's.
RowInv(u) ==
  /\ pc[u] \notin Open => txInvoice[u] = {}
  /\ pc[u] \in Open => txInvoice[u] # {}
  /\ \A row \in txInvoice[u] :
        /\ txInvoice[u] = {row}
        /\ row.cufe = doc[u].cufe /\ row.head = doc[u].head
        /\ row.id < nextInvoice
        /\ \A r \in invoices : r.id = row.id <=> r.cufe = row.cufe
        /\ \A v \in Uploads \ {u} :
              \A q \in txInvoice[v] : q.id # row.id /\ q.cufe # row.cufe

\* u's lines are its document's, under its invoice, in rows nobody else has
\* and that committed lines have only if they are the same line.
LinesInv(u) ==
  /\ pc[u] \notin {"stale", "commit"} => txLines[u] = {}
  /\ pc[u] # "commit" => txGone[u] = {}
  /\ \A w \in txLines[u] :
        /\ w.id < nextLine
        /\ \A row \in txInvoice[u] : w.invoice = row.id
        /\ \A x \in txLines[u] : (w.id = x.id \/ w.number = x.number) => w = x
        /\ \A l \in lines :
              l.id = w.id <=> (l.invoice = w.invoice /\ l.number = w.number)
        /\ \A v \in Uploads \ {u} : \A x \in txLines[v] : w.id # x.id
  /\ pc[u] \in {"stale", "commit"} =>
        ~RepeatsNumber(doc[u]) /\ Pairs(txLines[u]) = Store!LineSet(doc[u])
  /\ pc[u] = "commit" =>
        \A row \in txInvoice[u] :
           txGone[u] = {l.id : l \in {m \in LinesOf(row.id) :
                                        \A w \in txLines[u] : w.id # m.id}}

\* The invoice a reader has found is there until it has read its lines.
ReaderInv(r) ==
  /\ rpc[r] # "invoice" => found[r] # {}
  /\ \A row \in found[r] : \E q \in invoices : q.id = row.id /\ q.cufe = row.cufe
  /\ rpc[r] = "done" =>
        \E row \in found[r], d \in Docs :
           d.cufe = row.cufe /\ read[r] = Store!LineSet(d)

IInv ==
  /\ Types
  /\ TablesInv
  /\ \A u \in Uploads : RowInv(u) /\ LinesInv(u)
  /\ \A r \in Readers : ReaderInv(r)

-----------------------------------------------------------------------------
(* The lines an invoice's become.                                          *)

\* What each statement does to the writers' part of the invariant.
LEMMA DocType ==
  ASSUME NEW d \in Docs
  PROVE  /\ d.cufe \in Cufes /\ d.head \in Heads
         /\ Len(d.lines) \in Nat /\ DOMAIN d.lines = 1..Len(d.lines)
         /\ \A i \in 1..Len(d.lines) :
               d.lines[i].number \in Int /\ d.lines[i].body \in Bodies
         /\ \A i \in 1..Len(d.lines) :
               d.lines[i] = [number |-> d.lines[i].number, body |-> d.lines[i].body]
<1>1. d \in [cufe: Cufes, head: Heads, lines: Seq([number: Int, body: Bodies])]
  BY DocsAssumption
<1>2. \A i \in 1..Len(d.lines) : d.lines[i] \in [number: Int, body: Bodies]
  BY <1>1, ElementOfSeq
<1> QED
  BY <1>1, <1>2

\* w is the row written for line i of d: new, or that of the line with its
\* number.
WrittenFor(w, d, i, id) ==
  /\ w.number = d.lines[i].number /\ w.body = d.lines[i].body
  /\ \/ /\ w.id = nextLine + i - 1
        /\ \A l \in lines : ~(l.invoice = id /\ l.number = w.number)
     \/ \E l \in lines : l.id = w.id /\ l.invoice = id /\ l.number = w.number

\* The upserted lines are the document's, one for one.
LEMMA UpsertedLine ==
  ASSUME Types, NEW d \in Docs, NEW id \in Nat \ {0}
  PROVE  /\ \A w \in UpsertedLines(d, id) :
              /\ w \in LineRow /\ w.invoice = id
              /\ \E i \in 1..Len(d.lines) : WrittenFor(w, d, i, id)
         /\ \A i \in 1..Len(d.lines) :
              \E w \in UpsertedLines(d, id) : WrittenFor(w, d, i, id)
<1> DEFINE has(i) == {l \in lines : l.invoice = id /\ l.number = d.lines[i].number}
           new(i) == [id |-> nextLine + i - 1, invoice |-> id,
                      number |-> d.lines[i].number, body |-> d.lines[i].body]
           old(i) == {[l EXCEPT !.body = d.lines[i].body] : l \in has(i)}
           rows(i) == IF has(i) = {} THEN {new(i)} ELSE old(i)
<1>1. UpsertedLines(d, id) = UNION {rows(i) : i \in 1..Len(d.lines)}
  BY DocType DEF UpsertedLines
<1>2. ASSUME NEW i \in 1..Len(d.lines), NEW w \in rows(i)
      PROVE  w \in LineRow /\ w.invoice = id /\ WrittenFor(w, d, i, id)
  <2>1. d.lines[i].number \in Int /\ d.lines[i].body \in Bodies
    BY DocType
  <2>2. CASE has(i) = {}
    <3>1. w = new(i) /\ nextLine + i - 1 \in Nat
      BY <1>2, <2>2 DEF Types
    <3> QED
      BY <2>1, <2>2, <3>1 DEF LineRow, WrittenFor
  <2>3. CASE has(i) # {}
    <3>1. PICK l \in has(i) : w = [l EXCEPT !.body = d.lines[i].body]
      BY <1>2, <2>3
    <3>2. l \in LineRow
      BY DEF Types
    <3>3. /\ w \in LineRow /\ w.id = l.id /\ w.invoice = l.invoice
          /\ w.number = l.number /\ w.body = d.lines[i].body
      BY <2>1, <3>1, <3>2 DEF LineRow
    <3> QED
      BY <3>3 DEF WrittenFor
  <2> QED
    BY <2>2, <2>3
<1>3. \A i \in 1..Len(d.lines) : rows(i) # {}
  OBVIOUS
<1> HIDE DEF rows
<1>4. ASSUME NEW w \in UpsertedLines(d, id)
      PROVE  \E i \in 1..Len(d.lines) : w \in rows(i)
  BY <1>1
<1>5. \A i \in 1..Len(d.lines) : rows(i) \subseteq UpsertedLines(d, id)
  BY <1>1
<1> QED
  BY <1>2, <1>3, <1>4, <1>5

\* A row is its columns.
LEMMA SameRow ==
  ASSUME NEW w \in LineRow, NEW x \in LineRow,
         w.id = x.id, w.invoice = x.invoice, w.number = x.number, w.body = x.body
  PROVE  w = x
<1>1. w = [id |-> w.id, invoice |-> w.invoice, number |-> w.number, body |-> w.body]
  BY DEF LineRow
<1>2. x = [id |-> x.id, invoice |-> x.invoice, number |-> x.number, body |-> x.body]
  BY DEF LineRow
<1> QED
  BY <1>1, <1>2

\* A number is in one row, with one id, however old and new rows mix.
LEMMA UpsertedOnce ==
  ASSUME Types, TablesInv, NEW d \in Docs, ~RepeatsNumber(d), NEW id \in Nat \ {0},
         NEW w \in UpsertedLines(d, id), NEW x \in UpsertedLines(d, id),
         w.id = x.id \/ w.number = x.number
  PROVE  w = x
<1>1. PICK i \in 1..Len(d.lines) : WrittenFor(w, d, i, id)
  BY UpsertedLine
<1>2. PICK j \in 1..Len(d.lines) : WrittenFor(x, d, j, id)
  BY UpsertedLine
<1>3. w \in LineRow /\ x \in LineRow /\ w.invoice = id /\ x.invoice = id
  BY UpsertedLine
<1>4. /\ \A l \in lines : l.id < nextLine /\ l.id \in Nat
      /\ nextLine \in Nat
      /\ \A l, m \in lines :
           (l.id = m.id \/ (l.invoice = m.invoice /\ l.number = m.number)) => l = m
  BY DEF Types, TablesInv, UniqueKeys, LineRow
<1>5. w.number = x.number
  BY <1>1, <1>2, <1>4 DEF WrittenFor
<1>6. i = j
  BY <1>1, <1>2, <1>5, DocType DEF RepeatsNumber, WrittenFor
<1>7. w.id = x.id
  BY <1>1, <1>2, <1>4, <1>5, <1>6 DEF WrittenFor
<1>8. w.invoice = x.invoice /\ w.body = x.body
  BY <1>1, <1>2, <1>3, <1>6 DEF WrittenFor
<1> QED
  BY <1>3, <1>5, <1>7, <1>8, SameRow

-----------------------------------------------------------------------------
(* Statements of a transaction.                                            *)

WritesInv ==
  /\ Types
  /\ TablesInv
  /\ \A u \in Uploads : RowInv(u) /\ LinesInv(u)

\* The row an upsert writes is its own: new, or the committed one of its CUFE
\* that no other open transaction has.
LEMMA UpsertedInvoice ==
  ASSUME WritesInv, NEW u \in Uploads, UpsertInvoice(u)
  PROVE  \E row \in InvoiceRow :
           /\ txInvoice' = [txInvoice EXCEPT ![u] = {row}]
           /\ row.cufe = doc[u].cufe /\ row.head = doc[u].head
           /\ row.id < nextInvoice + 1
           /\ \A r \in invoices : r.id = row.id <=> r.cufe = row.cufe
           /\ \A v \in Uploads \ {u} :
                 \A q \in txInvoice[v] : q.id # row.id /\ q.cufe # row.cufe
<1> DEFINE same == {r \in invoices : r.cufe = doc[u].cufe}
<1>1. doc[u] \in Docs /\ doc[u].cufe \in Cufes /\ doc[u].head \in Heads
  BY DocType DEF WritesInv, Types
<1>2. nextInvoice \in Nat \ {0} /\ invoices \subseteq InvoiceRow
  BY DEF WritesInv, Types
<1>3. \A v \in Uploads \ {u} : \A q \in txInvoice[v] :
         /\ q \in InvoiceRow /\ q.cufe # doc[u].cufe /\ q.id < nextInvoice
         /\ \A r \in invoices : r.id = q.id <=> r.cufe = q.cufe
  BY DEF WritesInv, Types, RowInv, UpsertInvoice, Blocked
<1>4. CASE same = {}
  <2> DEFINE row == [id |-> nextInvoice, cufe |-> doc[u].cufe, head |-> doc[u].head]
  <2>1. txInvoice' = [txInvoice EXCEPT ![u] = {row}]
    BY <1>4 DEF UpsertInvoice
  <2>2. row \in InvoiceRow
    BY <1>1, <1>2 DEF InvoiceRow
  <2>3. \A r \in invoices : r.id < nextInvoice /\ r.id \in Nat /\ r.cufe # doc[u].cufe
    BY <1>2, <1>4 DEF WritesInv, TablesInv, UniqueKeys, InvoiceRow
  <2>4. row.id = nextInvoice /\ row.cufe = doc[u].cufe /\ row.head = doc[u].head
    OBVIOUS
  <2>5. row.id < nextInvoice + 1 /\ \A r \in invoices : r.id = row.id <=> r.cufe = row.cufe
    BY <1>2, <2>3, <2>4
  <2>6. \A v \in Uploads \ {u} :
           \A q \in txInvoice[v] : q.id # row.id /\ q.cufe # row.cufe
    BY <1>2, <1>3, <2>4 DEF InvoiceRow
  <2> HIDE DEF row, same
  <2> QED
    BY <2>1, <2>2, <2>4, <2>5, <2>6
<1>5. CASE same # {}
  <2>1. PICK r \in same : TRUE
    BY <1>5
  <2>2. same = {r}
    BY <2>1 DEF WritesInv, TablesInv, UniqueKeys
  <2> DEFINE row == [r EXCEPT !.head = doc[u].head]
  <2>3. txInvoice' = [txInvoice EXCEPT ![u] = {row}]
    <3>1. txInvoice' = [txInvoice EXCEPT ![u] = {[q EXCEPT !.head = doc[u].head] : q \in same}]
      BY <1>5 DEF UpsertInvoice
    <3>2. {[q EXCEPT !.head = doc[u].head] : q \in same} = {row}
      BY <2>2
    <3> QED
      BY <3>1, <3>2
  <2>4. r \in InvoiceRow
    BY <1>2, <2>1
  <2>5. /\ row \in InvoiceRow /\ row.id = r.id /\ row.cufe = doc[u].cufe
        /\ row.head = doc[u].head
    BY <1>1, <2>1, <2>4 DEF InvoiceRow
  <2>6. row.id < nextInvoice + 1
    BY <1>2, <2>1, <2>4, <2>5 DEF WritesInv, TablesInv, UniqueKeys, InvoiceRow
  <2>7. \A q \in invoices : q.id = row.id <=> q.cufe = row.cufe
    BY <2>1, <2>5 DEF WritesInv, TablesInv, UniqueKeys
  <2>8. \A v \in Uploads \ {u} :
           \A q \in txInvoice[v] : q.id # row.id /\ q.cufe # row.cufe
    BY <1>3, <2>1, <2>5
  <2> HIDE DEF row, same
  <2> QED
    BY <2>3, <2>5, <2>6, <2>7, <2>8
<1> QED
  BY <1>4, <1>5

\* The upsert of the invoice keeps the invariant.
LEMMA UpsertInvoiceKeeps ==
  ASSUME WritesInv, NEW u \in Uploads, UpsertInvoice(u)
  PROVE  WritesInv'
<1>1. PICK row \in InvoiceRow :
         /\ txInvoice' = [txInvoice EXCEPT ![u] = {row}]
         /\ row.cufe = doc[u].cufe /\ row.head = doc[u].head
         /\ row.id < nextInvoice + 1
         /\ \A r \in invoices : r.id = row.id <=> r.cufe = row.cufe
         /\ \A v \in Uploads \ {u} :
               \A q \in txInvoice[v] : q.id # row.id /\ q.cufe # row.cufe
  BY UpsertedInvoice
<1>2. /\ UNCHANGED <<invoices, lines, nextLine, doc, txLines, txGone, found, read, rpc>>
      /\ pc[u] = "invoice" /\ nextInvoice' = nextInvoice + 1
      /\ pc' = [pc EXCEPT ![u] = IF doc[u].lines = <<>> THEN "stale" ELSE "lines"]
  BY DEF UpsertInvoice, Goto, tables, reading
<1>3. Types'
  BY <1>1, <1>2 DEF WritesInv, Types, Open
<1>4. TablesInv'
  <2>1. \A r \in invoices : r.id < nextInvoice'
    BY <1>2 DEF WritesInv, TablesInv, UniqueKeys, Types, InvoiceRow
  <2> QED
    BY <1>2, <2>1 DEF WritesInv, TablesInv, UniqueKeys, LinesOf
<1>5. ASSUME NEW v \in Uploads PROVE RowInv(v)'
  <2>1. CASE v = u
    BY <1>1, <1>2, <2>1 DEF WritesInv, Types, RowInv, Open
  <2>2. CASE v # u
    <3>1. txInvoice'[v] = txInvoice[v] /\ pc'[v] = pc[v] /\ RowInv(v)
      BY <1>1, <1>2, <2>2 DEF WritesInv, Types
    <3>2. \A q \in txInvoice[v] : q.id < nextInvoice'
      BY <1>2, <3>1 DEF WritesInv, Types, RowInv, InvoiceRow
    <3>3. \A q \in txInvoice[v] : \A x \in Uploads \ {v} :
            \A p \in txInvoice'[x] : p.id # q.id /\ p.cufe # q.cufe
      BY <1>1, <2>2, <3>1 DEF WritesInv, Types, RowInv
    <3> QED
      BY <1>2, <3>1, <3>2, <3>3 DEF RowInv
  <2> QED
    BY <2>1, <2>2
<1>6. ASSUME NEW v \in Uploads PROVE LinesInv(v)'
  <2>1. CASE v = u
    <3>1. txLines[u] = {} /\ txGone[u] = {}
      BY <1>2 DEF WritesInv, LinesInv
    <3>2. pc'[u] = IF doc[u].lines = <<>> THEN "stale" ELSE "lines"
      BY <1>2 DEF WritesInv, Types
    <3>3. doc[u].lines = <<>>
             => ~RepeatsNumber(doc[u]) /\ Pairs({}) = Store!LineSet(doc[u])
      <4>1. DOMAIN <<>> = {} /\ Pairs({}) = {}
        BY DEF Pairs
      <4> QED
        BY <4>1 DEF RepeatsNumber, Store!LineSet
    <3> QED
      BY <1>2, <2>1, <3>1, <3>2, <3>3 DEF LinesInv, RepeatsNumber, Pairs, Store!LineSet
  <2>2. CASE v # u
    BY <1>1, <1>2, <2>2
       DEF WritesInv, Types, LinesInv, RepeatsNumber, Pairs, LinesOf, Store!LineSet
  <2> QED
    BY <2>1, <2>2
<1> QED
  BY <1>3, <1>4, <1>5, <1>6 DEF WritesInv

\* The lines written are those of the document, in rows nobody else has.
LEMMA UpsertLinesKeeps ==
  ASSUME WritesInv, NEW u \in Uploads, UpsertLines(u)
  PROVE  WritesInv'
<1>1. /\ UNCHANGED <<invoices, lines, nextInvoice, doc, txInvoice, txGone, found, read, rpc>>
      /\ pc[u] = "lines" /\ pc' = [pc EXCEPT ![u] = "stale"]
      /\ nextLine' = nextLine + Len(doc[u].lines) /\ ~RepeatsNumber(doc[u])
  BY DEF UpsertLines, Goto, tables, reading
<1>2. PICK row \in txInvoice[u] :
         txLines' = [txLines EXCEPT ![u] = UpsertedLines(doc[u], row.id)]
  BY DEF UpsertLines
<1> DEFINE new == UpsertedLines(doc[u], row.id)
<1>3. /\ doc[u] \in Docs /\ Len(doc[u].lines) \in Nat /\ row \in InvoiceRow
      /\ row.id \in Nat \ {0} /\ nextLine \in Nat \ {0}
  BY DocType DEF WritesInv, Types, InvoiceRow
<1>4. \A w \in new : /\ w \in LineRow /\ w.invoice = row.id
                     /\ \E i \in 1..Len(doc[u].lines) : WrittenFor(w, doc[u], i, row.id)
  BY <1>3, UpsertedLine DEF WritesInv
<1>5. Types'
  <2>1. nextLine' \in Nat \ {0}
    BY <1>1, <1>3
  <2>2. new \subseteq LineRow
    BY <1>4
  <2>3. txLines' = [txLines EXCEPT ![u] = new]
    BY <1>2
  <2> HIDE DEF new
  <2> QED
    BY <1>1, <2>1, <2>2, <2>3 DEF WritesInv, Types, Open
<1>6. TablesInv'
  <2>1. \A l \in lines : l.id < nextLine'
    BY <1>1, <1>3 DEF WritesInv, Types, TablesInv, UniqueKeys, LineRow
  <2> QED
    BY <1>1, <2>1 DEF WritesInv, TablesInv, UniqueKeys, LinesOf
<1>7. ASSUME NEW v \in Uploads PROVE RowInv(v)'
  BY <1>1 DEF WritesInv, Types, RowInv, Open
<1>8. \A w \in new : /\ w.id < nextLine'
                     /\ \A x \in new : (w.id = x.id \/ w.number = x.number) => w = x
  <2>1. ASSUME NEW w \in new PROVE w.id < nextLine'
    <3>1. PICK i \in 1..Len(doc[u].lines) : WrittenFor(w, doc[u], i, row.id)
      BY <1>4
    <3>2. \A l \in lines : l.id < nextLine /\ l.id \in Nat
      BY DEF WritesInv, Types, TablesInv, UniqueKeys, LineRow
    <3> QED
      BY <1>1, <1>3, <3>1, <3>2 DEF WrittenFor
  <2> QED
    BY <1>1, <1>3, <2>1, UpsertedOnce DEF WritesInv
<1>9. ASSUME NEW w \in new, NEW l \in lines
      PROVE  l.id = w.id <=> (l.invoice = w.invoice /\ l.number = w.number)
  <2>1. PICK i \in 1..Len(doc[u].lines) : WrittenFor(w, doc[u], i, row.id)
    BY <1>4
  <2>2. \A m \in lines : /\ m.id < nextLine /\ m.id \in Nat
                         /\ (m.id = l.id \/ (m.invoice = l.invoice /\ m.number = l.number))
                               => m = l
    BY DEF WritesInv, Types, TablesInv, UniqueKeys, LineRow
  <2> QED
    BY <1>3, <1>4, <2>1, <2>2 DEF WrittenFor
<1>10. ASSUME NEW w \in new, NEW v \in Uploads \ {u}, NEW x \in txLines[v]
       PROVE  w.id # x.id
  <2>1. PICK i \in 1..Len(doc[u].lines) : WrittenFor(w, doc[u], i, row.id)
    BY <1>4
  <2>2. x.id < nextLine /\ x.id \in Nat
    BY DEF WritesInv, Types, LinesInv, LineRow
  <2>3. PICK q \in txInvoice[v] : x.invoice = q.id
    BY DEF WritesInv, Types, LinesInv, RowInv, Open
  <2>4. q.id # row.id
    BY DEF WritesInv, RowInv
  <2>5. \A l \in lines : l.id = x.id => l.invoice = x.invoice
    BY DEF WritesInv, LinesInv
  <2> QED
    BY <1>3, <2>1, <2>2, <2>3, <2>4, <2>5 DEF WrittenFor
<1>11. Pairs(new) = Store!LineSet(doc[u])
  <2>1. \A i \in 1..Len(doc[u].lines) : \E w \in new : WrittenFor(w, doc[u], i, row.id)
    BY <1>3, UpsertedLine DEF WritesInv
  <2>2. \A i \in 1..Len(doc[u].lines) :
           doc[u].lines[i] = [number |-> doc[u].lines[i].number,
                              body |-> doc[u].lines[i].body]
    BY <1>3, DocType
  <2>3. Store!LineSet(doc[u]) = {doc[u].lines[i] : i \in 1..Len(doc[u].lines)}
    BY <1>3, DocType DEF Store!LineSet
  <2> HIDE DEF new
  <2>4. ASSUME NEW w \in new
        PROVE  [number |-> w.number, body |-> w.body] \in Store!LineSet(doc[u])
    BY <1>4, <2>2, <2>3 DEF WrittenFor
  <2>5. ASSUME NEW i \in 1..Len(doc[u].lines) PROVE doc[u].lines[i] \in Pairs(new)
    BY <2>1, <2>2 DEF WrittenFor, Pairs
  <2> QED
    BY <2>3, <2>4, <2>5 DEF Pairs
<1>12. ASSUME NEW v \in Uploads PROVE LinesInv(v)'
  <2> HIDE DEF new
  <2>1. CASE v = u
    <3>1. txLines'[u] = new /\ pc'[u] = "stale" /\ txGone'[u] = {}
      BY <1>1, <1>2 DEF WritesInv, Types, LinesInv, new
    <3>2. \A q \in txInvoice[u] : q.id = row.id
      BY DEF WritesInv, RowInv
    <3>3. \A x \in Uploads \ {u} : txLines'[x] = txLines[x]
      BY <1>2 DEF WritesInv, Types
    <3>4. ASSUME NEW w \in new
          PROVE  /\ w.id < nextLine'
                 /\ \A q \in txInvoice'[u] : w.invoice = q.id
                 /\ \A x \in new : (w.id = x.id \/ w.number = x.number) => w = x
                 /\ \A l \in lines' :
                       l.id = w.id <=> (l.invoice = w.invoice /\ l.number = w.number)
                 /\ \A x \in Uploads \ {u} : \A y \in txLines'[x] : w.id # y.id
      BY <1>1, <1>4, <1>8, <1>9, <1>10, <3>2, <3>3
    <3>5. ~RepeatsNumber(doc[u])' /\ Pairs(txLines[u])' = Store!LineSet(doc[u])'
      BY <1>1, <1>11, <3>1 DEF RepeatsNumber, Pairs, Store!LineSet
    <3> QED
      BY <2>1, <3>1, <3>4, <3>5 DEF LinesInv
  <2>2. CASE v # u
    <3>1. txLines'[v] = txLines[v] /\ pc'[v] = pc[v] /\ LinesInv(v)
      BY <1>1, <1>2, <2>2 DEF WritesInv, Types
    <3>2. \A w \in txLines[v] : w.id < nextLine'
      BY <1>1, <1>3, <3>1 DEF WritesInv, Types, LinesInv, LineRow
    <3>3. \A w \in txLines[v] : \A x \in Uploads \ {v} : \A y \in txLines'[x] : w.id # y.id
      <4>1. SUFFICES ASSUME NEW w \in txLines[v], NEW x \in Uploads \ {v}, NEW y \in txLines'[x]
                     PROVE  w.id # y.id
        OBVIOUS
      <4>2. CASE x = u
        BY <1>2, <1>10, <2>2, <4>2 DEF WritesInv, Types, new
      <4>3. CASE x # u
        BY <1>2, <3>1, <4>3 DEF WritesInv, Types, LinesInv
      <4> QED
        BY <4>2, <4>3
    <3> QED
      BY <1>1, <3>1, <3>2, <3>3
         DEF LinesInv, LinesOf, RepeatsNumber, Pairs, Store!LineSet
  <2> QED
    BY <2>1, <2>2
<1> QED
  BY <1>5, <1>6, <1>7, <1>12 DEF WritesInv

\* The deletion of stale lines keeps it.
LEMMA RemoveStaleKeeps ==
  ASSUME WritesInv, NEW u \in Uploads, RemoveStale(u)
  PROVE  WritesInv'
<1>1. /\ UNCHANGED <<invoices, lines, nextInvoice, nextLine, doc, txInvoice, txLines,
                     found, read, rpc>>
      /\ pc[u] = "stale" /\ pc' = [pc EXCEPT ![u] = "commit"]
  BY DEF RemoveStale, Goto, tables, ids, reading
<1>2. PICK row \in txInvoice[u] :
        txGone' = [txGone EXCEPT ![u] =
          {l.id : l \in {m \in LinesOf(row.id) : \A w \in txLines[u] : w.id # m.id}}]
  <2>1. PICK row \in txInvoice[u] :
          txGone' = [txGone EXCEPT ![u] =
            {l.id : l \in {m \in lines : m.invoice = row.id
                                          /\ \A w \in txLines[u] : w.id # m.id}}]
    BY DEF RemoveStale
  <2>2. {m \in lines : m.invoice = row.id /\ \A w \in txLines[u] : w.id # m.id}
          = {m \in LinesOf(row.id) : \A w \in txLines[u] : w.id # m.id}
    BY DEF LinesOf
  <2> QED
    BY <2>1, <2>2
<1> DEFINE gone == {l.id : l \in {m \in LinesOf(row.id) : \A w \in txLines[u] : w.id # m.id}}
<1>3. gone \subseteq Nat
  BY DEF LinesOf, WritesInv, Types, LineRow
<1>4. \A q \in txInvoice[u] : q = row
  BY DEF WritesInv, RowInv
<1>5. Types'
  <2> HIDE DEF gone
  <2> QED
    BY <1>1, <1>2, <1>3 DEF WritesInv, Types, Open, gone
<1>6. TablesInv'
  BY <1>1 DEF WritesInv, TablesInv, UniqueKeys, LinesOf
<1>7. ASSUME NEW v \in Uploads PROVE RowInv(v)'
  BY <1>1 DEF WritesInv, Types, RowInv, Open
<1>8. ASSUME NEW v \in Uploads PROVE LinesInv(v)'
  <2>1. CASE v = u
    <3>1. txGone'[u] = gone /\ pc'[u] = "commit"
      BY <1>1, <1>2 DEF WritesInv, Types
    <3>2. \A q \in txInvoice'[u] :
             gone = {l.id : l \in {m \in LinesOf(q.id) : \A w \in txLines[u] : w.id # m.id}}'
      BY <1>1, <1>4 DEF LinesOf
    <3>3. LinesInv(u)
      BY DEF WritesInv
    <3> HIDE DEF gone
    <3> QED
      BY <1>1, <2>1, <3>1, <3>2, <3>3
         DEF LinesInv, LinesOf, RepeatsNumber, Pairs, Store!LineSet
  <2>2. CASE v # u
    BY <1>1, <1>2, <2>2
       DEF WritesInv, Types, LinesInv, LinesOf, RepeatsNumber, Pairs, Store!LineSet
  <2> QED
    BY <2>1, <2>2
<1> QED
  BY <1>5, <1>6, <1>7, <1>8 DEF WritesInv

-----------------------------------------------------------------------------
(* The end of a transaction.                                               *)

\* COMMIT replaces the invoice with the CUFE and all of its lines, whatever
\* others have committed since u read the tables.
LEMMA Published ==
  ASSUME WritesInv, NEW u \in Uploads, pc[u] = "commit", Publish(u)
  PROVE  \E row \in InvoiceRow :
           /\ txInvoice[u] = {row}
           /\ row.cufe = doc[u].cufe /\ row.head = doc[u].head
           /\ invoices' = {r \in invoices : r.cufe # row.cufe} \cup {row}
           /\ lines' = {l \in lines : l.invoice # row.id} \cup txLines[u]
           /\ \A r \in invoices : r.id = row.id <=> r.cufe = row.cufe
           /\ \A w \in txLines[u] : w.invoice = row.id
           /\ Pairs(txLines[u]) = Store!LineSet(doc[u]) /\ ~RepeatsNumber(doc[u])
<1>1. PICK row \in InvoiceRow :
         /\ txInvoice[u] = {row}
         /\ row.cufe = doc[u].cufe /\ row.head = doc[u].head
         /\ \A r \in invoices : r.id = row.id <=> r.cufe = row.cufe
  BY DEF WritesInv, Types, RowInv, Open
<1>2. /\ \A w \in txLines[u] : w.invoice = row.id
      /\ \A w \in txLines[u], l \in lines : l.id = w.id => l.invoice = row.id
      /\ Pairs(txLines[u]) = Store!LineSet(doc[u]) /\ ~RepeatsNumber(doc[u])
      /\ txGone[u] = {l.id : l \in {m \in LinesOf(row.id) :
                                      \A w \in txLines[u] : w.id # m.id}}
  BY <1>1 DEF WritesInv, LinesInv
<1>3. invoices' = {r \in invoices : r.cufe # row.cufe} \cup {row}
  BY <1>1 DEF Publish
<1>4. ASSUME NEW l \in lines
      PROVE  (l.id \notin txGone[u] /\ \A w \in txLines[u] : w.id # l.id)
                <=> l.invoice # row.id
  <2>1. CASE l.invoice = row.id
    BY <1>2, <2>1 DEF LinesOf
  <2>2. CASE l.invoice # row.id
    <3>1. \A m \in lines : m.id = l.id => m = l
      BY DEF WritesInv, TablesInv, UniqueKeys
    <3> QED
      BY <1>2, <2>2, <3>1 DEF LinesOf
  <2> QED
    BY <2>1, <2>2
<1>5. lines' = {l \in lines : l.invoice # row.id} \cup txLines[u]
  BY <1>4 DEF Publish
<1> QED
  BY <1>1, <1>2, <1>3, <1>5

\* A COMMIT keeps it.
LEMMA CommitKeeps ==
  ASSUME WritesInv, NEW u \in Uploads, Commit(u) \/ CommitUnacknowledged(u)
  PROVE  WritesInv'
<1>1. /\ UNCHANGED <<nextInvoice, nextLine, doc, found, read, rpc>>
      /\ pc[u] = "commit" /\ Publish(u) /\ Forget(u)
  BY DEF Commit, CommitUnacknowledged, ids, reading
<1>2. PICK s \in Finished : pc' = [pc EXCEPT ![u] = s]
  BY DEF Commit, CommitUnacknowledged, Goto, Finished
<1>3. PICK row \in InvoiceRow :
         /\ txInvoice[u] = {row}
         /\ row.cufe = doc[u].cufe /\ row.head = doc[u].head
         /\ invoices' = {r \in invoices : r.cufe # row.cufe} \cup {row}
         /\ lines' = {l \in lines : l.invoice # row.id} \cup txLines[u]
         /\ \A r \in invoices : r.id = row.id <=> r.cufe = row.cufe
         /\ \A w \in txLines[u] : w.invoice = row.id
         /\ Pairs(txLines[u]) = Store!LineSet(doc[u]) /\ ~RepeatsNumber(doc[u])
  BY <1>1, Published
<1>4. /\ txInvoice' = [txInvoice EXCEPT ![u] = {}]
      /\ txLines' = [txLines EXCEPT ![u] = {}]
      /\ txGone' = [txGone EXCEPT ![u] = {}]
  BY <1>1 DEF Forget
<1>5. Types'
  BY <1>1, <1>2, <1>3, <1>4 DEF WritesInv, Types, Finished
<1>6. TablesInv'
  <2>1. row.id < nextInvoice /\ \A w \in txLines[u] : w.id < nextLine
    BY <1>3 DEF WritesInv, RowInv, LinesInv
  <2>2. \A r, q \in invoices' : (r.id = q.id \/ r.cufe = q.cufe) => r = q
    BY <1>3 DEF WritesInv, TablesInv, UniqueKeys
  <2>3. \A l, m \in lines' :
           (l.id = m.id \/ (l.invoice = m.invoice /\ l.number = m.number)) => l = m
    BY <1>3 DEF WritesInv, TablesInv, UniqueKeys, LinesInv
  <2>4. ASSUME NEW r \in invoices'
        PROVE  \E d \in Docs :
                  d.cufe = r.cufe /\ Pairs(LinesOf(r.id))' = Store!LineSet(d)
    <3>1. CASE r = row
      <4>1. LinesOf(r.id)' = txLines[u]
        BY <1>3, <3>1 DEF LinesOf
      <4> QED
        BY <1>3, <3>1, <4>1 DEF WritesInv, Types, Pairs
    <3>2. CASE r # row
      <4>1. r \in invoices /\ r.id # row.id
        BY <1>3, <3>2
      <4>2. LinesOf(r.id)' = LinesOf(r.id)
        BY <1>3, <4>1 DEF LinesOf
      <4> QED
        BY <4>1, <4>2 DEF WritesInv, TablesInv, UniqueKeys, Pairs
    <3> QED
      BY <3>1, <3>2
  <2>5. (\A r \in invoices' : r.id < nextInvoice') /\ \A l \in lines' : l.id < nextLine'
    BY <1>1, <1>3, <2>1 DEF WritesInv, TablesInv, UniqueKeys
  <2> QED
    BY <2>2, <2>3, <2>4, <2>5 DEF TablesInv, UniqueKeys, Store!LineSet
<1>7. \A v \in Uploads : /\ txInvoice'[v] = IF v = u THEN {} ELSE txInvoice[v]
                         /\ txLines'[v] = IF v = u THEN {} ELSE txLines[v]
                         /\ txGone'[v] = IF v = u THEN {} ELSE txGone[v]
                         /\ pc'[v] = IF v = u THEN s ELSE pc[v]
  BY <1>2, <1>4 DEF WritesInv, Types
<1>8. ASSUME NEW v \in Uploads PROVE RowInv(v)'
  <2>1. CASE v = u
    BY <1>7, <2>1 DEF RowInv, Open, Finished
  <2>2. CASE v # u
    <3>1. \A q \in txInvoice[v] : q.id # row.id /\ q.cufe # row.cufe
      BY <1>3, <2>2 DEF WritesInv, RowInv
    <3> QED
      BY <1>1, <1>3, <1>7, <2>2, <3>1 DEF WritesInv, RowInv
  <2> QED
    BY <2>1, <2>2
<1>9. ASSUME NEW v \in Uploads PROVE LinesInv(v)'
  <2>1. CASE v = u
    BY <1>7, <2>1 DEF LinesInv, Finished
  <2>2. CASE v # u
    <3>1. LinesInv(v) /\ RowInv(v)
      BY DEF WritesInv
    <3>2. \A q \in txInvoice[v] : q.id # row.id
      BY <1>3, <2>2 DEF WritesInv, RowInv
    <3>3. \A q \in txInvoice[v] : LinesOf(q.id)' = LinesOf(q.id)
      BY <1>3, <3>2 DEF LinesOf
    <3>4. ASSUME NEW w \in txLines[v], NEW l \in lines'
          PROVE  l.id = w.id <=> (l.invoice = w.invoice /\ l.number = w.number)
      <4>1. CASE l \in lines
        BY <3>1, <4>1 DEF LinesInv
      <4>2. CASE l \in txLines[u]
        <5>1. l.id # w.id /\ l.invoice = row.id
          BY <1>3, <2>2, <4>2 DEF WritesInv, LinesInv
        <5>2. w.invoice # row.id
          BY <3>1, <3>2 DEF LinesInv, RowInv, Open
        <5> QED
          BY <5>1, <5>2
      <4> QED
        BY <1>3, <4>1, <4>2
    <3>5. /\ txInvoice'[v] = txInvoice[v] /\ txLines'[v] = txLines[v]
          /\ txGone'[v] = txGone[v] /\ pc'[v] = pc[v]
      BY <1>7, <2>2
    <3>6. \A x \in Uploads : txLines'[x] \subseteq txLines[x]
      BY <1>7
    <3>7. pc'[v] = "commit" =>
             \A q \in txInvoice'[v] :
               txGone'[v] = {l.id : l \in {m \in LinesOf(q.id) :
                                             \A w \in txLines[v] : w.id # m.id}}'
      BY <3>1, <3>3, <3>5 DEF LinesInv
    <3> QED
      BY <1>1, <3>1, <3>4, <3>5, <3>6, <3>7
         DEF LinesInv, RepeatsNumber, Pairs, Store!LineSet
  <2> QED
    BY <2>1, <2>2
<1> QED
  BY <1>5, <1>6, <1>8, <1>9 DEF WritesInv

\* Transactions that end without effect, one or all that are open, leave the
\* others what they rely on.
LEMMA AbortKeeps ==
  ASSUME WritesInv, NEW S \in SUBSET Uploads,
         UNCHANGED <<invoices, lines, nextInvoice, nextLine, doc, found, read, rpc>>,
         pc' \in [Uploads -> {"invoice"} \cup Open \cup Finished],
         txInvoice' \in [Uploads -> SUBSET InvoiceRow],
         txLines' \in [Uploads -> SUBSET LineRow],
         txGone' \in [Uploads -> SUBSET Nat],
         \A v \in S : /\ pc'[v] \notin Open
                      /\ txInvoice'[v] = {} /\ txLines'[v] = {} /\ txGone'[v] = {},
         \A v \in Uploads \ S : /\ pc'[v] = pc[v] /\ txInvoice'[v] = txInvoice[v]
                                /\ txLines'[v] = txLines[v] /\ txGone'[v] = txGone[v]
  PROVE  WritesInv'
<1>1. Types'
  BY DEF WritesInv, Types
<1>2. TablesInv'
  BY DEF WritesInv, TablesInv, UniqueKeys, LinesOf
<1>3. \A v \in Uploads : /\ txInvoice'[v] \subseteq txInvoice[v]
                         /\ txLines'[v] \subseteq txLines[v]
  OBVIOUS
<1>4. ASSUME NEW v \in Uploads PROVE RowInv(v)'
  <2>1. CASE v \in S
    BY <2>1 DEF RowInv
  <2>2. CASE v \notin S
    BY <1>3, <2>2 DEF WritesInv, RowInv
  <2> QED
    BY <2>1, <2>2
<1>5. ASSUME NEW v \in Uploads PROVE LinesInv(v)'
  <2>1. CASE v \in S
    BY <2>1 DEF LinesInv, Open
  <2>2. CASE v \notin S
    <3>1. LinesInv(v)
      BY DEF WritesInv
    <3> QED
      BY <1>3, <2>2, <3>1 DEF LinesInv, LinesOf, RepeatsNumber, Pairs, Store!LineSet
  <2> QED
    BY <2>1, <2>2
<1> QED
  BY <1>1, <1>2, <1>4, <1>5 DEF WritesInv

\* A rollback keeps it.
LEMMA RollbackKeeps ==
  ASSUME WritesInv, NEW u \in Uploads, Rollback(u)
  PROVE  WritesInv'
<1>1. /\ UNCHANGED <<invoices, lines, nextInvoice, nextLine, doc, found, read, rpc>>
      /\ pc' = [pc EXCEPT ![u] = "failed"]
      /\ txInvoice' = [txInvoice EXCEPT ![u] = {}]
      /\ txLines' = [txLines EXCEPT ![u] = {}]
      /\ txGone' = [txGone EXCEPT ![u] = {}]
  BY DEF Rollback, Forget, Goto, tables, ids, reading
<1>2. /\ pc' \in [Uploads -> {"invoice"} \cup Open \cup Finished]
      /\ txInvoice' \in [Uploads -> SUBSET InvoiceRow]
      /\ txLines' \in [Uploads -> SUBSET LineRow]
      /\ txGone' \in [Uploads -> SUBSET Nat]
  BY <1>1 DEF WritesInv, Types, Finished
<1>3. /\ \A v \in {u} : /\ pc'[v] \notin Open
                        /\ txInvoice'[v] = {} /\ txLines'[v] = {} /\ txGone'[v] = {}
      /\ \A v \in Uploads \ {u} : /\ pc'[v] = pc[v] /\ txInvoice'[v] = txInvoice[v]
                                  /\ txLines'[v] = txLines[v] /\ txGone'[v] = txGone[v]
  BY <1>1 DEF WritesInv, Types, Open
<1>4. {u} \in SUBSET Uploads
  OBVIOUS
<1> QED
  BY <1>1, <1>2, <1>3, <1>4, AbortKeeps

\* A crash keeps it.
LEMMA CrashKeeps == ASSUME WritesInv, Crash PROVE WritesInv'
<1>1. /\ UNCHANGED <<invoices, lines, nextInvoice, nextLine, doc, found, read, rpc>>
      /\ pc' = [u \in Uploads |-> IF pc[u] \in Open THEN "failed" ELSE pc[u]]
      /\ txInvoice' = [u \in Uploads |-> {}]
      /\ txLines' = [u \in Uploads |-> {}]
      /\ txGone' = [u \in Uploads |-> {}]
  BY DEF Crash, tables, ids, reading
<1>2. /\ pc' \in [Uploads -> {"invoice"} \cup Open \cup Finished]
      /\ txInvoice' \in [Uploads -> SUBSET InvoiceRow]
      /\ txLines' \in [Uploads -> SUBSET LineRow]
      /\ txGone' \in [Uploads -> SUBSET Nat]
  BY <1>1 DEF WritesInv, Types, Finished
<1>3. \A v \in Uploads : pc'[v] \notin Open
  BY <1>1 DEF Open
<1>4. Uploads \in SUBSET Uploads
  OBVIOUS
<1> QED
  BY <1>1, <1>2, <1>3, <1>4, AbortKeeps

-----------------------------------------------------------------------------
(* Readers.                                                                *)

\* Committed invoices are never lost and never change their ids or CUFEs, and
\* a line of a number keeps its id.
LEMMA StableIds ==
  ASSUME WritesInv, [Next]_vars
  PROVE  /\ \A r \in invoices : \E q \in invoices' : q.id = r.id /\ q.cufe = r.cufe
         /\ \A l \in lines, m \in lines' :
              (l.invoice = m.invoice /\ l.number = m.number) => l.id = m.id
<1>1. \A l, m \in lines : (l.invoice = m.invoice /\ l.number = m.number) => l = m
  BY DEF WritesInv, TablesInv, UniqueKeys
<1>2. CASE UNCHANGED <<invoices, lines>>
  BY <1>1, <1>2
<1>3. ASSUME NEW u \in Uploads, Commit(u) \/ CommitUnacknowledged(u)
      PROVE  /\ \A r \in invoices : \E q \in invoices' : q.id = r.id /\ q.cufe = r.cufe
             /\ \A l \in lines, m \in lines' :
                  (l.invoice = m.invoice /\ l.number = m.number) => l.id = m.id
  <2>1. PICK row \in InvoiceRow :
           /\ invoices' = {r \in invoices : r.cufe # row.cufe} \cup {row}
           /\ lines' = {l \in lines : l.invoice # row.id} \cup txLines[u]
           /\ \A r \in invoices : r.id = row.id <=> r.cufe = row.cufe
    BY <1>3, Published DEF Commit, CommitUnacknowledged
  <2>2. \A w \in txLines[u], l \in lines :
           (l.invoice = w.invoice /\ l.number = w.number) => l.id = w.id
    BY DEF WritesInv, LinesInv
  <2> QED
    BY <1>1, <2>1, <2>2
<1> QED
  BY <1>2, <1>3 DEF Next, Step, UpsertInvoice, UpsertLines, RemoveStale, Rollback, Crash,
                    ReadInvoice, ReadLines, Terminated, tables, vars

\* The reader's statements keep its part.
LEMMA ReaderKeeps ==
  ASSUME WritesInv, [Next]_vars, NEW r \in Readers, ReaderInv(r)
  PROVE  ReaderInv(r)'
<1>1. CASE rpc'[r] = rpc[r] /\ found'[r] = found[r] /\ read'[r] = read[r]
  BY <1>1, StableIds DEF ReaderInv, Store!LineSet
<1>2. CASE ReadInvoice(r)
  BY <1>2 DEF WritesInv, Types, ReadInvoice, ReaderInv, tables
<1>3. CASE ReadLines(r)
  <2>1. /\ UNCHANGED <<invoices, lines, found>> /\ rpc'[r] = "done"
        /\ rpc[r] = "lines"
    BY <1>3 DEF WritesInv, Types, ReadLines, tables
  <2>2. PICK row \in found[r] : read'[r] = Pairs(LinesOf(row.id))
    BY <1>3 DEF WritesInv, Types, ReadLines, Pairs, LinesOf
  <2>3. PICK q \in invoices : q.id = row.id /\ q.cufe = row.cufe
    BY DEF ReaderInv
  <2>4. PICK d \in Docs : d.cufe = q.cufe /\ Pairs(LinesOf(q.id)) = Store!LineSet(d)
    BY DEF WritesInv, TablesInv, UniqueKeys
  <2> QED
    BY <2>1, <2>2, <2>3, <2>4 DEF ReaderInv, Store!LineSet
<1>4. ASSUME NEW p \in Readers, p # r, ReadInvoice(p) \/ ReadLines(p)
      PROVE  rpc'[r] = rpc[r] /\ found'[r] = found[r] /\ read'[r] = read[r]
  BY <1>4 DEF WritesInv, Types, ReadInvoice, ReadLines
<1>5. CASE UNCHANGED reading
  BY <1>1, <1>5 DEF reading
<1> QED
  BY <1>1, <1>2, <1>3, <1>4, <1>5
     DEF Next, Step, UpsertInvoice, UpsertLines, RemoveStale, Commit, Rollback,
         CommitUnacknowledged, Crash, Terminated, vars, reading

\* Readers move no table and no transaction.
LEMMA ReadKeeps ==
  ASSUME WritesInv, NEW r \in Readers, ReadInvoice(r) \/ ReadLines(r)
  PROVE  WritesInv'
<1>1. UNCHANGED <<invoices, lines, nextInvoice, nextLine, doc, txInvoice, txLines, txGone, pc>>
  BY DEF ReadInvoice, ReadLines, tables, ids, writes
<1>2. Types'
  <2>1. CASE ReadInvoice(r)
    BY <1>1, <2>1 DEF WritesInv, Types, ReadInvoice
  <2>2. CASE ReadLines(r)
    <3>1. {[number |-> l.number, body |-> l.body] : l \in lines} \subseteq
             [number: Int, body: Bodies]
      BY DEF WritesInv, Types, LineRow
    <3>2. read' \in [Readers -> SUBSET [number: Int, body: Bodies]]
      BY <2>2, <3>1 DEF WritesInv, Types, ReadLines
    <3> QED
      BY <1>1, <2>2, <3>2 DEF WritesInv, Types, ReadLines
  <2> QED
    BY <2>1, <2>2
<1>3. TablesInv'
  BY <1>1 DEF WritesInv, TablesInv, UniqueKeys, LinesOf
<1>4. ASSUME NEW v \in Uploads PROVE RowInv(v)'
  BY <1>1 DEF WritesInv, RowInv
<1>5. ASSUME NEW v \in Uploads PROVE LinesInv(v)'
  BY <1>1 DEF WritesInv, LinesInv, LinesOf, RepeatsNumber, Pairs, Store!LineSet
<1> QED
  BY <1>2, <1>3, <1>4, <1>5 DEF WritesInv

-----------------------------------------------------------------------------
\* It holds at first.
LEMMA InitInv == Init => IInv
<1> SUFFICES ASSUME Init PROVE IInv
  OBVIOUS
<1>1. Types
  BY DEF Init, Types
<1>2. TablesInv
  BY DEF Init, TablesInv, UniqueKeys
<1>3. ASSUME NEW u \in Uploads PROVE RowInv(u) /\ LinesInv(u)
  BY DEF Init, RowInv, LinesInv, Open
<1>4. ASSUME NEW r \in Readers PROVE ReaderInv(r)
  BY DEF Init, ReaderInv
<1> QED
  BY <1>1, <1>2, <1>3, <1>4 DEF IInv

\* Every step keeps what concerns the writes.
LEMMA NextWrites == WritesInv /\ [Next]_vars => WritesInv'
<1> SUFFICES ASSUME WritesInv, [Next]_vars PROVE WritesInv'
  OBVIOUS
<1>1. CASE UNCHANGED vars
  <2>1. UNCHANGED <<invoices, lines, nextInvoice, nextLine, doc, txInvoice, txLines,
                    txGone, pc, found, read, rpc>>
    BY <1>1 DEF vars
  <2>2. Types' /\ TablesInv'
    BY <2>1 DEF WritesInv, Types, TablesInv, UniqueKeys, LinesOf
  <2>3. ASSUME NEW v \in Uploads PROVE RowInv(v)'
    BY <2>1 DEF WritesInv, RowInv
  <2>4. ASSUME NEW v \in Uploads PROVE LinesInv(v)'
    BY <2>1 DEF WritesInv, LinesInv, LinesOf, RepeatsNumber, Pairs, Store!LineSet
  <2> QED
    BY <2>2, <2>3, <2>4 DEF WritesInv
<1> QED
  BY <1>1, UpsertInvoiceKeeps, UpsertLinesKeeps, RemoveStaleKeeps, CommitKeeps,
     RollbackKeeps, CrashKeeps, ReadKeeps DEF Next, Step, Terminated

\* Every step keeps the invariant.
LEMMA NextInv == IInv /\ [Next]_vars => IInv'
BY NextWrites, ReaderKeeps DEF IInv, WritesInv

\* The invariant holds in every reachable state.
THEOREM Invariance == Spec => []IInv
BY InitInv, NextInv, PTL DEF Spec

\* Rows, sequences and what readers have stay within their types, and no two
\* committed rows have a key in common, whatever transactions interleave.
THEOREM TypeCorrect == Spec => []TypeOK
<1>1. IInv => TypeOK
  BY DEF IInv, TablesInv, UniqueKeys, TypeOK
<1> QED
  BY Invariance, <1>1, PTL

\* FindByCUFE returns the lines, all and only, of one version of the invoice it
\* found, though any number of saves commit between its two statements.
THEOREM ReadCorrect == Spec => []ReadIsOneVersion
<1>1. IInv => ReadIsOneVersion
  BY DEF IInv, ReaderInv, ReadIsOneVersion
<1> QED
  BY Invariance, <1>1, PTL

\* No save, however it interleaves or ends, gives an invoice or a line that
\* keeps its number another id, or loses an invoice.
THEOREM IdsCorrect == Spec => IdsAreStable
<1>1. IInv /\ [Next]_vars =>
        [/\ \A r \in invoices : \E q \in invoices' : q.id = r.id /\ q.cufe = r.cufe
         /\ \A l \in lines, m \in lines' :
              (l.invoice = m.invoice /\ l.number = m.number) => l.id = m.id]_vars
  BY StableIds DEF IInv, WritesInv
<1> QED
  BY Invariance, <1>1, PTL DEF Spec, IdsAreStable

-----------------------------------------------------------------------------
(* The refinement of InvoiceStore.                                         *)

\* The refinement, initial states first.
LEMMA InitRefines == Init => Store!Init
BY DEF Init, Store!Init, Contents, Status, Finished

\* A COMMIT is the store's replacement.
LEMMA CommitRefines ==
  ASSUME WritesInv, NEW u \in Uploads, Commit(u) \/ CommitUnacknowledged(u)
  PROVE  Store!Replace(u)
<1>1. PICK row \in InvoiceRow :
         /\ txInvoice[u] = {row}
         /\ row.cufe = doc[u].cufe /\ row.head = doc[u].head
         /\ invoices' = {r \in invoices : r.cufe # row.cufe} \cup {row}
         /\ lines' = {l \in lines : l.invoice # row.id} \cup txLines[u]
         /\ \A r \in invoices : r.id = row.id <=> r.cufe = row.cufe
         /\ \A w \in txLines[u] : w.invoice = row.id
         /\ Pairs(txLines[u]) = Store!LineSet(doc[u]) /\ ~RepeatsNumber(doc[u])
  BY Published DEF Commit, CommitUnacknowledged
<1> DEFINE Content(r) == [cufe |-> r.cufe, head |-> r.head, lines |-> Pairs(LinesOf(r.id))]
<1>2. Contents = {Content(r) : r \in invoices}
  BY DEF Contents, Pairs, LinesOf
<1>3. Contents' = {Content(r)' : r \in invoices'}
  BY DEF Contents, Pairs, LinesOf
<1>4. Content(row)' = Store!Content(doc[u])
  <2>1. LinesOf(row.id)' = txLines[u]
    BY <1>1 DEF LinesOf
  <2> QED
    BY <1>1, <2>1 DEF Store!Content, Pairs
<1>5. ASSUME NEW r \in invoices, r.cufe # row.cufe PROVE Content(r)' = Content(r)
  <2>1. LinesOf(r.id)' = LinesOf(r.id)
    BY <1>1, <1>5 DEF LinesOf
  <2> QED
    BY <2>1 DEF Pairs
<1>6. \A r \in invoices : Content(r).cufe = r.cufe
  OBVIOUS
<1> HIDE DEF Content
<1>7. Contents' = {Content(r) : r \in {q \in invoices : q.cufe # row.cufe}}
                     \cup {Store!Content(doc[u])}
  BY <1>1, <1>3, <1>4, <1>5
<1>8. {s \in Contents : s.cufe # doc[u].cufe}
         = {Content(r) : r \in {q \in invoices : q.cufe # row.cufe}}
  BY <1>1, <1>2, <1>6
<1> QED
  BY <1>1, <1>7, <1>8 DEF Store!Replace, Store!RepeatsNumber, RepeatsNumber

\* Each step is one of the store's or changes nothing it shows.
LEMMA NextRefines == WritesInv /\ [Next]_vars => [Store!Next]_(Store!vars)
<1> SUFFICES ASSUME WritesInv, [Next]_vars PROVE [Store!Next]_(Store!vars)
  OBVIOUS
<1>0. pc \in [Uploads -> {"invoice"} \cup Open \cup Finished]
  BY DEF WritesInv, Types
<1>1. ASSUME UNCHANGED <<invoices, lines, doc, Status>> PROVE UNCHANGED Store!vars
  BY <1>1 DEF Store!vars, Contents
<1>2. ASSUME NEW u \in Uploads, UpsertInvoice(u) \/ UpsertLines(u) \/ RemoveStale(u)
      PROVE  UNCHANGED Store!vars
  <2>1. UNCHANGED <<invoices, lines, doc>>
    BY <1>2 DEF UpsertInvoice, UpsertLines, RemoveStale, tables
  <2>2. UNCHANGED Status
    BY <1>0, <1>2 DEF UpsertInvoice, UpsertLines, RemoveStale, Goto, Status, Finished
  <2> QED
    BY <1>1, <2>1, <2>2
<1>3. ASSUME NEW u \in Uploads, Commit(u) PROVE Store!Save(u)
  <2>1. Status[u] = "pending" /\ Status' = [Status EXCEPT ![u] = "saved"]
    BY <1>0, <1>3 DEF Commit, Goto, Status, Finished
  <2> QED
    BY <1>3, <2>1, CommitRefines DEF Store!Save, Commit
<1>4. ASSUME NEW u \in Uploads, CommitUnacknowledged(u) PROVE Store!SaveUnacknowledged(u)
  <2>1. Status[u] = "pending" /\ Status' = [Status EXCEPT ![u] = "failed"]
    BY <1>0, <1>4 DEF CommitUnacknowledged, Goto, Status, Finished
  <2> QED
    BY <1>4, <2>1, CommitRefines DEF Store!SaveUnacknowledged, CommitUnacknowledged
<1>5. ASSUME NEW S \in SUBSET Uploads, \A u \in S : pc[u] \notin Finished,
             pc' = [u \in Uploads |-> IF u \in S THEN "failed" ELSE pc[u]],
             UNCHANGED <<invoices, lines, doc>>
      PROVE  Store!Fail
  <2>1. \A u \in S : Status[u] = "pending"
    BY <1>5 DEF Status
  <2>2. Status' = [u \in Uploads |-> IF u \in S THEN "failed" ELSE Status[u]]
    <3>1. \A u \in Uploads : (IF pc'[u] \in Finished THEN pc'[u] ELSE "pending")
             = IF u \in S THEN "failed" ELSE Status[u]
      BY <1>5 DEF Status, Finished
    <3> QED
      BY <3>1 DEF Status
  <2>3. S \in SUBSET {u \in Uploads : Status[u] = "pending"}
    BY <2>1
  <2>4. UNCHANGED Contents
    BY <1>5 DEF Contents
  <2> QED
    BY <1>5, <2>2, <2>3, <2>4 DEF Store!Fail
<1>6. ASSUME NEW u \in Uploads, Rollback(u) PROVE Store!Fail
  <2>1. pc' = [v \in Uploads |-> IF v \in {u} THEN "failed" ELSE pc[v]]
    BY <1>0, <1>6 DEF Rollback, Goto
  <2>2. (\A v \in {u} : pc[v] \notin Finished) /\ UNCHANGED <<invoices, lines, doc>>
    BY <1>6 DEF Rollback, Finished, Open, tables
  <2>3. {u} \in SUBSET Uploads
    OBVIOUS
  <2> QED
    BY <1>5, <2>1, <2>2, <2>3
<1>7. ASSUME Crash PROVE Store!Fail
  <2> DEFINE S == {u \in Uploads : pc[u] \in Open}
  <2>1. pc' = [u \in Uploads |-> IF u \in S THEN "failed" ELSE pc[u]]
    BY <1>7 DEF Crash
  <2>2. (\A u \in S : pc[u] \notin Finished) /\ UNCHANGED <<invoices, lines, doc>>
    BY <1>7 DEF Crash, Finished, Open, tables
  <2> QED
    BY <1>5, <2>1, <2>2
<1>8. ASSUME NEW r \in Readers, ReadInvoice(r) \/ ReadLines(r) PROVE UNCHANGED Store!vars
  <2>1. UNCHANGED <<invoices, lines, doc, pc>>
    BY <1>8 DEF ReadInvoice, ReadLines, tables
  <2> QED
    BY <1>1, <2>1 DEF Status
<1>9. CASE UNCHANGED vars
  BY <1>1, <1>9 DEF vars, Status
<1> QED
  BY <1>2, <1>3, <1>4, <1>6, <1>7, <1>8, <1>9 DEF Next, Step, Terminated, Store!Next

\* The transaction of three statements, over READ COMMITTED, with failures,
\* lost acknowledgements and crashes, is one indivisible replacement of the
\* invoice with the CUFE and all of its lines.
THEOREM SaveCorrect == Spec => SaveIsAtomic
<1>1. IInv /\ [Next]_vars => [Store!Next]_(Store!vars)
  BY NextRefines DEF IInv, WritesInv
<1> QED
  BY Invariance, InitRefines, <1>1, PTL DEF Spec, SaveIsAtomic, Store!Spec

=============================================================================
