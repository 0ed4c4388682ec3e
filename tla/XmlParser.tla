----------------------------- MODULE XmlParser ------------------------------
(***************************************************************************)
(* Parser.Parse: what becomes of an XML file.  A document is what          *)
(* encoding/xml decodes, its texts trimmed: a root element and, under an   *)
(* Invoice or in the text of an AttachedDocument, the elements the parser  *)
(* has fields for.  Texts are opaque; constants say which of them read as  *)
(* decimals, dates or integers, and what is in the name of a tax scheme.   *)
(*                                                                         *)
(* Names and tax levels of the parties, quantities and unit prices are     *)
(* taken as they come and left out.                                        *)
(***************************************************************************)
EXTENDS Integers, SequencesExt

CONSTANTS
  Documents,  \* the files that may come
  Texts,      \* the texts of their elements
  Roots,      \* the names of their root elements
  Blank,      \* the empty text, or no element
  Decimal,    \* Decimal[t]: the amount text t reads as, if it is one
  Dates,      \* texts that read as a date
  Number,     \* Number[t]: the integer text t reads as, if it is one
  Words,      \* Words[t]: the words of NameWords in scheme name t
  Malformed,  \* what is not XML, or has another root than Invoice
  Rejected,   \* the error of Parse
  Null        \* nil

NameWords == {"iva", "retefuente", "reterenta", "reteiva", "reteica"}

xmlTaxSubtotal == [id: Texts, name: Texts, percent: Texts, amount: Texts]
xmlTaxTotal    == Seq(xmlTaxSubtotal)
xmlWithholdingTaxTotal == [amount: Texts, subtotals: Seq(xmlTaxSubtotal)]
xmlInvoiceLine ==
  [id: Texts, sku: Texts, descriptions: Seq(Texts), total: Texts,
   taxTotals: Seq(xmlTaxTotal)]
xmlInvoice ==
  [uuid: Texts, id: Texts, date: Texts, issuer: Texts, buyer: Texts,
   payable: Texts, extension: Texts, location: Texts, registration: Texts,
   taxTotals: Seq(xmlTaxTotal), withholdings: Seq(xmlWithholdingTaxTotal),
   lines: Seq(xmlInvoiceLine)]
\* Only an AttachedDocument may hold nothing.
Document ==
  [root: Roots, content: xmlInvoice \cup {Malformed}]
    \cup [root: {"AttachedDocument"}, content: {Blank}]

WithholdingKinds == {"retefuente", "reteiva", "reteica"}

Line    == [number: Int, sku: Texts \cup {Null}, description: Texts, total: Int,
            iva: [rate: Int, value: Int]]
Invoice == [cufe: Texts, number: Texts, date: Texts, type: Roots, issuer: Texts,
            city: Texts, buyer: Texts, subtotal: Int, iva: Int, total: Int,
            reported: [WithholdingKinds -> Int \cup {Null}], lines: Seq(Line)]

ASSUME DocumentsAssumption == Documents \subseteq Document
ASSUME NumbersAssumption ==
  /\ \A t \in DOMAIN Decimal : Decimal[t] \in Int
  /\ \A t \in DOMAIN Number : Number[t] \in Int
ASSUME BlankAssumption ==
  /\ Blank \in Texts
  /\ Blank \notin DOMAIN Decimal \cup Dates \cup DOMAIN Number
ASSUME WordsAssumption == Words \in [Texts -> SUBSET NameWords]
ASSUME NullAssumption == Null \notin WithholdingKinds \cup {Blank}
ASSUME RejectedAssumption == Rejected \notin Invoice

VARIABLES
  document,  \* the file
  pc,        \* "received" or "parsed"
  invoice    \* what Parse returned: an invoice, or Rejected

vars == <<document, pc, invoice>>

-----------------------------------------------------------------------------
(* Texts.                                                                  *)

parseDecimalOptional(raw) == IF raw \in DOMAIN Decimal THEN Decimal[raw] ELSE 0

\* Words has "iva" for a name that is IVA but for its case.
isIVAScheme(s) == s.id = "01" \/ "iva" \in Words[s.name]

NothingReported == [kind \in WithholdingKinds |-> Null]

\* A name of two kinds is of the first of them in this order.
classifyWithholdingName(name) ==
  LET said == Words[name]
  IN  IF "retefuente" \in said \/ "reterenta" \in said THEN "retefuente"
      ELSE IF "reteiva" \in said THEN "reteiva"
      ELSE IF "reteica" \in said THEN "reteica"
      ELSE Null

-----------------------------------------------------------------------------
(* Taxes of the header and of a line.                                      *)

ivaSubtotalKey(s) ==
  [id |-> s.id, name |-> s.name, percent |-> s.percent, amount |-> s.amount]

CountOnce(sum, s) ==
  IF ~isIVAScheme(s) \/ ivaSubtotalKey(s) \in sum.seen THEN sum
  ELSE [seen  |-> sum.seen \cup {ivaSubtotalKey(s)},
        total |-> sum.total + parseDecimalOptional(s.amount)]

Nothing == [seen |-> {}, total |-> 0]

\* What was seen is kept from block to block.
CountBlock(sum, block) == FoldLeft(CountOnce, sum, block)

\* Bug: what was seen is forgotten at each block.
sumIVAOfBlocks(taxTotals) ==
  FoldLeft(LAMBDA total, block : total + CountBlock(Nothing, block).total,
           0, taxTotals)

sumIVA(taxTotals) == FoldLeft(CountBlock, Nothing, taxTotals).total

\* A block is of the kind its first subtotal with a known name is of.
KindOf(block) ==
  LET known == SelectInSeq(block.subtotals,
                           LAMBDA s : classifyWithholdingName(s.name) # Null)
  IN  IF known = 0 THEN Null ELSE classifyWithholdingName(block.subtotals[known].name)

\* Bug: the blocks of a kind are added up.
addWithholding(blocks) ==
  LET reported(acc, block) ==
        IF KindOf(block) = Null THEN acc
        ELSE [acc EXCEPT ![KindOf(block)] =
                parseDecimalOptional(block.amount) + (IF @ = Null THEN 0 ELSE @)]
  IN  FoldLeft(reported, NothingReported, blocks)

extractWithholding(blocks) ==
  LET reported(acc, block) ==
        IF KindOf(block) = Null THEN acc
        ELSE [acc EXCEPT ![KindOf(block)] = parseDecimalOptional(block.amount)]
  IN  FoldLeft(reported, NothingReported, blocks)

findIVASubtotal(taxTotals) ==
  LET found == SelectSeq(FlattenSeq(taxTotals), isIVAScheme)
  IN  IF found = <<>> THEN [rate |-> 0, value |-> 0]
      ELSE [rate  |-> parseDecimalOptional(found[1].percent),
            value |-> parseDecimalOptional(found[1].amount)]

-----------------------------------------------------------------------------
(* The invoice.                                                            *)

\* Bug: an empty code is a code.
mapSKUVerbatim(raw) == raw

mapSKU(raw) == IF raw = Blank THEN Null ELSE raw

mapLine(x) ==
  [number      |-> Number[x.id],
   sku         |-> mapSKU(x.sku),
   description |-> IF x.descriptions = <<>> THEN Blank ELSE x.descriptions[1],
   total       |-> parseDecimalOptional(x.total),
   iva         |-> findIVASubtotal(x.taxTotals)]

\* Bug: a line without a total is an error.
LineHasTotal(x) == x.id \in DOMAIN Number /\ x.total \in DOMAIN Decimal

\* The line number is all that must read well in a line, and may repeat.
LineReads(x) == x.id \in DOMAIN Number

\* The required fields.
FieldsRead(x) ==
  /\ Blank \notin {x.uuid, x.id, x.issuer, x.buyer}
  /\ x.date \in Dates
  /\ x.payable \in DOMAIN Decimal

mapInvoice(x, xmlType) ==
  IF ~FieldsRead(x) \/ \E i \in DOMAIN x.lines : ~LineReads(x.lines[i])
  THEN Rejected
  ELSE [cufe     |-> x.uuid,
        number   |-> x.id,
        date     |-> x.date,
        type     |-> xmlType,
        issuer   |-> x.issuer,
        city     |-> IF x.location # Blank THEN x.location ELSE x.registration,
        buyer    |-> x.buyer,
        subtotal |-> parseDecimalOptional(x.extension),
        iva      |-> sumIVA(x.taxTotals),
        total    |-> Decimal[x.payable],
        reported |-> extractWithholding(x.withholdings),
        lines    |-> [i \in DOMAIN x.lines |-> mapLine(x.lines[i])]]

-----------------------------------------------------------------------------
Init ==
  /\ document \in Documents
  /\ pc = "received"
  /\ invoice = Null

Return(result) ==
  /\ pc = "received"
  /\ pc' = "parsed"
  /\ invoice' = result
  /\ UNCHANGED document

\* xml.Unmarshal, then mapInvoice.
Read(content, xmlType) ==
  IF content = Malformed THEN Rejected ELSE mapInvoice(content, xmlType)

ParseInvoice ==
  /\ document.root = "Invoice"
  /\ Return(Read(document.content, "Invoice"))

\* The text of Attachment/ExternalReference/Description is a document.
ParseAttachedDocument ==
  /\ document.root = "AttachedDocument"
  /\ Return(IF document.content = Blank THEN Rejected
            ELSE Read(document.content, "AttachedDocument"))

\* No root element, or an unknown one.
RejectRoot ==
  /\ document.root \notin {"Invoice", "AttachedDocument"}
  /\ Return(Rejected)

Terminated == pc = "parsed" /\ UNCHANGED vars

Next == ParseInvoice \/ ParseAttachedDocument \/ RejectRoot \/ Terminated

Spec == Init /\ [][Next]_vars

-----------------------------------------------------------------------------
(* Properties.                                                             *)

Accepted == pc = "parsed" /\ invoice # Rejected

\* What is accepted is an invoice as the other components assume one: a CUFE, an
\* number, an issuer and a buyer, integer line numbers and, on a line, no SKU or
\* one that is not empty.  A description may be blank.
TypeOK ==
  /\ pc \in {"received", "parsed"}
  /\ Accepted =>
       /\ invoice \in Invoice
       /\ Blank \notin {invoice.cufe, invoice.number, invoice.issuer, invoice.buyer}
       /\ invoice.date \in Dates
       /\ \A i \in DOMAIN invoice.lines : invoice.lines[i].sku # Blank

Subtotals(taxTotals) == UNION {ToSet(taxTotals[i]) : i \in DOMAIN taxTotals}

\* The IVA of the header is the sum over its different IVA subtotals: one that is
\* repeated verbatim, in its block or in another, counts once, and so do two
\* genuine ones that happen to be equal; two that differ in any text both count.
EqualSubtotalsCountOnce ==
  Accepted =>
    LET different == {s \in Subtotals(document.content.taxTotals) : isIVAScheme(s)}
    IN  invoice.iva =
          SumFunctionOnSet([s \in different |-> parseDecimalOptional(s.amount)], different)

\* A withholding is reported if and only if some block is of its kind, and with
\* the amount of the last such block, whatever stands between or after them.
LastBlockOfAKindIsReported ==
  Accepted =>
    LET blocks == document.content.withholdings
        Names(i, kind) ==
          \E j \in DOMAIN blocks[i].subtotals :
             /\ classifyWithholdingName(blocks[i].subtotals[j].name) = kind
             /\ \A k \in 1..(j - 1) :
                   classifyWithholdingName(blocks[i].subtotals[k].name) = Null
    IN  \A kind \in DOMAIN invoice.reported :
          LET those == {i \in DOMAIN blocks : Names(i, kind)}
          IN  invoice.reported[kind] =
                IF those = {} THEN Null
                ELSE parseDecimalOptional(blocks[Max(those)].amount)

\* A required field or a line number that does not read makes Parse reject an
\* invoice, alone or attached, and nothing else does: an amount of a line, a
\* tax, a description or a code degrades to zero or nothing.
RequiredFieldsDecide ==
  pc = "parsed" =>
    (invoice = Rejected <=>
       \/ document.root \notin {"Invoice", "AttachedDocument"}
       \/ document.content = Malformed
       \/ document.root = "AttachedDocument" /\ document.content = Blank
       \/ LET x == document.content
          IN  \/ Blank \in {x.uuid, x.id, x.date, x.issuer, x.buyer, x.payable}
              \/ x.date \notin Dates \/ x.payable \notin DOMAIN Decimal
              \/ \E i \in DOMAIN x.lines : x.lines[i].id \notin DOMAIN Number)

=============================================================================
