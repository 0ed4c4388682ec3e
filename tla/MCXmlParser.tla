---------------------------- MODULE MCXmlParser -----------------------------
(* Small instances of XmlParser for TLC.                                   *)
EXTENDS XmlParser, TLC

\* "19" and "19.0" are one amount in two texts.
MCDecimal == ("19" :> 19) @@ ("19.0" :> 19) @@ ("5" :> 5) @@ ("-5" :> -5)
MCNumber  == ("1" :> 1) @@ ("2" :> 2) @@ ("-5" :> -5)
MCDates   == {"2024-05-31"}

MCTexts ==
  {Blank, "n/a", "c", "FE-1", "900", "800", "Bogota", "A-1", "laptop", "portatil",
   "1", "2", "19", "19.0", "5", "-5", "8", "01", "04", "2024-05-31", "IVA", "INC",
   "ReteRenta", "ReteICA", "ReteIVA", "ReteIVA en Retefuente"}

MCWords ==
  [t \in MCTexts |->
     CASE t = "IVA"       -> {"iva"}
       [] t = "ReteRenta" -> {"reterenta"}
       [] t = "ReteICA"   -> {"reteica"}
       [] t = "ReteIVA"   -> {"reteiva"}
       [] t = "ReteIVA en Retefuente" -> {"reteiva", "retefuente"}
       [] OTHER -> {}]

S(id, name, percent, amount) ==
  [id |-> id, name |-> name, percent |-> percent, amount |-> amount]

\* Two rates of IVA, one amount in two texts, an IVA by its name only and one
\* whose amount does not read, and another tax.
IVASubtotals ==
  {S("01", "IVA", "19", "19"), S("01", "IVA", "19", "19.0"), S("01", "IVA", "5", "19"),
   S(Blank, "IVA", "5", "5"), S("01", Blank, "19", "n/a"), S("04", "INC", "8", "5")}

Names == {"ReteRenta", "ReteIVA", "ReteICA", "ReteIVA en Retefuente", "INC"}

Block(amount, names) ==
  [amount |-> amount, subtotals |-> [i \in DOMAIN names |-> S(Blank, names[i], "1", "5")]]

Blocks ==
  {Block(a, n) : a \in {"19", "5", "n/a"}, n \in BoundedSeq(Names, 1)}
    \cup {Block("5", <<n, k>>) : n, k \in Names}

XLine(id, sku, descriptions, total, taxTotals) ==
  [id |-> id, sku |-> sku, descriptions |-> descriptions, total |-> total,
   taxTotals |-> taxTotals]

Lines ==
  {XLine(id, sku, d, t, x) : id \in {"1", "-5", "n/a"}, sku \in {Blank, "A-1"},
     d \in {<<>>, <<"laptop", "portatil">>}, t \in {"5", "n/a"},
     x \in {<<>>, <<<<S("04", "INC", "8", "5")>>, <<S("01", "IVA", "19", "19")>>>>}}

Plain ==
  [uuid |-> "c", id |-> "FE-1", date |-> "2024-05-31", issuer |-> "900", buyer |-> "800",
   payable |-> "19", extension |-> "5", location |-> Blank, registration |-> "Bogota",
   taxTotals |-> <<>>, withholdings |-> <<>>, lines |-> <<>>]

Fields == {"uuid", "id", "date", "issuer", "buyer", "payable", "extension", "location"}

Contents ==
  {[Plain EXCEPT ![f] = t] : f \in Fields, t \in {Blank, "n/a"}}
    \cup {[Plain EXCEPT !.taxTotals = <<a, b>>] : a, b \in BoundedSeq(IVASubtotals, 2)}
    \cup {[Plain EXCEPT !.withholdings = <<a, b>>] : a, b \in Blocks}
    \cup {[Plain EXCEPT !.lines = <<a, b>>] : a, b \in Lines}
    \cup {Malformed}

MCDocuments ==
  [root: {"Invoice", "AttachedDocument"}, content: Contents]
    \cup [root: {"AttachedDocument"}, content: {Blank}]
    \cup [root: {"CreditNote", ""}, content: {Plain, Malformed}]

=============================================================================
