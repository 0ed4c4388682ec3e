-------------------------- MODULE MCProcessInvoice --------------------------
(* Small instances of ProcessInvoice for TLC.                              *)
EXTENDS ProcessInvoice, TLC

CONSTANTS u1, u2, bogota, A, s1, laptop, Laptop, unknown

MCTaxRules ==
  {[id |-> 1, tax |-> "RETEFUENTE", concept |-> 1, city |-> NoCity, from |-> 1,
    to |-> NoEnd, minBase |-> 100, tariff |-> 40000],
   [id |-> 2, tax |-> "RETEICA", concept |-> 1, city |-> bogota, from |-> 1,
    to |-> NoEnd, minBase |-> 0, tariff |-> 10000],
   [id |-> 3, tax |-> "RETEIVA", concept |-> 1, city |-> NoCity, from |-> 1,
    to |-> NoEnd, minBase |-> 0, tariff |-> 150000]}

MCUVTValues == {[id |-> 1, from |-> 1, to |-> NoEnd, value |-> 100]}

MCMatches == [c \in {bogota} |-> {bogota}]

\* Two spellings of one item.
MCNormal == (laptop :> laptop) @@ (Laptop :> laptop)

L(number, sku, desc, total) ==
  [number |-> number, sku |-> sku, desc |-> desc, total |-> total, iva |-> 195]

F(cufe, date, lines) ==
  [cufe |-> cufe, date |-> date, city |-> bogota, issuer |-> A, lines |-> lines]

\* An invoice with half a centavo; another version of it, whose two halves make
\* a centavo; one of a day without a UVT value.
MCFiles ==
  {F(1, 1, <<L(1, Null, Laptop, 1005)>>),
   F(1, 1, <<L(1, Null, Laptop, 1005), L(2, s1, laptop, 1005)>>),
   F(2, 0, <<L(1, s1, Laptop, 1000)>>)}

=============================================================================
