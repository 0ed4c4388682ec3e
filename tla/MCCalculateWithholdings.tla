---------------------- MODULE MCCalculateWithholdings -----------------------
(* Small instances of CalculateWithholdings for TLC.                       *)
EXTENDS CalculateWithholdings, TLC

CONSTANTS u1, u2, bogota, medellin, girardota, Bogota, Girardot, Cali

R(id, tax, concept, where, from, to, minBase, tariff) ==
  [id |-> id, tax |-> tax, concept |-> concept, city |-> where, from |-> from,
   to |-> to, minBase |-> minBase, tariff |-> tariff]

\* A tariff replaced on day 5, the last of the old one; a minimum of 2 UVT for
\* concept 1 and none for concept 2; a tariff for each of two cities.
MCTaxRules ==
  {R(1, "RETEFUENTE", 1, NoCity, 1, 5, 200, 40000),
   R(2, "RETEFUENTE", 1, NoCity, 5, NoEnd, 200, 25000),
   R(3, "RETEFUENTE", 2, NoCity, 1, NoEnd, 0, 100000),
   R(4, "RETEIVA",    1, NoCity, 1, NoEnd, 0, 150000),
   R(5, "RETEIVA",    2, NoCity, 1, NoEnd, 0, 1000000),
   R(6, "RETEICA",    1, bogota, 1, NoEnd, 0, 5000),
   R(7, "RETEICA",    1, girardota, 1, NoEnd, 0, 7000)}

MCUVTValues == {[id |-> 1, from |-> 1, to |-> NoEnd, value |-> 100]}

\* "Girardot" is part of "GIRARDOTA": the false match the code's comment names.
MCMatches == (Bogota :> {bogota}) @@ (Girardot :> {girardota}) @@ (Cali :> {})

L(concept, total, iva) == [concept |-> concept, total |-> total, iva |-> iva]

\* 1995 tenths of a centavo are, rounded, the minimum of 2 UVT exactly.
Split  == <<L(1, 1000, 190), L(Null, 500, 95), L(1, 995, 195)>>
Resort == <<L(1, 995, 195), L(1, 1000, 190), L(Null, 500, 95)>>
Credit == <<L(2, 1000, 190), L(2, -3005, -575), L(1, 1994, 0)>>

I(date, where, seq) == [id |-> 1, date |-> date, city |-> where, lines |-> seq]

MCInvoices ==
  {I(d, n, s) : d \in {4, 5}, n \in {Bogota, Girardot}, s \in {Split, Resort, Credit}}
    \cup {I(0, Bogota, Split), I(5, Cali, Split), I(5, Bogota, <<>>)}
    \cup {[I(5, Bogota, Split) EXCEPT !.id = 0]}

=============================================================================
