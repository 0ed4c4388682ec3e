----------------------- MODULE MCClassifyInvoiceLines -----------------------
(* Small instances of ClassifyInvoiceLines for TLC.                        *)
EXTENDS ClassifyInvoiceLines, TLC

CONSTANTS u1, u2, A, B, s1, laptop, Laptop, portatil, c1, c2, unknown

L(sku, desc) == [sku |-> sku, desc |-> desc]

\* "Laptop" and "laptop" normalize to one key, "portatil" is another name.
MCNormal == (laptop :> laptop) @@ (Laptop :> laptop) @@ (portatil :> portatil)

\* Two names of one SKU, and the first of them without a SKU; a second issuer.
MCInvoices ==
  {[issuer |-> A, lines |-> <<L(s1, laptop), L(Null, Laptop)>>],
   [issuer |-> A, lines |-> <<L(s1, portatil), L(s1, laptop)>>],
   [issuer |-> A, lines |-> <<L(Null, Laptop), L(s1, laptop), L(Null, laptop)>>],
   [issuer |-> B, lines |-> <<L(s1, laptop), L(s1, Laptop)>>],
   [issuer |-> B, lines |-> <<>>]}

=============================================================================
