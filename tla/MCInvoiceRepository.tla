------------------------ MODULE MCInvoiceRepository -------------------------
(* Small instances of InvoiceRepository for TLC.                           *)
EXTENDS InvoiceRepository

CONSTANTS u1, u2, u3, cufeA, cufeB, h1, h2, x, y, r1

L(number, body) == [number |-> number, body |-> body]
D(cufe, head, seq) == [cufe |-> cufe, head |-> head, lines |-> seq]

\* An invoice, a correction of it with a line less and one more, one without
\* lines, one that repeats a number, and another invoice.
MCDocs ==
  {D(cufeA, h1, <<L(1, x), L(2, x)>>),
   D(cufeA, h2, <<L(2, y), L(3, x)>>),
   D(cufeA, h2, <<>>),
   D(cufeA, h2, <<L(1, y), L(1, x)>>),
   D(cufeB, h1, <<L(1, x)>>)}

=============================================================================
