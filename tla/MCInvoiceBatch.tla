--------------------------- MODULE MCInvoiceBatch ---------------------------
(* Small instances of InvoiceBatch for TLC.                                *)
EXTENDS InvoiceBatch, TLC

CONSTANTS long, two, empty, s1, s2

\* A batch longer than its cap with a file that is rejected, one that just
\* fills the cap, one without files, and single invoices.
AllFiles ==
  (long :> <<"invoice", "rejected", "invoice">>)
    @@ (two :> <<"invoice", "invoice">>) @@ (empty :> <<>>)
    @@ (s1 :> <<"invoice">>) @@ (s2 :> <<"invoice">>)

\* Those of the requests of a run.
MCFiles == [r \in Requests |-> AllFiles[r]]

=============================================================================
