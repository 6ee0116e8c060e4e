------------------------- MODULE MCInvoiceSettlement -------------------------
\* Two invoices of one customer: the older sold two units at 2 with a discount
\* of 1, the younger one unit at 2.
EXTENDS InvoiceSettlement, TLC

CONSTANTS v1, v2, l1

MCTotal == v1 :> 3 @@ v2 :> 2
MCUnits == v1 :> (l1 :> 2) @@ v2 :> (l1 :> 1)
MCPrice == v1 :> (l1 :> 2) @@ v2 :> (l1 :> 2)
MCAge   == v1 :> 1 @@ v2 :> 2

Symmetry == Permutations(Txns)
=============================================================================
