---------------------------- MODULE MCStockLedger ----------------------------
(* Small instances of StockLedger for TLC. *)
EXTENDS StockLedger, TLC

Symmetry == Permutations(Txns) \cup Permutations(Items)

\* Of the requests that bear an operationId: a client that repeats one repeats its
\* request, and one that nobody repeats is like none.
RetriesRepeat ==
  LET Bearers == {t \in Txns : op[t] # NoOp \/ pc[t] = "replayed"} IN
  /\ \A t, u \in Txns : op[t] # NoOp /\ op[u] = op[t] => kind[u] = kind[t] /\ change[u] = change[t]
  /\ Cardinality(Bearers) = 1 => \E t \in Txns : pc[t] = "idle"
=============================================================================
