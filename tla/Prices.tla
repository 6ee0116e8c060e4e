--------------------------------- MODULE Prices ---------------------------------
(***************************************************************************)
(* The sale price of a stock line and its history: create, updateItem,     *)
(* updateMetadata and bulkUpdatePrices of InventoryService, the inventory  *)
(* part of a product's update, and recordSalePriceChange.                  *)
(*                                                                         *)
(* All but the bulk change write price and row in one transaction, which   *)
(* starts with the UPDATE and is one step here; what it writes follows     *)
(* from a price read before.  The bulk change has no transaction.          *)
(***************************************************************************)
EXTENDS Integers, Sequences, FiniteSets

CONSTANTS
  Items,     \* the stock lines
  Requests,  \* the requests
  None,      \* no price sent
  MaxPrice,  \* bound on the prices sent
  MaxFaults  \* bound on crashes and imports

VARIABLES
  price,     \* InventoryItem.salePrice
  history,   \* its rows of inventory_price_history, oldest first
  ask,       \* what a request asks: a line and its price, or the bulk change
  pc,        \* where its handler is
  seen,      \* the prices it has read
  left,      \* the lines its bulk change has still to update
  open,      \* the line it has updated and not yet recorded
  faults     \* faults so far

rows     == <<price, history>>
handlers == <<ask, pc, seen, left, open>>
vars     == <<rows, handlers, faults>>

Edits == [item : Items, price : 0..MaxPrice \cup {None}]

\* A line is created with the row of its opening price, if it has one.
Init ==
  /\ price \in [Items -> {0, 1}]
  /\ history = [i \in Items |-> IF price[i] = 0 THEN <<>> ELSE <<[old |-> 0, new |-> price[i]]>>]
  /\ ask = [r \in Requests |-> None]
  /\ pc = [r \in Requests |-> "idle"]
  /\ seen = [r \in Requests |-> [i \in Items |-> 0]]
  /\ left = [r \in Requests |-> {}]
  /\ open = [r \in Requests |-> None]
  /\ faults = 0

Goto(r, p) == pc' = [pc EXCEPT ![r] = p]

\* Fault: a price is recorded when it rises.
RecordRise(i, old, new) ==
  history' = IF new <= old THEN history ELSE [history EXCEPT ![i] = Append(@, [old |-> old, new |-> new])]

\* recordSalePriceChange: no row for a change that keeps the number.
Record(i, old, new) ==
  history' = IF new = old THEN history ELSE [history EXCEPT ![i] = Append(@, [old |-> old, new |-> new])]

-----------------------------------------------------------------------------
\* updateItem, updateMetadata, applyInventoryMetadata: the line as it is read ...
BeginEdit(r, e) ==
  /\ pc[r] = "idle"
  /\ ask' = [ask EXCEPT ![r] = e]
  /\ seen' = [seen EXCEPT ![r] = price]
  /\ Goto(r, "write")
  /\ UNCHANGED <<rows, left, open, faults>>

\* ... and the UPDATE with its row, which names the price that was read.
CommitEdit(r) ==
  /\ pc[r] = "write"
  /\ LET i == ask[r].item
         new == IF ask[r].price = None THEN seen[r][i] ELSE ask[r].price IN
     /\ price' = IF ask[r].price = None THEN price ELSE [price EXCEPT ![i] = new]
     /\ Record(i, seen[r][i], new)
  /\ Goto(r, "done")
  /\ UNCHANGED <<ask, seen, left, open, faults>>

\* bulkUpdatePrices: all prices are read first ...
BeginBulk(r) ==
  /\ pc[r] = "idle"
  /\ seen' = [seen EXCEPT ![r] = price]
  /\ left' = [left EXCEPT ![r] = Items]
  /\ Goto(r, "bulk")
  /\ UNCHANGED <<rows, ask, open, faults>>

\* ... then line by line the new price is written, which rounding may leave as it was ...
UpdateInBulk(r, i, new) ==
  /\ pc[r] = "bulk" /\ open[r] = None /\ i \in left[r]
  /\ new \in {seen[r][i], seen[r][i] + 1}
  /\ price' = [price EXCEPT ![i] = new]
  /\ ask' = [ask EXCEPT ![r] = [item |-> i, price |-> new]]
  /\ open' = [open EXCEPT ![r] = i]
  /\ left' = [left EXCEPT ![r] = @ \ {i}]
  /\ UNCHANGED <<history, pc, seen, faults>>

\* ... and its row.
RecordInBulk(r) ==
  /\ pc[r] = "bulk" /\ open[r] # None
  /\ Record(open[r], seen[r][open[r]], ask[r].price)
  /\ open' = [open EXCEPT ![r] = None]
  /\ Goto(r, IF left[r] = {} THEN "done" ELSE "bulk")
  /\ UNCHANGED <<price, ask, seen, left, faults>>

\* A backup is restored: it writes the price of the archive and no row.
Import(i, new) ==
  /\ faults < MaxFaults /\ faults' = faults + 1
  /\ price' = [price EXCEPT ![i] = new]
  /\ UNCHANGED <<history, handlers>>

\* A request fails or the process dies.
Abort(r) ==
  /\ pc[r] \in {"write", "bulk"}
  /\ faults < MaxFaults /\ faults' = faults + 1
  /\ Goto(r, "done")
  /\ open' = [open EXCEPT ![r] = None]
  /\ UNCHANGED <<rows, ask, seen, left>>

Next ==
  \/ \E r \in Requests :
       \/ \E e \in Edits : BeginEdit(r, e)
       \/ CommitEdit(r) \/ BeginBulk(r) \/ RecordInBulk(r) \/ Abort(r)
       \/ \E i \in Items : UpdateInBulk(r, i, seen[r][i]) \/ UpdateInBulk(r, i, seen[r][i] + 1)
  \/ \E i \in Items, new \in 0..MaxPrice : Import(i, new)

Spec == Init /\ [][Next]_vars

-----------------------------------------------------------------------------
TypeOK ==
  /\ price \in [Items -> Nat]
  /\ history \in [Items -> Seq([old : Nat, new : Nat])]
  /\ \A r \in Requests : ask[r] = None \/ (ask[r].item \in Items /\ ask[r].price \in Nat \cup {None})
  /\ pc \in [Requests -> {"idle", "write", "bulk", "done"}]
  /\ seen \in [Requests -> [Items -> Nat]]
  /\ left \in [Requests -> SUBSET Items]
  /\ open \in [Requests -> Items \cup {None}]
  /\ faults \in Nat

Unrecorded(i) == {r \in Requests : open[r] = i}

\* The rows lead, each from where the last one ended, to the price; a bulk change
\* between its two statements still owes the last of them.
Traced(i) ==
  LET from(k) == IF k = 0 THEN 0 ELSE history[i][k].new IN
  /\ \A k \in DOMAIN history[i] : history[i][k].old = from(k - 1)
  /\ IF Unrecorded(i) = {} THEN price[i] = from(Len(history[i]))
     ELSE \E r \in Requests :
            Unrecorded(i) = {r} /\ price[i] = ask[r].price /\ seen[r][i] = from(Len(history[i]))

\* What the schema says of the history: "one row per actual price change".
RowPerChange == \A i \in Items : Traced(i)

\* Writes the price of the line, or its row.
Writes(r, i) ==
  \/ CommitEdit(r) /\ ask[r].item = i
  \/ UpdateInBulk(r, i, seen[r][i]) \/ UpdateInBulk(r, i, seen[r][i] + 1)

\* The history of a line fails to lead to its price only after a write from a price
\* that had changed since it was read, a write between the two statements of a bulk
\* change, a bulk change that died there, or an import.
UntracedByOverlap ==
  \A i \in Items : Traced(i) /\ ~Traced(i)' =>
    \/ \E r \in Requests : Writes(r, i) /\ (seen[r][i] # price[i] \/ Unrecorded(i) # {})
    \/ \E r \in Unrecorded(i) : Abort(r)
    \/ faults' # faults /\ UNCHANGED handlers

HistoryTells == [][UntracedByOverlap]_vars
=============================================================================
