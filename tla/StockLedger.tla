----------------------------- MODULE StockLedger -----------------------------
(***************************************************************************)
(* The cached stock quantity of every inventory item and its ledger        *)
(* (inventory_items.quantity, inventory_transactions), as the request      *)
(* handlers of the API change them: invoice.create, invoice.returnItems,   *)
(* invoice.void, inventory.adjust / receive (both are mutate),             *)
(* inventory.transfer and purchase.create; removal and reactivation of an  *)
(* item, and the restore of a products archive, which sets it outright.    *)
(*                                                                         *)
(* Every handler is one interactive Prisma transaction, run by PostgreSQL  *)
(* at READ COMMITTED, and several run at once.  A step of the model is one *)
(* SQL statement on a shared row.  A plain SELECT sees the last committed  *)
(* row and takes no lock; an UPDATE waits for the row's lock, evaluates    *)
(* its WHERE and its increments on the row it then finds, and keeps the    *)
(* lock until the transaction ends; the writes of an open transaction are  *)
(* invisible to the others and are published together by its commit.       *)
(***************************************************************************)
EXTENDS Integers, FiniteSets

CONSTANTS
  Items,       \* the inventory items (rows of inventory_items)
  Txns,        \* the requests, each running one transaction
  Ops,         \* the operationIds clients send
  NoTxn,       \* no transaction: a free lock
  NoItem,      \* no item: no line left to execute
  NoOp,        \* the request carries no operationId
  MaxUnits,    \* bound on the units of one line
  MaxInitial,  \* bound on the stock an item is created with, or has in an archive
  MaxLines,    \* bound on the lines of one request
  Archived     \* the items that an archive, which may be restored, holds

ASSUME ConstantsAssumption ==
  /\ NoTxn \notin Txns
  /\ NoItem \notin Items
  /\ NoOp \notin Ops
  /\ MaxUnits \in Nat \ {0}
  /\ MaxInitial \in Nat
  /\ MaxLines \in Nat \ {0}
  /\ IsFiniteSet(Txns)
  /\ Archived \subseteq Items

VARIABLES
  quantity,    \* inventory_items.quantity, committed
  active,      \* inventory_items.isActive, committed
  ledgerSum,   \* SUM(quantityChange) over the committed rows of the item
  lastRow,     \* the item's newest committed ledger row: its change, its quantityAfter
  restored,    \* the items an archive has set since their newest row (decides nothing)
  counter,     \* counters.lastValue of key 'invoice', committed
  voided,      \* the sales whose invoice is voided
  rowLock,     \* the transaction holding the item's row lock
  counterLock, \* the transaction holding the counter's row lock
  pc,          \* where each request is
  kind,        \* what it does
  op,          \* its operationId
  ref,         \* the sale a return or a void is about
  change,      \* signed units of its line for each item, 0 for no line
  next,        \* the item of the line it is executing
  left,        \* the items of the lines after that one
  seen,        \* the quantity a plain SELECT gave it
  pend,        \* its uncommitted quantity of each item it has locked
  number       \* the invoice number it took

rows  == <<quantity, active, ledgerSum, lastRow, restored, counter, voided>>
locks == <<rowLock, counterLock>>
input == <<kind, op, ref, change>>
local == <<pc, next, left, seen, pend, number>>
vars  == <<rows, locks, input, local>>

Kinds == {"sale", "mutate", "purchase", "transfer", "return", "void"}

\* The kinds that write the quantity as an increment of the row they lock ...
Relative == {"sale", "return", "void"}
\* ... and those that write a value computed from an earlier plain SELECT.
Absolute == {"mutate", "purchase"}

Open    == {"begun", "lines", "read"}
Closed  == {"committed", "failed", "replayed"}

\* operationId is UNIQUE in invoices, in purchase_invoices and in
\* inventory_transactions, separately.
Table(k) == CASE k = "sale"     -> "invoices"
              [] k = "purchase" -> "purchase_invoices"
              [] OTHER          -> "inventory_transactions"

\* A committed row carries operationId o in the table that kind k writes.
Recorded(k, o) ==
  /\ o # NoOp
  /\ \E u \in Txns : pc[u] = "committed" /\ op[u] = o /\ Table(kind[u]) = Table(k)

LineItems(t) == {i \in Items : change[t][i] # 0}

-----------------------------------------------------------------------------
\* inventory.create: the item and, when it starts with stock, its 'initial' row.
\* (An item that only a restore creates is one without stock until then.)
Init ==
  /\ quantity \in [Items -> 0..MaxInitial]
  /\ active = [i \in Items |-> TRUE]
  /\ ledgerSum = quantity
  /\ lastRow = [i \in Items |-> [change |-> quantity[i], after |-> quantity[i]]]
  /\ restored = {}
  /\ counter = 0
  /\ voided = {}
  /\ rowLock = [i \in Items |-> NoTxn]
  /\ counterLock = NoTxn
  /\ pc = [t \in Txns |-> "idle"]
  /\ kind = [t \in Txns |-> "mutate"]
  /\ op = [t \in Txns |-> NoOp]
  /\ ref = [t \in Txns |-> NoTxn]
  /\ change = [t \in Txns |-> [i \in Items |-> 0]]
  /\ next = [t \in Txns |-> NoItem]
  /\ left = [t \in Txns |-> {}]
  /\ seen = [t \in Txns |-> 0]
  /\ pend = [t \in Txns |-> [i \in Items |-> 0]]
  /\ number = [t \in Txns |-> 0]

\* A request arrives and its transaction begins: k, its lines S (executed from
\* some first line on, in the order the input lists them) with their signed
\* units ch.  Its first statement looks its operationId up: a recorded one is
\* answered from the record.
Begin(t, k, S, ch, o, s) ==
  /\ pc[t] = "idle"
  /\ \/ /\ Recorded(k, o)
        /\ pc' = [pc EXCEPT ![t] = "replayed"]
        /\ UNCHANGED <<input, next, left>>
     \/ /\ ~Recorded(k, o)
        /\ pc' = [pc EXCEPT ![t] = IF k = "sale" THEN "begun" ELSE "lines"]
        /\ kind' = [kind EXCEPT ![t] = k]
        /\ op' = [op EXCEPT ![t] = o]
        /\ ref' = [ref EXCEPT ![t] = s]
        /\ change' = [change EXCEPT ![t] = [i \in Items |-> IF i \in S THEN ch[i] ELSE 0]]
        /\ \E i \in S : /\ next' = [next EXCEPT ![t] = i]
                        /\ left' = [left EXCEPT ![t] = S \ {i}]
  /\ UNCHANGED <<rows, locks, seen, pend, number>>

LineSets == {S \in SUBSET Items : S # {} /\ Cardinality(S) <= MaxLines}

\* invoice.create looks its items up, active ones only, before the transaction.
BeginSale(t) ==
  \E S \in LineSets, o \in Ops \cup {NoOp} :
    \E ch \in [S -> (-MaxUnits)..(-1)] :
      /\ \A i \in S : active[i]
      /\ Begin(t, "sale", S, ch, o, NoTxn)

\* adjust (either sign, a reason for a negative one) and receive (positive).
BeginMutate(t) ==
  \E i \in Items, o \in Ops \cup {NoOp} :
    \E ch \in [{i} -> ((-MaxUnits)..MaxUnits) \ {0}] : Begin(t, "mutate", {i}, ch, o, NoTxn)

BeginPurchase(t) ==
  \E S \in LineSets, o \in Ops \cup {NoOp} :
    \E ch \in [S -> 1..MaxUnits] : Begin(t, "purchase", S, ch, o, NoTxn)

BeginTransfer(t) ==
  \E i \in Items, o \in Ops \cup {NoOp} :
    Begin(t, "transfer", {i}, [j \in {i} |-> 0], o, NoTxn)

\* A healthy return of units of one line of an issued invoice.  How many units
\* a line may still return is guarded in returnItems under the invoice's row
\* lock and is the subject of InvoiceSettlement.
BeginReturn(t) ==
  \E s \in Txns \ voided :
    /\ pc[s] = "committed" /\ kind[s] = "sale"
    /\ \E i \in LineItems(s) : \E n \in 1..(-change[s][i]) :
         Begin(t, "return", {i}, [j \in {i} |-> n], NoOp, s)

\* The status is read before the transaction begins; every line comes back.
BeginVoid(t) ==
  \E s \in Txns \ voided :
    /\ pc[s] = "committed" /\ kind[s] = "sale"
    /\ Begin(t, "void", LineItems(s), [i \in Items |-> -change[s][i]], NoOp, s)

-----------------------------------------------------------------------------
\* Fault: the number is read with a plain SELECT.
TakeNumberUnlocked(t) ==
  /\ pc[t] = "begun"
  /\ number' = [number EXCEPT ![t] = counter + 1]
  /\ pc' = [pc EXCEPT ![t] = "lines"]
  /\ UNCHANGED <<rows, locks, input, next, left, seen, pend>>

\* invoice.create takes the next number: the counter's row stays locked.
TakeNumber(t) ==
  /\ pc[t] = "begun"
  /\ counterLock = NoTxn
  /\ counterLock' = t
  /\ number' = [number EXCEPT ![t] = counter + 1]
  /\ pc' = [pc EXCEPT ![t] = "lines"]
  /\ UNCHANGED <<rows, rowLock, input, next, left, seen, pend>>

\* The line's UPDATE has the row: keep its new quantity, go to the next line.
Wrote(t, q) ==
  LET i == next[t] IN
  /\ rowLock[i] = NoTxn
  /\ rowLock' = [rowLock EXCEPT ![i] = t]
  /\ pend' = [pend EXCEPT ![t][i] = q]
  /\ \/ /\ left[t] = {}
        /\ next' = [next EXCEPT ![t] = NoItem]
        /\ UNCHANGED left
     \/ \E j \in left[t] : /\ next' = [next EXCEPT ![t] = j]
                           /\ left' = [left EXCEPT ![t] = @ \ {j}]
  /\ pc' = [pc EXCEPT ![t] = "lines"]
  /\ UNCHANGED <<rows, counterLock, input, seen, number>>

AtLine(t, ks) == pc[t] = "lines" /\ next[t] # NoItem /\ kind[t] \in ks

\* Faults: the WHERE without the quantity, or without isActive.
SellableUnguarded(t, i) == active[i]
SellableInactive(t, i) == quantity[i] + change[t][i] >= 0

\* The WHERE of the sale's updateMany, on the row the statement finds.
Sellable(t, i) == active[i] /\ quantity[i] + change[t][i] >= 0

\* updateMany ... where quantity >= n and isActive, decrement n: one row matches.
DecrementLine(t) ==
  /\ AtLine(t, {"sale"})
  /\ Sellable(t, next[t])
  /\ Wrote(t, quantity[next[t]] + change[t][next[t]])

\* returnItems and void put units back with a plain increment.
IncrementLine(t) ==
  /\ AtLine(t, {"return", "void"})
  /\ Wrote(t, quantity[next[t]] + change[t][next[t]])

\* mutate, purchase.create and transfer first SELECT the row, without a lock.
ReadLine(t) ==
  /\ AtLine(t, Absolute \cup {"transfer"})
  /\ quantity[next[t]] + change[t][next[t]] >= 0
  /\ seen' = [seen EXCEPT ![t] = quantity[next[t]]]
  /\ pc' = [pc EXCEPT ![t] = "read"]
  /\ UNCHANGED <<rows, locks, input, next, left, pend, number>>

\* ... and then write the value computed from what they saw.
WriteLine(t) ==
  /\ pc[t] = "read"
  /\ Wrote(t, IF kind[t] = "transfer" THEN quantity[next[t]]
                                      ELSE seen[t] + change[t][next[t]])

-----------------------------------------------------------------------------
\* Fault: the error path leaves the transaction, and its lock, open.
CounterLeaked(t) == counterLock

\* Who holds the counter once t has ended.
CounterFreed(t) == IF counterLock = t THEN NoTxn ELSE counterLock

\* The transaction is over: its locks are free, its local values are gone.
Finish(t, outcome) ==
  /\ pc' = [pc EXCEPT ![t] = outcome]
  /\ rowLock' = [i \in Items |-> IF rowLock[i] = t THEN NoTxn ELSE rowLock[i]]
  /\ counterLock' = CounterFreed(t)
  /\ next' = [next EXCEPT ![t] = NoItem]
  /\ left' = [left EXCEPT ![t] = {}]
  /\ seen' = [seen EXCEPT ![t] = 0]
  /\ pend' = [pend EXCEPT ![t] = [i \in Items |-> 0]]

\* It ends without effect: nothing of the request remains.
RollBack(t) ==
  /\ Finish(t, "failed")
  /\ kind' = [kind EXCEPT ![t] = "mutate"]
  /\ op' = [op EXCEPT ![t] = NoOp]
  /\ ref' = [ref EXCEPT ![t] = NoTxn]
  /\ change' = [change EXCEPT ![t] = [i \in Items |-> 0]]
  /\ number' = [number EXCEPT ![t] = 0]
  /\ UNCHANGED rows

\* INSUFFICIENT_STOCK: the updateMany counts no row (a row whose committed
\* version does not match is skipped without waiting for its lock), or
\* calculateNextQuantity refuses the next quantity.
RefuseLine(t) ==
  /\ \/ AtLine(t, {"sale"}) /\ ~Sellable(t, next[t])
     \/ AtLine(t, Absolute) /\ quantity[next[t]] + change[t][next[t]] < 0
  /\ RollBack(t)

\* Fault: the last line is not awaited.
FinishedEarly(t) == pc[t] = "lines" /\ left[t] = {}

Finished(t) == pc[t] = "lines" /\ next[t] = NoItem

\* The operationId was recorded meanwhile: its UNIQUE index refuses the insert.
RefuseDuplicate(t) ==
  /\ Finished(t)
  /\ Recorded(kind[t], op[t])
  /\ RollBack(t)

\* Fault: the row is logged with the quantity before the update.
QuantityBefore(t, i) == quantity[i]

\* What the row t inserts for item i says the quantity is after it: a sale
\* refreshes it from the row it updated, a transfer logs what it had read.
QuantityAfter(t, i) == IF kind[t] = "transfer" THEN seen[t] ELSE pend[t][i]

\* Fault: a return puts units back without a ledger row.
LedgerChangeForgotten(t, i) == IF kind[t] = "return" THEN 0 ELSE change[t][i]

\* The quantityChange of that row.
LedgerChange(t, i) == change[t][i]

\* Fault: every handler marks the invoice it refers to.
VoidedByAny(t) == {ref[t]}

VoidedBy(t) == IF kind[t] = "void" THEN {ref[t]} ELSE {}

\* Fault: operationId without its UNIQUE index.
UniqueOpUnindexed(t) == TRUE

UniqueOp(t) == ~Recorded(kind[t], op[t])

\* The commit publishes the quantities, one ledger row per line, the number and
\* the invoice's status, and frees the locks.
Commit(t) ==
  /\ Finished(t)
  /\ UniqueOp(t)
  /\ quantity' = [i \in Items |-> IF rowLock[i] = t THEN pend[t][i] ELSE quantity[i]]
  /\ ledgerSum' = [i \in Items |-> IF rowLock[i] = t THEN ledgerSum[i] + LedgerChange(t, i)
                                                     ELSE ledgerSum[i]]
  /\ lastRow' = [i \in Items |-> IF rowLock[i] = t
                                   THEN [change |-> LedgerChange(t, i), after |-> QuantityAfter(t, i)]
                                   ELSE lastRow[i]]
  /\ restored' = {i \in restored : rowLock[i] # t}
  /\ counter' = IF kind[t] = "sale" THEN number[t] ELSE counter
  /\ voided' = voided \cup VoidedBy(t)
  /\ Finish(t, "committed")
  /\ UNCHANGED <<active, input, number>>

\* Any open transaction can be lost: an error of a later statement, Prisma's
\* transaction timeout, a dropped connection, a crash of the API.
Abort(t) ==
  /\ pc[t] \in Open
  /\ RollBack(t)

\* t waits for the lock that u holds.
Waits(t, u) ==
  \/ pc[t] = "begun" /\ counterLock = u
  \/ /\ pc[t] = "read" \/ AtLine(t, Relative)
     /\ rowLock[next[t]] = u

\* PostgreSQL's deadlock detector aborts one transaction of a cycle of waits.
DeadlockVictim(t) ==
  /\ pc[t] \in Open
  /\ \E u \in Txns \ {t} : /\ Waits(t, u)
                           /\ \/ Waits(u, t)
                              \/ \E v \in Txns \ {t, u} : Waits(u, v) /\ Waits(v, t)
  /\ RollBack(t)

\* removeItem soft-deletes the item, updateItem may bring it back: one UPDATE.
SetActive(i, b) ==
  /\ rowLock[i] = NoTxn
  /\ active[i] # b
  /\ active' = [active EXCEPT ![i] = b]
  /\ UNCHANGED <<quantity, ledgerSum, lastRow, restored, counter, voided, locks, input, local>>

\* restoreProducts sets the lines S of one product to what the archive says, in
\* one transaction and whatever they are now; it writes no ledger row.
Restore(S, units, on) ==
  /\ \A i \in S : rowLock[i] = NoTxn
  /\ quantity' = [i \in Items |-> IF i \in S THEN units[i] ELSE quantity[i]]
  /\ active' = [i \in Items |-> IF i \in S THEN on[i] ELSE active[i]]
  /\ restored' = restored \cup S
  /\ UNCHANGED <<ledgerSum, lastRow, counter, voided, locks, input, local>>

RestoreProduct ==
  \E S \in (SUBSET Archived) \ {{}} :
    \E units \in [S -> 0..MaxInitial], on \in [S -> BOOLEAN] : Restore(S, units, on)

Arrive(t) ==
  \/ BeginSale(t)     \/ BeginMutate(t) \/ BeginPurchase(t)
  \/ BeginTransfer(t) \/ BeginReturn(t) \/ BeginVoid(t)

Work(t) ==
  \/ TakeNumber(t) \/ DecrementLine(t) \/ IncrementLine(t) \/ ReadLine(t) \/ WriteLine(t)
  \/ RefuseLine(t) \/ RefuseDuplicate(t) \/ Commit(t)

Next ==
  \/ \E t \in Txns : Arrive(t) \/ Work(t) \/ Abort(t) \/ DeadlockVictim(t)
  \/ \E i \in Items, b \in BOOLEAN : SetActive(i, b)
  \/ RestoreProduct

Spec == Init /\ [][Next]_vars

\* The database keeps executing the statements it is given and its deadlock
\* detector keeps looking; nothing makes a client send a request, a crash
\* happen or an operator edit an item.
Fairness == \A t \in Txns : WF_vars(Work(t)) /\ WF_vars(DeadlockVictim(t))

FairSpec == Spec /\ Fairness

-----------------------------------------------------------------------------
TypeOK ==
  /\ quantity \in [Items -> Int]
  /\ active \in [Items -> BOOLEAN]
  /\ ledgerSum \in [Items -> Int]
  /\ lastRow \in [Items -> [change : Int, after : Int]]
  /\ restored \subseteq Items
  /\ counter \in Nat
  /\ voided \subseteq Txns
  /\ rowLock \in [Items -> Txns \cup {NoTxn}]
  /\ counterLock \in Txns \cup {NoTxn}
  /\ pc \in [Txns -> Open \cup Closed \cup {"idle"}]
  /\ kind \in [Txns -> Kinds]
  /\ op \in [Txns -> Ops \cup {NoOp}]
  /\ ref \in [Txns -> Txns \cup {NoTxn}]
  /\ \A t \in Txns : kind[t] = "void" => ref[t] \in Txns
  /\ change \in [Txns -> [Items -> Int]]
  /\ next \in [Txns -> Items \cup {NoItem}]
  /\ left \in [Txns -> SUBSET Items]
  /\ seen \in [Txns -> Int]
  /\ pend \in [Txns -> [Items -> Int]]
  /\ number \in [Txns -> Nat]

Committed(t, ks) == pc[t] = "committed" /\ kind[t] \in ks

\* The shop never shows or sells stock below zero, whatever handlers overlap:
\* the sale's guarded decrement and calculateNextQuantity are enough.
NonNegative == \A i \in Items : quantity[i] >= 0

\* The newest ledger row of an item, when it moved units, states the item's
\* quantity unless an archive has been restored over it since: a handler logs
\* the value it committed, also a multi-line sale.
LastRowTruthful ==
  \A i \in Items \ restored : lastRow[i].change # 0 => lastRow[i].after = quantity[i]

\* An item that no archive holds and on which no adjust, receive or purchase has
\* committed reconciles: sales, returns and voids alone, however they overlap,
\* never make the cached quantity differ from the sum of the ledger.
RelativeReconciles ==
  \A i \in Items \ Archived :
    (\A t \in Txns : Committed(t, Absolute) => change[t][i] = 0) => quantity[i] = ledgerSum[i]

\* What reconciliation() reports for an item.
Drift(i) == quantity[i] - ledgerSum[i]

\* t's commit writes over a change of the item made since t read it.
StaleWrite(t, i) ==
  /\ Committed(t, Absolute)' /\ pc[t] # "committed"
  /\ pend[t][i] # quantity[i] + change[t][i]

\* A restore sets the quantity and leaves the item's ledger as it is.
SetByRestore(i) ==
  i \in restored' \cap Archived /\ UNCHANGED <<ledgerSum[i], lastRow[i]>>

\* Drift appears or changes in two ways only: a commit of adjust, receive or
\* purchase writes over a change made since it read the row, or an archive is
\* restored over it.
DriftHasTwoCauses ==
  [][\A i \in Items : Drift(i)' # Drift(i) =>
       SetByRestore(i) \/ \E t \in Txns : StaleWrite(t, i)]_vars

\* A sale never commits on an item that has been removed: the guard is
\* evaluated under the row lock that removal needs.
NoSaleOfRemovedItem ==
  [][\A t \in Txns : pc[t] # "committed" /\ Committed(t, {"sale"})'
       => \A i \in LineItems(t) : active[i]]_vars

\* All lines of a sale commit or none: the quantity of every item it lists
\* drops by exactly its units in the step that commits it.
SaleIsAtomic ==
  [][\A t \in Txns : pc[t] # "committed" /\ Committed(t, {"sale"})'
       => \A i \in Items : quantity'[i] = quantity[i] + change[t][i]]_vars

\* A retried request takes effect at most once: of the requests that carry one
\* operationId to one table, at most one commits.
AppliedOnce ==
  \A t, u \in Txns :
    /\ pc[t] = "committed" /\ pc[u] = "committed" /\ t # u
    /\ op[t] = op[u] /\ Table(kind[t]) = Table(kind[u])
    => op[t] = NoOp

\* The issued invoices are numbered 1, 2, ... without gap or repetition, also
\* when sales fail after taking a number.
NumbersGapless ==
  LET issued == {t \in Txns : Committed(t, {"sale"})} IN
  /\ {number[t] : t \in issued} = 1..counter
  /\ \A t, u \in issued : number[t] = number[u] => t = u

(***************************************************************************)
(* The inductive strengthening of the invariants above.                    *)
(***************************************************************************)
\* Only a transaction between its first and last statement holds a row lock.
LocksHeldByOpen ==
  \A i \in Items : rowLock[i] \in Txns => pc[rowLock[i]] \in {"lines", "read"}

\* A value read is used by the very next statement, on the row it was read
\* from, and calculateNextQuantity has accepted what it leads to.
ReadIsUsable ==
  \A t \in Txns : pc[t] = "read" =>
    /\ next[t] \in Items
    /\ kind[t] \in Absolute \cup {"transfer"}
    /\ seen[t] + change[t][next[t]] >= 0

\* Sales take units out, returns and voids put them back, transfers move none.
ChangeSigns ==
  \A t \in Txns, i \in Items :
    /\ kind[t] = "sale" => change[t][i] <= 0
    /\ kind[t] \in {"return", "void"} => change[t][i] >= 0
    /\ kind[t] = "transfer" => change[t][i] = 0

\* Every line of an adjust, receive or purchase, executed or still to be
\* executed, moves some units.
LinesMoveUnits ==
  \A t \in Txns : kind[t] \in Absolute =>
    /\ next[t] \in Items => change[t][next[t]] # 0
    /\ \A i \in left[t] : change[t][i] # 0
    /\ \A i \in Items : rowLock[i] = t => change[t][i] # 0

\* What a transaction will publish for a row it has locked: never below zero,
\* and for an increment exactly the committed quantity plus the line's units.
PendingIsRight ==
  \A i \in Items : \A t \in Txns : rowLock[i] = t =>
    /\ pend[t][i] >= 0
    /\ kind[t] \in Relative \cup {"transfer"} => pend[t][i] = quantity[i] + change[t][i]

\* An open sale has locked every line it is past, and locked rows stay active.
SaleLocks ==
  \A t \in Txns : pc[t] \in Open /\ kind[t] = "sale" =>
    /\ next[t] = NoItem => left[t] = {}
    /\ \A i \in Items :
         /\ change[t][i] # 0 => i = next[t] \/ i \in left[t] \/ rowLock[i] = t
         /\ rowLock[i] = t => active[i]

\* A sale past its number holds the counter's row, and its number is the next one.
NumberIsNext ==
  \A t \in Txns : pc[t] \in {"lines", "read"} /\ kind[t] = "sale" =>
    counterLock = t /\ number[t] = counter + 1

IInv ==
  /\ TypeOK
  /\ NonNegative
  /\ LocksHeldByOpen
  /\ ReadIsUsable
  /\ ChangeSigns
  /\ LinesMoveUnits
  /\ PendingIsRight
  /\ LastRowTruthful
  /\ RelativeReconciles

\* Every request that began is answered: waits for row locks end, by a commit
\* or by the deadlock detector.
RequestsEnd == \A t \in Txns : pc[t] \in Open ~> pc[t] \in Closed

\* What architecture.md says: every change of the cached quantity writes its ledger
\* row, so the quantity is the sum of the rows.  It holds at least of the items that
\* an archive holds, or at least of the others.
SomeLedgersMatch ==
  \/ \A i \in Archived : Drift(i) = 0
  \/ \A i \in Items \ Archived : Drift(i) = 0
=============================================================================
