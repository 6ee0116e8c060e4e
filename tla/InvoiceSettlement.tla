-------------------------- MODULE InvoiceSettlement --------------------------
(***************************************************************************)
(* What a customer owes on issued invoices: invoices.paidAmount,           *)
(* invoices.paymentStatus, invoices.status, and the payments,              *)
(* customer_payments and return_records rows, as invoice.pay,              *)
(* customers.payment, invoice.returnItems and invoice.void change them.    *)
(*                                                                         *)
(* The handlers are interactive transactions at READ COMMITTED.  Each      *)
(* SELECT is a step of its own and sees what is committed when it runs.    *)
(* returnItems locks the invoice row before it reads; the others write the *)
(* row without having locked it, so their UPDATE waits for the lock, then  *)
(* stores the value they computed before.  No handler reads between its    *)
(* first UPDATE of an invoice and its commit, so these are one step.       *)
(***************************************************************************)
EXTENDS Integers, FiniteSets, Functions

CONSTANTS
  Invoices,    \* the issued invoices of one customer
  Lines,       \* the lines of an invoice
  Txns,        \* the requests, each running one transaction
  Ops,         \* the operationIds clients send with a payment
  NoTxn,       \* no transaction: a free lock
  NoInvoice,   \* no invoice chosen: the oldest debts first
  NoLine,      \* the request is not about a line
  NoOp,        \* the request carries no operationId
  Total,       \* invoices.total: the subtotal less the discount
  Units,       \* units sold on each line
  Price,       \* unit price of each line, as recorded on the invoice
  Age,         \* the position of each invoice in the order of issuedAt
  MaxAmount    \* bound on one payment

ASSUME ConstantsAssumption ==
  /\ NoTxn \notin Txns /\ NoInvoice \notin Invoices /\ NoLine \notin Lines /\ NoOp \notin Ops
  /\ IsFiniteSet(Invoices)
  /\ Total \in [Invoices -> Nat]
  /\ Units \in [Invoices -> [Lines -> Nat]]
  /\ Price \in [Invoices -> [Lines -> Nat]]
  /\ Age \in [Invoices -> Nat]
  /\ MaxAmount \in Nat

VARIABLES
  status,        \* invoices.status
  paid,          \* invoices.paidAmount
  paymentStatus, \* invoices.paymentStatus
  received,      \* SUM(amount) of the invoice's payments rows
  allocated,     \* the part of it that came through customer receipts
  receipts,      \* SUM(amount) of the customer's customer_payments rows
  returned,      \* SUM(quantity) of the return_records of each line
  refunded,      \* SUM(refundAmount) of the return_records of each invoice
  lock,          \* the transaction that holds the invoice's row
  pc,            \* where each request is
  kind,          \* what it does
  op,            \* its operationId
  target,        \* the invoice it names
  line,          \* the line it returns units of
  amount,        \* its money, or the units it returns
  snap,          \* the invoices it has read
  seenPaid,      \* their paidAmount, as read
  seenRefunded,  \* their refunds, as read
  share          \* what it will add to each invoice

rows  == <<status, paid, paymentStatus, received, allocated, receipts, returned, refunded>>
input == <<kind, op, target, line, amount>>
local == <<snap, seenPaid, seenRefunded, share>>
vars  == <<rows, lock, pc, input, local>>

Kinds    == {"pay", "settle", "return", "void"}
Open     == {"begun", "locked", "read", "ready"}
Nothing  == [v \in Invoices |-> 0]

\* The payments table has a committed row with operationId o.
Recorded(o) == o # NoOp /\ \E u \in Txns : pc[u] = "committed" /\ op[u] = o

-----------------------------------------------------------------------------
\* As invoice.create leaves them: issued, unpaid, nothing returned.
Init ==
  /\ status = [v \in Invoices |-> "issued"]
  /\ paid = Nothing
  /\ paymentStatus = [v \in Invoices |-> "unpaid"]
  /\ received = Nothing
  /\ allocated = Nothing
  /\ receipts = 0
  /\ returned = [v \in Invoices |-> [l \in Lines |-> 0]]
  /\ refunded = Nothing
  /\ lock = [v \in Invoices |-> NoTxn]
  /\ pc = [t \in Txns |-> "idle"]
  /\ kind = [t \in Txns |-> "void"]
  /\ op = [t \in Txns |-> NoOp]
  /\ target = [t \in Txns |-> NoInvoice]
  /\ line = [t \in Txns |-> NoLine]
  /\ amount = [t \in Txns |-> 0]
  /\ snap = [t \in Txns |-> {}]
  /\ seenPaid = [t \in Txns |-> Nothing]
  /\ seenRefunded = [t \in Txns |-> Nothing]
  /\ share = [t \in Txns |-> Nothing]

Begin(t, k, v, l, n, o) ==
  /\ pc[t] = "idle"
  /\ pc' = [pc EXCEPT ![t] = "begun"]
  /\ kind' = [kind EXCEPT ![t] = k]
  /\ op' = [op EXCEPT ![t] = o]
  /\ target' = [target EXCEPT ![t] = v]
  /\ line' = [line EXCEPT ![t] = l]
  /\ amount' = [amount EXCEPT ![t] = n]
  /\ UNCHANGED <<rows, lock, local>>

\* pay looks its operationId up first: a recorded payment is the answer.
BeginPay(t) ==
  \E v \in Invoices, n \in 1..MaxAmount, o \in Ops \cup {NoOp} :
    ~Recorded(o) /\ Begin(t, "pay", v, NoLine, n, o)

ReplayPay(t) ==
  /\ pc[t] = "idle"
  /\ \E o \in Ops : Recorded(o)
  /\ pc' = [pc EXCEPT ![t] = "replayed"]
  /\ UNCHANGED <<rows, lock, input, local>>

\* customers.payment, for one invoice of the customer or for the oldest ones.
BeginSettle(t) ==
  \E v \in Invoices \cup {NoInvoice}, n \in 1..MaxAmount : Begin(t, "settle", v, NoLine, n, NoOp)

BeginReturn(t) ==
  \E v \in Invoices, l \in Lines : \E n \in 1..(Units[v][l] + 1) :
    Begin(t, "return", v, l, n, NoOp)

BeginVoid(t) == \E v \in Invoices : Begin(t, "void", v, NoLine, 0, NoOp)

-----------------------------------------------------------------------------
\* Fault: the SELECT of returnItems without FOR UPDATE.
LockInvoiceUnlocked(t) ==
  /\ pc[t] = "begun" /\ kind[t] = "return"
  /\ pc' = [pc EXCEPT ![t] = "locked"]
  /\ UNCHANGED <<rows, lock, input, local>>

\* SELECT ... FOR UPDATE.
LockInvoice(t) ==
  /\ pc[t] = "begun" /\ kind[t] = "return"
  /\ lock[target[t]] = NoTxn
  /\ lock' = [lock EXCEPT ![target[t]] = t]
  /\ pc' = [pc EXCEPT ![t] = "locked"]
  /\ UNCHANGED <<rows, input, local>>

\* The handler now holds the committed rows of the invoices in S.
Reads(t, S, p) ==
  /\ snap' = [snap EXCEPT ![t] = S]
  /\ seenPaid' = [seenPaid EXCEPT ![t] = [v \in Invoices |-> IF v \in S THEN paid[v] ELSE 0]]
  /\ pc' = [pc EXCEPT ![t] = p]
  /\ UNCHANGED <<rows, lock, input, seenRefunded, share>>

Issued == {v \in Invoices : status[v] = "issued"}

\* Fault: a voided invoice is accepted.
ReturnableAnyStatus(t) == returned[target[t]][line[t]] + amount[t] <= Units[target[t]][line[t]]

\* The invoice is not voided and the line has that many units left.
Returnable(t) ==
  /\ target[t] \in Issued
  /\ returned[target[t]][line[t]] + amount[t] <= Units[target[t]][line[t]]

\* returnItems reads the invoice and the line's earlier returns, under the lock.
ReadLocked(t) ==
  /\ pc[t] = "locked"
  /\ Returnable(t)
  /\ Reads(t, {target[t]}, "ready")

\* pay reads its invoice; void reads it before its transaction begins.
ReadInvoice(t) ==
  /\ pc[t] = "begun" /\ kind[t] \in {"pay", "void"}
  /\ target[t] \in Issued
  /\ Reads(t, {target[t]}, IF kind[t] = "pay" THEN "read" ELSE "ready")

\* customers.payment reads the customer's issued invoices.
ReadCustomer(t) ==
  /\ pc[t] = "begun" /\ kind[t] = "settle"
  /\ Reads(t, Issued, "read")

-----------------------------------------------------------------------------
\* What invoice v still owes, for a handler that read paidAmount before and
\* reads the refunds now.
Owed(t, v) == Total[v] - refunded[v] - seenPaid[t][v]

\* Fault: the amount is checked against the net total, not what is left of it.
PayableAnew(t) == amount[t] <= Total[target[t]] - refunded[target[t]]

Payable(t) == amount[t] <= Owed(t, target[t])

Room(t, v) == IF Owed(t, v) > 0 THEN Owed(t, v) ELSE 0

Eligible(t) == snap[t] \cap (IF target[t] = NoInvoice THEN Invoices ELSE {target[t]})

\* The split a of the amount that the allocation loop computes: no invoice
\* gets more than it owes, a younger one only when the older ones are full.
OldestFirst(t, a) ==
  /\ \A v \in Invoices : a[v] <= (IF v \in Eligible(t) THEN Room(t, v) ELSE 0)
  /\ \A v, w \in Eligible(t) : a[v] > 0 /\ Age[w] < Age[v] => a[w] = Room(t, w)

\* Fault: an amount that could not be allocated completely is accepted.
AllocatesSomeOf(t, a) == OldestFirst(t, a) /\ SumFunction(a) <= amount[t]

Allocates(t, a) == OldestFirst(t, a) /\ SumFunction(a) = amount[t]

\* calculateCustomerDebt: credit on one invoice counts against the others.
Debt(t) ==
  LET owed == SumFunction([v \in snap[t] |-> Owed(t, v)])
  IN  IF owed < 0 THEN 0 ELSE owed

Shares(t) == {a \in [Invoices -> 0..amount[t]] : amount[t] <= Debt(t) /\ Allocates(t, a)}

\* The refunds are a second SELECT; then the amount is checked and split.
ReadRefunds(t) ==
  /\ pc[t] = "read"
  /\ \/ /\ kind[t] = "pay" /\ Payable(t)
        /\ share' = [share EXCEPT ![t] = [Nothing EXCEPT ![target[t]] = amount[t]]]
     \/ /\ kind[t] = "settle"
        /\ \E a \in Shares(t) : share' = [share EXCEPT ![t] = a]
  /\ seenRefunded' = [seenRefunded EXCEPT ![t] =
                        [v \in Invoices |-> IF v \in snap[t] THEN refunded[v] ELSE 0]]
  /\ pc' = [pc EXCEPT ![t] = "ready"]
  /\ UNCHANGED <<rows, lock, input, snap, seenPaid>>

-----------------------------------------------------------------------------
\* The transaction is over: its locks are free, its local values are gone.
Finish(t, outcome) ==
  /\ pc' = [pc EXCEPT ![t] = outcome]
  /\ lock' = [v \in Invoices |-> IF lock[v] = t THEN NoTxn ELSE lock[v]]
  /\ snap' = [snap EXCEPT ![t] = {}]
  /\ seenPaid' = [seenPaid EXCEPT ![t] = Nothing]
  /\ seenRefunded' = [seenRefunded EXCEPT ![t] = Nothing]
  /\ share' = [share EXCEPT ![t] = Nothing]
  /\ target' = [target EXCEPT ![t] = NoInvoice]
  /\ line' = [line EXCEPT ![t] = NoLine]
  /\ amount' = [amount EXCEPT ![t] = 0]

RollBack(t) ==
  /\ Finish(t, "failed")
  /\ kind' = [kind EXCEPT ![t] = "void"]
  /\ op' = [op EXCEPT ![t] = NoOp]
  /\ UNCHANGED rows

\* The exceptions thrown before anything is written.
Refuse(t) ==
  /\ \/ pc[t] = "begun" /\ kind[t] \in {"pay", "void"} /\ target[t] \notin Issued
     \/ pc[t] = "locked" /\ ~Returnable(t)
     \/ pc[t] = "read" /\ kind[t] = "pay" /\ ~Payable(t)
     \/ pc[t] = "read" /\ kind[t] = "settle" /\ Shares(t) = {}
  /\ RollBack(t)

\* An error of a later statement, Prisma's timeout, a lost connection, a crash.
Abort(t) == pc[t] \in Open /\ RollBack(t)

\* The UPDATE of invoice v by t does not have to wait.
Unblocked(t, v) == lock[v] \in {NoTxn, t}

\* Fault: payments.operationId without its UNIQUE index.
UniqueOpUnindexed(t) == TRUE

UniqueOp(t) == ~Recorded(op[t])

\* Its insert into payments finds the operationId recorded meanwhile.
RefuseDuplicate(t) == pc[t] = "ready" /\ Recorded(op[t]) /\ RollBack(t)

Updated(t) == {v \in Invoices : share[t][v] > 0}

\* Fault: customers.payment updates the invoice but forgets its payments row.
PaymentRowForgotten(t, v) == IF kind[t] = "pay" THEN share[t][v] ELSE 0

\* The payments row inserted for invoice v.
PaymentRow(t, v) == share[t][v]

\* The net total and the paidAmount, as the payment handlers see them.
NetSeen(t, v) == Total[v] - seenRefunded[t][v]
NextPaid(t, v) == seenPaid[t][v] + share[t][v]

\* pay and customers.payment store the sum they computed, a row per invoice,
\* and for the latter a receipt.
CommitPayment(t) ==
  /\ pc[t] = "ready" /\ kind[t] \in {"pay", "settle"}
  /\ UniqueOp(t)
  /\ \A v \in Updated(t) : Unblocked(t, v)
  /\ paid' = [v \in Invoices |-> IF v \in Updated(t) THEN NextPaid(t, v) ELSE paid[v]]
  /\ paymentStatus' = [v \in Invoices |->
       IF v \notin Updated(t) THEN paymentStatus[v]
       ELSE IF NextPaid(t, v) >= NetSeen(t, v) THEN "paid" ELSE "partial"]
  /\ received' = [v \in Invoices |-> received[v] + PaymentRow(t, v)]
  /\ allocated' = [v \in Invoices |-> allocated[v] + (IF kind[t] = "settle" THEN share[t][v] ELSE 0)]
  /\ receipts' = receipts + (IF kind[t] = "settle" THEN amount[t] ELSE 0)
  /\ Finish(t, "committed")
  /\ UNCHANGED <<status, returned, refunded, kind, op>>

\* Fault: the refund is taken out of paidAmount too.
PaidAfterReturnReduced(t) == seenPaid[t][target[t]] - amount[t] * Price[target[t]][line[t]]

\* A return leaves paidAmount alone: what was paid stays recorded.
PaidAfterReturn(t) == paid[target[t]]

\* Fault: the status is settled against the original total.
StatusAfterReturnGross(t, net) ==
  IF seenPaid[t][target[t]] >= Total[target[t]] THEN "paid"
  ELSE IF seenPaid[t][target[t]] > 0 THEN "partial" ELSE "unpaid"

StatusAfterReturn(t, net) ==
  IF seenPaid[t][target[t]] >= net THEN "paid"
  ELSE IF seenPaid[t][target[t]] > 0 THEN "partial" ELSE "unpaid"

\* The return record with its refund at the recorded price, and the payment
\* status that follows from the new net total.  The units that go back to
\* stock are BeginReturn of StockLedger.
CommitReturn(t) ==
  LET v      == target[t]
      refund == amount[t] * Price[v][line[t]]
  IN
  /\ pc[t] = "ready" /\ kind[t] = "return"
  /\ returned' = [returned EXCEPT ![v][line[t]] = @ + amount[t]]
  /\ refunded' = [refunded EXCEPT ![v] = @ + refund]
  /\ paid' = [paid EXCEPT ![v] = PaidAfterReturn(t)]
  /\ paymentStatus' = [paymentStatus EXCEPT ![v] =
       StatusAfterReturn(t, Total[v] - refunded[v] - refund)]
  /\ Finish(t, "committed")
  /\ UNCHANGED <<status, received, allocated, receipts, kind, op>>

CommitVoid(t) ==
  /\ pc[t] = "ready" /\ kind[t] = "void"
  /\ Unblocked(t, target[t])
  /\ status' = [status EXCEPT ![target[t]] = "voided"]
  /\ Finish(t, "committed")
  /\ UNCHANGED <<paid, paymentStatus, received, allocated, receipts, returned, refunded, kind, op>>

Next ==
  \E t \in Txns :
    \/ BeginPay(t) \/ ReplayPay(t) \/ BeginSettle(t) \/ BeginReturn(t) \/ BeginVoid(t)
    \/ LockInvoice(t) \/ ReadLocked(t) \/ ReadInvoice(t) \/ ReadCustomer(t) \/ ReadRefunds(t)
    \/ Refuse(t) \/ RefuseDuplicate(t) \/ Abort(t)
    \/ CommitPayment(t) \/ CommitReturn(t) \/ CommitVoid(t)

Spec == Init /\ [][Next]_vars

-----------------------------------------------------------------------------
Money == [Invoices -> Nat]

TypeOK ==
  /\ status \in [Invoices -> {"issued", "voided"}]
  /\ paid \in Money
  /\ paymentStatus \in [Invoices -> {"unpaid", "partial", "paid"}]
  /\ received \in Money /\ allocated \in Money /\ receipts \in Nat
  /\ returned \in [Invoices -> [Lines -> Nat]]
  /\ refunded \in Money
  /\ lock \in [Invoices -> Txns \cup {NoTxn}]
  /\ pc \in [Txns -> Open \cup {"idle", "committed", "failed", "replayed"}]
  /\ kind \in [Txns -> Kinds]
  /\ op \in [Txns -> Ops \cup {NoOp}]
  /\ target \in [Txns -> Invoices \cup {NoInvoice}]
  /\ line \in [Txns -> Lines \cup {NoLine}]
  /\ amount \in [Txns -> Nat]
  /\ snap \in [Txns -> SUBSET Invoices]
  /\ seenPaid \in [Txns -> Money]
  /\ seenRefunded \in [Txns -> Money]
  /\ share \in [Txns -> Money]

Net(v) == Total[v] - refunded[v]

\* t commits in this step.
Commits(t) == pc[t] # "committed" /\ pc'[t] = "committed"

\* Overlapping returns never take back more units of a line than were sold.
ReturnsWithinSold == \A v \in Invoices, l \in Lines : returned[v][l] <= Units[v][l]

\* Payments that overlap in any way never record more than the invoice's total.
PaidWithinTotal == \A v \in Invoices : paid[v] <= Total[v]

\* Every amount recorded as paid is backed by payments rows: overlapping
\* payments may lose an update of paidAmount, they never invent money.
PaidBacked == \A v \in Invoices : paid[v] <= received[v]

\* What the customer's receipts say was received is what was allocated to
\* invoices, none of it lost when the debt changes during the request.
ReceiptsAllocated == receipts = SumFunction(allocated)

\* Of the payments that carry one operationId at most one commits.
PaidOncePerOperation ==
  \A t, u \in Txns :
    pc[t] = "committed" /\ pc[u] = "committed" /\ op[t] = op[u] /\ t # u => op[t] = NoOp

\* A return commits only on an invoice that is not voided, also when the void
\* overlaps it.
NoReturnAfterVoid ==
  [][\A t \in Txns : Commits(t) /\ kind[t] = "return" => status[target[t]] = "issued"]_vars

\* paidAmount and the payments rows part only when a payment commits that read
\* paidAmount before another one changed it.
LostOnlyByStaleRead ==
  [][\A v \in Invoices : received'[v] - paid'[v] # received[v] - paid[v] =>
       \E t \in Txns : Commits(t) /\ share[t][v] > 0 /\ seenPaid[t][v] # paid[v]]_vars

\* A payment or return whose reads are still true leaves the status that its
\* paidAmount and net total call for.
FreshCommitSettles ==
  [][\A t \in Txns : \A v \in snap[t] :
       /\ Commits(t) /\ kind[t] # "void"
       /\ paid'[v] # paid[v] \/ refunded'[v] # refunded[v]
       /\ seenPaid[t][v] = paid[v] /\ (kind[t] = "return" \/ seenRefunded[t][v] = refunded[v])
       => paymentStatus'[v] = (IF paid'[v] >= Net(v)' THEN "paid"
                               ELSE IF paid'[v] > 0 THEN "partial" ELSE "unpaid")]_vars

(***************************************************************************)
(* The inductive strengthening of the invariants above.                    *)
(***************************************************************************)
\* An open request about one invoice names it, and only pay carries an operationId.
RequestsAreAbout ==
  \A t \in Txns :
    /\ pc[t] \in Open /\ kind[t] # "settle" => target[t] \in Invoices
    /\ pc[t] \in Open /\ kind[t] = "return" => line[t] \in Lines
    /\ pc[t] = "locked" => kind[t] = "return"
    /\ kind[t] # "pay" => op[t] = NoOp

\* From its first SELECT on a return holds the invoice's row ...
ReturnsHoldLock ==
  \A t \in Txns :
    pc[t] = "locked" \/ (pc[t] = "ready" /\ kind[t] = "return") => lock[target[t]] = t

\* ... so what it has read and checked stays true until it commits.
ReturnsStayValid ==
  \A t \in Txns : pc[t] = "ready" /\ kind[t] = "return" =>
    /\ Returnable(t)
    /\ seenPaid[t][target[t]] = paid[target[t]]

\* What a payment will store is within the total, whatever happened since it
\* read the invoice; before its check it will store nothing.
SharesFit ==
  \A t \in Txns : /\ \A v \in Updated(t) : NextPaid(t, v) <= Total[v]
                  /\ pc[t] # "ready" => Updated(t) = {}

\* Every paidAmount ever read was backed by payments rows, and still is.
SeenBacked == \A t \in Txns, v \in Invoices : seenPaid[t][v] <= received[v]

IInv ==
  /\ TypeOK
  /\ RequestsAreAbout
  /\ ReturnsHoldLock
  /\ ReturnsStayValid
  /\ SharesFit
  /\ SeenBacked
  /\ ReturnsWithinSold
  /\ PaidWithinTotal
  /\ PaidBacked

\* New payments are capped at the net amount after returns.
PaymentCappedAtNet ==
  [][\A t \in Txns : Commits(t) /\ kind[t] = "pay" => paid'[target[t]] <= Net(target[t])]_vars
=============================================================================
