------------------------------- MODULE Purchases -------------------------------
(***************************************************************************)
(* Purchase invoices and what is paid on them: create and pay of           *)
(* PurchaseService, and update and remove of SuppliersService.  The stock  *)
(* that a purchase brings is in StockLedger.                               *)
(*                                                                         *)
(* A transaction reads first; its UPDATE of the invoice locks the row, and *)
(* what follows is invisible until the commit, so UPDATE and commit are    *)
(* one step.                                                               *)
(***************************************************************************)
EXTENDS Integers, FiniteSets

CONSTANTS
  Suppliers,
  Purchases,   \* the ids of purchase invoices
  Requests,    \* the requests
  None,        \* no supplier: the invoice does not exist; no operationId
  MaxAmount    \* bound on the amount of a request

VARIABLES
  supplier,    \* the supplier of each invoice
  total, paid, \* its total and paidAmount
  received,    \* the sum of its supplier_payments
  partner,     \* what has become of each supplier: active, inactive or removed
  ask,         \* what a request asks
  pc,          \* where its handler is
  seen         \* the invoice it has read

rows == <<supplier, total, paid, received, partner>>
vars == <<rows, ask, pc, seen>>

\* Requests may carry one and the same operationId.
Asks ==
  [do : {"create"}, supplier : Suppliers, total : 1..MaxAmount, amount : 0..MaxAmount, operation : BOOLEAN]
    \cup [do : {"pay"}, purchase : Purchases, amount : 1..MaxAmount, operation : BOOLEAN]
    \cup [do : {"partner"}, supplier : Suppliers, to : {"active", "inactive", "removed"}]

Init ==
  /\ supplier = [i \in Purchases |-> None]
  /\ total = [i \in Purchases |-> 0]
  /\ paid = [i \in Purchases |-> 0]
  /\ received = [i \in Purchases |-> 0]
  /\ partner = [s \in Suppliers |-> "active"]
  /\ ask = [r \in Requests |-> None]
  /\ pc = [r \in Requests |-> "idle"]
  /\ seen = [r \in Requests |-> [total |-> 0, paid |-> 0]]

Goto(r, p) == pc' = [pc EXCEPT ![r] = p]

\* A committed request of the same kind bears the operationId.
Recorded(do) ==
  \E r \in Requests : pc[r] = "committed" /\ ask[r].do = do /\ ask[r].operation

-----------------------------------------------------------------------------
\* create: a replay is answered with the earlier invoice; the supplier must be
\* active, and the payment within the total.
BeginCreate(r, a) ==
  /\ pc[r] = "idle" /\ a.do = "create"
  /\ ask' = [ask EXCEPT ![r] = a]
  /\ Goto(r, IF ~(a.operation /\ Recorded("create")) /\ partner[a.supplier] = "active" /\ a.amount <= a.total
             THEN "write" ELSE "answered")
  /\ UNCHANGED <<rows, seen>>

\* calculatePurchaseDebt.
Debt(of) == IF of.total > of.paid THEN of.total - of.paid ELSE 0

\* pay: a replay is answered; the amount must be within the debt as it is read.
BeginPay(r, a) ==
  /\ pc[r] = "idle" /\ a.do = "pay" /\ supplier[a.purchase] # None
  /\ LET invoice == [total |-> total[a.purchase], paid |-> paid[a.purchase]] IN
     /\ seen' = [seen EXCEPT ![r] = invoice]
     /\ Goto(r, IF ~(a.operation /\ Recorded("pay")) /\ a.amount <= Debt(invoice)
                THEN "write" ELSE "answered")
  /\ ask' = [ask EXCEPT ![r] = a]
  /\ UNCHANGED rows

\* The UNIQUE operationId of purchase_invoices and of supplier_payments.
UniqueOp(r) == ~(ask[r].operation /\ Recorded(ask[r].do))

CommitCreate(r, i) ==
  /\ pc[r] = "write" /\ ask[r].do = "create"
  /\ supplier[i] = None /\ UniqueOp(r)
  /\ supplier' = [supplier EXCEPT ![i] = ask[r].supplier]
  /\ total' = [total EXCEPT ![i] = ask[r].total]
  /\ paid' = [paid EXCEPT ![i] = ask[r].amount]
  /\ received' = [received EXCEPT ![i] = ask[r].amount]
  /\ Goto(r, "committed")
  /\ UNCHANGED <<partner, ask, seen>>

\* Fault: the debt is not looked at again.
StillOwedAsRead(r) == TRUE

\* updateMany ... where paidAmount lte total - amount, on the row as it now is.
StillOwed(r) == paid[ask[r].purchase] <= seen[r].total - ask[r].amount

\* The payment, which a request with a cheque commits together with the cheque.
CommitPay(r) ==
  /\ pc[r] = "write" /\ ask[r].do = "pay"
  /\ StillOwed(r) /\ UniqueOp(r)
  /\ paid' = [paid EXCEPT ![ask[r].purchase] = @ + ask[r].amount]
  /\ received' = [received EXCEPT ![ask[r].purchase] = @ + ask[r].amount]
  /\ Goto(r, "committed")
  /\ UNCHANGED <<supplier, total, partner, ask, seen>>

\* The guard, a unique column, a cheque without a due date or of another amount,
\* or a lost connection: nothing is written.
RollBack(r) ==
  /\ pc[r] = "write"
  /\ Goto(r, "answered")
  /\ UNCHANGED <<rows, ask, seen>>

\* update (isActive) and remove of a supplier; a removed one is not found again.
ChangePartner(r, a) ==
  /\ pc[r] = "idle" /\ a.do = "partner"
  /\ partner' = [partner EXCEPT ![a.supplier] = IF @ = "removed" THEN @ ELSE a.to]
  /\ ask' = [ask EXCEPT ![r] = a]
  /\ Goto(r, "answered")
  /\ UNCHANGED <<supplier, total, paid, received, seen>>

Next ==
  \E r \in Requests :
    \/ \E a \in Asks : BeginCreate(r, a) \/ BeginPay(r, a) \/ ChangePartner(r, a)
    \/ \E i \in Purchases : CommitCreate(r, i)
    \/ CommitPay(r) \/ RollBack(r)

Spec == Init /\ [][Next]_vars

-----------------------------------------------------------------------------
TypeOK ==
  /\ supplier \in [Purchases -> Suppliers \cup {None}]
  /\ total \in [Purchases -> Nat] /\ paid \in [Purchases -> Nat] /\ received \in [Purchases -> Nat]
  /\ partner \in [Suppliers -> {"active", "inactive", "removed"}]
  /\ ask \in [Requests -> Asks \cup {None}]
  /\ pc \in [Requests -> {"idle", "write", "committed", "answered"}]
  /\ seen \in [Requests -> [total : Nat, paid : Nat]]

\* However payments overlap and are retried, what an invoice says is paid is
\* what its payments sum up to and never more than its total, and of the requests
\* with one operationId one commits.
SupplierPaidExactly ==
  /\ \A i \in Purchases : paid[i] = received[i] /\ paid[i] <= total[i]
  /\ \A r, o \in Requests :
       pc[r] = "committed" /\ pc[o] = "committed" /\ ask[r].do = ask[o].do
         /\ ask[r].operation /\ ask[o].operation => r = o
=============================================================================
