------------------------------ MODULE Services_proofs ------------------------------
(***************************************************************************)
(* Proofs about purchases, prices and the product archive, each by itself  *)
(* and as a part of MCServices (U, P and A are their modules), and about   *)
(* all of its parts together: for every set of orders, lines, sites, codes *)
(* and requests and any number of faults.                                  *)
(***************************************************************************)
EXTENDS Clients_proofs, Catalogue_proofs, SequenceTheorems

\* What a handler decided before its write, and still relies on in it: a payment
\* is for an invoice that exists, whose total is the one it has read.
WritesAsRead ==
  \A r \in Three : pc[r] = "write" =>
    /\ ask[r] \in U!Asks
    /\ ask[r].do = "create" => ask[r].amount <= ask[r].total
    /\ ask[r].do = "pay" => /\ supplier[ask[r].purchase] # None
                            /\ seen[r].total = total[ask[r].purchase]

PurchasesInv == U!TypeOK /\ WritesAsRead /\ U!SupplierPaidExactly

LEMMA InitPurchasesInv == U!Init => PurchasesInv
BY DEF U!Init, PurchasesInv, U!TypeOK, WritesAsRead, U!SupplierPaidExactly

LEMMA PurchaseAsks ==
  ASSUME NEW a \in U!Asks, a.do = "create"
  PROVE  a.supplier \in Suppliers /\ a.total \in Nat /\ a.amount \in Nat
BY DEF U!Asks

LEMMA PayAsks ==
  ASSUME NEW a \in U!Asks, a.do = "pay"
  PROVE  a.purchase \in Orders /\ a.amount \in Nat
BY DEF U!Asks

\* The unique column: a request that commits is the first of its kind with the
\* operationId.
LEMMA OneCommits ==
  ASSUME PurchasesInv, NEW r \in Three, pc[r] = "write", U!UniqueOp(r),
         U!Goto(r, "committed"), UNCHANGED ask
  PROVE  \A q, o \in Three :
           pc'[q] = "committed" /\ pc'[o] = "committed" /\ ask'[q].do = ask'[o].do
             /\ ask'[q].operation /\ ask'[o].operation => q = o
BY DEF PurchasesInv, U!TypeOK, U!SupplierPaidExactly, U!UniqueOp, U!Recorded, U!Goto

LEMMA BeginPurchaseStep ==
  ASSUME PurchasesInv, NEW r \in Three, NEW a \in U!Asks, U!BeginCreate(r, a)
  PROVE  PurchasesInv'
<1>1. U!TypeOK'
  BY DEF PurchasesInv, U!TypeOK, U!BeginCreate, U!Goto, U!rows
<1>2. WritesAsRead'
  BY DEF PurchasesInv, U!TypeOK, WritesAsRead, U!BeginCreate, U!Goto, U!rows
<1>3. U!SupplierPaidExactly'
  BY DEF PurchasesInv, U!TypeOK, U!SupplierPaidExactly, U!BeginCreate, U!Goto, U!rows
<1> QED BY <1>1, <1>2, <1>3 DEF PurchasesInv

LEMMA BeginPayStep ==
  ASSUME PurchasesInv, NEW r \in Three, NEW a \in U!Asks, U!BeginPay(r, a)
  PROVE  PurchasesInv'
<1>0. a.purchase \in Orders
  BY PayAsks DEF U!BeginPay
<1>1. U!TypeOK'
  BY <1>0 DEF PurchasesInv, U!TypeOK, U!BeginPay, U!Goto, U!rows
<1>2. WritesAsRead'
  BY <1>0 DEF PurchasesInv, U!TypeOK, WritesAsRead, U!BeginPay, U!Goto, U!rows
<1>3. U!SupplierPaidExactly'
  BY DEF PurchasesInv, U!TypeOK, U!SupplierPaidExactly, U!BeginPay, U!Goto, U!rows
<1> QED BY <1>1, <1>2, <1>3 DEF PurchasesInv

LEMMA CommitPurchaseStep ==
  ASSUME PurchasesInv, NEW r \in Three, NEW i \in Orders, U!CommitCreate(r, i)
  PROVE  PurchasesInv'
<1>0. /\ ask[r] \in U!Asks /\ ask[r].amount <= ask[r].total
      /\ ask[r].supplier \in Suppliers /\ ask[r].total \in Nat /\ ask[r].amount \in Nat
  BY PurchaseAsks DEF PurchasesInv, WritesAsRead, U!CommitCreate
<1>1. U!TypeOK'
  BY <1>0 DEF PurchasesInv, U!TypeOK, U!CommitCreate, U!Goto
<1>2. WritesAsRead'
  \* A payment under way is for another invoice: this one did not exist.
  BY <1>0 DEF PurchasesInv, U!TypeOK, WritesAsRead, U!CommitCreate, U!Goto
<1>3. U!SupplierPaidExactly'
  BY <1>0, OneCommits DEF PurchasesInv, U!TypeOK, U!SupplierPaidExactly, U!CommitCreate
<1> QED BY <1>1, <1>2, <1>3 DEF PurchasesInv

\* The guard compares the row as it is with the total as it was read, which is
\* the total as it is.
LEMMA CommitPayStep ==
  ASSUME PurchasesInv, NEW r \in Three, U!CommitPay(r)
  PROVE  PurchasesInv'
<1>0. /\ ask[r].purchase \in Orders /\ ask[r].amount \in Nat
      /\ paid[ask[r].purchase] + ask[r].amount <= total[ask[r].purchase]
  <2>1. ask[r] \in U!Asks /\ seen[r].total = total[ask[r].purchase]
    BY DEF PurchasesInv, WritesAsRead, U!CommitPay
  <2>2. ask[r].purchase \in Orders /\ ask[r].amount \in Nat
    BY <2>1, PayAsks DEF U!CommitPay
  <2> QED BY <2>1, <2>2 DEF PurchasesInv, U!TypeOK, U!CommitPay, U!StillOwed
<1>1. U!TypeOK'
  BY <1>0 DEF PurchasesInv, U!TypeOK, U!CommitPay, U!Goto
<1>2. WritesAsRead'
  BY DEF PurchasesInv, U!TypeOK, WritesAsRead, U!CommitPay, U!Goto
<1>3. U!SupplierPaidExactly'
  BY <1>0, OneCommits DEF PurchasesInv, U!TypeOK, U!SupplierPaidExactly, U!CommitPay
<1> QED BY <1>1, <1>2, <1>3 DEF PurchasesInv

LEMMA OtherPurchaseSteps ==
  ASSUME PurchasesInv, NEW r \in Three, U!RollBack(r) \/ \E a \in U!Asks : U!ChangePartner(r, a)
  PROVE  PurchasesInv'
<1>1. CASE U!RollBack(r)
  BY <1>1 DEF PurchasesInv, U!TypeOK, WritesAsRead, U!SupplierPaidExactly, U!RollBack, U!Goto, U!rows
<1>2. ASSUME NEW a \in U!Asks, U!ChangePartner(r, a) PROVE PurchasesInv'
  <2>1. a.to \in {"active", "inactive", "removed"}
    BY <1>2 DEF U!Asks, U!ChangePartner
  <2>2. U!TypeOK'
    BY <1>2, <2>1 DEF PurchasesInv, U!TypeOK, U!ChangePartner, U!Goto
  <2>3. WritesAsRead' /\ U!SupplierPaidExactly'
    BY <1>2 DEF PurchasesInv, U!TypeOK, WritesAsRead, U!SupplierPaidExactly, U!ChangePartner, U!Goto
  <2> QED BY <2>2, <2>3 DEF PurchasesInv
<1> QED BY <1>1, <1>2

LEMMA PurchasesStep ==
  ASSUME PurchasesInv, [U!Next]_(U!vars)
  PROVE  PurchasesInv'
<1>1. CASE UNCHANGED U!vars
  BY <1>1 DEF U!vars, U!rows, PurchasesInv, U!TypeOK, WritesAsRead, U!SupplierPaidExactly
<1>2. CASE U!Next
  BY <1>2, BeginPurchaseStep, BeginPayStep, CommitPurchaseStep, CommitPayStep, OtherPurchaseSteps DEF U!Next
<1> QED BY <1>1, <1>2

\* A step of the suite is a step of its part, or stutters for it.
LEMMA PurchasesSteps ==
  ASSUME [Next]_vars, part' = "purchases"
  PROVE  part = "purchases" /\ [U!Next]_(U!vars)
<1>1. CASE UNCHANGED vars
  BY <1>1 DEF vars, purchases, U!vars, U!rows
<1>2. CASE Next
  BY <1>2 DEF Next, Stay
<1> QED BY <1>1, <1>2

\* Whatever the requests and the retries, what an invoice says is paid is what its
\* payments sum up to, within its total, and one request commits per operationId.
THEOREM PaymentsAreExact == Spec => []SupplierPaidExactly
<1> DEFINE Inv == part = "purchases" => PurchasesInv
<1>1. Init => Inv
  BY InitPurchasesInv DEF Init, Alone
<1>2. Inv /\ [Next]_vars => Inv'
  BY PurchasesSteps, PurchasesStep
<1>3. Inv => SupplierPaidExactly
  BY DEF PurchasesInv, SupplierPaidExactly
<1> QED BY <1>1, <1>2, <1>3, PTL DEF Spec

\* The same of purchases by themselves, and that every variable keeps its type.
THEOREM PurchasesAlone == U!Spec => []U!TypeOK /\ []U!SupplierPaidExactly
BY InitPurchasesInv, PurchasesStep, PTL DEF U!Spec, PurchasesInv

-----------------------------------------------------------------------------
\* What a handler asks for when it writes, and which line a bulk change has
\* updated without its row.
HandlersKnow ==
  \A r \in Two :
    /\ pc[r] = "write" => ask[r] \in P!Edits
    /\ open[r] # None => pc[r] = "bulk" /\ ask[r].item = open[r] /\ ask[r].price \in Nat

PricesInv == P!TypeOK /\ DOMAIN ask = Two /\ HandlersKnow

\* Each row starts from where the one before ended, and the last ends at Final.
Chained(h) == \A k \in DOMAIN h : h[k].old = IF k - 1 = 0 THEN 0 ELSE h[k - 1].new
Final(h) == IF Len(h) = 0 THEN 0 ELSE h[Len(h)].new

LEMMA TracedIsChained ==
  ASSUME NEW i \in Items
  PROVE  P!Traced(i) <=>
           /\ Chained(history[i])
           /\ IF P!Unrecorded(i) = {} THEN price[i] = Final(history[i])
              ELSE \E r \in Two : P!Unrecorded(i) = {r} /\ price[i] = ask[r].price /\ seen[r][i] = Final(history[i])
BY DEF P!Traced, Chained, Final

\* A row from where the history ends prolongs it.
LEMMA AppendKeepsChain ==
  ASSUME NEW h \in Seq([old : Nat, new : Nat]), Chained(h), NEW new \in Nat
  PROVE  LET g == Append(h, [old |-> Final(h), new |-> new]) IN
         /\ Chained(g) /\ Final(g) = new
<1> DEFINE g == Append(h, [old |-> Final(h), new |-> new])
<1>1. /\ Len(g) = Len(h) + 1 /\ DOMAIN g = 1..(Len(h) + 1) /\ DOMAIN h = 1..Len(h) /\ Len(h) \in Nat
      /\ g[Len(h) + 1] = [old |-> Final(h), new |-> new]
      /\ \A k \in 1..Len(h) : g[k] = h[k]
  OBVIOUS
<1> HIDE DEF g
<1>2. Final(g) = new
  BY <1>1 DEF Final
<1>3. ASSUME NEW k \in DOMAIN g
      PROVE  g[k].old = IF k - 1 = 0 THEN 0 ELSE g[k - 1].new
  <2>1. CASE k \in 1..Len(h)
    <3>1. k - 1 = 0 \/ k - 1 \in 1..Len(h)
      BY <1>1, <2>1
    <3> QED BY <1>1, <2>1, <3>1 DEF Chained
  <2>2. CASE k = Len(h) + 1
    <3>1. Len(h) = 0 \/ Len(h) \in 1..Len(h)
      BY <1>1
    <3>2. k - 1 = Len(h)
      BY <1>1, <2>2
    <3> QED BY <1>1, <2>2, <3>1, <3>2 DEF Final
  <2> QED BY <1>1, <1>3, <2>1, <2>2
<1> QED BY <1>2, <1>3 DEF Chained, g

\* The one row that Record may add.
LEMMA RecordKeepsChain ==
  ASSUME PricesInv, NEW i \in Items, NEW j \in Items, NEW new \in Nat, NEW old \in Nat, P!Record(j, old, new)
  PROVE  /\ history' \in [Items -> Seq([old : Nat, new : Nat])]
         /\ i # j => history'[i] = history[i]
         /\ Chained(history[j]) /\ old = Final(history[j]) => Chained(history'[j]) /\ Final(history'[j]) = new
<1>1. history \in [Items -> Seq([old : Nat, new : Nat])]
  BY DEF PricesInv, P!TypeOK
<1>2. CASE new = old
  BY <1>1, <1>2 DEF P!Record
<1>3. CASE new # old
  <2> DEFINE row == [old |-> old, new |-> new]
  <2>1. history' = [history EXCEPT ![j] = Append(history[j], row)]
    BY <1>3 DEF P!Record
  <2>2. row \in [old : Nat, new : Nat] /\ history[j] \in Seq([old : Nat, new : Nat])
    BY <1>1
  <2>3. Append(history[j], row) \in Seq([old : Nat, new : Nat])
    BY <2>2
  <2>4. history'[j] = Append(history[j], row) /\ \A k \in Items : k # j => history'[k] = history[k]
    BY <1>1, <2>1
  <2>5. history' \in [Items -> Seq([old : Nat, new : Nat])]
    BY <1>1, <2>1, <2>3
  <2>6. ASSUME Chained(history[j]), old = Final(history[j])
        PROVE  Chained(history'[j]) /\ Final(history'[j]) = new
    BY <2>2, <2>4, <2>6, AppendKeepsChain
  <2> QED BY <2>4, <2>5, <2>6
<1> QED BY <1>2, <1>3

LEMMA ShortSequences ==
  ASSUME NEW R, NEW x \in R
  PROVE  <<>> \in Seq(R) /\ <<x>> \in Seq(R)
OBVIOUS

LEMMA InitPricesInv == P!Init => PricesInv
<1> SUFFICES ASSUME P!Init PROVE PricesInv
  OBVIOUS
<1>1. ASSUME NEW i \in Items PROVE history[i] \in Seq([old : Nat, new : Nat])
  <2>1. [old |-> 0, new |-> price[i]] \in [old : Nat, new : Nat]
    BY DEF P!Init
  <2>2. history[i] \in {<<>>, <<[old |-> 0, new |-> price[i]]>>}
    BY DEF P!Init
  <2> QED BY <2>1, <2>2, ShortSequences
<1>2. history \in [Items -> Seq([old : Nat, new : Nat])]
  BY <1>1 DEF P!Init
<1> QED BY <1>2 DEF P!Init, PricesInv, P!TypeOK, HandlersKnow

\* What the steps of a line do to the trace of another, or to none.
LEMMA TraceKept ==
  ASSUME NEW i \in Items, P!Traced(i),
         price'[i] = price[i], history'[i] = history[i], P!Unrecorded(i)' = P!Unrecorded(i),
         \A r \in P!Unrecorded(i) : ask'[r] = ask[r] /\ seen'[r] = seen[r]
  PROVE  P!Traced(i)'
BY DEF P!Traced

LEMMA BeginPriceStep ==
  ASSUME PricesInv, NEW r \in Two, P!BeginBulk(r) \/ \E e \in P!Edits : P!BeginEdit(r, e)
  PROVE  PricesInv' /\ \A i \in Items : P!Traced(i) => P!Traced(i)'
<1>1. CASE P!BeginBulk(r)
  <2>1. P!TypeOK' /\ DOMAIN ask' = Two
    BY <1>1 DEF P!BeginBulk, P!Goto, P!rows, PricesInv, P!TypeOK
  <2>2. HandlersKnow'
    BY <1>1 DEF P!BeginBulk, P!Goto, PricesInv, P!TypeOK, HandlersKnow
  <2>3. ASSUME NEW i \in Items, P!Traced(i) PROVE P!Traced(i)'
    <3>1. open[r] = None
      BY <1>1 DEF P!BeginBulk, PricesInv, HandlersKnow
    <3>2. r \notin P!Unrecorded(i) /\ P!Unrecorded(i)' = P!Unrecorded(i)
      BY <1>1, <3>1, NoneAssumption DEF P!BeginBulk, P!Unrecorded
    <3> QED BY <1>1, <2>3, <3>2, TraceKept DEF P!BeginBulk, P!rows, PricesInv, P!TypeOK, P!Unrecorded
  <2> QED BY <2>1, <2>2, <2>3 DEF PricesInv
<1>2. ASSUME NEW e \in P!Edits, P!BeginEdit(r, e)
      PROVE  PricesInv' /\ \A i \in Items : P!Traced(i) => P!Traced(i)'
  <2>0. e.item \in Items /\ e.price \in Nat \cup {None}
    BY DEF P!Edits
  <2>1. P!TypeOK' /\ DOMAIN ask' = Two
    BY <1>2, <2>0 DEF P!BeginEdit, P!Goto, P!rows, PricesInv, P!TypeOK
  <2>2. HandlersKnow'
    BY <1>2 DEF P!BeginEdit, P!Goto, PricesInv, P!TypeOK, HandlersKnow
  <2>3. ASSUME NEW i \in Items, P!Traced(i) PROVE P!Traced(i)'
    <3>1. open[r] = None
      BY <1>2 DEF P!BeginEdit, PricesInv, HandlersKnow
    <3>2. r \notin P!Unrecorded(i) /\ P!Unrecorded(i)' = P!Unrecorded(i)
      BY <1>2, <3>1, NoneAssumption DEF P!BeginEdit, P!Unrecorded
    <3> QED BY <1>2, <2>3, <3>2, TraceKept DEF P!BeginEdit, P!rows, PricesInv, P!TypeOK, P!Unrecorded
  <2> QED BY <2>1, <2>2, <2>3 DEF PricesInv
<1> QED BY <1>1, <1>2

\* A transaction that writes from the price as it is records from it.
LEMMA CommitEditStep ==
  ASSUME PricesInv, NEW r \in Two, P!CommitEdit(r)
  PROVE  /\ PricesInv'
         /\ \A i \in Items : P!Traced(i) /\ ~P!Traced(i)' =>
              ask[r].item = i /\ (seen[r][i] # price[i] \/ P!Unrecorded(i) # {})
<1>1. PICK j \in Items, new \in Nat :
        j = ask[r].item /\ new = (IF ask[r].price = None THEN seen[r][j] ELSE ask[r].price)
  <2>1. ask[r] \in P!Edits
    BY DEF P!CommitEdit, PricesInv, HandlersKnow
  <2>2. ask[r].item \in Items /\ ask[r].price \in Nat \cup {None}
    BY <2>1 DEF P!Edits
  <2> QED BY <2>2 DEF PricesInv, P!TypeOK
<1>2. /\ price' = IF ask[r].price = None THEN price ELSE [price EXCEPT ![j] = new]
      /\ P!Record(j, seen[r][j], new) /\ pc[r] = "write"
      /\ pc' = [pc EXCEPT ![r] = "done"] /\ UNCHANGED <<ask, seen, left, open, faults>>
      /\ seen[r][j] \in Nat
  BY <1>1 DEF P!CommitEdit, P!Goto, PricesInv, P!TypeOK
<1>3. ask[r].price = None => new = seen[r][j]
  BY <1>1
<1>4. history' \in [Items -> Seq([old : Nat, new : Nat])]
  BY <1>1, <1>2, RecordKeepsChain
<1>5. PricesInv'
  BY <1>1, <1>2, <1>4 DEF PricesInv, P!TypeOK, HandlersKnow
<1>6. ASSUME NEW i \in Items, i # j, P!Traced(i) PROVE P!Traced(i)'
  <2>1. price'[i] = price[i] /\ history'[i] = history[i]
    BY <1>1, <1>2, <1>6, RecordKeepsChain DEF PricesInv, P!TypeOK
  <2> QED BY <1>2, <1>6, <2>1, TraceKept DEF P!Unrecorded
<1>7. ASSUME P!Traced(j), seen[r][j] = price[j], P!Unrecorded(j) = {} PROVE P!Traced(j)'
  <2>1. Chained(history[j]) /\ seen[r][j] = Final(history[j])
    BY <1>1, <1>7, TracedIsChained
  <2>2. Chained(history'[j]) /\ Final(history'[j]) = new
    <3>1. seen[r][j] \in Nat /\ P!Record(j, seen[r][j], new)
      BY <1>2
    <3> QED BY <2>1, <3>1, RecordKeepsChain
  <2>3. P!Unrecorded(j)' = {}
    BY <1>2, <1>7 DEF P!Unrecorded
  <2>4. price'[j] = new
    <3>1. price \in [Items -> Nat]
      BY DEF PricesInv, P!TypeOK
    <3> QED BY <3>1, <1>2, <1>3, <1>7
  <2> QED BY <2>2, <2>3, <2>4 DEF P!Traced, Chained, Final
<1> QED BY <1>1, <1>5, <1>6, <1>7

\* A bulk change that updates the line from the price as it is owes it a row ...
LEMMA UpdateInBulkStep ==
  ASSUME PricesInv, NEW r \in Two, NEW j \in Items, NEW new, P!UpdateInBulk(r, j, new)
  PROVE  /\ PricesInv'
         /\ \A i \in Items : P!Traced(i) /\ ~P!Traced(i)' =>
              i = j /\ (seen[r][i] # price[i] \/ P!Unrecorded(i) # {})
<1>1. /\ pc[r] = "bulk" /\ open[r] = None /\ new \in Nat /\ price' = [price EXCEPT ![j] = new]
      /\ ask' = [ask EXCEPT ![r] = [item |-> j, price |-> new]]
      /\ open' = [open EXCEPT ![r] = j] /\ left' = [left EXCEPT ![r] = @ \ {j}]
      /\ UNCHANGED <<history, pc, seen, faults>>
  BY DEF P!UpdateInBulk, PricesInv, P!TypeOK
<1>2. PricesInv'
  BY <1>1, NoneAssumption DEF PricesInv, P!TypeOK, HandlersKnow
<1>3. ASSUME NEW i \in Items, i # j, P!Traced(i) PROVE P!Traced(i)'
  <2>1. r \notin P!Unrecorded(i) /\ P!Unrecorded(i)' = P!Unrecorded(i)
    BY <1>1, <1>3, NoneAssumption DEF PricesInv, P!TypeOK, P!Unrecorded
  <2> QED BY <1>1, <1>3, <2>1, TraceKept DEF PricesInv, P!TypeOK, P!Unrecorded
<1>4. ASSUME P!Traced(j), seen[r][j] = price[j], P!Unrecorded(j) = {} PROVE P!Traced(j)'
  <2>1. Chained(history[j]) /\ seen[r][j] = Final(history[j])
    BY <1>4, TracedIsChained
  <2>2. P!Unrecorded(j)' = {r}
    BY <1>1, <1>4 DEF PricesInv, P!TypeOK, P!Unrecorded
  <2>3. price'[j] = ask'[r].price /\ seen'[r][j] = Final(history'[j]) /\ Chained(history'[j])
    BY <1>1, <2>1 DEF PricesInv, P!TypeOK
  <2> QED BY <2>2, <2>3 DEF P!Traced, Chained, Final
<1> QED BY <1>2, <1>3, <1>4

\* ... which RecordInBulk pays.
LEMMA RecordInBulkStep ==
  ASSUME PricesInv, NEW r \in Two, P!RecordInBulk(r)
  PROVE  PricesInv' /\ \A i \in Items : P!Traced(i) => P!Traced(i)'
<1>0. PICK j \in Items, new \in Nat : j = open[r] /\ new = ask[r].price
  BY DEF P!RecordInBulk, PricesInv, P!TypeOK, HandlersKnow
<1>1. /\ seen[r][j] \in Nat /\ ask[r].item = j
      /\ P!Record(j, seen[r][j], new)
      /\ open' = [open EXCEPT ![r] = None] /\ UNCHANGED <<price, ask, seen, left, faults>>
      /\ pc' = [pc EXCEPT ![r] = pc'[r]] /\ pc'[r] \in {"done", "bulk"}
  BY <1>0 DEF P!RecordInBulk, P!Goto, PricesInv, P!TypeOK, HandlersKnow
<1>2. history' \in [Items -> Seq([old : Nat, new : Nat])]
  BY <1>1, RecordKeepsChain
<1>3. PricesInv'
  BY <1>1, <1>2 DEF PricesInv, P!TypeOK, HandlersKnow
<1>4. ASSUME NEW i \in Items, i # j, P!Traced(i) PROVE P!Traced(i)'
  <2>1. r \notin P!Unrecorded(i) /\ P!Unrecorded(i)' = P!Unrecorded(i)
    BY <1>0, <1>1, <1>4, NoneAssumption DEF PricesInv, P!TypeOK, P!Unrecorded
  <2>2. history'[i] = history[i]
    BY <1>1, <1>4, RecordKeepsChain
  <2> QED BY <1>1, <1>4, <2>1, <2>2, TraceKept DEF P!Unrecorded
<1>5. ASSUME P!Traced(j) PROVE P!Traced(j)'
  <2>1. r \in P!Unrecorded(j)
    BY <1>0 DEF P!Unrecorded
  <2>2. Chained(history[j]) /\ P!Unrecorded(j) = {r} /\ price[j] = new /\ seen[r][j] = Final(history[j])
    BY <1>0, <1>5, <2>1, TracedIsChained
  <2>3. Chained(history'[j]) /\ Final(history'[j]) = new
    BY <1>1, <2>2, RecordKeepsChain
  <2>4. price'[j] = new /\ P!Unrecorded(j)' = {}
    BY <1>1, <2>2, NoneAssumption DEF PricesInv, P!TypeOK, P!Unrecorded
  <2> QED BY <2>3, <2>4 DEF P!Traced, Chained, Final
<1> QED BY <1>3, <1>4, <1>5

LEMMA AbortStep ==
  ASSUME PricesInv, NEW r \in Two, P!Abort(r)
  PROVE  PricesInv' /\ \A i \in Items : P!Traced(i) /\ ~P!Traced(i)' => r \in P!Unrecorded(i)
<1>1. /\ open' = [open EXCEPT ![r] = None] /\ pc' = [pc EXCEPT ![r] = "done"]
      /\ faults' = faults + 1 /\ UNCHANGED <<price, history, ask, seen, left>>
  BY DEF P!Abort, P!Goto, P!rows
<1>2. PricesInv'
  BY <1>1 DEF PricesInv, P!TypeOK, HandlersKnow
<1>3. ASSUME NEW i \in Items, r \notin P!Unrecorded(i), P!Traced(i) PROVE P!Traced(i)'
  <2>1. P!Unrecorded(i)' = P!Unrecorded(i)
    BY <1>1, <1>3, NoneAssumption DEF PricesInv, P!TypeOK, P!Unrecorded
  <2> QED BY <1>1, <1>3, <2>1, TraceKept
<1> QED BY <1>2, <1>3

LEMMA ImportPriceStep ==
  ASSUME PricesInv, NEW i \in Items, NEW new \in 0..MaxPrice, P!Import(i, new)
  PROVE  PricesInv' /\ faults' # faults /\ UNCHANGED P!handlers
BY DEF P!Import, P!handlers, PricesInv, P!TypeOK, HandlersKnow

LEMMA PricesStep ==
  ASSUME PricesInv, [P!Next]_(P!vars)
  PROVE  PricesInv' /\ [P!UntracedByOverlap]_(P!vars)
<1>1. CASE UNCHANGED P!vars
  BY <1>1 DEF P!vars, P!rows, P!handlers, PricesInv, P!TypeOK, HandlersKnow
<1>2. ASSUME NEW r \in Two, P!BeginBulk(r) \/ P!RecordInBulk(r) \/ \E e \in P!Edits : P!BeginEdit(r, e)
      PROVE  PricesInv' /\ P!UntracedByOverlap
  BY <1>2, BeginPriceStep, RecordInBulkStep DEF P!UntracedByOverlap
<1>3. ASSUME NEW r \in Two, P!CommitEdit(r)
      PROVE  PricesInv' /\ P!UntracedByOverlap
  BY <1>3, CommitEditStep DEF P!UntracedByOverlap, P!Writes
<1>4. ASSUME NEW r \in Two, NEW i \in Items,
             P!UpdateInBulk(r, i, seen[r][i]) \/ P!UpdateInBulk(r, i, seen[r][i] + 1)
      PROVE  PricesInv' /\ P!UntracedByOverlap
  BY <1>4, UpdateInBulkStep DEF P!UntracedByOverlap, P!Writes
<1>5. ASSUME NEW r \in Two, P!Abort(r)
      PROVE  PricesInv' /\ P!UntracedByOverlap
  BY <1>5, AbortStep DEF P!UntracedByOverlap
<1>6. ASSUME NEW i \in Items, NEW new \in 0..MaxPrice, P!Import(i, new)
      PROVE  PricesInv' /\ P!UntracedByOverlap
  BY <1>6, ImportPriceStep DEF P!UntracedByOverlap
<1> QED BY <1>1, <1>2, <1>3, <1>4, <1>5, <1>6 DEF P!Next

LEMMA PricesSteps ==
  ASSUME [Next]_vars, part' = "prices"
  PROVE  part = "prices" /\ [P!Next]_(P!vars)
<1>1. CASE UNCHANGED vars
  BY <1>1 DEF vars, prices, P!vars, P!rows, P!handlers
<1>2. CASE Next
  BY <1>2 DEF Next, Stay
<1> QED BY <1>1, <1>2

\* "One row per actual price change": however edits and bulk changes overlap, the
\* history of a line leads to its price until one of them writes from a price that
\* is no longer the line's, dies between its two statements, or an import writes none.
THEOREM HistoryLeadsToThePrice == Spec => HistoryTells
<1> DEFINE Inv == part = "prices" => PricesInv
<1>1. Init => Inv
  BY InitPricesInv DEF Init, Alone
<1>2. Inv /\ [Next]_vars => Inv' /\ [part = "prices" => P!UntracedByOverlap]_vars
  <2>1. [Next]_vars => part' = part
    BY DEF Next, Stay, vars
  <2>2. UNCHANGED P!vars => P!UntracedByOverlap
    BY DEF P!UntracedByOverlap, P!Traced, P!Unrecorded, P!vars, P!rows, P!handlers
  <2> QED BY <2>1, <2>2, PricesSteps, PricesStep
<1> QED BY <1>1, <1>2, PTL DEF Spec, HistoryTells

\* The same of prices by themselves, and that every variable keeps its type.
THEOREM PricesAlone == P!Spec => []P!TypeOK /\ P!HistoryTells
BY InitPricesInv, PricesStep, PTL DEF P!Spec, PricesInv, P!HistoryTells

-----------------------------------------------------------------------------
SiteRow == [code : Codes, parent : Sites \cup {None}]

\* A tree: parents exist, and no group of places closes upon itself.
Present(t) == {p \in Sites : t[p] # None}
Grown(t) ==
  /\ t \in [Sites -> SiteRow \cup {None}]
  /\ \A p \in Present(t) : t[p].parent \in Present(t) \cup {None}
  /\ \A group \in (SUBSET Present(t)) \ {{}} : \E p \in group : t[p].parent \notin group

\* What PathOf computes on the way.
Walk(g, t, G) ==
  g = [q \in G |-> IF t[q].parent = None THEN <<t[q].code>> ELSE Append(g[t[q].parent], t[q].code)]

\* A group of places that has the parents of its members.
Rooted(t, G) == \A q \in G : t[q].parent \in G \cup {None}

\* What is computed for such a group extends to one more place, below it.
LEMMA WalkOneFurther ==
  ASSUME NEW t, NEW G, NEW g, Rooted(t, G), Walk(g, t, G), NEW p, p \notin G, p # None, t[p].parent \in G \cup {None}
  PROVE  Rooted(t, G \cup {p}) /\ \E h : Walk(h, t, G \cup {p})
<1>0. Rooted(t, G \cup {p})
  BY DEF Rooted
<1> DEFINE h == [q \in G \cup {p} |-> IF t[q].parent = None THEN <<t[q].code>> ELSE Append(g[t[q].parent], t[q].code)]
<1>1. \A q \in G : h[q] = g[q]
  BY DEF Walk
<1>2. h = [q \in G \cup {p} |-> h[q]]
  OBVIOUS
<1>3. \A q \in G \cup {p} :
        h[q] = IF t[q].parent = None THEN <<t[q].code>> ELSE Append(g[t[q].parent], t[q].code)
  OBVIOUS
<1> HIDE DEF h
<1>4. \A q \in G \cup {p} : t[q].parent # None => h[t[q].parent] = g[t[q].parent]
  BY <1>1 DEF Rooted
<1>5. \A q \in G \cup {p} :
        h[q] = IF t[q].parent = None THEN <<t[q].code>> ELSE Append(h[t[q].parent], t[q].code)
  BY <1>3, <1>4
<1>6. h = [q \in G \cup {p} |-> IF t[q].parent = None THEN <<t[q].code>> ELSE Append(h[t[q].parent], t[q].code)]
  BY <1>2, <1>5
<1> QED BY <1>0, <1>6 DEF Walk

LEMMA WalksExist ==
  ASSUME NEW t, Grown(t)
  PROVE  \E g : Walk(g, t, Present(t))
<1> DEFINE All == Present(t)
           Done(G) == Rooted(t, G) /\ \E g : Walk(g, t, G)
           Open == {H \in SUBSET All : Done(All \ H)}
<1>1. IsFiniteSet(All)
  BY SitesAssumption, FS_Subset DEF Present
<1>2. Open # {}
  <2>1. All \ All = {}
    OBVIOUS
  <2>2. Rooted(t, {})
    BY DEF Rooted
  <2>3. \E g : Walk(g, t, {})
    <3>1. Walk([q \in {} |-> q], t, {})
      BY DEF Walk
    <3> QED BY <3>1
  <2>4. All \in Open
    BY <2>1, <2>2, <2>3
  <2> QED BY <2>4
<1>3. PICK H \in Open : \A K \in Open : K \subseteq H => K = H
  <2>1. Open \in SUBSET SUBSET All
    OBVIOUS
  <2> HIDE DEF Open, All
  <2> QED BY <1>1, <1>2, <2>1, SmallestSubset
<1>4. ASSUME H # {} PROVE FALSE
  <2>1. PICK p \in H : t[p].parent \notin H
    BY <1>3, <1>4 DEF Grown
  <2>2. PICK g : Walk(g, t, All \ H) /\ Rooted(t, All \ H)
    BY <1>3
  <2>3. p \in All /\ p # None /\ t[p].parent \in (All \ H) \cup {None}
    BY <1>3, <2>1, SitesAssumption DEF Grown, Present
  <2>4. Done((All \ H) \cup {p})
    BY <2>1, <2>2, <2>3, WalkOneFurther
  <2>5. (All \ H) \cup {p} = All \ (H \ {p}) /\ H \ {p} \in SUBSET All
    BY <1>3, <2>1
  <2>6. H \ {p} \in Open
    BY <2>4, <2>5
  <2> QED BY <1>3, <2>1, <2>6
<1>5. All \ {} = All
  OBVIOUS
<1> QED BY <1>3, <1>4, <1>5

\* PathOf in any tree.
PathIn(t, p) ==
  LET path[q \in Present(t)] == IF t[q].parent = None THEN <<t[q].code>> ELSE Append(path[t[q].parent], t[q].code)
  IN path[p]

LEMMA PathOfIsPathIn ==
  ASSUME NEW p
  PROVE  A!PathOf(p) = PathIn(tree, p) /\ A!PathOf(p)' = PathIn(tree', p)
BY DEF A!PathOf, A!There, PathIn, Present

\* The path of a place: the code is appended to the parent's path.
LEMMA PathSteps ==
  ASSUME NEW t, Grown(t), NEW p \in Present(t)
  PROVE  PathIn(t, p) = IF t[p].parent = None THEN <<t[p].code>> ELSE Append(PathIn(t, t[p].parent), t[p].code)
<1> DEFINE path == CHOOSE g : Walk(g, t, Present(t))
<1>1. \A q : PathIn(t, q) = path[q]
  BY DEF PathIn, Walk
<1>2. Walk(path, t, Present(t))
  BY WalksExist
<1> HIDE DEF path
<1> QED BY <1>1, <1>2 DEF Walk

-----------------------------------------------------------------------------
\* The codes from a root to a place.
Words == Seq(Codes) \ {<<>>}

LEMMA PathLength ==
  ASSUME NEW path \in Words
  PROVE  path \in Seq(Codes) /\ Len(path) \in Nat /\ Len(path) >= 1 /\ (Len(path) # 1 <=> Len(path) > 1)
<1>1. path \in Seq(Codes) /\ path # <<>>
  BY DEF Words
<1>2. Len(path) # 0
  BY <1>1, EmptySeq
<1>3. PICK n \in Nat : n = Len(path) /\ n # 0
  BY <1>1, <1>2
<1>4. n >= 1 /\ (n # 1 <=> n > 1)
  BY <1>3
<1> QED BY <1>1, <1>3, <1>4

\* A path is its front and its last code.
LEMMA FrontAndLast ==
  ASSUME NEW path \in Seq(Codes), Len(path) > 1
  PROVE  /\ A!Front(path) \in Seq(Codes) /\ Len(A!Front(path)) = Len(path) - 1
         /\ A!Last(path) \in Codes /\ path = Append(A!Front(path), A!Last(path))
<1> DEFINE n == Len(path)
<1>1. n \in Nat /\ n > 1 /\ path \in [1..n -> Codes]
  OBVIOUS
<1>2. A!Front(path) = SubSeq(path, 1, n - 1) /\ A!Last(path) = path[n]
  BY DEF A!Front, A!Last
<1>3. /\ SubSeq(path, 1, n - 1) \in Seq(Codes) /\ Len(SubSeq(path, 1, n - 1)) = n - 1
      /\ \A k \in 1..(n - 1) : SubSeq(path, 1, n - 1)[k] = path[k]
  OBVIOUS
<1>4. path = Append(SubSeq(path, 1, n - 1), path[n])
  BY <1>1, <1>3
<1> QED BY <1>1, <1>2, <1>3, <1>4

\* ... and the front of a path with one more code is the path.
LEMMA FrontOfAppend ==
  ASSUME NEW path \in Seq(Codes), NEW c \in Codes
  PROVE  A!Front(Append(path, c)) = path
<1>1. Len(Append(path, c)) = Len(path) + 1 /\ Append(path, c) \in Seq(Codes)
  OBVIOUS
<1>2. A!Front(Append(path, c)) = SubSeq(Append(path, c), 1, Len(path))
  BY <1>1 DEF A!Front
<1>3. SubSeq(Append(path, c), 1, Len(path)) = path
  OBVIOUS
<1> QED BY <1>2, <1>3

\* A place has a path, and so has its parent, the path less the last code.
LEMMA PathsAreWords ==
  ASSUME NEW t, Grown(t), NEW p \in Present(t)
  PROVE  /\ PathIn(t, p) \in Words
         /\ Len(PathIn(t, p)) > 1 => t[p].parent \in Present(t) /\ PathIn(t, t[p].parent) = A!Front(PathIn(t, p))
<1> DEFINE Right(q) == PathIn(t, q) \in Words
           Bad == {q \in Present(t) : ~Right(q)}
<1>1. ASSUME NEW q \in Present(t), t[q].parent # None => Right(t[q].parent)
      PROVE  /\ Right(q)
             /\ Len(PathIn(t, q)) > 1 => t[q].parent \in Present(t) /\ PathIn(t, t[q].parent) = A!Front(PathIn(t, q))
  <2>1. PICK c : c = t[q].code /\ c \in Codes
    BY DEF Grown, Present, SiteRow
  <2>2. CASE t[q].parent = None
    <3>1. PathIn(t, q) = <<c>>
      BY <2>1, <2>2, PathSteps
    <3>2. <<c>> \in Seq(Codes) /\ <<c>> # <<>> /\ Len(<<c>>) = 1
      BY <2>1
    <3> QED BY <3>1, <3>2 DEF Words
  <2>3. CASE t[q].parent # None
    <3>1. PICK path : path = PathIn(t, t[q].parent) /\ path \in Words
      BY <1>1, <2>3
    <3>2. PathIn(t, q) = Append(path, c)
      BY <2>1, <2>3, <3>1, PathSteps
    <3>3. path \in Seq(Codes)
      BY <3>1, PathLength
    <3>4. Append(path, c) \in Seq(Codes) /\ Len(Append(path, c)) = Len(path) + 1 /\ Append(path, c) # <<>>
      BY <2>1, <3>3
    <3>5. A!Front(Append(path, c)) = path
      BY <2>1, <3>3, FrontOfAppend
    <3>6. t[q].parent \in Present(t)
      BY <2>3 DEF Grown
    <3> QED BY <3>1, <3>2, <3>4, <3>5, <3>6 DEF Words
  <2> QED BY <2>2, <2>3
<1> HIDE DEF Right
<1>2. ASSUME Bad # {} PROVE FALSE
  <2>1. Bad \in (SUBSET Present(t)) \ {{}}
    BY <1>2
  <2>2. PICK q \in Bad : t[q].parent \notin Bad
    <3> HIDE DEF Bad
    <3> QED BY <2>1 DEF Grown
  <2>3. q \in Present(t) /\ ~Right(q) /\ t[q].parent \in Present(t) \cup {None}
    BY <2>2 DEF Grown
  <2> QED BY <1>1, <2>2, <2>3
<1>3. t[p].parent \in Present(t) \cup {None}
  BY DEF Grown
<1>4. Right(p) /\ (t[p].parent # None => Right(t[p].parent))
  BY <1>2, <1>3
<1> QED BY <1>1, <1>4 DEF Right

\* The older key of a place is no path.
LEMMA KeysOfPath ==
  ASSUME NEW path \in Seq(Codes), NEW k \in A!Keys(path)
  PROVE  k = path \/ k \notin Seq(Codes)
<1>1. CASE k = <<None>> \o path
  <2>1. k[1] = None /\ Len(k) = Len(path) + 1
    BY <1>1
  <2>2. k \in Seq(Codes) => k[1] \in Codes
    BY <2>1
  <2> QED BY <2>1, <2>2, SitesAssumption
<1>2. CASE k # <<None>> \o path
  BY <1>2 DEF A!Keys
<1> QED BY <1>1, <1>2

LEMMA PathHasKey ==
  ASSUME NEW path
  PROVE  path \in A!Keys(path)
BY DEF A!Keys

Paths(paths) == paths \in SUBSET Words /\ IsFiniteSet(paths)

LEMMA LongestIsLongest ==
  ASSUME NEW paths, Paths(paths), paths # {}
  PROVE  A!Longest(paths) \in paths /\ \A b \in paths : Len(b) <= Len(A!Longest(paths))
<1> DEFINE f == [a \in paths |-> Len(a)]
<1>1. f \in [paths -> Nat] /\ \A a \in paths : f[a] = Len(a)
  BY DEF Paths
<1> HIDE DEF f
<1>2. \E a \in paths : \A b \in paths : f[b] <= f[a]
  BY <1>1, HighestOfFinitelyMany DEF Paths
<1>3. \E a \in paths : \A b \in paths : Len(b) <= Len(a)
  BY <1>1, <1>2
<1> QED BY <1>3 DEF A!Longest

\* What Restored computes on the way.
Bare == [tree |-> tree, id |-> <<>>, room |-> TRUE]
Deepest(s) == A!Longest(s)
Shallow(s) == s \ {Deepest(s)}
Import(path, sofar) == A!Ensure(path, sofar)
Imports(g, paths) ==
  g = [s \in SUBSET paths |-> IF s = {} THEN Bare ELSE Import(Deepest(s), g[Shallow(s)])]

LEMMA RestoredIsImport ==
  ASSUME NEW paths
  PROVE  A!Restored(paths) = (CHOOSE g : Imports(g, paths))[paths]
BY DEF A!Restored, A!MapThenFoldSet, Imports, Bare, Deepest, Shallow, Import

LEMMA ShallowIsSmaller ==
  ASSUME NEW paths, Paths(paths), NEW s \in SUBSET paths, s # {}
  PROVE  Deepest(s) \in s /\ Shallow(s) \in SUBSET s /\ Shallow(s) # s
<1>1. Paths(s)
  BY FS_Subset DEF Paths
<1> QED BY <1>1, LongestIsLongest DEF Deepest, Shallow

LEMMA ImportsAgree ==
  ASSUME NEW paths, Paths(paths), NEW T \in SUBSET paths, NEW g, NEW h, Imports(g, paths), Imports(h, T)
  PROVE  \A s \in SUBSET T : g[s] = h[s]
<1> DEFINE Bad == {s \in SUBSET T : g[s] # h[s]}
<1> SUFFICES ASSUME Bad # {} PROVE FALSE
  OBVIOUS
<1>1. IsFiniteSet(T)
  BY FS_Subset DEF Paths
<1>2. PICK s \in Bad : \A b \in Bad : b \subseteq s => b = s
  <2>1. Bad \in SUBSET SUBSET T
    OBVIOUS
  <2> HIDE DEF Bad
  <2> QED BY <1>1, <2>1, SmallestSubset
<1>3. /\ s \in SUBSET T /\ s \in SUBSET paths /\ g[s] # h[s]
      /\ g[s] = IF s = {} THEN Bare ELSE Import(Deepest(s), g[Shallow(s)])
      /\ h[s] = IF s = {} THEN Bare ELSE Import(Deepest(s), h[Shallow(s)])
  BY <1>2 DEF Imports
<1>4. s # {}
  BY <1>3
<1>5. Shallow(s) \notin Bad /\ Shallow(s) \in SUBSET T
  BY <1>2, <1>3, <1>4, ShallowIsSmaller
<1>6. g[Shallow(s)] = h[Shallow(s)]
  BY <1>5
<1> QED BY <1>3, <1>4, <1>6

LEMMA ImportsExist ==
  ASSUME NEW paths, Paths(paths)
  PROVE  \E g : Imports(g, paths)
<1> DEFINE Bad == {T \in SUBSET paths : ~\E g : Imports(g, T)}
<1> SUFFICES ASSUME Bad # {} PROVE FALSE
  OBVIOUS
<1>1. PICK T \in Bad : \A B \in Bad : B \subseteq T => B = T
  <2>1. Bad \in SUBSET SUBSET paths /\ IsFiniteSet(paths)
    BY DEF Paths
  <2> HIDE DEF Bad
  <2> QED BY <2>1, SmallestSubset
<1>2. T \in SUBSET paths /\ Paths(T) /\ ~\E g : Imports(g, T)
  BY <1>1, FS_Subset DEF Paths
<1> DEFINE G == [t \in SUBSET T |-> CHOOSE g : Imports(g, t)]
           h == [s \in SUBSET T |-> IF s = {} THEN Bare ELSE Import(Deepest(s), G[Shallow(s)][Shallow(s)])]
<1>3. ASSUME NEW t \in SUBSET T, t # T PROVE Imports(G[t], t)
  <2>1. \E g : Imports(g, t)
    BY <1>1, <1>2, <1>3
  <2> QED BY <2>1
<1>4. \A s \in SUBSET T : h[s] = IF s = {} THEN Bare ELSE Import(Deepest(s), G[Shallow(s)][Shallow(s)])
  OBVIOUS
<1>5. h = [s \in SUBSET T |-> h[s]]
  OBVIOUS
<1> HIDE DEF G, h, Bad
<1>6. ASSUME NEW s \in SUBSET T, s # {} PROVE G[Shallow(s)][Shallow(s)] = h[Shallow(s)]
  <2>1. PICK u : u = Shallow(s)
    OBVIOUS
  <2>2. u \in SUBSET T /\ u # T
    BY <1>2, <1>6, <2>1, ShallowIsSmaller
  <2>3. Imports(G[u], u)
    BY <1>3, <2>2
  <2>4. CASE u = {}
    BY <1>4, <2>1, <2>2, <2>3, <2>4 DEF Imports
  <2>5. CASE u # {}
    <3>1. PICK w : w = Shallow(u)
      OBVIOUS
    <3>2. w \in SUBSET u /\ w \in SUBSET T /\ w # T
      BY <1>2, <2>2, <2>5, <3>1, ShallowIsSmaller
    <3>3. Imports(G[w], w)
      BY <1>3, <3>2
    <3>4. Paths(u)
      BY <1>2, <2>2, FS_Subset DEF Paths
    <3>5. \A x \in SUBSET w : G[u][x] = G[w][x]
      <4>1. PICK gu, gw : gu = G[u] /\ gw = G[w]
        OBVIOUS
      <4>2. Imports(gu, u) /\ Imports(gw, w)
        BY <2>3, <3>3, <4>1
      <4>3. \A x \in SUBSET w : gu[x] = gw[x]
        BY <3>2, <3>4, <4>2, ImportsAgree
      <4> QED BY <4>1, <4>3
    <3>6. G[u][u] = Import(Deepest(u), G[u][w])
      BY <2>3, <2>5, <3>1 DEF Imports
    <3>7. h[u] = Import(Deepest(u), G[w][w])
      BY <1>4, <2>2, <2>5, <3>1
    <3> QED BY <2>1, <3>5, <3>6, <3>7
  <2> QED BY <2>4, <2>5
<1>7. \A s \in SUBSET T : h[s] = IF s = {} THEN Bare ELSE Import(Deepest(s), h[Shallow(s)])
  BY <1>4, <1>6
<1>8. h = [s \in SUBSET T |-> IF s = {} THEN Bare ELSE Import(Deepest(s), h[Shallow(s)])]
  BY <1>5, <1>7
<1> QED BY <1>2, <1>8 DEF Imports

LEMMA RestoredImports ==
  ASSUME NEW paths, Paths(paths)
  PROVE  \E g : Imports(g, paths) /\ A!Restored(paths) = g[paths]
BY ImportsExist, RestoredIsImport

\* A path is laid out: its place is there, under its parent's.
Up(x, path) == IF Len(path) = 1 THEN None ELSE x.id[A!Front(path)]
Laid(x, path) ==
  /\ path \in DOMAIN x.id /\ x.id[path] \in Present(x.tree)
  /\ x.tree[x.id[path]].code = A!Last(path) /\ x.tree[x.id[path]].parent = Up(x, path)

\* With each path its parent's.
Down(s) == \A path \in s : Len(path) > 1 => A!Front(path) \in s

\* What an import has done when it has restored the paths of s.
Done(x, s) ==
  /\ Grown(x.tree) /\ Present(tree) \subseteq Present(x.tree)
  /\ \A k \in DOMAIN x.id : x.id[k] \in Present(x.tree)
  /\ \A path \in s : Laid(x, path)

\* A place is added, or one without children is changed, to lie below one that is there.
LEMMA GrowsByOne ==
  ASSUME NEW t, Grown(t), NEW p \in Sites, \A x \in Present(t) : t[x].parent # p,
         NEW c \in Codes, NEW q \in Present(t) \cup {None}, q # p,
         NEW u, u = [x \in Sites |-> u[x]], u[p] = [code |-> c, parent |-> q],
         \A x \in Sites : x # p => u[x] = t[x]
  PROVE  Grown(u) /\ Present(u) = Present(t) \cup {p}
<1>1. t \in [Sites -> SiteRow \cup {None}] /\ p # None
  BY SitesAssumption DEF Grown
<1>2. PICK row \in SiteRow : row = [code |-> c, parent |-> q] /\ row.parent = q /\ row # None
  <2>1. [code |-> c, parent |-> q] \in SiteRow
    BY DEF SiteRow, Present
  <2>2. None \notin SiteRow
    BY NullIsNoRow, Zenon DEF SiteRow
  <2> QED BY <2>1, <2>2
<1>3. u \in [Sites -> SiteRow \cup {None}] /\ u[p] = row /\ \A x \in Sites : x # p => u[x] = t[x]
  BY <1>1, <1>2
<1>4. Present(u) = Present(t) \cup {p} /\ \A x \in Present(t) : x # p => u[x] = t[x]
  BY <1>1, <1>2, <1>3 DEF Present
<1>5. \A x \in Present(u) : u[x].parent \in Present(u) \cup {None}
  BY <1>2, <1>3, <1>4 DEF Grown
<1>6. \A x \in Present(t) : x # p => u[x].parent # p
  BY <1>4
<1>7. ASSUME NEW group \in (SUBSET Present(u)) \ {{}}
      PROVE  \E x \in group : u[x].parent \notin group
  <2>1. CASE group \ {p} = {}
    BY <1>1, <1>2, <1>3, <1>7, <2>1
  <2>2. CASE group \ {p} # {}
    <3>1. PICK x \in group \ {p} : t[x].parent \notin group \ {p}
      BY <1>4, <1>7, <2>2 DEF Grown
    <3> QED BY <1>4, <1>6, <1>7, <3>1
  <2> QED BY <2>1, <2>2
<1> QED BY <1>3, <1>4, <1>5, <1>7 DEF Grown

LEMMA EnsureStep ==
  ASSUME NEW s \in SUBSET Words, Down(s), NEW path \in Words, path \notin s,
         Down(s \cup {path}), NEW x, Done(x, s), Import(path, x).room
  PROVE  Done(Import(path, x), s \cup {path})
<1> DEFINE up   == IF Len(path) = 1 THEN None ELSE x.id[A!Front(path)]
           slot == A!Slot(x.tree, up, A!Last(path))
           new  == {q \in Sites : x.tree[q] = None}
           p    == CHOOSE q \in (IF slot # {} THEN slot ELSE new) : TRUE
           t    == IF slot # {} THEN x.tree ELSE [x.tree EXCEPT ![p] = [code |-> A!Last(path), parent |-> up]]
           id2  == [k \in DOMAIN x.id \cup A!Keys(path) |-> IF k \in A!Keys(path) THEN p ELSE x.id[k]]
           m    == x.room /\ (slot # {} \/ new # {})
           y    == Import(path, x)
<1>0. y = [tree |-> t, id |-> id2, room |-> m]
  BY DEF Import, A!Ensure
<1>1. /\ up = Up(x, path) /\ slot = A!Slot(x.tree, up, A!Last(path)) /\ new = {q \in Sites : x.tree[q] = None}
      /\ slot # {} => p \in slot
      /\ slot = {} /\ new # {} => p \in new
      /\ y = Import(path, x) /\ y.room
  BY DEF Up
<1> HIDE DEF up, slot, new, p, y
<1>a. /\ DOMAIN id2 = DOMAIN x.id \cup A!Keys(path)
      /\ \A k \in DOMAIN id2 : id2[k] = IF k \in A!Keys(path) THEN p ELSE x.id[k]
      /\ slot # {} => t = x.tree
      /\ slot = {} => t = [x.tree EXCEPT ![p] = [code |-> A!Last(path), parent |-> up]]
      /\ m => slot # {} \/ new # {}
  OBVIOUS
<1> HIDE DEF t, id2, m
<1>b. y.tree = t /\ y.id = id2 /\ y.room = m
  BY <1>0
<1>2. /\ slot # {} => y.tree = x.tree
      /\ slot = {} => y.tree = [x.tree EXCEPT ![p] = [code |-> A!Last(path), parent |-> up]]
      /\ DOMAIN y.id = DOMAIN x.id \cup A!Keys(path)
      /\ \A k \in DOMAIN y.id : y.id[k] = IF k \in A!Keys(path) THEN p ELSE x.id[k]
      /\ slot # {} \/ new # {}
  BY <1>1, <1>a, <1>b
<1>3. up \in Present(x.tree) \cup {None} /\ A!Last(path) \in Codes /\ (Len(path) # 1 => A!Front(path) \in s)
  <2>1. CASE Len(path) = 1
    <3>1. path \in Seq(Codes) /\ A!Last(path) = path[1]
      BY <2>1, PathLength DEF A!Last
    <3>2. path[1] \in Codes
      BY <2>1, <3>1
    <3> QED BY <1>1, <2>1, <3>1, <3>2 DEF Up
  <2>2. CASE Len(path) # 1
    <3>1. path \in Seq(Codes) /\ Len(path) > 1
      BY <2>2, PathLength
    <3>2. A!Last(path) \in Codes /\ A!Front(path) \in s /\ A!Front(path) # path
      <4>1. Len(A!Front(path)) = Len(path) - 1 /\ A!Last(path) \in Codes
        BY <3>1, FrontAndLast
      <4>2. A!Front(path) # path
        BY <4>1
      <4> QED BY <3>1, <4>1, <4>2 DEF Down
    <3> QED BY <1>1, <2>2, <3>2 DEF Up, Done, Laid
  <2> QED BY <2>1, <2>2
<1>4. /\ Grown(y.tree) /\ Present(x.tree) \subseteq Present(y.tree) /\ p \in Present(y.tree)
      /\ y.tree[p] = [code |-> A!Last(path), parent |-> up]
      /\ \A q \in Present(x.tree) : y.tree[q] = x.tree[q]
  <2>1. CASE slot # {}
    <3>1. p \in slot /\ y.tree = x.tree
      BY <1>1, <1>2, <2>1
    <3>2. p \in Present(x.tree) /\ x.tree[p].code = A!Last(path) /\ x.tree[p].parent = up
      BY <1>1, <3>1 DEF A!Slot, Present
    <3>3. x.tree[p] \in SiteRow
      BY <3>2 DEF Done, Grown, Present
    <3>4. x.tree[p] = [code |-> A!Last(path), parent |-> up]
      BY <3>2, <3>3 DEF SiteRow
    <3> QED BY <3>1, <3>2, <3>4 DEF Done
  <2>2. CASE slot = {}
    <3>1. p \in new /\ y.tree = [x.tree EXCEPT ![p] = [code |-> A!Last(path), parent |-> up]]
      BY <1>1, <1>2, <2>2
    <3>2. p \in Sites /\ x.tree[p] = None
      BY <1>1, <3>1
    <3>3. Grown(y.tree) /\ Present(y.tree) = Present(x.tree) \cup {p}
          /\ \A q \in Present(x.tree) : y.tree[q] = x.tree[q]
      <4>1. PICK v, u, c : v = x.tree /\ u = y.tree /\ c = A!Last(path)
        OBVIOUS
      <4>2. Grown(v) /\ v[p] = None /\ up \in Present(v) \cup {None} /\ c \in Codes
        BY <1>3, <3>2, <4>1 DEF Done
      <4>3. u = [v EXCEPT ![p] = [code |-> c, parent |-> up]] /\ DOMAIN v = Sites
        BY <3>1, <4>1, <4>2 DEF Grown
      <4>4. u = [q \in Sites |-> u[q]] /\ u[p] = [code |-> c, parent |-> up]
            /\ \A q \in Sites : q # p => u[q] = v[q]
        BY <3>2, <4>3
      <4>5. up # p /\ \A q \in Present(v) : v[q].parent # p
        BY <3>2, <4>1, <4>2, SitesAssumption DEF Grown, Present
      <4>6. Grown(u) /\ Present(u) = Present(v) \cup {p}
        BY <3>2, <4>2, <4>4, <4>5, GrowsByOne
      <4>7. \A q \in Present(v) : u[q] = v[q]
        BY <4>2, <4>4 DEF Present
      <4> QED BY <4>1, <4>6, <4>7
    <3>4. DOMAIN x.tree = Sites
      BY DEF Done, Grown
    <3> QED BY <3>1, <3>2, <3>3, <3>4
  <2> QED BY <2>1, <2>2
<1>5. \A k \in DOMAIN y.id : y.id[k] \in Present(y.tree)
  BY <1>2, <1>4 DEF Done
<1>6. path \in DOMAIN y.id /\ y.id[path] = p
  BY <1>2, PathHasKey
<1>7. \A q \in s : q \in DOMAIN y.id /\ y.id[q] = x.id[q]
  <2>1. \A q \in s : q \in DOMAIN x.id /\ q # path /\ q \in Seq(Codes)
    BY PathLength DEF Done, Laid
  <2>2. \A k \in A!Keys(path) : k = path \/ k \notin Seq(Codes)
    BY PathLength, KeysOfPath
  <2>3. \A q \in s : q \in DOMAIN x.id /\ q \notin A!Keys(path)
    BY <2>1, <2>2
  <2> QED BY <1>2, <2>3
<1>8. Laid(y, path)
  <2>1. Up(y, path) = up
    BY <1>1, <1>3, <1>7 DEF Up
  <2>2. y.tree[p].code = A!Last(path) /\ y.tree[p].parent = up
    BY <1>4
  <2> QED BY <1>4, <1>6, <2>1, <2>2 DEF Laid
<1>9. ASSUME NEW q \in s PROVE Laid(y, q)
  <2>1. Len(q) # 1 => A!Front(q) \in s
    <3>1. Len(q) # 1 => Len(q) > 1
      BY PathLength
    <3> QED BY <3>1 DEF Down
  <2>2. Up(y, q) = Up(x, q)
    BY <1>7, <2>1 DEF Up
  <2>3. Laid(x, q)
    BY DEF Done
  <2> QED BY <1>4, <1>7, <2>2, <2>3 DEF Laid
<1> QED BY <1>1, <1>4, <1>5, <1>8, <1>9 DEF Done

\* Ids enough in the end are ids enough on the way.
LEMMA RoomBefore ==
  ASSUME NEW path, NEW x, Import(path, x).room
  PROVE  x.room
<1> DEFINE up   == IF Len(path) = 1 THEN None ELSE x.id[A!Front(path)]
           slot == A!Slot(x.tree, up, A!Last(path))
           new  == {q \in Sites : x.tree[q] = None}
           p    == CHOOSE q \in (IF slot # {} THEN slot ELSE new) : TRUE
           t    == IF slot # {} THEN x.tree ELSE [x.tree EXCEPT ![p] = [code |-> A!Last(path), parent |-> up]]
           id2  == [k \in DOMAIN x.id \cup A!Keys(path) |-> IF k \in A!Keys(path) THEN p ELSE x.id[k]]
           m    == x.room /\ (slot # {} \/ new # {})
<1>1. Import(path, x) = [tree |-> t, id |-> id2, room |-> m]
  BY DEF Import, A!Ensure
<1>2. m => x.room
  OBVIOUS
<1> HIDE DEF t, id2, m
<1> QED BY <1>1, <1>2

\* So does the import of them all, if there are ids enough for it.
LEMMA ImportIsDone ==
  ASSUME NEW paths, Paths(paths), Down(paths), NEW g, Imports(g, paths), Grown(tree), g[paths].room
  PROVE  Done(g[paths], paths)
<1> DEFINE Bad == {s \in SUBSET paths : Down(s) /\ g[s].room /\ ~Done(g[s], s)}
<1>1. SUFFICES ASSUME Bad # {} PROVE FALSE
  OBVIOUS
<1>2. PICK s \in Bad : \A b \in Bad : b \subseteq s => b = s
  <2>1. Bad \in SUBSET SUBSET paths /\ IsFiniteSet(paths)
    BY DEF Paths
  <2> HIDE DEF Bad
  <2> QED BY <1>1, <2>1, SmallestSubset
<1>3. s \in SUBSET paths /\ Down(s) /\ g[s].room /\ ~Done(g[s], s) /\ paths \in SUBSET Words
  BY <1>2 DEF Paths
<1>4. CASE s = {}
  <2>1. g[s] = Bare
    BY <1>3, <1>4 DEF Imports
  <2>2. Bare.tree = tree /\ Bare.id = <<>> /\ DOMAIN <<>> = {}
    BY DEF Bare
  <2> QED BY <1>3, <1>4, <2>1, <2>2 DEF Done
<1>5. CASE s # {}
  <2>1. PICK d, u : d = Deepest(s) /\ u = Shallow(s)
    OBVIOUS
  <2>2. d \in s /\ u \in SUBSET s /\ u # s /\ u = s \ {d}
    BY <1>3, <1>5, <2>1, ShallowIsSmaller DEF Shallow
  <2>3. g[s] = Import(d, g[u])
    BY <1>3, <1>5, <2>1 DEF Imports
  <2>4. g[u].room
    BY <1>3, <2>3, RoomBefore
  <2>5. Down(u)
    <3>1. Paths(s)
      BY <1>3, FS_Subset DEF Paths
    <3>2. \A q \in s : Len(q) <= Len(d)
      BY <1>5, <2>1, <3>1, LongestIsLongest DEF Deepest
    <3>3. ASSUME NEW q \in u, Len(q) > 1 PROVE A!Front(q) \in u
      <4>1. q \in s /\ q \in Seq(Codes) /\ d \in Seq(Codes)
        BY <1>3, <2>2, PathLength
      <4>2. A!Front(q) \in s
        BY <1>3, <3>3, <4>1 DEF Down
      <4>3. Len(A!Front(q)) = Len(q) - 1 /\ Len(q) \in Nat /\ Len(d) \in Nat /\ Len(q) <= Len(d)
        BY <3>2, <3>3, <4>1, FrontAndLast
      <4>4. Len(A!Front(q)) # Len(d)
        BY <4>3
      <4> QED BY <2>2, <4>2, <4>4
    <3> QED BY <3>3 DEF Down
  <2>6. Done(g[u], u)
    BY <1>2, <1>3, <2>2, <2>4, <2>5
  <2>7. u \in SUBSET Words /\ d \in Words /\ d \notin u /\ u \cup {d} = s
    BY <1>3, <2>2
  <2>8. Done(Import(d, g[u]), s)
    <3>1. PICK x : x = g[u]
      OBVIOUS
    <3>2. Done(x, u) /\ Import(d, x).room
      BY <1>3, <2>3, <2>6, <3>1
    <3>3. Done(Import(d, x), u \cup {d})
      BY <1>3, <2>5, <2>7, <3>2, EnsureStep
    <3> QED BY <2>7, <3>1, <3>3
  <2> QED BY <1>3, <2>3, <2>8
<1> QED BY <1>4, <1>5

\* Every path that is laid out is the path of its place.
LEMMA LaidIsPath ==
  ASSUME NEW paths, paths \in SUBSET Words, Down(paths), NEW x, Done(x, paths), NEW path \in paths
  PROVE  x.id[path] \in Present(x.tree) /\ PathIn(x.tree, x.id[path]) = path
<1> DEFINE t == x.tree
           Right(q) == PathIn(t, x.id[q]) = q
           Bad == {x.id[q] : q \in {r \in paths : ~Right(r)}}
<1>1. \A q \in paths : x.id[q] \in Present(t) /\ t[x.id[q]].code = A!Last(q) /\ t[x.id[q]].parent = Up(x, q)
  BY DEF Done, Laid
<1>2. Grown(t)
  BY DEF Done
<1>3. ASSUME NEW q \in paths, Len(q) > 1 => Right(A!Front(q)) PROVE Right(q)
  <2>1. t[x.id[q]].code = A!Last(q) /\ t[x.id[q]].parent = Up(x, q)
    BY <1>1
  <2>2. q \in Seq(Codes)
    BY PathLength
  <2>3. CASE Len(q) = 1
    <3>1. PathIn(t, x.id[q]) = <<A!Last(q)>>
      BY <1>1, <1>2, <2>1, <2>3, PathSteps DEF Up
    <3>2. q = <<q[1]>> /\ A!Last(q) = q[1]
      BY <2>2, <2>3 DEF A!Last
    <3> QED BY <3>1, <3>2
  <2>4. CASE Len(q) # 1
    <3>1. Len(q) > 1
      BY <2>4, PathLength
    <3>2. A!Front(q) \in paths /\ q = Append(A!Front(q), A!Last(q))
      BY <2>2, <3>1, FrontAndLast DEF Down
    <3>3. Up(x, q) = x.id[A!Front(q)] /\ Up(x, q) # None
      BY <1>1, <2>4, <3>2, SitesAssumption DEF Up, Present
    <3>4. PathIn(t, x.id[q]) = Append(PathIn(t, x.id[A!Front(q)]), A!Last(q))
      BY <1>1, <1>2, <2>1, <3>3, PathSteps
    <3> QED BY <1>3, <3>1, <3>2, <3>4
  <2> QED BY <2>3, <2>4
<1>4. ASSUME Bad # {} PROVE FALSE
  <2>1. Bad \in (SUBSET Present(t)) \ {{}}
    BY <1>1, <1>4
  <2>2. PICK p \in Bad : t[p].parent \notin Bad
    <3> HIDE DEF Bad
    <3> QED BY <1>2, <2>1 DEF Grown
  <2>3. PICK q \in paths : p = x.id[q] /\ ~Right(q)
    BY <2>2
  <2>4. Len(q) > 1 /\ ~Right(A!Front(q))
    BY <1>3, <2>3
  <2>5. A!Front(q) \in paths
    BY <2>4 DEF Down
  <2>6. t[p].parent = x.id[A!Front(q)]
    <3>1. Len(q) # 1
      BY <2>4, PathLength
    <3> QED BY <1>1, <2>3, <3>1 DEF Up
  <2>7. x.id[A!Front(q)] \in Bad
    BY <2>4, <2>5
  <2> QED BY <2>2, <2>6, <2>7
<1>5. Right(path)
  BY <1>4
<1> QED BY <1>1, <1>5

-----------------------------------------------------------------------------
LineRow == [of : Products, at : Sites \cup {None}]

\* The catalogue: lines lie at places that are there.
Stored ==
  /\ Grown(tree)
  /\ line \in [Lines -> LineRow \cup {None}]
  /\ \A l \in Lines : line[l] # None => line[l].at \in Present(tree) \cup {None}
  /\ image \in [Products -> SUBSET Pictures] /\ disk \subseteq Pictures

\* What the archive holds: of lines, and of places each with its parent.
Known(places) ==
  \A l \in DOMAIN archive.lines : archive.lines[l].place # None => archive.lines[l].place.at \in places
Filled ==
  /\ archive = [places |-> archive.places, lines |-> archive.lines,
                images |-> archive.images, files |-> archive.files]
  /\ archive.files \subseteq Pictures
  /\ "lines" \notin export => /\ archive.images \in [Products -> SUBSET Pictures]
                              /\ DOMAIN archive.lines \subseteq Lines
  /\ "places" \notin export =>
       /\ DOMAIN archive.places \subseteq Sites
       /\ \A p \in DOMAIN archive.places :
            /\ archive.places[p] \in Words
            /\ Len(archive.places[p]) > 1 =>
                 \E q \in DOMAIN archive.places : archive.places[q] = A!Front(archive.places[p])

\* Unless the tree was changed meanwhile, the places of the lines are among those
\* read, before or after.
KnownPlaces ==
  ~overtaken =>
    /\ export = {} => Known(DOMAIN archive.places)
    /\ export = {"places"} => Known(Present(tree))
    /\ export = {"lines"} => Present(tree) \subseteq DOMAIN archive.places

Imported ==
  pc = "products" /\ ~overtaken =>
    \A p \in DOMAIN archive.places :
      archive.places[p] \in DOMAIN id /\ PathIn(tree, id[archive.places[p]]) = archive.places[p]

ArchiveInv ==
  /\ Stored /\ Filled /\ KnownPlaces /\ Imported
  /\ export \subseteq {"lines", "places"} /\ pc \in {"idle", "packed", "products"}
  /\ left \subseteq Products /\ noted \subseteq Products \cup Lines \cup Pictures
  /\ overtaken \in BOOLEAN /\ faults \in Nat
  /\ pc # "idle" => export = {}
  /\ pc # "products" => id = <<>>
  /\ \A k \in DOMAIN id : id[k] \in Present(tree)

LEMMA ThereIsPresent == A!There = Present(tree) /\ A!There' = Present(tree')
BY DEF A!There, Present

LEMMA InitArchiveInv == A!Init => ArchiveInv
<1> SUFFICES ASSUME A!Init PROVE ArchiveInv
  OBVIOUS
<1>1. Grown(tree)
  BY ThereIsPresent DEF A!Init, Grown, SiteRow
<1>2. Stored
  <2>1. \A l \in Lines : line[l] \in LineRow /\ line[l].at \in Present(tree) \cup {None}
    BY ThereIsPresent DEF A!Init, LineRow, Present
  <2> QED BY <1>1, <2>1 DEF A!Init, Stored
<1>3. Filled
  BY DEF A!Init, A!Empty, Filled
<1>4. /\ export = {"lines", "places"} /\ pc = "idle" /\ id = <<>>
      /\ left = Products /\ noted = {} /\ overtaken = FALSE /\ faults = 0
  BY Zenon DEF A!Init
<1>5. KnownPlaces /\ Imported
  BY <1>4 DEF KnownPlaces, Imported
<1>6. overtaken \in BOOLEAN
  BY <1>4, Zenon
<1>7. id = <<>> => DOMAIN id = {}
  OBVIOUS
<1> QED BY <1>2, <1>3, <1>4, <1>5, <1>6, <1>7 DEF ArchiveInv

LEMMA ReadLinesStep ==
  ASSUME ArchiveInv, A!ReadLines
  PROVE  ArchiveInv'
<1> DEFINE read == [l \in {k \in Lines : line[k] # None} |-> A!Described(l)]
<1>1. /\ "lines" \in export /\ export' = export \ {"lines"}
      /\ archive' = [archive EXCEPT !.lines = read, !.images = image]
      /\ UNCHANGED <<tree, line, image, disk, pc, id, left, noted, overtaken, faults>>
  BY DEF A!ReadLines, A!catalogue, A!importer
<1>2. /\ DOMAIN read \subseteq Lines
      /\ \A l \in DOMAIN read : read[l].place # None => read[l].place.at \in Present(tree)
  <2>1. \A l \in DOMAIN read : l \in Lines /\ line[l] # None /\ read[l] = A!Described(l)
    OBVIOUS
  <2> HIDE DEF read
  <2>2. \A l : A!Described(l).place # None => line[l].at # None /\ A!Described(l).place.at = line[l].at
    BY DEF A!Described, A!Placed
  <2> QED BY <2>1, <2>2 DEF ArchiveInv, Stored
<1> HIDE DEF read
<1>3. /\ archive' = [places |-> archive.places, lines |-> read, images |-> image, files |-> archive.files]
      /\ archive'.places = archive.places /\ archive'.lines = read
      /\ archive'.images = image /\ archive'.files = archive.files
  BY <1>1 DEF ArchiveInv, Filled
<1>4. Stored' /\ pc' = "idle"
  BY <1>1 DEF ArchiveInv, Stored
<1>5. Filled'
  BY <1>1, <1>2, <1>3 DEF ArchiveInv, Filled, Stored
<1>6. KnownPlaces'
  BY <1>1, <1>2, <1>3 DEF ArchiveInv, KnownPlaces, Known
<1> QED BY <1>1, <1>4, <1>5, <1>6 DEF ArchiveInv, Imported

LEMMA ReadPlacesStep ==
  ASSUME ArchiveInv, A!ReadPlaces
  PROVE  ArchiveInv'
<1> DEFINE read == [p \in A!There |-> A!PathOf(p)]
<1>1. /\ "places" \in export /\ export' = export \ {"places"}
      /\ archive' = [archive EXCEPT !.places = read]
      /\ UNCHANGED <<tree, line, image, disk, pc, id, left, noted, overtaken, faults>>
  BY DEF A!ReadPlaces, A!catalogue, A!importer
<1>2. DOMAIN read = Present(tree) /\ \A p \in Present(tree) : read[p] = PathIn(tree, p)
  BY ThereIsPresent, PathOfIsPathIn
<1> HIDE DEF read
<1>3. /\ archive' = [places |-> read, lines |-> archive.lines, images |-> archive.images, files |-> archive.files]
      /\ archive'.places = read /\ archive'.lines = archive.lines
      /\ archive'.images = archive.images /\ archive'.files = archive.files
  BY <1>1 DEF ArchiveInv, Filled
<1>4. Stored' /\ pc' = "idle"
  BY <1>1 DEF ArchiveInv, Stored
<1>5. \A p \in Present(tree) :
        read[p] \in Words /\ (Len(read[p]) > 1 => \E q \in Present(tree) : read[q] = A!Front(read[p]))
  BY <1>2, PathsAreWords DEF ArchiveInv, Stored
<1>6. Present(tree) \subseteq Sites
  BY DEF Present
<1>7. Filled'
  BY <1>1, <1>2, <1>3, <1>5, <1>6 DEF ArchiveInv, Filled
<1>8. KnownPlaces'
  BY <1>1, <1>2, <1>3 DEF ArchiveInv, KnownPlaces, Known
<1> QED BY <1>1, <1>4, <1>7, <1>8 DEF ArchiveInv, Imported

LEMMA PackStep ==
  ASSUME ArchiveInv, A!Pack
  PROVE  ArchiveInv'
<1> DEFINE packed == disk \cap UNION {archive.images[p] : p \in Products}
<1>1. /\ export = {} /\ pc = "idle" /\ pc' = "packed"
      /\ archive' = [archive EXCEPT !.files = packed]
      /\ UNCHANGED <<tree, line, image, disk, export, id, left, noted, overtaken, faults>>
  BY DEF A!Pack, A!catalogue
<1>2. packed \subseteq disk
  OBVIOUS
<1> HIDE DEF packed
<1>3. /\ archive' = [places |-> archive.places, lines |-> archive.lines, images |-> archive.images, files |-> packed]
      /\ archive'.places = archive.places /\ archive'.lines = archive.lines
      /\ archive'.images = archive.images /\ archive'.files = packed
  BY <1>1 DEF ArchiveInv, Filled
<1>4. Stored'
  BY <1>1 DEF ArchiveInv, Stored
<1>5. Filled'
  BY <1>1, <1>2, <1>3 DEF ArchiveInv, Filled, Stored
<1>6. KnownPlaces'
  BY <1>1, <1>3 DEF ArchiveInv, KnownPlaces, Known
<1> QED BY <1>1, <1>4, <1>5, <1>6 DEF ArchiveInv, Imported

\* The import lays out every archived path, for the paths of parents are archived too.
LEMMA RestoreReferencesStep ==
  ASSUME ArchiveInv, A!RestoreReferences
  PROVE  ArchiveInv'
<1> DEFINE paths == {archive.places[p] : p \in DOMAIN archive.places}
<1>1. /\ pc = "packed" /\ pc' = "products" /\ export = {}
      /\ A!Restored(paths).room /\ tree' = A!Restored(paths).tree /\ id' = A!Restored(paths).id
      /\ UNCHANGED <<line, image, disk, archive, export, left, noted, overtaken, faults>>
  BY DEF A!RestoreReferences, ArchiveInv
<1>2. Paths(paths) /\ Down(paths)
  <2>1. paths \in SUBSET Words
    BY <1>1 DEF ArchiveInv, Filled
  <2>2. IsFiniteSet(DOMAIN archive.places)
    BY <1>1, SitesAssumption, FS_Subset DEF ArchiveInv, Filled
  <2>3. IsFiniteSet(paths)
    BY <2>2, FinitelyManyValues
  <2>4. Down(paths)
    BY <1>1 DEF ArchiveInv, Filled, Down
  <2> QED BY <2>1, <2>3, <2>4 DEF Paths
<1>3. \A p \in DOMAIN archive.places : archive.places[p] \in paths
  OBVIOUS
<1> HIDE DEF paths
<1>4. PICK g : Imports(g, paths) /\ A!Restored(paths) = g[paths]
  BY <1>2, RestoredImports
<1>5. PICK x : x = g[paths] /\ x.room /\ tree' = x.tree /\ id' = x.id
  BY <1>1, <1>4
<1>6. Done(x, paths)
  BY <1>2, <1>4, <1>5, ImportIsDone DEF ArchiveInv, Stored
<1>7. \A path \in paths : path \in DOMAIN x.id /\ PathIn(x.tree, x.id[path]) = path
  <2>1. \A path \in paths : PathIn(x.tree, x.id[path]) = path
    BY <1>2, <1>6, LaidIsPath DEF Paths
  <2> QED BY <1>6, <2>1 DEF Done, Laid
<1>8. Stored'
  BY <1>1, <1>5, <1>6 DEF ArchiveInv, Stored, Done
<1>9. Imported'
  BY <1>1, <1>3, <1>5, <1>7 DEF Imported
<1>10. KnownPlaces' /\ Filled'
  BY <1>1 DEF ArchiveInv, KnownPlaces, Known, Filled
<1>11. \A k \in DOMAIN id' : id'[k] \in Present(tree')
  BY <1>5, <1>6 DEF Done
<1> QED BY <1>1, <1>8, <1>9, <1>10, <1>11 DEF ArchiveInv

LEMMA KeyIsPlace ==
  ASSUME ArchiveInv, NEW place
  PROVE  A!Key(place) \in Present(tree) \cup {None}
BY DEF A!Key, ArchiveInv

\* What the restoration of one product writes and what it notes.
RestoresOne(p, written, unbranded) ==
  LET kept == A!Taken(p) \ unbranded IN
  /\ disk' = disk \cup written
  /\ line' = [l \in Lines |->
       IF l \notin kept THEN line[l]
       ELSE [of |-> p, at |-> LET place == archive.lines[l].place IN
                              IF place = None THEN None ELSE A!Key(place)]]
  /\ noted' = noted \cup (A!FilesOf(p) \ written) \cup (A!LinesIn(p) \ kept)

LEMMA RestoreProductStep ==
  ASSUME ArchiveInv, NEW p \in Products, A!RestoreProduct(p)
  PROVE  ArchiveInv'
<1>1. /\ pc = "products" /\ export = {} /\ left' = left \ {p}
      /\ image' = [image EXCEPT ![p] = archive.images[p]]
      /\ UNCHANGED <<tree, archive, export, pc, id, overtaken, faults>>
  BY DEF A!RestoreProduct, ArchiveInv
<1>2. PICK written \in SUBSET A!FilesOf(p), unbranded \in SUBSET A!LinesIn(p) :
        RestoresOne(p, written, unbranded)
  BY DEF A!RestoreProduct, RestoresOne
<1>3. /\ line' = [l \in Lines |-> line'[l]]
      /\ \A l \in Lines : line'[l] = line[l]
           \/ \E q \in Present(tree) \cup {None} : line'[l] = [of |-> p, at |-> q]
  <2> DEFINE at(l) == LET place == archive.lines[l].place IN IF place = None THEN None ELSE A!Key(place)
             kept == A!Taken(p) \ unbranded
  <2>1. line' = [l \in Lines |-> IF l \notin kept THEN line[l] ELSE [of |-> p, at |-> at(l)]]
    BY <1>2 DEF RestoresOne
  <2>2. \A l : at(l) \in Present(tree) \cup {None}
    BY KeyIsPlace
  <2> HIDE DEF at, kept
  <2> QED BY <2>1, <2>2
<1>4. /\ A!FilesOf(p) \subseteq Pictures /\ A!LinesIn(p) \subseteq Lines
      /\ archive.images[p] \subseteq Pictures
  BY <1>1 DEF A!FilesOf, A!LinesIn, ArchiveInv, Filled
<1>5. Stored'
  <2>1. \A q \in Present(tree) \cup {None} : [of |-> p, at |-> q] \in LineRow
    BY DEF LineRow, Present
  <2>2. \A l \in Lines : line'[l] \in LineRow \cup {None}
    BY <1>3, <2>1 DEF ArchiveInv, Stored
  <2>3. \A l \in Lines : line'[l] # None => line'[l].at \in Present(tree) \cup {None}
    BY <1>3 DEF ArchiveInv, Stored
  <2>4. line' \in [Lines -> LineRow \cup {None}]
    BY <1>3, <2>2
  <2>5. disk' \subseteq Pictures
    BY <1>2, <1>4 DEF RestoresOne, ArchiveInv, Stored
  <2> QED BY <1>1, <1>4, <2>3, <2>4, <2>5 DEF ArchiveInv, Stored
<1>6. Filled' /\ KnownPlaces' /\ Imported'
  BY <1>1 DEF ArchiveInv, Filled, KnownPlaces, Known, Imported
<1>7. noted' \subseteq Products \cup Lines \cup Pictures
  BY <1>2, <1>4 DEF RestoresOne, ArchiveInv
<1> QED BY <1>1, <1>5, <1>6, <1>7 DEF ArchiveInv

LEMMA SkipProductStep ==
  ASSUME ArchiveInv, NEW p \in Products, A!SkipProduct(p)
  PROVE  ArchiveInv'
<1>1. PICK written \in SUBSET A!FilesOf(p) :
        /\ left' = left \ {p} /\ export = {}
        /\ disk' = disk \cup written /\ noted' = noted \cup {p}
        /\ UNCHANGED <<tree, line, image, archive, export, pc, id, overtaken, faults>>
  BY DEF A!SkipProduct, ArchiveInv
<1>2. Stored'
  <2>1. A!FilesOf(p) \subseteq Pictures
    BY DEF A!FilesOf, ArchiveInv, Filled
  <2> QED BY <1>1, <2>1 DEF ArchiveInv, Stored
<1>3. Filled' /\ KnownPlaces' /\ Imported'
  BY <1>1 DEF ArchiveInv, Filled, KnownPlaces, Known, Imported
<1> QED BY <1>1, <1>2, <1>3 DEF ArchiveInv

\* A change while the archive is read, or once it is restored, overtakes it.
LEMMA ChangeTreeStep ==
  ASSUME ArchiveInv, NEW p \in Sites, NEW c \in Codes, NEW q \in Sites \cup {None}, A!ChangeTree(p, c, q)
  PROVE  ArchiveInv'
<1>1. /\ tree' = [tree EXCEPT ![p] = [code |-> c, parent |-> q]] /\ q # p
      /\ q \in Present(tree) \cup {None} /\ faults' = faults + 1
      /\ \A x \in Present(tree) : tree[x].parent # p
      /\ overtaken' = (overtaken \/ export = {"lines"} \/ export = {"places"} \/ pc = "products")
      /\ UNCHANGED <<line, image, disk, archive, export, pc, id, left, noted>>
  BY ThereIsPresent DEF A!ChangeTree, A!Fault, A!Children, A!importer
<1>2. DOMAIN tree = Sites /\ Grown(tree)
  BY DEF ArchiveInv, Stored, Grown
<1>3. Grown(tree') /\ Present(tree') = Present(tree) \cup {p}
  <2>1. PICK u : u = tree'
    OBVIOUS
  <2>2. /\ u = [x \in Sites |-> u[x]] /\ u[p] = [code |-> c, parent |-> q]
        /\ \A x \in Sites : x # p => u[x] = tree[x]
    BY <1>1, <1>2, <2>1
  <2>3. Grown(u) /\ Present(u) = Present(tree) \cup {p}
    BY <1>1, <1>2, <2>2, GrowsByOne
  <2> QED BY <2>1, <2>3
<1>4. Stored'
  BY <1>1, <1>3 DEF ArchiveInv, Stored
<1>5. Filled'
  BY <1>1 DEF ArchiveInv, Filled
<1>6. KnownPlaces' /\ Imported'
  BY <1>1 DEF ArchiveInv, KnownPlaces, Known, Imported
<1>7. overtaken' \in BOOLEAN
  BY <1>1, Zenon
<1>8. \A k \in DOMAIN id' : id'[k] \in Present(tree')
  BY <1>1, <1>3 DEF ArchiveInv
<1>9. faults' \in Nat /\ UNCHANGED <<export, pc, id, left, noted>>
  BY <1>1 DEF ArchiveInv
<1> QED BY <1>4, <1>5, <1>6, <1>7, <1>8, <1>9 DEF ArchiveInv

LEMMA ChangeLineStep ==
  ASSUME ArchiveInv, NEW l \in Lines, NEW p \in Products, NEW q \in Sites \cup {None}, A!ChangeLine(l, p, q)
  PROVE  ArchiveInv'
<1>1. /\ q \in Present(tree) \cup {None} /\ faults' = faults + 1
      /\ line' = [line EXCEPT ![l] = [of |-> p, at |-> q]]
      /\ UNCHANGED <<tree, image, disk, archive, export, pc, id, left, noted, overtaken>>
  BY ThereIsPresent DEF A!ChangeLine, A!Fault, A!importer
<1>2. Stored'
  <2>1. [of |-> p, at |-> q] \in LineRow
    BY DEF LineRow
  <2>2. line' \in [Lines -> LineRow \cup {None}]
    BY <1>1, <2>1 DEF ArchiveInv, Stored
  <2>3. \A k \in Lines : line'[k] # None => line'[k].at \in Present(tree) \cup {None}
    BY <1>1 DEF ArchiveInv, Stored
  <2> QED BY <1>1, <2>2, <2>3 DEF ArchiveInv, Stored
<1>3. Filled' /\ KnownPlaces' /\ Imported'
  BY <1>1 DEF ArchiveInv, Filled, KnownPlaces, Known, Imported
<1> QED BY <1>1, <1>2, <1>3 DEF ArchiveInv

LEMMA LoseServerStep ==
  ASSUME ArchiveInv, A!LoseServer
  PROVE  ArchiveInv'
<1>1. /\ pc = "packed" /\ export = {} /\ id = <<>> /\ faults' = faults + 1
      /\ tree' = [p \in Sites |-> None] /\ line' = [l \in Lines |-> None]
      /\ image' = [p \in Products |-> {}] /\ disk' = {}
      /\ UNCHANGED <<archive, export, pc, id, left, noted, overtaken>>
  BY DEF A!LoseServer, A!Fault, A!importer, ArchiveInv
<1>2. Present(tree') = {}
  BY <1>1 DEF Present
<1>3. Grown(tree')
  BY <1>1, <1>2 DEF Grown
<1>4. Stored'
  BY <1>1, <1>3 DEF Stored
<1>5. Filled' /\ KnownPlaces' /\ Imported'
  BY <1>1 DEF ArchiveInv, Filled, KnownPlaces, Known, Imported
<1>6. DOMAIN id' = {}
  BY <1>1
<1> QED BY <1>1, <1>4, <1>5, <1>6 DEF ArchiveInv

LEMMA ArchiveStep ==
  ASSUME ArchiveInv, [A!Next]_(A!vars)
  PROVE  ArchiveInv'
<1>1. CASE UNCHANGED A!vars
  BY <1>1 DEF A!vars, A!catalogue, A!importer, ArchiveInv, Stored, Filled, KnownPlaces, Known, Imported
<1> QED BY <1>1, ReadLinesStep, ReadPlacesStep, PackStep, RestoreReferencesStep, RestoreProductStep,
           SkipProductStep, ChangeTreeStep, ChangeLineStep, LoseServerStep DEF A!Next

\* What is not noted is restored, and a restored line finds its place by path.
LEMMA RestoreStep ==
  ASSUME ArchiveInv
  PROVE  A!RestoresExactly
<1> SUFFICES ASSUME NEW p \in Products, A!RestoreProduct(p), ~overtaken
             PROVE  /\ image'[p] = archive.images[p] /\ A!FilesOf(p) \ noted' \subseteq disk'
                    /\ \A l \in A!LinesIn(p) \ noted' :
                         line'[l].of = p /\ A!AsArchived(archive.lines[l].place, line'[l].at)
  BY DEF A!RestoresExactly
<1>1. pc = "products" /\ export = {} /\ image'[p] = archive.images[p]
  BY DEF A!RestoreProduct, ArchiveInv, Stored
<1>2. PICK written \in SUBSET A!FilesOf(p), unbranded \in SUBSET A!LinesIn(p) :
        RestoresOne(p, written, unbranded)
  BY DEF A!RestoreProduct, RestoresOne
<1>3. A!FilesOf(p) \ noted' \subseteq disk'
  BY <1>2 DEF RestoresOne
<1>4. ASSUME NEW l \in A!LinesIn(p) \ noted'
      PROVE  line'[l].of = p /\ A!AsArchived(archive.lines[l].place, line'[l].at)
  <2>1. l \in DOMAIN archive.lines /\ l \in Lines
    BY <1>1 DEF A!LinesIn, ArchiveInv, Filled
  <2> DEFINE place == archive.lines[l].place
             at == IF place = None THEN None ELSE A!Key(place)
  <2>2. line'[l] = [of |-> p, at |-> at]
    <3>1. l \in A!Taken(p) \ unbranded
      BY <1>2, <1>4 DEF RestoresOne
    <3> QED BY <1>2, <2>1, <3>1 DEF RestoresOne
  <2>3. line'[l].at = at /\ line'[l].of = p
    BY <2>2
  <2>4. CASE place = None
    BY <2>3, <2>4 DEF A!AsArchived
  <2>5. CASE place # None
    <3>1. place.at \in DOMAIN archive.places
      BY <1>1, <2>1, <2>5 DEF ArchiveInv, KnownPlaces, Known
    <3>2. PICK path : path = archive.places[place.at] /\ path \in DOMAIN id /\ PathIn(tree, id[path]) = path
      BY <1>1, <3>1 DEF ArchiveInv, Imported
    <3>3. at = id[path]
      BY <2>5, <3>1, <3>2 DEF A!Key
    <3>4. id[path] # None
      BY <3>2, SitesAssumption DEF ArchiveInv, Present
    <3>5. A!PathOf(at) = path
      BY <3>2, <3>3, PathOfIsPathIn
    <3> QED BY <2>3, <2>5, <3>2, <3>3, <3>4, <3>5 DEF A!AsArchived
  <2> QED BY <2>3, <2>4, <2>5
<1> QED BY <1>1, <1>3, <1>4

LEMMA ArchiveTyped == ArchiveInv => A!TypeOK
BY ThereIsPresent DEF ArchiveInv, Stored, Filled, Grown, SiteRow, LineRow, A!TypeOK

LEMMA ArchiveSteps ==
  ASSUME [Next]_vars, part' = "archive"
  PROVE  part = "archive" /\ [A!Next]_(A!vars)
<1>1. CASE UNCHANGED vars
  BY <1>1 DEF vars, archives, A!vars, A!catalogue, A!importer
<1>2. CASE Next
  BY <1>2 DEF Next, Stay
<1> QED BY <1>1, <1>2

\* "A restore brings the catalog back exactly as it was": a product whose restoration
\* commits has its archived images, and, but for what the summary notes, their files
\* and its lines, which lie under the path of codes they lay under, whatever else is
\* in the tree, unless this was changed during the export or the import.
THEOREM RestoresAsArchived == Spec => RestoredAsArchived
<1> DEFINE Inv == part = "archive" => ArchiveInv
<1>1. Init => Inv
  BY InitArchiveInv DEF Init, Alone
<1>2. Inv /\ [Next]_vars => Inv' /\ [part = "archive" => A!RestoresExactly]_vars
  <2>1. [Next]_vars => part' = part
    BY DEF Next, Stay, vars
  <2> QED BY <2>1, ArchiveSteps, ArchiveStep, RestoreStep
<1> QED BY <1>1, <1>2, PTL DEF Spec, RestoredAsArchived

\* The same of the archive by itself, and that every variable keeps its type.
THEOREM ArchiveAlone == A!Spec => []A!TypeOK /\ A!RestoredAsArchived
BY InitArchiveInv, ArchiveStep, ArchiveTyped, RestoreStep, PTL DEF A!Spec, A!RestoredAsArchived

-----------------------------------------------------------------------------
\* What each part knows of itself.
ServicesInv ==
  /\ part \in {"feed", "warehouse", "catalogue", "archive", "purchases", "prices", "session"}
  /\ part = "feed" => FeedInv /\ OrderInv
  /\ part = "warehouse" => WarehouseInv
  /\ part = "catalogue" => CatalogueInv
  /\ part = "archive" => ArchiveInv
  /\ part = "purchases" => PurchasesInv
  /\ part = "prices" => PricesInv
  /\ part = "session" => SessionInv

LEMMA InitServicesInv == Init => ServicesInv
BY InitFeedInv, InitOrderInv, InitWarehouseInv, InitCatalogueInv, InitArchiveInv, InitPurchasesInv,
   InitPricesInv, InitSessionInv DEF Init, Alone, ServicesInv

LEMMA ServicesStep ==
  ASSUME ServicesInv, [Next]_vars
  PROVE  ServicesInv'
<1>1. part' = part
  BY PartsAreKept
<1>2. (part = "feed" => FeedInv /\ OrderInv)'
  BY <1>1, FeedSteps, FeedStep, OrderStep DEF ServicesInv, OrderInv
<1>3. (part = "warehouse" => WarehouseInv)' /\ (part = "catalogue" => CatalogueInv)'
  BY <1>1, WarehouseSteps, WarehouseStep, CatalogueSteps, CatalogueStep DEF ServicesInv
<1>4. (part = "archive" => ArchiveInv)' /\ (part = "purchases" => PurchasesInv)'
  BY <1>1, ArchiveSteps, ArchiveStep, PurchasesSteps, PurchasesStep DEF ServicesInv
<1>5. (part = "prices" => PricesInv)' /\ (part = "session" => SessionInv)'
  BY <1>1, PricesSteps, PricesStep, SessionSteps, SessionStep DEF ServicesInv
<1> QED BY <1>1, <1>2, <1>3, <1>4, <1>5 DEF ServicesInv

LEMMA FeedIsTyped == FeedInv /\ OrderInv => F!TypeOK
BY DEF OrderInv, FeedTyped, PublishersTyped, DevicesTyped, F!TypeOK

\* Type correctness of the suite: of whichever part runs, every variable keeps its type.
THEOREM TypesAreKept == Spec => []TypeOK
<1>1. ServicesInv => TypeOK
  <2>1. WarehouseInv => W!TypeOK
    BY WarehouseTyped
  <2>2. CatalogueInv => C!TypeOK
    BY DEF CatalogueInv, CatalogueTyped
  <2>3. (PurchasesInv => U!TypeOK) /\ (PricesInv => P!TypeOK) /\ (SessionInv => S!TypeOK)
    BY DEF PurchasesInv, PricesInv, SessionInv
  <2> QED BY <2>1, <2>2, <2>3, FeedIsTyped, ArchiveTyped DEF ServicesInv, TypeOK
<1> QED BY <1>1, InitServicesInv, ServicesStep, PTL DEF Spec
=============================================================================
