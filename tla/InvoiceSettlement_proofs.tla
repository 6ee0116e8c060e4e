----------------------- MODULE InvoiceSettlement_proofs -----------------------
(***************************************************************************)
(* Proofs about InvoiceSettlement for every set of invoices, lines and     *)
(* requests, every price, discount and amount.  IInv is inductive; the     *)
(* safety and the action properties follow from it.                        *)
(***************************************************************************)
EXTENDS InvoiceSettlement, FiniteLemmas, TLAPS

USE ConstantsAssumption

\* Whatever its kind, a request that arrives names what its handler needs.
LEMMA BeginsTyped ==
  ASSUME NEW t \in Txns,
         BeginPay(t) \/ BeginSettle(t) \/ BeginReturn(t) \/ BeginVoid(t)
  PROVE  \E k \in Kinds, v \in Invoices \cup {NoInvoice}, l \in Lines \cup {NoLine},
            n \in Nat, o \in Ops \cup {NoOp} :
           /\ Begin(t, k, v, l, n, o)
           /\ k # "settle" => v \in Invoices
           /\ k = "return" => l \in Lines
           /\ k # "pay" => o = NoOp
<1>1. CASE BeginPay(t)
  <2>1. PICK v \in Invoices, n \in 1..MaxAmount, o \in Ops \cup {NoOp} :
          Begin(t, "pay", v, NoLine, n, o)
    BY <1>1 DEF BeginPay
  <2>2. n \in Nat
    OBVIOUS
  <2> QED BY <2>1, <2>2 DEF Kinds
<1>2. CASE BeginSettle(t)
  <2>1. PICK v \in Invoices \cup {NoInvoice}, n \in 1..MaxAmount :
          Begin(t, "settle", v, NoLine, n, NoOp)
    BY <1>2 DEF BeginSettle
  <2>2. n \in Nat
    OBVIOUS
  <2> QED BY <2>1, <2>2 DEF Kinds
<1>3. CASE BeginReturn(t)
  <2>1. PICK v \in Invoices, l \in Lines : \E n \in 1..(Units[v][l] + 1) :
          Begin(t, "return", v, l, n, NoOp)
    BY <1>3 DEF BeginReturn
  <2>2. PICK n \in 1..(Units[v][l] + 1) : Begin(t, "return", v, l, n, NoOp)
    BY <2>1
  <2>3. n \in Nat
    OBVIOUS
  <2> QED BY <2>2, <2>3 DEF Kinds
<1>4. CASE BeginVoid(t)
  <2>1. PICK v \in Invoices : Begin(t, "void", v, NoLine, 0, NoOp)
    BY <1>4 DEF BeginVoid
  <2> QED BY <2>1 DEF Kinds
<1> QED BY <1>1, <1>2, <1>3, <1>4

-----------------------------------------------------------------------------
\* Nothing is paid and nothing returned on a newly issued invoice.
LEMMA InitIInv == Init => IInv
<1> SUFFICES ASSUME Init PROVE IInv
  OBVIOUS
<1>1. TypeOK
  BY DEF Init, TypeOK, Money, Nothing, Open, Kinds
<1>2. RequestsAreAbout /\ ReturnsHoldLock /\ ReturnsStayValid
  BY DEF Init, RequestsAreAbout, ReturnsHoldLock, ReturnsStayValid, Open
<1>3. SharesFit /\ SeenBacked
  BY DEF Init, SharesFit, Updated, SeenBacked, Nothing
<1>4. ReturnsWithinSold /\ PaidWithinTotal /\ PaidBacked
  BY DEF Init, ReturnsWithinSold, PaidWithinTotal, PaidBacked, Nothing
<1> QED BY <1>1, <1>2, <1>3, <1>4 DEF IInv

\* The parts of IInv that speak only of the rows and of what was read last as
\* long as these stay as they are.
LEMMA RowsKept ==
  ASSUME IInv, UNCHANGED rows
  PROVE  ReturnsWithinSold' /\ PaidWithinTotal' /\ PaidBacked'
BY DEF IInv, ReturnsWithinSold, PaidWithinTotal, PaidBacked, rows

LEMMA LocalKept ==
  ASSUME IInv, UNCHANGED <<rows, local>>, \A t \in Txns : pc[t] = "ready" => pc'[t] = "ready"
  PROVE  SharesFit' /\ SeenBacked'
BY DEF IInv, SharesFit, Updated, NextPaid, SeenBacked, rows, local

\* A request that arrives reads and writes nothing.
LEMMA BeginStep ==
  ASSUME IInv, NEW t \in Txns,
         BeginPay(t) \/ BeginSettle(t) \/ BeginReturn(t) \/ BeginVoid(t)
  PROVE  IInv'
<1>1. PICK k \in Kinds, v \in Invoices \cup {NoInvoice}, l \in Lines \cup {NoLine},
           n \in Nat, o \in Ops \cup {NoOp} :
        /\ Begin(t, k, v, l, n, o)
        /\ k # "settle" => v \in Invoices
        /\ k = "return" => l \in Lines
        /\ k # "pay" => o = NoOp
  BY BeginsTyped
<1>2. UNCHANGED <<rows, lock, local>> /\ \A u \in Txns : pc[u] = "ready" => pc'[u] = "ready"
  BY <1>1 DEF Begin, IInv, TypeOK
<1>3. TypeOK'
  BY <1>1, <1>2 DEF IInv, TypeOK, Begin, rows, local, Open
<1>4. RequestsAreAbout'
  BY <1>1 DEF IInv, TypeOK, RequestsAreAbout, Begin, Open
<1>5. ReturnsHoldLock' /\ ReturnsStayValid'
  BY <1>1, <1>2 DEF IInv, TypeOK, ReturnsHoldLock, ReturnsStayValid, Returnable, Issued, Begin,
     rows, local
<1> QED BY <1>2, <1>3, <1>4, <1>5, RowsKept, LocalKept DEF IInv

LEMMA ReplayStep ==
  ASSUME IInv, NEW t \in Txns, ReplayPay(t)
  PROVE  IInv'
<1>1. /\ UNCHANGED <<rows, lock, input, local>>
      /\ pc[t] = "idle" /\ pc' = [pc EXCEPT ![t] = "replayed"]
  BY DEF ReplayPay
<1>2. TypeOK' /\ RequestsAreAbout'
  BY <1>1 DEF IInv, TypeOK, RequestsAreAbout, rows, input, local, Open
<1>3. ReturnsHoldLock' /\ ReturnsStayValid'
  BY <1>1 DEF IInv, TypeOK, ReturnsHoldLock, ReturnsStayValid, Returnable, Issued,
     rows, input, local
<1>4. \A u \in Txns : pc[u] = "ready" => pc'[u] = "ready"
  BY <1>1 DEF IInv, TypeOK
<1> QED BY <1>1, <1>2, <1>3, <1>4, RowsKept, LocalKept DEF IInv

\* A return that takes the lock takes it from nobody.
LEMMA LockStep ==
  ASSUME IInv, NEW t \in Txns, LockInvoice(t)
  PROVE  IInv'
<1>1. /\ UNCHANGED <<rows, input, local>>
      /\ pc[t] = "begun" /\ kind[t] = "return" /\ lock[target[t]] = NoTxn
      /\ lock' = [lock EXCEPT ![target[t]] = t]
      /\ pc' = [pc EXCEPT ![t] = "locked"]
  BY DEF LockInvoice
<1>2. target[t] \in Invoices /\ line[t] \in Lines
  BY <1>1 DEF IInv, RequestsAreAbout, Open
<1>3. TypeOK' /\ RequestsAreAbout'
  BY <1>1, <1>2 DEF IInv, TypeOK, RequestsAreAbout, rows, input, local, Open
<1>4. ReturnsHoldLock'
  BY <1>1, <1>2 DEF IInv, TypeOK, ReturnsHoldLock, input
<1>5. ReturnsStayValid'
  BY <1>1 DEF IInv, TypeOK, ReturnsStayValid, Returnable, Issued, rows, input, local
<1>6. \A u \in Txns : pc[u] = "ready" => pc'[u] = "ready"
  BY <1>1 DEF IInv, TypeOK
<1> QED BY <1>1, <1>3, <1>4, <1>5, <1>6, RowsKept, LocalKept DEF IInv

\* What a handler reads now is backed now.
LEMMA ReadStep ==
  ASSUME IInv, NEW t \in Txns, ReadLocked(t) \/ ReadInvoice(t) \/ ReadCustomer(t)
  PROVE  IInv'
<1>1. PICK S \in SUBSET Invoices, p \in {"ready", "read"} :
        /\ Reads(t, S, p)
        /\ pc[t] \in Open
        /\ p = "ready" /\ kind[t] = "return" => pc[t] = "locked" /\ Returnable(t) /\ S = {target[t]}
  BY DEF IInv, RequestsAreAbout, ReadLocked, ReadInvoice, ReadCustomer, Issued, Open
<1>2. /\ UNCHANGED <<rows, lock, input, seenRefunded, share>>
      /\ snap' = [snap EXCEPT ![t] = S]
      /\ seenPaid' = [seenPaid EXCEPT ![t] = [v \in Invoices |-> IF v \in S THEN paid[v] ELSE 0]]
      /\ pc' = [pc EXCEPT ![t] = p]
  BY <1>1 DEF Reads
<1>3. TypeOK'
  BY <1>2 DEF IInv, TypeOK, Money, rows, input, Open
<1>4. RequestsAreAbout'
  BY <1>1, <1>2 DEF IInv, TypeOK, RequestsAreAbout, input, Open
<1>5. ReturnsHoldLock'
  BY <1>1, <1>2 DEF IInv, TypeOK, ReturnsHoldLock, input
<1>6. ReturnsStayValid'
  <2>1. \A u \in Txns : Returnable(u)' <=> Returnable(u)
    BY <1>2 DEF Returnable, Issued, rows, input
  <2>2. kind[t] = "return" => target[t] \in Invoices
    BY <1>1 DEF IInv, RequestsAreAbout
  <2> QED BY <1>1, <1>2, <2>1, <2>2 DEF IInv, TypeOK, ReturnsStayValid, rows, input
<1>7. SharesFit'
  <2>1. pc[t] # "ready"
    BY DEF ReadLocked, ReadInvoice, ReadCustomer
  <2>2. Updated(t) = {} /\ \A u \in Txns : Updated(u)' = Updated(u)
    BY <1>2, <2>1 DEF IInv, SharesFit, Updated
  <2>3. \A u \in Txns \ {t} : seenPaid'[u] = seenPaid[u] /\ pc'[u] = pc[u]
    BY <1>2 DEF IInv, TypeOK
  <2> QED BY <1>2, <2>2, <2>3 DEF IInv, TypeOK, SharesFit, NextPaid
<1>8. SeenBacked'
  BY <1>2 DEF IInv, TypeOK, Money, SeenBacked, PaidBacked, rows
<1> QED BY <1>2, <1>3, <1>4, <1>5, <1>6, <1>7, <1>8, RowsKept DEF IInv

\* A payment that passes its check, or its allocation, fits what was left of
\* each invoice when it was read, refunds or not.
LEMMA ReadRefundsStep ==
  ASSUME IInv, NEW t \in Txns, ReadRefunds(t)
  PROVE  IInv'
<1>1. PICK a \in Money :
        /\ share' = [share EXCEPT ![t] = a]
        /\ \A v \in Invoices : a[v] > 0 => a[v] <= Owed(t, v)
  <2>1. CASE kind[t] = "pay"
    <3>1. /\ target[t] \in Invoices /\ amount[t] \in Nat /\ amount[t] <= Owed(t, target[t])
          /\ share' = [share EXCEPT ![t] = [Nothing EXCEPT ![target[t]] = amount[t]]]
      BY <2>1 DEF ReadRefunds, Payable, IInv, RequestsAreAbout, TypeOK, Open
    <3> DEFINE a == [Nothing EXCEPT ![target[t]] = amount[t]]
    <3>2. a \in Money
      BY <3>1 DEF Money, Nothing
    <3>3. \A v \in Invoices : a[v] > 0 => v = target[t] /\ a[v] = amount[t]
      BY <3>1 DEF Nothing
    <3> HIDE DEF a
    <3>4. \A v \in Invoices : a[v] > 0 => a[v] <= Owed(t, v)
      BY <3>1, <3>3
    <3>5. share' = [share EXCEPT ![t] = a]
      BY <3>1 DEF a
    <3> QED BY <3>2, <3>4, <3>5
  <2>2. CASE kind[t] # "pay"
    <3>1. PICK a \in Shares(t) : share' = [share EXCEPT ![t] = a]
      BY <2>2 DEF ReadRefunds
    <3>2. a \in [Invoices -> 0..amount[t]] /\ OldestFirst(t, a)
      BY <3>1 DEF Shares, Allocates
    <3>3. a \in Money
      BY <3>2 DEF Money, IInv, TypeOK
    <3>4. \A v \in Invoices : a[v] > 0 => a[v] <= Owed(t, v)
      <4> SUFFICES ASSUME NEW v \in Invoices, a[v] > 0 PROVE a[v] <= Owed(t, v)
        OBVIOUS
      <4>1. a[v] <= (IF v \in Eligible(t) THEN Room(t, v) ELSE 0)
        BY <3>2 DEF OldestFirst
      <4>2. a[v] \in Nat /\ Owed(t, v) \in Int
        BY <3>3 DEF Money, Owed, IInv, TypeOK
      <4>3. a[v] <= Room(t, v)
        BY <4>1, <4>2
      <4> QED BY <4>2, <4>3 DEF Room
    <3> QED BY <3>1, <3>3, <3>4
  <2> QED BY <2>1, <2>2
<1>2. /\ UNCHANGED <<rows, lock, input, snap, seenPaid>>
      /\ pc[t] = "read" /\ kind[t] # "return"
      /\ pc' = [pc EXCEPT ![t] = "ready"]
      /\ seenRefunded' = [seenRefunded EXCEPT ![t] =
                             [v \in Invoices |-> IF v \in snap[t] THEN refunded[v] ELSE 0]]
  BY DEF ReadRefunds
<1>3. TypeOK'
  BY <1>1, <1>2 DEF IInv, TypeOK, Money, rows, input, Open
<1>4. RequestsAreAbout' /\ ReturnsHoldLock'
  BY <1>2 DEF IInv, TypeOK, RequestsAreAbout, ReturnsHoldLock, input, Open
<1>5. ReturnsStayValid'
  <2>1. \A u \in Txns : Returnable(u)' <=> Returnable(u)
    BY <1>2 DEF Returnable, Issued, rows, input
  <2> QED BY <1>2, <2>1 DEF IInv, TypeOK, ReturnsStayValid, rows, input
<1>6. SharesFit'
  <2>1. \A v \in Invoices : a[v] > 0 => seenPaid[t][v] + a[v] <= Total[v]
    <3> SUFFICES ASSUME NEW v \in Invoices, a[v] > 0 PROVE seenPaid[t][v] + a[v] <= Total[v]
      OBVIOUS
    <3>1. a[v] <= Total[v] - refunded[v] - seenPaid[t][v]
      BY <1>1 DEF Owed
    <3>2. a[v] \in Nat /\ refunded[v] \in Nat /\ seenPaid[t][v] \in Nat
      BY DEF Money, IInv, TypeOK
    <3> QED BY <3>1, <3>2
  <2>2. \A u \in Txns : share'[u] = IF u = t THEN a ELSE share[u]
    BY <1>1 DEF IInv, TypeOK
  <2>3. \A v \in Updated(t)' : NextPaid(t, v)' <= Total[v]
    BY <1>2, <2>1, <2>2 DEF Updated, NextPaid
  <2>4. \A u \in Txns \ {t} : /\ Updated(u)' = Updated(u) /\ pc'[u] = pc[u]
                              /\ \A v \in Invoices : NextPaid(u, v)' = NextPaid(u, v)
    BY <1>2, <2>2 DEF Updated, NextPaid, IInv, TypeOK
  <2>5. \A u \in Txns : Updated(u) \subseteq Invoices
    BY DEF Updated
  <2>6. pc'[t] = "ready"
    BY <1>2 DEF IInv, TypeOK
  <2> QED BY <2>3, <2>4, <2>5, <2>6 DEF IInv, SharesFit
<1>7. SeenBacked'
  BY <1>2 DEF IInv, SeenBacked, rows
<1> QED BY <1>2, <1>3, <1>4, <1>5, <1>6, <1>7, RowsKept DEF IInv

\* A transaction that ends forgets what it read and frees its locks; the other
\* requests keep theirs.
LEMMA FinishStep ==
  ASSUME IInv, NEW t \in Txns, NEW o \in {"committed", "failed"}, Finish(t, o)
  PROVE  /\ pc' = [pc EXCEPT ![t] = o]
         /\ lock' \in [Invoices -> Txns \cup {NoTxn}]
         /\ target' \in [Txns -> Invoices \cup {NoInvoice}]
         /\ line' \in [Txns -> Lines \cup {NoLine}]
         /\ amount' \in [Txns -> Nat]
         /\ snap' \in [Txns -> SUBSET Invoices]
         /\ seenPaid' \in [Txns -> Money]
         /\ seenRefunded' \in [Txns -> Money]
         /\ share' \in [Txns -> Money]
         /\ \A v \in Invoices : seenPaid'[t][v] = 0 /\ share'[t][v] = 0
         /\ \A u \in Txns \ {t} :
              /\ pc'[u] = pc[u] /\ target'[u] = target[u] /\ line'[u] = line[u]
              /\ amount'[u] = amount[u] /\ snap'[u] = snap[u]
              /\ seenPaid'[u] = seenPaid[u] /\ share'[u] = share[u]
              /\ \A v \in Invoices : lock[v] = u => lock'[v] = u
<1>1. Nothing \in Money /\ \A v \in Invoices : Nothing[v] = 0
  BY DEF Nothing, Money
<1>2. /\ pc' = [pc EXCEPT ![t] = o]
      /\ lock' = [v \in Invoices |-> IF lock[v] = t THEN NoTxn ELSE lock[v]]
      /\ target' = [target EXCEPT ![t] = NoInvoice]
      /\ line' = [line EXCEPT ![t] = NoLine]
      /\ amount' = [amount EXCEPT ![t] = 0]
      /\ snap' = [snap EXCEPT ![t] = {}]
      /\ seenPaid' = [seenPaid EXCEPT ![t] = Nothing]
      /\ seenRefunded' = [seenRefunded EXCEPT ![t] = Nothing]
      /\ share' = [share EXCEPT ![t] = Nothing]
  BY DEF Finish
<1>3. /\ lock' \in [Invoices -> Txns \cup {NoTxn}]
      /\ target' \in [Txns -> Invoices \cup {NoInvoice}]
      /\ line' \in [Txns -> Lines \cup {NoLine}]
      /\ amount' \in [Txns -> Nat]
      /\ snap' \in [Txns -> SUBSET Invoices]
  BY <1>2 DEF IInv, TypeOK
<1>4. /\ seenPaid' \in [Txns -> Money]
      /\ seenRefunded' \in [Txns -> Money]
      /\ share' \in [Txns -> Money]
      /\ seenPaid'[t] = Nothing /\ share'[t] = Nothing
  BY <1>1, <1>2 DEF IInv, TypeOK
<1>5. \A u \in Txns \ {t} :
        /\ pc'[u] = pc[u] /\ target'[u] = target[u] /\ line'[u] = line[u]
        /\ amount'[u] = amount[u] /\ snap'[u] = snap[u]
        /\ seenPaid'[u] = seenPaid[u] /\ share'[u] = share[u]
  BY <1>2 DEF IInv, TypeOK
<1>6. \A u \in Txns \ {t}, v \in Invoices : lock[v] = u => lock'[v] = u
  BY <1>2
<1> QED BY <1>1, <1>2, <1>3, <1>4, <1>5, <1>6

\* A transaction that ends leaves the others as they were.
LEMMA OthersKept ==
  ASSUME IInv, NEW t \in Txns, NEW o \in {"committed", "failed"}, Finish(t, o),
         \/ kind' = kind /\ op' = op
         \/ kind' = [kind EXCEPT ![t] = "void"] /\ op' = [op EXCEPT ![t] = NoOp]
  PROVE  RequestsAreAbout' /\ ReturnsHoldLock' /\ SharesFit'
<1>1. RequestsAreAbout'
  <2>1. \A u \in Txns \ {t} : kind'[u] = kind[u] /\ op'[u] = op[u]
    BY DEF IInv, TypeOK
  <2>2. pc'[t] = o /\ (kind'[t] # "pay" => op'[t] = NoOp)
    BY FinishStep DEF IInv, TypeOK, RequestsAreAbout
  <2>3. \A u \in Txns \ {t} : pc'[u] = pc[u] /\ target'[u] = target[u] /\ line'[u] = line[u]
    BY FinishStep
  <2>4. o \notin Open /\ o # "locked"
    BY DEF Open
  <2> QED BY <2>1, <2>2, <2>3, <2>4 DEF IInv, RequestsAreAbout
<1>2. ReturnsHoldLock'
  <2> SUFFICES ASSUME NEW u \in Txns, pc'[u] = "locked" \/ (pc'[u] = "ready" /\ kind'[u] = "return")
               PROVE  lock'[target'[u]] = u
    BY DEF ReturnsHoldLock
  <2>1. u # t
    BY FinishStep DEF IInv, TypeOK
  <2>2. pc[u] = pc'[u] /\ kind[u] = kind'[u] /\ target[u] = target'[u]
    BY <2>1, FinishStep DEF IInv, TypeOK
  <2>3. target[u] \in Invoices
    BY <2>2 DEF IInv, RequestsAreAbout, Open
  <2>4. lock[target[u]] = u
    BY <2>2 DEF IInv, ReturnsHoldLock
  <2>5. lock'[target[u]] = u /\ target'[u] = target[u]
    BY <2>1, <2>3, <2>4, FinishStep
  <2> QED BY <2>5
<1>3. SharesFit'
  <2>1. Updated(t)' = {} /\ \A u \in Txns \ {t} :
          Updated(u)' = Updated(u) /\ \A v \in Invoices : NextPaid(u, v)' = NextPaid(u, v)
    BY FinishStep DEF Updated, NextPaid
  <2>2. \A u \in Txns : Updated(u) \subseteq Invoices
    BY DEF Updated
  <2> QED BY <2>1, <2>2, FinishStep DEF IInv, SharesFit
<1> QED BY <1>1, <1>2, <1>3

\* The part of a commit that every handler shares.
LEMMA CommitKeeps ==
  ASSUME IInv, NEW t \in Txns, Finish(t, "committed"), kind' = kind, op' = op,
         status' \in [Invoices -> {"issued", "voided"}], paid' \in Money,
         paymentStatus' \in [Invoices -> {"unpaid", "partial", "paid"}],
         received' \in Money, allocated' \in Money, receipts' \in Nat,
         returned' \in [Invoices -> [Lines -> Nat]], refunded' \in Money
  PROVE  TypeOK' /\ RequestsAreAbout' /\ ReturnsHoldLock' /\ SharesFit'
<1>1. pc' \in [Txns -> Open \cup {"idle", "committed", "failed", "replayed"}]
  <2>1. pc \in [Txns -> Open \cup {"idle", "committed", "failed", "replayed"}]
    BY DEF IInv, TypeOK
  <2>2. pc' = [pc EXCEPT ![t] = "committed"]
    BY DEF Finish
  <2> QED BY <2>1, <2>2
<1>2. TypeOK'
  BY <1>1, FinishStep DEF IInv, TypeOK
<1> QED BY <1>2, OthersKept

LEMMA RollBackStep ==
  ASSUME IInv, NEW t \in Txns, RollBack(t)
  PROVE  IInv'
<1>1. Finish(t, "failed") /\ UNCHANGED rows
  BY DEF RollBack
<1>2. kind' = [kind EXCEPT ![t] = "void"] /\ op' = [op EXCEPT ![t] = NoOp]
  BY DEF RollBack
<1>3. TypeOK'
  BY <1>1, <1>2, FinishStep DEF IInv, TypeOK, rows, Kinds, Open
<1>4. ReturnsStayValid'
  BY <1>1, <1>2, FinishStep DEF IInv, TypeOK, ReturnsStayValid, Returnable, Issued, rows
<1>5. SeenBacked'
  <2>1. \A v \in Invoices : received[v] \in Nat /\ received' = received
    BY <1>1 DEF IInv, TypeOK, Money, rows
  <2>2. \A v \in Invoices : seenPaid'[t][v] = 0
    BY <1>1, FinishStep
  <2>3. \A u \in Txns \ {t} : seenPaid'[u] = seenPaid[u]
    BY <1>1, FinishStep
  <2> QED BY <2>1, <2>2, <2>3 DEF IInv, SeenBacked
<1> QED BY <1>1, <1>2, <1>3, <1>4, <1>5, OthersKept, RowsKept DEF IInv
\* What others have read stays backed when payments rows are only added.
LEMMA SeenBackedGrows ==
  ASSUME IInv, NEW t \in Txns, NEW o \in {"committed", "failed"}, Finish(t, o),
         received' \in Money, \A v \in Invoices : received'[v] >= received[v]
  PROVE  SeenBacked'
<1>1. \A v \in Invoices : received[v] \in Nat /\ received'[v] \in Nat
  BY DEF IInv, TypeOK, Money
<1>2. \A v \in Invoices : seenPaid'[t][v] = 0
  BY FinishStep
<1>3. \A u \in Txns \ {t}, v \in Invoices :
        seenPaid'[u] = seenPaid[u] /\ seenPaid[u][v] \in Nat /\ seenPaid[u][v] <= received[v]
  BY FinishStep DEF IInv, TypeOK, Money, SeenBacked
<1>4. ASSUME NEW u \in Txns, NEW v \in Invoices PROVE seenPaid'[u][v] <= received'[v]
  <2>1. CASE u = t
    BY <1>1, <1>2, <2>1
  <2>2. CASE u # t
    BY <1>1, <1>3, <2>2
  <2> QED BY <2>1, <2>2
<1> QED BY <1>4 DEF SeenBacked

LEMMA ReceivedKept ==
  ASSUME IInv, NEW t \in Txns, Finish(t, "committed"), received' = received
  PROVE  SeenBacked'
<1>1. received' \in Money /\ \A v \in Invoices : received[v] \in Nat
  BY DEF IInv, TypeOK, Money
<1>2. \A v \in Invoices : received'[v] >= received[v]
  BY <1>1
<1> QED BY <1>1, <1>2, SeenBackedGrows

\* A payment stores a sum that fits the total and is backed, however stale the
\* paidAmount it started from.  No return it does not wait for has read that row.
LEMMA CommitPaymentStep ==
  ASSUME IInv, NEW t \in Txns, CommitPayment(t)
  PROVE  IInv'
<1>1. /\ pc[t] = "ready" /\ kind[t] \in {"pay", "settle"}
      /\ \A v \in Updated(t) : Unblocked(t, v)
      /\ paid' = [v \in Invoices |-> IF v \in Updated(t) THEN NextPaid(t, v) ELSE paid[v]]
      /\ Finish(t, "committed")
      /\ UNCHANGED <<status, returned, refunded, kind, op>>
  BY DEF CommitPayment
<1>2. received' = [v \in Invoices |-> received[v] + share[t][v]]
  BY DEF CommitPayment, PaymentRow
<1>3. \A v \in Invoices :
        /\ paid[v] \in Nat /\ received[v] \in Nat /\ allocated[v] \in Nat
        /\ seenPaid[t][v] \in Nat /\ share[t][v] \in Nat
        /\ receipts \in Nat /\ amount[t] \in Nat
        /\ seenPaid[t][v] <= received[v] /\ paid[v] <= received[v] /\ paid[v] <= Total[v]
        /\ v \in Updated(t) => seenPaid[t][v] + share[t][v] <= Total[v]
  BY DEF IInv, TypeOK, Money, SeenBacked, PaidBacked, PaidWithinTotal, SharesFit, NextPaid
<1>4. paid' \in Money /\ received' \in Money
  BY <1>1, <1>2, <1>3 DEF Money, NextPaid
<1>5. TypeOK' /\ RequestsAreAbout' /\ ReturnsHoldLock' /\ SharesFit'
  <2>1. allocated' \in Money
    BY <1>3 DEF CommitPayment, Money
  <2>2. receipts' \in Nat
    BY DEF CommitPayment, IInv, TypeOK
  <2>3. paymentStatus' \in [Invoices -> {"unpaid", "partial", "paid"}]
    BY DEF CommitPayment, IInv, TypeOK
  <2>4. /\ status' \in [Invoices -> {"issued", "voided"}]
        /\ returned' \in [Invoices -> [Lines -> Nat]] /\ refunded' \in Money
    BY <1>1 DEF IInv, TypeOK
  <2> QED BY <1>1, <1>4, <2>1, <2>2, <2>3, <2>4, CommitKeeps
<1>6. PaidBacked' /\ PaidWithinTotal' /\ ReturnsWithinSold'
  <2>1. \A v \in Invoices : paid'[v] <= received'[v] /\ paid'[v] <= Total[v]
    BY <1>1, <1>2, <1>3 DEF NextPaid
  <2> QED BY <1>1, <2>1 DEF PaidBacked, PaidWithinTotal, ReturnsWithinSold, IInv
<1>7. ReturnsStayValid'
  <2> SUFFICES ASSUME NEW u \in Txns, pc'[u] = "ready", kind'[u] = "return"
               PROVE  Returnable(u)' /\ seenPaid'[u][target'[u]] = paid'[target'[u]]
    BY DEF ReturnsStayValid
  <2>1. u # t
    BY <1>1
  <2>2. pc[u] = "ready" /\ kind[u] = "return"
    BY <1>1, <2>1, FinishStep
  <2>3. target'[u] = target[u] /\ line'[u] = line[u] /\ amount'[u] = amount[u] /\ seenPaid'[u] = seenPaid[u]
    BY <1>1, <2>1, FinishStep
  <2>4. target[u] \in Invoices /\ lock[target[u]] = u
    BY <2>2 DEF IInv, RequestsAreAbout, ReturnsHoldLock, Open
  <2>5. target[u] \notin Updated(t)
    BY <1>1, <2>1, <2>4 DEF Unblocked
  <2>6. Returnable(u) /\ seenPaid[u][target[u]] = paid[target[u]]
    BY <2>2 DEF IInv, ReturnsStayValid
  <2> QED BY <1>1, <2>3, <2>4, <2>5, <2>6 DEF Returnable, Issued
<1>8. SeenBacked'
  <2>1. \A v \in Invoices : received'[v] >= received[v]
    BY <1>2, <1>3
  <2> QED BY <1>1, <1>4, <2>1, SeenBackedGrows
<1> QED BY <1>5, <1>6, <1>7, <1>8 DEF IInv

\* A return takes back units it has checked under the lock, which no other
\* return of that invoice can hold.
LEMMA CommitReturnStep ==
  ASSUME IInv, NEW t \in Txns, CommitReturn(t)
  PROVE  IInv'
<1>1. /\ pc[t] = "ready" /\ kind[t] = "return"
      /\ target[t] \in Invoices /\ line[t] \in Lines /\ lock[target[t]] = t
      /\ returned[target[t]][line[t]] + amount[t] <= Units[target[t]][line[t]]
  BY DEF CommitReturn, IInv, RequestsAreAbout, ReturnsHoldLock, ReturnsStayValid, Returnable, Open
<1>2. /\ returned' = [returned EXCEPT ![target[t]][line[t]] = @ + amount[t]]
      /\ refunded' = [refunded EXCEPT ![target[t]] = @ + amount[t] * Price[target[t]][line[t]]]
      /\ paymentStatus' = [paymentStatus EXCEPT ![target[t]] = StatusAfterReturn(t,
            Total[target[t]] - refunded[target[t]] - amount[t] * Price[target[t]][line[t]])]
      /\ Finish(t, "committed")
      /\ UNCHANGED <<status, received, allocated, receipts, kind, op>>
  BY DEF CommitReturn
<1>3. paid' = paid
  BY <1>1 DEF CommitReturn, PaidAfterReturn, IInv, TypeOK, Money
<1>4. amount[t] \in Nat /\ returned[target[t]][line[t]] \in Nat /\ Price[target[t]][line[t]] \in Nat
      /\ refunded[target[t]] \in Nat
  BY <1>1 DEF IInv, TypeOK, Money
<1>5. TypeOK' /\ RequestsAreAbout' /\ ReturnsHoldLock' /\ SharesFit'
  <2>1. returned' \in [Invoices -> [Lines -> Nat]]
    BY <1>1, <1>2, <1>4 DEF IInv, TypeOK
  <2>2. amount[t] * Price[target[t]][line[t]] \in Nat
    BY <1>4
  <2>3. refunded' \in Money
    BY <1>1, <1>2, <1>4, <2>2 DEF IInv, TypeOK, Money
  <2>4. paymentStatus' \in [Invoices -> {"unpaid", "partial", "paid"}]
    BY <1>2 DEF StatusAfterReturn, IInv, TypeOK
  <2>5. /\ status' \in [Invoices -> {"issued", "voided"}]
        /\ paid' \in Money /\ received' \in Money /\ allocated' \in Money /\ receipts' \in Nat
    BY <1>2, <1>3 DEF IInv, TypeOK
  <2> QED BY <1>2, <2>1, <2>3, <2>4, <2>5, CommitKeeps
<1>6. PaidBacked' /\ PaidWithinTotal'
  BY <1>2, <1>3 DEF IInv, PaidBacked, PaidWithinTotal
<1>7. ReturnsWithinSold'
  BY <1>1, <1>2, <1>4 DEF IInv, TypeOK, ReturnsWithinSold
<1>8. ReturnsStayValid'
  <2> SUFFICES ASSUME NEW u \in Txns, pc'[u] = "ready", kind'[u] = "return"
               PROVE  Returnable(u)' /\ seenPaid'[u][target'[u]] = paid'[target'[u]]
    BY DEF ReturnsStayValid
  <2>1. u # t
    BY <1>2, FinishStep DEF IInv, TypeOK
  <2>2. pc[u] = "ready" /\ kind[u] = "return"
    BY <1>2, <2>1, FinishStep
  <2>3. target'[u] = target[u] /\ line'[u] = line[u] /\ amount'[u] = amount[u] /\ seenPaid'[u] = seenPaid[u]
    BY <1>2, <2>1, FinishStep
  <2>4. target[u] \in Invoices /\ lock[target[u]] = u
    BY <2>2 DEF IInv, RequestsAreAbout, ReturnsHoldLock, Open
  <2>5. returned'[target[u]] = returned[target[u]]
    BY <1>1, <1>2, <2>1, <2>4 DEF IInv, TypeOK
  <2>6. Returnable(u) /\ seenPaid[u][target[u]] = paid[target[u]]
    BY <2>2 DEF IInv, ReturnsStayValid
  <2> QED BY <1>2, <1>3, <2>3, <2>5, <2>6 DEF Returnable, Issued
<1>9. SeenBacked'
  BY <1>2, ReceivedKept
<1> QED BY <1>5, <1>6, <1>7, <1>8, <1>9 DEF IInv

\* A void waits for the return that holds the row.
LEMMA CommitVoidStep ==
  ASSUME IInv, NEW t \in Txns, CommitVoid(t)
  PROVE  IInv'
<1>1. /\ pc[t] = "ready" /\ kind[t] = "void" /\ Unblocked(t, target[t])
      /\ status' = [status EXCEPT ![target[t]] = "voided"]
      /\ Finish(t, "committed")
      /\ UNCHANGED <<paid, paymentStatus, received, allocated, receipts, returned, refunded, kind, op>>
  BY DEF CommitVoid
<1>2. TypeOK' /\ RequestsAreAbout' /\ ReturnsHoldLock' /\ SharesFit'
  <2>1. /\ status' \in [Invoices -> {"issued", "voided"}]
        /\ paid' \in Money /\ paymentStatus' \in [Invoices -> {"unpaid", "partial", "paid"}]
        /\ received' \in Money /\ allocated' \in Money /\ receipts' \in Nat
        /\ returned' \in [Invoices -> [Lines -> Nat]] /\ refunded' \in Money
    BY <1>1 DEF IInv, TypeOK
  <2> QED BY <1>1, <2>1, CommitKeeps
<1>3. PaidBacked' /\ PaidWithinTotal' /\ ReturnsWithinSold'
  BY <1>1 DEF IInv, PaidBacked, PaidWithinTotal, ReturnsWithinSold
<1>4. ReturnsStayValid'
  <2> SUFFICES ASSUME NEW u \in Txns, pc'[u] = "ready", kind'[u] = "return"
               PROVE  Returnable(u)' /\ seenPaid'[u][target'[u]] = paid'[target'[u]]
    BY DEF ReturnsStayValid
  <2>1. u # t
    BY <1>1
  <2>2. pc[u] = "ready" /\ kind[u] = "return"
    BY <1>1, <2>1, FinishStep
  <2>3. target'[u] = target[u] /\ line'[u] = line[u] /\ amount'[u] = amount[u] /\ seenPaid'[u] = seenPaid[u]
    BY <1>1, <2>1, FinishStep
  <2>4. target[u] \in Invoices /\ lock[target[u]] = u
    BY <2>2 DEF IInv, RequestsAreAbout, ReturnsHoldLock, Open
  <2>5. target[u] # target[t] /\ status'[target[u]] = status[target[u]]
    BY <1>1, <2>1, <2>4 DEF Unblocked, IInv, TypeOK
  <2>6. Returnable(u) /\ seenPaid[u][target[u]] = paid[target[u]]
    BY <2>2 DEF IInv, ReturnsStayValid
  <2> QED BY <1>1, <2>3, <2>5, <2>6 DEF Returnable, Issued
<1>5. SeenBacked'
  BY <1>1, ReceivedKept
<1> QED BY <1>2, <1>3, <1>4, <1>5 DEF IInv
-----------------------------------------------------------------------------
LEMMA NextIInv == IInv /\ [Next]_vars => IInv'
<1> SUFFICES ASSUME IInv, [Next]_vars PROVE IInv'
  OBVIOUS
<1>1. CASE UNCHANGED vars
  <2>1. UNCHANGED <<rows, lock, pc, input, local>>
    BY <1>1 DEF vars
  <2>2. TypeOK' /\ RequestsAreAbout' /\ ReturnsHoldLock'
    BY <2>1 DEF IInv, TypeOK, RequestsAreAbout, ReturnsHoldLock, rows, input, local
  <2>3. ReturnsStayValid'
    BY <2>1 DEF IInv, ReturnsStayValid, Returnable, Issued, rows, input, local
  <2> QED BY <2>1, <2>2, <2>3, RowsKept, LocalKept DEF IInv
<1>2. ASSUME NEW t \in Txns, Refuse(t) \/ RefuseDuplicate(t) \/ Abort(t) PROVE RollBack(t)
  BY <1>2 DEF Refuse, RefuseDuplicate, Abort
<1> QED BY <1>1, <1>2, BeginStep, ReplayStep, LockStep, ReadStep, ReadRefundsStep,
       RollBackStep, CommitPaymentStep, CommitReturnStep, CommitVoidStep DEF Next

\* The conjunction of the invariants, with what carries it through a step.
THEOREM Invariance == Spec => []IInv
BY InitIInv, NextIInv, PTL DEF Spec

\* Every variable keeps its type.
THEOREM TypeCorrect == Spec => []TypeOK
<1>1. IInv => TypeOK
  BY DEF IInv
<1> QED BY <1>1, Invariance, PTL

\* However returns of one invoice overlap, the lock that each takes before it
\* reads keeps their sum within the units sold.
THEOREM NeverOverReturned == Spec => []ReturnsWithinSold
<1>1. IInv => ReturnsWithinSold
  BY DEF IInv
<1> QED BY <1>1, Invariance, PTL

\* However payments overlap, paidAmount stays within the total.
THEOREM NeverOverpaid == Spec => []PaidWithinTotal
<1>1. IInv => PaidWithinTotal
  BY DEF IInv
<1> QED BY <1>1, Invariance, PTL

\* paidAmount never exceeds the sum of the invoice's payments rows.
THEOREM RecordedPaymentsAreReal == Spec => []PaidBacked
<1>1. IInv => PaidBacked
  BY DEF IInv
<1> QED BY <1>1, Invariance, PTL

-----------------------------------------------------------------------------
\* A request that has not committed commits only by the commit of its handler,
\* and a committed one stays so with its operationId.
LEMMA OnlyCommits ==
  ASSUME IInv, [Next]_vars, NEW t \in Txns
  PROVE  /\ pc[t] = "committed" => pc'[t] = "committed" /\ op'[t] = op[t]
         /\ Commits(t) => CommitPayment(t) \/ CommitReturn(t) \/ CommitVoid(t)
<1>1. ASSUME NEW u \in Txns,
             BeginPay(u) \/ BeginSettle(u) \/ BeginReturn(u) \/ BeginVoid(u)
      PROVE  /\ pc[t] = "committed" => pc'[t] = "committed" /\ op'[t] = op[t]
             /\ ~Commits(t)
  <2>1. PICK k, v, l, n, o : Begin(u, k, v, l, n, o)
    BY <1>1, BeginsTyped
  <2> QED BY <2>1 DEF Begin, IInv, TypeOK, Commits
<1>2. ASSUME NEW u \in Txns, ReplayPay(u) \/ LockInvoice(u) \/ ReadLocked(u) \/ ReadInvoice(u)
                              \/ ReadCustomer(u) \/ ReadRefunds(u)
      PROVE  /\ pc[t] = "committed" => pc'[t] = "committed" /\ op'[t] = op[t]
             /\ ~Commits(t)
  BY <1>2 DEF ReplayPay, LockInvoice, ReadLocked, ReadInvoice, ReadCustomer, ReadRefunds, Reads,
     input, IInv, TypeOK, Commits
<1>3. ASSUME NEW u \in Txns, Refuse(u) \/ RefuseDuplicate(u) \/ Abort(u)
      PROVE  /\ pc[t] = "committed" => pc'[t] = "committed" /\ op'[t] = op[t]
             /\ ~Commits(t)
  <2>1. pc[u] \in Open /\ RollBack(u)
    BY <1>3 DEF Refuse, RefuseDuplicate, Abort, Open
  <2> QED BY <2>1 DEF RollBack, Finish, Open, IInv, TypeOK, Commits
<1>4. ASSUME NEW u \in Txns, CommitPayment(u) \/ CommitReturn(u) \/ CommitVoid(u)
      PROVE  /\ pc[t] = "committed" => pc'[t] = "committed" /\ op'[t] = op[t]
             /\ Commits(t) => t = u
  BY <1>4 DEF CommitPayment, CommitReturn, CommitVoid, Finish, IInv, TypeOK, Commits
<1>5. CASE UNCHANGED vars
  BY <1>5 DEF vars, input, Commits
<1> QED BY <1>1, <1>2, <1>3, <1>4, <1>5 DEF Next

\* A payment that a client retries is recorded once: the commit that would be
\* the second is refused by the unique index.
THEOREM RetriedPaymentsCountOnce == Spec => []PaidOncePerOperation
<1>1. Init => PaidOncePerOperation
  BY DEF Init, PaidOncePerOperation
<1>2. ASSUME IInv, PaidOncePerOperation, [Next]_vars
      PROVE  PaidOncePerOperation'
  <2>1. ASSUME NEW t \in Txns, NEW u \in Txns, t # u, pc[t] # "committed",
               pc'[t] = "committed", pc'[u] = "committed", op'[t] = op'[u]
        PROVE  op'[t] = NoOp
    <3>1. CommitPayment(t) \/ CommitReturn(t) \/ CommitVoid(t)
      BY <1>2, <2>1, OnlyCommits DEF Commits
    <3>2. op' = op /\ pc[u] = "committed"
      BY <1>2, <2>1, <3>1 DEF CommitPayment, CommitReturn, CommitVoid, Finish, IInv, TypeOK
    <3>3. CASE CommitPayment(t)
      BY <2>1, <3>2, <3>3 DEF CommitPayment, UniqueOp, Recorded
    <3>4. CASE CommitReturn(t) \/ CommitVoid(t)
      BY <1>2, <3>2, <3>4 DEF CommitReturn, CommitVoid, IInv, RequestsAreAbout
    <3> QED BY <3>1, <3>3, <3>4
  <2>2. ASSUME NEW t \in Txns, NEW u \in Txns, t # u, pc[t] = "committed", pc[u] = "committed",
               op'[t] = op'[u]
        PROVE  op'[t] = NoOp
    BY <1>2, <2>2, OnlyCommits DEF PaidOncePerOperation
  <2> QED BY <2>1, <2>2 DEF PaidOncePerOperation
<1> QED BY <1>1, <1>2, Invariance, PTL DEF Spec

\* The lock that a return holds from its read of the status to its commit keeps
\* a void out.
THEOREM VoidedInvoicesAreClosed == Spec => NoReturnAfterVoid
<1>1. ASSUME IInv, [Next]_vars, NEW t \in Txns, Commits(t), kind[t] = "return"
      PROVE  status[target[t]] = "issued"
  <2>1. CommitReturn(t)
    BY <1>1, OnlyCommits DEF CommitPayment, CommitVoid
  <2> QED BY <1>1, <2>1 DEF CommitReturn, IInv, ReturnsStayValid, Returnable, Issued
<1>2. IInv /\ [Next]_vars =>
        [\A t \in Txns : Commits(t) /\ kind[t] = "return" => status[target[t]] = "issued"]_vars
  BY <1>1
<1> QED BY <1>2, Invariance, PTL DEF Spec, NoReturnAfterVoid
\* Only commits change what is paid or received.
LEMMA OnlyCommitsPublish ==
  ASSUME [Next]_vars, <<paid, received>>' # <<paid, received>>
  PROVE  \E t \in Txns : CommitPayment(t) \/ CommitReturn(t) \/ CommitVoid(t)
<1>1. ASSUME NEW t \in Txns,
             \/ BeginPay(t) \/ BeginSettle(t) \/ BeginReturn(t) \/ BeginVoid(t) \/ ReplayPay(t)
             \/ LockInvoice(t) \/ ReadLocked(t) \/ ReadInvoice(t) \/ ReadCustomer(t) \/ ReadRefunds(t)
      PROVE  UNCHANGED rows
  BY <1>1 DEF BeginPay, BeginSettle, BeginReturn, BeginVoid, Begin, ReplayPay, LockInvoice,
     ReadLocked, ReadInvoice, ReadCustomer, Reads, ReadRefunds
<1>2. ASSUME NEW t \in Txns, Refuse(t) \/ RefuseDuplicate(t) \/ Abort(t)
      PROVE  UNCHANGED rows
  BY <1>2 DEF Refuse, RefuseDuplicate, Abort, RollBack
<1> QED BY <1>1, <1>2 DEF Next, rows, vars

\* An update of paidAmount is lost only to a payment that had read it before.
THEOREM LossNeedsStaleRead == Spec => LostOnlyByStaleRead
<1>1. ASSUME IInv, [Next]_vars, NEW v \in Invoices,
             received'[v] - paid'[v] # received[v] - paid[v]
      PROVE  \E t \in Txns : Commits(t) /\ share[t][v] > 0 /\ seenPaid[t][v] # paid[v]
  <2>1. PICK t \in Txns : CommitPayment(t) \/ CommitReturn(t) \/ CommitVoid(t)
    BY <1>1, OnlyCommitsPublish
  <2>2. /\ paid[v] \in Nat /\ received[v] \in Nat
        /\ share[t][v] \in Nat /\ seenPaid[t][v] \in Nat
    BY <1>1 DEF IInv, TypeOK, Money
  <2>3. CASE CommitPayment(t)
    <3>1. /\ paid'[v] = IF share[t][v] > 0 THEN seenPaid[t][v] + share[t][v] ELSE paid[v]
          /\ received'[v] = received[v] + share[t][v]
      BY <2>3 DEF CommitPayment, Updated, NextPaid, PaymentRow
    <3>2. share[t][v] > 0 /\ seenPaid[t][v] # paid[v]
      BY <1>1, <2>2, <3>1
    <3>3. Commits(t)
      BY <1>1, <2>3 DEF CommitPayment, Finish, Commits, IInv, TypeOK
    <3> QED BY <3>2, <3>3
  <2>4. CASE CommitReturn(t) \/ CommitVoid(t)
    <3>1. paid' = paid /\ received' = received
      BY <1>1, <2>4 DEF CommitReturn, CommitVoid, PaidAfterReturn, IInv, TypeOK, Money
    <3> QED BY <1>1, <3>1
  <2> QED BY <2>1, <2>3, <2>4
<1>2. IInv /\ [Next]_vars =>
        [\A v \in Invoices : received'[v] - paid'[v] # received[v] - paid[v] =>
           \E t \in Txns : Commits(t) /\ share[t][v] > 0 /\ seenPaid[t][v] # paid[v]]_vars
  BY <1>1
<1> QED BY <1>2, Invariance, PTL DEF Spec, LostOnlyByStaleRead

\* A handler whose reads are still true when it commits leaves the status that
\* the amounts call for.
THEOREM FreshCommitsSettle == Spec => FreshCommitSettles
<1> DEFINE Step ==
      \A t \in Txns : \A v \in snap[t] :
        /\ Commits(t) /\ kind[t] # "void"
        /\ paid'[v] # paid[v] \/ refunded'[v] # refunded[v]
        /\ seenPaid[t][v] = paid[v] /\ (kind[t] = "return" \/ seenRefunded[t][v] = refunded[v])
        => paymentStatus'[v] = (IF paid'[v] >= Net(v)' THEN "paid"
                                ELSE IF paid'[v] > 0 THEN "partial" ELSE "unpaid")
<1>1. ASSUME IInv, [Next]_vars PROVE Step
  <2> SUFFICES ASSUME NEW t \in Txns, NEW v \in snap[t], Commits(t), kind[t] # "void",
                      paid'[v] # paid[v] \/ refunded'[v] # refunded[v],
                      seenPaid[t][v] = paid[v],
                      kind[t] = "return" \/ seenRefunded[t][v] = refunded[v]
               PROVE  paymentStatus'[v] = (IF paid'[v] >= Net(v)' THEN "paid"
                                           ELSE IF paid'[v] > 0 THEN "partial" ELSE "unpaid")
    OBVIOUS
  <2>1. /\ v \in Invoices /\ paid[v] \in Nat /\ refunded[v] \in Nat
        /\ share[t][v] \in Nat /\ seenRefunded[t][v] \in Nat
    BY <1>1 DEF IInv, TypeOK, Money
  <2>2. CASE CommitPayment(t)
    <3>1. refunded' = refunded /\ kind[t] # "return"
      BY <2>2 DEF CommitPayment
    <3>2. v \in Updated(t) /\ share[t][v] > 0
      BY <2>1, <2>2, <3>1 DEF CommitPayment, Updated
    <3>3. paid'[v] = paid[v] + share[t][v]
      BY <2>1, <2>2, <3>2 DEF CommitPayment, NextPaid
    <3>4. paymentStatus'[v] = IF paid'[v] >= Total[v] - refunded[v] THEN "paid" ELSE "partial"
      BY <2>1, <2>2, <3>1, <3>2, <3>3 DEF CommitPayment, NextPaid, NetSeen
    <3>5. paid'[v] > 0
      BY <2>1, <3>2, <3>3
    <3> QED BY <3>1, <3>4, <3>5 DEF Net
  <2>3. CASE CommitReturn(t)
    <3>1. target[t] \in Invoices /\ paid' = paid
      BY <1>1, <2>3 DEF CommitReturn, PaidAfterReturn, IInv, TypeOK, Money, RequestsAreAbout, Open
    <3>2. refunded' = [refunded EXCEPT ![target[t]] = @ + amount[t] * Price[target[t]][line[t]]]
      BY <2>3 DEF CommitReturn
    <3>3. v = target[t]
      BY <2>1, <3>1, <3>2 DEF IInv, TypeOK
    <3>4. /\ line[t] \in Lines /\ amount[t] \in Nat
          /\ amount[t] * Price[v][line[t]] \in Nat
      <4>1. line[t] \in Lines /\ amount[t] \in Nat
        BY <1>1, <2>3 DEF CommitReturn, IInv, TypeOK, RequestsAreAbout, Open
      <4>2. Price[v][line[t]] \in Nat
        BY <2>1, <4>1
      <4> QED BY <4>1, <4>2
    <3>5. refunded'[v] = refunded[v] + amount[t] * Price[v][line[t]]
      BY <1>1, <2>1, <3>2, <3>3 DEF IInv, TypeOK, Money
    <3>6. Net(v)' = Total[v] - refunded[v] - amount[t] * Price[v][line[t]]
      BY <2>1, <3>4, <3>5 DEF Net
    <3>7. paymentStatus'[v] = StatusAfterReturn(t, Net(v)')
      BY <1>1, <2>1, <2>3, <3>3, <3>6 DEF CommitReturn, IInv, TypeOK
    <3> QED BY <3>1, <3>3, <3>7 DEF StatusAfterReturn
  <2>4. CASE CommitVoid(t)
    BY <2>4 DEF CommitVoid
  <2> QED BY <1>1, <2>2, <2>3, <2>4, OnlyCommits
<1>2. IInv /\ [Next]_vars => [Step]_vars
  BY <1>1
<1> QED BY <1>2, Invariance, PTL DEF Spec, FreshCommitSettles

-----------------------------------------------------------------------------
\* A receipt that is ready to be written was allocated to the last unit.
SettlesInFull ==
  \A t \in Txns : pc[t] = "ready" /\ kind[t] = "settle" => SumFunction(share[t]) = amount[t]

LEMMA SettlesKept ==
  ASSUME SettlesInFull,
         \A t \in Txns : pc'[t] = "ready" /\ kind'[t] = "settle" =>
           pc[t] = "ready" /\ kind[t] = "settle" /\ share'[t] = share[t] /\ amount'[t] = amount[t]
  PROVE  SettlesInFull'
BY DEF SettlesInFull

LEMMA RowsKeepReceipts ==
  ASSUME ReceiptsAllocated, receipts' = receipts, allocated' = allocated
  PROVE  ReceiptsAllocated'
BY DEF ReceiptsAllocated

\* The allocation loop splits the whole amount or the handler refuses it.
LEMMA ReadRefundsSettles ==
  ASSUME IInv, SettlesInFull, NEW t \in Txns, ReadRefunds(t)
  PROVE  SettlesInFull'
<1>1. pc' = [pc EXCEPT ![t] = "ready"] /\ UNCHANGED <<kind, amount>>
  BY DEF ReadRefunds, input
<1>2. PICK a : share' = [share EXCEPT ![t] = a] /\ (kind[t] = "settle" => SumFunction(a) = amount[t])
  BY DEF ReadRefunds, Shares, Allocates
<1>3. share'[t] = a /\ \A u \in Txns \ {t} : share'[u] = share[u] /\ pc'[u] = pc[u]
  BY <1>1, <1>2 DEF IInv, TypeOK
<1>4. ASSUME NEW u \in Txns, pc'[u] = "ready", kind'[u] = "settle"
      PROVE  SumFunction(share'[u]) = amount'[u]
  <2>1. CASE u = t
    BY <1>1, <1>2, <1>3, <1>4, <2>1
  <2>2. CASE u # t
    BY <1>1, <1>3, <1>4, <2>2 DEF SettlesInFull
  <2> QED BY <2>1, <2>2
<1> QED BY <1>4 DEF SettlesInFull

\* The receipt and its shares are written together.
LEMMA CommitPaymentAllocates ==
  ASSUME IInv, SettlesInFull, ReceiptsAllocated, NEW t \in Txns, CommitPayment(t)
  PROVE  ReceiptsAllocated'
<1>1. allocated \in [Invoices -> Nat] /\ share[t] \in [Invoices -> Nat]
  BY DEF IInv, TypeOK, Money
<1>2. CASE kind[t] = "settle"
  <2>1. PICK a, b, c, n : a = allocated /\ b = share[t] /\ c = allocated' /\ n = amount[t]
    OBVIOUS
  <2>2. SumFunction(a) = receipts /\ SumFunction(b) = n
    BY <1>2, <2>1 DEF ReceiptsAllocated, SettlesInFull, CommitPayment
  <2>3. DOMAIN c = Invoices /\ (\A v \in Invoices : c[v] = a[v] + b[v]) /\ receipts' = receipts + n
    BY <1>2, <2>1 DEF CommitPayment
  <2>4. SumFunction(c) = SumFunction(a) + SumFunction(b)
    <3>1. a \in [Invoices -> Nat] /\ b \in [Invoices -> Nat] /\ IsFiniteSet(Invoices)
      BY <1>1, <2>1, ConstantsAssumption
    <3> QED BY <2>3, <3>1, SumOfBoth, Z3
  <2> QED BY <2>1, <2>2, <2>3, <2>4 DEF ReceiptsAllocated
<1>3. CASE kind[t] # "settle"
  <2>1. receipts' = receipts /\ allocated' = allocated
    BY <1>1, <1>3 DEF CommitPayment, IInv, TypeOK
  <2> QED BY <2>1, RowsKeepReceipts
<1> QED BY <1>2, <1>3

LEMMA NextReceipts ==
  ASSUME IInv, SettlesInFull, ReceiptsAllocated, [Next]_vars
  PROVE  SettlesInFull' /\ ReceiptsAllocated'
<1>1. ASSUME NEW t \in Txns, BeginPay(t) \/ BeginSettle(t) \/ BeginReturn(t) \/ BeginVoid(t)
      PROVE  SettlesInFull' /\ ReceiptsAllocated'
  <2>1. PICK k, v, l, n, o : Begin(t, k, v, l, n, o)
    BY <1>1, BeginsTyped
  <2> QED BY <2>1, SettlesKept, RowsKeepReceipts DEF Begin, rows, local, IInv, TypeOK
<1>2. ASSUME NEW t \in Txns, ReplayPay(t) \/ LockInvoice(t)
      PROVE  SettlesInFull' /\ ReceiptsAllocated'
  BY <1>2, SettlesKept, RowsKeepReceipts DEF ReplayPay, LockInvoice, rows, input, local, IInv, TypeOK
<1>3. ASSUME NEW t \in Txns, ReadLocked(t) \/ ReadInvoice(t) \/ ReadCustomer(t)
      PROVE  SettlesInFull' /\ ReceiptsAllocated'
  <2>1. kind[t] = "settle" => ReadCustomer(t)
    BY <1>3 DEF ReadLocked, ReadInvoice, IInv, RequestsAreAbout
  <2> QED BY <1>3, <2>1, SettlesKept, RowsKeepReceipts
        DEF ReadLocked, ReadInvoice, ReadCustomer, Reads, rows, input, IInv, TypeOK
<1>4. ASSUME NEW t \in Txns, ReadRefunds(t)
      PROVE  SettlesInFull' /\ ReceiptsAllocated'
  BY <1>4, ReadRefundsSettles, RowsKeepReceipts DEF ReadRefunds, rows
<1>5. ASSUME NEW t \in Txns, Refuse(t) \/ RefuseDuplicate(t) \/ Abort(t)
      PROVE  SettlesInFull' /\ ReceiptsAllocated'
  <2>1. RollBack(t)
    BY <1>5 DEF Refuse, RefuseDuplicate, Abort
  <2> QED BY <2>1, SettlesKept, RowsKeepReceipts DEF RollBack, Finish, rows, IInv, TypeOK
<1>6. ASSUME NEW t \in Txns, CommitPayment(t) \/ CommitReturn(t) \/ CommitVoid(t)
      PROVE  SettlesInFull' /\ ReceiptsAllocated'
  <2>1. Finish(t, "committed") /\ UNCHANGED kind
    BY <1>6 DEF CommitPayment, CommitReturn, CommitVoid
  <2>2. SettlesInFull'
    BY <2>1, SettlesKept DEF Finish, IInv, TypeOK
  <2> QED BY <1>6, <2>2, CommitPaymentAllocates, RowsKeepReceipts DEF CommitReturn, CommitVoid
<1>7. CASE UNCHANGED vars
  BY <1>7, SettlesKept, RowsKeepReceipts DEF vars, rows, input, local
<1> QED BY <1>1, <1>2, <1>3, <1>4, <1>5, <1>6, <1>7 DEF Next

\* No part of a receipt is lost or invented on its way to the invoices, although
\* the debt may change between what its request read and what it writes.
THEOREM ReceiptsReachInvoices == Spec => []ReceiptsAllocated
<1>1. Init => SettlesInFull /\ ReceiptsAllocated
  <2>1. Nothing \in [Invoices -> {0}] /\ IsFiniteSet(Invoices)
    BY DEF Nothing
  <2>2. SumFunction(Nothing) = 0
    BY <2>1, SumOfNothing
  <2> QED BY <2>2 DEF Init, SettlesInFull, ReceiptsAllocated
<1>2. IInv /\ SettlesInFull /\ ReceiptsAllocated /\ [Next]_vars => SettlesInFull' /\ ReceiptsAllocated'
  BY NextReceipts
<1> QED BY <1>1, <1>2, Invariance, PTL DEF Spec
=============================================================================
