-------------------------- MODULE StockLedger_proofs --------------------------
(***************************************************************************)
(* Proofs about StockLedger for every set of items and requests.  IInv is  *)
(* inductive; the safety properties follow from it.                        *)
(***************************************************************************)
EXTENDS StockLedger, TLAPS

USE ConstantsAssumption

\* The signs of a request's units, and the sale a void is about.
InputFits(k, S, ch, s) ==
  /\ \A i \in S : /\ ch[i] \in Int
                  /\ k = "sale" => ch[i] <= 0
                  /\ k \in {"return", "void"} => ch[i] >= 0
                  /\ k = "transfer" => ch[i] = 0
                  /\ k \in Absolute => ch[i] # 0
  /\ k = "void" => s \in Txns

\* Whatever the handler, a request that arrives runs Begin on well-typed input
\* whose signs are those of its kind.
LEMMA ArriveBegins ==
  ASSUME TypeOK, ChangeSigns, NEW t \in Txns, Arrive(t)
  PROVE  \E k \in Kinds, S \in SUBSET Items, o \in Ops \cup {NoOp}, s \in Txns \cup {NoTxn} :
           \E ch : Begin(t, k, S, ch, o, s) /\ InputFits(k, S, ch, s)
<1> USE DEF InputFits
<1>1. CASE BeginSale(t)
  <2>1. PICK S \in LineSets, o \in Ops \cup {NoOp} :
          \E ch \in [S -> (-MaxUnits)..(-1)] : Begin(t, "sale", S, ch, o, NoTxn)
    BY <1>1 DEF BeginSale
  <2>2. PICK ch \in [S -> (-MaxUnits)..(-1)] : Begin(t, "sale", S, ch, o, NoTxn)
    BY <2>1
  <2>3. \A i \in S : ch[i] \in Int /\ ch[i] <= 0
    BY <2>2
  <2> QED BY <2>2, <2>3 DEF LineSets, Kinds, Absolute
<1>2. CASE BeginMutate(t)
  <2>1. PICK i \in Items, o \in Ops \cup {NoOp} :
          \E ch \in [{i} -> ((-MaxUnits)..MaxUnits) \ {0}] : Begin(t, "mutate", {i}, ch, o, NoTxn)
    BY <1>2 DEF BeginMutate
  <2>2. PICK ch \in [{i} -> ((-MaxUnits)..MaxUnits) \ {0}] : Begin(t, "mutate", {i}, ch, o, NoTxn)
    BY <2>1
  <2>3. \A j \in {i} : ch[j] \in Int /\ ch[j] # 0
    BY <2>2
  <2> QED BY <2>2, <2>3 DEF Kinds, Absolute
<1>3. CASE BeginPurchase(t)
  <2>1. PICK S \in LineSets, o \in Ops \cup {NoOp} :
          \E ch \in [S -> 1..MaxUnits] : Begin(t, "purchase", S, ch, o, NoTxn)
    BY <1>3 DEF BeginPurchase
  <2>2. PICK ch \in [S -> 1..MaxUnits] : Begin(t, "purchase", S, ch, o, NoTxn)
    BY <2>1
  <2>3. \A i \in S : ch[i] \in Int /\ ch[i] # 0
    BY <2>2
  <2> QED BY <2>2, <2>3 DEF LineSets, Kinds, Absolute
<1>4. CASE BeginTransfer(t)
  <2>1. PICK i \in Items, o \in Ops \cup {NoOp} :
          Begin(t, "transfer", {i}, [j \in {i} |-> 0], o, NoTxn)
    BY <1>4 DEF BeginTransfer
  <2> QED BY <2>1 DEF Kinds, Absolute
<1>5. CASE BeginReturn(t)
  <2>1. PICK s \in Txns : \E i \in LineItems(s) : \E n \in 1..(-change[s][i]) :
          Begin(t, "return", {i}, [j \in {i} |-> n], NoOp, s)
    BY <1>5 DEF BeginReturn
  <2>2. PICK i \in LineItems(s) : \E n \in 1..(-change[s][i]) :
          Begin(t, "return", {i}, [j \in {i} |-> n], NoOp, s)
    BY <2>1
  <2>3. PICK n \in 1..(-change[s][i]) : Begin(t, "return", {i}, [j \in {i} |-> n], NoOp, s)
    BY <2>2
  <2>4. i \in Items /\ n \in Int /\ n >= 0
    BY DEF LineItems, TypeOK
  <2> QED BY <2>3, <2>4 DEF Kinds, Absolute
<1>6. CASE BeginVoid(t)
  <2>1. PICK s \in Txns :
          /\ kind[s] = "sale"
          /\ Begin(t, "void", LineItems(s), [i \in Items |-> -change[s][i]], NoOp, s)
    BY <1>6 DEF BeginVoid
  <2>2. \A i \in Items : -change[s][i] \in Int /\ -change[s][i] >= 0
    BY <2>1 DEF ChangeSigns, TypeOK
  <2> QED BY <2>1, <2>2 DEF LineItems, Kinds, Absolute
<1> QED BY <1>1, <1>2, <1>3, <1>4, <1>5, <1>6 DEF Arrive

-----------------------------------------------------------------------------
\* Initially the cached quantity is the ledger's only row.
LEMMA InitIInv == Init => IInv
<1> SUFFICES ASSUME Init PROVE IInv
  OBVIOUS
<1>1. quantity \in [Items -> Int] /\ NonNegative
  BY DEF Init, NonNegative
<1>2. TypeOK
  BY <1>1 DEF Init, TypeOK, Open, Closed, Kinds
<1>3. LocksHeldByOpen /\ ReadIsUsable /\ ChangeSigns /\ LinesMoveUnits /\ PendingIsRight
  BY DEF Init, LocksHeldByOpen, ReadIsUsable, ChangeSigns, LinesMoveUnits, PendingIsRight
<1>4. LastRowTruthful /\ RelativeReconciles
  BY DEF Init, LastRowTruthful, RelativeReconciles
<1> QED BY <1>1, <1>2, <1>3, <1>4 DEF IInv

\* A request that arrives holds no lock and changes no row.
LEMMA BeginStep ==
  ASSUME IInv, NEW t \in Txns, Arrive(t)
  PROVE  IInv'
<1> USE DEF InputFits
<1>0. PICK k \in Kinds, S \in SUBSET Items, o \in Ops \cup {NoOp}, s \in Txns \cup {NoTxn} :
        \E ch : Begin(t, k, S, ch, o, s) /\ InputFits(k, S, ch, s)
  BY ArriveBegins DEF IInv
<1>1. PICK ch : Begin(t, k, S, ch, o, s) /\ InputFits(k, S, ch, s)
  BY <1>0
<1>2. UNCHANGED <<rows, locks, seen, pend, number>> /\ pc[t] = "idle"
  BY <1>1 DEF Begin
<1>3. \A i \in Items : rowLock[i] # t
  BY <1>2 DEF IInv, LocksHeldByOpen
<1>4. CASE pc' = [pc EXCEPT ![t] = "replayed"] /\ UNCHANGED <<input, next, left>>
  <2>1. TypeOK'
    BY <1>2, <1>4 DEF IInv, TypeOK, rows, locks, input, Open, Closed
  <2>2. NonNegative' /\ LastRowTruthful' /\ ChangeSigns' /\ PendingIsRight'
    BY <1>2, <1>4 DEF IInv, NonNegative, LastRowTruthful, ChangeSigns, PendingIsRight,
       rows, locks, input
  <2>3. LocksHeldByOpen' /\ ReadIsUsable'
    BY <1>2, <1>3, <1>4 DEF IInv, TypeOK, LocksHeldByOpen, ReadIsUsable, rows, locks, input
  <2>4. RelativeReconciles'
    BY <1>2, <1>4 DEF IInv, TypeOK, RelativeReconciles, Committed, rows, input
  <2>5. LinesMoveUnits'
    BY <1>2, <1>4 DEF IInv, LinesMoveUnits, locks, input
  <2> QED BY <2>1, <2>2, <2>3, <2>4, <2>5 DEF IInv
<1>5. CASE /\ pc' = [pc EXCEPT ![t] = IF k = "sale" THEN "begun" ELSE "lines"]
           /\ kind' = [kind EXCEPT ![t] = k]
           /\ op' = [op EXCEPT ![t] = o]
           /\ ref' = [ref EXCEPT ![t] = s]
           /\ change' = [change EXCEPT ![t] = [i \in Items |-> IF i \in S THEN ch[i] ELSE 0]]
           /\ \E i \in S : /\ next' = [next EXCEPT ![t] = i]
                           /\ left' = [left EXCEPT ![t] = S \ {i}]
  <2>1. TypeOK'
    BY <1>1, <1>2, <1>5 DEF IInv, TypeOK, rows, locks, Open, Closed
  <2>2. NonNegative' /\ LastRowTruthful'
    BY <1>2 DEF IInv, NonNegative, LastRowTruthful, rows
  <2>3. LocksHeldByOpen' /\ ReadIsUsable'
    BY <1>2, <1>3, <1>5 DEF IInv, TypeOK, LocksHeldByOpen, ReadIsUsable, rows, locks
  <2>4. ChangeSigns'
    BY <1>1, <1>5 DEF IInv, TypeOK, ChangeSigns
  <2>5. PendingIsRight'
    BY <1>2, <1>3, <1>5 DEF IInv, TypeOK, PendingIsRight, rows, locks
  <2>6. RelativeReconciles'
    BY <1>2, <1>5 DEF IInv, TypeOK, RelativeReconciles, Committed, rows
  <2>7. LinesMoveUnits'
    BY <1>1, <1>2, <1>3, <1>5 DEF IInv, TypeOK, LinesMoveUnits, locks
  <2> QED BY <2>1, <2>2, <2>3, <2>4, <2>5, <2>6, <2>7 DEF IInv
<1> QED BY <1>1, <1>4, <1>5 DEF Begin

LEMMA TakeNumberStep ==
  ASSUME IInv, NEW t \in Txns, TakeNumber(t)
  PROVE  IInv'
<1>1. \A i \in Items : rowLock[i] # t
  BY DEF TakeNumber, IInv, LocksHeldByOpen
<1>2. TypeOK'
  BY DEF IInv, TypeOK, TakeNumber, rows, input, Open, Closed
<1>3. NonNegative' /\ LastRowTruthful' /\ ChangeSigns' /\ PendingIsRight'
  BY DEF IInv, TakeNumber, NonNegative, LastRowTruthful, ChangeSigns, PendingIsRight, rows, input
<1>4. LocksHeldByOpen' /\ ReadIsUsable'
  BY <1>1 DEF IInv, TypeOK, TakeNumber, LocksHeldByOpen, ReadIsUsable, rows, input
<1>5. RelativeReconciles'
  BY DEF IInv, TypeOK, TakeNumber, RelativeReconciles, Committed, rows, input
<1>6. LinesMoveUnits'
  BY DEF IInv, TakeNumber, LinesMoveUnits, rows, input
<1> QED BY <1>2, <1>3, <1>4, <1>5, <1>6 DEF IInv

\* Locking the current row with a non-negative new quantity, exact for an
\* increment, keeps the invariant: nothing is published yet.
LEMMA WroteStep ==
  ASSUME IInv, NEW t \in Txns, NEW q \in Int, Wrote(t, q),
         pc[t] \in {"lines", "read"}, next[t] \in Items, q >= 0,
         kind[t] \in Relative \cup {"transfer"} => q = quantity[next[t]] + change[t][next[t]]
  PROVE  IInv'
<1> DEFINE i == next[t]
<1>1. /\ rowLock[i] = NoTxn
      /\ rowLock' = [rowLock EXCEPT ![i] = t]
      /\ pend' = [pend EXCEPT ![t][i] = q]
      /\ pc' = [pc EXCEPT ![t] = "lines"]
      /\ UNCHANGED <<rows, counterLock, input, seen, number>>
  BY DEF Wrote
<1>2. \/ left[t] = {} /\ next' = [next EXCEPT ![t] = NoItem] /\ UNCHANGED left
      \/ \E j \in left[t] : /\ next' = [next EXCEPT ![t] = j]
                            /\ left' = [left EXCEPT ![t] = @ \ {j}]
  BY DEF Wrote
<1>3. /\ next' \in [Txns -> Items \cup {NoItem}]
      /\ left' \in [Txns -> SUBSET Items]
      /\ \A u \in Txns \ {t} : next'[u] = next[u]
  <2>1. next \in [Txns -> Items \cup {NoItem}] /\ left \in [Txns -> SUBSET Items]
    BY DEF IInv, TypeOK
  <2>2. CASE left[t] = {} /\ next' = [next EXCEPT ![t] = NoItem] /\ UNCHANGED left
    BY <2>1, <2>2
  <2>3. ASSUME NEW j \in left[t], next' = [next EXCEPT ![t] = j],
               left' = [left EXCEPT ![t] = @ \ {j}]
        PROVE  /\ next' \in [Txns -> Items \cup {NoItem}]
               /\ left' \in [Txns -> SUBSET Items]
               /\ \A u \in Txns \ {t} : next'[u] = next[u]
    <3>1. j \in Items
      BY <2>1
    <3> QED BY <2>1, <2>3, <3>1
  <2> QED BY <1>2, <2>2, <2>3
<1>4. TypeOK'
  BY <1>1, <1>3 DEF IInv, TypeOK, rows, input, Open, Closed
<1>5. NonNegative' /\ LastRowTruthful' /\ ChangeSigns'
  BY <1>1 DEF IInv, NonNegative, LastRowTruthful, ChangeSigns, rows, input
<1>6. LocksHeldByOpen'
  BY <1>1 DEF IInv, TypeOK, LocksHeldByOpen
<1>7. ReadIsUsable'
  BY <1>1, <1>3 DEF IInv, TypeOK, ReadIsUsable, input
<1>8. PendingIsRight'
  BY <1>1 DEF IInv, TypeOK, PendingIsRight, rows, input
<1>9. RelativeReconciles'
  BY <1>1 DEF IInv, TypeOK, RelativeReconciles, Committed, rows, input
<1>10. LinesMoveUnits'
  <2>1. CASE left[t] = {} /\ next' = [next EXCEPT ![t] = NoItem] /\ UNCHANGED left
    BY <1>1, <2>1 DEF IInv, TypeOK, LinesMoveUnits, input
  <2>2. CASE \E j \in left[t] : /\ next' = [next EXCEPT ![t] = j]
                               /\ left' = [left EXCEPT ![t] = @ \ {j}]
    BY <1>1, <2>2 DEF IInv, TypeOK, LinesMoveUnits, input
  <2> QED BY <1>2, <2>1, <2>2
<1> QED BY <1>4, <1>5, <1>6, <1>7, <1>8, <1>9, <1>10 DEF IInv

LEMMA LineStep ==
  ASSUME IInv, NEW t \in Txns, DecrementLine(t) \/ IncrementLine(t) \/ WriteLine(t)
  PROVE  IInv'
<1>1. CASE DecrementLine(t)
  <2>1. /\ next[t] \in Items /\ pc[t] = "lines"
        /\ Wrote(t, quantity[next[t]] + change[t][next[t]])
    BY <1>1 DEF DecrementLine, AtLine, IInv, TypeOK
  <2>2. quantity[next[t]] + change[t][next[t]] >= 0
    BY <1>1 DEF DecrementLine, Sellable
  <2>3. quantity[next[t]] + change[t][next[t]] \in Int
    BY <2>1 DEF IInv, TypeOK
  <2> QED BY <2>1, <2>2, <2>3, WroteStep
<1>2. CASE IncrementLine(t)
  <2>1. next[t] \in Items /\ change[t][next[t]] >= 0 /\ quantity[next[t]] >= 0
    BY <1>2 DEF IncrementLine, AtLine, IInv, TypeOK, ChangeSigns, NonNegative
  <2>2. quantity[next[t]] + change[t][next[t]] \in Int
    BY <2>1 DEF IInv, TypeOK
  <2>3. pc[t] \in {"lines", "read"} /\ Wrote(t, quantity[next[t]] + change[t][next[t]])
    BY <1>2 DEF IncrementLine, AtLine
  <2>4. quantity[next[t]] + change[t][next[t]] >= 0
    BY <2>1 DEF IInv, TypeOK
  <2> QED BY <2>1, <2>2, <2>3, <2>4, WroteStep
<1>3. CASE WriteLine(t)
  <2>1. /\ next[t] \in Items
        /\ kind[t] \in {"mutate", "purchase", "transfer"}
        /\ seen[t] + change[t][next[t]] >= 0
        /\ quantity[next[t]] >= 0
        /\ kind[t] = "transfer" => change[t][next[t]] = 0
    BY <1>3 DEF WriteLine, IInv, ReadIsUsable, NonNegative, ChangeSigns, Absolute
  <2>2. CASE kind[t] = "transfer"
    <3>1. Wrote(t, quantity[next[t]]) /\ pc[t] = "read"
      BY <1>3, <2>2 DEF WriteLine
    <3>2. quantity[next[t]] \in Int /\ quantity[next[t]] = quantity[next[t]] + change[t][next[t]]
      BY <2>1, <2>2 DEF IInv, TypeOK
    <3> QED BY <2>1, <3>1, <3>2, WroteStep
  <2>3. CASE kind[t] # "transfer"
    <3>1. Wrote(t, seen[t] + change[t][next[t]]) /\ pc[t] = "read"
      BY <1>3, <2>3 DEF WriteLine
    <3>2. seen[t] + change[t][next[t]] \in Int
      BY <2>1 DEF IInv, TypeOK
    <3>3. kind[t] \notin Relative \cup {"transfer"}
      BY <2>1, <2>3 DEF Relative
    <3> QED BY <2>1, <3>1, <3>2, <3>3, WroteStep
  <2> QED BY <2>2, <2>3
<1> QED BY <1>1, <1>2, <1>3

LEMMA ReadLineStep ==
  ASSUME IInv, NEW t \in Txns, ReadLine(t)
  PROVE  IInv'
<1>1. TypeOK'
  BY DEF IInv, TypeOK, ReadLine, AtLine, rows, locks, input, Open, Closed
<1>2. NonNegative' /\ LastRowTruthful' /\ ChangeSigns' /\ PendingIsRight'
  BY DEF IInv, ReadLine, NonNegative, LastRowTruthful, ChangeSigns, PendingIsRight,
     rows, locks, input
<1>3. LocksHeldByOpen'
  BY DEF IInv, TypeOK, ReadLine, AtLine, LocksHeldByOpen, locks
<1>4. ReadIsUsable'
  BY DEF IInv, TypeOK, ReadLine, AtLine, ReadIsUsable, input
<1>5. RelativeReconciles'
  BY DEF IInv, TypeOK, ReadLine, AtLine, RelativeReconciles, Committed, rows, input
<1>6. LinesMoveUnits'
  BY DEF IInv, ReadLine, LinesMoveUnits, locks, input
<1> QED BY <1>1, <1>2, <1>3, <1>4, <1>5, <1>6 DEF IInv

\* A transaction that rolls back leaves the committed rows as they are.
LEMMA RollBackStep ==
  ASSUME IInv, NEW t \in Txns, pc[t] \in Open, RollBack(t)
  PROVE  IInv'
<1>1. TypeOK'
  BY DEF IInv, TypeOK, RollBack, Finish, CounterFreed, rows, Open, Closed, Kinds
<1>2. NonNegative' /\ LastRowTruthful'
  BY DEF IInv, RollBack, NonNegative, LastRowTruthful, rows
<1>3. ChangeSigns'
  BY DEF IInv, TypeOK, RollBack, ChangeSigns
<1>4. LocksHeldByOpen' /\ ReadIsUsable'
  BY DEF IInv, TypeOK, RollBack, Finish, LocksHeldByOpen, ReadIsUsable
<1>5. PendingIsRight'
  BY DEF IInv, TypeOK, RollBack, Finish, PendingIsRight, rows
<1>6. RelativeReconciles'
  BY DEF IInv, TypeOK, RollBack, Finish, RelativeReconciles, Committed, rows, Open
<1>7. LinesMoveUnits'
  BY DEF IInv, TypeOK, RollBack, Finish, LinesMoveUnits
<1> QED BY <1>1, <1>2, <1>3, <1>4, <1>5, <1>6, <1>7 DEF IInv

\* A commit publishes exactly what its locks protect.
LEMMA CommitStep ==
  ASSUME IInv, NEW t \in Txns, Commit(t)
  PROVE  IInv'
<1>1. TypeOK'
  <2>1. counter' \in Nat /\ voided' \subseteq Txns
    BY DEF IInv, TypeOK, Commit, VoidedBy
  <2>2. lastRow' \in [Items -> [change : Int, after : Int]]
    BY DEF IInv, TypeOK, Commit, QuantityAfter, LedgerChange
  <2>3. quantity' \in [Items -> Int] /\ ledgerSum' \in [Items -> Int]
    BY DEF IInv, TypeOK, Commit, LedgerChange
  <2> QED BY <2>1, <2>2, <2>3 DEF IInv, TypeOK, Commit, Finish, CounterFreed, input, Open, Closed
<1>2. NonNegative'
  BY DEF IInv, TypeOK, Commit, NonNegative, PendingIsRight
<1>3. LastRowTruthful'
  BY DEF IInv, TypeOK, Commit, LastRowTruthful, QuantityAfter, LedgerChange, ChangeSigns
<1>4. ChangeSigns'
  BY DEF IInv, Commit, ChangeSigns, input
<1>5. LocksHeldByOpen' /\ ReadIsUsable'
  BY DEF IInv, TypeOK, Commit, Finish, LocksHeldByOpen, ReadIsUsable, input
<1>6. PendingIsRight'
  BY DEF IInv, TypeOK, Commit, Finish, PendingIsRight, input
<1>7. RelativeReconciles'
  <2> SUFFICES ASSUME NEW i \in Items \ Archived,
                      \A u \in Txns : Committed(u, Absolute)' => change'[u][i] = 0
               PROVE  quantity'[i] = ledgerSum'[i]
    BY DEF RelativeReconciles
  <2>1. \A u \in Txns : Committed(u, Absolute) => change[u][i] = 0
    BY DEF IInv, TypeOK, Commit, Finish, Committed, input, Finished
  <2>2. quantity[i] = ledgerSum[i]
    BY <2>1 DEF IInv, RelativeReconciles
  <2>3. CASE rowLock[i] # t
    BY <2>2, <2>3 DEF Commit
  <2>4. CASE rowLock[i] = t /\ kind[t] \in Relative \cup {"transfer"}
    BY <2>2, <2>4 DEF IInv, TypeOK, Commit, LedgerChange, PendingIsRight
  <2>5. CASE rowLock[i] = t /\ kind[t] \in Absolute
    <3>1. change[t][i] = 0
      BY <2>5 DEF IInv, TypeOK, Commit, Finish, Committed, input
    <3>2. change[t][i] # 0
      BY <2>5 DEF IInv, LinesMoveUnits
    <3> QED BY <3>1, <3>2
  <2> QED BY <2>3, <2>4, <2>5 DEF IInv, TypeOK, Kinds, Relative, Absolute
<1>8. LinesMoveUnits'
  BY DEF IInv, TypeOK, Commit, Finish, LinesMoveUnits, input
<1> QED BY <1>1, <1>2, <1>3, <1>4, <1>5, <1>6, <1>7, <1>8 DEF IInv

\* A restore leaves ledger, locks and requests alone; an item that it changes is
\* archived, not locked, and ends with a natural number of units.
LEMMA RestoreChanges ==
  ASSUME TypeOK, RestoreProduct
  PROVE  /\ UNCHANGED <<ledgerSum, lastRow, counter, voided, locks, input, local>>
         /\ quantity' \in [Items -> Int] /\ active' \in [Items -> BOOLEAN]
         /\ restored \subseteq restored' /\ restored' \subseteq Items
         /\ \A i \in Items :
              \/ quantity'[i] = quantity[i] /\ active'[i] = active[i]
              \/ i \in restored' \cap Archived /\ rowLock[i] = NoTxn /\ quantity'[i] >= 0
<1>1. PICK S \in (SUBSET Archived) \ {{}} :
        \E units \in [S -> 0..MaxInitial], on \in [S -> BOOLEAN] : Restore(S, units, on)
  BY DEF RestoreProduct
<1>2. PICK units \in [S -> 0..MaxInitial], on \in [S -> BOOLEAN] : Restore(S, units, on)
  BY <1>1
<1>3. \A i \in S : i \in Archived /\ units[i] \in Int /\ units[i] >= 0 /\ on[i] \in BOOLEAN
  BY <1>1, <1>2
<1>4. quantity' \in [Items -> Int] /\ active' \in [Items -> BOOLEAN]
  BY <1>2, <1>3 DEF Restore, TypeOK
<1>5. restored \subseteq restored' /\ restored' \subseteq Items
  BY <1>1, <1>2 DEF Restore, TypeOK
<1>6. ASSUME NEW i \in Items
      PROVE  \/ quantity'[i] = quantity[i] /\ active'[i] = active[i]
             \/ i \in restored' \cap Archived /\ rowLock[i] = NoTxn /\ quantity'[i] >= 0
  BY <1>2, <1>3 DEF Restore
<1> QED BY <1>2, <1>4, <1>5, <1>6 DEF Restore

LEMMA RestoreStep ==
  ASSUME IInv, RestoreProduct
  PROVE  IInv'
<1>1. TypeOK
  BY DEF IInv
<1>2. TypeOK'
  BY <1>1, RestoreChanges DEF TypeOK, locks, input, local
<1>3. NonNegative' /\ LastRowTruthful'
  BY <1>1, RestoreChanges DEF IInv, NonNegative, LastRowTruthful
<1>4. LocksHeldByOpen' /\ ReadIsUsable' /\ ChangeSigns' /\ LinesMoveUnits'
  BY <1>1, RestoreChanges DEF IInv, LocksHeldByOpen, ReadIsUsable, ChangeSigns, LinesMoveUnits,
     locks, input, local
<1>5. PendingIsRight'
  BY <1>1, RestoreChanges DEF IInv, PendingIsRight, locks, input, local
<1>6. RelativeReconciles'
  BY <1>1, RestoreChanges DEF IInv, RelativeReconciles, Committed, input, local
<1> QED BY <1>2, <1>3, <1>4, <1>5, <1>6 DEF IInv

LEMMA SetActiveStep ==
  ASSUME IInv, NEW i \in Items, NEW b \in BOOLEAN, SetActive(i, b)
  PROVE  IInv'
<1>1. TypeOK'
  BY DEF IInv, TypeOK, SetActive, locks, input, local
<1>2. NonNegative' /\ LastRowTruthful' /\ ChangeSigns' /\ PendingIsRight' /\ LinesMoveUnits'
  BY DEF IInv, SetActive, NonNegative, LastRowTruthful, ChangeSigns, PendingIsRight,
     LinesMoveUnits, locks, input, local
<1>3. LocksHeldByOpen' /\ ReadIsUsable' /\ RelativeReconciles'
  BY DEF IInv, SetActive, LocksHeldByOpen, ReadIsUsable, RelativeReconciles, Committed,
     locks, input, local
<1> QED BY <1>1, <1>2, <1>3 DEF IInv

\* Every step of the system keeps the invariant.
LEMMA NextIInv == IInv /\ [Next]_vars => IInv'
<1> SUFFICES ASSUME IInv, [Next]_vars PROVE IInv'
  OBVIOUS
<1>1. ASSUME NEW t \in Txns, Arrive(t) PROVE IInv'
  BY <1>1, BeginStep
<1>2. ASSUME NEW t \in Txns, Work(t) PROVE IInv'
  <2>1. CASE TakeNumber(t)
    BY <2>1, TakeNumberStep
  <2>2. CASE DecrementLine(t) \/ IncrementLine(t) \/ WriteLine(t)
    BY <2>2, LineStep
  <2>3. CASE ReadLine(t)
    BY <2>3, ReadLineStep
  <2>4. CASE RefuseLine(t) \/ RefuseDuplicate(t)
    BY <2>4, RollBackStep DEF RefuseLine, RefuseDuplicate, AtLine, Finished, Open
  <2>5. CASE Commit(t)
    BY <2>5, CommitStep
  <2> QED BY <1>2, <2>1, <2>2, <2>3, <2>4, <2>5 DEF Work
<1>3. ASSUME NEW t \in Txns, Abort(t) \/ DeadlockVictim(t) PROVE IInv'
  BY <1>3, RollBackStep DEF Abort, DeadlockVictim
<1>4. ASSUME NEW i \in Items, NEW b \in BOOLEAN, SetActive(i, b) PROVE IInv'
  BY <1>4, SetActiveStep
<1>5. CASE UNCHANGED vars
  BY <1>5 DEF vars, rows, locks, input, local, IInv, TypeOK, NonNegative, LocksHeldByOpen,
     ReadIsUsable, ChangeSigns, LinesMoveUnits, PendingIsRight, LastRowTruthful,
     RelativeReconciles, Committed
<1>6. CASE RestoreProduct
  BY <1>6, RestoreStep
<1> QED BY <1>1, <1>2, <1>3, <1>4, <1>5, <1>6 DEF Next

-----------------------------------------------------------------------------
THEOREM Invariance == Spec => []IInv
BY InitIInv, NextIInv, PTL DEF Spec

\* Every variable keeps its type.
THEOREM TypeCorrect == Spec => []TypeOK
<1>1. IInv => TypeOK
  BY DEF IInv
<1> QED BY Invariance, <1>1, PTL

\* Whatever handlers overlap, no item's committed quantity is ever negative.
THEOREM StockNeverNegative == Spec => []NonNegative
<1>1. IInv => NonNegative
  BY DEF IInv
<1> QED BY Invariance, <1>1, PTL

\* The newest ledger row, when it moved units, states the quantity of every item
\* that no archive has been restored over since.
THEOREM LedgerTailTruthful == Spec => []LastRowTruthful
<1>1. IInv => LastRowTruthful
  BY DEF IInv
<1> QED BY Invariance, <1>1, PTL

\* Items in no archive, touched only by sales, returns and voids, always reconcile.
THEOREM RelativeWritersReconcile == Spec => []RelativeReconciles
<1>1. IInv => RelativeReconciles
  BY DEF IInv
<1> QED BY Invariance, <1>1, PTL

-----------------------------------------------------------------------------
\* A committed request stays committed with its input, and only Commit commits.
LEMMA CommittedIsFinal ==
  ASSUME TypeOK, [Next]_vars, NEW t \in Txns
  PROVE  /\ pc[t] = "committed" =>
              pc'[t] = "committed" /\ op'[t] = op[t] /\ kind'[t] = kind[t] /\ change'[t] = change[t]
         /\ pc[t] # "committed" /\ pc'[t] = "committed" => Commit(t)
<1>1. ASSUME NEW u \in Txns, NEW k, NEW S, NEW ch, NEW o, NEW s, Begin(u, k, S, ch, o, s)
      PROVE  /\ pc[t] = "committed" =>
                  pc'[t] = "committed" /\ op'[t] = op[t] /\ kind'[t] = kind[t] /\ change'[t] = change[t]
             /\ pc'[t] = "committed" => pc[t] = "committed"
  BY <1>1 DEF Begin, TypeOK, input
<1>2. ASSUME NEW u \in Txns, Arrive(u)
      PROVE  /\ pc[t] = "committed" =>
                  pc'[t] = "committed" /\ op'[t] = op[t] /\ kind'[t] = kind[t] /\ change'[t] = change[t]
             /\ pc'[t] = "committed" => pc[t] = "committed"
  BY <1>1, <1>2 DEF Arrive, BeginSale, BeginMutate, BeginPurchase, BeginTransfer, BeginReturn, BeginVoid
<1>3. ASSUME NEW u \in Txns, Commit(u)
      PROVE  /\ pc'[t] = "committed" => pc[t] = "committed" \/ t = u
             /\ pc[t] = "committed" => pc'[t] = "committed"
             /\ UNCHANGED input
  BY <1>3 DEF Commit, Finish, TypeOK
<1>4. ASSUME NEW u \in Txns, pc[u] \in Open, RollBack(u)
      PROVE  /\ pc[t] = "committed" =>
                  pc'[t] = "committed" /\ op'[t] = op[t] /\ kind'[t] = kind[t] /\ change'[t] = change[t]
             /\ pc'[t] = "committed" => pc[t] = "committed"
  BY <1>4 DEF RollBack, Finish, TypeOK, Open
<1>5. ASSUME NEW u \in Txns, TakeNumber(u) \/ DecrementLine(u) \/ IncrementLine(u)
                             \/ ReadLine(u) \/ WriteLine(u)
      PROVE  /\ pc[t] = "committed" => pc'[t] = "committed"
             /\ pc'[t] = "committed" => pc[t] = "committed"
             /\ UNCHANGED input
  BY <1>5 DEF TakeNumber, DecrementLine, IncrementLine, ReadLine, WriteLine, Wrote, AtLine, TypeOK
<1>6. ASSUME NEW u \in Txns, RefuseLine(u) \/ RefuseDuplicate(u) \/ Abort(u) \/ DeadlockVictim(u)
      PROVE  pc[u] \in Open /\ RollBack(u)
  BY <1>6 DEF RefuseLine, RefuseDuplicate, Abort, DeadlockVictim, AtLine, Finished, Open
<1>7. CASE UNCHANGED vars \/ \E i \in Items, b \in BOOLEAN : SetActive(i, b)
  BY <1>7 DEF vars, local, input, SetActive
<1>8. CASE RestoreProduct
  BY <1>8, RestoreChanges DEF local, input
<1> QED BY <1>2, <1>3, <1>4, <1>5, <1>6, <1>7, <1>8 DEF Next, Work, input

\* An operationId takes effect at most once per table: the commit that would be
\* the second is refused by the unique index.
THEOREM RetriesApplyOnce == Spec => []AppliedOnce
<1>1. Init => AppliedOnce
  BY DEF Init, AppliedOnce
<1>2. ASSUME TypeOK, AppliedOnce, [Next]_vars
      PROVE  AppliedOnce'
  <2> SUFFICES ASSUME NEW t \in Txns, NEW u \in Txns, t # u,
                      pc'[t] = "committed", pc'[u] = "committed",
                      op'[t] = op'[u], Table(kind'[t]) = Table(kind'[u])
               PROVE  op'[t] = NoOp
    BY DEF AppliedOnce, Table
  <2>1. CASE pc[t] = "committed" /\ pc[u] = "committed"
    BY <1>2, <2>1, CommittedIsFinal DEF AppliedOnce
  <2>2. CASE pc[t] # "committed"
    <3>1. Commit(t)
      BY <1>2, <2>2, CommittedIsFinal
    <3>2. op' = op /\ kind' = kind /\ pc[u] = "committed"
      BY <1>2, <3>1 DEF Commit, Finish, input, TypeOK
    <3> QED BY <3>1, <3>2 DEF Commit, UniqueOp, Recorded
  <2>3. CASE pc[u] # "committed"
    <3>1. Commit(u)
      BY <1>2, <2>3, CommittedIsFinal
    <3>2. op' = op /\ kind' = kind /\ pc[t] = "committed"
      BY <1>2, <3>1 DEF Commit, Finish, input, TypeOK
    <3> QED BY <3>1, <3>2 DEF Commit, UniqueOp, Recorded
  <2> QED BY <2>1, <2>2, <2>3
<1> QED BY <1>1, <1>2, TypeCorrect, PTL DEF Spec

\* Only a commit of some transaction changes a ledger, and only that or a
\* restore a quantity.
LEMMA OnlyCommitsPublish ==
  ASSUME TypeOK, [Next]_vars, <<quantity, ledgerSum>>' # <<quantity, ledgerSum>>, ~RestoreProduct
  PROVE  \E t \in Txns : Commit(t)
<1>1. ASSUME NEW u \in Txns, Arrive(u) PROVE UNCHANGED rows
  BY <1>1 DEF Arrive, BeginSale, BeginMutate, BeginPurchase, BeginTransfer, BeginReturn,
     BeginVoid, Begin
<1>2. ASSUME NEW u \in Txns, Work(u), ~Commit(u) PROVE UNCHANGED rows
  BY <1>2 DEF Work, TakeNumber, DecrementLine, IncrementLine, ReadLine, WriteLine, Wrote,
     RefuseLine, RefuseDuplicate, RollBack
<1>3. ASSUME NEW u \in Txns, Abort(u) \/ DeadlockVictim(u) PROVE UNCHANGED rows
  BY <1>3 DEF Abort, DeadlockVictim, RollBack
<1> QED BY <1>1, <1>2, <1>3 DEF Next, SetActive, rows, vars

\* Drift between an item and its ledger appears only when an absolute write
\* commits over a quantity that is no longer the one it was computed from, or an
\* archive that holds the item is restored.
THEOREM DriftIsExplained == Spec => DriftHasTwoCauses
<1>1. ASSUME IInv, [Next]_vars, NEW i \in Items, Drift(i)' # Drift(i)
      PROVE  SetByRestore(i) \/ \E t \in Txns : StaleWrite(t, i)
  <2>1. TypeOK
    BY <1>1 DEF IInv
  <2>2. CASE RestoreProduct
    BY <1>1, <2>1, <2>2, RestoreChanges DEF Drift, SetByRestore
  <2>3. CASE ~RestoreProduct
    <3>1. PICK t \in Txns : Commit(t)
      BY <1>1, <2>1, <2>3, OnlyCommitsPublish DEF Drift
    <3>2. /\ quantity[i] \in Int /\ ledgerSum[i] \in Int
          /\ pend[t][i] \in Int /\ change[t][i] \in Int
      BY <2>1 DEF TypeOK
    <3>3. rowLock[i] = t /\ pend[t][i] # quantity[i] + change[t][i]
      BY <1>1, <3>1, <3>2 DEF Commit, LedgerChange, Drift
    <3>4. kind[t] \in Absolute
      BY <1>1, <3>3 DEF IInv, TypeOK, PendingIsRight, Kinds, Relative, Absolute
    <3>5. pc[t] # "committed" /\ pc'[t] = "committed" /\ kind' = kind
      BY <2>1, <3>1 DEF Commit, Finish, Finished, input, TypeOK
    <3> QED BY <3>3, <3>4, <3>5 DEF Committed, StaleWrite
  <2> QED BY <2>2, <2>3
<1>2. IInv /\ [Next]_vars =>
        [\A i \in Items : Drift(i)' # Drift(i) =>
           SetByRestore(i) \/ \E t \in Txns : StaleWrite(t, i)]_vars
  BY <1>1
<1> QED BY <1>2, Invariance, PTL DEF Spec, DriftHasTwoCauses

-----------------------------------------------------------------------------
\* An open sale holds the lock of every line it is past, so that no removal of
\* the item and no other write comes between its statements and its commit.
LEMMA SaleLocksStep ==
  ASSUME IInv, SaleLocks, [Next]_vars
  PROVE  SaleLocks'
<1> USE DEF SaleLocks
<1>1. ASSUME NEW t \in Txns, Arrive(t) PROVE SaleLocks'
  <2>0. PICK k \in Kinds, S \in SUBSET Items, o \in Ops \cup {NoOp}, s \in Txns \cup {NoTxn} :
          \E ch : Begin(t, k, S, ch, o, s)
    BY <1>1, ArriveBegins DEF IInv
  <2>1. PICK ch : Begin(t, k, S, ch, o, s)
    BY <2>0
  <2>2. UNCHANGED <<rows, locks>> /\ pc[t] = "idle"
    BY <2>1 DEF Begin
  <2>3. \A i \in Items : rowLock[i] # t
    BY <2>2 DEF IInv, LocksHeldByOpen
  <2>4. CASE pc' = [pc EXCEPT ![t] = "replayed"] /\ UNCHANGED <<input, next, left>>
    BY <2>2, <2>4 DEF IInv, TypeOK, rows, locks, input, Open
  <2>5. CASE /\ pc' = [pc EXCEPT ![t] = IF k = "sale" THEN "begun" ELSE "lines"]
             /\ kind' = [kind EXCEPT ![t] = k]
             /\ change' = [change EXCEPT ![t] = [i \in Items |-> IF i \in S THEN ch[i] ELSE 0]]
             /\ \E i \in S : /\ next' = [next EXCEPT ![t] = i]
                             /\ left' = [left EXCEPT ![t] = S \ {i}]
    BY <2>2, <2>3, <2>5 DEF IInv, TypeOK, rows, locks, Open
  <2> QED BY <2>1, <2>4, <2>5 DEF Begin
<1>2. ASSUME NEW t \in Txns, TakeNumber(t) \/ ReadLine(t) PROVE SaleLocks'
  <2>1. /\ UNCHANGED <<active, rowLock, kind, change, next, left>>
        /\ \A u \in Txns : pc'[u] \in Open => pc[u] \in Open
    BY <1>2 DEF TakeNumber, ReadLine, AtLine, IInv, TypeOK, rows, locks, input, Open
  <2> QED BY <2>1
<1>3. ASSUME NEW t \in Txns, NEW q, Wrote(t, q), pc[t] \in {"lines", "read"},
             next[t] \in Items, kind[t] = "sale" => active[next[t]]
      PROVE  SaleLocks'
  <2>1. /\ rowLock[next[t]] = NoTxn
        /\ rowLock' = [rowLock EXCEPT ![next[t]] = t]
        /\ pc' = [pc EXCEPT ![t] = "lines"]
        /\ UNCHANGED <<rows, input>>
    BY <1>3 DEF Wrote
  <2>2. CASE left[t] = {} /\ next' = [next EXCEPT ![t] = NoItem] /\ UNCHANGED left
    BY <1>3, <2>1, <2>2 DEF IInv, TypeOK, rows, input, Open
  <2>3. CASE \E j \in left[t] : /\ next' = [next EXCEPT ![t] = j]
                               /\ left' = [left EXCEPT ![t] = @ \ {j}]
    BY <1>3, <2>1, <2>3 DEF IInv, TypeOK, rows, input, Open
  <2> QED BY <1>3, <2>2, <2>3 DEF Wrote
<1>4. ASSUME NEW t \in Txns, DecrementLine(t) \/ IncrementLine(t) \/ WriteLine(t) PROVE SaleLocks'
  <2>1. CASE DecrementLine(t)
    BY <1>3, <2>1 DEF DecrementLine, AtLine, Sellable, IInv, TypeOK
  <2>2. CASE IncrementLine(t)
    <3>1. /\ Wrote(t, quantity[next[t]] + change[t][next[t]])
          /\ pc[t] = "lines" /\ next[t] \in Items /\ kind[t] # "sale"
      BY <2>2 DEF IncrementLine, AtLine, IInv, TypeOK
    <3> QED BY <1>3, <3>1
  <2>3. CASE WriteLine(t)
    BY <1>3, <2>3 DEF WriteLine, IInv, ReadIsUsable, Absolute
  <2> QED BY <1>4, <2>1, <2>2, <2>3
<1>5. ASSUME NEW t \in Txns, RollBack(t) PROVE SaleLocks'
  BY <1>5 DEF RollBack, Finish, CounterFreed, IInv, TypeOK, rows, Open
<1>6. ASSUME NEW t \in Txns, Commit(t) PROVE SaleLocks'
  BY <1>6 DEF Commit, Finish, IInv, TypeOK, input, Open
<1>7. ASSUME NEW t \in Txns, RefuseLine(t) \/ RefuseDuplicate(t) \/ Abort(t) \/ DeadlockVictim(t)
      PROVE  RollBack(t)
  BY <1>7 DEF RefuseLine, RefuseDuplicate, Abort, DeadlockVictim
<1>8. ASSUME NEW i \in Items, NEW b \in BOOLEAN, SetActive(i, b) PROVE SaleLocks'
  BY <1>8 DEF SetActive, IInv, TypeOK, locks, input, local
<1>10. CASE RestoreProduct
  BY <1>10, RestoreChanges DEF IInv, locks, input, local
<1>9. CASE UNCHANGED vars
  BY <1>9 DEF vars, rows, locks, input, local
<1> QED BY <1>1, <1>2, <1>4, <1>5, <1>6, <1>7, <1>8, <1>9, <1>10 DEF Next, Work

LEMMA SaleLocksAlways == Spec => []SaleLocks
<1>1. Init => SaleLocks
  BY DEF Init, SaleLocks, Open
<1> QED BY <1>1, SaleLocksStep, Invariance, PTL DEF Spec

\* All lines of a sale take effect in the one step that commits it.
THEOREM SalesAreAtomic == Spec => SaleIsAtomic
<1>1. ASSUME IInv, SaleLocks, [Next]_vars, NEW t \in Txns,
             pc[t] # "committed", Committed(t, {"sale"})', NEW i \in Items
      PROVE  quantity'[i] = quantity[i] + change[t][i]
  <2>1. Commit(t) /\ kind[t] = "sale"
    <3>1. Commit(t)
      BY <1>1, CommittedIsFinal DEF Committed, IInv
    <3> QED BY <1>1, <3>1 DEF Commit, Committed, input
  <2>2. CASE rowLock[i] = t
    BY <1>1, <2>1, <2>2 DEF Commit, IInv, TypeOK, PendingIsRight, Relative
  <2>3. CASE rowLock[i] # t
    <3>1. change[t][i] = 0
      <4>1. next[t] = NoItem /\ pc[t] \in Open
        BY <2>1 DEF Commit, Finished, Open
      <4>2. left[t] = {}
        BY <1>1, <2>1, <4>1 DEF SaleLocks
      <4> QED BY <1>1, <2>1, <2>3, <4>1, <4>2 DEF SaleLocks
    <3> QED BY <1>1, <2>1, <2>3, <3>1 DEF Commit, IInv, TypeOK
  <2> QED BY <2>2, <2>3
<1>2. IInv /\ SaleLocks /\ [Next]_vars =>
        [\A t \in Txns : pc[t] # "committed" /\ Committed(t, {"sale"})'
           => \A i \in Items : quantity'[i] = quantity[i] + change[t][i]]_vars
  BY <1>1
<1> QED BY <1>2, Invariance, SaleLocksAlways, PTL DEF Spec, SaleIsAtomic

\* A sale commits only on items that are active when it commits.
THEOREM RemovedItemsAreNotSold == Spec => NoSaleOfRemovedItem
<1>1. ASSUME IInv, SaleLocks, [Next]_vars, NEW t \in Txns,
             pc[t] # "committed", Committed(t, {"sale"})', NEW i \in LineItems(t)
      PROVE  active[i]
  <2>1. Commit(t) /\ kind[t] = "sale"
    <3>1. Commit(t)
      BY <1>1, CommittedIsFinal DEF Committed, IInv
    <3> QED BY <1>1, <3>1 DEF Commit, Committed, input
  <2>2. next[t] = NoItem /\ pc[t] \in Open /\ i \in Items /\ change[t][i] # 0
    BY <1>1, <2>1 DEF Commit, Finished, Open, LineItems
  <2>3. rowLock[i] = t
    BY <1>1, <2>1, <2>2 DEF SaleLocks
  <2> QED BY <1>1, <2>1, <2>2, <2>3 DEF SaleLocks
<1>2. IInv /\ SaleLocks /\ [Next]_vars =>
        [\A t \in Txns : pc[t] # "committed" /\ Committed(t, {"sale"})'
           => \A i \in LineItems(t) : active[i]]_vars
  BY <1>1
<1> QED BY <1>2, Invariance, SaleLocksAlways, PTL DEF Spec, NoSaleOfRemovedItem

-----------------------------------------------------------------------------
\* The counter's row lock: only the sale that holds it has a number that is not
\* issued yet, so no other step takes the number or moves the counter.
LEMMA NumberIsNextStep ==
  ASSUME IInv, NumberIsNext, [Next]_vars
  PROVE  NumberIsNext'
<1> USE DEF NumberIsNext
<1>1. ASSUME NEW t \in Txns, Arrive(t) PROVE NumberIsNext'
  <2>0. PICK k \in Kinds, S \in SUBSET Items, o \in Ops \cup {NoOp}, s \in Txns \cup {NoTxn} :
          \E ch : Begin(t, k, S, ch, o, s)
    BY <1>1, ArriveBegins DEF IInv
  <2>1. PICK ch : Begin(t, k, S, ch, o, s)
    BY <2>0
  <2>2. /\ UNCHANGED <<counter, counterLock, number>>
        /\ \A u \in Txns \ {t} : pc'[u] = pc[u] /\ kind'[u] = kind[u]
        /\ pc'[t] \in {"lines", "read"} => kind'[t] # "sale"
    BY <2>1 DEF Begin, IInv, TypeOK, rows, locks, input
  <2> QED BY <2>2
<1>2. ASSUME NEW t \in Txns, TakeNumber(t) PROVE NumberIsNext'
  BY <1>2 DEF TakeNumber, IInv, TypeOK, rows, input
<1>3. ASSUME NEW t \in Txns, DecrementLine(t) \/ IncrementLine(t) \/ ReadLine(t) \/ WriteLine(t)
      PROVE  NumberIsNext'
  <2>1. /\ pc[t] \in {"lines", "read"}
        /\ UNCHANGED <<counter, counterLock, number, kind>>
        /\ \A u \in Txns \ {t} : pc'[u] = pc[u]
    BY <1>3 DEF DecrementLine, IncrementLine, ReadLine, WriteLine, Wrote, AtLine, IInv, TypeOK,
       rows, locks, input
  <2> QED BY <2>1
<1>4. ASSUME NEW t \in Txns, RollBack(t) PROVE NumberIsNext'
  BY <1>4 DEF RollBack, Finish, CounterFreed, IInv, TypeOK, rows
<1>5. ASSUME NEW t \in Txns, Commit(t) PROVE NumberIsNext'
  <2>1. /\ pc[t] = "lines" /\ pc'[t] = "committed" /\ UNCHANGED <<kind, number>>
        /\ \A u \in Txns \ {t} : pc'[u] = pc[u]
        /\ counterLock' = IF counterLock = t THEN NoTxn ELSE counterLock
        /\ counter' = IF kind[t] = "sale" THEN number[t] ELSE counter
    BY <1>5 DEF Commit, Finished, Finish, CounterFreed, IInv, TypeOK, input
  <2> QED BY <2>1
<1>6. ASSUME NEW t \in Txns, RefuseLine(t) \/ RefuseDuplicate(t) \/ Abort(t) \/ DeadlockVictim(t)
      PROVE  RollBack(t)
  BY <1>6 DEF RefuseLine, RefuseDuplicate, Abort, DeadlockVictim
<1>7. ASSUME NEW i \in Items, NEW b \in BOOLEAN, SetActive(i, b) PROVE NumberIsNext'
  BY <1>7 DEF SetActive, locks, input, local
<1>9. CASE RestoreProduct
  BY <1>9, RestoreChanges DEF IInv, locks, input, local
<1>8. CASE UNCHANGED vars
  BY <1>8 DEF vars, rows, locks, input, local
<1> QED BY <1>1, <1>2, <1>3, <1>4, <1>5, <1>6, <1>7, <1>8, <1>9 DEF Next, Work

\* Only the commit of a sale moves the counter, and it issues the number it took.
LEMMA CounterMoves ==
  ASSUME IInv, [Next]_vars
  PROVE  \/ /\ counter' = counter
            /\ \A t \in Txns : Committed(t, {"sale"})' = Committed(t, {"sale"})
            /\ \A t \in Txns : Committed(t, {"sale"}) => number'[t] = number[t]
         \/ \E t \in Txns :
              /\ Commit(t) /\ kind[t] = "sale" /\ counter' = number[t]
              /\ \A u \in Txns : Committed(u, {"sale"})' <=> (u = t \/ Committed(u, {"sale"}))
              /\ number' = number
<1> DEFINE Kept == /\ counter' = counter
                  /\ \A t \in Txns : Committed(t, {"sale"})' = Committed(t, {"sale"})
                  /\ \A u \in Txns : Committed(u, {"sale"}) => number'[u] = number[u]
<1>1. ASSUME NEW t \in Txns, Commit(t), kind[t] = "sale"
      PROVE  /\ counter' = number[t] /\ number' = number
             /\ \A u \in Txns : Committed(u, {"sale"})' <=> (u = t \/ Committed(u, {"sale"}))
  BY <1>1 DEF Commit, Finish, Committed, IInv, TypeOK, input
<1>2. ASSUME NEW t \in Txns, Commit(t), kind[t] # "sale" PROVE Kept
  BY <1>2 DEF Commit, Finish, Finished, Committed, IInv, TypeOK, input
<1>3. ASSUME ~\E t \in Txns : Commit(t) PROVE Kept
  <2>1. \A t \in Txns : Committed(t, {"sale"})' = Committed(t, {"sale"})
    BY <1>3, CommittedIsFinal DEF Committed, IInv
  <2>2. ASSUME NEW u \in Txns, Arrive(u) PROVE counter' = counter /\ number' = number
    BY <2>2 DEF Arrive, BeginSale, BeginMutate, BeginPurchase, BeginTransfer, BeginReturn,
       BeginVoid, Begin, rows
  <2>3. ASSUME NEW u \in Txns, RollBack(u), pc[u] \in Open
        PROVE  counter' = counter /\ \A t \in Txns : Committed(t, {"sale"}) => number'[t] = number[t]
    BY <2>3 DEF RollBack, Committed, IInv, TypeOK, rows, Open
  <2>4. ASSUME NEW u \in Txns, TakeNumber(u)
        PROVE  counter' = counter /\ \A t \in Txns : Committed(t, {"sale"}) => number'[t] = number[t]
    BY <2>4 DEF TakeNumber, Committed, IInv, TypeOK, rows
  <2>5. ASSUME NEW u \in Txns, DecrementLine(u) \/ IncrementLine(u) \/ ReadLine(u) \/ WriteLine(u)
        PROVE  counter' = counter /\ number' = number
    BY <2>5 DEF DecrementLine, IncrementLine, ReadLine, WriteLine, Wrote, rows
  <2>6. ASSUME NEW u \in Txns, RefuseLine(u) \/ RefuseDuplicate(u) \/ Abort(u) \/ DeadlockVictim(u)
        PROVE  RollBack(u) /\ pc[u] \in Open
    BY <2>6 DEF RefuseLine, RefuseDuplicate, Abort, DeadlockVictim, AtLine, Finished, Open
  <2>7. CASE UNCHANGED vars \/ \E i \in Items, b \in BOOLEAN : SetActive(i, b)
    BY <2>1, <2>7 DEF vars, rows, local, SetActive
  <2>8. CASE RestoreProduct
    BY <2>1, <2>8, RestoreChanges DEF IInv, local
  <2> QED BY <1>3, <2>1, <2>2, <2>3, <2>4, <2>5, <2>6, <2>7, <2>8 DEF Next, Work
<1> QED BY <1>1, <1>2, <1>3

\* Whatever fails after taking a number, the issued invoices are numbered 1, 2, ...
\* up to the counter, each number once.
THEOREM InvoicesAreGapless == Spec => []NumbersGapless
<1>1. Init => NumbersGapless /\ NumberIsNext
  BY DEF Init, NumbersGapless, NumberIsNext, Committed
<1>2. ASSUME IInv, NumberIsNext, NumbersGapless, [Next]_vars
      PROVE  NumbersGapless'
  <2> DEFINE issued == {t \in Txns : Committed(t, {"sale"})}
  <2>1. counter \in Nat /\ number \in [Txns -> Nat]
    BY <1>2 DEF IInv, TypeOK
  <2>2. CASE /\ counter' = counter
             /\ \A t \in Txns : Committed(t, {"sale"})' = Committed(t, {"sale"})
             /\ \A t \in Txns : Committed(t, {"sale"}) => number'[t] = number[t]
    BY <1>2, <2>2 DEF NumbersGapless
  <2>3. ASSUME NEW t \in Txns, Commit(t), kind[t] = "sale", counter' = number[t], number' = number,
               \A u \in Txns : Committed(u, {"sale"})' <=> (u = t \/ Committed(u, {"sale"}))
        PROVE  NumbersGapless'
    <3>1. number[t] = counter + 1
      BY <1>2, <2>3 DEF NumberIsNext, Commit, Finished
    <3>2. issued' = issued \cup {t}
      BY <2>3
    <3>3. /\ \A n : n \in 1..counter <=> \E u \in issued : number[u] = n
          /\ \A u, v \in issued : number[u] = number[v] => u = v
      BY <1>2 DEF NumbersGapless
    <3>4. \A n : n \in 1..counter' <=> n \in 1..counter \/ n = counter + 1
      BY <2>1, <2>3, <3>1
    <3>5. \A u, v \in issued' : number'[u] = number'[v] => u = v
      <4>1. \A u \in issued : number[u] # counter + 1
        BY <2>1, <3>3
      <4> QED BY <2>3, <3>1, <3>2, <3>3, <4>1
    <3>6. {number'[u] : u \in issued'} = 1..counter'
      BY <2>3, <3>1, <3>2, <3>3, <3>4
    <3> QED BY <3>5, <3>6 DEF NumbersGapless
  <2> QED BY <1>2, <2>2, <2>3, CounterMoves
<1> QED BY <1>1, <1>2, NumberIsNextStep, Invariance, PTL DEF Spec
=============================================================================
