SPECIFICATION Spec
CONSTANTS
  v1 = v1
  v2 = v2
  l1 = l1
  o1 = o1
  Invoices = {v1, v2}
  Lines = {l1}
  t1 = t1
  t2 = t2
  t3 = t3
  Txns = {t1, t2, t3}
  Ops = {o1}
  NoTxn = NoTxn
  NoInvoice = NoInvoice
  NoLine = NoLine
  NoOp = NoOp
  Total <- MCTotal
  Units <- MCUnits
  Price <- MCPrice
  Age <- MCAge
  MaxAmount = 3
SYMMETRY Symmetry
INVARIANTS TypeOK PaidOncePerOperation ReturnsWithinSold PaidWithinTotal ReceiptsAllocated
PROPERTIES NoReturnAfterVoid LostOnlyByStaleRead FreshCommitSettles
CHECK_DEADLOCK FALSE
