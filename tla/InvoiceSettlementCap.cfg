SPECIFICATION Spec
CONSTANTS
  v1 = v1
  v2 = v2
  l1 = l1
  Invoices = {v1, v2}
  Lines = {l1}
  Txns = {t1, t2}
  Ops = {}
  NoTxn = NoTxn
  NoInvoice = NoInvoice
  NoLine = NoLine
  NoOp = NoOp
  Total <- MCTotal
  Units <- MCUnits
  Price <- MCPrice
  Age <- MCAge
  MaxAmount = 3
SYMMETRY Symmetry
PROPERTIES PaymentCappedAtNet
CHECK_DEADLOCK FALSE
