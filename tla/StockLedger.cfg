SPECIFICATION Spec
CONSTANTS
  Items = {i1, i2}
  Txns = {t1, t2, t3}
  Ops = {o1}
  NoTxn = NoTxn
  NoItem = NoItem
  NoOp = NoOp
  MaxUnits = 1
  MaxInitial = 1
  MaxLines = 2
  Archived = {}
SYMMETRY Symmetry
CONSTRAINT RetriesRepeat
INVARIANTS TypeOK NonNegative NumbersGapless AppliedOnce
PROPERTIES SaleIsAtomic
CHECK_DEADLOCK FALSE
