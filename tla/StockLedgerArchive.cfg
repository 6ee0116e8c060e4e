SPECIFICATION FairSpec
CONSTANTS
  Items = {i1, i2}
  Txns = {t1, t2}
  Ops = {}
  NoTxn = NoTxn
  NoItem = NoItem
  NoOp = NoOp
  MaxUnits = 1
  MaxInitial = 1
  MaxLines = 2
  Archived = {i1}
INVARIANTS LastRowTruthful
PROPERTIES DriftHasTwoCauses NoSaleOfRemovedItem RequestsEnd
CHECK_DEADLOCK FALSE
