SPECIFICATION MCSpec
CONSTANTS
  Entities = {e1}
  Changes = {c1, c2, c3}
  Devices = {d1}
  Limit = 1
  MaxFaults = 1
INVARIANTS SomeFeedStatementHolds
CHECK_DEADLOCK FALSE
