SPECIFICATION Spec
CONSTANTS
  One = {r1}
  Two = {r1, r2}
  MaxFaults = 1
  Unused = Unused
  Ops = {o1}
  Timers = {timer}
  NoOp = NoOp
  Invoices = {i1}
  NoCode = NoCode
  MaxAttempts = 2
  Interval = 1
  MaxClock = 2
INVARIANTS DuplicateOnlyAfterLostAnswer
PROPERTIES RetiredForGood SavedSettingsHold PendingIsResolved JobsEnd DueIsArchived
CHECK_DEADLOCK FALSE
