SPECIFICATION Spec
CONSTANTS
  Ops = {o1}
  Requests = {r1}
  Timers = {timer}
  NoOp = NoOp
  MaxCrashes = 0
PROPERTIES AppliedIsFinal
CHECK_DEADLOCK FALSE
