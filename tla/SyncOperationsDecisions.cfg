SPECIFICATION Spec
CONSTANTS
  Ops = {o1}
  Requests = {r1, r2, r3}
  Timers = {timer}
  NoOp = NoOp
  MaxCrashes = 0
INVARIANTS DecisionsAreTaken
CHECK_DEADLOCK FALSE
