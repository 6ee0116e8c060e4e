SPECIFICATION Spec
CONSTANTS
  Ops = {o1}
  Requests = {r1, r2, r3}
  Timers = {timer}
  NoOp = NoOp
  MaxCrashes = 1
INVARIANTS TypeOK EffectAtMostOnce AppliedIsTrue ConflictsAreDecidable
PROPERTIES RevivedOnlyByDecision ImplementsOutcome
SYMMETRY Symmetry
CHECK_DEADLOCK FALSE
