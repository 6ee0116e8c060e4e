SPECIFICATION Spec
CONSTANTS
  One = {r1}
  Two = {r1, r2}
  None = None
  MaxFaults = 1
  Products = {p1, p2, p3}
  Lines = {l1, l2}
  Brands = {b1, b2}
  Odd = {}
  Radix = 2
  Wide = 4
  MaxCode = 4
  Hall = Hall
  Rack = Rack
  Box = Box
  Places = {Hall, Rack, Box}
  Items = {i1}
  Same = Same
  MaxPrice = 1
  Interval = 1
  MaxClock = 1
INVARIANTS SomeStatementHolds
CHECK_DEADLOCK FALSE
