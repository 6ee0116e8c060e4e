SPECIFICATION Spec
CONSTANTS
  Two = {r1, r2}
  Three = {r1, r2, r3}
  None = None
  MaxFaults = 1
  Unused = Unused
  Entities = {e1, e2}
  Changes = {c1, c2}
  Devices = {d1}
  Limit = 1
  Hall = Hall
  Rack = Rack
  Box = Box
  Places = {Hall, Rack, Box}
  Items = {i1}
  Same = Same
  Products = {p1, p2}
  Lines = {l1}
  Brands = {b1}
  Odd = {}
  Radix = 2
  Wide = 4
  MaxCode = 1
  Root = Root
  Child = Child
  Twin = Twin
  Nephew = Nephew
  Spare = Spare
  Sites = {Root, Child, Twin, Nephew, Spare}
  Codes = {"a", "b"}
  Pictures = {i1}
  Suppliers = {s1}
  Orders = {o1}
  MaxAmount = 2
  MaxPrice = 2
INVARIANTS TypeOK OneRowTellsAll NoCodeCollision SupplierPaidExactly CookieLives
PROPERTIES MissedInFourWays TreeBrokenOnlyByOverlap MisfiledOnlyByMove DeletionHolds RestoredAsArchived HistoryTells
CHECK_DEADLOCK FALSE
