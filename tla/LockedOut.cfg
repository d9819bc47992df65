SPECIFICATION Spec
CONSTANTS
  Servers = {s1}
  Pages = {p1}
  Items = {"a", "b"}
  Initial <- MCInitial
  MaxSaves = 2
INVARIANTS SavePossible
CHECK_DEADLOCK FALSE
