SPECIFICATION Spec
CONSTANTS
  Servers = {s1, s2}
  Pages = {p1, p2}
  Items = {"a", "b"}
  Initial <- MCInitial
  MaxSaves = 2
INVARIANTS TypeOK SwapExclusive DuplicateOnlyIfStale
PROPERTIES ImplementsStore
CHECK_DEADLOCK FALSE
