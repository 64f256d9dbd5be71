CONSTANTS
  Id = {"bar", "dir", "u1", "u2", "n1", "n2"}
  Name = {"a", "b", "c"}
  Url = {"x", "y"}
  NoUrl = "none"
  MaxDepth = 6
  Root = "bar"
  Seed <- MCSeed
  NewValue <- MCNewValue
  MaxEdits = 3
SPECIFICATION Spec
CHECK_DEADLOCK FALSE
INVARIANT AdditionsSurvive
