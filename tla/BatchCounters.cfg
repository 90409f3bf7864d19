CONSTANTS
  IntMax = 31
  Room = 4
SPECIFICATION Spec
INVARIANT ComparisonExact
