\* hints anywhere
CONSTANTS
  MaxKey = 3
  MaxHeight = 2
  AnyHint = TRUE
SPECIFICATION Spec
INVARIANTS EveryKeyFound
CHECK_DEADLOCK FALSE
