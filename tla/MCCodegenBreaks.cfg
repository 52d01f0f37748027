\* A break in a function that is declared in a loop.
CONSTANTS
  ByteSize = 5
  SlotSize = 2
  Global = global
  LexicalJumps = FALSE
  Orderly = TRUE
  Profiles <- MCBreaks
  StackBound = 6
  MaxLeft = 1
SPECIFICATION RunSpec
INVARIANT JumpsLand
CHECK_DEADLOCK FALSE
