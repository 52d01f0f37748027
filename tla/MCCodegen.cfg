\* Scripts of a few statements, compiled and run.
CONSTANTS
  ByteSize = 5
  SlotSize = 2
  Global = global
  LexicalJumps = TRUE
  Orderly = TRUE
  Profiles <- MCProfiles
  StackBound = 6
  MaxLeft = 1
SPECIFICATION RunSpec
INVARIANTS TypeOK JumpsLand ConstantsDenote StackCovers LocalsKept ArraysFilled
PROPERTY FlowFollowed
CHECK_DEADLOCK FALSE
