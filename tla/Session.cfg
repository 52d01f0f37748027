\* A few lines at the prompt.
CONSTANTS
  MaxLines = 3
  MaxBlocks = 1
SPECIFICATION Spec
INVARIANT FreedOnce
CHECK_DEADLOCK FALSE
