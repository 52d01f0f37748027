\* The constants of the script and the operands in C variables are no roots.
CONSTANTS
  Fresh = {o1, o2}
  Objs = {s1, o1, o2}
  Datum = Datum
  NULL = NULL
  Strings = {s1}
  Functions = {}
  Constants <- MCConstants
  Script = Script
  FreshMarks = {FALSE}
  FreshElements <- MCFreshElements
  Size <- MCSize
  InitNextGC = 2
  GrowFactor = 1
  StackBound = 2
SPECIFICATION Spec
INVARIANT OperandsKept
CHECK_DEADLOCK FALSE
