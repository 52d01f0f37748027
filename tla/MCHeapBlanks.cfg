\* The fields of new objects are not initialised.
CONSTANTS
  Fresh = {o1, o2}
  Objs = {s1, o1, o2}
  Datum = Datum
  NULL = NULL
  Strings = {s1}
  Functions = {}
  Constants <- MCConstants
  Script = Script
  FreshMarks = {TRUE, FALSE}
  FreshElements <- MCFreshElements
  Size <- MCSize
  InitNextGC = 2
  GrowFactor = 1
  StackBound = 2
SPECIFICATION Spec
INVARIANT NeverAstray
CHECK_DEADLOCK FALSE
