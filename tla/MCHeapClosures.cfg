\* blacken_obj_closure is not installed in the vtable of closures.
CONSTANTS
  Fresh = {o1, o2}
  Objs = {f1, o1, o2}
  Datum = Datum
  NULL = NULL
  Strings = {}
  Functions = {f1}
  Constants <- MCConstants
  Script = Script
  FreshMarks = {FALSE}
  FreshElements <- MCFreshElements
  Size <- MCSize
  InitNextGC = 2
  GrowFactor = 1
  StackBound = 2
SPECIFICATION Spec
INVARIANT ClosurePartsKept
CHECK_DEADLOCK FALSE
