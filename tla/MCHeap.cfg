\* Strings, arrays and closures in three places; marks read as FALSE.
CONSTANTS
  Fresh = {o1}
  Objs = {s1, f1, o1}
  Datum = Datum
  NULL = NULL
  Strings = {s1}
  Functions = {f1}
  Constants <- MCConstants
  Script = Script
  FreshMarks = {FALSE}
  FreshElements <- MCFreshElements
  Size <- MCSize
  InitNextGC = 2
  GrowFactor = 1
  StackBound = 2
SPECIFICATION FairSpec
INVARIANTS TypeOK TriColour RootsAlive StoredAlive PoolAlive BytesExact
PROPERTY CollectionEnds
CHECK_DEADLOCK FALSE
