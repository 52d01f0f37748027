\* Nested functions that share variables, closures that escape through globals, natives.
CONSTANTS
  f = f  g = g  h = h  k = k  p = p  x = x  y = y
  Numbers = {n}
  Others = {}
  Fns = {f, g, k, h}
  Natives = {p}
  Script = Script
  Closures = {c1, c2}
  UpValues = {u1, u2}
  Globals = {x, y}
  NULL = NULL
  Arity <- MCArity
  Captures <- MCCaptures
  Parent <- MCParent
  Builtin <- MCBuiltin
  FrameMax = 4
  StackBound = 5
SPECIFICATION Spec
CONSTRAINT Instance
VIEW View
SYMMETRY Symmetry
INVARIANTS TypeOK FramesNested OpenSorted OpenLive ClosuresComplete UpvaluesInBounds
PROPERTY ImplementsBoxes
CHECK_DEADLOCK FALSE
