\* A local of a function's body that a function inside it uses.
CONSTANTS
  Names = {x, y}
  Natives = {}
  MaxScopes = 5
  MaxDecls = 2
  MaxSymbols = 4
SPECIFICATION Spec
INVARIANT LocalsCaptured
CHECK_DEADLOCK FALSE
