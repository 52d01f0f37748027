\* Functions nested three deep: slots and captured parameters.
CONSTANTS
  Names = {x, y}
  Natives = {}
  MaxScopes = 7
  MaxDecls = 2
  MaxSymbols = 5
SPECIFICATION Spec
SYMMETRY Symmetry
INVARIANTS TypeOK SlotsDense ChainsGrounded OneUpvaluePerVariable ParametersCaptured
CHECK_DEADLOCK FALSE
