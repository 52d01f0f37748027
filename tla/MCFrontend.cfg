\* Texts typed on five keyboards, and programs printed from trees.
CONSTANTS
  Keyboards <- MCKeyboards
  Programs <- MCPrograms
SPECIFICATION Spec
INVARIANTS TokensTile TreePrintsText TreeBinds ProgramsParse EscapesRoundTrip
CHECK_DEADLOCK FALSE
