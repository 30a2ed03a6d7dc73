SPECIFICATION EitherSpec
CONSTANTS
  Editable = {"source", "depSource", "lock", "notes"}
  MaxEdits = 3
  Toggle <- Flip
CHECK_DEADLOCK FALSE
INVARIANTS
  NeverOutdated
  StopIsPrompt
PROPERTIES
  ComesToRest
