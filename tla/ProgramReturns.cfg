SPECIFICATION LanguageSpec
CONSTANTS
  Structs <- TheStructs
  Enums <- TheEnums
  Texts = {"", "a"}
  MaxInt = 7
  Menu <- NoMenu
  Written <- Bodies
  Undeclared <- NoType
  NotYet <- TUnknown
  Callees <- CalleesOf
  Sample <- ValuesOf
  Finds <- CheckFunction
  EndsOf <- EvalFunction
CHECK_DEADLOCK FALSE
INVARIANTS
  AnnotationsHold
