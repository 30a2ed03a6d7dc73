SPECIFICATION LanguageSpec
CONSTANTS
  Structs <- TheStructs
  Enums <- TheEnums
  Texts = {"", "a"}
  MaxInt = 7
  Menu <- TheMenu
  Written <- Everything
  Undeclared <- NoType
  NotYet <- TUnknown
  Callees <- CalleesOf
  Sample <- ValuesOf
  Finds <- CheckFunction
  EndsOf <- EvalFunction
CHECK_DEADLOCK FALSE
INVARIANTS
  CallsAreSound
  RangeIsExact
  TypesAreKept
  NamesResolve
  InferenceSettles
