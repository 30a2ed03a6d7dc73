\* Two documents under every setting.
SPECIFICATION DeepSpec
CONSTANTS
  d1 = d1
  d2 = d2
  Documents = {d1, d2}
  Modes = {"off", "onSave", "onChange"}
  MaxEvents = 6
  Shared = 4
CHECK_DEADLOCK FALSE
INVARIANTS
  ChecksAreFew
PROPERTIES
  PublishesAsked
  EventuallyShown
