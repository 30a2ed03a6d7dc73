SPECIFICATION FairSpec
CONSTANTS
  main = main
  t1 = t1
  t2 = t2
  k1 = k1
  Main = main
  Tasks = {t1, t2}
  Threads = {main, t1, t2}
  Tokens = {k1}
  Handles <- Chain
  Boundary <- OneOfEach
  NoToken = NoToken
  NoTask = NoTask
CHECK_DEADLOCK FALSE
INVARIANTS
  SleepersWait
  JoinsAgree
  FailuresPropagate
PROPERTIES
  CompletionWins
  JoinsAreReleased
