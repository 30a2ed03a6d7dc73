SPECIFICATION SmallSpec
CONSTANTS
  server = server
  client = client
  user = user
  session = session
  Names = {server, client, user, session}
  Scope <- Scopes
  Tests = 3
  Needs <- Graph
  TestContext = TestContext
  Runs <- Thorough
  Body = Body
  Processes = {p1}
  TestsOfContext = 2
  Tasks = {t1, t2}
  u = u
  Variables = {u, v}
  Values = {"a", "b"}
  Originally <- OneIsSet
  Kinds = {"dir", "file"}
  Awaits = TRUE
  MaxCalls = 1
SYMMETRY TasksAlike
CHECK_DEADLOCK FALSE
INVARIANTS
  FixturesLive
  Honest
  TracesAreRemoved
  TempsArePrivate
