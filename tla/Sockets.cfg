SPECIFICATION SocketsSpec
CONSTANTS
  Tasks = {"one", "two", "peer"}
  Menu <- Everything
  MaxCalls <- PeerTwice
  Room = 1
  Addresses <- Names
  Deadlines = {0, 1, 2, 4, 9}
  Cancels = {0, 2, 5, 9, 10}
  Never = 9
  NoToken = 10
  Patience = 4
  Horizon = 9
CHECK_DEADLOCK FALSE
INVARIANTS
  BytesAreConserved
  OutcomesAreHonest
  GivesUpRightly
PROPERTIES
  CallsEnd
