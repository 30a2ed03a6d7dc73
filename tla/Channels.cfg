SPECIFICATION SmallSpec
CONSTANTS
  t1 = t1
  t2 = t2
  t3 = t3
  c0 = c0
  c1 = c1
  cu = cu
  s0 = s0
  v1 = v1
  v2 = v2
  v3 = v3
  k1 = k1
  Threads = {t1, t2, t3}
  Chans = {c0, c1, cu, s0}
  Senders <- TwoSenders
  Receivers <- TwoReceivers
  Tokens = {k1}
  Values = {v1, v2}
  Capacity <- SmallCapacity
  Unbounded = Unbounded
  NoValue = NoValue
  NoChan = NoChan
  NoToken = NoToken
CHECK_DEADLOCK FALSE
INVARIANTS
  SleepersHaveNoWork
  ReceiverCountExact
  ValuesAreConserved
  ReportsAreTrue
PROPERTIES
  PromiseKept
  ChannelsMakeProgress
