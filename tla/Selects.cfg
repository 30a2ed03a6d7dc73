SPECIFICATION FairSelectSpec
CONSTANTS
  t1 = t1
  t2 = t2
  t3 = t3
  c0 = c0
  c1 = c1
  v1 = v1
  v2 = v2
  k1 = k1
  Threads = {t1, t2}
  Chans = {c0, c1}
  Senders <- SenderOfC0
  Receivers <- ReceiverOfC0
  Tokens = {k1}
  Values = {v1, v2}
  Capacity <- SmallCapacity
  Selects <- BothEnds
  Rotations <- Wraps
  Unbounded = Unbounded
  NoValue = NoValue
  NoChan = NoChan
  NoToken = NoToken
CHECK_DEADLOCK FALSE
INVARIANTS
  SleepingSelectsHaveNoWork
  WaitersExact
  OneArmTakesEffect
PROPERTIES
  SelectsMoveOn
  SingleSelectsRotate
