SPECIFICATION FairSpec
CONSTANTS
  Requests = {r1, r2}
  MaxSessions = 2
  MaxFaults = 1
CHECK_DEADLOCK FALSE
INVARIANT OneWinner
INVARIANT LossHasCause
INVARIANT SignedOutStaysOut
INVARIANT SocketFollowsToken
PROPERTY RemovalTakesEffect
