SPECIFICATION Spec
CONSTANTS
  Calls = {c1, c2, c3}
  ApiKeys = {k1, k2}
  IdempotencyKeys = {"subscribed", "listed"}
  Endpoints = {"exact", "wild", "all"}
  Subscriptions <- MCSubscriptions
  Bodies <- MCBodies
  KeyLimit = 1
  ProjectLimit = 2
  WindowMs = 2
  Ttl = 2
  MaxNow = 2
  MaxFaults = 1
  NoCall = NoCall
SYMMETRY MCSymmetry
CHECK_DEADLOCK FALSE
INVARIANT OneEventPerKey
INVARIANT AcceptedIsBacked
INVARIANT SlidingLimit
INVARIANT ReservedIsHeld
