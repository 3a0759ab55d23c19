SPECIFICATION Spec
CONSTANTS
  RETRY_SCHEDULE <- MCSchedule
  MAX_ATTEMPTS = 2
  ENDPOINT_AUTO_DISABLE_THRESHOLD = 1
  BULK_REPLAY_LIMIT = 1
  Deliveries = {d1}
  Endpoints = {e1}
  Events = {v1}
  Handlers = {h1, h2}
  Sweepers = {s1}
  Requests = {r1}
  MsgIds <- MCMsgIds
  NoMessage = NoMessage
  NoEvent = NoEvent
  SweepBatch = 2
  Environment = {"handler_error"}
  MaxFaults = 2
  MaxSweeps = 0
  MaxEnables = 0
SYMMETRY HandlerSymmetry
PROPERTY GivenUpIsSwept
