SPECIFICATION FairSpec
CONSTANTS
  RETRY_SCHEDULE <- MCSchedule
  MAX_ATTEMPTS = 2
  ENDPOINT_AUTO_DISABLE_THRESHOLD = 1
  BULK_REPLAY_LIMIT = 1
  Deliveries = {d1}
  Endpoints = {e1}
  Events = {v1}
  Handlers = {h1, h2}
  Sweepers = {s1}
  Requests = {r1}
  MsgIds <- MCMsgIds
  NoMessage = NoMessage
  NoEvent = NoEvent
  SweepBatch = 2
  Environment = {"handler_error", "sweep_publish_error"}
  MaxFaults = 3
  MaxSweeps = 2
  MaxEnables = 0
PROPERTY AbandonedIsRecovered
PROPERTY ClaimIsHonoured
