SPECIFICATION OtherScreensSpec
CONSTANTS
  Projects = {p, q}
  NoProject = NoProject
  Ids = {1, 2, 3}
  NoDelivery = NoDelivery
  Outcomes = {"RETRYING", "FAILED_PERMANENTLY"}
  Filters = {"", "FAILED_PERMANENTLY"}
  PageSize = 1
  Endpoints = {e1, e2}
  NoEndpoint = NoEndpoint
  Urls = {"u", "v", "private"}
  GuardedUrls = {"private"}
  Rates = {"60"}
  Types = {"a"}
  MaxTypes = 1
  Items = {i1, i2}
  Self = i1
  NoItem = NoItem
  MaxWire = 1
  MaxEdits = 2
  MaxCalls = 3
SYMMETRY Symmetry
CHECK_DEADLOCK FALSE
INVARIANT ShownIsOfRoute
INVARIANT EditTouchesOnlyItsFields
