SPECIFICATION FairSpec
CONSTANTS
  Dispatchers = {"watch", "peer"}
  Jobs = {"stuck-sweeper", "alert-watch"}
  Slots = {"one", "two"}
  Attempts = 2
  GraceTicks = 2
  DrainTicks = 1
  MaxOutages = 1
INVARIANT NoOverlap
INVARIANT ClosedIsUnused
INVARIANT OneAlertPerWindow
PROPERTY SignalledExits
PROPERTY LossEndsBusyWorker
PROPERTY BrokerOutageRaised
