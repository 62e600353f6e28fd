\* Each component of the server by itself.
SPECIFICATION PartsSpec
CONSTANTS
  Subnets = {"n1", "n2"}
  Ports = {"https", "p2"}
  InnerPorts = {"i1", "i2"}
  Setups <- WizardAnswers
  MaxConfigs = 2
  MaxHostJobs = 2
  MaxHostFaults = 1
  Main = m
  Callers = {c1}
  Starters = {1, 2}
  SmFaults = TRUE
  MaxApiCalls = 1
  MaxSpawns = 2
  MaxUpsets = 1
  MaxEdits = 1
  Handlers = {1, 2}
  MaxFailures = 2
  Window = 2
  Lockout = 1
  ShortTtl = 1
  LongTtl = 2
  SavesFail = {"logout", "purge"}
  MaxClock = 2
  MaxRequests = 3
  MaxRotations = 1
  MaxRestarts = 1
  Tabs = {t1}
  QueueSize = 2
  MaxIdlePings = 1
  SendBuffer = 1
  MaxChanges = 3
  MaxVisits = 2
  Capacity = 2
  MaxLines = 6
  Peers = {k1}
  Hour = 2
  LookBack = 1
  Retention = 2
  MaxNow = 3
  MaxMoved = 2
  MaxBacks = 1
INVARIANT SmStoppedClean
PROPERTY SmServeWhole
PROPERTY SmDeathNoticed
PROPERTY SmReloadApplied
INVARIANT PsGrantsAreLive
INVARIANT PsLockoutHolds
PROPERTY PeViewHeals
PROPERTY PeThreadReclaimed
INVARIANT LwShowsAll
INVARIANT HoKeepsWord
INVARIANT DrAgrees
INVARIANT TrTellsTruth
CHECK_DEADLOCK FALSE
