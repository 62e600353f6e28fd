\* Each component of the client by itself; the service with kills, restarts and stops,
\* and with the kill switch on.
SPECIFICATION PartsSpec
CONSTANTS
  Main = main
  Controllers = {main}
  Worker = Worker
  Ops = {}
  Rungs = 1
  MaxAttempts = 2
  KillSwitch = TRUE
  AutoReconnect = {TRUE}
  Faults = {"preflight", "wg", "vanish", "engage", "release", "teardown"}
  SlowWorker = FALSE
  MaxCalls = 0
  MaxKills = 2
  Devices = {1, 2}
  ExRungs = 2
  MaxStrikes = 1
  MaxImports = 2
  MaxServerKills = 1
  MaxUpheavals = 3
  Profiles = {"a", "b"}
  GmThreads = {1, 2}
  MaxGmCalls = 2
  Servers = {"s1", "s2"}
  Processes = {1, 2}
  MaxPfOps = 2
  MaxPfKills = 1
  UpRuns = {1, 2}
  MaxUpRuns = 2
  MaxReleases = 2
  MaxLosses = 2
  MaxWeather = 1
  MaxClients = 2
INVARIANT StopLeavesNothing
PROPERTY ClosedUntilConnected
PROPERTY ServiceAnswers
INVARIANT ExHeldKeyAdmitted
INVARIANT ExNobodyStranded
INVARIANT ToOneOwner
INVARIANT GmSettled
INVARIANT PfPinHolds
INVARIANT PfKeysKept
INVARIANT UpInstallsVerified
INVARIANT UpComesBack
INVARIANT EsReachable
INVARIANT UnLeavesOnline
CHECK_DEADLOCK FALSE
