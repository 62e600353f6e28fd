\* One controller at a time, over everything that may go wrong.
CONSTANTS
    Controllers = {ui}
    Worker = Worker
    Ops = {"start", "stop", "restart"}
    Rungs = 2
    MaxAttempts = 3
    KillSwitch = TRUE
    AutoReconnect = {TRUE, FALSE}
    Faults = {"expired", "transport", "preflight", "wg", "blocked", "vanish"}
    SlowWorker = FALSE
    MaxCalls = 5
SPECIFICATION FairSpec
INVARIANT TypeOK
INVARIANT NoLeak
INVARIANT StoppedClean
PROPERTY ImplementsLifecycle
PROPERTY CallsReturn
PROPERTY AttemptsEnd
CHECK_DEADLOCK FALSE
