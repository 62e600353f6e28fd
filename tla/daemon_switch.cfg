\* The service gives up with the kill switch engaged.
CONSTANTS
    Main = main
    Controllers = {main}
    Worker = Worker
    Ops = {}
    Rungs = 1
    MaxAttempts = 2
    KillSwitch = TRUE
    AutoReconnect = {TRUE}
    Faults = {}
    SlowWorker = FALSE
    MaxCalls = 0
    MaxKills = 0
SPECIFICATION DaemonSpec
INVARIANT ClosedAfterGivingUp
CHECK_DEADLOCK FALSE
