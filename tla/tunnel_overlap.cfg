\* Two controllers at once: a reconnect and a disconnect overlap.
CONSTANTS
    Controllers = {reconnecting, disconnecting}
    Worker = Worker
    Ops = {"start", "stop", "restart"}
    Rungs = 2
    MaxAttempts = 2
    KillSwitch = TRUE
    AutoReconnect = {TRUE}
    Faults = {}
    SlowWorker = FALSE
    MaxCalls = 3
SPECIFICATION Spec
SYMMETRY Interchangeable
INVARIANT NoStrays
CHECK_DEADLOCK FALSE
