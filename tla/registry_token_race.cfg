\* The listener in a process of its own: no lock covers the token file.
CONSTANTS
    Names = {laptop, phone}
    PoolSize = 2
    Admins = {panel}
    Listeners = {listener}
    Nobody = Nobody
    AdminOps = {"reserve", "revoke"}
    SameProcess = FALSE
    HotMayFail = FALSE
    PersistMayFail = FALSE
    Expiries = {FALSE}
    TokensLapse = FALSE
    MaxOps = 4
    MaxCrashes = 0
SPECIFICATION Spec
INVARIANT NoTokenForRevoked
CHECK_DEADLOCK FALSE
