\* One process at a time, with failures, crashes and expiry dates.
CONSTANTS
    Names = {laptop, phone}
    PoolSize = 1
    Admins = {panel}
    Listeners = {}
    Nobody = Nobody
    AdminOps = {"add", "reserve", "revoke", "enable", "disable", "rotate", "patch", "renew", "reconcile"}
    SameProcess = FALSE
    HotMayFail = TRUE
    PersistMayFail = TRUE
    Expiries = {FALSE, TRUE}
    TokensLapse = TRUE
    MaxOps = 3
    MaxCrashes = 1
SPECIFICATION Spec
INVARIANT SettledMatchesRegistry
CHECK_DEADLOCK FALSE
