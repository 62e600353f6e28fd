\* wg0.conf is written outside the locks: a revoked peer comes back.
CONSTANTS
    Names = {laptop, phone}
    PoolSize = 2
    Admins = {cli, panel}
    Listeners = {}
    Nobody = Nobody
    AdminOps = {"add", "revoke"}
    SameProcess = FALSE
    HotMayFail = FALSE
    PersistMayFail = FALSE
    Expiries = {FALSE}
    TokensLapse = TRUE
    MaxOps = 3
    MaxCrashes = 0
SPECIFICATION Spec
INVARIANT RevokedStaysOff
CHECK_DEADLOCK FALSE
