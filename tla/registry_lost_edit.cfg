\* complete_enrollment saves an unlocked snapshot of the config.
CONSTANTS
    Names = {laptop}
    PoolSize = 1
    Admins = {panel}
    Listeners = {listener}
    Nobody = Nobody
    AdminOps = {"reserve", "patch"}
    SameProcess = FALSE
    HotMayFail = FALSE
    PersistMayFail = FALSE
    Expiries = {FALSE}
    TokensLapse = TRUE
    MaxOps = 3
    MaxCrashes = 0
SPECIFICATION Spec
INVARIANT NoLostEdit
CHECK_DEADLOCK FALSE
