\* The listener inside the administering process: tokens across races.
CONSTANTS
    Names = {laptop, phone}
    PoolSize = 2
    Admins = {panel}
    Listeners = {listener}
    Nobody = Nobody
    AdminOps = {"reserve", "revoke", "enable", "disable", "rotate"}
    SameProcess = TRUE
    HotMayFail = FALSE
    PersistMayFail = FALSE
    Expiries = {FALSE}
    TokensLapse = TRUE
    MaxOps = 4
    MaxCrashes = 0
SPECIFICATION FairSpec
INVARIANT TokenRedeemedOnce
INVARIANT NoTokenForRevoked
PROPERTY OperationsFinish
CHECK_DEADLOCK FALSE
