\* Two administering processes and the enrolment listener, every operation.
CONSTANTS
    Names = {laptop, phone}
    PoolSize = 2
    Admins = {cli, panel}
    Listeners = {listener}
    Nobody = Nobody
    AdminOps = {"add", "reserve", "revoke", "enable", "disable", "rotate"}
    SameProcess = FALSE
    HotMayFail = FALSE
    PersistMayFail = FALSE
    Expiries = {FALSE}
    TokensLapse = FALSE
    MaxOps = 4
    MaxCrashes = 0
SPECIFICATION Spec
SYMMETRY Interchangeable
INVARIANT TypeOK
INVARIANT AddressesUnique
INVARIANT RoutesUnique
INVARIANT OwnChangeInSnapshot
PROPERTY ImplementsLedger
CHECK_DEADLOCK FALSE
