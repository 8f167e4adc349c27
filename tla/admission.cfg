\* Requests of one address fail, build, are blocked and let in again, while a sweep
\* and an operator remove blocks; time runs to 4, blocks last 1 and 2.
SPECIFICATION Spec
CONSTRAINT OneLoad
CONSTANTS
    r1 = r1  r2 = r2  r3 = r3
    Requests = {r1, r2, r3}
    Sweepers = {h1}
    Admins = {o1}
    IpOf <- OneIp
    SubjectOf <- Wallets
    Families = {"ip", "sim_tier"}
    Threshold <- OneSpare
    Window = 2
    ShortBlock = 1
    LongBlock = 2
    Capacity = 1
    SlotTtl = 2
    MaxTime = 4
INVARIANTS BlockStands AbuseIsBlocked InFlightBounded
PROPERTIES OverloadIsReal
