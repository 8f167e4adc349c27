\* Requests of a user with a vault and of one without, her withdrawals, and the
\* admin's updates, in seven loads.
SPECIFICATION Spec
CONSTRAINT OneLoad
CONSTANTS
    r1 = r1  r2 = r2  r3 = r3  r4 = r4  u1 = u1  u2 = u2  t1 = t1  t2 = t2
    Loads <- AllLoads
    Requests = {r1, r2, r3, r4}
    Users = {u1, u2}
    UserOf <- Askers
    InitialTerms <- Low
    Terms <- RaisedTerms
    Treasuries = {t1, t2}
    Genesis = t1
    InitialVaults <- SomeVaults
    WithdrawChoices = {FALSE, TRUE}
    HostFee = 1
    Gases = {1, 2}
    Variance = 1
    Margins = {0, 2}
    Gaps = {0, 1}
    ToleranceBps = 0
    Slacks = {0, 2}
    Tolerance = 1
    Improvements = {0, 1}
    MaxEpoch = 2
    MaxVersion = 2
    None = None
SYMMETRY Symmetry
INVARIANTS TypeOK AgreedTermsPaid CreditConserved AbortsOnlyOnDrift GasLossBounded
PROPERTIES PauseHolds
CHECK_DEADLOCK FALSE
