\* A sweep of one reservation at a time.
SPECIFICATION FairSpec
CONSTANTS
    u1 = u1  u2 = u2  r1 = r1  r2 = r2  r3 = r3  c1 = c1  c2 = c2
    a1 = a1  a2 = a2  f1 = f1
    Users = {u1, u2}
    Receipts = {r1, r2}
    UserOf <- OneEach
    AmountOf <- Ones
    Claims = {c1, c2}
    ClaimantOf <- ClaimEach
    Finishers = {f1}
    Admins = {a1}
    Charges = {1}
    Capacity = 2
    Allowances = {2}
    LedgerBound = 9
    BatchSize = 1
    MaxEdits = 1
    NoReceipt = NoReceipt
CHECK_DEADLOCK FALSE
PROPERTIES UnusedReservationReturns
