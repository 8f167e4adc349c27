\* Two tasks end the reservations of one user, who prepares twice; or two operators
\* edit, activate, pause and delete while two users claim one place.
SPECIFICATION MCSpec
CONSTRAINT OneLoad
CONSTANTS
    u1 = u1  u2 = u2  r1 = r1  r2 = r2  r3 = r3  c1 = c1  c2 = c2
    a1 = a1  a2 = a2  f1 = f1
    Users = {u1, u2}
    Receipts = {r1, r2}
    UserOf <- AllOfOne
    AmountOf <- Ones
    Claims = {c1, c2}
    ClaimantOf <- ClaimEach
    Finishers = {f1, f2}
    Admins = {a1, a2}
    Charges = {0, 2}
    Capacity = 1
    Allowances = {1, 2}
    LedgerBound = 9
    BatchSize = 1
    MaxEdits = 2
    NoReceipt = NoReceipt
INVARIANTS ReceiptKeepsReservation StoredRecordsReadable ClaimsWithinCapacity EconomicsFrozen
PROPERTIES ImplementsReservation
