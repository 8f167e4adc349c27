\* Two users share a budget; a charge may be less, equal or more than reserved.
SPECIFICATION MCSpec
CONSTANTS
    u1 = u1  u2 = u2  r1 = r1  r2 = r2  r3 = r3  c1 = c1  c2 = c2
    a1 = a1  a2 = a2  f1 = f1
    Users = {u1, u2}
    Receipts = {r1, r2, r3}
    UserOf <- TwoOfOne
    AmountOf <- OneThenTwo
    Claims = {c1, c2}
    ClaimantOf <- ClaimEach
    Finishers = {f1}
    Admins = {a1}
    Charges = {0, 1, 3}
    Capacity = 2
    Allowances = {2}
    LedgerBound = 9
    BatchSize = 1
    MaxEdits = 1
    NoReceipt = NoReceipt
INVARIANTS TypeOK BudgetBalances BudgetCoversAllowances
