\* One Host that fails twice, a withdrawal and refills.
SPECIFICATION FairSpec
CONSTANTS
    w1 = w1  w2 = w2  w3 = w3  n1 = n1  n2 = n2  s1 = s1
    Loads <- AnyLoad
    Hosts = {h1}
    Withdrawals = {w1}
    NonceOf <- OneNonce
    AmountOf <- Ones
    Slots = {s1}
    Endpoints = {e1}
    Observers = {}
    Gas = 1
    Runway = 1
    Target = 1
    Warn = 1
    InitialFunds = 4
    InitialSlots = 0
    MaxSpends = 2
    MaxDeposits = 1
    MaxDrains = 1
    MaxWrites = 2
    MaxBusy = 2
    MaxFaults = 2
    None = None
PROPERTIES SpendEnds
