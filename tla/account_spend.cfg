\* Two Hosts and an observer: a withdrawal and its retry, two refills, and a mix.
SPECIFICATION Spec
CONSTRAINT OneLoad
CONSTANTS
    w1 = w1  w2 = w2  w3 = w3  n1 = n1  n2 = n2  s1 = s1
    Loads <- AllLoads
    Hosts = {h1, h2}
    Withdrawals = {w1, w2}
    NonceOf <- OneNonce
    AmountOf <- Ones
    Slots = {s1}
    Endpoints = {e1}
    Observers = {o1}
    Gas = 1
    Runway = 1
    Target = 1
    Warn = 1
    InitialFunds = 4
    InitialSlots = 0
    MaxSpends = 2
    MaxDeposits = 0
    MaxDrains = 0
    MaxWrites = 2
    MaxBusy = 2
    MaxFaults = None
    None = None
SYMMETRY Symmetry
INVARIANTS InFlightIsRecorded OutcomeIsOnChain NoncePaysOnce AnswerIsTrue NoPhantomFunds NoSlotOverfilled RunwayKept
PROPERTIES PaysSerially
