\* Two generic receipts of one IP, of which one may be prepared: eviction, late
\* commits and releases race a sponsor request for each. Or two generic prepare
\* requests and a Promotion one of one sender with room for two share one slot,
\* with one or two nonces left: compaction, slow builds, exhaustion.  The recovery
\* delivers no results here: liveness.cfg has that.
SPECIFICATION MCSpec
CONSTRAINT OneLoad
CONSTANTS
    r1 = r1  r2 = r2  r3 = r3  a1 = a1  a2 = a2  s2 = s2
    Receipts = {r1, r2, r3}
    Slots = {s1, s2}
    Attempts = {a1, a2}
    Recoverers = {p1}
    SenderOf <- OneSender
    IpOf <- TwoIps
    UserOf <- OneSender
    ModeOf <- Mixed
    ReceiptOf <- OneEach
    MaxPerIp = 1
    MaxPerSender = 2
    MaxPerUser = 1
    MaxNonce = 2
    StartNonces = {0, 1}
    NoReceipt = NoReceipt
    NoSlot = NoSlot
INVARIANTS TypeOK DurableReceiptIntact NonceReservationsDistinct SenderWithinLimit
PROPERTIES ImplementsLifecycle
