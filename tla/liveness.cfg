\* One Promotion receipt, two Host processes, two sponsor requests of which the second
\* begins when the first is over: double_sponsor.cfg has their race.
SPECIFICATION FairSpec
CONSTRAINT OneAfterTheOther
CONSTANTS
    r1 = r1  r2 = r2  r3 = r3  a1 = a1  a2 = a2  s2 = s2
    Receipts = {r1}
    Slots = {s1}
    Attempts = {a1, a2}
    Recoverers = {p1, p2}
    SenderOf <- OneSender
    IpOf <- OneIp
    UserOf <- OneSender
    ModeOf <- AllPromotion
    ReceiptOf <- BothFirst
    MaxPerIp = 1
    MaxPerSender = 1
    MaxPerUser = 1
    MaxNonce = 1
    StartNonces = {0}
    NoReceipt = NoReceipt
    NoSlot = NoSlot
CHECK_DEADLOCK FALSE
PROPERTIES ReceiptBecomesFinal ResultIsDelivered SlotsComeBack
