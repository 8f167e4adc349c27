\* Two sponsor requests race for one Promotion receipt, two Host processes
\* recover, a second receipt competes for the slot and the reservation.  Nobody
\* delivers a result here: liveness.cfg has that.
SPECIFICATION MCSpec
CONSTRAINT NoDelivery
CONSTANTS
    r1 = r1  r2 = r2  r3 = r3  a1 = a1  a2 = a2  s2 = s2
    Receipts = {r1, r2}
    Slots = {s1}
    Attempts = {a1, a2}
    Recoverers = {p1, p2}
    SenderOf <- OneSender
    IpOf <- OneIp
    UserOf <- OneSender
    ModeOf <- AllPromotion
    ReceiptOf <- BothFirst
    MaxPerIp = 1
    MaxPerSender = 2
    MaxPerUser = 1
    MaxNonce = 1
    StartNonces = {0}
    NoReceipt = NoReceipt
    NoSlot = NoSlot
INVARIANTS OneSigner OutcomeIsOnChain PromotionPays
PROPERTIES KeepsReservationContract
