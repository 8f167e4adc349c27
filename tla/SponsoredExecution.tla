------------------------- MODULE SponsoredExecution -------------------------
(***************************************************************************)
(* The life of a sponsored receipt across the prepare request that builds  *)
(* it, the sponsor requests that try to execute it, the recovery task of   *)
(* every Host process, the Redis records they share, and the chain.        *)
(*                                                                         *)
(* One action is one Redis script, one Redis write, one signature, or one  *)
(* run of code between two awaits.  Time is abstracted: a deadline, a TTL  *)
(* or an age that the code compares with the Redis clock may pass at any   *)
(* moment.  A Redis command whose response is lost is either never applied *)
(* or applied at any later moment.                                         *)
(***************************************************************************)
EXTENDS Naturals, FiniteSets

CONSTANTS
    Receipts,      \* the receipts, one per prepare request
    Slots,         \* the sponsor addresses of the pool
    Attempts,      \* the sponsor requests
    Recoverers,    \* the Host processes that run the recovery task
    SenderOf, IpOf, UserOf,   \* identity of the prepare request of a receipt
    ModeOf,        \* "generic" or "promotion"
    ReceiptOf,     \* the receipt a sponsor request names
    MaxPerIp,      \* prepared receipts per client IP
    MaxPerSender,  \* outstanding receipts per sender
    MaxPerUser,    \* prepared receipts per studio user
    MaxNonce,      \* the largest u64
    StartNonces,   \* vault nonces that earlier settlements have left on chain
    NoReceipt, NoSlot

ASSUME ReceiptsFinite == IsFiniteSet(Receipts)

ASSUME IdentityAssumption ==
    /\ DOMAIN SenderOf = Receipts /\ DOMAIN IpOf = Receipts
    /\ DOMAIN UserOf = Receipts
    /\ ModeOf \in [Receipts -> {"generic", "promotion"}]
    /\ ReceiptOf \in [Attempts -> Receipts]
    /\ NoReceipt \notin Receipts /\ NoSlot \notin Slots

ASSUME LimitAssumption ==
    /\ MaxPerIp \in Nat \ {0} /\ MaxPerSender \in Nat \ {0}
    /\ MaxPerUser \in Nat \ {0} /\ MaxNonce \in Nat \ {0}

ASSUME StartAssumption == StartNonces \subseteq 0..MaxNonce

VARIABLES
    \* ---- Redis: the receipt records
    stage,          \* which of prepared, execution and final record exists
    deadlinePassed, \* receipts whose current deadline is behind Redis time
    result,         \* the outcome stored in the final record
    callback,       \* delivery state of the final record
    \* ---- Redis: the sponsor leases, nonce reservations, Promotion ledger
    lease,          \* the lease record of a slot
    nonceKey,       \* the reserved settlement nonce of a receipt, 0 if none
    promo,          \* the Promotion reservation or operation result
    promotionActive,
    \* ---- requests in flight whose response was lost
    commitInFlight, beginInFlight,
    \* ---- the prepare requests
    prep,           \* control state
    seenNonce,      \* the vault nonce read by the chain snapshot
    slotOf,         \* the sponsor address written in the transaction
    txNonce,        \* the settlement nonce written in the transaction
    \* ---- the sponsor requests, the recovery tasks, the chain
    att, rcv,
    chain,          \* the signed transaction of a receipt and its effects
    chainNonce,     \* the vault nonce of a sender
    \* ---- history, which no action reads
    heard           \* receipts whose final result the Host's callback has taken

redisVars == <<stage, deadlinePassed, result, callback>>
heldVars  == <<lease, nonceKey, promo>>
wireVars  == <<commitInFlight, beginInFlight>>
prepVars  == <<prep, seenNonce, slotOf, txNonce>>
worldVars == <<chain, chainNonce, heard>>
vars == <<redisVars, heldVars, promotionActive, wireVars, prepVars, att, rcv,
          worldVars>>

-----------------------------------------------------------------------------
Senders == {SenderOf[r] : r \in Receipts}
Landed  == {"success", "reverted", "congestion"}
Results == {"discarded", "unsigned", "unresolved"} \cup Landed

NoLease == [receipt |-> NoReceipt, stage |-> "free"]
LeaseRecords == [receipt : Receipts, stage : {"reserved", "committed", "executing"}]

PrepStates == {"start", "snapshot", "slot", "ready", "evicting", "retry",
               "uncertain", "responded", "cleanHeld", "cleanSlot", "failed"}
AttemptStates == {"idle", "checking", "ready", "discarding", "begun", "signing",
                  "submitted", "unsigned", "landed", "deliver", "mark", "done"}
Idle == [pc |-> "idle", receipt |-> NoReceipt, seen |-> "none"]

Generic(r) == ModeOf[r] = "generic"

\* The lease of r's slot is r's own and at the given stage.
Holds(r, leaseStage) ==
    /\ slotOf[r] \in Slots
    /\ lease[slotOf[r]] = [receipt |-> r, stage |-> leaseStage]

\* The members of the IP, user and sender indexes.  A receipt is in its IP and
\* user index exactly while it is prepared; it is in its sender index while it
\* is prepared or its nonce key exists, since every script writes both.
PreparedOfIp(ip)     == {q \in Receipts : IpOf[q] = ip /\ stage[q] = "prepared"}
PreparedOfUser(user) == {q \in Receipts : /\ UserOf[q] = user /\ ~Generic(q)
                                          /\ stage[q] = "prepared"}
SenderIndex(sender)  == {q \in Receipts : /\ SenderOf[q] = sender
                                          /\ nonceKey[q] # 0 \/ stage[q] = "prepared"}

Init ==
    /\ stage = [r \in Receipts |-> "absent"]
    /\ deadlinePassed = {}
    /\ result = [r \in Receipts |-> "none"]
    /\ callback = [r \in Receipts |-> "none"]
    /\ lease = [s \in Slots |-> NoLease]
    /\ nonceKey = [r \in Receipts |-> 0]
    /\ promo = [r \in Receipts |-> "none"]
    /\ promotionActive = TRUE
    /\ commitInFlight = {} /\ beginInFlight = {}
    /\ prep = [r \in Receipts |-> "start"]
    /\ seenNonce = [r \in Receipts |-> 0]
    /\ slotOf = [r \in Receipts |-> NoSlot]
    /\ txNonce = [r \in Receipts |-> 0]
    /\ att = [a \in Attempts |-> "idle"]
    /\ rcv = [p \in Recoverers |-> Idle]
    /\ chain = [r \in Receipts |-> "none"]
    /\ chainNonce \in [Senders -> StartNonces]
    /\ heard = {}

-----------------------------------------------------------------------------
(* The atomic transitions of the receipt store, shared by their callers.    *)

\* The lease of r's slot is deleted with the transition that ends its use; as a
\* bug would have it, the transition forgets it.
KeepSlot(r) == UNCHANGED lease
FreeSlot(r) == lease' = [lease EXCEPT ![slotOf[r]] = NoLease]

\* A release finds the reservation of a prepared receipt protected; as a bug
\* would have it, it does not look.
NeverProtected(r) == TRUE
Unprotected(r) == stage[r] # "prepared"

\* COMMIT_PREPARED_SCRIPT.  The checks before the IP limit, the limit, the rest.
CommitIdentityOk(r) ==
    /\ stage[r] = "absent"
    /\ Holds(r, "reserved")
    /\ ~Generic(r) => promotionActive /\ promo[r] = "reserved"

\* As a bug would have it, only the prepared receipts of the sender count.
PreparedBelowLimit(r) ==
    Cardinality({q \in SenderIndex(SenderOf[r]) : stage[q] = "prepared"}) < MaxPerSender
SenderHasRoom(r) == Cardinality(SenderIndex(SenderOf[r])) < MaxPerSender

IpFull(r) == Cardinality(PreparedOfIp(IpOf[r])) >= MaxPerIp

CanCommit(r) ==
    /\ CommitIdentityOk(r)
    /\ ~IpFull(r)
    /\ Generic(r)  => nonceKey[r] # 0 /\ nonceKey[r] = txNonce[r]
    /\ ~Generic(r) => /\ SenderHasRoom(r)
                      /\ Cardinality(PreparedOfUser(UserOf[r])) < MaxPerUser

ApplyCommit(r) ==
    /\ stage' = [stage EXCEPT ![r] = "prepared"]
    /\ lease' = [lease EXCEPT ![slotOf[r]] = [receipt |-> r, stage |-> "committed"]]
    /\ UNCHANGED <<deadlinePassed, result, callback, nonceKey, promo>>

\* The durable receipt, its lease and its nonce or reservation are all as the
\* commit wrote them.
PreparedIntact(r) ==
    /\ stage[r] = "prepared"
    /\ Holds(r, "committed")
    /\ Generic(r)  => nonceKey[r] # 0 /\ nonceKey[r] = txNonce[r]
    /\ ~Generic(r) => promo[r] = "reserved"

\* BEGIN_EXECUTION_SCRIPT, with prepareExecutionStart before it.  As a bug would
\* have it, the script takes an executing receipt for its own.
CanBeginAgain(r) ==
    /\ PreparedIntact(r) \/ Holds(r, "executing")
    /\ r \notin deadlinePassed
CanBegin(r) ==
    /\ PreparedIntact(r)
    /\ r \notin deadlinePassed
    /\ ~Generic(r) => promotionActive

ApplyBegin(r) ==
    /\ stage' = [stage EXCEPT ![r] = "executing"]
    /\ lease' = [lease EXCEPT ![slotOf[r]] = [receipt |-> r, stage |-> "executing"]]
    /\ nonceKey' = [nonceKey EXCEPT ![r] = 0]
    /\ promo' = IF Generic(r) THEN promo ELSE [promo EXCEPT ![r] = "executing"]
    /\ UNCHANGED <<deadlinePassed, result, callback>>

\* DISCARD_PREPARED_SCRIPT: the prepared receipt becomes final, its resources
\* are returned, its reservation is released.
ApplyDiscard(r) ==
    /\ stage' = [stage EXCEPT ![r] = "final"]
    /\ result' = [result EXCEPT ![r] = "discarded"]
    /\ callback' = [callback EXCEPT ![r] = "pending"]
    /\ FreeSlot(r)
    /\ nonceKey' = [nonceKey EXCEPT ![r] = 0]
    /\ promo' = IF Generic(r) THEN promo ELSE [promo EXCEPT ![r] = "released"]
    /\ UNCHANGED deadlinePassed

\* FINALIZE_EXECUTION_SCRIPT.  As a bug would have it, the last writer wins.
CanFinalizeBlindly(r) == stage[r] \in {"executing", "final"}
CanFinalize(r) ==
    /\ stage[r] = "executing"
    /\ Holds(r, "executing")
    /\ ~Generic(r) => promo[r] = "executing"

\* A Promotion pays unless nothing was signed or congestion cancelled it; as a
\* bug would have it, not for an outcome nobody knows either.
RefundUnresolved(o) ==
    IF o \in {"unsigned", "congestion", "unresolved"} THEN "released" ELSE "consumed"
PromotionOutcome(o) == IF o \in {"unsigned", "congestion"} THEN "released" ELSE "consumed"

\* The outcome a confirmed transaction is recorded with, by either reader, and
\* the one the recovery task records of a digest it does not find.  As bugs would
\* have it, congestion is a revert and a missing digest was never signed.
CongestionAsRevert(r) == IF chain[r] = "congestion" THEN "reverted" ELSE chain[r]
LandedOutcome(r) == chain[r]

NotFoundIsUnsigned == "unsigned"
NotFoundOutcome == "unresolved"

ApplyFinalize(r, o) ==
    /\ stage' = [stage EXCEPT ![r] = "final"]
    /\ result' = [result EXCEPT ![r] = o]
    /\ callback' = [callback EXCEPT ![r] = "pending"]
    /\ FreeSlot(r)
    /\ promo' = IF Generic(r) THEN promo ELSE [promo EXCEPT ![r] = PromotionOutcome(o)]
    /\ UNCHANGED <<deadlinePassed, nonceKey>>

-----------------------------------------------------------------------------
(* The prepare request: runPrepareStateMachine.                             *)

Goto(r, pc) == prep' = [prep EXCEPT ![r] = pc]

\* ChainSnapshot: a generic prepare reads the vault nonce of its sender.
PrepSnapshot(r) ==
    /\ prep[r] = "start"
    /\ Goto(r, "snapshot")
    /\ seenNonce' = IF Generic(r) THEN [seenNonce EXCEPT ![r] = chainNonce[SenderOf[r]]]
                                  ELSE seenNonce
    /\ UNCHANGED <<redisVars, heldVars, promotionActive, wireVars, slotOf, txNonce,
                   att, rcv, worldVars>>

\* LEASE_CHECKOUT_SCRIPT: SET NX on the first free slot.  When the response is
\* lost the request has acquired nothing and leaves the lease to its TTL.
PrepCheckout(r, s) ==
    /\ prep[r] = "snapshot"
    /\ lease[s] = NoLease
    /\ lease' = [lease EXCEPT ![s] = [receipt |-> r, stage |-> "reserved"]]
    /\ slotOf' = [slotOf EXCEPT ![r] = s]
    /\ \/ Goto(r, "slot")
       \/ Goto(r, "failed")
    /\ UNCHANGED <<redisVars, nonceKey, promo, promotionActive, wireVars, seenNonce,
                   txNonce, att, rcv, worldVars>>

PrepSlotExhausted(r) ==
    /\ prep[r] = "snapshot"
    /\ \A s \in Slots : lease[s] # NoLease
    /\ Goto(r, "failed")
    /\ UNCHANGED <<redisVars, heldVars, promotionActive, wireVars, seenNonce, slotOf,
                   txNonce, att, rcv, worldVars>>

\* The nonces a new reservation must exceed, and the one that follows them.  As
\* bugs would have it, the live reservations or the end of u64 are forgotten.
SnapshotOnly(r, live) == {seenNonce[r]}
UsedNonces(r, live) == {seenNonce[r]} \cup {nonceKey[q] : q \in live}

NextNonceUnbounded(used) ==
    {n \in 1..(MaxNonce + 1) : n - 1 \in used /\ \A m \in used : m < n}
NextNonce(used) == {n \in 1..MaxNonce : n - 1 \in used /\ \A m \in used : m < n}

\* RESERVE_NONCE_SCRIPT.  Compaction drops the reservations of the sender that
\* are older than the prepare TTL and have no prepared receipt; the new nonce
\* follows the chain snapshot and every reservation left.  When the response is
\* lost the cleanup knows of the slot only.
PrepReserveNonce(r) ==
    /\ prep[r] = "slot" /\ Generic(r)
    /\ \E old \in SUBSET {q \in SenderIndex(SenderOf[r]) : stage[q] # "prepared"} :
         LET live == SenderIndex(SenderOf[r]) \ old
             next == NextNonce(UsedNonces(r, live))
             kept == [q \in Receipts |-> IF q \in old THEN 0 ELSE nonceKey[q]]
         IN \/ /\ Cardinality(live) >= MaxPerSender \/ next = {}
               /\ nonceKey' = kept
               /\ Goto(r, "cleanSlot")
               /\ UNCHANGED txNonce
            \/ /\ Cardinality(live) < MaxPerSender
               /\ \E n \in next : /\ nonceKey' = [kept EXCEPT ![r] = n]
                                  /\ txNonce' = [txNonce EXCEPT ![r] = n]
               /\ \/ Goto(r, "ready")
                  \/ Goto(r, "cleanSlot")
    /\ UNCHANGED <<redisVars, lease, promo, promotionActive, wireVars, seenNonce,
                   slotOf, att, rcv, worldVars>>

\* PromotionExecutionLedger.reserve, one reservation per user at a time.
PrepReserveLedger(r) ==
    /\ prep[r] = "slot" /\ ~Generic(r)
    /\ promotionActive
    /\ \A q \in Receipts : UserOf[q] = UserOf[r] => promo[q] \notin {"reserved", "executing"}
    /\ promo' = [promo EXCEPT ![r] = "reserved"]
    /\ \/ Goto(r, "ready")
       \/ Goto(r, "cleanSlot")
    /\ UNCHANGED <<redisVars, lease, nonceKey, promotionActive, wireVars, seenNonce,
                   slotOf, txNonce, att, rcv, worldVars>>

\* A hook throws, the build fails, or the ledger rejects: the resources
\* acquired so far are released in reverse order.
PrepFail(r) ==
    /\ \/ prep[r] \in {"start", "snapshot"} /\ Goto(r, "failed")
       \/ prep[r] = "slot" /\ Goto(r, "cleanSlot")
       \/ prep[r] = "ready" /\ Goto(r, "cleanHeld")
    /\ UNCHANGED <<redisVars, heldVars, promotionActive, wireVars, seenNonce, slotOf,
                   txNonce, att, rcv, worldVars>>

\* commitPreparedReceipt and the transfer of ownership that follows it.
PrepCommit(r) ==
    /\ prep[r] \in {"ready", "retry"}
    /\ CanCommit(r)
    /\ ApplyCommit(r)
    /\ Goto(r, "responded")
    /\ UNCHANGED <<promotionActive, wireVars, seenNonce, slotOf, txNonce, att, rcv,
                   worldVars>>

\* The first attempt refused by the IP limit alone evicts; any other refusal
\* is an error.
PrepCommitRefused(r) ==
    /\ prep[r] \in {"ready", "retry"}
    /\ ~CanCommit(r)
    /\ IF prep[r] = "ready" /\ CommitIdentityOk(r) /\ IpFull(r)
       THEN Goto(r, "evicting")
       ELSE Goto(r, "cleanHeld")
    /\ UNCHANGED <<redisVars, heldVars, promotionActive, wireVars, seenNonce, slotOf,
                   txNonce, att, rcv, worldVars>>

PrepCommitLost(r) ==
    /\ prep[r] \in {"ready", "retry"}
    /\ Goto(r, "uncertain")
    /\ commitInFlight' = commitInFlight \cup {r}
    /\ UNCHANGED <<redisVars, heldVars, promotionActive, beginInFlight, seenNonce,
                   slotOf, txNonce, att, rcv, worldVars>>

\* A commit whose response was lost reaches Redis.
CommitLands(r) ==
    /\ r \in commitInFlight
    /\ commitInFlight' = commitInFlight \ {r}
    /\ \/ CanCommit(r) /\ ApplyCommit(r)
       \/ ~CanCommit(r) /\ UNCHANGED <<redisVars, heldVars>>
    /\ UNCHANGED <<promotionActive, beginInFlight, prepVars, att, rcv, worldVars>>

\* The readback after a lost commit response: the exact record is a success,
\* no record and a failed read are errors.
PrepReadback(r) ==
    /\ prep[r] = "uncertain"
    /\ \/ stage[r] = "prepared" /\ Goto(r, "responded")
       \/ Goto(r, "cleanHeld")
    /\ UNCHANGED <<redisVars, heldVars, promotionActive, wireVars, seenNonce, slotOf,
                   txNonce, att, rcv, worldVars>>

\* The oldest prepared receipt of the IP is discarded; which one is oldest is
\* not modelled.  The discard may find it changed, or fail.
PrepEvict(r) ==
    /\ prep[r] = "evicting"
    /\ \/ \E q \in PreparedOfIp(IpOf[r]) : PreparedIntact(q) /\ ApplyDiscard(q)
       \/ UNCHANGED <<redisVars, heldVars>>
    /\ \/ Goto(r, "retry")
       \/ Goto(r, "cleanHeld")
    /\ UNCHANGED <<promotionActive, wireVars, seenNonce, slotOf, txNonce, att, rcv,
                   worldVars>>

\* RELEASE_NONCE_SCRIPT, or the ledger release: both leave the reservation of
\* a prepared receipt alone.  The error of a release that fails is swallowed.
PrepCleanHeld(r) ==
    /\ prep[r] = "cleanHeld"
    /\ Goto(r, "cleanSlot")
    /\ \/ /\ Unprotected(r)
          /\ nonceKey' = [nonceKey EXCEPT ![r] = 0]
          /\ promo' = IF promo[r] = "reserved" THEN [promo EXCEPT ![r] = "released"]
                                              ELSE promo
       \/ UNCHANGED <<nonceKey, promo>>
    /\ UNCHANGED <<redisVars, lease, promotionActive, wireVars, seenNonce, slotOf,
                   txNonce, att, rcv, worldVars>>

\* checkin: compare-and-delete of the request's own reserved lease.
PrepCleanSlot(r) ==
    /\ prep[r] = "cleanSlot"
    /\ Goto(r, "failed")
    /\ \/ /\ Holds(r, "reserved")
          /\ lease' = [lease EXCEPT ![slotOf[r]] = NoLease]
       \/ UNCHANGED lease
    /\ UNCHANGED <<redisVars, nonceKey, promo, promotionActive, wireVars, seenNonce,
                   slotOf, txNonce, att, rcv, worldVars>>

\* The Host process dies.
PrepCrash(r) ==
    /\ prep[r] \notin {"start", "responded", "failed"}
    /\ Goto(r, "failed")
    /\ UNCHANGED <<redisVars, heldVars, promotionActive, wireVars, seenNonce, slotOf,
                   txNonce, att, rcv, worldVars>>

-----------------------------------------------------------------------------
(* Time and administration.                                                 *)

\* PX on a reserved lease; a committed or executing lease has no TTL.
LeaseExpires(s) ==
    /\ lease[s].stage = "reserved"
    /\ lease' = [lease EXCEPT ![s] = NoLease]
    /\ UNCHANGED <<redisVars, nonceKey, promo, promotionActive, wireVars, prepVars,
                   att, rcv, worldVars>>

DeadlinePasses(r) ==
    /\ stage[r] \in {"prepared", "executing"}
    /\ r \notin deadlinePassed
    /\ deadlinePassed' = deadlinePassed \cup {r}
    /\ UNCHANGED <<stage, result, callback, heldVars, promotionActive, wireVars,
                   prepVars, att, rcv, worldVars>>

\* sweepExpiredReservations: a due reservation without a prepared receipt.
SweepReservation(r) ==
    /\ promo[r] = "reserved" /\ Unprotected(r)
    /\ promo' = [promo EXCEPT ![r] = "released"]
    /\ UNCHANGED <<redisVars, lease, nonceKey, promotionActive, wireVars, prepVars,
                   att, rcv, worldVars>>

TogglePromotion ==
    /\ \E r \in Receipts : ~Generic(r)
    /\ promotionActive' = ~promotionActive
    /\ UNCHANGED <<redisVars, heldVars, wireVars, prepVars, att, rcv, worldVars>>

-----------------------------------------------------------------------------
(* The sponsor requests: runSponsorStateMachine.                            *)

Step(a, pc) == att' = [att EXCEPT ![a] = pc]

\* readPreparedReceipt and the validation of the entry.  The client knows the
\* receipt from the response of its prepare request.
AttemptRead(a) ==
    LET r == ReceiptOf[a]
    IN /\ att[a] = "idle" /\ prep[r] = "responded"
       /\ \/ stage[r] = "prepared" /\ Step(a, "checking")
          \/ Step(a, "done")
       /\ UNCHANGED <<redisVars, heldVars, promotionActive, wireVars, prepVars, rcv,
                      worldVars>>

\* The shared and policy checks and the preflight simulation, which runs the
\* settlement of a generic transaction against the vault nonce.
AttemptPreflight(a) ==
    LET r == ReceiptOf[a]
    IN /\ att[a] = "checking"
       /\ \/ /\ Generic(r) => txNonce[r] > chainNonce[SenderOf[r]]
             /\ Step(a, "ready")
          \/ Step(a, "discarding")
       /\ UNCHANGED <<redisVars, heldVars, promotionActive, wireVars, prepVars, rcv,
                      worldVars>>

\* beginSponsoredExecution.
AttemptBegin(a) ==
    LET r == ReceiptOf[a]
    IN /\ att[a] = "ready"
       /\ \/ CanBegin(r) /\ ApplyBegin(r) /\ Step(a, "begun")
          \/ ~CanBegin(r) /\ Step(a, "discarding") /\ UNCHANGED <<redisVars, heldVars>>
       /\ UNCHANGED <<promotionActive, wireVars, prepVars, rcv, worldVars>>

AttemptBeginLost(a) ==
    /\ att[a] = "ready"
    /\ Step(a, "discarding")
    /\ beginInFlight' = beginInFlight \cup {a}
    /\ UNCHANGED <<redisVars, heldVars, promotionActive, commitInFlight, prepVars, rcv,
                   worldVars>>

\* A begin whose response was lost reaches Redis.
BeginLands(a) ==
    /\ a \in beginInFlight
    /\ beginInFlight' = beginInFlight \ {a}
    /\ \/ CanBegin(ReceiptOf[a]) /\ ApplyBegin(ReceiptOf[a])
       \/ ~CanBegin(ReceiptOf[a]) /\ UNCHANGED <<redisVars, heldVars>>
    /\ UNCHANGED <<promotionActive, commitInFlight, prepVars, att, rcv, worldVars>>

\* Every failure up to the begin discards the prepared receipt; the discard of
\* a receipt that is no longer prepared changes nothing, and when the final
\* record says the same of it and is still pending the request delivers that.
AttemptDiscard(a) ==
    LET r == ReceiptOf[a]
    IN /\ att[a] = "discarding"
       /\ \/ PreparedIntact(r) /\ ApplyDiscard(r) /\ Step(a, "deliver")
          \/ /\ ~PreparedIntact(r)
             /\ \/ Step(a, "done")
                \/ result[r] = "discarded" /\ callback[r] = "pending" /\ Step(a, "deliver")
             /\ UNCHANGED <<redisVars, heldVars>>
       /\ UNCHANGED <<promotionActive, wireVars, prepVars, rcv, worldVars>>

\* The lease check of the pool's sign, an await before the signature itself.
AttemptSignCheck(a) ==
    /\ att[a] = "begun"
    /\ \/ Holds(ReceiptOf[a], "executing") /\ Step(a, "signing")
       \/ Step(a, "unsigned")
    /\ UNCHANGED <<redisVars, heldVars, promotionActive, wireVars, prepVars, rcv,
                   worldVars>>

AttemptSign(a) ==
    /\ att[a] = "signing"
    /\ Step(a, "submitted")
    /\ chain' = [chain EXCEPT ![ReceiptOf[a]] = "signed"]
    /\ UNCHANGED <<redisVars, heldVars, promotionActive, wireVars, prepVars, rcv,
                   chainNonce, heard>>

\* The answer of the execution RPC, or an error that leaves it unknown.
AttemptResult(a) ==
    /\ att[a] = "submitted"
    /\ \/ chain[ReceiptOf[a]] \in Landed /\ Step(a, "landed")
       \/ Step(a, "done")
    /\ UNCHANGED <<redisVars, heldVars, promotionActive, wireVars, prepVars, rcv,
                   worldVars>>

\* finalizeSponsoredExecution with the request's own result.
AttemptFinalize(a) ==
    LET r == ReceiptOf[a]
        outcome == IF att[a] = "unsigned" THEN "unsigned" ELSE LandedOutcome(r)
    IN /\ att[a] \in {"unsigned", "landed"}
       /\ \/ CanFinalize(r) /\ ApplyFinalize(r, outcome) /\ Step(a, "deliver")
          \/ /\ ~CanFinalize(r)
             /\ Step(a, IF result[r] = outcome /\ callback[r] = "pending" THEN "deliver"
                                                                          ELSE "done")
             /\ UNCHANGED <<redisVars, heldVars>>
       /\ UNCHANGED <<promotionActive, wireVars, prepVars, rcv, worldVars>>

\* The Host's callback is given the final result of r: it takes it, or throws and
\* leaves the delivery pending.
CallbackTakes(r) == heard' = heard \cup {r}

\* MARK_CALLBACK_DELIVERED_SCRIPT: compare-and-set of the record that was read.
MarkDelivered(r) ==
    \/ /\ callback[r] = "pending"
       /\ callback' = [callback EXCEPT ![r] = "delivered"]
       /\ UNCHANGED <<stage, deadlinePassed, result>>
    \/ callback[r] # "pending" /\ UNCHANGED redisVars

\* attemptSponsorResultDelivery of a sponsor request: the callback, then the mark.
AttemptCallback(a) ==
    /\ att[a] = "deliver"
    /\ \/ CallbackTakes(ReceiptOf[a]) /\ Step(a, "mark")
       \/ UNCHANGED heard /\ Step(a, "done")
    /\ UNCHANGED <<redisVars, heldVars, promotionActive, wireVars, prepVars, rcv,
                   chain, chainNonce>>

AttemptMark(a) ==
    /\ att[a] = "mark"
    /\ MarkDelivered(ReceiptOf[a])
    /\ Step(a, "done")
    /\ UNCHANGED <<heldVars, promotionActive, wireVars, prepVars, rcv, worldVars>>

\* The Host process dies or a Redis call of the request throws.
AttemptCrash(a) ==
    /\ att[a] \notin {"idle", "done"}
    /\ Step(a, "done")
    /\ UNCHANGED <<redisVars, heldVars, promotionActive, wireVars, prepVars, rcv,
                   worldVars>>

-----------------------------------------------------------------------------
(* The chain: the transaction executes at most once, at any moment after it *)
(* is signed.  A settlement succeeds only with a nonce above the vault's.    *)

ChainExecute(r) ==
    /\ chain[r] = "signed"
    /\ \/ /\ Generic(r) => txNonce[r] > chainNonce[SenderOf[r]]
          /\ chain' = [chain EXCEPT ![r] = "success"]
          /\ chainNonce' = IF Generic(r) THEN [chainNonce EXCEPT ![SenderOf[r]] = txNonce[r]]
                                         ELSE chainNonce
       \/ /\ \E o \in {"reverted", "congestion"} : chain' = [chain EXCEPT ![r] = o]
          /\ UNCHANGED chainNonce
    /\ UNCHANGED <<redisVars, heldVars, promotionActive, wireVars, prepVars, att, rcv,
                   heard>>

-----------------------------------------------------------------------------
(* The recovery task: SponsoredExecutionRecovery.                           *)

Recover(p, pc, r, seen) == rcv' = [rcv EXCEPT ![p] = [pc |-> pc, receipt |-> r, seen |-> seen]]

\* A page of the expired prepared receipts, one entry at a time.
RecoverPickPrepared(p, r) ==
    /\ rcv[p] = Idle
    /\ stage[r] = "prepared" /\ r \in deadlinePassed
    /\ Recover(p, "discard", r, "none")
    /\ UNCHANGED <<redisVars, heldVars, promotionActive, wireVars, prepVars, att,
                   worldVars>>

RecoverDiscard(p) ==
    LET r == rcv[p].receipt
    IN /\ rcv[p].pc = "discard"
       /\ rcv' = [rcv EXCEPT ![p] = Idle]
       /\ \/ PreparedIntact(r) /\ ApplyDiscard(r)
          \/ ~PreparedIntact(r) /\ UNCHANGED <<redisVars, heldVars>>
       /\ UNCHANGED <<promotionActive, wireVars, prepVars, att, worldVars>>

\* A page of the due executions, one entry at a time.
RecoverPickExecution(p, r) ==
    /\ rcv[p] = Idle
    /\ stage[r] = "executing" /\ r \in deadlinePassed
    /\ Recover(p, "lookup", r, "none")
    /\ UNCHANGED <<redisVars, heldVars, promotionActive, wireVars, prepVars, att,
                   worldVars>>

\* The lookup of the digest: the effects, or not found, which a node that lags
\* also answers of a transaction that has executed.
RecoverLookup(p) ==
    LET r == rcv[p].receipt
    IN /\ rcv[p].pc = "lookup"
       /\ \/ chain[r] \in Landed /\ Recover(p, "finalize", r, LandedOutcome(r))
          \/ Recover(p, "finalize", r, NotFoundOutcome)
       /\ UNCHANGED <<redisVars, heldVars, promotionActive, wireVars, prepVars, att,
                      worldVars>>

RecoverFinalize(p) ==
    LET r == rcv[p].receipt
    IN /\ rcv[p].pc = "finalize"
       /\ rcv' = [rcv EXCEPT ![p] = Idle]
       /\ \/ CanFinalize(r) /\ ApplyFinalize(r, rcv[p].seen)
          \/ ~CanFinalize(r) /\ UNCHANGED <<redisVars, heldVars>>
       /\ UNCHANGED <<promotionActive, wireVars, prepVars, att, worldVars>>

\* A page of the pending callbacks, one entry at a time; as a bug would have it,
\* the delivery is marked before the callback is called.
RecoverPickToMark(p, r) ==
    /\ rcv[p] = Idle
    /\ callback[r] = "pending"
    /\ Recover(p, "deliver", r, "none")
    /\ MarkDelivered(r)
    /\ UNCHANGED <<heldVars, promotionActive, wireVars, prepVars, att, worldVars>>
RecoverPickCallback(p, r) ==
    /\ rcv[p] = Idle
    /\ callback[r] = "pending"
    /\ Recover(p, "deliver", r, "none")
    /\ UNCHANGED <<redisVars, heldVars, promotionActive, wireVars, prepVars, att,
                   worldVars>>

\* attemptSponsorResultDelivery of the recovery task.  A callback
\* that throws or a mark that fails is RecoverCrash: the next pass calls it again.
RecoverCallback(p) ==
    LET r == rcv[p].receipt
    IN /\ rcv[p].pc = "deliver"
       /\ CallbackTakes(r)
       /\ Recover(p, "mark", r, "none")
       /\ UNCHANGED <<redisVars, heldVars, promotionActive, wireVars, prepVars, att,
                      chain, chainNonce>>

RecoverMark(p) ==
    /\ rcv[p].pc = "mark"
    /\ MarkDelivered(rcv[p].receipt)
    /\ rcv' = [rcv EXCEPT ![p] = Idle]
    /\ UNCHANGED <<heldVars, promotionActive, wireVars, prepVars, att, worldVars>>

\* The Host process dies or restarts, or a lookup, a callback or a Redis call throws.
RecoverCrash(p) ==
    /\ rcv[p] # Idle
    /\ rcv' = [rcv EXCEPT ![p] = Idle]
    /\ UNCHANGED <<redisVars, heldVars, promotionActive, wireVars, prepVars, att,
                   worldVars>>

-----------------------------------------------------------------------------
Prepare(r) ==
    \/ PrepSnapshot(r) \/ \E s \in Slots : PrepCheckout(r, s)
    \/ PrepSlotExhausted(r) \/ PrepReserveNonce(r) \/ PrepReserveLedger(r)
    \/ PrepFail(r) \/ PrepCommit(r) \/ PrepCommitRefused(r) \/ PrepCommitLost(r)
    \/ CommitLands(r) \/ PrepReadback(r) \/ PrepEvict(r) \/ PrepCleanHeld(r)
    \/ PrepCleanSlot(r) \/ PrepCrash(r)

Sponsor(a) ==
    \/ AttemptRead(a) \/ AttemptPreflight(a) \/ AttemptBegin(a)
    \/ AttemptBeginLost(a) \/ BeginLands(a) \/ AttemptDiscard(a)
    \/ AttemptSignCheck(a) \/ AttemptSign(a) \/ AttemptResult(a)
    \/ AttemptFinalize(a) \/ AttemptCallback(a) \/ AttemptMark(a) \/ AttemptCrash(a)

Recovery(p) ==
    \/ \E r \in Receipts : \/ RecoverPickPrepared(p, r) \/ RecoverPickExecution(p, r)
                           \/ RecoverPickCallback(p, r)
    \/ RecoverDiscard(p) \/ RecoverLookup(p) \/ RecoverFinalize(p)
    \/ RecoverCallback(p) \/ RecoverMark(p) \/ RecoverCrash(p)

Environment ==
    \/ \E s \in Slots : LeaseExpires(s)
    \/ \E r \in Receipts : \/ DeadlinePasses(r) \/ SweepReservation(r)
                           \/ ChainExecute(r)
    \/ TogglePromotion

Next ==
    \/ \E r \in Receipts : Prepare(r)
    \/ \E a \in Attempts : Sponsor(a)
    \/ \E p \in Recoverers : Recovery(p)
    \/ Environment

Spec == Init /\ [][Next]_vars

-----------------------------------------------------------------------------
(* Properties.                                                              *)

\* The shape of every variable.
TypeOK ==
    /\ stage \in [Receipts -> {"absent", "prepared", "executing", "final"}]
    /\ deadlinePassed \subseteq Receipts
    /\ result \in [Receipts -> Results \cup {"none"}]
    /\ callback \in [Receipts -> {"none", "pending", "delivered"}]
    /\ lease \in [Slots -> LeaseRecords \cup {NoLease}]
    /\ nonceKey \in [Receipts -> 0..MaxNonce]
    /\ promo \in [Receipts -> {"none", "reserved", "executing", "consumed", "released"}]
    /\ promotionActive \in BOOLEAN
    /\ commitInFlight \subseteq Receipts /\ beginInFlight \subseteq Attempts
    /\ prep \in [Receipts -> PrepStates]
    /\ seenNonce \in [Receipts -> 0..MaxNonce]
    /\ slotOf \in [Receipts -> Slots \cup {NoSlot}]
    /\ txNonce \in [Receipts -> 0..MaxNonce]
    /\ att \in [Attempts -> AttemptStates]
    /\ rcv \in [Recoverers ->
                 [pc : {"idle", "discard", "lookup", "finalize", "deliver", "mark"},
                  receipt : Receipts \cup {NoReceipt}, seen : Results \cup {"none"}]]
    /\ chain \in [Receipts -> {"none", "signed"} \cup Landed]
    /\ chainNonce \in [Senders -> 0..MaxNonce]
    /\ heard \subseteq Receipts

\* A durable receipt keeps what it needs: whatever cleanup, sweep, compaction,
\* expiry or late commit ran meanwhile, a prepared receipt owns a committed
\* lease and its nonce or reservation, and an executing one owns an executing
\* lease.  Otherwise discard and finalize would refuse it for ever.
DurableReceiptIntact ==
    \A r \in Receipts : /\ stage[r] = "prepared" => PreparedIntact(r)
                        /\ stage[r] = "executing" => CanFinalize(r)

\* A lease without a TTL always has the durable receipt that will return it,
\* and a reserved one belongs to a receipt that has not been committed.
LeaseHasOwner ==
    \A s \in Slots :
        LET q == lease[s].receipt
        IN lease[s] # NoLease =>
             /\ slotOf[q] = s
             /\ lease[s].stage = "reserved"  => stage[q] = "absent"
             /\ lease[s].stage = "committed" => stage[q] = "prepared"
             /\ lease[s].stage = "executing" => stage[q] = "executing"

\* A result that says the sponsor never signed stays true: no transaction of
\* the receipt is signed, then or later.
UnsignedMeansUnsigned ==
    \A r \in Receipts : result[r] \in {"discarded", "unsigned"} => chain[r] = "none"

\* A result that names an on-chain outcome is the outcome on chain.
OutcomeIsOnChain ==
    \A r \in Receipts : result[r] \in Landed => chain[r] = result[r]

PastBegin == {"begun", "signing", "submitted", "unsigned", "landed"}

\* However many requests race for a receipt, one at most gets to sign it.
OneSigner ==
    \A a, b \in Attempts :
        /\ ReceiptOf[a] = ReceiptOf[b] /\ att[a] \in PastBegin /\ att[b] \in PastBegin
        => a = b

\* Live nonce reservations of a sender never collide, prepared or not.
NonceReservationsDistinct ==
    \A q, r \in Receipts :
        /\ q # r /\ SenderOf[q] = SenderOf[r] /\ nonceKey[q] # 0
        => nonceKey[q] # nonceKey[r]

\* A sender never has more outstanding receipts than its limit, although the
\* generic route checks it at the reservation and the promotion route at commit.
SenderWithinLimit ==
    \A s \in Senders : Cardinality(SenderIndex(s)) <= MaxPerSender

\* The Promotion ledger agrees with the receipt, and gas that was spent for a
\* receipt, or may still be, is never given back to the budget.
PromotionPays ==
    \A r \in Receipts :
        /\ promo[r] = "executing" <=> ~Generic(r) /\ stage[r] = "executing"
        /\ promo[r] = "released" => chain[r] \in {"none", "congestion"}

\* A receipt only moves forward, and a final record never changes except for
\* its delivery mark, which is never taken back.
LifecycleForward ==
    [][\A r \in Receipts :
         /\ stage[r] = "prepared"  => stage'[r] \in {"prepared", "executing", "final"}
         /\ stage[r] = "executing" => stage'[r] \in {"executing", "final"}
         /\ stage[r] = "final"     => stage'[r] = "final" /\ result'[r] = result[r]
         /\ callback[r] = "delivered" => callback'[r] = "delivered"]_vars

\* The receipts, their results and the chain implement the abstract life cycle.
AbstractPhase(r) ==
    [absent |-> "none", prepared |-> "open", executing |-> "running",
     final |-> "closed"][stage[r]]

AbstractOutcome(r) == IF result[r] = "discarded" THEN "unsigned" ELSE result[r]

Lifecycle == INSTANCE ReceiptLifecycle WITH
    phase     <- [r \in Receipts |-> AbstractPhase(r)],
    outcome   <- [r \in Receipts |-> AbstractOutcome(r)],
    announced <- {r \in Receipts : callback[r] = "delivered"},
    chain     <- chain

ImplementsLifecycle == Lifecycle!Spec

\* The receipts keep the store's side of the contract with the Promotion ledger.
Reservations == INSTANCE PromotionReservation WITH
    reservation <- promo,
    protected   <- {r \in Receipts : ~Generic(r) /\ stage[r] = "prepared"}

\* Whatever becomes of the requests, a Promotion reservation is protected while its
\* receipt is prepared, ends once, and is consumed by an execution only.
KeepsReservationContract == Reservations!Spec

\* Every durable receipt becomes final, whatever happened to its requests.
ReceiptBecomesFinal ==
    \A r \in Receipts : stage[r] \in {"prepared", "executing"} ~> stage[r] = "final"

\* Every final result reaches the Host's callback and is marked, although callbacks
\* fail, and Hosts die before the callback or between the callback and the mark: it
\* is called again rather than never.
ResultIsDelivered ==
    \A r \in Receipts :
        callback[r] = "pending" ~> r \in heard /\ callback[r] = "delivered"

\* Every slot returns to the pool.
SlotsComeBack == \A s \in Slots : lease[s] # NoLease ~> lease[s] = NoLease

-----------------------------------------------------------------------------
(* The inductive invariant: the safety invariants above with what connects  *)
(* a receipt to the requests that work on it.                               *)

\* Until its commit is sent a prepare request has no durable receipt, and
\* until its checkout no slot.
PrepareKnowsReceipt ==
    \A r \in Receipts :
        /\ prep[r] \in {"start", "snapshot", "slot", "ready", "evicting", "retry"}
             => stage[r] = "absent" /\ r \notin commitInFlight
        /\ prep[r] \in {"start", "snapshot"} => slotOf[r] = NoSlot

\* What the final record, the callback and the Promotion say of each other.
FinalRecordComplete ==
    \A r \in Receipts :
        /\ stage[r] = "final" <=> result[r] \in Results
        /\ stage[r] = "final" <=> callback[r] # "none"
        /\ Generic(r) => promo[r] = "none"
        /\ ~Generic(r) /\ stage[r] = "final" =>
             promo[r] = IF result[r] \in {"discarded", "unsigned", "congestion"}
                        THEN "released" ELSE "consumed"

\* What a sponsor request past its begin knows of the receipt and the chain.
SignerKnowsReceipt ==
    /\ \A r \in Receipts : stage[r] \in {"absent", "prepared"} => chain[r] = "none"
    /\ \A a \in Attempts :
         LET r == ReceiptOf[a]
         IN /\ att[a] \in PastBegin =>
                 \/ stage[r] = "executing"
                 \/ result[r] \in {"unresolved"} \cup Landed
            /\ att[a] \in {"begun", "signing", "unsigned"} => chain[r] = "none"
            /\ att[a] = "landed" => chain[r] \in Landed

\* What a recovery task found still holds when it writes it.
RecoveryKnowsReceipt ==
    \A p \in Recoverers :
        /\ rcv[p].pc # "idle" => rcv[p].receipt \in Receipts
        /\ rcv[p].pc = "finalize" =>
             \/ rcv[p].seen = "unresolved"
             \/ rcv[p].seen \in Landed /\ chain[rcv[p].receipt] = rcv[p].seen

\* A delivery is marked only after the callback has taken the result, and a request
\* or task that is about to mark one has had it taken.
DeliveredWasHeard ==
    /\ \A r \in Receipts : callback[r] = "delivered" => r \in heard
    /\ \A a \in Attempts : att[a] = "mark" => ReceiptOf[a] \in heard
    /\ \A p \in Recoverers : rcv[p].pc = "mark" => rcv[p].receipt \in heard

StoreInv == /\ DurableReceiptIntact /\ LeaseHasOwner
            /\ PrepareKnowsReceipt /\ FinalRecordComplete
SignInv  == /\ UnsignedMeansUnsigned /\ OutcomeIsOnChain /\ OneSigner
            /\ SignerKnowsReceipt /\ RecoveryKnowsReceipt

SafetyInv == TypeOK /\ StoreInv /\ SignInv /\ DeliveredWasHeard /\ PromotionPays

-----------------------------------------------------------------------------
\* Time passes; the recovery task runs over and over and comes to every receipt, and
\* of one receipt its passes, the lookups and the callback do not for ever fail.  No
\* request is assumed to make progress.
Fairness ==
    /\ \A s \in Slots : WF_vars(LeaseExpires(s))
    /\ \A r \in Receipts : WF_vars(DeadlinePasses(r))
    /\ \A r \in Receipts :
         /\ SF_vars(\E p \in Recoverers : RecoverPickPrepared(p, r))
         /\ SF_vars(\E p \in Recoverers : RecoverPickExecution(p, r))
         /\ SF_vars(\E p \in Recoverers : rcv[p].receipt = r /\ RecoverDiscard(p))
         /\ SF_vars(\E p \in Recoverers : rcv[p].receipt = r /\ RecoverLookup(p))
         /\ SF_vars(\E p \in Recoverers : rcv[p].receipt = r /\ RecoverFinalize(p))
         /\ SF_vars(\E p \in Recoverers : RecoverPickCallback(p, r))
         /\ SF_vars(\E p \in Recoverers : rcv[p].receipt = r /\ RecoverCallback(p))
         /\ SF_vars(\E p \in Recoverers : rcv[p].receipt = r /\ RecoverMark(p))

FairSpec == Spec /\ Fairness

=============================================================================
