---------------------- MODULE SponsoredExecutionProofs ----------------------
(***************************************************************************)
(* Proofs about SponsoredExecution for every number of receipts, slots,    *)
(* sponsor requests and Host processes, and every limit.                   *)
(*                                                                         *)
(* SafetyInv is inductive.  Its conjuncts fall in four groups.  StoreInv   *)
(* and PromotionPays speak of the Redis records, so they are proved from   *)
(* the few transitions those records make (StoreStep), whichever actor     *)
(* takes them.  PrepareKnowsReceipt and SignInv speak of the control state *)
(* of the requests and are proved action by action, as is TypeOK.          *)
(***************************************************************************)
EXTENDS SponsoredExecution, TLAPS

-----------------------------------------------------------------------------
(* The transitions of the records a receipt depends on.                     *)

storeVars == <<stage, result, callback, lease, nonceKey, promo, slotOf, txNonce>>
ownVars   == <<slotOf, txNonce>>

Committed(r)    == CanCommit(r) /\ ApplyCommit(r) /\ UNCHANGED ownVars
Begun(r)        == CanBegin(r) /\ ApplyBegin(r) /\ UNCHANGED ownVars
Discarded(r)    == PreparedIntact(r) /\ ApplyDiscard(r) /\ UNCHANGED ownVars
Finalized(r, o) == CanFinalize(r) /\ ApplyFinalize(r, o) /\ UNCHANGED ownVars
Delivered(r)    ==
    callback[r] = "pending" /\ MarkDelivered(r) /\ UNCHANGED <<lease, nonceKey, promo, ownVars>>

\* A transition that a receipt without a durable record makes on its own.
Acquired(r) ==
    \/ \E s \in Slots : PrepCheckout(r, s)
    \/ PrepReserveNonce(r) \/ PrepReserveLedger(r)
Released(r) == PrepCleanHeld(r) \/ PrepCleanSlot(r) \/ SweepReservation(r)

\* Every step leaves the records alone or makes one of these transitions.
LEMMA StoreStep ==
    ASSUME SafetyInv, [Next]_vars
    PROVE  \/ UNCHANGED storeVars
           \/ \E r \in Receipts : \/ Committed(r) \/ Begun(r) \/ Discarded(r)
                                  \/ Delivered(r) \/ Acquired(r) \/ Released(r)
                                  \/ \E o \in Results \ {"discarded"} : Finalized(r, o)
           \/ \E s \in Slots : LeaseExpires(s)
<1> DEFINE Goal ==
      \/ UNCHANGED storeVars
      \/ \E r \in Receipts : \/ Committed(r) \/ Begun(r) \/ Discarded(r)
                             \/ Delivered(r) \/ Acquired(r) \/ Released(r)
                             \/ \E o \in Results \ {"discarded"} : Finalized(r, o)
      \/ \E s \in Slots : LeaseExpires(s)
<1> USE IdentityAssumption DEF storeVars, ownVars, redisVars, heldVars, prepVars
<1>1. ASSUME NEW r \in Receipts, Prepare(r) PROVE Goal
  <2>1. CASE \/ PrepSnapshot(r) \/ PrepSlotExhausted(r) \/ PrepFail(r)
             \/ PrepCommitRefused(r) \/ PrepCommitLost(r) \/ PrepReadback(r) \/ PrepCrash(r)
    BY <2>1 DEF PrepSnapshot, PrepSlotExhausted, PrepFail, PrepCommitRefused,
                PrepCommitLost, PrepReadback, PrepCrash
  <2>2. CASE PrepCommit(r) \/ CommitLands(r)
    BY <2>2 DEF PrepCommit, CommitLands, Committed
  <2>3. CASE PrepEvict(r)
    BY <2>3 DEF PrepEvict, Discarded, PreparedOfIp
  <2>4. CASE \/ \E s \in Slots : PrepCheckout(r, s)
             \/ PrepReserveNonce(r) \/ PrepReserveLedger(r)
    BY <2>4 DEF Acquired
  <2>5. CASE PrepCleanHeld(r) \/ PrepCleanSlot(r)
    BY <2>5 DEF Released
  <2>. QED
    BY <1>1, <2>1, <2>2, <2>3, <2>4, <2>5 DEF Prepare
<1>2. ASSUME NEW a \in Attempts, Sponsor(a) PROVE Goal
  <2> DEFINE r == ReceiptOf[a]
  <2>1. CASE \/ AttemptRead(a) \/ AttemptPreflight(a) \/ AttemptBeginLost(a)
             \/ AttemptSignCheck(a) \/ AttemptSign(a) \/ AttemptResult(a) \/ AttemptCallback(a)
             \/ AttemptCrash(a)
    BY <2>1 DEF AttemptRead, AttemptPreflight, AttemptBeginLost, AttemptSignCheck,
                AttemptSign, AttemptResult, AttemptCallback, AttemptCrash
  <2>2. CASE AttemptBegin(a) \/ BeginLands(a)
    BY <2>2 DEF AttemptBegin, BeginLands, Begun
  <2>3. CASE AttemptDiscard(a)
    BY <2>3 DEF AttemptDiscard, Discarded
  <2>4. CASE AttemptFinalize(a)
    <3>1. att[a] = "landed" => LandedOutcome(r) \in Results \ {"discarded"}
      BY DEF SafetyInv, SignInv, SignerKnowsReceipt, LandedOutcome, Results, Landed
    <3>. QED
      BY <2>4, <3>1 DEF AttemptFinalize, Finalized, Results
  <2>5. CASE AttemptMark(a)
    BY <2>5 DEF AttemptMark, MarkDelivered, Delivered
  <2>. QED
    BY <1>2, <2>1, <2>2, <2>3, <2>4, <2>5 DEF Sponsor
<1>3. ASSUME NEW p \in Recoverers, Recovery(p) PROVE Goal
  <2> DEFINE r == rcv[p].receipt
  <2>1. CASE \/ \E q \in Receipts : \/ RecoverPickPrepared(p, q) \/ RecoverPickExecution(p, q)
                                  \/ RecoverPickCallback(p, q)
             \/ RecoverLookup(p) \/ RecoverCallback(p) \/ RecoverCrash(p)
    BY <2>1 DEF RecoverPickPrepared, RecoverPickExecution, RecoverPickCallback, RecoverLookup,
                RecoverCallback, RecoverCrash
  <2>2. rcv[p].pc # "idle" => r \in Receipts
    BY DEF SafetyInv, SignInv, RecoveryKnowsReceipt
  <2>3. CASE RecoverDiscard(p)
    BY <2>2, <2>3 DEF RecoverDiscard, Discarded
  <2>4. CASE RecoverFinalize(p)
    <3>1. rcv[p].seen \in Results \ {"discarded"}
      BY <2>4 DEF RecoverFinalize, SafetyInv, SignInv, RecoveryKnowsReceipt, Results, Landed
    <3>. QED
      BY <2>2, <2>4, <3>1 DEF RecoverFinalize, Finalized
  <2>5. CASE RecoverMark(p)
    BY <2>2, <2>5 DEF RecoverMark, MarkDelivered, Delivered
  <2>. QED
    BY <1>3, <2>1, <2>3, <2>4, <2>5 DEF Recovery
<1>4. CASE Environment
  <2>2. ASSUME NEW r \in Receipts, SweepReservation(r) PROVE Goal
    BY <2>2 DEF Released
  <2>3. ASSUME NEW r \in Receipts, DeadlinePasses(r) \/ ChainExecute(r) PROVE Goal
    BY <2>3 DEF DeadlinePasses, ChainExecute
  <2>4. CASE TogglePromotion
    BY <2>4 DEF TogglePromotion
  <2>. QED
    BY <1>4, <2>2, <2>3, <2>4 DEF Environment
<1>5. CASE UNCHANGED vars
  BY <1>5 DEF vars
<1>. QED
  BY <1>1, <1>2, <1>3, <1>4, <1>5 DEF Next

-----------------------------------------------------------------------------
(* Writing one lease.                                                       *)

\* What is written in a slot is held by the receipt it names, and the receipts
\* that held other slots still hold them.
LEMMA WriteLease ==
    ASSUME TypeOK, NEW s \in Slots, NEW x, lease' = [lease EXCEPT ![s] = x]
    PROVE  /\ \A q, st : slotOf'[q] = slotOf[q] /\ lease[s].receipt # q /\ Holds(q, st)
                           => Holds(q, st)'
           /\ \A q, st : slotOf'[q] = s /\ x = [receipt |-> q, stage |-> st]
                           => Holds(q, st)'
<1>1. lease \in [Slots -> LeaseRecords \cup {NoLease}]
  BY DEF TypeOK
<1>2. ASSUME NEW q, NEW st, slotOf'[q] = slotOf[q], lease[s].receipt # q, Holds(q, st)
      PROVE  Holds(q, st)'
  <2>1. slotOf[q] \in Slots /\ lease[slotOf[q]].receipt = q
    BY <1>2 DEF Holds
  <2>2. lease'[slotOf[q]] = lease[slotOf[q]]
    BY <1>1, <1>2, <2>1
  <2>. QED
    BY <1>2, <2>1, <2>2 DEF Holds
<1>3. ASSUME NEW q, NEW st, slotOf'[q] = s, x = [receipt |-> q, stage |-> st]
      PROVE  Holds(q, st)'
  BY <1>1, <1>3 DEF Holds
<1>. QED
  BY <1>2, <1>3

-----------------------------------------------------------------------------
(* DurableReceiptIntact.                                                    *)

\* A transition of r that writes no lease but r's own leaves the durable
\* receipts intact if it leaves r intact.
LEMMA OthersIntact ==
    ASSUME SafetyInv, NEW r \in Receipts, NEW s \in Slots, NEW x,
           lease' = [lease EXCEPT ![s] = x],
           lease[s].receipt \in {r, NoReceipt},
           \A q \in Receipts \ {r} :
             /\ stage'[q] = stage[q] /\ slotOf'[q] = slotOf[q]
             /\ nonceKey'[q] = nonceKey[q] /\ txNonce'[q] = txNonce[q]
             /\ promo'[q] = promo[q],
           stage'[r] = "prepared" => PreparedIntact(r)',
           stage'[r] = "executing" => CanFinalize(r)'
    PROVE  DurableReceiptIntact'
<1>1. ASSUME NEW q \in Receipts \ {r}
      PROVE  /\ stage'[q] = "prepared" => PreparedIntact(q)'
             /\ stage'[q] = "executing" => CanFinalize(q)'
  <2>1. ASSUME NEW st, Holds(q, st) PROVE Holds(q, st)'
    <3>1. lease[s].receipt # q
      BY IdentityAssumption
    <3>. QED
      BY <2>1, <3>1, WriteLease DEF SafetyInv
  <2>2. stage'[q] = "prepared" => PreparedIntact(q)'
    BY <2>1 DEF SafetyInv, StoreInv, DurableReceiptIntact, PreparedIntact, Generic
  <2>3. stage'[q] = "executing" => CanFinalize(q)'
    BY <2>1 DEF SafetyInv, StoreInv, DurableReceiptIntact, CanFinalize, Generic
  <2>. QED
    BY <2>2, <2>3
<1>. QED
  BY <1>1 DEF DurableReceiptIntact

\* A reserved lease that goes away is no durable receipt's.
LEMMA ReservedLeaseGone ==
    ASSUME SafetyInv, NEW s \in Slots, lease[s].stage = "reserved",
           lease' = [lease EXCEPT ![s] = NoLease],
           UNCHANGED <<stage, slotOf, nonceKey, txNonce, promo>>
    PROVE  DurableReceiptIntact'
<1> DEFINE r == lease[s].receipt
<1>1. lease[s] \in LeaseRecords
  BY DEF SafetyInv, TypeOK, NoLease
<1>2. r \in Receipts /\ stage[r] = "absent"
  BY <1>1, IdentityAssumption DEF SafetyInv, StoreInv, LeaseHasOwner, NoLease, LeaseRecords
<1>. QED
  BY <1>2, OthersIntact

LEMMA DurableReceiptStep ==
    ASSUME SafetyInv, [Next]_vars
    PROVE  DurableReceiptIntact'
<1> USE DEF ownVars
<1>0. /\ stage \in [Receipts -> {"absent", "prepared", "executing", "final"}]
      /\ slotOf \in [Receipts -> Slots \cup {NoSlot}]
      /\ nonceKey \in [Receipts -> 0..MaxNonce] /\ txNonce \in [Receipts -> 0..MaxNonce]
      /\ promo \in [Receipts -> {"none", "reserved", "executing", "consumed", "released"}]
      /\ DurableReceiptIntact
  BY DEF SafetyInv, TypeOK, StoreInv
<1>1. CASE UNCHANGED storeVars
  BY <1>0, <1>1 DEF storeVars, DurableReceiptIntact, PreparedIntact, CanFinalize, Holds, Generic
<1>2. ASSUME NEW r \in Receipts, Committed(r) PROVE DurableReceiptIntact'
  <2>1. slotOf[r] \in Slots /\ lease[slotOf[r]].receipt = r
    BY <1>2 DEF Committed, CanCommit, CommitIdentityOk, Holds
  <2>2. Holds(r, "committed")'
    BY <1>2, <2>1, WriteLease DEF SafetyInv, Committed, ApplyCommit
  <2>3. PreparedIntact(r)'
    BY <1>0, <1>2, <2>2 DEF PreparedIntact, Committed, ApplyCommit, CanCommit,
                            CommitIdentityOk, Generic
  <2>4. stage'[r] = "prepared"
    BY <1>0, <1>2 DEF Committed, ApplyCommit
  <2>. QED
    BY <1>0, <1>2, <2>1, <2>3, <2>4, OthersIntact DEF Committed, ApplyCommit
<1>3. ASSUME NEW r \in Receipts, Begun(r) PROVE DurableReceiptIntact'
  <2>1. slotOf[r] \in Slots /\ lease[slotOf[r]].receipt = r
    BY <1>3 DEF Begun, CanBegin, PreparedIntact, Holds
  <2>2. Holds(r, "executing")'
    BY <1>3, <2>1, WriteLease DEF SafetyInv, Begun, ApplyBegin
  <2>3. stage'[r] = "executing" /\ CanFinalize(r)'
    BY <1>0, <1>3, <2>2 DEF CanFinalize, Begun, ApplyBegin, Generic
  <2>. QED
    BY <1>0, <1>3, <2>1, <2>3, OthersIntact DEF Begun, ApplyBegin
<1>4. ASSUME NEW r \in Receipts, Discarded(r) PROVE DurableReceiptIntact'
  <2>1. slotOf[r] \in Slots /\ lease[slotOf[r]].receipt = r
    BY <1>4 DEF Discarded, PreparedIntact, Holds
  <2>. QED
    BY <1>0, <1>4, <2>1, OthersIntact DEF Discarded, ApplyDiscard, FreeSlot
<1>5. ASSUME NEW r \in Receipts, NEW o, Finalized(r, o) PROVE DurableReceiptIntact'
  <2>1. slotOf[r] \in Slots /\ lease[slotOf[r]].receipt = r
    BY <1>5 DEF Finalized, CanFinalize, Holds
  <2>. QED
    BY <1>0, <1>5, <2>1, OthersIntact DEF Finalized, ApplyFinalize, FreeSlot
<1>6. ASSUME NEW r \in Receipts, Delivered(r) PROVE DurableReceiptIntact'
  BY <1>0, <1>6 DEF Delivered, MarkDelivered, DurableReceiptIntact, PreparedIntact,
                    CanFinalize, Holds, Generic
<1>7. ASSUME NEW r \in Receipts, Acquired(r) PROVE DurableReceiptIntact'
  <2>0. stage[r] = "absent" /\ UNCHANGED stage
    BY <1>7 DEF SafetyInv, StoreInv, PrepareKnowsReceipt, Acquired, PrepCheckout,
                PrepReserveNonce, PrepReserveLedger, redisVars
  <2>1. ASSUME NEW s \in Slots, PrepCheckout(r, s) PROVE DurableReceiptIntact'
    <3>1. lease[s].receipt = NoReceipt
      BY <2>1 DEF PrepCheckout, NoLease
    <3>2. lease' = [lease EXCEPT ![s] = [receipt |-> r, stage |-> "reserved"]]
      BY <2>1 DEF PrepCheckout
    <3>3. /\ UNCHANGED <<nonceKey, txNonce, promo>>
          /\ \A q \in Receipts \ {r} : slotOf'[q] = slotOf[q]
      BY <1>0, <2>1 DEF PrepCheckout
    <3>. QED
      BY <2>0, <3>1, <3>2, <3>3, OthersIntact
  <2>2. CASE PrepReserveNonce(r)
    <3>1. \A q \in Receipts : stage[q] = "prepared" =>
            nonceKey'[q] = nonceKey[q] /\ txNonce'[q] = txNonce[q]
      BY <1>0, <2>0, <2>2 DEF PrepReserveNonce
    <3>2. UNCHANGED <<lease, slotOf, promo>>
      BY <2>2 DEF PrepReserveNonce
    <3>. QED
      BY <1>0, <2>0, <3>1, <3>2 DEF DurableReceiptIntact, PreparedIntact, CanFinalize, Holds,
                                    Generic
  <2>3. CASE PrepReserveLedger(r)
    BY <1>0, <2>0, <2>3 DEF PrepReserveLedger, DurableReceiptIntact, PreparedIntact,
                            CanFinalize, Holds, Generic
  <2>. QED
    BY <1>7, <2>1, <2>2, <2>3 DEF Acquired
<1>8. ASSUME NEW r \in Receipts, Released(r) PROVE DurableReceiptIntact'
  <2>1. CASE PrepCleanHeld(r) \/ SweepReservation(r)
    BY <1>0, <2>1, ZenonT(60) DEF PrepCleanHeld, SweepReservation, Unprotected, DurableReceiptIntact,
                      PreparedIntact, CanFinalize, Holds, Generic, redisVars, prepVars
  <2>2. CASE PrepCleanSlot(r)
    <3>1. UNCHANGED <<stage, slotOf, nonceKey, txNonce, promo>>
      BY <2>2 DEF PrepCleanSlot, redisVars
    <3>2. CASE /\ Holds(r, "reserved")
               /\ lease' = [lease EXCEPT ![slotOf[r]] = NoLease]
      <4>1. slotOf[r] \in Slots /\ lease[slotOf[r]].stage = "reserved"
        BY <3>2 DEF Holds
      <4>. QED
        BY <3>1, <3>2, <4>1, ReservedLeaseGone
    <3>3. CASE UNCHANGED lease
      BY <1>0, <3>1, <3>3 DEF DurableReceiptIntact, PreparedIntact, CanFinalize, Holds,
                              Generic
    <3>. QED
      BY <2>2, <3>2, <3>3 DEF PrepCleanSlot
  <2>. QED
    BY <1>8, <2>1, <2>2 DEF Released
<1>9. ASSUME NEW s \in Slots, LeaseExpires(s) PROVE DurableReceiptIntact'
  BY <1>9, ReservedLeaseGone DEF LeaseExpires, redisVars, prepVars
<1>. QED
  BY <1>1, <1>2, <1>3, <1>4, <1>5, <1>6, <1>7, <1>8, <1>9, StoreStep

-----------------------------------------------------------------------------
(* LeaseHasOwner.                                                           *)

LEMMA LeaseOwnerStep ==
    ASSUME SafetyInv, [Next]_vars
    PROVE  LeaseHasOwner'
<1> USE IdentityAssumption DEF ownVars
<1>0. /\ stage \in [Receipts -> {"absent", "prepared", "executing", "final"}]
      /\ slotOf \in [Receipts -> Slots \cup {NoSlot}]
      /\ lease \in [Slots -> LeaseRecords \cup {NoLease}]
      /\ LeaseHasOwner
  BY DEF SafetyInv, TypeOK, StoreInv
<1>1. CASE UNCHANGED storeVars
  BY <1>0, <1>1 DEF storeVars, LeaseHasOwner
<1>2. ASSUME NEW r \in Receipts, Committed(r) PROVE LeaseHasOwner'
  BY <1>0, <1>2 DEF Committed, CanCommit, CommitIdentityOk, Holds, ApplyCommit,
                    LeaseHasOwner, LeaseRecords, NoLease
<1>3. ASSUME NEW r \in Receipts, Begun(r) PROVE LeaseHasOwner'
  BY <1>0, <1>3 DEF Begun, CanBegin, PreparedIntact, Holds, ApplyBegin,
                    LeaseHasOwner, LeaseRecords, NoLease
<1>4. ASSUME NEW r \in Receipts, Discarded(r) PROVE LeaseHasOwner'
  BY <1>0, <1>4 DEF Discarded, PreparedIntact, Holds, ApplyDiscard, FreeSlot,
                    LeaseHasOwner, LeaseRecords, NoLease
<1>5. ASSUME NEW r \in Receipts, NEW o, Finalized(r, o) PROVE LeaseHasOwner'
  BY <1>0, <1>5 DEF Finalized, CanFinalize, Holds, ApplyFinalize, FreeSlot,
                    LeaseHasOwner, LeaseRecords, NoLease
<1>6. ASSUME NEW r \in Receipts, Delivered(r) PROVE LeaseHasOwner'
  BY <1>0, <1>6 DEF Delivered, MarkDelivered, LeaseHasOwner
<1>7. ASSUME NEW r \in Receipts, Acquired(r) PROVE LeaseHasOwner'
  <2>1. ASSUME NEW s \in Slots, PrepCheckout(r, s) PROVE LeaseHasOwner'
    <3>1. stage[r] = "absent" /\ slotOf[r] = NoSlot
      BY <2>1 DEF SafetyInv, StoreInv, PrepareKnowsReceipt, PrepCheckout
    <3>. QED
      BY <1>0, <2>1, <3>1 DEF PrepCheckout, LeaseHasOwner, LeaseRecords, NoLease, redisVars
  <2>2. CASE PrepReserveNonce(r) \/ PrepReserveLedger(r)
    BY <1>0, <2>2 DEF PrepReserveNonce, PrepReserveLedger, LeaseHasOwner, redisVars
  <2>. QED
    BY <1>7, <2>1, <2>2 DEF Acquired
<1>8. ASSUME NEW r \in Receipts, Released(r) PROVE LeaseHasOwner'
  BY <1>0, <1>8 DEF Released, PrepCleanHeld, PrepCleanSlot, SweepReservation, Holds,
                    LeaseHasOwner, LeaseRecords, NoLease, redisVars, prepVars
<1>9. ASSUME NEW s \in Slots, LeaseExpires(s) PROVE LeaseHasOwner'
  BY <1>0, <1>9 DEF LeaseExpires, LeaseHasOwner, LeaseRecords, NoLease, redisVars, prepVars
<1>. QED
  BY <1>1, <1>2, <1>3, <1>4, <1>5, <1>6, <1>7, <1>8, <1>9, StoreStep

-----------------------------------------------------------------------------
(* FinalRecordComplete, and the part of PromotionPays that is not a         *)
(* consequence of the rest.                                                 *)

LEMMA FinalRecordStep ==
    ASSUME SafetyInv, [Next]_vars
    PROVE  FinalRecordComplete'
<1> USE DEF ownVars, Generic
<1>0. /\ stage \in [Receipts -> {"absent", "prepared", "executing", "final"}]
      /\ result \in [Receipts -> Results \cup {"none"}]
      /\ callback \in [Receipts -> {"none", "pending", "delivered"}]
      /\ promo \in [Receipts -> {"none", "reserved", "executing", "consumed", "released"}]
      /\ FinalRecordComplete
      /\ "none" \notin Results /\ "discarded" \in Results
  BY DEF SafetyInv, TypeOK, StoreInv, Results, Landed
<1>1. CASE UNCHANGED storeVars
  BY <1>0, <1>1 DEF storeVars, FinalRecordComplete
<1>2. ASSUME NEW r \in Receipts, Committed(r) PROVE FinalRecordComplete'
  BY <1>0, <1>2 DEF Committed, CanCommit, CommitIdentityOk, ApplyCommit, FinalRecordComplete
<1>3. ASSUME NEW r \in Receipts, Begun(r) PROVE FinalRecordComplete'
  BY <1>0, <1>3 DEF Begun, CanBegin, PreparedIntact, ApplyBegin, FinalRecordComplete
<1>4. ASSUME NEW r \in Receipts, Discarded(r) PROVE FinalRecordComplete'
  BY <1>0, <1>4 DEF Discarded, PreparedIntact, ApplyDiscard, FinalRecordComplete
<1>5. ASSUME NEW r \in Receipts, NEW o \in Results \ {"discarded"}, Finalized(r, o)
      PROVE  FinalRecordComplete'
  BY <1>0, <1>5 DEF Finalized, CanFinalize, ApplyFinalize, PromotionOutcome,
                    FinalRecordComplete
<1>6. ASSUME NEW r \in Receipts, Delivered(r) PROVE FinalRecordComplete'
  BY <1>0, <1>6 DEF Delivered, MarkDelivered, FinalRecordComplete
<1>7. ASSUME NEW r \in Receipts, Acquired(r) PROVE FinalRecordComplete'
  <2>1. stage[r] = "absent"
    BY <1>7 DEF SafetyInv, StoreInv, PrepareKnowsReceipt, Acquired, PrepCheckout,
                PrepReserveNonce, PrepReserveLedger
  <2>. QED
    BY <1>0, <1>7, <2>1 DEF Acquired, PrepCheckout, PrepReserveNonce, PrepReserveLedger,
                            FinalRecordComplete, redisVars
<1>8. ASSUME NEW r \in Receipts, Released(r) PROVE FinalRecordComplete'
  BY <1>0, <1>8 DEF Released, PrepCleanHeld, PrepCleanSlot, SweepReservation,
                    FinalRecordComplete, redisVars
<1>9. ASSUME NEW s \in Slots, LeaseExpires(s) PROVE FinalRecordComplete'
  BY <1>0, <1>9 DEF LeaseExpires, FinalRecordComplete, redisVars
<1>. QED
  BY <1>1, <1>2, <1>3, <1>4, <1>5, <1>6, <1>7, <1>8, <1>9, StoreStep

LedgerExecutes == \A r \in Receipts : promo[r] = "executing" => stage[r] = "executing"

LEMMA LedgerExecutesStep ==
    ASSUME SafetyInv, [Next]_vars
    PROVE  LedgerExecutes'
<1> USE DEF ownVars, Generic
<1>0. /\ stage \in [Receipts -> {"absent", "prepared", "executing", "final"}]
      /\ promo \in [Receipts -> {"none", "reserved", "executing", "consumed", "released"}]
      /\ \A r \in Receipts : promo[r] = "executing" => stage[r] = "executing"
      /\ \A r \in Receipts : Generic(r) => promo[r] = "none"
  BY DEF SafetyInv, TypeOK, StoreInv, PromotionPays, FinalRecordComplete
<1>1. CASE UNCHANGED storeVars
  BY <1>0, <1>1 DEF storeVars, LedgerExecutes
<1>2. ASSUME NEW r \in Receipts, Committed(r) PROVE LedgerExecutes'
  BY <1>0, <1>2 DEF Committed, CanCommit, CommitIdentityOk, ApplyCommit, LedgerExecutes
<1>3. ASSUME NEW r \in Receipts, Begun(r) PROVE LedgerExecutes'
  BY <1>0, <1>3 DEF Begun, ApplyBegin, LedgerExecutes
<1>4. ASSUME NEW r \in Receipts, Discarded(r) PROVE LedgerExecutes'
  BY <1>0, <1>4 DEF Discarded, ApplyDiscard, LedgerExecutes
<1>5. ASSUME NEW r \in Receipts, NEW o, Finalized(r, o) PROVE LedgerExecutes'
  BY <1>0, <1>5 DEF Finalized, ApplyFinalize, PromotionOutcome, LedgerExecutes
<1>6. ASSUME NEW r \in Receipts, Delivered(r) PROVE LedgerExecutes'
  BY <1>0, <1>6 DEF Delivered, MarkDelivered, LedgerExecutes
<1>7. ASSUME NEW r \in Receipts, Acquired(r) PROVE LedgerExecutes'
  BY <1>0, <1>7 DEF Acquired, PrepCheckout, PrepReserveNonce, PrepReserveLedger,
                    LedgerExecutes, redisVars
<1>8. ASSUME NEW r \in Receipts, Released(r) PROVE LedgerExecutes'
  BY <1>0, <1>8 DEF Released, PrepCleanHeld, PrepCleanSlot, SweepReservation,
                    LedgerExecutes, redisVars
<1>9. ASSUME NEW s \in Slots, LeaseExpires(s) PROVE LedgerExecutes'
  BY <1>0, <1>9 DEF LeaseExpires, LedgerExecutes, redisVars
<1>. QED
  BY <1>1, <1>2, <1>3, <1>4, <1>5, <1>6, <1>7, <1>8, <1>9, StoreStep

\* The rest of PromotionPays: the receipt is final, and the final record says
\* why the reservation was released, or it was released before any signature.
LEMMA PaysFollows ==
    ASSUME TypeOK, StoreInv, SignInv, LedgerExecutes
    PROVE  PromotionPays
<1>1. ASSUME NEW r \in Receipts
      PROVE  /\ promo[r] = "executing" <=> ~Generic(r) /\ stage[r] = "executing"
             /\ promo[r] = "released" => chain[r] \in {"none", "congestion"}
  <2>1. promo[r] = "executing" <=> ~Generic(r) /\ stage[r] = "executing"
    BY DEF StoreInv, DurableReceiptIntact, CanFinalize, FinalRecordComplete, LedgerExecutes
  <2>2. ASSUME promo[r] = "released" PROVE chain[r] \in {"none", "congestion"}
    <3>1. CASE stage[r] \in {"absent", "prepared"}
      BY <3>1 DEF SignInv, SignerKnowsReceipt
    <3>2. CASE stage[r] = "executing"
      BY <2>1, <2>2, <3>2 DEF StoreInv, FinalRecordComplete
    <3>3. CASE stage[r] = "final"
      BY <2>2, <3>3 DEF StoreInv, FinalRecordComplete, SignInv, UnsignedMeansUnsigned,
                        OutcomeIsOnChain, Landed
    <3>. QED
      BY <3>1, <3>2, <3>3 DEF TypeOK
  <2>. QED
    BY <2>1, <2>2
<1>. QED
  BY <1>1 DEF PromotionPays

-----------------------------------------------------------------------------
(* PrepareKnowsReceipt.                                                     *)

\* Begin, discard and finalize find a receipt that has been committed, so no
\* prepare request is still ahead of its commit.
LEMMA PastPrepare ==
    ASSUME TypeOK, PrepareKnowsReceipt, UNCHANGED <<prep, slotOf>>,
           commitInFlight' \subseteq commitInFlight, NEW q \in Receipts,
           stage[q] # "absent" \/ UNCHANGED stage,
           \A r \in Receipts \ {q} : stage'[r] = stage[r]
    PROVE  PrepareKnowsReceipt'
  BY DEF TypeOK, PrepareKnowsReceipt

LEMMA PrepareStep ==
    ASSUME SafetyInv, [Next]_vars
    PROVE  PrepareKnowsReceipt'
<1> USE DEF redisVars, wireVars, prepVars
<1>0. /\ stage \in [Receipts -> {"absent", "prepared", "executing", "final"}]
      /\ prep \in [Receipts -> PrepStates] /\ slotOf \in [Receipts -> Slots \cup {NoSlot}]
      /\ commitInFlight \subseteq Receipts
      /\ PrepareKnowsReceipt
      /\ TypeOK
  BY DEF SafetyInv, TypeOK, StoreInv
<1>1. ASSUME NEW r \in Receipts, Prepare(r) PROVE PrepareKnowsReceipt'
  <2>1. CASE \/ PrepSnapshot(r) \/ PrepSlotExhausted(r) \/ PrepReserveNonce(r)
             \/ PrepReserveLedger(r) \/ PrepFail(r) \/ PrepCommitRefused(r)
             \/ PrepCleanHeld(r) \/ PrepCleanSlot(r)
    BY <1>0, <2>1 DEF PrepSnapshot, PrepSlotExhausted, PrepReserveNonce, PrepReserveLedger,
                      PrepFail, PrepCommitRefused, PrepCleanHeld, PrepCleanSlot, Goto,
                      PrepareKnowsReceipt
  <2>2. ASSUME NEW s \in Slots, PrepCheckout(r, s) PROVE PrepareKnowsReceipt'
    BY <1>0, <2>2 DEF PrepCheckout, Goto, PrepareKnowsReceipt
  <2>3. CASE PrepCommit(r) \/ PrepCommitLost(r)
    BY <1>0, <2>3 DEF PrepCommit, ApplyCommit, PrepCommitLost, Goto, PrepareKnowsReceipt
  <2>4. CASE CommitLands(r)
    BY <1>0, <2>4 DEF CommitLands, ApplyCommit, PrepareKnowsReceipt
  <2>5. CASE PrepReadback(r) \/ PrepCrash(r)
    BY <1>0, <2>5 DEF PrepReadback, PrepCrash, Goto, PrepareKnowsReceipt
  <2>6. CASE PrepEvict(r)
    <3>1. CASE UNCHANGED stage
      BY <1>0, <2>6, <3>1 DEF PrepEvict, Goto, PrepareKnowsReceipt
    <3>2. ASSUME NEW q \in Receipts, PreparedIntact(q), ApplyDiscard(q)
          PROVE  PrepareKnowsReceipt'
      <4>1. stage[q] = "prepared" /\ \A p \in Receipts \ {q} : stage'[p] = stage[p]
        BY <1>0, <3>2 DEF PreparedIntact, ApplyDiscard
      <4>2. prep[r] = "evicting"
        BY <2>6 DEF PrepEvict
      <4>3. \A p \in Receipts \ {r} : prep'[p] = prep[p]
        BY <1>0, <2>6 DEF PrepEvict, Goto
      <4>4. prep'[r] \in {"retry", "cleanHeld"}
        BY <1>0, <2>6 DEF PrepEvict, Goto
      <4>. QED
        BY <1>0, <2>6, <4>1, <4>2, <4>3, <4>4 DEF PrepEvict, PrepareKnowsReceipt
    <3>. QED
      BY <2>6, <3>1, <3>2 DEF PrepEvict, PreparedOfIp
  <2>. QED
    BY <1>1, <2>1, <2>2, <2>3, <2>4, <2>5, <2>6 DEF Prepare
<1>2. ASSUME NEW a \in Attempts, Sponsor(a) PROVE PrepareKnowsReceipt'
  <2> DEFINE r == ReceiptOf[a]
  <2>0. r \in Receipts
    BY IdentityAssumption
  <2>1. CASE \/ AttemptRead(a) \/ AttemptPreflight(a) \/ AttemptBeginLost(a)
             \/ AttemptSignCheck(a) \/ AttemptSign(a) \/ AttemptResult(a) \/ AttemptCrash(a)
             \/ AttemptCallback(a) \/ AttemptMark(a)
    BY <1>0, <2>1 DEF AttemptRead, AttemptPreflight, AttemptBeginLost, AttemptSignCheck,
                AttemptSign, AttemptResult, AttemptCrash, AttemptCallback, AttemptMark,
                MarkDelivered, PrepareKnowsReceipt
  <2>2. CASE AttemptBegin(a) \/ BeginLands(a)
    BY <1>0, <2>0, <2>2, PastPrepare DEF AttemptBegin, BeginLands, CanBegin,
                PreparedIntact, ApplyBegin
  <2>3. CASE AttemptDiscard(a)
    BY <1>0, <2>0, <2>3, PastPrepare DEF AttemptDiscard, PreparedIntact, ApplyDiscard
  <2>4. CASE AttemptFinalize(a)
    BY <1>0, <2>0, <2>4, PastPrepare DEF AttemptFinalize, CanFinalize, ApplyFinalize
  <2>. QED
    BY <1>2, <2>1, <2>2, <2>3, <2>4 DEF Sponsor
<1>3. ASSUME NEW p \in Recoverers, Recovery(p) PROVE PrepareKnowsReceipt'
  <2>1. CASE \/ \E q \in Receipts : \/ RecoverPickPrepared(p, q) \/ RecoverPickExecution(p, q)
                                  \/ RecoverPickCallback(p, q)
             \/ RecoverLookup(p) \/ RecoverCallback(p) \/ RecoverMark(p) \/ RecoverCrash(p)
    BY <2>1, <1>0 DEF RecoverPickPrepared, RecoverPickExecution, RecoverPickCallback,
                      RecoverLookup, RecoverCallback, RecoverMark, MarkDelivered,
                      RecoverCrash, PrepareKnowsReceipt
  <2>2. rcv[p].pc # "idle" => rcv[p].receipt \in Receipts
    BY DEF SafetyInv, SignInv, RecoveryKnowsReceipt
  <2>3. CASE RecoverDiscard(p)
    BY <1>0, <2>2, <2>3, PastPrepare DEF RecoverDiscard, PreparedIntact, ApplyDiscard
  <2>4. CASE RecoverFinalize(p)
    BY <1>0, <2>2, <2>4, PastPrepare DEF RecoverFinalize, CanFinalize, ApplyFinalize
  <2>. QED
    BY <1>3, <2>1, <2>3, <2>4 DEF Recovery
<1>4. CASE Environment
  BY <1>0, <1>4 DEF Environment, LeaseExpires, DeadlinePasses, SweepReservation, ChainExecute,
                    TogglePromotion, PrepareKnowsReceipt
<1>5. CASE UNCHANGED vars
  BY <1>0, <1>5 DEF vars, PrepareKnowsReceipt
<1>. QED
  BY <1>1, <1>2, <1>3, <1>4, <1>5 DEF Next

-----------------------------------------------------------------------------
(* SignInv.  Only a request that saw the receipt executing gets to sign, a  *)
(* receipt is begun once, and what closes it unsigned is the one request    *)
(* that could have signed.                                                  *)

LEMMA SignStep ==
    ASSUME SafetyInv, [Next]_vars
    PROVE  SignInv'
<1>0. /\ stage \in [Receipts -> {"absent", "prepared", "executing", "final"}]
      /\ result \in [Receipts -> Results \cup {"none"}]
      /\ att \in [Attempts -> AttemptStates]
      /\ chain \in [Receipts -> {"none", "signed"} \cup Landed]
      /\ rcv \in [Recoverers ->
                   [pc : {"idle", "discard", "lookup", "finalize", "deliver", "mark"},
                    receipt : Receipts \cup {NoReceipt}, seen : Results \cup {"none"}]]
      /\ \A r \in Receipts : stage[r] = "final" <=> result[r] \in Results
      /\ SignInv
  BY DEF SafetyInv, TypeOK, StoreInv, FinalRecordComplete
<1> USE <1>0, IdentityAssumption
    DEF redisVars, worldVars, Landed, Results, PastBegin, SignInv, UnsignedMeansUnsigned,
        OutcomeIsOnChain, OneSigner, SignerKnowsReceipt, RecoveryKnowsReceipt
<1>1. ASSUME NEW r \in Receipts, Prepare(r) PROVE SignInv'
  <2>1. CASE PrepCommit(r) \/ CommitLands(r)
    BY <2>1 DEF PrepCommit, CommitLands, ApplyCommit, CanCommit, CommitIdentityOk
  <2>2. CASE PrepEvict(r)
    BY <2>2 DEF PrepEvict, PreparedOfIp, PreparedIntact, ApplyDiscard
  <2>3. CASE ~(PrepCommit(r) \/ CommitLands(r) \/ PrepEvict(r))
    BY <1>1, <2>3 DEF Prepare, PrepSnapshot, PrepCheckout, PrepSlotExhausted,
         PrepReserveNonce, PrepReserveLedger, PrepFail, PrepCommitRefused, PrepCommitLost,
         PrepReadback, PrepCleanHeld, PrepCleanSlot, PrepCrash
  <2>. QED
    BY <2>1, <2>2, <2>3
<1>2. ASSUME NEW a \in Attempts, Sponsor(a) PROVE SignInv'
  <2> USE DEF Step
  <2>1. CASE \/ AttemptRead(a) \/ AttemptPreflight(a) \/ AttemptBeginLost(a)
             \/ AttemptCrash(a) \/ AttemptCallback(a) \/ AttemptMark(a)
    BY <2>1 DEF AttemptRead, AttemptPreflight, AttemptBeginLost, AttemptCrash,
                AttemptCallback, AttemptMark, MarkDelivered
  <2>2. CASE AttemptBegin(a)
    BY <2>2 DEF AttemptBegin, CanBegin, PreparedIntact, ApplyBegin
  <2>3. CASE BeginLands(a)
    BY <2>3 DEF BeginLands, CanBegin, PreparedIntact, ApplyBegin
  <2>4. CASE AttemptDiscard(a)
    BY <2>4 DEF AttemptDiscard, PreparedIntact, ApplyDiscard
  <2>5. CASE AttemptSignCheck(a) \/ AttemptResult(a)
    BY <2>5 DEF AttemptSignCheck, AttemptResult
  <2>6. CASE AttemptSign(a)
    BY <2>6 DEF AttemptSign
  <2>7. CASE AttemptFinalize(a)
    BY <2>7 DEF AttemptFinalize, CanFinalize, ApplyFinalize, LandedOutcome
  <2>. QED
    BY <1>2, <2>1, <2>2, <2>3, <2>4, <2>5, <2>6, <2>7 DEF Sponsor
<1>3. ASSUME NEW p \in Recoverers, Recovery(p) PROVE SignInv'
  <2> USE DEF Idle, Recover
  <2>1. CASE \/ \E r \in Receipts : RecoverPickPrepared(p, r) \/ RecoverPickExecution(p, r)
             \/ RecoverCrash(p)
    BY <2>1 DEF RecoverPickPrepared, RecoverPickExecution, RecoverCrash
  <2>5. CASE \/ \E r \in Receipts : RecoverPickCallback(p, r)
             \/ RecoverCallback(p) \/ RecoverMark(p)
    BY <2>5 DEF RecoverPickCallback, RecoverCallback, RecoverMark, MarkDelivered
  <2>2. CASE RecoverDiscard(p)
    BY <2>2 DEF RecoverDiscard, PreparedIntact, ApplyDiscard
  <2>3. CASE RecoverLookup(p)
    BY <2>3 DEF RecoverLookup, LandedOutcome, NotFoundOutcome
  <2>4. CASE RecoverFinalize(p)
    <3>1. CASE UNCHANGED <<redisVars, heldVars>>
      BY <2>4, <3>1 DEF RecoverFinalize
    <3>2. CASE CanFinalize(rcv[p].receipt) /\ ApplyFinalize(rcv[p].receipt, rcv[p].seen)
      BY <2>4, <3>2 DEF RecoverFinalize, CanFinalize, ApplyFinalize
    <3>. QED
      BY <2>4, <3>1, <3>2 DEF RecoverFinalize
  <2>. QED
    BY <1>3, <2>1, <2>2, <2>3, <2>4, <2>5 DEF Recovery
<1>4. CASE Environment
  <2>1. ASSUME NEW r \in Receipts, ChainExecute(r) PROVE SignInv'
    BY <2>1 DEF ChainExecute
  <2>2. CASE \/ \E s \in Slots : LeaseExpires(s)
             \/ \E r \in Receipts : DeadlinePasses(r) \/ SweepReservation(r)
             \/ TogglePromotion
    BY <2>2 DEF LeaseExpires, DeadlinePasses, SweepReservation, TogglePromotion
  <2>. QED
    BY <1>4, <2>1, <2>2 DEF Environment
<1>5. CASE UNCHANGED vars
  BY <1>5 DEF vars
<1>. QED
  BY <1>1, <1>2, <1>3, <1>4, <1>5 DEF Next

-----------------------------------------------------------------------------
(* TypeOK.                                                                  *)

RecordsTyped ==
    /\ stage \in [Receipts -> {"absent", "prepared", "executing", "final"}]
    /\ deadlinePassed \subseteq Receipts
    /\ result \in [Receipts -> Results \cup {"none"}]
    /\ callback \in [Receipts -> {"none", "pending", "delivered"}]
    /\ lease \in [Slots -> LeaseRecords \cup {NoLease}]
    /\ nonceKey \in [Receipts -> 0..MaxNonce]
    /\ promo \in [Receipts -> {"none", "reserved", "executing", "consumed", "released"}]

\* The atomic transitions write records of the right shape.
LEMMA ApplyTyped ==
    ASSUME TypeOK, NEW r \in Receipts
    PROVE  /\ ApplyCommit(r) => RecordsTyped'
           /\ ApplyBegin(r) => RecordsTyped'
           /\ ApplyDiscard(r) => RecordsTyped'
           /\ \A o \in Results : ApplyFinalize(r, o) => RecordsTyped'
           /\ UNCHANGED <<redisVars, heldVars>> => RecordsTyped'
<1>0. RecordsTyped /\ "discarded" \in Results /\ 0 \in 0..MaxNonce
  BY LimitAssumption DEF TypeOK, RecordsTyped, Results
<1>1. ASSUME ApplyCommit(r) PROVE RecordsTyped'
  BY <1>0, <1>1 DEF RecordsTyped, ApplyCommit, LeaseRecords
<1>2. ASSUME ApplyBegin(r) PROVE RecordsTyped'
  <2>1. nonceKey' \in [Receipts -> 0..MaxNonce]
    BY <1>0, <1>2 DEF RecordsTyped, ApplyBegin
  <2>2. promo' \in [Receipts -> {"none", "reserved", "executing", "consumed", "released"}]
    BY <1>0, <1>2 DEF RecordsTyped, ApplyBegin
  <2>3. lease' \in [Slots -> LeaseRecords \cup {NoLease}]
    BY <1>0, <1>2 DEF RecordsTyped, ApplyBegin, LeaseRecords
  <2>. QED
    BY <1>0, <1>2, <2>1, <2>2, <2>3 DEF RecordsTyped, ApplyBegin
<1>3. ASSUME ApplyDiscard(r) PROVE RecordsTyped'
  <2>1. nonceKey' \in [Receipts -> 0..MaxNonce]
    BY <1>0, <1>3 DEF RecordsTyped, ApplyDiscard
  <2>2. promo' \in [Receipts -> {"none", "reserved", "executing", "consumed", "released"}]
    BY <1>0, <1>3 DEF RecordsTyped, ApplyDiscard
  <2>3. lease' \in [Slots -> LeaseRecords \cup {NoLease}]
    BY <1>0, <1>3 DEF RecordsTyped, ApplyDiscard, FreeSlot
  <2>. QED
    BY <1>0, <1>3, <2>1, <2>2, <2>3 DEF RecordsTyped, ApplyDiscard
<1>4. ASSUME NEW o \in Results, ApplyFinalize(r, o) PROVE RecordsTyped'
  BY <1>0, <1>4 DEF RecordsTyped, ApplyFinalize, FreeSlot, PromotionOutcome
<1>5. ASSUME UNCHANGED <<redisVars, heldVars>> PROVE RecordsTyped'
  BY <1>0, <1>5 DEF RecordsTyped, redisVars, heldVars
<1>. QED
  BY <1>1, <1>2, <1>3, <1>4, <1>5

\* The nonce a reservation takes, if there is one, is a u64.
LEMMA NextNonceTyped ==
    ASSUME NEW used PROVE NextNonce(used) \subseteq 1..MaxNonce
  BY DEF NextNonce

LEMMA TypeStep ==
    ASSUME SafetyInv, [Next]_vars
    PROVE  TypeOK'
<1> USE IdentityAssumption, LimitAssumption
    DEF redisVars, heldVars, wireVars, prepVars, worldVars, Landed, Results
<1>0. TypeOK
  BY DEF SafetyInv
<1>1. ASSUME NEW r \in Receipts, Prepare(r) PROVE TypeOK'
  <2> USE <1>0 DEF TypeOK, Goto, PrepStates
  <2>1. CASE PrepSnapshot(r)
    BY <2>1 DEF PrepSnapshot, Senders
  <2>2. ASSUME NEW s \in Slots, PrepCheckout(r, s) PROVE TypeOK'
    BY <2>2 DEF PrepCheckout, LeaseRecords
  <2>3. CASE \/ PrepSlotExhausted(r) \/ PrepFail(r) \/ PrepCommitRefused(r)
             \/ PrepCommitLost(r) \/ PrepReadback(r) \/ PrepCrash(r)
    BY <2>3 DEF PrepSlotExhausted, PrepFail, PrepCommitRefused, PrepCommitLost,
                PrepReadback, PrepCrash
  <2>4. CASE PrepReserveNonce(r)
    <3>1. nonceKey' \in [Receipts -> 0..MaxNonce] /\ txNonce' \in [Receipts -> 0..MaxNonce]
      <4>1. PICK old \in SUBSET {q \in SenderIndex(SenderOf[r]) : stage[q] # "prepared"} :
              LET kept == [q \in Receipts |-> IF q \in old THEN 0 ELSE nonceKey[q]]
              IN  \/ nonceKey' = kept /\ UNCHANGED txNonce
                  \/ \E n \in 1..MaxNonce : /\ nonceKey' = [kept EXCEPT ![r] = n]
                                            /\ txNonce' = [txNonce EXCEPT ![r] = n]
        BY <2>4, NextNonceTyped DEF PrepReserveNonce
      <4> DEFINE kept == [q \in Receipts |-> IF q \in old THEN 0 ELSE nonceKey[q]]
      <4>2. kept \in [Receipts -> 0..MaxNonce]
        OBVIOUS
      <4>3. CASE nonceKey' = kept /\ UNCHANGED txNonce
        BY <4>2, <4>3
      <4>4. ASSUME NEW n \in 1..MaxNonce, nonceKey' = [kept EXCEPT ![r] = n],
                   txNonce' = [txNonce EXCEPT ![r] = n]
            PROVE  nonceKey' \in [Receipts -> 0..MaxNonce] /\ txNonce' \in [Receipts -> 0..MaxNonce]
        <5>1. n \in 0..MaxNonce
          OBVIOUS
        <5>2. nonceKey' \in [Receipts -> 0..MaxNonce]
          <6> HIDE DEF kept
          <6>. QED BY <4>2, <4>4, <5>1
        <5>. QED
          BY <4>4, <5>1, <5>2
      <4>. QED
        BY <4>1, <4>3, <4>4
    <3>. QED
      BY <2>4, <3>1 DEF PrepReserveNonce
  <2>5. CASE PrepReserveLedger(r)
    BY <2>5 DEF PrepReserveLedger
  <2>6. CASE PrepCommit(r)
    BY <2>6, ApplyTyped DEF PrepCommit, RecordsTyped
  <2>7. CASE CommitLands(r)
    BY <2>7, ApplyTyped DEF CommitLands, RecordsTyped
  <2>8. CASE PrepEvict(r)
    <3>1. RecordsTyped'
      BY <2>8, ApplyTyped DEF PrepEvict, PreparedOfIp
    <3>. QED
      BY <2>8, <3>1 DEF PrepEvict, RecordsTyped
  <2>9. CASE PrepCleanHeld(r)
    BY <2>9 DEF PrepCleanHeld
  <2>10. CASE PrepCleanSlot(r)
    BY <2>10 DEF PrepCleanSlot
  <2>. QED
    BY <1>1, <2>1, <2>2, <2>3, <2>4, <2>5, <2>6, <2>7, <2>8, <2>9, <2>10 DEF Prepare
<1>2. ASSUME NEW a \in Attempts, Sponsor(a) PROVE TypeOK'
  <2> USE <1>0 DEF TypeOK, Step, AttemptStates
  <2>1. CASE \/ AttemptRead(a) \/ AttemptPreflight(a) \/ AttemptBeginLost(a)
             \/ AttemptCrash(a) \/ AttemptSignCheck(a) \/ AttemptSign(a) \/ AttemptResult(a)
    BY <2>1, SMTT(40) DEF AttemptRead, AttemptPreflight, AttemptBeginLost, AttemptCrash,
                AttemptSignCheck, AttemptSign, AttemptResult
  <2>2. CASE AttemptBegin(a)
    BY <2>2, ApplyTyped DEF AttemptBegin, RecordsTyped
  <2>3. CASE BeginLands(a)
    BY <2>3, ApplyTyped DEF BeginLands, RecordsTyped
  <2>4. CASE AttemptDiscard(a)
    BY <2>4, ApplyTyped, SMTT(40) DEF AttemptDiscard, RecordsTyped
  <2>5. CASE AttemptFinalize(a)
    <3>1. att[a] = "landed" => LandedOutcome(ReceiptOf[a]) \in Results
      BY DEF SafetyInv, SignInv, SignerKnowsReceipt, LandedOutcome
    <3>2. RecordsTyped'
      BY <2>5, <3>1, ApplyTyped DEF AttemptFinalize
    <3>. QED
      BY <2>5, <3>2 DEF AttemptFinalize, RecordsTyped
  <2>6. CASE AttemptCallback(a) \/ AttemptMark(a)
    BY <2>6, SMTT(40) DEF AttemptCallback, AttemptMark, CallbackTakes, MarkDelivered
  <2>. QED
    BY <1>2, <2>1, <2>2, <2>3, <2>4, <2>5, <2>6 DEF Sponsor
<1>3. ASSUME NEW p \in Recoverers, Recovery(p) PROVE TypeOK'
  <2>0. /\ rcv[p].pc # "idle" => rcv[p].receipt \in Receipts
        /\ rcv[p].pc = "finalize" => rcv[p].seen \in Results
    BY DEF SafetyInv, SignInv, RecoveryKnowsReceipt
  <2> USE <1>0, <2>0 DEF TypeOK, Idle, Recover
  <2>1. CASE \/ \E r \in Receipts : RecoverPickPrepared(p, r) \/ RecoverPickExecution(p, r)
             \/ RecoverCrash(p)
    BY <2>1 DEF RecoverPickPrepared, RecoverPickExecution, RecoverCrash
  <2>5. CASE RecoverLookup(p)
    BY <2>5 DEF RecoverLookup, LandedOutcome, NotFoundOutcome
  <2>4. CASE \/ \E r \in Receipts : RecoverPickCallback(p, r)
             \/ RecoverCallback(p) \/ RecoverMark(p)
    BY <2>4 DEF RecoverPickCallback, RecoverCallback, RecoverMark, CallbackTakes, MarkDelivered
  <2>2. CASE RecoverDiscard(p)
    BY <2>2, ApplyTyped DEF RecoverDiscard, RecordsTyped
  <2>3. CASE RecoverFinalize(p)
    BY <2>3, ApplyTyped DEF RecoverFinalize, RecordsTyped
  <2>. QED
    BY <1>3, <2>1, <2>2, <2>3, <2>4, <2>5 DEF Recovery
<1>4. CASE Environment
  <2>1. ASSUME NEW r \in Receipts, ChainExecute(r) PROVE TypeOK'
    <3>1. chain' \in [Receipts -> {"none", "signed"} \cup Landed]
      BY <1>0, <2>1 DEF TypeOK, ChainExecute
    <3>2. chainNonce' \in [Senders -> 0..MaxNonce]
      <4>1. SenderOf[r] \in Senders /\ txNonce[r] \in 0..MaxNonce
        BY <1>0 DEF TypeOK, Senders
      <4>2. chainNonce \in [Senders -> 0..MaxNonce]
        BY <1>0 DEF TypeOK
      <4>3. \/ UNCHANGED chainNonce
            \/ chainNonce' = [chainNonce EXCEPT ![SenderOf[r]] = txNonce[r]]
        BY <2>1 DEF ChainExecute
      <4>. QED
        BY <4>1, <4>2, <4>3
    <3>. QED
      BY <1>0, <2>1, <3>1, <3>2 DEF TypeOK, ChainExecute
  <2>2. ASSUME NEW s \in Slots, LeaseExpires(s) PROVE TypeOK'
    BY <1>0, <2>2 DEF TypeOK, LeaseExpires
  <2>3. ASSUME NEW r \in Receipts, DeadlinePasses(r) PROVE TypeOK'
    BY <1>0, <2>3 DEF TypeOK, DeadlinePasses
  <2>4. ASSUME NEW r \in Receipts, SweepReservation(r) PROVE TypeOK'
    BY <1>0, <2>4 DEF TypeOK, SweepReservation
  <2>5. CASE TogglePromotion
    BY <1>0, <2>5 DEF TypeOK, TogglePromotion
  <2>. QED
    BY <1>4, <2>1, <2>2, <2>3, <2>4, <2>5 DEF Environment
<1>5. CASE UNCHANGED vars
  BY <1>0, <1>5 DEF TypeOK, vars
<1>. QED
  BY <1>1, <1>2, <1>3, <1>4, <1>5 DEF Next

-----------------------------------------------------------------------------
(* DeliveredWasHeard: the callback comes before the mark.                   *)

\* What a mark of r changes, and what the callback does.
LEMMA MarkKeepsHeard ==
    ASSUME SafetyInv, NEW r \in heard, MarkDelivered(r), UNCHANGED heard
    PROVE  \A q \in Receipts : callback'[q] = "delivered" => q \in heard'
  BY DEF SafetyInv, TypeOK, DeliveredWasHeard, MarkDelivered, redisVars

LEMMA HeardStep ==
    ASSUME SafetyInv, [Next]_vars
    PROVE  DeliveredWasHeard'
<1>0. /\ DeliveredWasHeard
      /\ callback \in [Receipts -> {"none", "pending", "delivered"}]
      /\ att \in [Attempts -> AttemptStates]
      /\ rcv \in [Recoverers ->
                   [pc : {"idle", "discard", "lookup", "finalize", "deliver", "mark"},
                    receipt : Receipts \cup {NoReceipt}, seen : Results \cup {"none"}]]
  BY DEF SafetyInv, TypeOK
<1> USE <1>0, IdentityAssumption DEF DeliveredWasHeard, redisVars, worldVars
<1>1. ASSUME NEW r \in Receipts, Prepare(r) PROVE DeliveredWasHeard'
  <2>1. \A q \in Receipts : callback'[q] = "delivered" => callback[q] = "delivered"
    BY <1>1 DEF Prepare, PrepSnapshot, PrepCheckout, PrepSlotExhausted, PrepReserveNonce,
         PrepReserveLedger, PrepFail, PrepCommit, PrepCommitRefused, PrepCommitLost,
         CommitLands, PrepReadback, PrepEvict, PrepCleanHeld, PrepCleanSlot, PrepCrash,
         ApplyCommit, ApplyDiscard
  <2>2. UNCHANGED <<att, rcv, heard>>
    BY <1>1 DEF Prepare, PrepSnapshot, PrepCheckout, PrepSlotExhausted, PrepReserveNonce,
         PrepReserveLedger, PrepFail, PrepCommit, PrepCommitRefused, PrepCommitLost,
         CommitLands, PrepReadback, PrepEvict, PrepCleanHeld, PrepCleanSlot, PrepCrash
  <2>. QED
    BY <2>1, <2>2
<1>2. ASSUME NEW a \in Attempts, Sponsor(a) PROVE DeliveredWasHeard'
  <2> USE DEF Step
  <2>1. CASE AttemptCallback(a)
    BY <2>1 DEF AttemptCallback, CallbackTakes
  <2>2. CASE AttemptMark(a)
    BY <2>2, MarkKeepsHeard DEF AttemptMark
  <2>3. CASE AttemptBegin(a) \/ BeginLands(a) \/ AttemptDiscard(a) \/ AttemptFinalize(a)
    BY <2>3 DEF AttemptBegin, BeginLands, AttemptDiscard, AttemptFinalize, ApplyBegin,
                ApplyDiscard, ApplyFinalize
  <2>4. CASE \/ AttemptRead(a) \/ AttemptPreflight(a) \/ AttemptBeginLost(a)
             \/ AttemptSignCheck(a) \/ AttemptSign(a) \/ AttemptResult(a) \/ AttemptCrash(a)
    BY <2>4 DEF AttemptRead, AttemptPreflight, AttemptBeginLost, AttemptSignCheck,
                AttemptSign, AttemptResult, AttemptCrash
  <2>. QED
    BY <1>2, <2>1, <2>2, <2>3, <2>4 DEF Sponsor
<1>3. ASSUME NEW p \in Recoverers, Recovery(p) PROVE DeliveredWasHeard'
  <2> USE DEF Idle, Recover
  <2>1. CASE RecoverCallback(p)
    BY <2>1 DEF RecoverCallback, CallbackTakes
  <2>2. CASE RecoverMark(p)
    BY <2>2, MarkKeepsHeard DEF RecoverMark
  <2>3. CASE RecoverDiscard(p) \/ RecoverFinalize(p)
    BY <2>3 DEF RecoverDiscard, RecoverFinalize, ApplyDiscard, ApplyFinalize
  <2>4. CASE \/ \E r \in Receipts : \/ RecoverPickPrepared(p, r) \/ RecoverPickExecution(p, r)
                                  \/ RecoverPickCallback(p, r)
             \/ RecoverLookup(p) \/ RecoverCrash(p)
    BY <2>4 DEF RecoverPickPrepared, RecoverPickExecution, RecoverPickCallback,
                RecoverLookup, RecoverCrash
  <2>. QED
    BY <1>3, <2>1, <2>2, <2>3, <2>4 DEF Recovery
<1>4. CASE Environment
  BY <1>4 DEF Environment, LeaseExpires, DeadlinePasses, SweepReservation, ChainExecute,
              TogglePromotion
<1>5. CASE UNCHANGED vars
  BY <1>5 DEF vars
<1>. QED
  BY <1>1, <1>2, <1>3, <1>4, <1>5 DEF Next

-----------------------------------------------------------------------------
(* The invariant and what follows from it.                                  *)

LEMMA InitSafe == Init => SafetyInv
<1> SUFFICES ASSUME Init PROVE SafetyInv
  OBVIOUS
<1> USE IdentityAssumption, LimitAssumption DEF Init
<1>1. TypeOK
  <2>1. chainNonce \in [Senders -> 0..MaxNonce]
    BY StartAssumption
  <2>. QED
    BY <2>1 DEF TypeOK, NoLease, Idle, PrepStates, AttemptStates, Results
<1>2. StoreInv
  BY DEF StoreInv, DurableReceiptIntact, LeaseHasOwner, PrepareKnowsReceipt,
         FinalRecordComplete, Results, Landed, Generic
<1>3. SignInv
  BY DEF SignInv, UnsignedMeansUnsigned, OutcomeIsOnChain, OneSigner, SignerKnowsReceipt,
         RecoveryKnowsReceipt, PastBegin, Idle, Landed
<1>4. PromotionPays
  BY DEF PromotionPays
<1>5. DeliveredWasHeard
  BY DEF DeliveredWasHeard, Idle
<1>. QED
  BY <1>1, <1>2, <1>3, <1>4, <1>5 DEF SafetyInv

LEMMA NextSafe == SafetyInv /\ [Next]_vars => SafetyInv'
<1> SUFFICES ASSUME SafetyInv, [Next]_vars PROVE SafetyInv'
  OBVIOUS
<1>1. TypeOK'
  BY TypeStep
<1>2. StoreInv'
  BY DurableReceiptStep, LeaseOwnerStep, PrepareStep, FinalRecordStep DEF StoreInv
<1>3. SignInv'
  BY SignStep
<1>4. PromotionPays'
  <2>1. LedgerExecutes'
    BY LedgerExecutesStep
  <2>. QED
    BY <1>1, <1>2, <1>3, <2>1, PaysFollows, PTL
<1>5. DeliveredWasHeard'
  BY HeardStep
<1>. QED
  BY <1>1, <1>2, <1>3, <1>4, <1>5 DEF SafetyInv

\* SafetyInv is an invariant of the sponsored execution.
THEOREM SafetyInvariant == Spec => []SafetyInv
  BY InitSafe, NextSafe, PTL DEF Spec

\* The shape of every variable, for all constants.
THEOREM Typed == Spec => []TypeOK
  BY SafetyInvariant, PTL DEF SafetyInv

\* A durable receipt keeps the lease and the nonce or reservation it needs.
THEOREM ReceiptsStayIntact == Spec => []DurableReceiptIntact
<1>1. SafetyInv => DurableReceiptIntact
  BY DEF SafetyInv, StoreInv
<1>. QED
  BY <1>1, SafetyInvariant, PTL

\* Every lease has the receipt that will return it.
THEOREM LeasesHaveOwners == Spec => []LeaseHasOwner
<1>1. SafetyInv => LeaseHasOwner
  BY DEF SafetyInv, StoreInv
<1>. QED
  BY <1>1, SafetyInvariant, PTL

\* A receipt closed as unsigned is never signed.
THEOREM UnsignedStaysUnsigned == Spec => []UnsignedMeansUnsigned
<1>1. SafetyInv => UnsignedMeansUnsigned
  BY DEF SafetyInv, SignInv
<1>. QED
  BY <1>1, SafetyInvariant, PTL

\* A recorded on-chain outcome is the outcome on chain.
THEOREM OutcomesAreOnChain == Spec => []OutcomeIsOnChain
<1>1. SafetyInv => OutcomeIsOnChain
  BY DEF SafetyInv, SignInv
<1>. QED
  BY <1>1, SafetyInvariant, PTL

\* However many requests race, one at most signs.
THEOREM AtMostOneSigner == Spec => []OneSigner
<1>1. SafetyInv => OneSigner
  BY DEF SafetyInv, SignInv
<1>. QED
  BY <1>1, SafetyInvariant, PTL

\* A result is marked delivered only after the callback has taken it, whoever delivers
\* it and wherever a delivery stops: a delivery may be repeated and is never skipped.
THEOREM MarkFollowsCallback == Spec => []DeliveredWasHeard
  BY SafetyInvariant, PTL DEF SafetyInv

\* Gas spent for a Promotion receipt is never refunded to its budget.
THEOREM SpentGasIsPaid == Spec => []PromotionPays
  BY SafetyInvariant, PTL DEF SafetyInv

-----------------------------------------------------------------------------
(* Nonce reservations.                                                      *)

\* A reservation exceeds every reservation of the sender it leaves in place.
LEMMA ReserveDistinct ==
    ASSUME TypeOK, NonceReservationsDistinct, NEW r \in Receipts, PrepReserveNonce(r)
    PROVE  NonceReservationsDistinct'
<1>0. nonceKey \in [Receipts -> 0..MaxNonce] /\ seenNonce \in [Receipts -> 0..MaxNonce]
  BY DEF TypeOK
<1>1. PICK old \in SUBSET {q \in SenderIndex(SenderOf[r]) : stage[q] # "prepared"} :
        LET live == SenderIndex(SenderOf[r]) \ old
            kept == [q \in Receipts |-> IF q \in old THEN 0 ELSE nonceKey[q]]
        IN  \/ nonceKey' = kept
            \/ \E n \in NextNonce(UsedNonces(r, live)) : nonceKey' = [kept EXCEPT ![r] = n]
  BY DEF PrepReserveNonce
<1> DEFINE live == SenderIndex(SenderOf[r]) \ old
           kept == [q \in Receipts |-> IF q \in old THEN 0 ELSE nonceKey[q]]
<1>2. \A p, q \in Receipts : /\ p # q /\ SenderOf[p] = SenderOf[q] /\ kept[p] # 0
                             => kept[p] # kept[q]
  BY <1>0 DEF NonceReservationsDistinct
<1>3. CASE nonceKey' = kept
  BY <1>2, <1>3 DEF NonceReservationsDistinct
<1>4. ASSUME NEW n \in NextNonce(UsedNonces(r, live)), nonceKey' = [kept EXCEPT ![r] = n]
      PROVE  NonceReservationsDistinct'
  <2>1. ASSUME NEW q \in Receipts, q # r, SenderOf[q] = SenderOf[r] PROVE kept[q] # n
    <3>1. CASE q \in live
      <4>1. n \in 1..MaxNonce /\ nonceKey[q] < n
        BY <3>1 DEF NextNonce, UsedNonces
      <4>. QED
        BY <1>0, <3>1, <4>1
    <3>2. CASE q \notin live
      <4>1. kept[q] = 0
        BY <2>1, <3>2 DEF SenderIndex
      <4>. QED
        BY <4>1 DEF NextNonce
    <3>. QED
      BY <3>1, <3>2
  <2>. QED
    BY <1>2, <1>4, <2>1 DEF NonceReservationsDistinct
<1>. QED
  BY <1>1, <1>3, <1>4

LEMMA NoncesStep ==
    ASSUME SafetyInv, NonceReservationsDistinct, [Next]_vars
    PROVE  NonceReservationsDistinct'
<1> USE DEF ownVars
<1>0. nonceKey \in [Receipts -> 0..MaxNonce] /\ NonceReservationsDistinct /\ TypeOK
  BY DEF SafetyInv, TypeOK
<1>1. CASE UNCHANGED nonceKey
  BY <1>0, <1>1 DEF NonceReservationsDistinct
<1>2. ASSUME NEW r \in Receipts, nonceKey' = [nonceKey EXCEPT ![r] = 0]
      PROVE  NonceReservationsDistinct'
  BY <1>0, <1>2 DEF NonceReservationsDistinct
<1>3. ASSUME NEW r \in Receipts, PrepReserveNonce(r) PROVE NonceReservationsDistinct'
  BY <1>0, <1>3, ReserveDistinct
<1>. QED
  BY <1>1, <1>2, <1>3, StoreStep
  DEF storeVars, Committed, ApplyCommit, Begun, ApplyBegin, Discarded, ApplyDiscard,
      Finalized, ApplyFinalize, Delivered, Acquired, PrepCheckout, PrepReserveLedger,
      Released, PrepCleanHeld, PrepCleanSlot, SweepReservation, LeaseExpires

\* Whatever compaction dropped and however late a prepare request is, no two
\* live reservations of a sender collide.
THEOREM NoncesDistinct == Spec => []NonceReservationsDistinct
<1>1. Init => NonceReservationsDistinct
  BY DEF Init, NonceReservationsDistinct
<1>. QED
  BY <1>1, NoncesStep, SafetyInvariant, PTL DEF Spec

-----------------------------------------------------------------------------
(* The life cycle of the records.                                           *)

Forward ==
    \A r \in Receipts :
      /\ stage[r] = "prepared"  => stage'[r] \in {"prepared", "executing", "final"}
      /\ stage[r] = "executing" => stage'[r] \in {"executing", "final"}
      /\ stage[r] = "final"     => stage'[r] = "final" /\ result'[r] = result[r]
      /\ callback[r] = "delivered" => callback'[r] = "delivered"

LEMMA ForwardStep ==
    ASSUME SafetyInv, [Next]_vars
    PROVE  Forward
<1> USE DEF ownVars
<1>0. /\ stage \in [Receipts -> {"absent", "prepared", "executing", "final"}]
      /\ \A r \in Receipts : callback[r] = "delivered" => stage[r] = "final"
      /\ result \in [Receipts -> Results \cup {"none"}]
      /\ callback \in [Receipts -> {"none", "pending", "delivered"}]
  BY DEF SafetyInv, TypeOK, StoreInv, FinalRecordComplete
<1>1. CASE UNCHANGED <<stage, result, callback>>
  BY <1>0, <1>1 DEF Forward
<1>2. ASSUME NEW r \in Receipts, Committed(r) PROVE Forward
  BY <1>0, <1>2 DEF Forward, Committed, CanCommit, CommitIdentityOk, ApplyCommit
<1>3. ASSUME NEW r \in Receipts, Begun(r) PROVE Forward
  BY <1>0, <1>3 DEF Forward, Begun, CanBegin, PreparedIntact, ApplyBegin
<1>4. ASSUME NEW r \in Receipts, Discarded(r) PROVE Forward
  BY <1>0, <1>4 DEF Forward, Discarded, PreparedIntact, ApplyDiscard
<1>5. ASSUME NEW r \in Receipts, NEW o, Finalized(r, o) PROVE Forward
  BY <1>0, <1>5 DEF Forward, Finalized, CanFinalize, ApplyFinalize
<1>6. ASSUME NEW r \in Receipts, Delivered(r) PROVE Forward
  BY <1>0, <1>6 DEF Forward, Delivered, MarkDelivered
<1>. QED
  BY <1>1, <1>2, <1>3, <1>4, <1>5, <1>6, StoreStep
  DEF storeVars, redisVars, Acquired, PrepCheckout, PrepReserveNonce, PrepReserveLedger,
      Released, PrepCleanHeld, PrepCleanSlot, SweepReservation, LeaseExpires

\* Records only move forward and a final record keeps its result.
THEOREM RecordsMoveForward == Spec => LifecycleForward
<1>1. SafetyInv /\ [Next]_vars => [Forward]_vars
  BY ForwardStep
<1>. QED
  BY <1>1, SafetyInvariant, PTL DEF Spec, LifecycleForward, Forward
=============================================================================
