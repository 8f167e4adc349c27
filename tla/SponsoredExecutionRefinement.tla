--------------------- MODULE SponsoredExecutionRefinement ---------------------
(***************************************************************************)
(* SponsoredExecution implements ReceiptLifecycle, for all constants: each *)
(* transition of the records, each signature and each execution on chain   *)
(* is one step of the abstract life cycle, and every other step is none.   *)
(* It also keeps the outstanding receipts of a sender within the limit,    *)
(* and its side of PromotionReservation.                                   *)
(***************************************************************************)
EXTENDS SponsoredExecutionProofs, FiniteSetTheorems

phaseOf   == [r \in Receipts |-> AbstractPhase(r)]
outcomeOf == [r \in Receipts |-> AbstractOutcome(r)]
announcedOf == {r \in Receipts : callback[r] = "delivered"}

\* The steps of the chain and of the signer, which leave the records alone.
Signed(r) ==
    /\ chain[r] = "none"
    /\ stage[r] = "executing" \/ (stage[r] = "final" /\ result[r] = "unresolved")
    /\ chain' = [chain EXCEPT ![r] = "signed"]
LandedOn(r) ==
    /\ chain[r] = "signed"
    /\ \E o \in Landed : chain' = [chain EXCEPT ![r] = o]

LEMMA ChainStep ==
    ASSUME SafetyInv, [Next]_vars
    PROVE  \/ UNCHANGED chain
           \/ /\ \E r \in Receipts : Signed(r) \/ LandedOn(r)
              /\ UNCHANGED <<stage, result, callback>>
<1> USE IdentityAssumption DEF redisVars, worldVars, Landed
<1>1. ASSUME NEW r \in Receipts, Prepare(r) PROVE UNCHANGED chain
  BY <1>1 DEF Prepare, PrepSnapshot, PrepCheckout, PrepSlotExhausted, PrepReserveNonce,
       PrepReserveLedger, PrepFail, PrepCommit, PrepCommitRefused, PrepCommitLost,
       CommitLands, PrepReadback, PrepEvict, PrepCleanHeld, PrepCleanSlot, PrepCrash
<1>2. ASSUME NEW a \in Attempts, AttemptSign(a)
      PROVE  Signed(ReceiptOf[a]) /\ UNCHANGED <<stage, result, callback>>
  <2>1. /\ chain[ReceiptOf[a]] = "none"
        /\ \/ stage[ReceiptOf[a]] = "executing"
           \/ result[ReceiptOf[a]] = "unresolved"
    BY <1>2 DEF AttemptSign, SafetyInv, SignInv, SignerKnowsReceipt, OutcomeIsOnChain, PastBegin
  <2>2. result[ReceiptOf[a]] = "unresolved" => stage[ReceiptOf[a]] = "final"
    BY DEF SafetyInv, StoreInv, FinalRecordComplete, Results
  <2>. QED
    BY <1>2, <2>1, <2>2 DEF AttemptSign, Signed
<1>3. ASSUME NEW a \in Attempts, Sponsor(a), ~AttemptSign(a) PROVE UNCHANGED chain
  BY <1>3 DEF Sponsor, AttemptRead, AttemptPreflight, AttemptBegin, AttemptBeginLost,
       BeginLands, AttemptDiscard, AttemptSignCheck, AttemptResult, AttemptFinalize,
       AttemptCallback, AttemptMark, AttemptCrash
<1>4. ASSUME NEW p \in Recoverers, Recovery(p) PROVE UNCHANGED chain
  BY <1>4 DEF Recovery, RecoverPickPrepared, RecoverPickExecution, RecoverPickCallback,
       RecoverDiscard, RecoverLookup, RecoverFinalize, RecoverCallback, RecoverMark,
       RecoverCrash
<1>5. ASSUME NEW r \in Receipts, ChainExecute(r)
      PROVE  LandedOn(r) /\ UNCHANGED <<stage, result, callback>>
  BY <1>5 DEF ChainExecute, LandedOn
<1>6. CASE \/ \E s \in Slots : LeaseExpires(s)
           \/ \E r \in Receipts : DeadlinePasses(r) \/ SweepReservation(r)
           \/ TogglePromotion
  BY <1>6 DEF LeaseExpires, DeadlinePasses, SweepReservation, TogglePromotion
<1>7. CASE UNCHANGED vars
  BY <1>7 DEF vars
<1>. QED
  BY <1>1, <1>2, <1>3, <1>4, <1>5, <1>6, <1>7 DEF Next, Environment

\* A function that differs from another in one place only.
LEMMA OneChange ==
    ASSUME NEW S, NEW f, NEW g, NEW r \in S, NEW x,
           f = [q \in S |-> f[q]], g = [q \in S |-> g[q]],
           g[r] = x, \A q \in S \ {r} : g[q] = f[q]
    PROVE  g = [f EXCEPT ![r] = x]
  OBVIOUS

\* The abstract variables are functions of the records.
LEMMA AbstractValues ==
    /\ phaseOf = [q \in Receipts |-> phaseOf[q]] /\ outcomeOf = [q \in Receipts |-> outcomeOf[q]]
    /\ \A q \in Receipts :
         /\ stage[q] = "absent" => phaseOf[q] = "none"
         /\ stage[q] = "prepared" => phaseOf[q] = "open"
         /\ stage[q] = "executing" => phaseOf[q] = "running"
         /\ stage[q] = "final" => phaseOf[q] = "closed"
         /\ result[q] = "discarded" => outcomeOf[q] = "unsigned"
         /\ result[q] # "discarded" => outcomeOf[q] = result[q]
         /\ q \in announcedOf <=> callback[q] = "delivered"
  BY DEF phaseOf, outcomeOf, announcedOf, AbstractPhase, AbstractOutcome

LEMMA AbstractValuesNext ==
    /\ phaseOf' = [q \in Receipts |-> phaseOf'[q]] /\ outcomeOf' = [q \in Receipts |-> outcomeOf'[q]]
    /\ \A q \in Receipts :
         /\ stage'[q] = "absent" => phaseOf'[q] = "none"
         /\ stage'[q] = "prepared" => phaseOf'[q] = "open"
         /\ stage'[q] = "executing" => phaseOf'[q] = "running"
         /\ stage'[q] = "final" => phaseOf'[q] = "closed"
         /\ result'[q] = "discarded" => outcomeOf'[q] = "unsigned"
         /\ result'[q] # "discarded" => outcomeOf'[q] = result'[q]
         /\ q \in announcedOf' <=> callback'[q] = "delivered"
  BY DEF phaseOf, outcomeOf, announcedOf, AbstractPhase, AbstractOutcome

\* A transition of one record is a transition of one abstract receipt.
LEMMA PhaseChange ==
    ASSUME TypeOK, NEW r \in Receipts, \A q \in Receipts \ {r} : stage'[q] = stage[q]
    PROVE  phaseOf' = [phaseOf EXCEPT ![r] = phaseOf'[r]]
<1>1. \A q \in Receipts \ {r} : phaseOf'[q] = phaseOf[q]
  BY DEF phaseOf, AbstractPhase
<1>. QED
  BY <1>1, AbstractValues, AbstractValuesNext, OneChange

LEMMA OutcomeChange ==
    ASSUME TypeOK, NEW r \in Receipts, \A q \in Receipts \ {r} : result'[q] = result[q]
    PROVE  outcomeOf' = [outcomeOf EXCEPT ![r] = outcomeOf'[r]]
<1>1. \A q \in Receipts \ {r} : outcomeOf'[q] = outcomeOf[q]
  BY DEF outcomeOf, AbstractOutcome
<1>. QED
  BY <1>1, AbstractValues, AbstractValuesNext, OneChange

\* An unfinished receipt that is not announced, and the others do not change.
LEMMA AnnouncedSame ==
    ASSUME NEW r \in Receipts, callback[r] # "delivered", callback'[r] # "delivered",
           \A q \in Receipts \ {r} : callback'[q] = callback[q]
    PROVE  announcedOf' = announcedOf
<1>1. \A q \in Receipts : callback'[q] = "delivered" <=> callback[q] = "delivered"
  OBVIOUS
<1>. QED
  BY <1>1 DEF announcedOf

LEMMA StepRefines ==
    ASSUME SafetyInv, SafetyInv', [Next]_vars
    PROVE  [Lifecycle!Next]_(Lifecycle!vars)
<1> USE DEF ownVars
<1>0. /\ TypeOK
      /\ stage \in [Receipts -> {"absent", "prepared", "executing", "final"}]
      /\ result \in [Receipts -> Results \cup {"none"}]
      /\ callback \in [Receipts -> {"none", "pending", "delivered"}]
      /\ \A q \in Receipts : callback[q] # "none" => stage[q] = "final"
  BY DEF SafetyInv, TypeOK, StoreInv, FinalRecordComplete
<1>1. CASE /\ \E r \in Receipts : Signed(r) \/ LandedOn(r)
           /\ UNCHANGED <<stage, result, callback>>
  <2>1. UNCHANGED <<phaseOf, outcomeOf, announcedOf>>
    BY <1>1 DEF phaseOf, outcomeOf, announcedOf, AbstractPhase, AbstractOutcome
  <2>2. ASSUME NEW r \in Receipts, Signed(r) PROVE Lifecycle!Sign(r)
    BY <2>1, <2>2 DEF Signed, Lifecycle!Sign, phaseOf, outcomeOf, announcedOf,
                      AbstractPhase, AbstractOutcome
  <2>3. ASSUME NEW r \in Receipts, LandedOn(r) PROVE Lifecycle!Land(r)
    BY <2>1, <2>3 DEF LandedOn, Lifecycle!Land, Lifecycle!OnChain, Landed, phaseOf,
                      outcomeOf, announcedOf
  <2>. QED
    BY <1>1, <2>2, <2>3 DEF Lifecycle!Next
<1>2. CASE UNCHANGED <<stage, result, callback, chain>>
  BY <1>2 DEF Lifecycle!vars, AbstractPhase, AbstractOutcome
<1>3. ASSUME NEW r \in Receipts, Committed(r), UNCHANGED chain PROVE Lifecycle!Open(r)
  <2>1. /\ stage[r] = "absent" /\ stage'[r] = "prepared"
        /\ \A q \in Receipts \ {r} : stage'[q] = stage[q]
    BY <1>0, <1>3 DEF Committed, CanCommit, CommitIdentityOk, ApplyCommit
  <2>2. phaseOf[r] = "none" /\ phaseOf' = [phaseOf EXCEPT ![r] = "open"]
    BY <1>0, <2>1, PhaseChange, AbstractValues, AbstractValuesNext
  <2>3. UNCHANGED <<outcomeOf, announcedOf>>
    BY <1>3 DEF Committed, ApplyCommit, outcomeOf, announcedOf, AbstractOutcome
  <2>. QED
    BY <1>3, <2>2, <2>3 DEF Lifecycle!Open, phaseOf, outcomeOf, announcedOf
<1>4. ASSUME NEW r \in Receipts, Begun(r), UNCHANGED chain PROVE Lifecycle!Start(r)
  <2>1. /\ stage[r] = "prepared" /\ stage'[r] = "executing"
        /\ \A q \in Receipts \ {r} : stage'[q] = stage[q]
    BY <1>0, <1>4 DEF Begun, CanBegin, PreparedIntact, ApplyBegin
  <2>2. phaseOf[r] = "open" /\ phaseOf' = [phaseOf EXCEPT ![r] = "running"]
    BY <1>0, <2>1, PhaseChange, AbstractValues, AbstractValuesNext
  <2>3. UNCHANGED <<outcomeOf, announcedOf>>
    BY <1>4 DEF Begun, ApplyBegin, outcomeOf, announcedOf, AbstractOutcome
  <2>. QED
    BY <1>4, <2>2, <2>3 DEF Lifecycle!Start, phaseOf, outcomeOf, announcedOf
<1>5. ASSUME NEW r \in Receipts, Discarded(r), UNCHANGED chain PROVE Lifecycle!Close(r)
  <2>1. stage[r] = "prepared" /\ chain[r] = "none" /\ callback[r] = "none"
    BY <1>0, <1>5 DEF Discarded, PreparedIntact, SafetyInv, SignInv, SignerKnowsReceipt
  <2>2. /\ stage'[r] = "final" /\ result'[r] = "discarded" /\ callback'[r] = "pending"
        /\ \A q \in Receipts \ {r} : /\ stage'[q] = stage[q] /\ result'[q] = result[q]
                                     /\ callback'[q] = callback[q]
    BY <1>0, <1>5 DEF Discarded, ApplyDiscard
  <2>3. phaseOf[r] = "open" /\ phaseOf' = [phaseOf EXCEPT ![r] = "closed"]
    BY <1>0, <2>1, <2>2, PhaseChange, AbstractValues, AbstractValuesNext
  <2>4. outcomeOf' = [outcomeOf EXCEPT ![r] = "unsigned"]
    BY <1>0, <2>2, OutcomeChange, AbstractValuesNext
  <2>5. UNCHANGED announcedOf
    BY <2>1, <2>2, AnnouncedSame
  <2>. QED
    BY <1>5, <2>1, <2>3, <2>4, <2>5 DEF Lifecycle!Close, Lifecycle!OnChain, phaseOf,
                                        outcomeOf, announcedOf
<1>6. ASSUME NEW r \in Receipts, NEW o \in Results \ {"discarded"}, Finalized(r, o),
             UNCHANGED chain
      PROVE  Lifecycle!Close(r)
  <2>1. stage[r] = "executing" /\ callback[r] = "none"
    BY <1>0, <1>6 DEF Finalized, CanFinalize
  <2>2. /\ stage'[r] = "final" /\ result'[r] = o /\ callback'[r] = "pending"
        /\ \A q \in Receipts \ {r} : /\ stage'[q] = stage[q] /\ result'[q] = result[q]
                                     /\ callback'[q] = callback[q]
    BY <1>0, <1>6 DEF Finalized, ApplyFinalize
  <2>3. /\ o = "unsigned" => chain[r] = "none"
        /\ o \in Landed => chain[r] = o
    BY <1>6, <2>2 DEF SafetyInv, SignInv, UnsignedMeansUnsigned, OutcomeIsOnChain
  <2>4. phaseOf[r] = "running" /\ phaseOf' = [phaseOf EXCEPT ![r] = "closed"]
    BY <1>0, <2>1, <2>2, PhaseChange, AbstractValues, AbstractValuesNext
  <2>5. outcomeOf' = [outcomeOf EXCEPT ![r] = o]
    BY <1>0, <1>6, <2>2, OutcomeChange, AbstractValuesNext
  <2>6. UNCHANGED announcedOf
    BY <2>1, <2>2, AnnouncedSame
  <2>. QED
    BY <1>6, <2>3, <2>4, <2>5, <2>6 DEF Lifecycle!Close, Lifecycle!OnChain, Results, Landed,
                                        phaseOf, outcomeOf, announcedOf
<1>7. ASSUME NEW r \in Receipts, Delivered(r), UNCHANGED chain PROVE Lifecycle!Announce(r)
  <2>1. UNCHANGED <<phaseOf, outcomeOf>>
    BY <1>7 DEF Delivered, MarkDelivered, phaseOf, outcomeOf, AbstractPhase, AbstractOutcome
  <2>2. phaseOf[r] = "closed"
    BY <1>0, <1>7, AbstractValues DEF Delivered, MarkDelivered
  <2>3. announcedOf' = announcedOf \cup {r}
    <3>1. callback'[r] = "delivered" /\ \A q \in Receipts \ {r} : callback'[q] = callback[q]
      BY <1>0, <1>7 DEF Delivered, MarkDelivered
    <3>. QED
      BY <3>1 DEF announcedOf
  <2>. QED
    BY <1>7, <2>1, <2>2, <2>3 DEF Lifecycle!Announce, phaseOf, outcomeOf, announcedOf
<1>. QED
  BY <1>1, <1>2, <1>3, <1>4, <1>5, <1>6, <1>7, StoreStep, ChainStep
  DEF Lifecycle!Next, storeVars, redisVars, Acquired, PrepCheckout, PrepReserveNonce,
      PrepReserveLedger, Released, PrepCleanHeld, PrepCleanSlot, SweepReservation, LeaseExpires

LEMMA InitRefines == Init => Lifecycle!Init
  BY DEF Init, Lifecycle!Init, AbstractPhase, AbstractOutcome

\* The receipt store, its requests, the recovery and the chain implement the
\* abstract life cycle: closed once, never signed before the begin nor after an
\* unsigned result, announced only when final.
THEOREM Refinement == Spec => ImplementsLifecycle
  BY InitRefines, StepRefines, SafetyInvariant, PTL DEF Spec, ImplementsLifecycle, Lifecycle!Spec

-----------------------------------------------------------------------------
(* The sender limit holds for any number of receipts and any limit, although *)
(* the generic route checks it when it reserves a nonce and the Promotion    *)
(* route when it commits the receipt.                                        *)

LEMMA IndexFinite == \A s : IsFiniteSet(SenderIndex(s))
  BY ReceiptsFinite, FS_Subset DEF SenderIndex

LEMMA IndexFiniteNext == \A s : IsFiniteSet(SenderIndex(s)')
  BY ReceiptsFinite, FS_Subset DEF SenderIndex

\* An index that gains at most one receipt while it has room stays within the
\* limit, and so does one that gains none.
LEMMA RoomForOne ==
    ASSUME NEW A, NEW B, NEW r, IsFiniteSet(A),
           \/ B \subseteq A /\ Cardinality(A) <= MaxPerSender
           \/ B \subseteq A \cup {r} /\ Cardinality(A) < MaxPerSender
    PROVE  Cardinality(B) <= MaxPerSender
<1>0. MaxPerSender \in Nat /\ Cardinality(A) \in Nat
  BY LimitAssumption, FS_CardinalityType
<1>1. CASE B \subseteq A /\ Cardinality(A) <= MaxPerSender
  <2>1. Cardinality(B) \in Nat /\ Cardinality(B) <= Cardinality(A)
    BY <1>1, FS_Subset, FS_CardinalityType
  <2>. QED
    BY <1>0, <1>1, <2>1
<1>2. CASE B \subseteq A \cup {r} /\ Cardinality(A) < MaxPerSender
  <2>1. /\ IsFiniteSet(A \cup {r})
        /\ Cardinality(A \cup {r}) <= Cardinality(A) + 1
    BY <1>0, FS_AddElement
  <2>2. Cardinality(A \cup {r}) \in Nat
    BY <2>1, FS_CardinalityType
  <2>3. Cardinality(B) \in Nat /\ Cardinality(B) <= Cardinality(A \cup {r})
    BY <1>2, <2>1, FS_Subset, FS_CardinalityType
  <2>. QED
    BY <1>0, <1>2, <2>1, <2>2, <2>3
<1>. QED
  BY <1>1, <1>2

\* What a transition does to an index.
LEMMA IndexShrinks ==
    ASSUME SenderWithinLimit,
           \A q \in Receipts : nonceKey'[q] # 0 \/ stage'[q] = "prepared"
                                 => nonceKey[q] # 0 \/ stage[q] = "prepared"
    PROVE  SenderWithinLimit'
<1>1. ASSUME NEW s \in Senders PROVE Cardinality(SenderIndex(s)') <= MaxPerSender
  <2>1. SenderIndex(s)' \subseteq SenderIndex(s)
    BY DEF SenderIndex
  <2>2. Cardinality(SenderIndex(s)) <= MaxPerSender
    BY <1>1 DEF SenderWithinLimit
  <2>. QED
    BY <2>1, <2>2, IndexFinite, RoomForOne
<1>. QED
  BY <1>1 DEF SenderWithinLimit, Senders

LEMMA IndexGrowsByOne ==
    ASSUME SenderWithinLimit, NEW r \in Receipts, NEW live,
           live \subseteq SenderIndex(SenderOf[r]), Cardinality(live) < MaxPerSender,
           \A q \in Receipts \ {r} :
             nonceKey'[q] # 0 \/ stage'[q] = "prepared" =>
               /\ nonceKey[q] # 0 \/ stage[q] = "prepared"
               /\ SenderOf[q] = SenderOf[r] => q \in live
    PROVE  SenderWithinLimit'
<1>1. ASSUME NEW s \in Senders PROVE Cardinality(SenderIndex(s)') <= MaxPerSender
  <2>1. CASE s = SenderOf[r]
    <3>1. SenderIndex(s)' \subseteq live \cup {r}
      BY <2>1 DEF SenderIndex
    <3>2. IsFiniteSet(live)
      BY IndexFinite, FS_Subset
    <3>. QED
      BY <3>1, <3>2, RoomForOne
  <2>2. CASE s # SenderOf[r]
    <3>1. SenderIndex(s)' \subseteq SenderIndex(s)
      BY <2>2 DEF SenderIndex
    <3>2. Cardinality(SenderIndex(s)) <= MaxPerSender
      BY <1>1 DEF SenderWithinLimit
    <3>. QED
      BY <3>1, <3>2, IndexFinite, RoomForOne
  <2>. QED
    BY <2>1, <2>2
<1>. QED
  BY <1>1 DEF SenderWithinLimit, Senders

LEMMA QuotaStep ==
    ASSUME SafetyInv, SenderWithinLimit, [Next]_vars
    PROVE  SenderWithinLimit'
<1> USE DEF ownVars
<1>0. /\ stage \in [Receipts -> {"absent", "prepared", "executing", "final"}]
      /\ nonceKey \in [Receipts -> 0..MaxNonce]
  BY DEF SafetyInv, TypeOK
<1>1. ASSUME NEW r \in Receipts, Committed(r) PROVE SenderWithinLimit'
  <2>0. /\ UNCHANGED nonceKey
        /\ \A q \in Receipts \ {r} : stage'[q] = stage[q]
    BY <1>0, <1>1 DEF Committed, ApplyCommit
  <2>1. CASE Generic(r)
    <3>1. nonceKey[r] # 0
      BY <1>1, <2>1 DEF Committed, CanCommit
    <3>. QED
      BY <2>0, <3>1, IndexShrinks
  <2>2. CASE ~Generic(r)
    <3>1. Cardinality(SenderIndex(SenderOf[r])) < MaxPerSender
      BY <1>1, <2>2 DEF Committed, CanCommit, SenderHasRoom
    <3>2. \A q \in Receipts \ {r} :
             nonceKey'[q] # 0 \/ stage'[q] = "prepared" =>
               /\ nonceKey[q] # 0 \/ stage[q] = "prepared"
               /\ SenderOf[q] = SenderOf[r] => q \in SenderIndex(SenderOf[r])
      BY <2>0 DEF SenderIndex
    <3>. QED
      BY <3>1, <3>2, IndexGrowsByOne
  <2>. QED
    BY <2>1, <2>2
<1>2. ASSUME NEW r \in Receipts, PrepReserveNonce(r) PROVE SenderWithinLimit'
  <2>0. UNCHANGED stage
    BY <1>2 DEF PrepReserveNonce, redisVars
  <2>1. PICK old \in SUBSET {q \in SenderIndex(SenderOf[r]) : stage[q] # "prepared"} :
          LET live == SenderIndex(SenderOf[r]) \ old
              kept == [q \in Receipts |-> IF q \in old THEN 0 ELSE nonceKey[q]]
          IN  \/ nonceKey' = kept
              \/ /\ Cardinality(live) < MaxPerSender
                 /\ \E n : nonceKey' = [kept EXCEPT ![r] = n]
    BY <1>2 DEF PrepReserveNonce
  <2> DEFINE live == SenderIndex(SenderOf[r]) \ old
             kept == [q \in Receipts |-> IF q \in old THEN 0 ELSE nonceKey[q]]
  <2>2. CASE nonceKey' = kept
    BY <2>0, <2>2, IndexShrinks
  <2>3. ASSUME Cardinality(live) < MaxPerSender, NEW n, nonceKey' = [kept EXCEPT ![r] = n]
        PROVE  SenderWithinLimit'
    <3>1. \A q \in Receipts \ {r} :
             nonceKey'[q] # 0 \/ stage'[q] = "prepared" =>
               /\ nonceKey[q] # 0 \/ stage[q] = "prepared"
               /\ SenderOf[q] = SenderOf[r] => q \in live
      BY <2>0, <2>3 DEF SenderIndex
    <3>. QED
      BY <2>3, <3>1, IndexGrowsByOne
  <2>. QED
    BY <2>1, <2>2, <2>3
<1>3. CASE /\ \A q \in Receipts : nonceKey'[q] \in {0, nonceKey[q]}
           /\ \A q \in Receipts : stage'[q] = "prepared" => stage[q] = "prepared"
  BY <1>3, IndexShrinks
<1>4. ASSUME NEW r \in Receipts, \/ Begun(r) \/ Discarded(r) \/ Delivered(r) \/ Released(r)
                                 \/ PrepReserveLedger(r)
                                 \/ \E o \in Results \ {"discarded"} : Finalized(r, o)
                                 \/ \E s \in Slots : PrepCheckout(r, s)
      PROVE  /\ \A q \in Receipts : nonceKey'[q] \in {0, nonceKey[q]}
             /\ \A q \in Receipts : stage'[q] = "prepared" => stage[q] = "prepared"
  BY <1>0, <1>4
  DEF Begun, ApplyBegin, Discarded, ApplyDiscard, Finalized, ApplyFinalize, Delivered,
      MarkDelivered, PrepCheckout, PrepReserveLedger, Released, PrepCleanHeld, PrepCleanSlot,
      SweepReservation, redisVars
<1>. QED
  BY <1>1, <1>2, <1>3, <1>4, StoreStep DEF storeVars, Acquired, LeaseExpires, redisVars

\* However the two routes mix, a sender never holds more than its limit.
THEOREM SenderLimitKept == Spec => []SenderWithinLimit
<1>1. Init => SenderWithinLimit
  <2>1. ASSUME Init, NEW s \in Senders PROVE Cardinality(SenderIndex(s)) <= MaxPerSender
    <3>1. SenderIndex(s) = {}
      BY <2>1 DEF Init, SenderIndex
    <3>. QED
      BY <3>1, FS_EmptySet, LimitAssumption
  <2>. QED
    BY <2>1 DEF SenderWithinLimit
<1>. QED
  BY <1>1, QuotaStep, SafetyInvariant, PTL DEF Spec

-----------------------------------------------------------------------------
(* The store keeps its side of PromotionReservation.                        *)

protectedOf == {r \in Receipts : ~Generic(r) /\ stage[r] = "prepared"}

\* Nothing was ever reserved for a receipt whose request has yet to reserve.
ReservesOnce == \A r \in Receipts : prep[r] \in {"start", "snapshot", "slot"} => promo[r] = "none"

LEMMA ReservesOnceStep ==
    ASSUME SafetyInv, ReservesOnce, [Next]_vars PROVE ReservesOnce'
<1> USE DEF ownVars
<1>0. /\ stage \in [Receipts -> {"absent", "prepared", "executing", "final"}]
      /\ promo \in [Receipts -> {"none", "reserved", "executing", "consumed", "released"}]
      /\ prep \in [Receipts -> PrepStates]
  BY DEF SafetyInv, TypeOK
<1>1. ASSUME NEW r \in Receipts, prep'[r] \in {"start", "snapshot", "slot"}
      PROVE  prep[r] \in {"start", "snapshot", "slot"} /\ ~PrepReserveLedger(r)
  <2>1. ASSUME NEW q \in Receipts, Prepare(q)
        PROVE  prep[r] \in {"start", "snapshot", "slot"} /\ ~PrepReserveLedger(r)
    BY <1>0, <1>1, <2>1
    DEF Prepare, PrepSnapshot, PrepCheckout, PrepSlotExhausted, PrepReserveNonce,
        PrepReserveLedger, PrepFail, PrepCommit, PrepCommitRefused, PrepCommitLost,
        CommitLands, PrepReadback, PrepEvict, PrepCleanHeld, PrepCleanSlot, PrepCrash,
        Goto, prepVars
  <2>2. CASE ~\E q \in Receipts : Prepare(q)
    <3>1. UNCHANGED prep
      BY <2>2
      DEF Next, Sponsor, AttemptRead, AttemptPreflight, AttemptBegin, AttemptBeginLost,
          BeginLands, AttemptDiscard, AttemptSignCheck, AttemptSign, AttemptResult,
          AttemptFinalize, AttemptCallback, AttemptMark, AttemptCrash, Recovery,
          RecoverPickPrepared, RecoverPickExecution, RecoverPickCallback, RecoverDiscard,
          RecoverLookup, RecoverFinalize, RecoverCallback, RecoverMark, RecoverCrash,
          Environment, LeaseExpires, DeadlinePasses, SweepReservation, ChainExecute,
          TogglePromotion, prepVars, vars
    <3>2. ~PrepReserveLedger(r)
      BY <2>2 DEF Prepare
    <3>. QED
      BY <1>1, <3>1, <3>2
  <2>. QED
    BY <2>1, <2>2
<1>2. ASSUME NEW r \in Receipts, prep[r] \in {"start", "snapshot", "slot"}, ~PrepReserveLedger(r)
      PROVE  promo'[r] = "none"
  <2>0. promo[r] = "none" /\ stage[r] = "absent"
    BY <1>2 DEF ReservesOnce, SafetyInv, StoreInv, PrepareKnowsReceipt
  <2>1. ASSUME NEW q \in Receipts, Begun(q) \/ Discarded(q) \/ \E o : Finalized(q, o)
        PROVE  promo'[r] = "none"
    <3>1. q # r
      BY <2>0, <2>1 DEF Begun, CanBegin, Discarded, PreparedIntact, Finalized, CanFinalize
    <3>. QED
      BY <1>0, <2>0, <2>1, <3>1
      DEF Begun, ApplyBegin, Discarded, ApplyDiscard, Finalized, ApplyFinalize
  <2>2. ASSUME NEW q \in Receipts, Acquired(q) \/ Released(q) PROVE promo'[r] = "none"
    BY <1>0, <1>2, <2>0, <2>2
    DEF Acquired, PrepCheckout, PrepReserveNonce, PrepReserveLedger, Released, PrepCleanHeld,
        PrepCleanSlot, SweepReservation
  <2>3. CASE UNCHANGED promo
    BY <2>0, <2>3
  <2>. QED
    BY <2>1, <2>2, <2>3, StoreStep
    DEF storeVars, Committed, ApplyCommit, Delivered, LeaseExpires
<1>. QED
  BY <1>1, <1>2 DEF ReservesOnce

\* What protects a reservation is the prepared record of its receipt.
LEMMA ProtectedChange ==
    ASSUME TypeOK, NEW r \in Receipts, ~Generic(r), \A q \in Receipts \ {r} : stage'[q] = stage[q]
    PROVE  /\ r \in protectedOf <=> stage[r] = "prepared"
           /\ stage'[r] = "prepared" => protectedOf' = protectedOf \cup {r}
           /\ stage'[r] # "prepared" => protectedOf' = protectedOf \ {r}
  BY DEF protectedOf, Generic

LEMMA ProtectedSame ==
    ASSUME \A q \in Receipts : ~Generic(q) => stage'[q] = stage[q]
    PROVE  UNCHANGED protectedOf
  BY DEF protectedOf, Generic

LEMMA ReservationStep ==
    ASSUME SafetyInv, ReservesOnce, [Next]_vars
    PROVE  [Reservations!Next]_(Reservations!vars)
<1> USE DEF ownVars
<1>0. /\ TypeOK
      /\ stage \in [Receipts -> {"absent", "prepared", "executing", "final"}]
      /\ promo \in [Receipts -> {"none", "reserved", "executing", "consumed", "released"}]
  BY DEF SafetyInv, TypeOK
<1>1. ASSUME UNCHANGED promo, \A q \in Receipts : ~Generic(q) => stage'[q] = stage[q]
      PROVE  UNCHANGED Reservations!vars
  BY <1>1, ProtectedSame DEF Reservations!vars, protectedOf
<1>2. ASSUME NEW r \in Receipts, Generic(r), \E o : Committed(r) \/ Begun(r) \/ Discarded(r) \/ Finalized(r, o)
      PROVE  UNCHANGED Reservations!vars
  <2>1. UNCHANGED promo /\ \A q \in Receipts : ~Generic(q) => stage'[q] = stage[q]
    BY <1>0, <1>2 DEF Committed, ApplyCommit, Begun, ApplyBegin, Discarded, ApplyDiscard,
                      Finalized, ApplyFinalize
  <2>. QED
    BY <1>1, <2>1
<1>3. ASSUME NEW r \in Receipts, ~Generic(r), Committed(r) PROVE Reservations!Commit(r)
  <2>1. /\ stage[r] = "absent" /\ stage'[r] = "prepared" /\ promo[r] = "reserved"
        /\ UNCHANGED promo /\ \A q \in Receipts \ {r} : stage'[q] = stage[q]
    BY <1>0, <1>3 DEF Committed, CanCommit, CommitIdentityOk, ApplyCommit
  <2>2. r \notin protectedOf /\ protectedOf' = protectedOf \cup {r}
    BY <1>0, <1>3, <2>1, ProtectedChange
  <2>. QED
    BY <2>1, <2>2 DEF Reservations!Commit, protectedOf
<1>4. ASSUME NEW r \in Receipts, ~Generic(r), Begun(r) PROVE Reservations!Begin(r)
  <2>1. /\ stage[r] = "prepared" /\ stage'[r] = "executing"
        /\ promo' = [promo EXCEPT ![r] = "executing"]
        /\ \A q \in Receipts \ {r} : stage'[q] = stage[q]
    BY <1>0, <1>4 DEF Begun, CanBegin, PreparedIntact, ApplyBegin
  <2>2. r \in protectedOf /\ protectedOf' = protectedOf \ {r}
    BY <1>0, <1>4, <2>1, ProtectedChange
  <2>. QED
    BY <2>1, <2>2 DEF Reservations!Begin, protectedOf
<1>5. ASSUME NEW r \in Receipts, ~Generic(r), Discarded(r) PROVE Reservations!Discard(r)
  <2>1. /\ stage[r] = "prepared" /\ stage'[r] = "final"
        /\ promo' = [promo EXCEPT ![r] = "released"]
        /\ \A q \in Receipts \ {r} : stage'[q] = stage[q]
    BY <1>0, <1>5 DEF Discarded, PreparedIntact, ApplyDiscard
  <2>2. r \in protectedOf /\ protectedOf' = protectedOf \ {r}
    BY <1>0, <1>5, <2>1, ProtectedChange
  <2>. QED
    BY <2>1, <2>2 DEF Reservations!Discard, protectedOf
<1>6. ASSUME NEW r \in Receipts, ~Generic(r), NEW o, Finalized(r, o) PROVE Reservations!Finish(r)
  <2>1. /\ promo[r] = "executing" /\ promo' = [promo EXCEPT ![r] = PromotionOutcome(o)]
        /\ PromotionOutcome(o) \in {"consumed", "released"}
        /\ stage[r] # "prepared" /\ stage'[r] # "prepared"
        /\ \A q \in Receipts \ {r} : stage'[q] = stage[q]
    BY <1>0, <1>6 DEF Finalized, CanFinalize, ApplyFinalize, PromotionOutcome
  <2>2. UNCHANGED protectedOf
    BY <1>0, <1>6, <2>1, ProtectedChange
  <2>. QED
    BY <2>1, <2>2 DEF Reservations!Finish, protectedOf
<1>7. ASSUME NEW r \in Receipts, Delivered(r) PROVE UNCHANGED Reservations!vars
  BY <1>1, <1>7 DEF Delivered, MarkDelivered
<1>8. ASSUME NEW r \in Receipts, Acquired(r)
      PROVE  Reservations!Reserve(r) \/ UNCHANGED Reservations!vars
  <2>1. UNCHANGED stage
    BY <1>8 DEF Acquired, PrepCheckout, PrepReserveNonce, PrepReserveLedger, redisVars
  <2>2. CASE PrepReserveLedger(r)
    <3>1. promo[r] = "none"
      BY <2>2 DEF PrepReserveLedger, ReservesOnce
    <3>. QED
      BY <2>1, <2>2, <3>1, ProtectedSame
      DEF PrepReserveLedger, Reservations!Reserve, Reservations!Outstanding, protectedOf
  <2>3. CASE ~PrepReserveLedger(r)
    BY <1>1, <1>8, <2>1, <2>3 DEF Acquired, PrepCheckout, PrepReserveNonce
  <2>. QED
    BY <2>2, <2>3
<1>9. ASSUME NEW r \in Receipts, Released(r)
      PROVE  Reservations!Release(r) \/ UNCHANGED Reservations!vars
  <2>1. UNCHANGED stage
    BY <1>9 DEF Released, PrepCleanHeld, PrepCleanSlot, SweepReservation, redisVars
  <2>2. CASE UNCHANGED promo
    BY <1>1, <2>1, <2>2
  <2>3. CASE promo' # promo
    <3>1. promo[r] = "reserved" /\ stage[r] # "prepared" /\ promo' = [promo EXCEPT ![r] = "released"]
      BY <1>9, <2>3 DEF Released, PrepCleanHeld, PrepCleanSlot, SweepReservation, Unprotected
    <3>. QED
      BY <2>1, <3>1, ProtectedSame DEF Reservations!Release, protectedOf
  <2>. QED
    BY <2>2, <2>3
<1>10. CASE UNCHANGED <<stage, promo>>
  BY <1>1, <1>10
<1>11. ASSUME NEW s \in Slots, LeaseExpires(s) PROVE UNCHANGED <<stage, promo>>
  BY <1>11 DEF LeaseExpires, redisVars
<1>. QED
  BY <1>2, <1>3, <1>4, <1>5, <1>6, <1>7, <1>8, <1>9, <1>10, <1>11, StoreStep
  DEF Reservations!Next, storeVars

LEMMA ReservationInit == Init => ReservesOnce /\ Reservations!Init
  BY DEF Init, ReservesOnce, Reservations!Init

\* Whatever becomes of the requests, a Promotion reservation is made once, protected while
\* its receipt is prepared, ended once, and consumed by an execution only: the store and
\* the ledger, which is proved to keep the other side, rely on the same contract.
THEOREM ContractKept == Spec => KeepsReservationContract
<1>1. SafetyInv /\ ReservesOnce /\ [Next]_vars => ReservesOnce'
  BY ReservesOnceStep
<1>2. SafetyInv /\ ReservesOnce /\ [Next]_vars => [Reservations!Next]_(Reservations!vars)
  BY ReservationStep
<1>. QED
  BY <1>1, <1>2, ReservationInit, SafetyInvariant, PTL
  DEF Spec, KeepsReservationContract, Reservations!Spec
=============================================================================
