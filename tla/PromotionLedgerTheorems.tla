----------------------- MODULE PromotionLedgerTheorems -----------------------
(***************************************************************************)
(* What follows from LedgerInv: results are final, nobody gets more than   *)
(* the allowance, nobody claims beyond the capacity, the accounting record *)
(* is the sum of what it accounts for, the records stay readable, and the  *)
(* ledger keeps its side of PromotionReservation.                          *)
(***************************************************************************)
EXTENDS PromotionLedgerProofs

\* Every record has its shape, no amount goes below zero and no consumed sum over
\* the ledger bound, whatever scripts and requests interleave.
THEOREM LedgerTypeCorrect == Spec => []TypeOK
  BY LedgerInvariant, PTL DEF LedgerInv

\* A user has one outstanding reservation at most, and the entitlement names it.
THEOREM OneReservation == Spec => []OneReservationPerUser
  BY LedgerInvariant, PTL DEF LedgerInv

\* A prepared receipt keeps its reservation, the index holds exactly the reserved
\* ones, and a receipt with a result has no reservation.
THEOREM KeepsReservation == Spec => []ReceiptKeepsReservation
  BY LedgerInvariant, PTL DEF LedgerInv

\* From the first claim on, no edit changes the economics the accounting relies on.
THEOREM Frozen == Spec => []EconomicsFrozen
  BY LedgerInvariant, PTL DEF LedgerInv

-----------------------------------------------------------------------------
(* Results are final.                                                       *)

LEMMA FinalStep ==
    ASSUME LedgerInv, [Next]_vars, NEW r \in Receipts, result[r] # NoResult
    PROVE  result'[r] = result[r] /\ reservation'[r] = "none"
<1>0. /\ reservation[r] = "none"
      /\ reservation \in [Receipts -> {"none", "reserved", "executing"}]
      /\ result \in [Receipts -> ResultRecords]
  BY DEF LedgerInv, TypeOK, ReceiptKeepsReservation, Outstanding
<1>1. CASE UNCHANGED <<reservation, result>>
  BY <1>0, <1>1
<1>2. ASSUME NEW a \in Admins, AdminWrite(a) \/ AdminDelete(a)
      PROVE  UNCHANGED <<reservation, result>>
  BY <1>2 DEF AdminWrite, AdminDelete, recordVars
<1>3. ASSUME NEW c \in Claims, ClaimApply(c) PROVE UNCHANGED <<reservation, result>>
  BY <1>3 DEF ClaimApply
<1>4. ASSUME NEW q \in Receipts, ReserveApply(q)
      PROVE  result'[r] = result[r] /\ reservation'[r] = "none"
  <2>1. q # r
    BY <1>4, ReserveFacts
  <2>. QED
    BY <1>0, <1>4, <2>1 DEF ReserveApply
<1>5. ASSUME NEW q \in Receipts, Commit(q) \/ Begin(q)
      PROVE  result'[r] = result[r] /\ reservation'[r] = "none"
  BY <1>0, <1>5 DEF Commit, Begin, recordVars
<1>6. ASSUME NEW f \in Finishers, FinApply(f)
      PROVE  result'[r] = result[r] /\ reservation'[r] = "none"
  <2>1. fin[f].receipt # r
    BY <1>0, <1>6, FinishFacts
  <2>. QED
    BY <1>0, <1>6, <2>1 DEF FinApply
<1>. QED
  BY <1>1, <1>2, <1>3, <1>4, <1>5, <1>6, LedgerStep DEF recordVars

\* The operation result of a receipt is written once, and nothing is reserved for
\* the receipt again.
THEOREM Final == Spec => ResultsAreFinal
<1>1. LedgerInv /\ [Next]_vars =>
        [\A r \in Receipts : result[r] # NoResult =>
            result'[r] = result[r] /\ reservation'[r] = "none"]_vars
  BY FinalStep
<1>. QED
  BY <1>1, LedgerInvariant, PTL DEF Spec, ResultsAreFinal

-----------------------------------------------------------------------------
(* Nobody gets more than the allowance.                                     *)

LEMMA OverspentStep ==
    ASSUME LedgerInv, OverspentIsExhausted, [Next]_vars
    PROVE  OverspentIsExhausted'
<1> DEFINE Fits(e, a) == Used(e) >= a /\ (e.status = "active" => Used(e) = a)
<1>0. /\ entitlement \in [Users -> EntitlementRecords] /\ accounting \in AccountingRecords
      /\ \A u \in Users : entitlement[u].status # "none" =>
            Fits(entitlement[u], accounting.allowance) /\ HasAccounting(accounting)
      /\ promotion \in PromotionRecords
  BY DEF LedgerInv, TypeOK, OverspentIsExhausted, Claimed, HasEntitlement, Used
<1>1. SUFFICES \A u \in Users : entitlement'[u].status # "none" =>
                  Fits(entitlement'[u], accounting'.allowance)
  BY DEF OverspentIsExhausted, Claimed, HasEntitlement, Used, Held
<1>2. CASE UNCHANGED <<accounting, entitlement>>
  BY <1>0, <1>2
<1>3. ASSUME NEW a \in Admins, AdminWrite(a) \/ AdminDelete(a)
      PROVE  UNCHANGED <<accounting, entitlement>>
  BY <1>3 DEF AdminWrite, AdminDelete, recordVars
<1>4. ASSUME NEW r \in Receipts, Commit(r) \/ Begin(r)
      PROVE  UNCHANGED <<accounting, entitlement>>
  BY <1>4 DEF Commit, Begin, recordVars
<1>5. ASSUME NEW c \in Claims, ClaimApply(c), NEW u \in Users, entitlement'[u].status # "none"
      PROVE  Fits(entitlement'[u], accounting'.allowance)
  <2> DEFINE y == [NoEntitlement EXCEPT !.status = "active", !.remaining = promotion.allowance]
  <2>1. /\ accounting'.allowance = promotion.allowance
        /\ HasAccounting(accounting) => accounting'.allowance = accounting.allowance
        /\ entitlement' = [entitlement EXCEPT ![ClaimantOf[c]] = y]
    BY <1>5, ClaimFacts
  <2>2. Fits(y, promotion.allowance)
    <3>1. y.remaining = promotion.allowance /\ y.consumed = 0 /\ y.active = NoReceipt
      BY DEF NoEntitlement
    <3>2. promotion.allowance \in Nat
      BY <1>0, ConstantRanges DEF PromotionRecords
    <3> HIDE DEF y
    <3>. QED
      BY <3>1, <3>2 DEF Used, Held
  <2> HIDE DEF y, Fits
  <2>3. CASE u = ClaimantOf[c]
    BY <1>0, <2>1, <2>2, <2>3
  <2>4. CASE u # ClaimantOf[c]
    <3>1. entitlement'[u] = entitlement[u]
      BY <1>0, <2>1, <2>4
    <3>. QED
      BY <1>0, <1>5, <2>1, <3>1
  <2>. QED
    BY <2>3, <2>4
<1>6. ASSUME NEW r \in Receipts, ReserveApply(r), NEW u \in Users, entitlement'[u].status # "none"
      PROVE  Fits(entitlement'[u], accounting'.allowance)
  <2> DEFINE e == entitlement[UserOf[r]]
             y == [e EXCEPT !.remaining = @ - AmountOf[r], !.active = r]
  <2>1. /\ e.active = NoReceipt /\ e.status = "active" /\ e \in EntitlementRecords
        /\ UserOf[r] \in Users /\ e.remaining >= AmountOf[r]
        /\ accounting'.allowance = accounting.allowance
        /\ entitlement' = [entitlement EXCEPT ![UserOf[r]] = y]
    BY <1>6, ReserveFacts
  <2>2. Fits(y, accounting.allowance)
    <3>1. /\ y.remaining = e.remaining - AmountOf[r] /\ y.consumed = e.consumed
          /\ y.active = r /\ y.status = e.status
          /\ e.remaining \in Nat /\ e.consumed \in Nat
      BY <2>1, ConstantRanges DEF EntitlementRecords
    <3>2. Held(e) = 0 /\ Held(y) = AmountOf[r] /\ AmountOf[r] \in Nat
      BY <2>1, <3>1, ConstantRanges, IdentityAssumption DEF Held
    <3>3. e.remaining + Held(e) + e.consumed = accounting.allowance
      BY <1>0, <2>1 DEF Used
    <3> HIDE DEF y, e
    <3>. QED
      BY <2>1, <3>1, <3>2, <3>3 DEF Used
  <2> HIDE DEF y, e, Fits
  <2>3. CASE u = UserOf[r]
    BY <1>0, <2>1, <2>2, <2>3
  <2>4. CASE u # UserOf[r]
    <3>1. entitlement'[u] = entitlement[u]
      BY <1>0, <2>1, <2>4
    <3>. QED
      BY <1>0, <1>6, <2>1, <3>1
  <2>. QED
    BY <2>3, <2>4
<1>7. ASSUME NEW f \in Finishers, FinApply(f), NEW u \in Users, entitlement'[u].status # "none"
      PROVE  Fits(entitlement'[u], accounting'.allowance)
  <2> DEFINE r == fin[f].receipt
             charge == fin[f].charge
             e == entitlement[UserOf[r]]
             y == EntitlementAfter(e, AmountOf[r], charge)
  <2>1. /\ e.active = r /\ e.status = "active" /\ e \in EntitlementRecords
        /\ r \in Receipts /\ UserOf[r] \in Users /\ charge \in Nat
        /\ accounting'.allowance = accounting.allowance
        /\ entitlement' = [entitlement EXCEPT ![UserOf[r]] = y]
    BY <1>7, FinishFacts
  <2> HIDE DEF r, charge
  <2>2. Fits(y, accounting.allowance)
    <3>0. e.remaining \in Nat /\ e.consumed \in Nat /\ AmountOf[r] \in Nat
          /\ AmountOf[r] > 0
      BY <2>1, ConstantRanges DEF EntitlementRecords
    <3>1. /\ y.remaining = Left(e.remaining, AmountOf[r], charge)
          /\ y.consumed = e.consumed + charge /\ y.active = NoReceipt
          /\ y.status = StatusAfter(e, AmountOf[r], charge)
      BY <2>1 DEF EntitlementAfter, EntitlementRecords
    <3>2. Held(e) = AmountOf[r] /\ Held(y) = 0
      BY <2>1, <3>1, IdentityAssumption DEF Held
    <3>3. e.remaining + AmountOf[r] + e.consumed = accounting.allowance
      BY <1>0, <2>1, <3>2 DEF Used
    <3>4. y.status = "active" => y.remaining # 0
      BY <3>1 DEF StatusAfter
    <3>5. PICK rem \in Nat : rem = e.remaining
      BY <3>0
    <3>6. PICK left \in Nat : left = Left(rem, AmountOf[r], charge)
      BY <2>1, <3>0, LeftTyped
    <3>7. /\ charge <= AmountOf[r] => left = rem + AmountOf[r] - charge
          /\ charge > AmountOf[r] /\ left > 0 => left = rem + AmountOf[r] - charge
          /\ left = 0 => rem + AmountOf[r] <= charge
      BY <2>1, <3>0, <3>6 DEF Left, Surplus, Overrun
    <3>8. Used(y) = left + e.consumed + charge
      BY <2>1, <3>0, <3>1, <3>2, <3>5, <3>6 DEF Used
    <3> HIDE DEF y, e
    <3>9. /\ Used(y) >= accounting.allowance
          /\ left # 0 => Used(y) = accounting.allowance
      BY <2>1, <3>0, <3>3, <3>5, <3>7, <3>8
    <3>. QED
      BY <3>1, <3>4, <3>5, <3>6, <3>9
  <2> HIDE DEF y, e, Fits
  <2>3. CASE u = UserOf[r]
    BY <1>0, <2>1, <2>2, <2>3
  <2>4. CASE u # UserOf[r]
    <3>1. entitlement'[u] = entitlement[u]
      BY <1>0, <2>1, <2>4
    <3>. QED
      BY <1>0, <1>7, <2>1, <3>1
  <2>. QED
    BY <2>3, <2>4
<1>. QED
  <2> HIDE DEF Fits
  <2>1. CASE UNCHANGED <<promotion, recordVars, prepared>>
    BY <1>2, <2>1 DEF recordVars
  <2>. QED
    BY <1>2, <1>3, <1>4, <1>5, <1>6, <1>7, <2>1, LedgerStep

\* An active user has exactly the rest of the allowance to spend; a user who was
\* charged more is exhausted for good.
THEOREM Overspending == Spec => []OverspentIsExhausted
<1>1. Init => OverspentIsExhausted
  BY DEF Init, OverspentIsExhausted, Claimed, HasEntitlement, NoEntitlement
<1>2. LedgerInv /\ OverspentIsExhausted /\ [Next]_vars => OverspentIsExhausted'
  BY OverspentStep
<1>. QED
  BY <1>1, <1>2, LedgerInvariant, PTL DEF Spec

-----------------------------------------------------------------------------
(* Nobody claims beyond the capacity.                                       *)

LEMMA CapacityStep ==
    ASSUME LedgerInv, ClaimsWithinCapacity, [Next]_vars
    PROVE  ClaimsWithinCapacity'
<1>0. /\ entitlement \in [Users -> EntitlementRecords] /\ accounting \in AccountingRecords
      /\ accounting.claimed = Cardinality(Claimed) /\ accounting.claimed <= Capacity
  BY DEF LedgerInv, TypeOK, ClaimsWithinCapacity
<1>1. ASSUME accounting'.claimed = accounting.claimed,
             \A u \in Users : HasEntitlement(entitlement'[u]) <=> HasEntitlement(entitlement[u])
      PROVE  ClaimsWithinCapacity'
  <2>1. Claimed' = Claimed
    BY <1>1 DEF Claimed
  <2>. QED
    BY <1>0, <1>1, <2>1 DEF ClaimsWithinCapacity
<1>2. CASE UNCHANGED <<accounting, entitlement>>
  BY <1>1, <1>2
<1>3. ASSUME NEW a \in Admins, AdminWrite(a) \/ AdminDelete(a)
      PROVE  UNCHANGED <<accounting, entitlement>>
  BY <1>3 DEF AdminWrite, AdminDelete, recordVars
<1>4. ASSUME NEW r \in Receipts, Commit(r) \/ Begin(r)
      PROVE  UNCHANGED <<accounting, entitlement>>
  BY <1>4 DEF Commit, Begin, recordVars
<1>5. ASSUME NEW c \in Claims, ClaimApply(c) PROVE ClaimsWithinCapacity'
  <2> DEFINE claimant == ClaimantOf[c]
             y == [NoEntitlement EXCEPT !.status = "active", !.remaining = promotion.allowance]
  <2>1. /\ claimant \in Users /\ entitlement[claimant] = NoEntitlement
        /\ accounting.claimed < Capacity /\ accounting'.claimed = accounting.claimed + 1
        /\ entitlement' = [entitlement EXCEPT ![claimant] = y]
    BY <1>5, ClaimFacts
  <2>2. HasEntitlement(y) /\ ~HasEntitlement(NoEntitlement)
    BY DEF HasEntitlement, NoEntitlement
  <2> HIDE DEF y, claimant
  <2>3. Claimed' = Claimed \cup {claimant} /\ claimant \notin Claimed
    <3>1. \A u \in Users : entitlement'[u] = IF u = claimant THEN y ELSE entitlement[u]
      BY <1>0, <2>1
    <3>. QED
      BY <2>1, <2>2, <3>1 DEF Claimed
  <2>4. IsFiniteSet(Claimed) /\ Cardinality(Claimed) \in Nat
    BY IdentityAssumption, FS_Subset, FS_CardinalityType DEF Claimed
  <2>5. Cardinality(Claimed') = Cardinality(Claimed) + 1
    BY <2>3, <2>4, FS_AddElement
  <2>. QED
    BY <1>0, <2>1, <2>4, <2>5, ConstantRanges DEF ClaimsWithinCapacity
<1>6. ASSUME NEW r \in Receipts, ReserveApply(r) PROVE ClaimsWithinCapacity'
  <2> DEFINE y == [entitlement[UserOf[r]] EXCEPT !.remaining = @ - AmountOf[r], !.active = r]
  <2>1. /\ UserOf[r] \in Users /\ entitlement[UserOf[r]] \in EntitlementRecords
        /\ entitlement' = [entitlement EXCEPT ![UserOf[r]] = y]
        /\ accounting'.claimed = accounting.claimed
    BY <1>6, ReserveFacts
  <2>2. y.status = entitlement[UserOf[r]].status
    BY <2>1 DEF EntitlementRecords
  <2> HIDE DEF y
  <2>3. \A u \in Users : entitlement'[u].status = entitlement[u].status
    BY <1>0, <2>1, <2>2
  <2>. QED
    BY <1>1, <2>1, <2>3 DEF HasEntitlement
<1>7. ASSUME NEW f \in Finishers, FinApply(f) PROVE ClaimsWithinCapacity'
  <2> DEFINE r == fin[f].receipt
             e == entitlement[UserOf[r]]
             y == EntitlementAfter(e, AmountOf[r], fin[f].charge)
  <2>1. /\ UserOf[r] \in Users /\ e \in EntitlementRecords /\ e.status = "active"
        /\ entitlement' = [entitlement EXCEPT ![UserOf[r]] = y]
        /\ accounting'.claimed = accounting.claimed
    BY <1>7, FinishFacts
  <2>2. y.status # "none"
    <3>1. y.status = StatusAfter(e, AmountOf[r], fin[f].charge)
      BY <2>1 DEF EntitlementAfter, EntitlementRecords
    <3>. QED
      BY <2>1, <3>1 DEF StatusAfter
  <2>3. HasEntitlement(y) /\ HasEntitlement(e)
    BY <2>1, <2>2 DEF HasEntitlement
  <2> HIDE DEF y
  <2>4. \A u \in Users : HasEntitlement(entitlement'[u]) <=> HasEntitlement(entitlement[u])
    BY <1>0, <2>1, <2>3
  <2>. QED
    BY <1>1, <2>1, <2>4
<1>. QED
  <2>1. CASE UNCHANGED <<promotion, recordVars, prepared>>
    BY <1>2, <2>1 DEF recordVars
  <2>. QED
    BY <1>2, <1>3, <1>4, <1>5, <1>6, <1>7, <2>1, LedgerStep

\* Every claim is counted once, and there are never more than participants, however
\* many claims read the same accounting.
THEOREM WithinCapacity == Spec => []ClaimsWithinCapacity
<1>1. Init => ClaimsWithinCapacity
  <2> SUFFICES ASSUME Init PROVE ClaimsWithinCapacity
    OBVIOUS
  <2>1. Claimed = {}
    BY DEF Init, Claimed, HasEntitlement, NoEntitlement
  <2>2. accounting.claimed = 0
    BY DEF Init, NoAccounting
  <2>. QED
    BY <2>1, <2>2, FS_EmptySet, ConstantRanges DEF ClaimsWithinCapacity
<1>2. LedgerInv /\ ClaimsWithinCapacity /\ [Next]_vars => ClaimsWithinCapacity'
  BY CapacityStep
<1>. QED
  BY <1>1, <1>2, LedgerInvariant, PTL DEF Spec

-----------------------------------------------------------------------------
(* The ledger keeps its side of PromotionReservation.                       *)

LEMMA AbstractFacts ==
    ASSUME LedgerInv
    PROVE  \A r \in Receipts :
             /\ Outstanding(r) => AbstractReservation(r) = reservation[r]
                                  /\ reservation[r] \in {"reserved", "executing"}
             /\ ~Outstanding(r) => AbstractReservation(r) \in {"none", "consumed", "released"}
             /\ ~Outstanding(r) /\ result[r] = NoResult => AbstractReservation(r) = "none"
<1>1. /\ reservation \in [Receipts -> {"none", "reserved", "executing"}]
      /\ \A r \in Receipts : result[r].operation \in {"none", "consume", "release"}
  BY DEF LedgerInv, TypeOK, ResultRecords
<1>. QED
  BY <1>1 DEF AbstractReservation, Outstanding, NoResult

\* A step that changes one receipt maps to one that changes its abstract reservation.
LEMMA OneReceiptChanges ==
    ASSUME NEW r \in Receipts,
           \A q \in Receipts : q # r => reservation'[q] = reservation[q] /\ result'[q] = result[q]
    PROVE  [q \in Receipts |-> AbstractReservation(q)]' =
             [[q \in Receipts |-> AbstractReservation(q)] EXCEPT ![r] = AbstractReservation(r)']
<1>1. \A q \in Receipts : q # r => AbstractReservation(q)' = AbstractReservation(q)
  BY DEF AbstractReservation, Outstanding
<1>. QED
  BY <1>1

LEMMA ImplementsInit == Init => Interface!Init
<1> SUFFICES ASSUME Init PROVE Interface!Init
  OBVIOUS
<1>1. \A r \in Receipts : AbstractReservation(r) = "none"
  BY DEF Init, AbstractReservation, Outstanding, NoResult
<1>2. [r \in Receipts |-> AbstractReservation(r)] = [r \in Receipts |-> "none"]
  BY <1>1
<1>. QED
  BY <1>2 DEF Init, Interface!Init

LEMMA ImplementsStep == LedgerInv /\ [Next]_vars => [Interface!Next]_Interface!vars
<1> SUFFICES ASSUME LedgerInv, [Next]_vars PROVE Interface!Next \/ UNCHANGED Interface!vars
  OBVIOUS
<1> DEFINE abs == [q \in Receipts |-> AbstractReservation(q)]
<1>0. /\ \A q \in Receipts : abs[q] = AbstractReservation(q)
      /\ reservation \in [Receipts -> {"none", "reserved", "executing"}]
      /\ result \in [Receipts -> ResultRecords]
      /\ ReceiptKeepsReservation /\ OneReservationPerUser
  BY DEF LedgerInv, TypeOK
<1>1. CASE UNCHANGED <<reservation, result, prepared>>
  <2>1. \A q \in Receipts : AbstractReservation(q)' = AbstractReservation(q)
    BY <1>1 DEF AbstractReservation, Outstanding
  <2>. QED
    BY <1>1, <2>1 DEF Interface!vars
<1>2. ASSUME NEW a \in Admins, AdminWrite(a) \/ AdminDelete(a)
      PROVE  UNCHANGED <<reservation, result, prepared>>
  BY <1>2 DEF AdminWrite, AdminDelete, recordVars
<1>3. ASSUME NEW c \in Claims, ClaimApply(c) PROVE UNCHANGED <<reservation, result, prepared>>
  BY <1>3 DEF ClaimApply
<1>4. ASSUME NEW r \in Receipts, ReserveApply(r) PROVE Interface!Reserve(r)
  <2>1. /\ reservation[r] = "none" /\ result[r] = NoResult
        /\ entitlement[UserOf[r]].active = NoReceipt
    BY <1>4, ReserveFacts
  <2>2. abs[r] = "none"
    BY <1>0, <2>1, AbstractFacts DEF Outstanding
  <2>3. \A q \in Receipts : UserOf[q] = UserOf[r] => ~Interface!Outstanding(q)
    BY <1>0, <2>1, AbstractFacts, IdentityAssumption
    DEF Interface!Outstanding, OneReservationPerUser
  <2>4. /\ AbstractReservation(r)' = "reserved" /\ prepared' = prepared
        /\ \A q \in Receipts : q # r => reservation'[q] = reservation[q] /\ result'[q] = result[q]
    BY <1>0, <1>4 DEF ReserveApply, AbstractReservation, Outstanding
  <2>5. abs' = [abs EXCEPT ![r] = "reserved"]
    BY <2>4, OneReceiptChanges
  <2>. QED
    BY <2>2, <2>3, <2>4, <2>5 DEF Interface!Reserve
<1>5. ASSUME NEW r \in Receipts, Commit(r) PROVE Interface!Commit(r)
  <2>0. r \notin prepared /\ reservation[r] = "reserved" /\ prepared' = prepared \cup {r}
        /\ reservation' = reservation /\ result' = result
    BY <1>5 DEF Commit, recordVars
  <2>1. abs[r] = "reserved"
    <3>1. Outstanding(r)
      BY <2>0 DEF Outstanding
    <3>. QED
      BY <1>0, <2>0, <3>1, AbstractFacts
  <2>2. abs' = abs
    BY <2>0 DEF AbstractReservation, Outstanding
  <2>. QED
    BY <2>0, <2>1, <2>2 DEF Interface!Commit
<1>6. ASSUME NEW r \in Receipts, Begin(r) PROVE Interface!Begin(r)
  <2>1. /\ AbstractReservation(r)' = "executing" /\ prepared' = prepared \ {r}
        /\ \A q \in Receipts : q # r => reservation'[q] = reservation[q] /\ result'[q] = result[q]
        /\ r \in prepared
    BY <1>0, <1>6 DEF Begin, AbstractReservation, Outstanding
  <2>2. abs' = [abs EXCEPT ![r] = "executing"]
    BY <2>1, OneReceiptChanges
  <2>. QED
    BY <2>1, <2>2 DEF Interface!Begin
<1>7. ASSUME NEW f \in Finishers, FinApply(f)
      PROVE  Interface!Next
  <2>0. PICK r \in Receipts, op \in {"consume", "release"} :
           r = fin[f].receipt /\ op = fin[f].operation
    BY <1>7, FinishFacts
  <2> DEFINE outcome == IF op = "consume" THEN "consumed" ELSE "released"
  <2>1. StageMatches(f) /\ (op = "consume" => fin[f].job = "finalize")
    BY <1>7, <2>0, FinishFacts
  <2>2. /\ reservation'[r] = "none" /\ result'[r].operation = op
        /\ \A q \in Receipts : q # r => reservation'[q] = reservation[q] /\ result'[q] = result[q]
        /\ prepared' = IF fin[f].job = "discard" THEN prepared \ {r} ELSE prepared
    BY <1>0, <1>7, <2>0 DEF FinApply
  <2>3. AbstractReservation(r)' = outcome
    BY <2>2 DEF AbstractReservation, Outstanding
  <2> HIDE DEF outcome
  <2>4. abs' = [abs EXCEPT ![r] = outcome]
    BY <2>2, <2>3, OneReceiptChanges
  <2>5. CASE fin[f].job = "finalize"
    <3>1. abs[r] = "executing"
      BY <1>0, <2>0, <2>1, <2>5 DEF StageMatches, AbstractReservation, Outstanding
    <3>2. outcome \in {"consumed", "released"} /\ prepared' = prepared
      BY <2>2, <2>5 DEF outcome
    <3>. QED
      BY <2>4, <3>1, <3>2 DEF Interface!Finish, Interface!Next
  <2>6. CASE fin[f].job = "discard"
    <3>1. r \in prepared /\ outcome = "released"
      BY <2>0, <2>1, <2>6 DEF StageMatches, outcome
    <3>. QED
      BY <2>2, <2>4, <2>6, <3>1 DEF Interface!Discard, Interface!Next
  <2>7. CASE fin[f].job \notin {"finalize", "discard"}
    <3>1. r \notin prepared /\ outcome = "released" /\ abs[r] = "reserved"
      BY <1>0, <2>0, <2>1, <2>7 DEF StageMatches, outcome, AbstractReservation, Outstanding
    <3>. QED
      BY <2>2, <2>4, <2>7, <3>1 DEF Interface!Release, Interface!Next
  <2>. QED
    BY <2>5, <2>6, <2>7
<1>. QED
  <2>1. CASE UNCHANGED <<promotion, recordVars, prepared>>
    BY <1>1, <2>1 DEF recordVars
  <2> HIDE DEF abs
  <2>. QED
    BY <1>1, <1>2, <1>3, <1>4, <1>5, <1>6, <1>7, <2>1, LedgerStep DEF Interface!Next

\* Whatever requests, sweeps and recovery tasks do, the reservation of every receipt
\* goes through the life the receipt store relies on.
THEOREM ReservationRefinement == Spec => ImplementsReservation
  BY ImplementsInit, ImplementsStep, LedgerInvariant, PTL
  DEF Spec, ImplementsReservation, Interface!Spec

-----------------------------------------------------------------------------
(* Sums.                                                                    *)

LEMMA UnitsOfOne ==
    ASSUME NEW x, NEW n \in Nat
    PROVE  IsFiniteSet({x} \X (1..n)) /\ Cardinality({x} \X (1..n)) = n
<1>1. IsFiniteSet({x}) /\ Cardinality({x}) = 1
  BY FS_Singleton
<1>2. IsFiniteSet(1..n) /\ Cardinality(1..n) = n
  BY FS_Interval
<1>3. /\ IsFiniteSet({x} \X (1..n))
      /\ Cardinality({x} \X (1..n)) = Cardinality({x}) * Cardinality(1..n)
  BY <1>1, <1>2, FS_Product
<1>. QED
  BY <1>1, <1>2, <1>3

LEMMA UnitsFinite ==
    ASSUME NEW S, IsFiniteSet(S), NEW m \in [S -> Nat]
    PROVE  IsFiniteSet(Units(m)) /\ TotalOf(m) \in Nat
<1>. DEFINE of == [x \in S |-> {x} \X (1..m[x])]
            parts == {{x} \X (1..m[x]) : x \in S}
<1>1. of \in Surjection(S, parts)
  BY DEF Surjection
<1>2. IsFiniteSet(parts)
  BY <1>1, FS_Surjection
<1>3. ASSUME NEW x \in S PROVE IsFiniteSet({x} \X (1..m[x]))
  <2>1. m[x] \in Nat
    OBVIOUS
  <2>. QED
    BY <2>1, UnitsOfOne
<1>4. IsFiniteSet(UNION parts)
  BY <1>2, <1>3, FS_UNION
<1>. QED
  BY <1>4, FS_CardinalityType DEF Units, TotalOf

LEMMA TotalSplits ==
    ASSUME NEW S, IsFiniteSet(S), NEW m \in [S -> Nat], NEW x \in S,
           NEW rest \in [S -> Nat], rest[x] = 0, \A y \in S : y # x => rest[y] = m[y]
    PROVE  TotalOf(m) = TotalOf(rest) + m[x] /\ TotalOf(m) \in Nat /\ TotalOf(rest) \in Nat
<1>. DEFINE own == {x} \X (1..m[x])
<1>1. rest \in [S -> Nat] /\ rest[x] = 0 /\ \A y \in S : y # x => rest[y] = m[y]
  OBVIOUS
<1>2. Units(m) = Units(rest) \cup own
  <2>1. \A y \in S : {y} \X (1..m[y]) = ({y} \X (1..rest[y])) \cup (IF y = x THEN own ELSE {})
    <3>1. 1..rest[x] = {}
      BY <1>1
    <3>. QED
      BY <1>1, <3>1
  <2>. QED
    BY <1>1, <2>1 DEF Units
<1>3. Units(rest) \cap own = {}
  <2>1. 1..rest[x] = {}
    BY <1>1
  <2>. QED
    BY <1>1, <2>1 DEF Units
<1>4. IsFiniteSet(own) /\ Cardinality(own) = m[x]
  BY UnitsOfOne
<1>5. IsFiniteSet(Units(rest)) /\ TotalOf(rest) \in Nat
  BY <1>1, UnitsFinite
<1>. HIDE DEF own
<1>6. Cardinality(Units(m)) = Cardinality(Units(rest)) + Cardinality(own) - 0
  <2>1. Cardinality(Units(rest) \cap own) = 0
    BY <1>3, FS_EmptySet
  <2>2. Cardinality(Units(rest) \cup own)
          = Cardinality(Units(rest)) + Cardinality(own) - Cardinality(Units(rest) \cap own)
    BY <1>4, <1>5, FS_Union
  <2>. QED
    BY <1>2, <2>1, <2>2
<1>. QED
  BY <1>4, <1>5, <1>6, UnitsFinite DEF TotalOf

\* A sum changes by what one of its terms changes.
LEMMA TotalChanges ==
    ASSUME NEW S, IsFiniteSet(S), NEW m \in [S -> Nat], NEW n \in [S -> Nat], NEW x \in S,
           \A y \in S : y # x => n[y] = m[y]
    PROVE  /\ TotalOf(n) \in Nat /\ TotalOf(m) \in Nat
           /\ TotalOf(n) + m[x] = TotalOf(m) + n[x]
<1>1. PICK rest \in [S -> Nat] : rest[x] = 0 /\ \A y \in S : y # x => rest[y] = m[y]
  <2>1. [m EXCEPT ![x] = 0] \in [S -> Nat]
    OBVIOUS
  <2>. QED
    BY <2>1
<1>2. TotalOf(m) = TotalOf(rest) + m[x] /\ TotalOf(m) \in Nat /\ TotalOf(rest) \in Nat
  BY <1>1, TotalSplits
<1>3. TotalOf(n) = TotalOf(rest) + n[x] /\ TotalOf(n) \in Nat
  BY <1>1, TotalSplits
<1>4. m[x] \in Nat /\ n[x] \in Nat
  OBVIOUS
<1>. QED
  BY <1>2, <1>3, <1>4

LEMMA TotalAtLeast ==
    ASSUME NEW S, IsFiniteSet(S), NEW m \in [S -> Nat], NEW x \in S
    PROVE  m[x] <= TotalOf(m)
<1>1. PICK rest \in [S -> Nat] : rest[x] = 0 /\ \A y \in S : y # x => rest[y] = m[y]
  <2>1. [m EXCEPT ![x] = 0] \in [S -> Nat]
    OBVIOUS
  <2>. QED
    BY <2>1
<1>2. TotalOf(m) = TotalOf(rest) + m[x] /\ TotalOf(rest) \in Nat /\ m[x] \in Nat
  BY <1>1, TotalSplits
<1>. QED
  BY <1>2

LEMMA TotalOfNothing ==
    ASSUME NEW S, NEW m \in [S -> Nat], \A x \in S : m[x] = 0
    PROVE  TotalOf(m) = 0
<1>1. \A x \in S : 1..m[x] = {}
  OBVIOUS
<1>2. Units(m) = {}
  BY <1>1 DEF Units
<1>. QED
  BY <1>2, FS_EmptySet DEF TotalOf

-----------------------------------------------------------------------------
(* The accounting record is the sum of what it accounts for.                *)

\* BudgetBalances, with what is known before the first claim.
Budget ==
    /\ accounting.reserved = TotalOf(ReservedBy)
    /\ accounting.consumed = TotalOf(ChargedTo)
    /\ ~HasAccounting(accounting) => accounting = NoAccounting
    /\ HasAccounting(accounting) =>
         /\ accounting.available + accounting.reserved <= Total
         /\ accounting.available + accounting.reserved + accounting.consumed >= Total

LEMMA SumsTyped ==
    ASSUME LedgerInv
    PROVE  /\ IsFiniteSet(Receipts) /\ IsFiniteSet(Users)
           /\ ReservedBy \in [Receipts -> Nat] /\ ChargedTo \in [Receipts -> Nat]
           /\ Remaining \in [Users -> Nat] /\ Overspent \in [Users -> Nat]
<1>1. IsFiniteSet(Receipts) /\ IsFiniteSet(Users)
  BY IdentityAssumption
<1>2. ReservedBy \in [Receipts -> Nat] /\ ChargedTo \in [Receipts -> Nat]
  BY ConstantRanges DEF LedgerInv, TypeOK, ReservedBy, ChargedTo, ResultRecords
<1>3. /\ accounting.allowance \in Nat
      /\ \A u \in Users : /\ entitlement[u].remaining \in Nat /\ entitlement[u].consumed \in Nat
                          /\ entitlement[u].active \in Receipts \cup {NoReceipt}
  BY ConstantRanges DEF LedgerInv, TypeOK, AccountingRecords, EntitlementRecords
<1>4. \A u \in Users : Used(entitlement[u]) \in Nat
  BY <1>3, ConstantRanges DEF Used, Held
<1>. QED
  BY <1>1, <1>2, <1>3, <1>4 DEF Remaining, Overspent, Excess

\* What reserve writes to the accounting.
LEMMA ReserveBudget ==
    ASSUME LedgerInv, NEW r \in Receipts, ReserveApply(r)
    PROVE  /\ AmountOf[r] \in Nat /\ HasAccounting(accounting)
           /\ accounting \in AccountingRecords /\ accounting.available >= AmountOf[r]
           /\ accounting'.available = accounting.available - AmountOf[r]
           /\ accounting'.reserved = accounting.reserved + AmountOf[r]
           /\ accounting'.consumed = accounting.consumed
           /\ result' = result
           /\ reservation' = [reservation EXCEPT ![r] = "reserved"]
<1>1. accounting \in AccountingRecords /\ AmountOf[r] \in Nat
  BY ConstantRanges DEF LedgerInv, TypeOK
<1>2. HasAccounting(accounting)
  BY ReserveFacts DEF LedgerInv, Claimed, HasEntitlement
<1>3. ~CannotReserve(accounting, entitlement[UserOf[r]], r)
  BY DEF LedgerInv, RequestsKnow, ReserveKnows, ReserveApply, ReserveMatches, Unchanged
<1>4. accounting.available >= AmountOf[r]
  BY <1>1, <1>3 DEF CannotReserve, AccountingRecords
<1>. QED
  BY <1>1, <1>2, <1>4 DEF ReserveApply, AccountingRecords

\* What the end of a reservation writes to the accounting and to the result.
LEMMA FinishBudget ==
    ASSUME LedgerInv, NEW f \in Finishers, FinApply(f), NEW r, r = fin[f].receipt,
           NEW charge, charge = fin[f].charge
    PROVE  /\ r \in Receipts /\ AmountOf[r] \in Nat /\ charge \in Nat
           /\ HasAccounting(accounting)
           /\ accounting \in AccountingRecords
           /\ AmountOf[r] <= accounting.reserved
           /\ accounting'.available = Left(accounting.available, AmountOf[r], charge)
           /\ accounting'.reserved = accounting.reserved - AmountOf[r]
           /\ accounting'.consumed = accounting.consumed + charge
           /\ reservation[r] # "none" /\ result[r] = NoResult
           /\ reservation' = [reservation EXCEPT ![r] = "none"]
           /\ \E res : /\ result' = [result EXCEPT ![r] = res]
                       /\ res.operation = "consume" => res.amount = charge
                       /\ res.operation # "consume" => charge = 0
<1>1. /\ r \in Receipts /\ AmountOf[r] \in Nat /\ charge \in Nat /\ reservation[r] # "none"
      /\ fin[f].operation = "release" => charge = 0
      /\ fin[f].operation \in {"consume", "release"}
  BY FinishFacts, ConstantRanges
<1>2. HasAccounting(accounting)
  BY FinishFacts DEF LedgerInv, Claimed, HasEntitlement
<1>3. result[r] = NoResult
  BY <1>1 DEF LedgerInv, ReceiptKeepsReservation, Outstanding
<1>4. accounting \in AccountingRecords /\ accounting = fin[f].acc
      /\ ReservationFits(accounting, fin[f].ent, r)
  BY <1>1 DEF LedgerInv, TypeOK, RequestsKnow, FinishKnows, FinApply, FinMatches, Unchanged
<1>5. AmountOf[r] <= accounting.reserved
  BY <1>4 DEF ReservationFits
<1>6. accounting' = AccountingAfter(accounting, AmountOf[r], charge)
  BY <1>4 DEF FinApply
<1>7. /\ accounting'.available = Left(accounting.available, AmountOf[r], charge)
      /\ accounting'.reserved = accounting.reserved - AmountOf[r]
      /\ accounting'.consumed = accounting.consumed + charge
  BY <1>4, <1>6 DEF AccountingAfter, AccountingRecords
<1>8. /\ reservation' = [reservation EXCEPT ![r] = "none"]
      /\ result' = [result EXCEPT ![r] =
            [operation |-> fin[f].operation,
             amount |-> IF fin[f].operation = "consume" THEN charge ELSE AmountOf[r]]]
  BY DEF FinApply
<1>9. \E res : /\ result' = [result EXCEPT ![r] = res]
               /\ res.operation = "consume" => res.amount = charge
               /\ res.operation # "consume" => charge = 0
  <2>. DEFINE res == [operation |-> fin[f].operation,
                      amount |-> IF fin[f].operation = "consume" THEN charge ELSE AmountOf[r]]
  <2>1. /\ res.operation = "consume" => res.amount = charge
        /\ res.operation # "consume" => charge = 0
    BY <1>1
  <2>2. result' = [result EXCEPT ![r] = res]
    BY <1>8
  <2>. HIDE DEF res
  <2>. QED
    BY <2>1, <2>2
<1>. QED
  BY <1>1, <1>2, <1>3, <1>4, <1>5, <1>7, <1>8, <1>9

LEMMA BudgetInit == Init => Budget
<1>. SUFFICES ASSUME Init PROVE Budget
  OBVIOUS
<1>1. /\ ReservedBy \in [Receipts -> Nat] /\ \A r \in Receipts : ReservedBy[r] = 0
      /\ ChargedTo \in [Receipts -> Nat] /\ \A r \in Receipts : ChargedTo[r] = 0
  BY DEF Init, ReservedBy, ChargedTo, Outstanding, NoResult
<1>2. TotalOf(ReservedBy) = 0 /\ TotalOf(ChargedTo) = 0
  BY <1>1, TotalOfNothing
<1>. QED
  BY <1>2 DEF Init, Budget, NoAccounting, HasAccounting

LEMMA BudgetStep ==
    ASSUME LedgerInv, Budget, [Next]_vars
    PROVE  Budget'
<1>0. /\ accounting \in AccountingRecords /\ Capacity \in Nat /\ accounting.allowance \in Nat
      /\ accounting.available \in Nat /\ accounting.reserved \in Nat
      /\ accounting.consumed \in Nat /\ accounting.claimed \in Nat
      /\ reservation \in [Receipts -> {"none", "reserved", "executing"}]
      /\ result \in [Receipts -> ResultRecords]
      /\ Capacity * accounting.allowance \in Nat
  <2>1. accounting \in AccountingRecords /\ accounting.allowance \in Nat /\ Capacity \in Nat
    BY ConstantRanges DEF LedgerInv, TypeOK, AccountingRecords
  <2>. QED
    BY <2>1 DEF LedgerInv, TypeOK, AccountingRecords
<1>1. CASE accounting' = accounting /\ ReservedBy' = ReservedBy /\ ChargedTo' = ChargedTo
  BY <1>1 DEF Budget, Total
<1>2. CASE UNCHANGED <<accounting, reservation, result>>
  <2>1. ReservedBy' = ReservedBy /\ ChargedTo' = ChargedTo
    BY <1>2 DEF ReservedBy, ChargedTo, Outstanding
  <2>. QED
    BY <1>1, <1>2, <2>1
<1>3. ASSUME NEW a \in Admins, AdminWrite(a) \/ AdminDelete(a) PROVE Budget'
  BY <1>2, <1>3 DEF AdminWrite, AdminDelete, recordVars
<1>4. ASSUME NEW c \in Claims, ClaimApply(c) PROVE Budget'
  <2>1. reservation' = reservation /\ result' = result
    BY <1>4 DEF ClaimApply
  <2>2. ReservedBy' = ReservedBy /\ ChargedTo' = ChargedTo
    BY <2>1 DEF ReservedBy, ChargedTo, Outstanding
  <2>3. /\ accounting = claim[c].acc /\ promotion = claim[c].promo
        /\ promotion \in PromotionRecords
    BY <1>4 DEF ClaimApply, ClaimMatches, Unchanged, LedgerInv, TypeOK
  <2>4. CASE HasAccounting(accounting)
    <3>1. accounting' = [accounting EXCEPT !.claimed = @ + 1]
      BY <1>4, <2>3, <2>4 DEF ClaimApply
    <3>2. /\ accounting'.claimed = accounting.claimed + 1
          /\ accounting'.available = accounting.available
          /\ accounting'.reserved = accounting.reserved
          /\ accounting'.consumed = accounting.consumed
          /\ accounting'.allowance = accounting.allowance
      BY <1>0, <3>1 DEF AccountingRecords
    <3>. QED
      BY <1>0, <2>2, <2>4, <3>2 DEF Budget, Total, HasAccounting
  <2>5. CASE ~HasAccounting(accounting)
    <3>1. accounting' = [FreshAccounting(promotion) EXCEPT !.claimed = @ + 1]
      BY <1>4, <2>3, <2>5 DEF ClaimApply
    <3>2. /\ accounting'.claimed = 1 /\ accounting'.reserved = 0 /\ accounting'.consumed = 0
          /\ accounting'.available = Capacity * promotion.allowance
          /\ accounting'.allowance = promotion.allowance
      BY <3>1 DEF FreshAccounting
    <3>3. accounting.reserved = 0 /\ accounting.consumed = 0
      BY <2>5 DEF Budget, NoAccounting
    <3>4. Capacity * promotion.allowance \in Nat
      <4>1. Capacity \in Nat /\ promotion.allowance \in Nat
        BY <2>3, ConstantRanges DEF PromotionRecords
      <4>. QED
        BY <4>1
    <3>. QED
      BY <2>2, <3>2, <3>3, <3>4 DEF Budget, Total, HasAccounting
  <2>. QED
    BY <2>4, <2>5
<1>5. ASSUME NEW r \in Receipts, ReserveApply(r) PROVE Budget'
  <2>1. /\ AmountOf[r] \in Nat /\ HasAccounting(accounting)
        /\ accounting.available >= AmountOf[r]
        /\ accounting'.available = accounting.available - AmountOf[r]
        /\ accounting'.reserved = accounting.reserved + AmountOf[r]
        /\ accounting'.consumed = accounting.consumed
        /\ accounting'.claimed = accounting.claimed
        /\ accounting'.allowance = accounting.allowance
        /\ reservation[r] = "none" /\ result' = result
        /\ reservation' = [reservation EXCEPT ![r] = "reserved"]
    BY <1>5, ReserveFacts, ReserveBudget
  <2>2. ChargedTo' = ChargedTo
    BY <2>1 DEF ChargedTo
  <2>3. /\ ReservedBy' \in [Receipts -> Nat] /\ ReservedBy'[r] = AmountOf[r]
        /\ ReservedBy[r] = 0 /\ \A q \in Receipts : q # r => ReservedBy'[q] = ReservedBy[q]
    BY <1>0, <2>1, ConstantRanges DEF ReservedBy, Outstanding
  <2>4. TotalOf(ReservedBy') = TotalOf(ReservedBy) + AmountOf[r]
    BY <2>1, <2>3, SumsTyped, TotalChanges
  <2>. QED
    BY <1>0, <2>1, <2>2, <2>4 DEF Budget, Total, HasAccounting
<1>6. ASSUME NEW r \in Receipts, Commit(r) PROVE Budget'
  BY <1>2, <1>6 DEF Commit, recordVars
<1>7. ASSUME NEW r \in Receipts, Begin(r) PROVE Budget'
  <2>1. \A q \in Receipts : Outstanding(q)' <=> Outstanding(q)
    BY <1>0, <1>7 DEF Begin, Outstanding
  <2>2. ReservedBy' = ReservedBy /\ ChargedTo' = ChargedTo /\ accounting' = accounting
    BY <1>7, <2>1 DEF Begin, ReservedBy, ChargedTo
  <2>. QED
    BY <1>1, <2>2
<1>8. ASSUME NEW f \in Finishers, FinApply(f) PROVE Budget'
  <2>0. PICK r, charge : r = fin[f].receipt /\ charge = fin[f].charge
    OBVIOUS
  <2>1. /\ r \in Receipts /\ AmountOf[r] \in Nat /\ charge \in Nat
        /\ HasAccounting(accounting) /\ AmountOf[r] <= accounting.reserved
        /\ accounting'.available = Left(accounting.available, AmountOf[r], charge)
        /\ accounting'.reserved = accounting.reserved - AmountOf[r]
        /\ accounting'.consumed = accounting.consumed + charge
        /\ accounting'.claimed = accounting.claimed
        /\ accounting'.allowance = accounting.allowance
        /\ reservation[r] # "none" /\ result[r] = NoResult
        /\ reservation' = [reservation EXCEPT ![r] = "none"]
    BY <1>8, <2>0, FinishFacts, FinishBudget
  <2>2. PICK res : /\ result' = [result EXCEPT ![r] = res]
                   /\ res.operation = "consume" => res.amount = charge
                   /\ res.operation # "consume" => charge = 0
    BY <1>8, <2>0, FinishBudget
  <2>3. /\ ReservedBy' \in [Receipts -> Nat] /\ ReservedBy'[r] = 0
        /\ ReservedBy[r] = AmountOf[r]
        /\ \A q \in Receipts : q # r => ReservedBy'[q] = ReservedBy[q]
    BY <1>0, <2>1, ConstantRanges DEF ReservedBy, Outstanding
  <2>4. TotalOf(ReservedBy') + AmountOf[r] = TotalOf(ReservedBy) /\ TotalOf(ReservedBy') \in Nat
    BY <2>1, <2>3, SumsTyped, TotalChanges
  <2>5. /\ ChargedTo'[r] = charge /\ ChargedTo[r] = 0
        /\ \A q \in Receipts : q # r => ChargedTo'[q] = ChargedTo[q]
    BY <1>0, <2>1, <2>2 DEF ChargedTo, NoResult
  <2>6. ChargedTo' \in [Receipts -> Nat]
    <3>1. \A q \in Receipts : ChargedTo'[q] \in Nat
      BY <2>1, <2>5, SumsTyped
    <3>. QED
      BY <3>1 DEF ChargedTo
  <2>7. TotalOf(ChargedTo') = TotalOf(ChargedTo) + charge
    BY <2>1, <2>5, <2>6, SumsTyped, TotalChanges
  <2>8. /\ accounting'.available \in Nat
        /\ accounting'.available <= accounting.available + AmountOf[r]
        /\ accounting'.available + charge >= accounting.available + AmountOf[r]
    BY <1>0, <2>1, LeftTyped DEF Left, Surplus, Overrun
  <2>9. /\ accounting'.reserved = TotalOf(ReservedBy')
        /\ accounting'.consumed = TotalOf(ChargedTo')
    BY <1>0, <2>1, <2>4, <2>7 DEF Budget
  <2>10. /\ accounting'.available + accounting'.reserved <= Total
         /\ accounting'.available + accounting'.reserved + accounting'.consumed >= Total
    BY <1>0, <2>1, <2>8 DEF Budget, Total
  <2>. QED
    BY <2>1, <2>9, <2>10 DEF Budget, Total, HasAccounting
<1>. QED
  <2>1. CASE UNCHANGED <<promotion, recordVars, prepared>>
    BY <1>2, <2>1 DEF recordVars
  <2>. QED
    BY <1>3, <1>4, <1>5, <1>6, <1>7, <1>8, <2>1, LedgerStep

LEMMA BudgetAlways == Spec => []Budget
<1>1. LedgerInv /\ Budget /\ [Next]_vars => Budget'
  BY BudgetStep
<1>. QED
  BY <1>1, BudgetInit, LedgerInvariant, PTL DEF Spec

\* The reserved sum is what outstanding receipts reserve and the consumed sum what
\* receipts were charged; nothing of the budget is lost, and what is available and
\* reserved never exceeds it, whatever claims, reservations, charges beyond the
\* reservation and sweeps interleave.
THEOREM BudgetBalanced == Spec => []BudgetBalances
<1>1. Budget => BudgetBalances
  BY DEF Budget, BudgetBalances
<1>. QED
  BY <1>1, BudgetAlways, PTL

-----------------------------------------------------------------------------
(* The budget covers the allowances.                                        *)

\* Who has not claimed has nothing.
Blank == \A u \in Users : ~HasEntitlement(entitlement[u]) => entitlement[u] = NoEntitlement

LEMMA BlankStep ==
    ASSUME LedgerInv, Blank, [Next]_vars
    PROVE  Blank'
<1>0. entitlement \in [Users -> EntitlementRecords]
  BY DEF LedgerInv, TypeOK
<1>1. CASE UNCHANGED entitlement
  BY <1>1 DEF Blank
<1>2. ASSUME NEW u \in Users, NEW y, entitlement' = [entitlement EXCEPT ![u] = y],
             HasEntitlement(y)
      PROVE  Blank'
  BY <1>0, <1>2 DEF Blank
<1>3. ASSUME NEW c \in Claims, ClaimApply(c) PROVE Blank'
  <2>1. HasEntitlement([NoEntitlement EXCEPT !.status = "active", !.remaining = promotion.allowance])
    BY DEF HasEntitlement, NoEntitlement
  <2>. QED
    BY <1>2, <1>3, <2>1, ClaimFacts
<1>4. ASSUME NEW r \in Receipts, ReserveApply(r) PROVE Blank'
  <2>. DEFINE e == entitlement[UserOf[r]]
              y == [e EXCEPT !.remaining = @ - AmountOf[r], !.active = r]
  <2>1. UserOf[r] \in Users /\ e \in EntitlementRecords /\ e.status = "active"
        /\ entitlement' = [entitlement EXCEPT ![UserOf[r]] = y]
    BY <1>4, ReserveFacts
  <2>2. y.status = e.status
    BY <2>1 DEF EntitlementRecords
  <2>. HIDE DEF y
  <2>3. HasEntitlement(y)
    BY <2>1, <2>2 DEF HasEntitlement
  <2>. QED
    BY <1>2, <2>1, <2>3
<1>5. ASSUME NEW f \in Finishers, FinApply(f) PROVE Blank'
  <2>. DEFINE r == fin[f].receipt
              e == entitlement[UserOf[r]]
              y == EntitlementAfter(e, AmountOf[r], fin[f].charge)
  <2>1. UserOf[r] \in Users /\ e \in EntitlementRecords /\ e.status = "active"
        /\ entitlement' = [entitlement EXCEPT ![UserOf[r]] = y]
    BY <1>5, FinishFacts
  <2>2. y.status = StatusAfter(e, AmountOf[r], fin[f].charge)
    BY <2>1 DEF EntitlementAfter, EntitlementRecords
  <2>. HIDE DEF y
  <2>3. HasEntitlement(y)
    BY <2>1, <2>2 DEF HasEntitlement, StatusAfter
  <2>. QED
    BY <1>2, <2>1, <2>3
<1>6. ASSUME NEW a \in Admins, AdminWrite(a) \/ AdminDelete(a) PROVE Blank'
  BY <1>1, <1>6 DEF AdminWrite, AdminDelete, recordVars
<1>7. ASSUME NEW r \in Receipts, Commit(r) \/ Begin(r) PROVE Blank'
  BY <1>1, <1>7 DEF Commit, Begin, recordVars
<1>. QED
  <2>1. CASE UNCHANGED <<promotion, recordVars, prepared>>
    BY <1>1, <2>1 DEF recordVars
  <2>. QED
    BY <1>3, <1>4, <1>5, <1>6, <1>7, <2>1, LedgerStep

LEMMA CoversStep ==
    ASSUME LedgerInv, OverspentIsExhausted, Blank, BudgetCoversAllowances, [Next]_vars
    PROVE  BudgetCoversAllowances'
<1>0. /\ accounting \in AccountingRecords /\ entitlement \in [Users -> EntitlementRecords]
      /\ accounting.available \in Nat /\ accounting.claimed \in Nat
      /\ accounting.allowance \in Nat /\ Capacity \in Nat
      /\ LedgerInv'
  BY LedgerInvStep, ConstantRanges DEF LedgerInv, TypeOK, AccountingRecords
<1>1. /\ TotalOf(Remaining) \in Nat /\ TotalOf(Overspent) \in Nat
      /\ TotalOf(Remaining)' \in Nat /\ TotalOf(Overspent)' \in Nat
      /\ IsFiniteSet(Users) /\ Remaining \in [Users -> Nat] /\ Overspent \in [Users -> Nat]
      /\ Remaining' \in [Users -> Nat] /\ Overspent' \in [Users -> Nat]
  <2>1. /\ IsFiniteSet(Users) /\ Remaining \in [Users -> Nat] /\ Overspent \in [Users -> Nat]
        /\ Remaining' \in [Users -> Nat] /\ Overspent' \in [Users -> Nat]
    <3>1. /\ accounting'.allowance \in Nat
          /\ \A u \in Users : /\ entitlement'[u].remaining \in Nat
                              /\ entitlement'[u].consumed \in Nat
                              /\ entitlement'[u].active \in Receipts \cup {NoReceipt}
      BY <1>0, ConstantRanges, SMTT(40) DEF LedgerInv, TypeOK, AccountingRecords, EntitlementRecords
    <3>2. \A u \in Users : Used(entitlement'[u]) \in Nat
      BY <3>1, ConstantRanges DEF Used, Held
    <3>3. Remaining' \in [Users -> Nat] /\ Overspent' \in [Users -> Nat]
      BY <3>1, <3>2 DEF Remaining, Overspent, Excess
    <3>. QED
      BY <3>3, SumsTyped
  <2>. QED
    BY <2>1, UnitsFinite
<1>2. CASE UNCHANGED <<accounting, entitlement>>
  BY <1>2 DEF BudgetCoversAllowances, Overspent, Remaining
<1>3. ASSUME NEW a \in Admins, AdminWrite(a) \/ AdminDelete(a) PROVE BudgetCoversAllowances'
  BY <1>2, <1>3 DEF AdminWrite, AdminDelete, recordVars
<1>4. ASSUME NEW r \in Receipts, Commit(r) \/ Begin(r) PROVE BudgetCoversAllowances'
  BY <1>2, <1>4 DEF Commit, Begin, recordVars
<1>5. ASSUME NEW c \in Claims, ClaimApply(c) PROVE BudgetCoversAllowances'
  <2>. DEFINE claimant == ClaimantOf[c]
              y == [NoEntitlement EXCEPT !.status = "active", !.remaining = promotion.allowance]
  <2>1. /\ claimant \in Users /\ entitlement[claimant] = NoEntitlement
        /\ accounting.claimed < Capacity /\ accounting'.claimed = accounting.claimed + 1
        /\ accounting'.allowance = promotion.allowance
        /\ HasAccounting(accounting) => accounting'.allowance = accounting.allowance
        /\ entitlement' = [entitlement EXCEPT ![claimant] = y]
    BY <1>5, ClaimFacts
  <2>2. promotion.allowance \in Nat
    BY ConstantRanges DEF LedgerInv, TypeOK, PromotionRecords
  <2>3. y.remaining = promotion.allowance /\ Used(y) = promotion.allowance
    <3>1. y.remaining = promotion.allowance /\ y.consumed = 0 /\ y.active = NoReceipt
      BY DEF NoEntitlement
    <3>. HIDE DEF y
    <3>. QED
      BY <2>2, <3>1 DEF Used, Held
  <2>4. NoEntitlement.remaining = 0 /\ Used(NoEntitlement) = 0
    BY DEF NoEntitlement, Used, Held
  <2>. HIDE DEF y, claimant
  <2>5. \A u \in Users : entitlement'[u] = IF u = claimant THEN y ELSE entitlement[u]
    BY <1>0, <2>1
  <2>6. TotalOf(Remaining)' = TotalOf(Remaining) + promotion.allowance
    <3>1. /\ Remaining'[claimant] = promotion.allowance /\ Remaining[claimant] = 0
          /\ \A u \in Users : u # claimant => Remaining'[u] = Remaining[u]
      BY <2>1, <2>3, <2>4, <2>5 DEF Remaining
    <3>2. TotalOf(Remaining') + Remaining[claimant] = TotalOf(Remaining) + Remaining'[claimant]
      BY <1>1, <2>1, <3>1, TotalChanges
    <3>. QED
      BY <1>1, <2>2, <3>1, <3>2
  <2>7. Overspent' = Overspent
    <3>1. \A u \in Users : Overspent'[u] = Overspent[u]
      <4>. SUFFICES ASSUME NEW u \in Users
                    PROVE  Excess(entitlement'[u], accounting'.allowance)
                             = Excess(entitlement[u], accounting.allowance)
        BY DEF Overspent
      <4>1. CASE u = claimant
        BY <1>0, <2>1, <2>2, <2>3, <2>4, <2>5, <4>1 DEF Excess
      <4>2. CASE u # claimant /\ HasAccounting(accounting)
        BY <2>1, <2>5, <4>2
      <4>3. CASE u # claimant /\ ~HasAccounting(accounting)
        <5>1. entitlement[u] = NoEntitlement
          BY <4>3 DEF LedgerInv, Claimed, Blank
        <5>. QED
          BY <1>0, <2>1, <2>2, <2>4, <2>5, <4>3, <5>1 DEF Excess
      <4>. QED
        BY <4>1, <4>2, <4>3
    <3>. QED
      BY <1>1, <3>1
  <2>8. CASE HasAccounting(accounting)
    <3>1. accounting'.available = accounting.available
      BY <1>0, <1>5, <2>8
         DEF ClaimApply, ClaimMatches, Unchanged, AccountingRecords
    <3>2. (Capacity - (accounting.claimed + 1)) * accounting.allowance
            = (Capacity - accounting.claimed) * accounting.allowance - accounting.allowance
      BY <1>0
    <3>3. (Capacity - accounting.claimed) * accounting.allowance \in Int
      BY <1>0
    <3>4. accounting.available + TotalOf(Overspent)
            >= TotalOf(Remaining) + (Capacity - accounting.claimed) * accounting.allowance
      BY <2>8 DEF BudgetCoversAllowances
    <3>5. accounting'.available + TotalOf(Overspent)'
            >= TotalOf(Remaining)' + (Capacity - accounting'.claimed) * accounting'.allowance
      BY <1>0, <1>1, <2>1, <2>6, <2>7, <2>8, <3>1, <3>2, <3>3, <3>4
    <3>. QED
      BY <3>5 DEF BudgetCoversAllowances
  <2>9. CASE ~HasAccounting(accounting)
    <3>1. accounting'.available = Capacity * promotion.allowance /\ accounting.claimed = 0
      BY <1>0, <1>5, <2>9
         DEF ClaimApply, ClaimMatches, Unchanged, FreshAccounting, HasAccounting
    <3>2. \A u \in Users : entitlement[u] = NoEntitlement
      BY <2>9 DEF LedgerInv, Claimed, Blank
    <3>3. TotalOf(Remaining) = 0
      BY <1>1, <2>4, <3>2, TotalOfNothing DEF Remaining
    <3>4. (Capacity - 1) * promotion.allowance
            = Capacity * promotion.allowance - promotion.allowance
      BY <1>0, <2>2
    <3>5. Capacity * promotion.allowance \in Nat
      BY <1>0, <2>2
    <3>6. accounting'.available + TotalOf(Overspent)'
            >= TotalOf(Remaining)' + (Capacity - accounting'.claimed) * accounting'.allowance
      BY <1>0, <1>1, <2>1, <2>2, <2>6, <3>1, <3>3, <3>4, <3>5
    <3>. QED
      BY <3>6 DEF BudgetCoversAllowances
  <2>. QED
    BY <2>8, <2>9
<1>6. ASSUME NEW r \in Receipts, ReserveApply(r) PROVE BudgetCoversAllowances'
  <2>. DEFINE u == UserOf[r]
              e == entitlement[u]
              y == [e EXCEPT !.remaining = @ - AmountOf[r], !.active = r]
  <2>1. /\ u \in Users /\ e \in EntitlementRecords /\ e.active = NoReceipt
        /\ e.remaining >= AmountOf[r]
        /\ entitlement' = [entitlement EXCEPT ![u] = y]
        /\ accounting'.claimed = accounting.claimed
        /\ accounting'.allowance = accounting.allowance
        /\ AmountOf[r] \in Nat /\ HasAccounting(accounting)
        /\ accounting.available >= AmountOf[r]
        /\ accounting'.available = accounting.available - AmountOf[r]
    BY <1>6, ReserveFacts, ReserveBudget
  <2>2. /\ y.remaining = e.remaining - AmountOf[r] /\ y.consumed = e.consumed /\ y.active = r
        /\ e.remaining \in Nat /\ e.consumed \in Nat
    BY <2>1 DEF EntitlementRecords
  <2>3. Used(y) = Used(e)
    <3>1. Held(e) = 0 /\ Held(y) = AmountOf[r]
      BY <2>1, <2>2, IdentityAssumption DEF Held
    <3>. HIDE DEF y, e
    <3>. QED
      BY <2>1, <2>2, <3>1 DEF Used
  <2>. HIDE DEF y, u
  <2>4. \A v \in Users : entitlement'[v] = IF v = u THEN y ELSE entitlement[v]
    BY <1>0, <2>1
  <2>5. Overspent' = Overspent
    <3>1. \A v \in Users : Overspent'[v] = Overspent[v]
      BY <2>1, <2>3, <2>4 DEF Overspent, Excess
    <3>. QED
      BY <1>1, <3>1
  <2>6. TotalOf(Remaining)' = TotalOf(Remaining) - AmountOf[r]
    <3>1. /\ Remaining'[u] = e.remaining - AmountOf[r] /\ Remaining[u] = e.remaining
          /\ \A v \in Users : v # u => Remaining'[v] = Remaining[v]
      BY <2>1, <2>2, <2>4 DEF Remaining
    <3>2. TotalOf(Remaining') + Remaining[u] = TotalOf(Remaining) + Remaining'[u]
      BY <1>1, <2>1, <3>1, TotalChanges
    <3>. QED
      BY <1>1, <2>1, <2>2, <3>1, <3>2
  <2>7. (Capacity - accounting.claimed) * accounting.allowance \in Int
    BY <1>0
  <2>8. accounting.available + TotalOf(Overspent)
          >= TotalOf(Remaining) + (Capacity - accounting.claimed) * accounting.allowance
    BY <2>1 DEF BudgetCoversAllowances
  <2>9. accounting'.available + TotalOf(Overspent)'
          >= TotalOf(Remaining)' + (Capacity - accounting'.claimed) * accounting'.allowance
    BY <1>0, <1>1, <2>1, <2>5, <2>6, <2>7, <2>8
  <2>. QED
    BY <2>9 DEF BudgetCoversAllowances
<1>7. ASSUME NEW f \in Finishers, FinApply(f) PROVE BudgetCoversAllowances'
  <2>0. PICK r, charge : r = fin[f].receipt /\ charge = fin[f].charge
    OBVIOUS
  <2>. DEFINE u == UserOf[r]
              e == entitlement[u]
              y == EntitlementAfter(e, AmountOf[r], charge)
  <2>1. /\ u \in Users /\ e \in EntitlementRecords /\ e.active = r /\ e.status = "active"
        /\ entitlement' = [entitlement EXCEPT ![u] = y]
        /\ accounting'.claimed = accounting.claimed
        /\ accounting'.allowance = accounting.allowance
        /\ r \in Receipts /\ AmountOf[r] \in Nat /\ charge \in Nat
        /\ HasAccounting(accounting)
        /\ accounting'.available = Left(accounting.available, AmountOf[r], charge)
    BY <1>7, <2>0, FinishFacts, FinishBudget
  <2>2. /\ y.remaining = Left(e.remaining, AmountOf[r], charge)
        /\ y.consumed = e.consumed + charge /\ y.active = NoReceipt
        /\ e.remaining \in Nat /\ e.consumed \in Nat
    BY <2>1 DEF EntitlementAfter, EntitlementRecords
  <2>3. Held(e) = AmountOf[r] /\ Held(y) = 0
    BY <2>1, <2>2, IdentityAssumption DEF Held
  <2>4. e.remaining + AmountOf[r] + e.consumed = accounting.allowance
    <3>1. Used(e) = accounting.allowance
      BY <2>1 DEF OverspentIsExhausted, Claimed, HasEntitlement
    <3>. HIDE DEF y, e
    <3>. QED
      BY <2>1, <2>2, <2>3, <3>1 DEF Used
  <2>. DEFINE left == Left(e.remaining, AmountOf[r], charge)
              used == left + e.consumed + charge
              excess == IF used > accounting.allowance THEN used - accounting.allowance ELSE 0
  <2>5. /\ excess \in Nat /\ left \in Nat
        /\ Left(accounting.available, AmountOf[r], charge) + excess + e.remaining
             >= accounting.available + left
        /\ Left(accounting.available, AmountOf[r], charge) \in Nat
    <3>1. /\ left \in Nat /\ Left(accounting.available, AmountOf[r], charge) \in Nat
      BY <1>0, <2>1, <2>2, LeftTyped
    <3>2. PICK remaining \in Nat, consumed \in Nat, available \in Nat, amount \in Nat :
             /\ remaining = e.remaining /\ consumed = e.consumed
             /\ available = accounting.available /\ amount = AmountOf[r]
      BY <1>0, <2>1, <2>2
    <3>. HIDE DEF y, e
    <3>3. PICK sum, beyond : sum = used /\ beyond = excess
      OBVIOUS
    <3>4. /\ sum = Left(remaining, amount, charge) + consumed + charge
          /\ beyond = IF sum > accounting.allowance THEN sum - accounting.allowance ELSE 0
          /\ remaining + amount + consumed = accounting.allowance
      BY <2>4, <3>2, <3>3
    <3>5. /\ beyond \in Nat
          /\ Left(available, amount, charge) + beyond + remaining
               >= available + Left(remaining, amount, charge)
      BY <1>0, <2>1, <3>4 DEF Left, Surplus, Overrun
    <3>. HIDE DEF excess
    <3>. QED
      BY <3>1, <3>2, <3>3, <3>5
  <2>6. Excess(y, accounting.allowance) = excess
    <3>1. Used(y) = used
      <4>. HIDE DEF y, e
      <4>. QED
        BY <2>1, <2>2, <2>3, <2>5 DEF Used
    <3>. QED
      BY <3>1 DEF Excess
  <2>7. Excess(e, accounting.allowance) = 0
    <3>1. Used(e) = accounting.allowance
      BY <2>1 DEF OverspentIsExhausted, Claimed, HasEntitlement
    <3>. QED
      BY <1>0, <3>1 DEF Excess
  <2>. HIDE DEF y, e, u, excess, used, left
  <2>8. \A v \in Users : entitlement'[v] = IF v = u THEN y ELSE entitlement[v]
    BY <1>0, <2>1
  <2>9. TotalOf(Overspent)' = TotalOf(Overspent) + excess
    <3>1. /\ Overspent'[u] = excess /\ Overspent[u] = 0
          /\ \A v \in Users : v # u => Overspent'[v] = Overspent[v]
      BY <2>1, <2>6, <2>7, <2>8 DEF Overspent, e
    <3>2. TotalOf(Overspent') + Overspent[u] = TotalOf(Overspent) + Overspent'[u]
      BY <1>1, <2>1, <3>1, TotalChanges
    <3>. QED
      BY <1>1, <2>5, <3>1, <3>2
  <2>10. TotalOf(Remaining)' + e.remaining = TotalOf(Remaining) + left
    <3>1. /\ Remaining'[u] = left /\ Remaining[u] = e.remaining
          /\ \A v \in Users : v # u => Remaining'[v] = Remaining[v]
      BY <2>1, <2>2, <2>8 DEF Remaining, e, left
    <3>2. TotalOf(Remaining') + Remaining[u] = TotalOf(Remaining) + Remaining'[u]
      BY <1>1, <2>1, <3>1, TotalChanges
    <3>. QED
      BY <3>1, <3>2
  <2>11. (Capacity - accounting.claimed) * accounting.allowance \in Int
    BY <1>0
  <2>12. accounting.available + TotalOf(Overspent)
          >= TotalOf(Remaining) + (Capacity - accounting.claimed) * accounting.allowance
    BY <2>1 DEF BudgetCoversAllowances
  <2>13. accounting'.available + TotalOf(Overspent)'
          >= TotalOf(Remaining)' + (Capacity - accounting'.claimed) * accounting'.allowance
    BY <1>0, <1>1, <2>1, <2>2, <2>5, <2>9, <2>10, <2>11, <2>12
  <2>. QED
    BY <2>13 DEF BudgetCoversAllowances
<1>. QED
  <2>1. CASE UNCHANGED <<promotion, recordVars, prepared>>
    BY <1>2, <2>1 DEF recordVars
  <2>. QED
    BY <1>3, <1>4, <1>5, <1>6, <1>7, <2>1, LedgerStep

LEMMA BlankAlways == Spec => []Blank
<1>1. Init => Blank
  BY DEF Init, Blank
<1>2. LedgerInv /\ Blank /\ [Next]_vars => Blank'
  BY BlankStep
<1>. QED
  BY <1>1, <1>2, LedgerInvariant, PTL DEF Spec

\* The budget covers what every user who claimed has left and the allowance of every
\* place that is free, short only of what others were charged beyond their allowance.
THEOREM AllowancesCovered == Spec => []BudgetCoversAllowances
<1>1. Init => BudgetCoversAllowances
  BY DEF Init, BudgetCoversAllowances, HasAccounting, NoAccounting
<1>2. LedgerInv /\ OverspentIsExhausted /\ Blank /\ BudgetCoversAllowances /\ [Next]_vars
        => BudgetCoversAllowances'
  BY CoversStep
<1>. QED
  BY <1>1, <1>2, LedgerInvariant, Overspending, BlankAlways, PTL DEF Spec

-----------------------------------------------------------------------------
(* The stored records are readable.                                         *)

\* A user is active exactly while something is left or reserved.
Decodes == \A u \in Claimed : EntitlementDecodes(entitlement[u])

\* A Promotion that exists has an allowance.
Priced == promotion.status # "none" => promotion.allowance \in Allowances

LEMMA PricedStep ==
    ASSUME LedgerInv, Priced, [Next]_vars
    PROVE  Priced'
<1>0. promotion \in PromotionRecords
  BY DEF LedgerInv, TypeOK
<1>1. CASE UNCHANGED promotion
  BY <1>1 DEF Priced
<1>2. ASSUME NEW a \in Admins, AdminWrite(a) PROVE Priced'
  <2>1. promotion' \in Updated(promotion) \cup Transitioned(promotion)
    BY <1>2 DEF AdminWrite, StillCurrent
  <2>2. CASE promotion' \in Updated(promotion)
    <3>1. PICK b \in IF promotion.status = "draft" THEN Allowances ELSE {promotion.allowance} :
               promotion' = [promotion EXCEPT !.allowance = b, !.edit = @ + 1]
      BY <2>2 DEF Updated
    <3>2. promotion'.status = promotion.status /\ promotion'.allowance = b
      BY <1>0, <3>1 DEF PromotionRecords
    <3>. QED
      BY <3>1, <3>2 DEF Priced
  <2>3. CASE promotion' \in Transitioned(promotion)
    <3>1. PICK s \in ValidTransitions[promotion.status] :
               promotion' = [promotion EXCEPT !.status = s, !.edit = @ + 1]
      BY <2>3 DEF Transitioned
    <3>2. promotion'.allowance = promotion.allowance
      BY <1>0, <3>1 DEF PromotionRecords
    <3>3. promotion.status # "none"
      BY <3>1 DEF ValidTransitions
    <3>. QED
      BY <3>2, <3>3 DEF Priced
  <2>. QED
    BY <2>1, <2>2, <2>3
<1>3. ASSUME NEW a \in Admins, AdminDelete(a) PROVE Priced'
  BY <1>3 DEF AdminDelete, Priced, NoPromotion
<1>. QED
  BY <1>1, <1>2, <1>3, LedgerStep
     DEF ClaimApply, ReserveApply, Commit, Begin, FinApply

LEMMA DecodesStep ==
    ASSUME LedgerInv, Priced, Decodes, [Next]_vars
    PROVE  Decodes'
<1>0. entitlement \in [Users -> EntitlementRecords]
  BY DEF LedgerInv, TypeOK
<1>1. CASE UNCHANGED entitlement
  BY <1>1 DEF Decodes, Claimed
<1>2. ASSUME NEW u \in Users, NEW y, entitlement' = [entitlement EXCEPT ![u] = y],
             EntitlementDecodes(y)
      PROVE  Decodes'
  BY <1>0, <1>2 DEF Decodes, Claimed
<1>3. ASSUME NEW c \in Claims, ClaimApply(c) PROVE Decodes'
  <2>. DEFINE y == [NoEntitlement EXCEPT !.status = "active", !.remaining = promotion.allowance]
  <2>1. promotion.status = "active" /\ promotion.allowance > 0
    <3>1. promotion.status = "active"
      BY <1>3, ClaimFacts
    <3>. QED
      BY <3>1, ConstantRanges DEF Priced
  <2>2. y.status = "active" /\ y.remaining = promotion.allowance
    BY DEF NoEntitlement
  <2>. HIDE DEF y
  <2>3. EntitlementDecodes(y)
    BY <2>1, <2>2 DEF EntitlementDecodes
  <2>. QED
    BY <1>2, <1>3, <2>3, ClaimFacts DEF y
<1>4. ASSUME NEW r \in Receipts, ReserveApply(r) PROVE Decodes'
  <2>. DEFINE e == entitlement[UserOf[r]]
              y == [e EXCEPT !.remaining = @ - AmountOf[r], !.active = r]
  <2>1. UserOf[r] \in Users /\ e \in EntitlementRecords /\ e.status = "active"
        /\ entitlement' = [entitlement EXCEPT ![UserOf[r]] = y]
    BY <1>4, ReserveFacts
  <2>2. y.status = e.status /\ y.active = r
    BY <2>1 DEF EntitlementRecords
  <2>. HIDE DEF y
  <2>3. EntitlementDecodes(y)
    BY <2>1, <2>2, IdentityAssumption DEF EntitlementDecodes
  <2>. QED
    BY <1>2, <2>1, <2>3
<1>5. ASSUME NEW f \in Finishers, FinApply(f) PROVE Decodes'
  <2>0. PICK r, charge : r = fin[f].receipt /\ charge = fin[f].charge
    OBVIOUS
  <2>. DEFINE e == entitlement[UserOf[r]]
              left == Left(e.remaining, AmountOf[r], charge)
              y == EntitlementAfter(e, AmountOf[r], charge)
  <2>1. UserOf[r] \in Users /\ e \in EntitlementRecords /\ e.status = "active"
        /\ entitlement' = [entitlement EXCEPT ![UserOf[r]] = y]
        /\ r \in Receipts /\ charge \in Nat
    BY <1>5, <2>0, FinishFacts
  <2>2. y.status = StatusAfter(e, AmountOf[r], charge) /\ y.remaining = left
        /\ y.active = NoReceipt
    BY <2>1 DEF EntitlementAfter, EntitlementRecords
  <2>3. left \in Nat
    BY <2>1, ConstantRanges, LeftTyped DEF EntitlementRecords
  <2>4. y.status = IF left = 0 THEN "exhausted" ELSE "active"
    BY <2>1, <2>2 DEF StatusAfter
  <2>. HIDE DEF y, left
  <2>5. EntitlementDecodes(y)
    BY <2>2, <2>3, <2>4 DEF EntitlementDecodes
  <2>. QED
    BY <1>2, <2>1, <2>5
<1>6. ASSUME NEW a \in Admins, AdminWrite(a) \/ AdminDelete(a) PROVE Decodes'
  BY <1>1, <1>6 DEF AdminWrite, AdminDelete, recordVars
<1>7. ASSUME NEW r \in Receipts, Commit(r) \/ Begin(r) PROVE Decodes'
  BY <1>1, <1>7 DEF Commit, Begin, recordVars
<1>. QED
  <2>1. CASE UNCHANGED <<promotion, recordVars, prepared>>
    BY <1>1, <2>1 DEF recordVars
  <2>. QED
    BY <1>3, <1>4, <1>5, <1>6, <1>7, <2>1, LedgerStep

\* What one receipt reserves is part of the reserved sum.
LEMMA ReservedSumCovers ==
    ASSUME LedgerInv, Budget, NEW r \in Receipts, Outstanding(r)
    PROVE  AmountOf[r] <= accounting.reserved
<1>1. ReservedBy[r] = AmountOf[r]
  BY DEF ReservedBy
<1>2. ReservedBy[r] <= TotalOf(ReservedBy)
  BY SumsTyped, TotalAtLeast
<1>. QED
  BY <1>1, <1>2 DEF Budget

LEMMA ReadableByInvariants ==
    ASSUME LedgerInv, Budget, OverspentIsExhausted, ClaimsWithinCapacity, Decodes, Blank
    PROVE  StoredRecordsReadable
<1>0. /\ accounting \in AccountingRecords /\ entitlement \in [Users -> EntitlementRecords]
      /\ accounting.allowance \in Nat /\ accounting.reserved \in Nat
  BY ConstantRanges DEF LedgerInv, TypeOK, AccountingRecords
<1>1. ASSUME NEW u \in Users, HasEntitlement(entitlement[u])
      PROVE  /\ EntitlementDecodes(entitlement[u]) /\ HasAccounting(accounting)
             /\ EntitlementFits(accounting, entitlement[u])
  <2>1. PICK e \in EntitlementRecords : e = entitlement[u]
    BY <1>0
  <2>2. /\ EntitlementDecodes(e) /\ HasAccounting(accounting)
        /\ e.status = "active" => Used(e) = accounting.allowance
        /\ e.remaining \in Nat /\ e.consumed \in Nat
        /\ e.active \in Receipts \cup {NoReceipt}
    BY <1>1, <2>1
       DEF Decodes, LedgerInv, OverspentIsExhausted, Claimed, EntitlementRecords
  <2>3. Held(e) \in Nat /\ Held(e) <= accounting.reserved
    <3>1. CASE e.active = NoReceipt
      BY <1>0, <3>1 DEF Held
    <3>2. CASE e.active # NoReceipt
      <4>1. e.active \in Receipts /\ Outstanding(e.active) /\ Held(e) = AmountOf[e.active]
        BY <2>1, <2>2, <3>2 DEF LedgerInv, OneReservationPerUser, Held
      <4>. QED
        BY <4>1, ReservedSumCovers, ConstantRanges
    <3>. QED
      BY <3>1, <3>2
  <2>4. e.remaining + Held(e) <= accounting.allowance
    <3>1. CASE e.status = "active"
      BY <1>0, <2>2, <2>3, <3>1 DEF Used
    <3>2. CASE e.status # "active"
      <4>1. e.remaining = 0 /\ e.active = NoReceipt
        BY <2>2, <3>2 DEF EntitlementDecodes
      <4>. QED
        BY <1>0, <4>1 DEF Held
    <3>. QED
      BY <3>1, <3>2
  <2>. QED
    BY <2>1, <2>2, <2>3, <2>4 DEF EntitlementFits
<1>2. ASSUME HasAccounting(accounting)
      PROVE  /\ AccountingDecodes(accounting) /\ promotion.status # "none"
             /\ accounting.allowance = promotion.allowance
  BY <1>2 DEF Budget, Total, AccountingDecodes, ClaimsWithinCapacity, LedgerInv, EconomicsFrozen
<1>3. \A u \in Users : Readable(promotion, accounting, entitlement[u])
  BY <1>1, <1>2 DEF Readable
<1>4. ASSUME NEW r \in Receipts, Outstanding(r)
      PROVE  ReservationFits(accounting, entitlement[UserOf[r]], r)
  <2>1. /\ UserOf[r] \in Users /\ entitlement[UserOf[r]].active = r
    BY <1>4, ConstantRanges DEF LedgerInv, OneReservationPerUser
  <2>2. HasEntitlement(entitlement[UserOf[r]])
    BY <2>1, IdentityAssumption DEF Blank, NoEntitlement
  <2>3. /\ EntitlementDecodes(entitlement[UserOf[r]])
        /\ EntitlementFits(accounting, entitlement[UserOf[r]])
    BY <1>1, <2>1, <2>2
  <2>4. entitlement[UserOf[r]].status = "active"
    BY <2>1, <2>3, IdentityAssumption DEF EntitlementDecodes
  <2>5. AmountOf[r] <= accounting.reserved
    BY <1>4, ReservedSumCovers
  <2>. QED
    BY <2>1, <2>3, <2>4, <2>5 DEF ReservationFits
<1>. QED
  BY <1>3, <1>4 DEF StoredRecordsReadable

\* No read of a consistent moment ever finds records that contradict each other, and
\* every outstanding reservation fits the records it is ended with.
THEOREM AlwaysReadable == Spec => []StoredRecordsReadable
<1>1. Init => Decodes /\ Priced
  BY DEF Init, Decodes, Claimed, HasEntitlement, NoEntitlement, Priced
<1>2. LedgerInv /\ Decodes /\ Priced /\ [Next]_vars => (Decodes /\ Priced)'
  BY DecodesStep, PricedStep
<1>3. LedgerInv /\ Budget /\ OverspentIsExhausted /\ ClaimsWithinCapacity /\ Decodes /\ Blank
        => StoredRecordsReadable
  BY ReadableByInvariants
<1>. QED
  BY <1>1, <1>2, <1>3, LedgerInvariant, BudgetAlways, Overspending, WithinCapacity, BlankAlways,
     PTL DEF Spec
=============================================================================
