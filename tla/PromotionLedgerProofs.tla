----------------------- MODULE PromotionLedgerProofs -----------------------
(***************************************************************************)
(* Proofs about PromotionLedger for every number of users, receipts,       *)
(* requests and tasks, every amount and every budget.                      *)
(*                                                                         *)
(* LedgerInv is inductive.  The stored records change in six ways only     *)
(* (LedgerStep); a script compares what its request has read, so what the  *)
(* request knows of its copy (RequestsKnow) holds of the records.          *)
(***************************************************************************)
EXTENDS PromotionLedger, SequenceTheorems, FiniteSetTheorems, TLAPS

-----------------------------------------------------------------------------
(* Types.                                                                   *)

LEMMA ConstantRanges ==
    /\ \A a \in Allowances : a \in Nat /\ a > 0
    /\ \A r \in Receipts : AmountOf[r] \in Nat /\ AmountOf[r] > 0 /\ UserOf[r] \in Users
    /\ \A c \in Charges : c \in Nat
    /\ \A c \in Claims : ClaimantOf[c] \in Users
    /\ Capacity \in Nat /\ Capacity > 0 /\ LedgerBound \in Nat /\ MaxEdits \in Nat
<1>1. /\ AmountOf \in [Receipts -> Nat \ {0}] /\ Charges \subseteq Nat
      /\ Capacity \in Nat \ {0} /\ Allowances \subseteq Nat \ {0}
      /\ LedgerBound \in Nat /\ MaxEdits \in Nat
  BY AmountAssumption
<1>. QED
  BY <1>1, IdentityAssumption

\* Edits keep the shape of a Promotion record.
LEMMA EditsTyped ==
    ASSUME NEW p \in PromotionRecords
    PROVE  Updated(p) \subseteq PromotionRecords /\ Transitioned(p) \subseteq PromotionRecords
<1>1. /\ p.status \in {"none", "draft", "active", "paused", "archived"}
      /\ p.allowance \in Allowances \cup {0} /\ p.edit + 1 \in Nat
      /\ p = [status |-> p.status, allowance |-> p.allowance, edit |-> p.edit]
  BY DEF PromotionRecords
<1>2. ASSUME NEW a \in Allowances \cup {0}
      PROVE  [p EXCEPT !.allowance = a, !.edit = @ + 1] \in PromotionRecords
  BY <1>1 DEF PromotionRecords
<1>3. ASSUME NEW s \in {"active", "paused", "archived"}
      PROVE  [p EXCEPT !.status = s, !.edit = @ + 1] \in PromotionRecords
  BY <1>1 DEF PromotionRecords
<1>4. ValidTransitions[p.status] \subseteq {"active", "paused", "archived"}
  BY <1>1 DEF ValidTransitions
<1>. QED
  BY <1>1, <1>2, <1>3, <1>4 DEF Updated, Transitioned

LEMMA ConstantTypes ==
    /\ NoPromotion \in PromotionRecords
    /\ NoAccounting \in AccountingRecords
    /\ NoEntitlement \in EntitlementRecords
    /\ NoResult \in ResultRecords
    /\ \A pc \in RequestStates : Ended(pc) \in Requests
    /\ FinIdle \in Tasks /\ Stale \in Tasks /\ Threw \in Tasks
<1>1. /\ NoPromotion \in PromotionRecords
      /\ NoAccounting \in AccountingRecords
      /\ NoEntitlement \in EntitlementRecords
      /\ NoResult \in ResultRecords
  BY AmountAssumption
  DEF NoPromotion, PromotionRecords, NoAccounting, AccountingRecords, NoEntitlement,
      EntitlementRecords, NoResult, ResultRecords
<1>2. \A pc \in RequestStates : Ended(pc) \in Requests
  BY <1>1 DEF Ended, Requests
<1>3. FinIdle \in Tasks
  BY <1>1, EmptySeq DEF FinIdle, Tasks
<1>4. Stale \in Tasks /\ Threw \in Tasks
  BY <1>3 DEF Stale, Threw, Tasks
<1>. QED
  BY <1>1, <1>2, <1>3, <1>4

\* The next entry of a batch is a typed task that knows what a sweep knows.
LEMMA NextOfTyped ==
    ASSUME NEW batch \in Seq(Receipts)
    PROVE  NextOf(batch) \in Tasks /\ FinishKnows(NextOf(batch))
<1>1. CASE batch = <<>>
  BY <1>1, ConstantTypes DEF NextOf, FinishKnows, FinIdle
<1>2. CASE batch # <<>>
  <2>1. Head(batch) \in Receipts /\ Tail(batch) \in Seq(Receipts)
    BY <1>2, HeadTailProperties
  <2>2. NextOf(batch) =
          [FinIdle EXCEPT !.pc = "plan", !.job = "sweep", !.receipt = Head(batch),
                          !.operation = "release", !.batch = Tail(batch)]
    BY <1>2 DEF NextOf
  <2>3. NextOf(batch) \in Tasks
    BY <2>1, <2>2, ConstantTypes DEF Tasks
  <2>4. FinishKnows(NextOf(batch))
    BY <2>1, <2>2 DEF FinIdle, FinishKnows
  <2>. QED
    BY <2>3, <2>4
<1>. QED
  BY <1>1, <1>2

\* A sequence without its i-th element keeps the other ones, each once.
LEMMA RemoveAtKeepsOthers ==
    ASSUME NEW d \in Seq(Receipts), IsInjective(d), NEW i \in DOMAIN d
    PROVE  /\ RemoveAt(d, i) \in Seq(Receipts)
           /\ IsInjective(RemoveAt(d, i))
           /\ ToSet(RemoveAt(d, i)) = ToSet(d) \ {d[i]}
<1>1. PICK n \in Nat : n = Len(d) /\ DOMAIN d = 1..n
  BY LenProperties
<1>2. i \in 1..n /\ \A j \in 1..n : d[j] \in Receipts
  BY <1>1, ElementOfSeq
<1>3. PICK s : s = SubSeq(d, 1, i - 1)
  OBVIOUS
<1>4. PICK t : t = SubSeq(d, i + 1, n)
  OBVIOUS
<1>5. s \in Seq(Receipts) /\ Len(s) = i - 1 /\ \A j \in 1..(i - 1) : s[j] = d[j]
  BY <1>2, <1>3, SubSeqProperties
<1>6. t \in Seq(Receipts) /\ Len(t) = n - i /\ \A j \in 1..(n - i) : t[j] = d[i + j]
  BY <1>2, <1>4, SubSeqProperties
<1>7. PICK e : e = s \o t /\ e = RemoveAt(d, i)
  BY <1>1, <1>3, <1>4 DEF RemoveAt
<1>8. /\ e \in Seq(Receipts) /\ Len(e) = Len(s) + Len(t)
      /\ \A j \in 1..(Len(s) + Len(t)) :
           e[j] = IF j <= Len(s) THEN s[j] ELSE t[j - Len(s)]
  <2>1. s \in Seq(Receipts) /\ t \in Seq(Receipts) /\ e = s \o t
    BY <1>7, <1>5, <1>6
  <2>. QED
    BY <2>1, ConcatProperties
<1>9. Len(s) + Len(t) = n - 1
  BY <1>2, <1>5, <1>6
<1>10. e \in Seq(Receipts) /\ Len(e) = n - 1
  BY <1>8, <1>9
<1>11. \A j \in 1..(n - 1) : e[j] = IF j < i THEN s[j] ELSE t[j - (i - 1)]
  <2> SUFFICES ASSUME NEW j \in 1..(n - 1)
               PROVE  e[j] = IF j < i THEN s[j] ELSE t[j - (i - 1)]
    OBVIOUS
  <2>1. e[j] = IF j <= i - 1 THEN s[j] ELSE t[j - (i - 1)]
    BY <1>8, <1>9, <1>5
  <2>2. j <= i - 1 <=> j < i
    BY <1>2
  <2>. QED
    BY <2>1, <2>2
<1>12. \A j \in 1..(n - 1) : e[j] = IF j < i THEN d[j] ELSE d[j + 1]
  <2> SUFFICES ASSUME NEW j \in 1..(n - 1) PROVE e[j] = IF j < i THEN d[j] ELSE d[j + 1]
    OBVIOUS
  <2>1. CASE j < i
    BY <1>2, <1>5, <1>11, <2>1
  <2>2. CASE ~(j < i)
    <3>1. j - (i - 1) \in 1..(n - i) /\ i + (j - (i - 1)) = j + 1
      BY <1>2, <2>2
    <3>. QED
      BY <1>11, <1>2, <1>6, <2>2, <3>1
  <2>. QED
    BY <2>1, <2>2
<1>13. DOMAIN e = 1..(n - 1)
  BY <1>10, LenProperties
<1>14. IsInjective(e)
  <2> SUFFICES ASSUME NEW a \in 1..(n - 1), NEW b \in 1..(n - 1), e[a] = e[b] PROVE a = b
    BY <1>13 DEF IsInjective
  <2>1. \A x, y \in 1..n : d[x] = d[y] => x = y
    BY <1>1 DEF IsInjective
  <2>2. PICK x \in 1..n : e[a] = d[x] /\ x = IF a < i THEN a ELSE a + 1
    BY <1>12, <1>2
  <2>3. PICK y \in 1..n : e[b] = d[y] /\ y = IF b < i THEN b ELSE b + 1
    BY <1>12, <1>2
  <2>4. x = y
    BY <2>1, <2>2, <2>3
  <2>. QED
    BY <1>2, <2>2, <2>3, <2>4
<1>15. ToSet(e) = ToSet(d) \ {d[i]}
  <2>1. ASSUME NEW j \in 1..(n - 1) PROVE e[j] \in ToSet(d) \ {d[i]}
    <3>1. PICK x \in 1..n : x = (IF j < i THEN j ELSE j + 1) /\ x # i
      BY <1>2
    <3>2. e[j] = d[x]
      BY <1>12, <3>1
    <3>. QED
      BY <1>1, <1>2, <3>1, <3>2 DEF ToSet, IsInjective
  <2>2. ASSUME NEW k \in 1..n, k # i PROVE d[k] \in ToSet(e)
    <3>1. PICK j \in 1..(n - 1) : j = IF k < i THEN k ELSE k - 1
      BY <1>2, <2>2
    <3>2. e[j] = d[k]
      BY <1>12, <1>2, <2>2, <3>1
    <3>. QED
      BY <1>13, <3>2 DEF ToSet
  <2>3. ASSUME NEW x \in ToSet(e) PROVE x \in ToSet(d) \ {d[i]}
    BY <1>13, <2>1, <2>3 DEF ToSet
  <2>4. ASSUME NEW x \in ToSet(d) \ {d[i]} PROVE x \in ToSet(e)
    <3>1. PICK k \in 1..n : x = d[k]
      BY <1>1, <2>4 DEF ToSet
    <3>. QED
      BY <2>2, <2>4, <3>1
  <2>. QED
    BY <2>3, <2>4
<1>. QED
  BY <1>7, <1>10, <1>14, <1>15

\* Removing a deadline leaves the other ones, each once.
LEMMA WithoutDeadlineRemoves ==
    ASSUME NEW r \in Receipts, deadlines \in Seq(Receipts), IsInjective(deadlines)
    PROVE  /\ WithoutDeadline(r) \in Seq(Receipts)
           /\ IsInjective(WithoutDeadline(r))
           /\ ToSet(WithoutDeadline(r)) = ToSet(deadlines) \ {r}
<1>1. CASE ~\E i \in DOMAIN deadlines : deadlines[i] = r
  BY <1>1 DEF WithoutDeadline, ToSet
<1>2. CASE \E i \in DOMAIN deadlines : deadlines[i] = r
  <2>1. PICK i \in DOMAIN deadlines :
           deadlines[i] = r /\ i = CHOOSE j \in DOMAIN deadlines : deadlines[j] = r
    BY <1>2
  <2>2. WithoutDeadline(r) = RemoveAt(deadlines, i)
    BY <1>2, <2>1 DEF WithoutDeadline
  <2>. QED
    BY <2>1, <2>2, RemoveAtKeepsOthers
<1>. QED
  BY <1>1, <1>2

\* A new deadline goes to the end of the index.
LEMMA AppendDeadline ==
    ASSUME NEW d \in Seq(Receipts), IsInjective(d), NEW r \in Receipts, r \notin ToSet(d)
    PROVE  /\ Append(d, r) \in Seq(Receipts)
           /\ IsInjective(Append(d, r))
           /\ ToSet(Append(d, r)) = ToSet(d) \cup {r}
<1>1. PICK n \in Nat : n = Len(d) /\ DOMAIN d = 1..n
  BY LenProperties
<1>2. PICK e : e = Append(d, r)
  OBVIOUS
<1>3. /\ e \in Seq(Receipts) /\ Len(e) = n + 1 /\ e[n + 1] = r
      /\ \A i \in 1..n : e[i] = d[i]
  BY <1>1, <1>2, AppendProperties
<1>4. DOMAIN e = 1..(n + 1)
  BY <1>3, LenProperties
<1>5. IsInjective(e)
  BY <1>1, <1>3, <1>4 DEF IsInjective, ToSet
<1>6. ToSet(e) = ToSet(d) \cup {r}
  <2>1. ASSUME NEW i \in 1..(n + 1) PROVE e[i] \in ToSet(d) \cup {r}
    BY <1>1, <1>3 DEF ToSet
  <2>2. ASSUME NEW i \in 1..n PROVE d[i] \in ToSet(e)
    BY <1>1, <1>3, <1>4 DEF ToSet
  <2>3. r \in ToSet(e)
    BY <1>1, <1>3, <1>4 DEF ToSet
  <2>. QED
    BY <1>1, <1>4, <2>1, <2>2, <2>3 DEF ToSet
<1>. QED
  BY <1>2, <1>3, <1>5, <1>6

-----------------------------------------------------------------------------
(* The steps of the stored records.                                         *)

\* The records change when a script writes, and in no other way.
LEMMA LedgerStep ==
    ASSUME [Next]_vars
    PROVE  \/ UNCHANGED <<promotion, recordVars, prepared>>
           \/ \E a \in Admins : AdminWrite(a) \/ AdminDelete(a)
           \/ \E c \in Claims : ClaimApply(c)
           \/ \E r \in Receipts : ReserveApply(r) \/ Commit(r) \/ Begin(r)
           \/ \E f \in Finishers : FinApply(f)
<1>1. CASE UNCHANGED vars
  BY <1>1 DEF vars
<1>2. ASSUME NEW a \in Admins, AdminNext(a)
      PROVE  AdminWrite(a) \/ AdminDelete(a) \/ UNCHANGED <<promotion, recordVars, prepared>>
  BY <1>2 DEF AdminNext, AdminRead, AdminConflict
<1>3. ASSUME NEW c \in Claims, ClaimNext(c)
      PROVE  ClaimApply(c) \/ UNCHANGED <<promotion, recordVars, prepared>>
  BY <1>3 DEF ClaimNext, ClaimStart, ClaimRead, ClaimRefused
<1>4. ASSUME NEW r \in Receipts, ReceiptNext(r)
      PROVE  \/ ReserveApply(r) \/ Commit(r) \/ Begin(r)
             \/ UNCHANGED <<promotion, recordVars, prepared>>
  BY <1>4 DEF ReceiptNext, ReserveStart, ReserveReadAccounting, ReserveReadEntitlement,
              ReserveReadActive, ReserveConfirm, ReserveRefused, ReserveFails
<1>5. ASSUME NEW f \in Finishers, FinNext(f)
      PROVE  FinApply(f) \/ UNCHANGED <<promotion, recordVars, prepared>>
  BY <1>5 DEF FinNext, FinStep, StartRelease, StartDiscard, StartFinalize, StartSweep,
              FinRead, FinCheck, FinPlan, FinRecheck, FinRefused, FinDies
<1>. QED
  BY <1>1, <1>2, <1>3, <1>4, <1>5 DEF Next

\* What a finalization leaves is typed.
LEMMA LeftTyped ==
    ASSUME NEW b \in Nat, NEW amount \in Nat, NEW charge \in Nat
    PROVE  /\ Left(b, amount, charge) \in Nat
           /\ Left(b, amount, charge) <= b + amount
           /\ charge <= amount => Left(b, amount, charge) = b + amount - charge
           /\ charge > amount /\ Left(b, amount, charge) > 0 =>
                Left(b, amount, charge) = b + amount - charge
           /\ Left(b, amount, charge) = 0 => b + amount <= charge
  BY DEF Left, Surplus, Overrun

-----------------------------------------------------------------------------
(* The types are preserved.                                                 *)

RecordsTyped ==
    /\ promotion \in PromotionRecords
    /\ accounting \in AccountingRecords
    /\ entitlement \in [Users -> EntitlementRecords]
    /\ reservation \in [Receipts -> {"none", "reserved", "executing"}]
    /\ deadlines \in Seq(Receipts)
    /\ result \in [Receipts -> ResultRecords]
    /\ prepared \subseteq Receipts
RequestsTyped ==
    /\ claim \in [Claims -> Requests]
    /\ req \in [Receipts -> Requests]
    /\ fin \in [Finishers -> Tasks]
    /\ adm \in [Admins -> PromotionRecords]

\* What a finalization writes is typed, since the task has checked the sums.
LEMMA FinalizeTyped ==
    ASSUME NEW acc \in AccountingRecords, NEW ent \in EntitlementRecords,
           NEW r \in Receipts, NEW charge \in Charges \cup {0},
           ReservationFits(acc, ent, r), WithinBound(acc, ent, charge)
    PROVE  /\ AccountingAfter(acc, AmountOf[r], charge) \in AccountingRecords
           /\ EntitlementAfter(ent, AmountOf[r], charge) \in EntitlementRecords
<1>1. AmountOf[r] \in Nat /\ charge \in Nat
  BY ConstantRanges
<1>2. /\ Left(acc.available, AmountOf[r], charge) \in Nat
      /\ Left(ent.remaining, AmountOf[r], charge) \in Nat
  BY <1>1, LeftTyped DEF AccountingRecords, EntitlementRecords
<1>3. acc.reserved - AmountOf[r] \in Nat
  BY <1>1 DEF ReservationFits, AccountingRecords
<1>4. acc.consumed + charge \in 0..LedgerBound /\ ent.consumed + charge \in 0..LedgerBound
  BY <1>1, ConstantRanges DEF WithinBound, AccountingRecords, EntitlementRecords
<1>5. AccountingAfter(acc, AmountOf[r], charge) \in AccountingRecords
  BY <1>2, <1>3, <1>4 DEF AccountingAfter, AccountingRecords
<1>6. StatusAfter(ent, AmountOf[r], charge) \in {"none", "active", "exhausted"}
  BY DEF StatusAfter, EntitlementRecords
<1>7. EntitlementAfter(ent, AmountOf[r], charge) \in EntitlementRecords
  BY <1>2, <1>4, <1>6 DEF EntitlementAfter, EntitlementRecords
<1>. QED
  BY <1>5, <1>7

LEMMA RecordTypeStep ==
    ASSUME LedgerInv, [Next]_vars
    PROVE  RecordsTyped'
<1>0. TypeOK /\ RequestsKnow /\ ReceiptKeepsReservation
  BY DEF LedgerInv
<1>1. CASE UNCHANGED <<promotion, recordVars, prepared>>
  BY <1>0, <1>1 DEF TypeOK, RecordsTyped, recordVars
<1>2. ASSUME NEW a \in Admins, AdminWrite(a) \/ AdminDelete(a) PROVE RecordsTyped'
  <2>1. adm[a] \in PromotionRecords
    BY <1>0 DEF TypeOK
  <2>2. /\ Updated(adm[a]) \subseteq PromotionRecords
        /\ Transitioned(adm[a]) \subseteq PromotionRecords
    BY <2>1, EditsTyped
  <2>3. promotion' \in PromotionRecords
    BY <1>2, <2>2, ConstantTypes DEF AdminWrite, AdminDelete
  <2>. QED
    BY <1>0, <1>2, <2>3 DEF AdminWrite, AdminDelete, TypeOK, RecordsTyped, recordVars
<1>3. ASSUME NEW c \in Claims, ClaimApply(c) PROVE RecordsTyped'
  <2> DEFINE x == claim[c]
             acc == IF HasAccounting(x.acc) THEN x.acc ELSE FreshAccounting(x.promo)
  <2>1. x \in Requests
    BY <1>0 DEF TypeOK
  <2>2. FreshAccounting(x.promo) \in AccountingRecords
    <3>1. x.promo.allowance \in Allowances \cup {0}
      BY <2>1 DEF Requests, PromotionRecords
    <3>2. Capacity * x.promo.allowance \in Nat
      <4>1. x.promo.allowance \in Nat /\ Capacity \in Nat
        BY <3>1, ConstantRanges
      <4>. QED
        BY <4>1
    <3>. QED
      BY <3>1, <3>2, ConstantRanges DEF FreshAccounting, AccountingRecords
  <2>3. acc \in AccountingRecords
    BY <2>1, <2>2 DEF Requests
  <2> HIDE DEF acc
  <2>4. accounting' = [acc EXCEPT !.claimed = @ + 1]
    BY <1>3 DEF ClaimApply, acc
  <2>5. accounting' \in AccountingRecords
    BY <2>3, <2>4 DEF AccountingRecords
  <2>6. [NoEntitlement EXCEPT !.status = "active", !.remaining = acc.allowance]
          \in EntitlementRecords
    <3>1. acc.allowance \in Nat
      BY <2>3, ConstantRanges DEF AccountingRecords
    <3>. QED
      BY <3>1, ConstantTypes DEF EntitlementRecords
  <2>7. entitlement' = [entitlement EXCEPT ![ClaimantOf[c]] =
            [NoEntitlement EXCEPT !.status = "active", !.remaining = acc.allowance]]
    BY <1>3 DEF ClaimApply, acc
  <2>8. entitlement' \in [Users -> EntitlementRecords]
    BY <1>0, <2>6, <2>7 DEF TypeOK
  <2>. QED
    BY <1>0, <1>3, <2>5, <2>8 DEF ClaimApply, TypeOK, RecordsTyped
<1>4. ASSUME NEW r \in Receipts, ReserveApply(r) PROVE RecordsTyped'
  <2>1. /\ UserOf[r] \in Users /\ AmountOf[r] \in Nat
        /\ accounting.available >= AmountOf[r]
        /\ entitlement[UserOf[r]].remaining >= AmountOf[r]
    <3>1. ~CannotReserve(accounting, entitlement[UserOf[r]], r)
      BY <1>0, <1>4 DEF ReserveApply, ReserveMatches, Unchanged, RequestsKnow, ReserveKnows
    <3>. QED
      BY <1>0, <3>1, ConstantRanges
      DEF CannotReserve, TypeOK, AccountingRecords, EntitlementRecords
  <2>2. accounting' \in AccountingRecords
    <3>1. /\ accounting \in AccountingRecords
          /\ accounting.available - AmountOf[r] \in Nat
          /\ accounting.reserved + AmountOf[r] \in Nat
      BY <1>0, <2>1 DEF TypeOK, AccountingRecords
    <3>. QED
      BY <1>4, <3>1 DEF ReserveApply, AccountingRecords
  <2>3. entitlement' \in [Users -> EntitlementRecords]
    <3> DEFINE e == entitlement[UserOf[r]]
    <3>1. /\ e \in EntitlementRecords
          /\ e.remaining - AmountOf[r] \in Nat
      BY <1>0, <2>1 DEF TypeOK, EntitlementRecords
    <3>2. [e EXCEPT !.remaining = @ - AmountOf[r], !.active = r] \in EntitlementRecords
      BY <3>1 DEF EntitlementRecords
    <3>3. entitlement' = [entitlement EXCEPT ![UserOf[r]] =
              [e EXCEPT !.remaining = @ - AmountOf[r], !.active = r]]
      BY <1>0, <1>4, <2>1 DEF ReserveApply, TypeOK
    <3>. QED
      BY <1>0, <3>2, <3>3 DEF TypeOK
  <2>4. deadlines' \in Seq(Receipts)
    BY <1>0, <1>4, AppendProperties DEF ReserveApply, TypeOK
  <2>. QED
    BY <1>0, <1>4, <2>2, <2>3, <2>4 DEF ReserveApply, TypeOK, RecordsTyped
<1>5. ASSUME NEW r \in Receipts, Commit(r) \/ Begin(r) PROVE RecordsTyped'
  <2>1. deadlines' \in Seq(Receipts)
    BY <1>0, <1>5, WithoutDeadlineRemoves
    DEF Commit, Begin, IndexAfterBegin, recordVars, TypeOK, ReceiptKeepsReservation
  <2>. QED
    BY <1>0, <1>5, <2>1 DEF Commit, Begin, recordVars, TypeOK, RecordsTyped
<1>6. ASSUME NEW f \in Finishers, FinApply(f) PROVE RecordsTyped'
  <2> DEFINE r == fin[f].receipt
             x == fin[f]
  <2>1. x \in Tasks /\ FinishKnows(x) /\ x.pc = "apply"
    BY <1>0, <1>6 DEF TypeOK, RequestsKnow, FinApply
  <2>2. /\ r \in Receipts /\ x.operation \in {"consume", "release"}
        /\ ReservationFits(x.acc, x.ent, r) /\ WithinBound(x.acc, x.ent, x.charge)
        /\ x.acc \in AccountingRecords /\ x.ent \in EntitlementRecords
        /\ x.charge \in Charges \cup {0} /\ UserOf[r] \in Users
        /\ x.charge \in Nat /\ AmountOf[r] \in Nat
    <3>1. /\ r \in Receipts /\ x.operation \in {"consume", "release"}
          /\ ReservationFits(x.acc, x.ent, r) /\ WithinBound(x.acc, x.ent, x.charge)
      BY <2>1 DEF FinishKnows
    <3>2. /\ x.acc \in AccountingRecords /\ x.ent \in EntitlementRecords
          /\ x.charge \in Charges \cup {0}
      BY <2>1 DEF Tasks
    <3>. QED
      BY <3>1, <3>2, ConstantRanges
  <2>3. /\ AccountingAfter(x.acc, AmountOf[r], x.charge) \in AccountingRecords
        /\ EntitlementAfter(x.ent, AmountOf[r], x.charge) \in EntitlementRecords
    BY <2>2, FinalizeTyped
  <2>4. /\ accounting' \in AccountingRecords
        /\ entitlement' \in [Users -> EntitlementRecords]
    BY <1>0, <1>6, <2>2, <2>3 DEF FinApply, TypeOK
  <2>5. deadlines' \in Seq(Receipts)
    BY <1>0, <1>6, <2>2, WithoutDeadlineRemoves DEF FinApply, TypeOK, ReceiptKeepsReservation
  <2>6. result' \in [Receipts -> ResultRecords]
    BY <1>0, <1>6, <2>2 DEF FinApply, TypeOK, ResultRecords
  <2>7. /\ reservation' \in [Receipts -> {"none", "reserved", "executing"}]
        /\ prepared' \subseteq Receipts /\ promotion' \in PromotionRecords
    BY <1>0, <1>6, <2>2 DEF FinApply, TypeOK
  <2>. QED
    BY <2>4, <2>5, <2>6, <2>7 DEF RecordsTyped
<1>. QED
  BY <1>1, <1>2, <1>3, <1>4, <1>5, <1>6, LedgerStep

\* The entries of a sweep's batch come from the index.
LEMMA BatchTyped ==
    ASSUME deadlines \in Seq(Receipts), NEW n \in DOMAIN deadlines
    PROVE  SubSeq(deadlines, 1, IF n < BatchSize THEN n ELSE BatchSize) \in Seq(Receipts)
<1>1. PICK m \in Nat : m = (IF n < BatchSize THEN n ELSE BatchSize)
  BY LenProperties, AmountAssumption
<1>2. n \in 1..Len(deadlines) /\ BatchSize \in Nat /\ Len(deadlines) \in Nat
  BY LenProperties, AmountAssumption
<1>3. m <= Len(deadlines)
  BY <1>1, <1>2
<1>4. \A i \in 1..m : deadlines[i] \in Receipts
  BY <1>2, <1>3, ElementOfSeq
<1>. QED
  BY <1>1, <1>4, SubSeqProperties

\* What a request remembers is typed as what it has read.
LEMMA RequestEdits ==
    ASSUME NEW x \in Requests, NEW p \in PromotionRecords, NEW acc \in AccountingRecords,
           NEW ent \in EntitlementRecords
    PROVE  /\ [x EXCEPT !.promo = p] \in Requests
           /\ \A pc \in RequestStates : /\ [x EXCEPT !.pc = pc] \in Requests
                                        /\ [x EXCEPT !.pc = pc, !.acc = acc] \in Requests
                                        /\ [x EXCEPT !.pc = pc, !.ent = ent] \in Requests
  BY DEF Requests

\* Steps of the operator and of a claim.
LEMMA ClaimTypeStep ==
    ASSUME LedgerInv, [Next]_vars
    PROVE  adm' \in [Admins -> PromotionRecords] /\ claim' \in [Claims -> Requests]
<1>0. /\ adm \in [Admins -> PromotionRecords] /\ claim \in [Claims -> Requests]
      /\ promotion \in PromotionRecords /\ accounting \in AccountingRecords
  BY DEF LedgerInv, TypeOK
<1>1. CASE UNCHANGED <<adm, claim>>
  BY <1>0, <1>1
<1>2. ASSUME NEW a \in Admins, AdminNext(a)
      PROVE  adm' \in [Admins -> PromotionRecords] /\ claim' = claim
  BY <1>0, <1>2, ConstantTypes
  DEF AdminNext, AdminRead, AdminWrite, AdminDelete, AdminConflict
<1>3. ASSUME NEW c \in Claims, ClaimNext(c)
      PROVE  adm' = adm /\ claim' \in [Claims -> Requests]
  <2>1. PICK x : claim' = [claim EXCEPT ![c] = x] /\ adm' = adm
                 /\ \/ x \in {Ended("refused"), Ended("corrupt"), Ended("ok")}
                    \/ x = [Ended("read") EXCEPT !.promo = promotion]
                    \/ x = [claim[c] EXCEPT !.pc = "apply", !.acc = accounting]
    BY <1>3 DEF ClaimNext, ClaimStart, ClaimRead, ClaimApply, ClaimRefused, ClaimGoto
  <2>2. x \in Requests
    <3>1. claim[c] \in Requests
      BY <1>0
    <3>2. /\ Ended("refused") \in Requests /\ Ended("corrupt") \in Requests
          /\ Ended("ok") \in Requests /\ Ended("read") \in Requests
      BY ConstantTypes DEF RequestStates
    <3>3. /\ [Ended("read") EXCEPT !.promo = promotion] \in Requests
          /\ [claim[c] EXCEPT !.pc = "apply", !.acc = accounting] \in Requests
      BY <1>0, <3>1, <3>2, ConstantTypes, RequestEdits DEF RequestStates
    <3>. QED
      BY <2>1, <3>2, <3>3
  <2>. QED
    BY <1>0, <2>1, <2>2
<1>. QED
  <2>1. ASSUME NEW r \in Receipts, ReceiptNext(r) PROVE UNCHANGED <<adm, claim>>
    BY <2>1 DEF ReceiptNext, ReserveStart, ReserveReadAccounting, ReserveReadEntitlement,
        ReserveReadActive, ReserveConfirm, ReserveApply, ReserveRefused, ReserveFails,
        Commit, Begin
  <2>2. ASSUME NEW f \in Finishers, FinNext(f) PROVE UNCHANGED <<adm, claim>>
    BY <2>2 DEF FinNext, FinStep, StartRelease, StartDiscard, StartFinalize, StartSweep,
        FinRead, FinCheck, FinPlan, FinRecheck, FinApply, FinRefused, FinDies
  <2>. QED
    BY <1>0, <1>1, <1>2, <1>3, <2>1, <2>2 DEF Next, vars

\* Steps of a prepare request.
LEMMA ReserveTypeStep ==
    ASSUME LedgerInv, [Next]_vars
    PROVE  req' \in [Receipts -> Requests]
<1>0. /\ req \in [Receipts -> Requests] /\ promotion \in PromotionRecords
      /\ accounting \in AccountingRecords /\ entitlement \in [Users -> EntitlementRecords]
  BY DEF LedgerInv, TypeOK
<1>1. ASSUME NEW r \in Receipts, ReceiptNext(r) PROVE req' \in [Receipts -> Requests]
  <2> DEFINE ent == entitlement[UserOf[r]]
  <2>0. ent \in EntitlementRecords /\ req[r] \in Requests
    BY <1>0, ConstantRanges
  <2>1. /\ \A pc \in RequestStates : Ended(pc) \in Requests
        /\ [Ended("accounting") EXCEPT !.promo = promotion] \in Requests
        /\ [req[r] EXCEPT !.pc = "entitlement", !.acc = accounting] \in Requests
        /\ [req[r] EXCEPT !.pc = "active", !.ent = ent] \in Requests
        /\ [req[r] EXCEPT !.pc = "apply", !.ent = ent] \in Requests
        /\ [req[r] EXCEPT !.pc = "confirm"] \in Requests
    BY <1>0, <2>0, ConstantTypes, RequestEdits DEF RequestStates
  <2>2. /\ Ended("refused") \in Requests /\ Ended("torn") \in Requests
        /\ Ended("executing") \in Requests /\ Ended("gone") \in Requests
        /\ Ended("concurrent") \in Requests /\ Ended("lost") \in Requests
        /\ Ended("ok") \in Requests
    BY <2>1 DEF RequestStates
  <2>3. CASE ReserveStart(r) \/ ReserveReadAccounting(r)
    BY <1>0, <2>1, <2>3 DEF ReserveStart, ReserveReadAccounting, ReqGoto
  <2>4. CASE ReserveReadEntitlement(r)
    <3>1. PICK x \in Requests : req' = [req EXCEPT ![r] = x]
      BY <2>1, <2>2, <2>4 DEF ReserveReadEntitlement, ReqGoto
    <3>. QED
      BY <1>0, <3>1
  <2>5. CASE ReserveReadActive(r)
    <3>1. PICK x \in Requests : req' = [req EXCEPT ![r] = x]
      BY <2>1, <2>2, <2>5 DEF ReserveReadActive, ReqGoto
    <3>. QED
      BY <1>0, <3>1
  <2>6. CASE ReserveConfirm(r)
    <3>1. PICK x \in Requests : req' = [req EXCEPT ![r] = x]
      BY <2>2, <2>6 DEF ReserveConfirm, ReqGoto
    <3>. QED
      BY <1>0, <3>1
  <2>7. CASE ReserveApply(r) \/ ReserveRefused(r) \/ ReserveFails(r)
    BY <1>0, <2>2, <2>7 DEF ReserveApply, ReserveRefused, ReserveFails, ReqGoto
  <2>8. CASE Commit(r) \/ Begin(r)
    BY <1>0, <2>8 DEF Commit, Begin
  <2>. QED
    BY <1>1, <2>3, <2>4, <2>5, <2>6, <2>7, <2>8 DEF ReceiptNext
<1>2. ASSUME NEW f \in Finishers, NEW r \in Receipts, StartRelease(f, r)
      PROVE  req' \in [Receipts -> Requests]
  <2>1. Ended("cleaned") \in Requests
    BY ConstantTypes DEF RequestStates
  <2>. QED
    BY <1>0, <1>2, <2>1 DEF StartRelease, ReqGoto
<1>. QED
  <2>1. ASSUME NEW a \in Admins, AdminNext(a) PROVE req' = req
    BY <2>1 DEF AdminNext, AdminRead, AdminWrite, AdminDelete, AdminConflict
  <2>2. ASSUME NEW c \in Claims, ClaimNext(c) PROVE req' = req
    BY <2>2 DEF ClaimNext, ClaimStart, ClaimRead, ClaimApply, ClaimRefused
  <2>3. ASSUME NEW f \in Finishers, FinNext(f)
        PROVE  req' = req \/ \E r \in Receipts : StartRelease(f, r)
    BY <2>3 DEF FinNext, FinStep, StartDiscard, StartFinalize, StartSweep,
        FinRead, FinCheck, FinPlan, FinRecheck, FinApply, FinRefused, FinDies
  <2>. QED
    BY <1>0, <1>1, <1>2, <2>1, <2>2, <2>3 DEF Next, vars

-----------------------------------------------------------------------------
(* What requests know stays true.                                           *)

\* A task that moves on without reading anything keeps what it knows.
LEMMA TaskMoves ==
    ASSUME NEW x \in Tasks, FinishKnows(x), x.pc \notin {"idle", "threw", "stale"},
           NEW pc \in {"check", "plan", "recheck"}
    PROVE  [x EXCEPT !.pc = pc] \in Tasks /\ FinishKnows([x EXCEPT !.pc = pc])
<1>1. PICK y : y = [x EXCEPT !.pc = pc]
  OBVIOUS
<1>2. /\ y \in Tasks /\ y.pc = pc /\ y.receipt = x.receipt /\ y.operation = x.operation
      /\ y.job = x.job /\ y.charge = x.charge
  BY <1>1 DEF Tasks
<1>3. FinishKnows(y)
  BY <1>2 DEF FinishKnows
<1>. QED
  BY <1>1, <1>2, <1>3

\* A step of a task leaves it typed and knowing: a task learns only what it has
\* just read.
LEMMA TaskGoes ==
    ASSUME LedgerInv, NEW f \in Finishers, FinNext(f)
    PROVE  \E x \in Tasks : FinishKnows(x) /\ fin' = [fin EXCEPT ![f] = x]
<1>0. /\ fin \in [Finishers -> Tasks] /\ fin[f] \in Tasks /\ FinishKnows(fin[f])
      /\ accounting \in AccountingRecords /\ deadlines \in Seq(Receipts)
      /\ entitlement \in [Users -> EntitlementRecords] /\ prepared \subseteq Receipts
  BY DEF LedgerInv, TypeOK, RequestsKnow
<1>1. /\ FinIdle \in Tasks /\ FinishKnows(FinIdle) /\ Stale \in Tasks /\ FinishKnows(Stale)
      /\ Threw \in Tasks /\ FinishKnows(Threw)
  BY ConstantTypes DEF FinishKnows, FinIdle, Stale, Threw
<1>2. NextOf(fin[f].batch) \in Tasks /\ FinishKnows(NextOf(fin[f].batch))
  BY <1>0, NextOfTyped DEF Tasks
<1>3. ASSUME NEW r \in Receipts, StartRelease(f, r) \/ StartDiscard(f, r) \/ StartFinalize(f, r)
      PROVE  \E x \in Tasks : FinishKnows(x) /\ fin' = [fin EXCEPT ![f] = x]
  <2> DEFINE Task(job, op, charge) ==
          [FinIdle EXCEPT !.pc = "read", !.job = job, !.receipt = r,
                          !.operation = op, !.charge = charge]
  <2>1. ASSUME NEW job \in {"release", "discard", "finalize"}, NEW op \in {"consume", "release"},
               NEW charge \in Charges \cup {0},
               op = "consume" => job = "finalize", op = "release" => charge = 0
        PROVE  Task(job, op, charge) \in Tasks /\ FinishKnows(Task(job, op, charge))
    <3>1. Task(job, op, charge) \in Tasks
      BY <1>1 DEF Tasks
    <3>2. FinishKnows(Task(job, op, charge))
      BY <2>1 DEF FinishKnows, FinIdle
    <3>. QED
      BY <3>1, <3>2
  <2>2. ASSUME NEW job
        PROVE  [FinIdle EXCEPT !.pc = "read", !.job = job, !.receipt = r,
                               !.operation = "release"] = Task(job, "release", 0)
    <3>1. FinIdle.charge = 0 /\ FinIdle = [FinIdle EXCEPT !.charge = 0]
      BY DEF FinIdle
    <3>. QED
      BY <3>1
  <2> HIDE DEF Task
  <2>3. CASE StartRelease(f, r)
    <3>1. fin' = [fin EXCEPT ![f] = Task("release", "release", 0)]
      BY <2>2, <2>3 DEF StartRelease, FinGoto
    <3>. QED
      BY <2>1, <3>1
  <2>4. CASE StartDiscard(f, r)
    <3>1. fin' = [fin EXCEPT ![f] = Task("discard", "release", 0)]
      BY <2>2, <2>4 DEF StartDiscard, FinGoto
    <3>. QED
      BY <2>1, <3>1
  <2>5. CASE StartFinalize(f, r)
    <3>1. PICK y \in {<<"release", 0>>} \cup {<<"consume", c>> : c \in Charges} :
             fin' = [fin EXCEPT ![f] = Task("finalize", y[1], y[2])]
      BY <2>5 DEF StartFinalize, FinGoto, Task
    <3>2. CASE y = <<"release", 0>>
      BY <2>1, <3>1, <3>2
    <3>3. ASSUME NEW c \in Charges, y = <<"consume", c>>
          PROVE  \E x \in Tasks : FinishKnows(x) /\ fin' = [fin EXCEPT ![f] = x]
      BY <2>1, <3>1, <3>3
    <3>. QED
      BY <3>1, <3>2, <3>3
  <2>. QED
    BY <1>3, <2>3, <2>4, <2>5
<1>4. ASSUME NEW n \in DOMAIN deadlines, StartSweep(f, n)
      PROVE  \E x \in Tasks : FinishKnows(x) /\ fin' = [fin EXCEPT ![f] = x]
  BY <1>0, <1>4, BatchTyped, NextOfTyped DEF StartSweep, FinGoto
<1>5. CASE FinRead(f) \/ FinCheck(f)
  <2>1. \/ \E x \in {FinIdle, Threw, Stale} : fin' = [fin EXCEPT ![f] = x]
        \/ /\ \E pc \in {"check", "plan"} : fin' = [fin EXCEPT ![f] = [fin[f] EXCEPT !.pc = pc]]
           /\ fin[f].pc \in {"read", "check"}
    BY <1>5 DEF FinRead, FinCheck, FinGoto
  <2>. QED
    BY <1>0, <1>1, <2>1, TaskMoves
<1>6. CASE FinPlan(f)
  <2> DEFINE r == fin[f].receipt
             ent == entitlement[UserOf[r]]
             y == [fin[f] EXCEPT !.pc = "apply", !.acc = accounting, !.ent = ent]
  <2>0. fin[f].pc = "plan" /\ r \in Receipts
    BY <1>0, <1>6 DEF FinPlan, FinishKnows
  <2>1. CASE ~ReservationFits(accounting, ent, r)
    <3>1. \/ fin' = [fin EXCEPT ![f] = [fin[f] EXCEPT !.pc = "recheck"]]
          \/ fin' = [fin EXCEPT ![f] = Stale]
      <4>1. CASE fin[f].job \in {"release", "sweep"}
        BY <1>6, <2>1, <4>1 DEF FinPlan, FinGoto
      <4>2. CASE fin[f].job \notin {"release", "sweep"}
        BY <1>6, <2>1, <4>2 DEF FinPlan, FinGoto
      <4>. QED
        BY <4>1, <4>2
    <3>. QED
      BY <1>0, <1>1, <2>0, <3>1, TaskMoves
  <2>2. CASE ReservationFits(accounting, ent, r) /\ ~WithinBound(accounting, ent, fin[f].charge)
    <3>1. fin' = [fin EXCEPT ![f] = Threw]
      BY <1>6, <2>2 DEF FinPlan, FinGoto
    <3>. QED
      BY <1>1, <3>1
  <2>3. y \in Tasks
    <3>1. ent \in EntitlementRecords
      BY <1>0, <2>0, ConstantRanges
    <3> HIDE DEF ent
    <3>. QED
      BY <1>0, <3>1 DEF Tasks
  <2>4. ASSUME ReservationFits(accounting, ent, r), WithinBound(accounting, ent, fin[f].charge)
        PROVE  FinishKnows(y)
    <3>1. /\ y.pc = "apply" /\ y.receipt = r /\ y.operation = fin[f].operation
          /\ y.job = fin[f].job /\ y.charge = fin[f].charge
          /\ y.acc = accounting /\ y.ent = ent
      BY <1>0 DEF Tasks
    <3> HIDE DEF y, ent
    <3>. QED
      BY <1>0, <2>0, <2>4, <3>1 DEF FinishKnows
  <2>5. CASE ReservationFits(accounting, ent, r) /\ WithinBound(accounting, ent, fin[f].charge)
    <3>1. fin' = [fin EXCEPT ![f] = y]
      BY <1>6, <2>5 DEF FinPlan, FinGoto
    <3>. QED
      BY <2>3, <2>4, <2>5, <3>1
  <2>. QED
    BY <2>1, <2>2, <2>5
<1>7. CASE FinRecheck(f) \/ FinApply(f) \/ FinRefused(f) \/ FinDies(f)
  BY <1>1, <1>2, <1>7 DEF FinRecheck, FinApply, FinRefused, FinDies, FinGoto
<1>. QED
  BY <1>3, <1>4, <1>5, <1>6, <1>7 DEF FinNext, FinStep

LEMMA TaskStep ==
    ASSUME LedgerInv, [Next]_vars
    PROVE  fin' \in [Finishers -> Tasks] /\ \A f \in Finishers : FinishKnows(fin'[f])
<1>0. fin \in [Finishers -> Tasks] /\ \A f \in Finishers : FinishKnows(fin[f])
  BY DEF LedgerInv, TypeOK, RequestsKnow
<1>1. ASSUME NEW f \in Finishers, FinNext(f)
      PROVE  fin' \in [Finishers -> Tasks] /\ \A g \in Finishers : FinishKnows(fin'[g])
  BY <1>0, <1>1, TaskGoes
<1>2. CASE fin' = fin
  BY <1>0, <1>2
<1>3. ASSUME NEW a \in Admins, AdminNext(a) PROVE fin' = fin
  BY <1>3 DEF AdminNext, AdminRead, AdminWrite, AdminDelete, AdminConflict
<1>4. ASSUME NEW c \in Claims, ClaimNext(c) PROVE fin' = fin
  BY <1>4 DEF ClaimNext, ClaimStart, ClaimRead, ClaimApply, ClaimRefused
<1>5. ASSUME NEW r \in Receipts, ReceiptNext(r) PROVE fin' = fin
  BY <1>5 DEF ReceiptNext, ReserveStart, ReserveReadAccounting, ReserveReadEntitlement,
      ReserveReadActive, ReserveConfirm, ReserveApply, ReserveRefused, ReserveFails,
      Commit, Begin
<1>. QED
  BY <1>1, <1>2, <1>3, <1>4, <1>5 DEF Next, vars

\* Every type is preserved.
LEMMA TypeStep ==
    ASSUME LedgerInv, [Next]_vars
    PROVE  TypeOK'
  BY RecordTypeStep, ClaimTypeStep, ReserveTypeStep, TaskStep DEF TypeOK, RecordsTyped

\* A claim that goes on does so with an active Promotion and a place left.
LEMMA ClaimStep ==
    ASSUME LedgerInv, [Next]_vars
    PROVE  \A c \in Claims : ClaimKnows(claim'[c])
<1>0. claim \in [Claims -> Requests] /\ \A c \in Claims : ClaimKnows(claim[c])
  BY DEF LedgerInv, TypeOK, RequestsKnow
<1>1. ASSUME NEW c \in Claims, ClaimNext(c)
      PROVE  \E x : ClaimKnows(x) /\ claim' = [claim EXCEPT ![c] = x]
  <2>0. claim[c] \in Requests /\ ClaimKnows(claim[c]) /\ accounting \in AccountingRecords
    BY <1>0 DEF LedgerInv, TypeOK
  <2>1. /\ ClaimKnows(Ended("ok")) /\ ClaimKnows(Ended("refused"))
        /\ ClaimKnows(Ended("corrupt"))
    BY DEF Ended, ClaimKnows
  <2>2. CASE ClaimStart(c)
    <3>1. promotion.status = "active" =>
             ClaimKnows([Ended("read") EXCEPT !.promo = promotion])
      BY DEF Ended, ClaimKnows
    <3>. QED
      BY <2>1, <2>2, <3>1 DEF ClaimStart, ClaimGoto
  <2>3. CASE ClaimRead(c)
    <3> DEFINE y == [claim[c] EXCEPT !.pc = "apply", !.acc = accounting]
    <3>1. claim[c].promo.status = "active" /\ claim[c].ent = NoEntitlement
      BY <2>0, <2>3 DEF ClaimRead, ClaimKnows
    <3>2. y.pc = "apply" /\ y.acc = accounting /\ y.promo = claim[c].promo
          /\ y.ent = claim[c].ent
      BY <2>0 DEF Requests
    <3> DEFINE ent == entitlement[ClaimantOf[c]]
               goes == /\ Readable(claim[c].promo, accounting, ent)
                       /\ ~(HasEntitlement(ent) \/ accounting.claimed >= Capacity)
    <3>3. CASE ~goes
      <4>1. \/ claim' = [claim EXCEPT ![c] = Ended("corrupt")]
            \/ claim' = [claim EXCEPT ![c] = Ended("refused")]
        <5>1. CASE ~Readable(claim[c].promo, accounting, ent)
          BY <2>3, <5>1 DEF ClaimRead, ClaimGoto
        <5>2. CASE Readable(claim[c].promo, accounting, ent)
          BY <2>3, <3>3, <5>2 DEF ClaimRead, ClaimGoto
        <5>. QED
          BY <5>1, <5>2
      <4>. QED
        BY <2>1, <4>1
    <3>4. CASE goes
      <4>1. claim' = [claim EXCEPT ![c] = y]
        BY <2>3, <3>4 DEF ClaimRead, ClaimGoto
      <4>2. /\ accounting.claimed < Capacity
            /\ HasAccounting(accounting) => accounting.allowance = claim[c].promo.allowance
        BY <2>0, <3>4, ConstantRanges DEF Readable, AccountingRecords
      <4> HIDE DEF y
      <4>3. ClaimKnows(y)
        BY <3>1, <3>2, <4>2 DEF ClaimKnows
      <4>. QED
        BY <4>1, <4>3
    <3>. QED
      BY <3>3, <3>4
  <2>4. CASE ClaimApply(c) \/ ClaimRefused(c)
    BY <2>1, <2>4 DEF ClaimApply, ClaimRefused, ClaimGoto
  <2>. QED
    BY <1>1, <2>2, <2>3, <2>4 DEF ClaimNext
<1>2. CASE claim' = claim
  BY <1>0, <1>2
<1>3. ASSUME NEW a \in Admins, AdminNext(a) PROVE claim' = claim
  BY <1>3 DEF AdminNext, AdminRead, AdminWrite, AdminDelete, AdminConflict
<1>4. ASSUME NEW r \in Receipts, ReceiptNext(r) PROVE claim' = claim
  BY <1>4 DEF ReceiptNext, ReserveStart, ReserveReadAccounting, ReserveReadEntitlement,
      ReserveReadActive, ReserveConfirm, ReserveApply, ReserveRefused, ReserveFails,
      Commit, Begin
<1>5. ASSUME NEW f \in Finishers, FinNext(f) PROVE claim' = claim
  BY <1>5 DEF FinNext, FinStep, StartRelease, StartDiscard, StartFinalize, StartSweep,
      FinRead, FinCheck, FinPlan, FinRecheck, FinApply, FinRefused, FinDies
<1>. QED
  BY <1>0, <1>1, <1>2, <1>3, <1>4, <1>5 DEF Next, vars

-----------------------------------------------------------------------------
(* A script writes over the records its request knows.                      *)

LEMMA ClaimFacts ==
    ASSUME LedgerInv, NEW c \in Claims, ClaimApply(c)
    PROVE  /\ ClaimantOf[c] \in Users /\ entitlement[ClaimantOf[c]] = NoEntitlement
           /\ promotion.status = "active" /\ accounting.claimed < Capacity
           /\ accounting'.claimed = accounting.claimed + 1
           /\ accounting'.allowance = promotion.allowance
           /\ HasAccounting(accounting) => accounting'.allowance = accounting.allowance
           /\ entitlement' = [entitlement EXCEPT ![ClaimantOf[c]] =
                 [NoEntitlement EXCEPT !.status = "active", !.remaining = promotion.allowance]]
<1>0. /\ ClaimantOf[c] \in Users /\ claim[c].pc = "apply" /\ ClaimKnows(claim[c])
      /\ promotion = claim[c].promo /\ accounting = claim[c].acc
      /\ entitlement[ClaimantOf[c]] = claim[c].ent
      /\ accounting \in AccountingRecords
  BY ConstantRanges
  DEF ClaimApply, ClaimMatches, Unchanged, LedgerInv, RequestsKnow, TypeOK
<1>1. /\ promotion.status = "active" /\ accounting.claimed < Capacity
      /\ entitlement[ClaimantOf[c]] = NoEntitlement
      /\ HasAccounting(accounting) => accounting.allowance = promotion.allowance
  BY <1>0 DEF ClaimKnows
<1>2. PICK acc : /\ acc = IF HasAccounting(accounting) THEN accounting
                          ELSE FreshAccounting(promotion)
                 /\ accounting' = [acc EXCEPT !.claimed = @ + 1]
                 /\ entitlement' = [entitlement EXCEPT ![ClaimantOf[c]] =
                       [NoEntitlement EXCEPT !.status = "active", !.remaining = acc.allowance]]
  BY <1>0 DEF ClaimApply
<1>3. CASE HasAccounting(accounting)
  <2>1. acc = accounting /\ acc.allowance = promotion.allowance
    BY <1>1, <1>2, <1>3
  <2>2. /\ accounting'.claimed = accounting.claimed + 1
        /\ accounting'.allowance = accounting.allowance
    BY <1>0, <1>2, <2>1 DEF AccountingRecords
  <2>. QED
    BY <1>0, <1>1, <1>2, <2>1, <2>2
<1>4. CASE ~HasAccounting(accounting)
  <2>1. accounting.claimed = 0
    BY <1>0, <1>4 DEF HasAccounting, AccountingRecords
  <2>2. acc.claimed = 0 /\ acc.allowance = promotion.allowance
        /\ accounting'.claimed = 1 /\ accounting'.allowance = acc.allowance
    BY <1>2, <1>4 DEF FreshAccounting
  <2>3. entitlement' = [entitlement EXCEPT ![ClaimantOf[c]] =
            [NoEntitlement EXCEPT !.status = "active", !.remaining = promotion.allowance]]
    BY <1>2, <2>2
  <2>4. /\ accounting'.claimed = accounting.claimed + 1
        /\ accounting'.allowance = promotion.allowance
    BY <2>1, <2>2
  <2>. QED
    BY <1>0, <1>1, <1>4, <2>3, <2>4
<1>. QED
  BY <1>3, <1>4

LEMMA ReserveFacts ==
    ASSUME LedgerInv, NEW r \in Receipts, ReserveApply(r)
    PROVE  /\ UserOf[r] \in Users /\ reservation[r] = "none" /\ result[r] = NoResult
           /\ entitlement[UserOf[r]].active = NoReceipt
           /\ entitlement[UserOf[r]].status = "active"
           /\ entitlement[UserOf[r]] \in EntitlementRecords
           /\ entitlement[UserOf[r]].remaining >= AmountOf[r]
           /\ entitlement' = [entitlement EXCEPT ![UserOf[r]] =
                 [entitlement[UserOf[r]] EXCEPT !.remaining = @ - AmountOf[r], !.active = r]]
           /\ accounting'.claimed = accounting.claimed
           /\ accounting'.allowance = accounting.allowance
           /\ promotion.status = "active" => accounting.available >= AmountOf[r]
<1>0. /\ UserOf[r] \in Users /\ AmountOf[r] \in Nat /\ req[r].pc = "apply" /\ ReserveKnows(r)
      /\ accounting = req[r].acc /\ entitlement[UserOf[r]] = req[r].ent
      /\ accounting \in AccountingRecords /\ entitlement \in [Users -> EntitlementRecords]
  BY ConstantRanges
  DEF ReserveApply, ReserveMatches, Unchanged, LedgerInv, RequestsKnow, TypeOK
<1>1. /\ reservation[r] = "none" /\ result[r] = NoResult
      /\ entitlement[UserOf[r]].active = NoReceipt
      /\ ~CannotReserve(accounting, entitlement[UserOf[r]], r)
  BY <1>0 DEF ReserveKnows, BeforeReserve, Outstanding
<1>2. /\ entitlement[UserOf[r]].status = "active"
      /\ entitlement[UserOf[r]].remaining >= AmountOf[r]
      /\ accounting.available >= AmountOf[r]
  BY <1>0, <1>1 DEF CannotReserve, AccountingRecords, EntitlementRecords
<1>3. /\ accounting'.claimed = accounting.claimed
      /\ accounting'.allowance = accounting.allowance
  BY <1>0 DEF ReserveApply, AccountingRecords
<1>4. entitlement' = [entitlement EXCEPT ![UserOf[r]] =
          [entitlement[UserOf[r]] EXCEPT !.remaining = @ - AmountOf[r], !.active = r]]
  BY <1>0 DEF ReserveApply
<1>. QED
  BY <1>0, <1>1, <1>2, <1>3, <1>4

LEMMA FinishFacts ==
    ASSUME LedgerInv, NEW f \in Finishers, FinApply(f)
    PROVE  /\ fin[f].receipt \in Receipts /\ UserOf[fin[f].receipt] \in Users
           /\ fin[f].charge \in Nat
           /\ fin[f].operation \in {"consume", "release"}
           /\ fin[f].operation = "consume" => fin[f].job = "finalize"
           /\ fin[f].operation = "release" => fin[f].charge = 0
           /\ reservation[fin[f].receipt] # "none" /\ StageMatches(f)
           /\ entitlement[UserOf[fin[f].receipt]] \in EntitlementRecords
           /\ entitlement[UserOf[fin[f].receipt]].active = fin[f].receipt
           /\ entitlement[UserOf[fin[f].receipt]].status = "active"
           /\ entitlement' = [entitlement EXCEPT ![UserOf[fin[f].receipt]] =
                 EntitlementAfter(@, AmountOf[fin[f].receipt], fin[f].charge)]
           /\ accounting'.claimed = accounting.claimed
           /\ accounting'.allowance = accounting.allowance
<1> DEFINE r == fin[f].receipt
           x == fin[f]
<1>0. /\ x \in Tasks /\ FinishKnows(x) /\ x.pc = "apply" /\ StageMatches(f)
      /\ accounting = x.acc /\ entitlement[UserOf[r]] = x.ent
      /\ accounting \in AccountingRecords /\ entitlement \in [Users -> EntitlementRecords]
  BY DEF FinApply, FinMatches, Unchanged, LedgerInv, RequestsKnow, TypeOK
<1>1. /\ r \in Receipts /\ x.operation \in {"consume", "release"}
      /\ x.operation = "consume" => x.job = "finalize"
      /\ x.operation = "release" => x.charge = 0
      /\ ReservationFits(x.acc, x.ent, r)
  BY <1>0 DEF FinishKnows
<1>2. x.charge \in Charges \cup {0}
  BY <1>0 DEF Tasks
<1>3. UserOf[r] \in Users /\ x.charge \in Nat
  BY <1>1, <1>2, ConstantRanges
<1>4. x.ent.active = r /\ x.ent.status = "active"
  BY <1>1 DEF ReservationFits
<1>5. reservation[r] # "none"
  BY <1>0 DEF StageMatches
<1>6. /\ accounting'.claimed = accounting.claimed
      /\ accounting'.allowance = accounting.allowance
  BY <1>0 DEF FinApply, AccountingAfter, AccountingRecords
<1>7. entitlement' = [entitlement EXCEPT ![UserOf[r]] =
          EntitlementAfter(entitlement[UserOf[r]], AmountOf[r], x.charge)]
  BY <1>0 DEF FinApply
<1>. QED
  BY <1>0, <1>1, <1>3, <1>4, <1>5, <1>6, <1>7

-----------------------------------------------------------------------------
(* The parts of the invariant.                                              *)

LEMMA ReserveKnowsStep ==
    ASSUME LedgerInv, [Next]_vars, NEW r \in Receipts
    PROVE  ReserveKnows(r)'
<1>0. ReserveKnows(r) /\ req \in [Receipts -> Requests]
  BY DEF LedgerInv, RequestsKnow, TypeOK
<1>1. CASE reservation' = reservation /\ result' = result /\ req' = req
  BY <1>0, <1>1 DEF ReserveKnows, Outstanding
<1>2. ASSUME NEW q \in Receipts, ReceiptNext(q) PROVE ReserveKnows(r)'
  <2>1. CASE q # r
    <3>1. req'[r] = req[r]
      <4>1. req' = req \/ \E x : req' = [req EXCEPT ![q] = x]
        BY <1>2
        DEF ReceiptNext, ReserveStart, ReserveReadAccounting, ReserveReadEntitlement,
            ReserveReadActive, ReserveConfirm, ReserveApply, ReserveRefused, ReserveFails,
            Commit, Begin, ReqGoto
      <4>. QED
        BY <1>0, <2>1, <4>1
    <3>2. reservation'[r] = reservation[r] /\ result'[r] = result[r]
      <4>1. /\ result' = result
            /\ reservation' = reservation \/ \E x : reservation' = [reservation EXCEPT ![q] = x]
        BY <1>2
        DEF ReceiptNext, ReserveStart, ReserveReadAccounting, ReserveReadEntitlement,
            ReserveReadActive, ReserveConfirm, ReserveApply, ReserveRefused, ReserveFails,
            Commit, Begin, recordVars
      <4>. QED
        BY <2>1, <4>1 DEF LedgerInv, TypeOK
    <3>. QED
      BY <1>0, <3>1, <3>2 DEF ReserveKnows, Outstanding
  <2>2. CASE q = r /\ (ReserveStart(r) \/ ReserveReadAccounting(r) \/ ReserveReadActive(r)
                        \/ ReserveConfirm(r) \/ ReserveRefused(r) \/ ReserveFails(r))
    <3>1. reservation' = reservation /\ result' = result
      BY <2>2
      DEF ReserveStart, ReserveReadAccounting, ReserveReadActive, ReserveConfirm,
          ReserveRefused, ReserveFails, recordVars
    <3>2. \/ /\ req[r].pc \in BeforeReserve
             /\ req'[r].pc \in {"accounting", "entitlement", "confirm"}
          \/ req'[r].pc \in RequestStates \ BeforeReserve
      <4>1. \A pc : Ended(pc).pc = pc
        BY DEF Ended
      <4>2. CASE ReserveStart(r) \/ ReserveReadAccounting(r)
        BY <1>0, <4>1, <4>2, ZenonT(60)
        DEF ReserveStart, ReserveReadAccounting, ReqGoto, BeforeReserve, Requests, Ended
      <4>3. CASE ReserveReadActive(r)
        <5>1. \/ \E pc \in {"executing", "gone"} : req' = [req EXCEPT ![r] = Ended(pc)]
              \/ req' = [req EXCEPT ![r] = [req[r] EXCEPT !.pc = "confirm"]]
          BY <4>3 DEF ReserveReadActive, ReqGoto
        <5>. QED
          BY <1>0, <4>1, <4>3, <5>1
          DEF ReserveReadActive, BeforeReserve, Requests, RequestStates
      <4>4. CASE ReserveConfirm(r) \/ ReserveRefused(r) \/ ReserveFails(r)
        <5>1. \E pc \in {"refused", "concurrent", "executing", "lost"} :
                 req' = [req EXCEPT ![r] = Ended(pc)]
          BY <4>4 DEF ReserveConfirm, ReserveRefused, ReserveFails, ReqGoto
        <5>. QED
          BY <1>0, <4>1, <5>1 DEF BeforeReserve, RequestStates
      <4>. QED
        BY <2>2, <4>2, <4>3, <4>4
    <3>. QED
      BY <1>0, <3>1, <3>2 DEF ReserveKnows, Outstanding, BeforeReserve
  <2>3. CASE q = r /\ ReserveReadEntitlement(r)
    <3> DEFINE ent == entitlement[UserOf[r]]
               y == [req[r] EXCEPT !.pc = "apply", !.ent = ent]
    <3>1. reservation' = reservation /\ result' = result /\ req[r].pc \in BeforeReserve
      BY <2>3 DEF ReserveReadEntitlement, recordVars, BeforeReserve
    <3>2. \/ req'[r].pc # "apply"
          \/ req'[r] = y /\ ent.active = NoReceipt /\ ~CannotReserve(req[r].acc, ent, r)
      BY <1>0, <2>3 DEF ReserveReadEntitlement, ReqGoto, Ended, Requests
    <3>3. y.acc = req[r].acc /\ y.ent = ent
      BY <1>0 DEF Requests
    <3> HIDE DEF y
    <3>. QED
      BY <1>0, <3>1, <3>2, <3>3 DEF ReserveKnows, Outstanding
  <2>4. CASE q = r /\ ReserveApply(r)
    BY <1>0, <2>4 DEF ReserveApply, ReqGoto, Ended, ReserveKnows, BeforeReserve
  <2>5. CASE q = r /\ (Commit(r) \/ Begin(r))
    BY <1>0, <2>5 DEF Commit, Begin, recordVars, ReserveKnows, Outstanding
  <2>. QED
    BY <1>2, <2>1, <2>2, <2>3, <2>4, <2>5 DEF ReceiptNext
<1>3. ASSUME NEW f \in Finishers, FinNext(f) PROVE ReserveKnows(r)'
  <2>1. CASE FinApply(f)
    <3>1. req' = req
      BY <2>1 DEF FinApply
    <3>2. CASE r = fin[f].receipt
      BY <1>0, <2>1, <3>1, <3>2, FinishFacts DEF ReserveKnows, Outstanding, BeforeReserve
    <3>3. CASE r # fin[f].receipt
      BY <1>0, <2>1, <3>1, <3>3 DEF ReserveKnows, Outstanding, FinApply, LedgerInv, TypeOK
    <3>. QED
      BY <3>2, <3>3
  <2>2. ASSUME NEW q \in Receipts, StartRelease(f, q) PROVE ReserveKnows(r)'
    BY <1>0, <2>2 DEF StartRelease, ReqGoto, Ended, recordVars, ReserveKnows, Outstanding,
                      BeforeReserve
  <2>. QED
    BY <1>1, <1>3, <2>1, <2>2
    DEF FinNext, FinStep, StartDiscard, StartFinalize, StartSweep, FinRead, FinCheck,
        FinPlan, FinRecheck, FinRefused, FinDies, recordVars
<1>4. ASSUME NEW a \in Admins, AdminNext(a) PROVE ReserveKnows(r)'
  BY <1>1, <1>4 DEF AdminNext, AdminRead, AdminWrite, AdminDelete, AdminConflict, recordVars
<1>5. ASSUME NEW c \in Claims, ClaimNext(c) PROVE ReserveKnows(r)'
  BY <1>1, <1>5 DEF ClaimNext, ClaimStart, ClaimRead, ClaimApply, ClaimRefused, recordVars
<1>. QED
  BY <1>1, <1>2, <1>3, <1>4, <1>5 DEF Next, vars, recordVars

LEMMA OneReservationStep ==
    ASSUME LedgerInv, [Next]_vars
    PROVE  OneReservationPerUser'
<1>0. /\ OneReservationPerUser /\ entitlement \in [Users -> EntitlementRecords]
      /\ reservation \in [Receipts -> {"none", "reserved", "executing"}]
      /\ \A u \in Users : entitlement[u].active \in Receipts \cup {NoReceipt}
  BY DEF LedgerInv, TypeOK, EntitlementRecords
<1>1. CASE UNCHANGED <<promotion, recordVars, prepared>>
  BY <1>0, <1>1 DEF OneReservationPerUser, Outstanding, recordVars
<1>2. ASSUME NEW a \in Admins, AdminWrite(a) \/ AdminDelete(a) PROVE OneReservationPerUser'
  BY <1>0, <1>2 DEF AdminWrite, AdminDelete, OneReservationPerUser, Outstanding, recordVars
<1>3. ASSUME NEW c \in Claims, ClaimApply(c) PROVE OneReservationPerUser'
  <2>1. \A u \in Users : entitlement'[u].active = entitlement[u].active
    <3>1. /\ ClaimantOf[c] \in Users /\ entitlement[ClaimantOf[c]] = NoEntitlement
          /\ entitlement' = [entitlement EXCEPT ![ClaimantOf[c]] =
                [NoEntitlement EXCEPT !.status = "active", !.remaining = promotion.allowance]]
      BY <1>3, ClaimFacts
    <3>2. [NoEntitlement EXCEPT !.status = "active", !.remaining = promotion.allowance].active
            = NoEntitlement.active
      BY DEF NoEntitlement
    <3>. QED
      BY <1>0, <3>1, <3>2
  <2>2. reservation' = reservation
    BY <1>3 DEF ClaimApply
  <2>. QED
    BY <1>0, <2>1, <2>2, ConstantRanges DEF OneReservationPerUser, Outstanding
<1>4. ASSUME NEW r \in Receipts, ReserveApply(r) PROVE OneReservationPerUser'
  <2>1. \A u \in Users :
           entitlement'[u].active = IF u = UserOf[r] THEN r ELSE entitlement[u].active
    <3>1. /\ UserOf[r] \in Users /\ entitlement[UserOf[r]] \in EntitlementRecords
          /\ entitlement' = [entitlement EXCEPT ![UserOf[r]] =
                [entitlement[UserOf[r]] EXCEPT !.remaining = @ - AmountOf[r], !.active = r]]
      BY <1>4, ReserveFacts
    <3>2. [entitlement[UserOf[r]] EXCEPT !.remaining = @ - AmountOf[r], !.active = r].active = r
      BY <3>1 DEF EntitlementRecords
    <3>. QED
      BY <1>0, <3>1, <3>2
  <2>2. \A q \in Receipts :
           reservation'[q] = IF q = r THEN "reserved" ELSE reservation[q]
    BY <1>0, <1>4 DEF ReserveApply
  <2>3. \A q \in Receipts : UserOf[q] = UserOf[r] => ~Outstanding(q)
    <3>1. entitlement[UserOf[r]].active = NoReceipt
      BY <1>4, ReserveFacts
    <3>. QED
      BY <1>0, <3>1, IdentityAssumption DEF OneReservationPerUser
  <2>4. UserOf[r] \in Users /\ r # NoReceipt /\ \A q \in Receipts : UserOf[q] \in Users
    BY ConstantRanges, IdentityAssumption
  <2>. QED
    BY <1>0, <2>1, <2>2, <2>3, <2>4 DEF OneReservationPerUser, Outstanding
<1>5. ASSUME NEW r \in Receipts, Commit(r) \/ Begin(r) PROVE OneReservationPerUser'
  <2>1. entitlement' = entitlement
    BY <1>5 DEF Commit, Begin, recordVars
  <2>2. Outstanding(r) /\ Outstanding(r)'
    BY <1>0, <1>5 DEF Commit, Begin, recordVars, Outstanding
  <2>3. \A q \in Receipts : q # r => reservation'[q] = reservation[q]
    BY <1>0, <1>5 DEF Commit, Begin, recordVars
  <2>. QED
    BY <1>0, <2>1, <2>2, <2>3 DEF OneReservationPerUser, Outstanding
<1>6. ASSUME NEW f \in Finishers, FinApply(f) PROVE OneReservationPerUser'
  <2> DEFINE r == fin[f].receipt
  <2>0. r \in Receipts /\ UserOf[r] \in Users /\ entitlement[UserOf[r]].active = r
    BY <1>6, FinishFacts
  <2> HIDE DEF r
  <2>1. \A u \in Users :
           entitlement'[u].active = IF u = UserOf[r] THEN NoReceipt ELSE entitlement[u].active
    <3>1. /\ entitlement[UserOf[r]] \in EntitlementRecords
          /\ entitlement' = [entitlement EXCEPT ![UserOf[r]] =
                EntitlementAfter(entitlement[UserOf[r]], AmountOf[r], fin[f].charge)]
      BY <1>6, FinishFacts DEF r
    <3>2. EntitlementAfter(entitlement[UserOf[r]], AmountOf[r], fin[f].charge).active = NoReceipt
      BY <3>1 DEF EntitlementAfter, EntitlementRecords
    <3>. QED
      BY <1>0, <2>0, <3>1, <3>2
  <2>2. \A q \in Receipts : reservation'[q] = IF q = r THEN "none" ELSE reservation[q]
    BY <1>0, <1>6 DEF FinApply, r
  <2>3. NoReceipt \notin Receipts /\ \A q \in Receipts : UserOf[q] \in Users
    BY ConstantRanges, IdentityAssumption
  <2>. QED
    BY <1>0, <2>0, <2>1, <2>2, <2>3 DEF OneReservationPerUser, Outstanding
<1>. QED
  BY <1>1, <1>2, <1>3, <1>4, <1>5, <1>6, LedgerStep

LEMMA KeepsReservationStep ==
    ASSUME LedgerInv, [Next]_vars
    PROVE  ReceiptKeepsReservation'
<1>0. /\ ReceiptKeepsReservation /\ deadlines \in Seq(Receipts) /\ prepared \subseteq Receipts
      /\ reservation \in [Receipts -> {"none", "reserved", "executing"}]
      /\ result \in [Receipts -> ResultRecords]
  BY DEF LedgerInv, TypeOK
<1>1. CASE UNCHANGED <<reservation, deadlines, result, prepared>>
  BY <1>0, <1>1 DEF ReceiptKeepsReservation, Outstanding
<1>2. ASSUME NEW a \in Admins, AdminWrite(a) \/ AdminDelete(a) PROVE ReceiptKeepsReservation'
  BY <1>1, <1>2 DEF AdminWrite, AdminDelete, recordVars
<1>3. ASSUME NEW c \in Claims, ClaimApply(c) PROVE ReceiptKeepsReservation'
  BY <1>1, <1>3 DEF ClaimApply
<1>4. ASSUME NEW r \in Receipts, ReserveApply(r) PROVE ReceiptKeepsReservation'
  <2>1. reservation[r] = "none" /\ result[r] = NoResult
    BY <1>4, ReserveFacts
  <2>2. r \notin prepared /\ r \notin ToSet(deadlines)
    BY <1>0, <2>1 DEF ReceiptKeepsReservation
  <2>3. ToSet(deadlines') = ToSet(deadlines) \cup {r} /\ IsInjective(deadlines')
    BY <1>0, <1>4, <2>2, AppendDeadline DEF ReserveApply, ReceiptKeepsReservation
  <2>4. /\ \A q \in Receipts :
             reservation'[q] = IF q = r THEN "reserved" ELSE reservation[q]
        /\ result' = result /\ prepared' = prepared
    BY <1>0, <1>4 DEF ReserveApply
  <2>. QED
    BY <1>0, <2>1, <2>2, <2>3, <2>4 DEF ReceiptKeepsReservation, Outstanding
<1>5. ASSUME NEW r \in Receipts, Commit(r) PROVE ReceiptKeepsReservation'
  BY <1>0, <1>5 DEF Commit, recordVars, ReceiptKeepsReservation, Outstanding
<1>6. ASSUME NEW r \in Receipts, Begin(r) PROVE ReceiptKeepsReservation'
  <2>1. ToSet(deadlines') = ToSet(deadlines) \ {r} /\ IsInjective(deadlines')
    BY <1>0, <1>6, WithoutDeadlineRemoves DEF Begin, IndexAfterBegin, ReceiptKeepsReservation
  <2>2. /\ \A q \in Receipts :
             reservation'[q] = IF q = r THEN "executing" ELSE reservation[q]
        /\ result' = result /\ prepared' = prepared \ {r} /\ reservation[r] = "reserved"
    BY <1>0, <1>6 DEF Begin
  <2>. QED
    BY <1>0, <2>1, <2>2 DEF ReceiptKeepsReservation, Outstanding
<1>7. ASSUME NEW f \in Finishers, FinApply(f) PROVE ReceiptKeepsReservation'
  <2> DEFINE r == fin[f].receipt
  <2>0. r \in Receipts /\ StageMatches(f)
    BY <1>7, FinishFacts
  <2>1. ToSet(deadlines') = ToSet(deadlines) \ {r} /\ IsInjective(deadlines')
    BY <1>0, <1>7, <2>0, WithoutDeadlineRemoves DEF FinApply, ReceiptKeepsReservation
  <2>2. /\ \A q \in Receipts : reservation'[q] = IF q = r THEN "none" ELSE reservation[q]
        /\ \A q \in Receipts : q # r => result'[q] = result[q]
    BY <1>0, <1>7 DEF FinApply
  <2>3. prepared' \subseteq prepared /\ r \notin prepared'
    <3>1. CASE fin[f].job = "discard"
      BY <1>7, <3>1 DEF FinApply
    <3>2. CASE fin[f].job # "discard"
      BY <1>0, <1>7, <2>0, <3>2 DEF FinApply, StageMatches, ReceiptKeepsReservation
    <3>. QED
      BY <3>1, <3>2
  <2> HIDE DEF r
  <2>. QED
    BY <1>0, <2>0, <2>1, <2>2, <2>3 DEF ReceiptKeepsReservation, Outstanding
<1>. QED
  BY <1>1, <1>2, <1>3, <1>4, <1>5, <1>6, <1>7, LedgerStep DEF recordVars

\* Claims and reservations do not change the economics, and nobody else touches
\* the accounting.
LEMMA EconomicsStep ==
    ASSUME LedgerInv, [Next]_vars
    PROVE  EconomicsFrozen' /\ \A u \in Users : HasEntitlement(entitlement[u])' => HasAccounting(accounting)'
<1> DEFINE P == EconomicsFrozen'
                /\ \A u \in Users : HasEntitlement(entitlement[u])' => HasAccounting(accounting)'
<1>0. /\ EconomicsFrozen
      /\ \A u \in Users : HasEntitlement(entitlement[u]) => HasAccounting(accounting)
      /\ promotion \in PromotionRecords /\ accounting \in AccountingRecords
      /\ entitlement \in [Users -> EntitlementRecords]
  BY DEF LedgerInv, TypeOK, Claimed
<1>1. CASE UNCHANGED <<promotion, accounting, entitlement>>
  BY <1>0, <1>1 DEF EconomicsFrozen, HasAccounting, HasEntitlement
<1>2. ASSUME NEW a \in Admins, AdminWrite(a) \/ AdminDelete(a) PROVE P
  <2>1. UNCHANGED <<accounting, entitlement>> /\ promotion = adm[a]
    BY <1>2 DEF AdminWrite, AdminDelete, StillCurrent, recordVars
  <2>2. CASE ~HasAccounting(accounting)
    BY <1>0, <2>1, <2>2 DEF EconomicsFrozen, HasAccounting, HasEntitlement
  <2>3. CASE HasAccounting(accounting)
    <3>1. promotion.status \notin {"none", "draft"} /\ promotion.allowance = accounting.allowance
      BY <1>0, <2>3 DEF EconomicsFrozen
    <3>2. promotion' \in Updated(promotion) \cup Transitioned(promotion)
      BY <1>2, <2>1, <2>3, <3>1 DEF AdminWrite, AdminDelete
    <3>3. /\ \A p \in Updated(promotion) :
               p.status = promotion.status /\ p.allowance = promotion.allowance
          /\ \A p \in Transitioned(promotion) :
               p.status \in ValidTransitions[promotion.status] /\ p.allowance = promotion.allowance
      BY <1>0, <3>1 DEF Updated, Transitioned, PromotionRecords
    <3>4. ValidTransitions[promotion.status] \subseteq {"active", "paused", "archived"}
      BY <1>0 DEF ValidTransitions, PromotionRecords
    <3>5. promotion'.status \notin {"none", "draft"} /\ promotion'.allowance = promotion.allowance
      BY <3>1, <3>2, <3>3, <3>4
    <3>. QED
      BY <1>0, <2>1, <2>3, <3>1, <3>5 DEF EconomicsFrozen, HasAccounting, HasEntitlement
  <2>. QED
    BY <2>2, <2>3
<1>3. ASSUME NEW c \in Claims, ClaimApply(c) PROVE P
  <2>0. /\ promotion.status = "active" /\ accounting'.allowance = promotion.allowance
        /\ accounting'.claimed = accounting.claimed + 1
    BY <1>3, ClaimFacts
  <2>1. promotion' = promotion /\ accounting'.claimed > 0
    BY <1>0, <1>3, <2>0 DEF ClaimApply, AccountingRecords
  <2>. QED
    BY <2>0, <2>1 DEF EconomicsFrozen, HasAccounting
<1>4. ASSUME NEW r \in Receipts, ReserveApply(r) PROVE P
  <2>1. /\ promotion' = promotion /\ accounting'.allowance = accounting.allowance
        /\ accounting'.claimed = accounting.claimed
    BY <1>4, ReserveFacts DEF ReserveApply
  <2>2. \A u \in Users : entitlement'[u].status = entitlement[u].status
    <3>1. /\ UserOf[r] \in Users /\ entitlement[UserOf[r]] \in EntitlementRecords
          /\ entitlement' = [entitlement EXCEPT ![UserOf[r]] =
                [entitlement[UserOf[r]] EXCEPT !.remaining = @ - AmountOf[r], !.active = r]]
      BY <1>4, ReserveFacts
    <3>2. [entitlement[UserOf[r]] EXCEPT !.remaining = @ - AmountOf[r], !.active = r].status
            = entitlement[UserOf[r]].status
      BY <3>1 DEF EntitlementRecords
    <3>. QED
      BY <1>0, <3>1, <3>2
  <2>. QED
    BY <1>0, <2>1, <2>2 DEF EconomicsFrozen, HasAccounting, HasEntitlement
<1>5. ASSUME NEW r \in Receipts, Commit(r) \/ Begin(r) PROVE P
  BY <1>1, <1>5 DEF Commit, Begin, recordVars
<1>6. ASSUME NEW f \in Finishers, FinApply(f) PROVE P
  <2>1. /\ promotion' = promotion /\ accounting'.allowance = accounting.allowance
        /\ accounting'.claimed = accounting.claimed
    BY <1>6, FinishFacts DEF FinApply
  <2>2. HasEntitlement(entitlement[UserOf[fin[f].receipt]]) /\ UserOf[fin[f].receipt] \in Users
    BY <1>6, FinishFacts DEF HasEntitlement
  <2>3. HasAccounting(accounting)
    BY <1>0, <2>2
  <2>. QED
    BY <1>0, <2>1, <2>3 DEF EconomicsFrozen, HasAccounting
<1>. QED
  <2>1. CASE UNCHANGED <<promotion, recordVars, prepared>>
    BY <1>1, <2>1 DEF recordVars
  <2>. QED
    BY <1>2, <1>3, <1>4, <1>5, <1>6, <2>1, LedgerStep

-----------------------------------------------------------------------------
(* The invariant.                                                           *)

LEMMA InitLedgerInv == Init => LedgerInv
<1> SUFFICES ASSUME Init PROVE LedgerInv
  OBVIOUS
<1>1. TypeOK
  <2>1. promotion \in PromotionRecords
    BY DEF Init, PromotionRecords
  <2>2. \A pc \in {"idle"} : Ended(pc) \in Requests
    BY ConstantTypes DEF RequestStates
  <2>. QED
    BY <2>1, <2>2, ConstantTypes, EmptySeq DEF Init, TypeOK
<1>2. /\ \A u \in Users : entitlement[u] = NoEntitlement
      /\ \A r \in Receipts : reservation[r] = "none" /\ result[r] = NoResult
      /\ accounting.claimed = 0 /\ prepared = {}
  BY DEF Init, NoAccounting
<1>3. OneReservationPerUser
  BY <1>2 DEF OneReservationPerUser, Outstanding, NoEntitlement
<1>4. ReceiptKeepsReservation
  <2>1. ToSet(<<>>) = {} /\ IsInjective(<<>>)
    BY DEF ToSet, IsInjective
  <2>. QED
    BY <1>2, <2>1 DEF Init, ReceiptKeepsReservation, Outstanding
<1>5. EconomicsFrozen /\ \A u \in Claimed : HasAccounting(accounting)
  BY <1>2 DEF EconomicsFrozen, HasAccounting, Claimed, HasEntitlement, NoEntitlement
<1>6. RequestsKnow
  <2>1. \A c \in Claims : ClaimKnows(claim[c])
    BY DEF Init, ClaimKnows, Ended
  <2>2. \A r \in Receipts : ReserveKnows(r)
    BY <1>2 DEF Init, ReserveKnows, Ended, Outstanding
  <2>3. \A f \in Finishers : FinishKnows(fin[f])
    BY DEF Init, FinishKnows, FinIdle
  <2>. QED
    BY <2>1, <2>2, <2>3 DEF RequestsKnow
<1>. QED
  BY <1>1, <1>3, <1>4, <1>5, <1>6 DEF LedgerInv

LEMMA LedgerInvStep == LedgerInv /\ [Next]_vars => LedgerInv'
<1> SUFFICES ASSUME LedgerInv, [Next]_vars PROVE LedgerInv'
  OBVIOUS
<1>1. RequestsKnow'
  <2>1. \A c \in Claims : ClaimKnows(claim[c])'
    BY ClaimStep DEF ClaimKnows
  <2>2. \A f \in Finishers : FinishKnows(fin[f])'
    BY TaskStep DEF FinishKnows
  <2>3. \A r \in Receipts : ReserveKnows(r)'
    BY ReserveKnowsStep
  <2>. QED
    BY <2>1, <2>2, <2>3 DEF RequestsKnow
<1>2. (\A u \in Claimed : HasAccounting(accounting))'
  BY EconomicsStep DEF Claimed
<1>. QED
  BY <1>1, <1>2, TypeStep, OneReservationStep, KeepsReservationStep, EconomicsStep DEF LedgerInv

\* The inductive invariant holds in every reachable state, for every number of
\* users, receipts, requests and tasks.
THEOREM LedgerInvariant == Spec => []LedgerInv
  BY InitLedgerInv, LedgerInvStep, PTL DEF Spec
=============================================================================
