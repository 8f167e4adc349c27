--------------------------- MODULE PromotionLedger ---------------------------
(***************************************************************************)
(* The budget of one Promotion: its record, which an operator edits, its   *)
(* accounting record, the entitlement of every user who claimed it, and    *)
(* the reservation or the operation result of every receipt paid from it.  *)
(*                                                                         *)
(* A method of the ledger reads, plans in TypeScript, and writes with one  *)
(* script that compares what it read.  Every read and every script is an   *)
(* action, because other Hosts work between them.  A deadline passes at    *)
(* any moment; a Host may die, or lose a response, between two actions.    *)
(***************************************************************************)
EXTENDS Integers, Sequences, SequencesExt, FiniteSets

CONSTANTS
    Users, Receipts,
    UserOf,        \* the user a receipt is prepared for
    AmountOf,      \* the gas a receipt reserves
    Claims,        \* claim requests
    ClaimantOf,
    Finishers,     \* Host tasks that end reservations
    Admins,        \* requests that edit the Promotion
    Charges,       \* gas an execution may be charged
    Capacity,      \* maxParticipants
    Allowances,    \* allowances per user the operator may choose
    LedgerBound,   \* MAX_PROMOTION_LEDGER_VALUE_MIST
    BatchSize,     \* PROMOTION_EXECUTION_LEDGER_SWEEP_BATCH_SIZE
    MaxEdits,      \* bound on the writes of the operator
    NoReceipt

ASSUME IdentityAssumption ==
    /\ UserOf \in [Receipts -> Users] /\ ClaimantOf \in [Claims -> Users]
    /\ NoReceipt \notin Receipts
    /\ IsFiniteSet(Users) /\ IsFiniteSet(Receipts)

\* parsePromotionLedgerBudget and the Mist assertions of the ledger.
ASSUME AmountAssumption ==
    /\ AmountOf \in [Receipts -> Nat \ {0}] /\ Charges \subseteq Nat
    /\ Capacity \in Nat \ {0} /\ Allowances \subseteq Nat \ {0}
    /\ LedgerBound \in Nat /\ BatchSize \in Nat \ {0} /\ MaxEdits \in Nat
    /\ \A a \in Allowances : Capacity * a <= LedgerBound

VARIABLES
    \* ---- Redis
    promotion,     \* the Promotion record
    accounting,    \* its accounting record
    entitlement,   \* entitlement records by user
    reservation,   \* reservation records by receipt
    deadlines,     \* the reservation deadline index, earliest first
    result,        \* operation results by receipt
    prepared,      \* receipts whose prepared record the receipt store holds
    \* ---- requests: control state and what they have read
    claim, req, fin, adm

recordVars == <<accounting, entitlement, reservation, deadlines, result>>
vars == <<promotion, recordVars, prepared, claim, req, fin, adm>>

-----------------------------------------------------------------------------
(* Records.                                                                 *)

NoPromotion   == [status |-> "none", allowance |-> 0, edit |-> 0]
NoAccounting  == [claimed |-> 0, allowance |-> 0, available |-> 0, reserved |-> 0,
                  consumed |-> 0]
NoEntitlement == [status |-> "none", remaining |-> 0, consumed |-> 0,
                  active |-> NoReceipt]
NoResult      == [operation |-> "none", amount |-> 0]

HasAccounting(acc)  == acc.claimed > 0
HasEntitlement(ent) == ent.status # "none"

Held(ent) == IF ent.active = NoReceipt THEN 0 ELSE AmountOf[ent.active]

\* The accounting record that the first claim creates.
FreshAccounting(p) ==
    [claimed |-> 0, allowance |-> p.allowance, available |-> Capacity * p.allowance,
     reserved |-> 0, consumed |-> 0]

\* What the decoders of the stored records insist on.
AccountingDecodes(acc) ==
    /\ acc.claimed <= Capacity
    /\ acc.available + acc.reserved <= Capacity * acc.allowance
EntitlementDecodes(ent) ==
    ent.status = "active" <=> ent.remaining > 0 \/ ent.active # NoReceipt

\* assertPromotionEntitlementAccountingState, assertPromotionLedgerReadState and
\* assertPromotionReservationAccountingState: what a reader insists on.
EntitlementFits(acc, ent) ==
    /\ ent.remaining + Held(ent) <= acc.allowance
    /\ Held(ent) <= acc.reserved

Readable(p, acc, ent) ==
    /\ HasEntitlement(ent) => /\ EntitlementDecodes(ent)
                              /\ HasAccounting(acc) /\ EntitlementFits(acc, ent)
    /\ HasAccounting(acc)  => /\ AccountingDecodes(acc)
                              /\ p.status # "none" /\ acc.allowance = p.allowance

ReservationFits(acc, ent, r) ==
    /\ EntitlementFits(acc, ent)
    /\ ent.status = "active" /\ ent.active = r
    /\ AmountOf[r] <= acc.reserved

\* createPromotionFinalizeTransition.  What was reserved and not charged goes
\* back; what was charged beyond the reservation is taken while there is some.
Surplus(amount, charge) == IF amount > charge THEN amount - charge ELSE 0
Overrun(amount, charge) == IF charge > amount THEN charge - amount ELSE 0

Left(balance, amount, charge) ==
    IF balance + Surplus(amount, charge) > Overrun(amount, charge)
    THEN balance + Surplus(amount, charge) - Overrun(amount, charge)
    ELSE 0

\* As bugs would have it, the overrun is not taken, or the user who has nothing
\* left stays active, or the charge leaves the reserved sum in place of the amount.
LeftWithoutOverrun(balance, amount, charge) == balance + Surplus(amount, charge)
StatusKept(ent, amount, charge) == ent.status
StatusAfter(ent, amount, charge) ==
    IF Left(ent.remaining, amount, charge) = 0 THEN "exhausted" ELSE ent.status

AccountingReservesCharge(acc, amount, charge) ==
    [acc EXCEPT !.available = Left(acc.available, amount, charge),
                !.reserved = Left(acc.reserved, 0, charge),
                !.consumed = @ + charge]
AccountingAfter(acc, amount, charge) ==
    [acc EXCEPT !.available = Left(acc.available, amount, charge),
                !.reserved = @ - amount,
                !.consumed = @ + charge]

EntitlementAfter(ent, amount, charge) ==
    [ent EXCEPT !.remaining = Left(ent.remaining, amount, charge),
                !.consumed = @ + charge,
                !.status = StatusAfter(ent, amount, charge),
                !.active = NoReceipt]

WithinBound(acc, ent, charge) ==
    acc.consumed + charge <= LedgerBound /\ ent.consumed + charge <= LedgerBound

-----------------------------------------------------------------------------
(* A request keeps what it has read.                                        *)

Ended(pc) ==
    [pc |-> pc, promo |-> NoPromotion, acc |-> NoAccounting, ent |-> NoEntitlement]

FinIdle ==
    [pc |-> "idle", job |-> "none", receipt |-> NoReceipt, operation |-> "none",
     charge |-> 0, acc |-> NoAccounting, ent |-> NoEntitlement, batch |-> <<>>]

\* The call ends with an error: because the reservation no longer fits the records
\* it was read with, or for another reason.
Stale == [FinIdle EXCEPT !.pc = "stale"]
Threw == [FinIdle EXCEPT !.pc = "threw"]

Init ==
    /\ promotion \in {[status |-> "draft", allowance |-> a, edit |-> 0] : a \in Allowances}
    /\ accounting = NoAccounting
    /\ entitlement = [u \in Users |-> NoEntitlement]
    /\ reservation = [r \in Receipts |-> "none"]
    /\ deadlines = <<>>
    /\ result = [r \in Receipts |-> NoResult]
    /\ prepared = {}
    /\ claim = [c \in Claims |-> Ended("idle")]
    /\ req = [r \in Receipts |-> Ended("idle")]
    /\ fin = [f \in Finishers |-> FinIdle]
    /\ adm = [a \in Admins |-> NoPromotion]

\* The exact comparison of the scripts; as a bug would have it, the accounting is
\* not compared.
EntitlementUnchanged(x, u) == entitlement[u] = x.ent
Unchanged(x, u) == accounting = x.acc /\ entitlement[u] = x.ent

\* ZREM: the index without r, if r is there.
WithoutDeadline(r) ==
    IF \E i \in DOMAIN deadlines : deadlines[i] = r
    THEN RemoveAt(deadlines, CHOOSE i \in DOMAIN deadlines : deadlines[i] = r)
    ELSE deadlines

-----------------------------------------------------------------------------
(* The operator: update, transitionStatus, delete.                          *)

ValidTransitions ==
    [none |-> {}, draft |-> {"active"}, active |-> {"paused", "archived"},
     paused |-> {"active", "archived"}, archived |-> {}]

\* The economic fields are frozen once the Promotion leaves draft.
Updated(p) ==
    {[p EXCEPT !.allowance = a, !.edit = @ + 1] :
        a \in IF p.status = "draft" THEN Allowances ELSE {p.allowance}}
Transitioned(p) ==
    {[p EXCEPT !.status = s, !.edit = @ + 1] : s \in ValidTransitions[p.status]}

AdminRead(a) ==
    /\ adm[a] = NoPromotion
    /\ promotion.status # "none"
    /\ promotion.edit < MaxEdits
    /\ adm' = [adm EXCEPT ![a] = promotion]
    /\ UNCHANGED <<promotion, recordVars, prepared, claim, req, fin>>

\* UPDATE_LUA and STATUS_LUA replace the record they have read and no other; as a
\* bug would have it, any record.
AnyRecord(a) == promotion # NoPromotion
StillCurrent(a) == promotion = adm[a]

AdminWrite(a) ==
    /\ adm[a] # NoPromotion
    /\ StillCurrent(a)
    /\ promotion' \in Updated(adm[a]) \cup Transitioned(adm[a])
    /\ adm' = [adm EXCEPT ![a] = NoPromotion]
    /\ UNCHANGED <<recordVars, prepared, claim, req, fin>>

AdminDelete(a) ==
    /\ adm[a].status = "draft"
    /\ StillCurrent(a)
    /\ ~HasAccounting(accounting)
    /\ promotion' = NoPromotion
    /\ adm' = [adm EXCEPT ![a] = NoPromotion]
    /\ UNCHANGED <<recordVars, prepared, claim, req, fin>>

AdminConflict(a) ==
    /\ adm[a] # NoPromotion /\ promotion # adm[a]
    /\ adm' = [adm EXCEPT ![a] = NoPromotion]
    /\ UNCHANGED <<promotion, recordVars, prepared, claim, req, fin>>

-----------------------------------------------------------------------------
(* claim: the Promotion, then accounting and entitlement in one read, then  *)
(* the script.                                                              *)

ClaimGoto(c, x) == claim' = [claim EXCEPT ![c] = x]

ClaimStart(c) ==
    /\ claim[c].pc = "idle"
    /\ ClaimGoto(c, IF promotion.status = "active"
                    THEN [Ended("read") EXCEPT !.promo = promotion]
                    ELSE Ended("refused"))
    /\ UNCHANGED <<promotion, recordVars, prepared, req, fin, adm>>

ClaimRead(c) ==
    LET ent == entitlement[ClaimantOf[c]]
        full == accounting.claimed >= Capacity
    IN /\ claim[c].pc = "read"
       /\ ClaimGoto(c, IF ~Readable(claim[c].promo, accounting, ent) THEN Ended("corrupt")
                       ELSE IF HasEntitlement(ent) \/ full THEN Ended("refused")
                       ELSE [claim[c] EXCEPT !.pc = "apply", !.acc = accounting])
       /\ UNCHANGED <<promotion, recordVars, prepared, req, fin, adm>>

\* LUA_CLAIM.
ClaimMatches(c) == promotion = claim[c].promo /\ Unchanged(claim[c], ClaimantOf[c])

ClaimApply(c) ==
    LET x == claim[c]
        acc == IF HasAccounting(x.acc) THEN x.acc ELSE FreshAccounting(x.promo)
    IN /\ x.pc = "apply"
       /\ ClaimMatches(c)
       /\ accounting' = [acc EXCEPT !.claimed = @ + 1]
       /\ entitlement' = [entitlement EXCEPT ![ClaimantOf[c]] =
              [NoEntitlement EXCEPT !.status = "active", !.remaining = acc.allowance]]
       /\ ClaimGoto(c, Ended("ok"))
       /\ UNCHANGED <<promotion, reservation, deadlines, result, prepared, req, fin, adm>>

ClaimRefused(c) ==
    /\ claim[c].pc = "apply" /\ ~ClaimMatches(c)
    /\ ClaimGoto(c, Ended("refused"))
    /\ UNCHANGED <<promotion, recordVars, prepared, req, fin, adm>>

-----------------------------------------------------------------------------
(* reserve: the Promotion; then, as separate commands sent together, the    *)
(* accounting and the entitlement; then, if the user has one, the active    *)
(* reservation; then the script.  A receipt is reserved by the one request  *)
(* that prepares it, so the branches for its own earlier reservation are    *)
(* not reached.                                                             *)

ReqGoto(r, x) == req' = [req EXCEPT ![r] = x]

ReserveStart(r) ==
    /\ req[r].pc = "idle"
    /\ ReqGoto(r, [Ended("accounting") EXCEPT !.promo = promotion])
    /\ UNCHANGED <<promotion, recordVars, prepared, claim, fin, adm>>

ReserveReadAccounting(r) ==
    /\ req[r].pc = "accounting"
    /\ ReqGoto(r, [req[r] EXCEPT !.pc = "entitlement", !.acc = accounting])
    /\ UNCHANGED <<promotion, recordVars, prepared, claim, fin, adm>>

\* createPromotionReserveStateChange.  A refusal planned here is compared by the
\* script once more; whatever it says, nothing is written.  As a bug would have it,
\* the budget is not looked at.
EntitlementOnly(acc, ent, r) == ent.status # "active" \/ ent.remaining < AmountOf[r]
CannotReserve(acc, ent, r) ==
    \/ ent.status # "active"
    \/ ent.remaining < AmountOf[r]
    \/ acc.available < AmountOf[r]

ReserveReadEntitlement(r) ==
    LET p == req[r].promo
        acc == req[r].acc
        ent == entitlement[UserOf[r]]
        next == IF p.status # "active" THEN Ended("refused")
                ELSE IF ~HasAccounting(acc) /\ HasEntitlement(ent) THEN Ended("torn")
                ELSE IF ~HasEntitlement(ent) THEN Ended("refused")
                ELSE IF ~Readable(p, acc, ent) THEN Ended("torn")
                ELSE IF ent.active # NoReceipt THEN
                    [req[r] EXCEPT !.pc = "active", !.ent = ent]
                ELSE IF CannotReserve(acc, ent, r) THEN Ended("refused")
                ELSE [req[r] EXCEPT !.pc = "apply", !.ent = ent]
    IN /\ req[r].pc = "entitlement"
       /\ ReqGoto(r, next)
       /\ UNCHANGED <<promotion, recordVars, prepared, claim, fin, adm>>

\* The active reservation is read as a prepared one: its deadline must be in the
\* index.
ReserveReadActive(r) ==
    LET active == req[r].ent.active
    IN /\ req[r].pc = "active"
       /\ ReqGoto(r, IF reservation[active] = "reserved" THEN [req[r] EXCEPT !.pc = "confirm"]
                     ELSE IF reservation[active] = "executing" THEN Ended("executing")
                     ELSE Ended("gone"))
       /\ UNCHANGED <<promotion, recordVars, prepared, claim, fin, adm>>

\* As a bug would have it, the script compares the Promotion alone.
PromotionMatches(r) == promotion = req[r].promo
ReserveMatches(r) == promotion = req[r].promo /\ Unchanged(req[r], UserOf[r])

ReserveConfirm(r) ==
    /\ req[r].pc = "confirm"
    /\ ReqGoto(r, IF ~ReserveMatches(r) THEN Ended("refused")
                  ELSE IF reservation[req[r].ent.active] = "reserved" THEN Ended("concurrent")
                  ELSE Ended("executing"))
    /\ UNCHANGED <<promotion, recordVars, prepared, claim, fin, adm>>

\* LUA_RESERVE.  The response may be lost: then nobody will release it.
ReserveApply(r) ==
    /\ req[r].pc = "apply"
    /\ ReserveMatches(r)
    /\ accounting' = [accounting EXCEPT !.available = @ - AmountOf[r],
                                        !.reserved = @ + AmountOf[r]]
    /\ entitlement' = [entitlement EXCEPT ![UserOf[r]].remaining = @ - AmountOf[r],
                                          ![UserOf[r]].active = r]
    /\ reservation' = [reservation EXCEPT ![r] = "reserved"]
    /\ deadlines' = Append(deadlines, r)
    /\ \E pc \in {"ok", "lost"} : ReqGoto(r, Ended(pc))
    /\ UNCHANGED <<promotion, result, prepared, claim, fin, adm>>

ReserveRefused(r) ==
    /\ req[r].pc = "apply" /\ ~ReserveMatches(r)
    /\ ReqGoto(r, Ended("refused"))
    /\ UNCHANGED <<promotion, recordVars, prepared, claim, fin, adm>>

\* The Host of the request dies, or a command of it fails.
ReserveFails(r) ==
    /\ req[r].pc \in {"accounting", "entitlement", "active", "confirm", "apply", "ok"}
    /\ ReqGoto(r, Ended("lost"))
    /\ UNCHANGED <<promotion, recordVars, prepared, claim, fin, adm>>

-----------------------------------------------------------------------------
(* The receipt store makes the receipt durable, and starts its execution.   *)
(* Its scripts compare the Promotion and the reservation, so they find them *)
(* as the plan did.  A commit may land after the request has given up.      *)

Commit(r) ==
    /\ req[r].pc \in {"ok", "cleaned"}
    /\ promotion.status = "active"
    /\ reservation[r] = "reserved" /\ r \notin prepared
    /\ prepared' = prepared \cup {r}
    /\ UNCHANGED <<promotion, recordVars, claim, req, fin, adm>>

\* The deadline moves to the execution index of the store; as a bug would have
\* it, it also stays where it was.
IndexKept(r) == deadlines
IndexAfterBegin(r) == WithoutDeadline(r)

Begin(r) ==
    /\ r \in prepared
    /\ promotion.status = "active"
    /\ reservation[r] = "reserved"
    /\ reservation' = [reservation EXCEPT ![r] = "executing"]
    /\ deadlines' = IndexAfterBegin(r)
    /\ prepared' = prepared \ {r}
    /\ UNCHANGED <<promotion, accounting, entitlement, result, claim, req, fin, adm>>

-----------------------------------------------------------------------------
(* The end of a reservation: release by the prepare request that gives up,  *)
(* release by the sweep, discard and finalization by the receipt store.     *)

FinGoto(f, x) == fin' = [fin EXCEPT ![f] = x]

Free(f) == fin[f].pc \in {"idle", "threw", "stale"}

StartRelease(f, r) ==
    /\ Free(f)
    /\ req[r].pc = "ok"
    /\ ReqGoto(r, Ended("cleaned"))
    /\ FinGoto(f, [FinIdle EXCEPT !.pc = "read", !.job = "release", !.receipt = r,
                                  !.operation = "release"])
    /\ UNCHANGED <<promotion, recordVars, prepared, claim, adm>>

StartDiscard(f, r) ==
    /\ Free(f)
    /\ r \in prepared
    /\ FinGoto(f, [FinIdle EXCEPT !.pc = "read", !.job = "discard", !.receipt = r,
                                  !.operation = "release"])
    /\ UNCHANGED <<promotion, recordVars, prepared, claim, req, adm>>

\* The charge of an execution, or none when nothing was spent.
StartFinalize(f, r) ==
    /\ Free(f)
    /\ reservation[r] = "executing"
    /\ \E x \in {<<"release", 0>>} \cup {<<"consume", c>> : c \in Charges} :
         FinGoto(f, [FinIdle EXCEPT !.pc = "read", !.job = "finalize", !.receipt = r,
                                    !.operation = x[1], !.charge = x[2]])
    /\ UNCHANGED <<promotion, recordVars, prepared, claim, req, adm>>

\* The next reservation of the batch, or nothing.
NextOf(batch) ==
    IF batch = <<>> THEN FinIdle
    ELSE [FinIdle EXCEPT !.pc = "plan", !.job = "sweep", !.receipt = Head(batch),
                         !.operation = "release", !.batch = Tail(batch)]

\* sweepExpiredReservationsBatch: the first n deadlines are overdue, and of those
\* a batch is read.
StartSweep(f, n) ==
    /\ Free(f)
    /\ FinGoto(f, NextOf(SubSeq(deadlines, 1, IF n < BatchSize THEN n ELSE BatchSize)))
    /\ UNCHANGED <<promotion, recordVars, prepared, claim, req, adm>>

\* readReceiptState, or readExecutingReceiptState for a finalization.
FinRead(f) ==
    LET r == fin[f].receipt
        planned == [fin[f] EXCEPT !.pc = IF fin[f].job = "release" THEN "check" ELSE "plan"]
        expected == IF fin[f].job = "finalize" THEN "executing" ELSE "reserved"
    IN /\ fin[f].pc = "read"
       /\ FinGoto(f, IF reservation[r] = "none" THEN FinIdle
                     ELSE IF reservation[r] = expected THEN planned
                     ELSE Threw)
       /\ UNCHANGED <<promotion, recordVars, prepared, claim, req, adm>>

\* release: validateReservedReceiptState before the plan.
FinCheck(f) ==
    LET r == fin[f].receipt
    IN /\ fin[f].pc = "check"
       /\ FinGoto(f, IF ReservationFits(accounting, entitlement[UserOf[r]], r)
                     THEN [fin[f] EXCEPT !.pc = "plan"] ELSE Stale)
       /\ UNCHANGED <<promotion, recordVars, prepared, claim, req, adm>>

\* readLedgerState and the transition.
FinPlan(f) ==
    LET r == fin[f].receipt
        ent == entitlement[UserOf[r]]
        own == fin[f].job \in {"release", "sweep"}
    IN /\ fin[f].pc = "plan"
       /\ FinGoto(f, IF ~ReservationFits(accounting, ent, r)
                     THEN IF own THEN [fin[f] EXCEPT !.pc = "recheck"] ELSE Stale
                     ELSE IF ~WithinBound(accounting, ent, fin[f].charge) THEN Threw
                     ELSE [fin[f] EXCEPT !.pc = "apply", !.acc = accounting, !.ent = ent])
       /\ UNCHANGED <<promotion, recordVars, prepared, claim, req, adm>>

\* Somebody else may have ended the reservation since it was read.
FinRecheck(f) ==
    /\ fin[f].pc = "recheck"
    /\ FinGoto(f, IF result[fin[f].receipt] # NoResult THEN NextOf(fin[f].batch) ELSE Stale)
    /\ UNCHANGED <<promotion, recordVars, prepared, claim, req, adm>>

\* LUA_FINALIZE for the ledger's own calls; the scripts of the store compare the
\* stage of the receipt.  As bugs would have it, the ledger does not look for the
\* prepared record, or the prepared record protects the reservation from the store
\* as well.
ProtectedFromTheStore(f) ==
    IF fin[f].job = "finalize" THEN reservation[fin[f].receipt] = "executing"
    ELSE reservation[fin[f].receipt] = "reserved" /\ fin[f].receipt \notin prepared
NotLookingForPrepared(f) ==
    IF fin[f].job = "finalize" THEN reservation[fin[f].receipt] = "executing"
    ELSE reservation[fin[f].receipt] = "reserved"
StageMatches(f) ==
    LET r == fin[f].receipt
    IN IF fin[f].job = "finalize" THEN reservation[r] = "executing"
       ELSE /\ reservation[r] = "reserved"
            /\ fin[f].job = "discard" <=> r \in prepared

\* As a bug would have it, the scripts look for nothing but the prepared record.
ProtectionOnly(f) ==
    IF fin[f].job = "discard" THEN fin[f].receipt \in prepared
    ELSE fin[f].receipt \notin prepared
FinMatches(f) == StageMatches(f) /\ Unchanged(fin[f], UserOf[fin[f].receipt])

FinApply(f) ==
    LET r == fin[f].receipt
    IN /\ fin[f].pc = "apply"
       /\ FinMatches(f)
       /\ accounting' = AccountingAfter(fin[f].acc, AmountOf[r], fin[f].charge)
       /\ entitlement' = [entitlement EXCEPT ![UserOf[r]] =
              EntitlementAfter(fin[f].ent, AmountOf[r], fin[f].charge)]
       /\ reservation' = [reservation EXCEPT ![r] = "none"]
       /\ deadlines' = WithoutDeadline(r)
       /\ result' = [result EXCEPT ![r] =
              [operation |-> fin[f].operation,
               amount |-> IF fin[f].operation = "consume" THEN fin[f].charge ELSE AmountOf[r]]]
       /\ prepared' = IF fin[f].job = "discard" THEN prepared \ {r} ELSE prepared
       /\ FinGoto(f, NextOf(fin[f].batch))
       /\ UNCHANGED <<promotion, claim, req, adm>>

FinRefused(f) ==
    /\ fin[f].pc = "apply" /\ ~FinMatches(f)
    /\ FinGoto(f, NextOf(fin[f].batch))
    /\ UNCHANGED <<promotion, recordVars, prepared, claim, req, adm>>

\* The Host dies, or a command fails.
FinDies(f) ==
    /\ ~Free(f)
    /\ FinGoto(f, Threw)
    /\ UNCHANGED <<promotion, recordVars, prepared, claim, req, adm>>

FinStep(f) ==
    FinRead(f) \/ FinCheck(f) \/ FinPlan(f) \/ FinRecheck(f) \/ FinApply(f) \/ FinRefused(f)

-----------------------------------------------------------------------------

AdminNext(a) == AdminRead(a) \/ AdminWrite(a) \/ AdminDelete(a) \/ AdminConflict(a)

ClaimNext(c) == ClaimStart(c) \/ ClaimRead(c) \/ ClaimApply(c) \/ ClaimRefused(c)

ReceiptNext(r) ==
    \/ ReserveStart(r) \/ ReserveReadAccounting(r) \/ ReserveReadEntitlement(r)
    \/ ReserveReadActive(r) \/ ReserveConfirm(r) \/ ReserveApply(r) \/ ReserveRefused(r)
    \/ ReserveFails(r) \/ Commit(r) \/ Begin(r)

FinNext(f) ==
    \/ \E r \in Receipts : StartRelease(f, r) \/ StartDiscard(f, r) \/ StartFinalize(f, r)
    \/ \E n \in DOMAIN deadlines : StartSweep(f, n)
    \/ FinStep(f) \/ FinDies(f)

Next ==
    \/ \E a \in Admins : AdminNext(a)
    \/ \E c \in Claims : ClaimNext(c)
    \/ \E r \in Receipts : ReceiptNext(r)
    \/ \E f \in Finishers : FinNext(f)

Spec == Init /\ [][Next]_vars

-----------------------------------------------------------------------------
(* Properties.                                                              *)

Outstanding(r) == reservation[r] # "none"
Claimed == {u \in Users : HasEntitlement(entitlement[u])}
Total == Capacity * accounting.allowance

RequestStates ==
    {"idle", "read", "accounting", "entitlement", "active", "confirm", "apply", "ok",
     "lost", "cleaned", "refused", "concurrent", "corrupt", "torn", "executing", "gone"}

PromotionRecords ==
    [status : {"none", "draft", "active", "paused", "archived"},
     allowance : Allowances \cup {0}, edit : Nat]
AccountingRecords ==
    [claimed : Nat, allowance : Allowances \cup {0}, available : Nat, reserved : Nat,
     consumed : 0..LedgerBound]
EntitlementRecords ==
    [status : {"none", "active", "exhausted"}, remaining : Nat, consumed : 0..LedgerBound,
     active : Receipts \cup {NoReceipt}]
ResultRecords == [operation : {"none", "consume", "release"}, amount : Nat]
Requests ==
    [pc : RequestStates, promo : PromotionRecords, acc : AccountingRecords,
     ent : EntitlementRecords]
Tasks ==
    [pc : {"idle", "threw", "stale", "read", "check", "plan", "recheck", "apply"},
     job : {"none", "release", "sweep", "discard", "finalize"},
     receipt : Receipts \cup {NoReceipt},
     operation : {"none", "consume", "release"}, charge : Charges \cup {0},
     acc : AccountingRecords, ent : EntitlementRecords, batch : Seq(Receipts)]

\* The shapes of the records, with the ledger bound on every consumed sum and no
\* amount below zero.
TypeOK ==
    /\ promotion \in PromotionRecords
    /\ accounting \in AccountingRecords
    /\ entitlement \in [Users -> EntitlementRecords]
    /\ reservation \in [Receipts -> {"none", "reserved", "executing"}]
    /\ deadlines \in Seq(Receipts)
    /\ result \in [Receipts -> ResultRecords]
    /\ prepared \subseteq Receipts
    /\ claim \in [Claims -> Requests]
    /\ req \in [Receipts -> Requests]
    /\ fin \in [Finishers -> Tasks]
    /\ adm \in [Admins -> PromotionRecords]

\* The sum of a function of amounts, counted unit by unit.
Units(amounts) == UNION {{x} \X (1..amounts[x]) : x \in DOMAIN amounts}
TotalOf(amounts) == Cardinality(Units(amounts))

\* What receipts reserve and were charged, what users have left, and what they were
\* charged beyond the allowance.
ReservedBy == [r \in Receipts |-> IF Outstanding(r) THEN AmountOf[r] ELSE 0]
ChargedTo  == [r \in Receipts |->
                 IF result[r].operation = "consume" THEN result[r].amount ELSE 0]
Remaining  == [u \in Users |-> entitlement[u].remaining]

Used(ent) == ent.remaining + Held(ent) + ent.consumed
Excess(ent, allowance) == IF Used(ent) > allowance THEN Used(ent) - allowance ELSE 0
Overspent == [u \in Users |-> Excess(entitlement[u], accounting.allowance)]

\* The accounting record is the sum of what it accounts for: what is reserved is
\* what outstanding receipts reserve, what is consumed is what receipts were charged.
\* Available and reserved never exceed the budget, and nothing of it is lost.
BudgetBalances ==
    HasAccounting(accounting) =>
        /\ accounting.reserved = TotalOf(ReservedBy)
        /\ accounting.consumed = TotalOf(ChargedTo)
        /\ accounting.available + accounting.reserved <= Total
        /\ accounting.available + accounting.reserved + accounting.consumed >= Total

\* The budget covers the allowance of everybody who claimed or still can, short only
\* of what others were charged beyond theirs: a user within the allowance is refused
\* for want of budget only after such a charge.
BudgetCoversAllowances ==
    HasAccounting(accounting) =>
        accounting.available + TotalOf(Overspent)
          >= TotalOf(Remaining) + (Capacity - accounting.claimed) * accounting.allowance

\* A user who was charged more than the allowance is exhausted and stays so; any
\* other has exactly the rest of the allowance to spend.
OverspentIsExhausted ==
    \A u \in Claimed :
        /\ Used(entitlement[u]) >= accounting.allowance
        /\ entitlement[u].status = "active" => Used(entitlement[u]) = accounting.allowance

\* A user has one outstanding reservation at most, and the entitlement names it.
OneReservationPerUser ==
    /\ \A r \in Receipts : Outstanding(r) => entitlement[UserOf[r]].active = r
    /\ \A u \in Users : entitlement[u].active # NoReceipt =>
          Outstanding(entitlement[u].active) /\ UserOf[entitlement[u].active] = u

\* What a prepared or executing receipt needs is there: nobody but the store ends
\* its reservation, and the deadline index holds the others and the prepared ones.
ReceiptKeepsReservation ==
    /\ \A r \in prepared : reservation[r] = "reserved"
    /\ ToSet(deadlines) = {r \in Receipts : reservation[r] = "reserved"}
    /\ IsInjective(deadlines)
    /\ \A r \in Receipts : result[r] # NoResult => ~Outstanding(r)

\* Every claim is counted, and there are never more than participants.
ClaimsWithinCapacity ==
    accounting.claimed = Cardinality(Claimed) /\ accounting.claimed <= Capacity

\* Once somebody has claimed, the economics are frozen and the record stays, however
\* edits, activation, deletion and claims interleave.
EconomicsFrozen ==
    HasAccounting(accounting) =>
        promotion.status \notin {"none", "draft"} /\ promotion.allowance = accounting.allowance

\* No reader of the stored records ever has a reason to call them corrupt.
StoredRecordsReadable ==
    /\ \A u \in Users : Readable(promotion, accounting, entitlement[u])
    /\ \A r \in Receipts :
          Outstanding(r) => ReservationFits(accounting, entitlement[UserOf[r]], r)

\* The operation result of a receipt is written once.
ResultsAreFinal ==
    [][\A r \in Receipts : result[r] # NoResult =>
          result'[r] = result[r] /\ reservation'[r] = "none"]_vars

-----------------------------------------------------------------------------
(* What makes the properties inductive: what a request that is about to     *)
(* write knows of the records it compares.                                  *)

BeforeReserve == {"idle", "accounting", "entitlement", "active", "confirm", "apply"}

\* A claim is planned for an active Promotion with a place left.
ClaimKnows(x) ==
    /\ x.pc \in {"read", "apply"} => x.promo.status = "active" /\ x.ent = NoEntitlement
    /\ x.pc = "apply" => /\ x.acc.claimed < Capacity
                         /\ HasAccounting(x.acc) => x.acc.allowance = x.promo.allowance

\* Nobody but its own request reserves for a receipt, and it has looked at both
\* balances.
ReserveKnows(r) ==
    /\ req[r].pc \in BeforeReserve => ~Outstanding(r) /\ result[r] = NoResult
    /\ req[r].pc = "apply" => ~CannotReserve(req[r].acc, req[r].ent, r)
                              /\ req[r].ent.active = NoReceipt

\* Only a finalization charges, and the sums fit what the task has read.
FinishKnows(x) ==
    x.pc \notin {"idle", "threw", "stale"} =>
        /\ x.receipt \in Receipts /\ x.operation \in {"consume", "release"}
        /\ x.operation = "consume" => x.job = "finalize"
        /\ x.operation = "release" => x.charge = 0
        /\ x.pc = "apply" => ReservationFits(x.acc, x.ent, x.receipt)
                             /\ WithinBound(x.acc, x.ent, x.charge)

RequestsKnow ==
    /\ \A c \in Claims : ClaimKnows(claim[c])
    /\ \A r \in Receipts : ReserveKnows(r)
    /\ \A f \in Finishers : FinishKnows(fin[f])

\* The inductive invariant.
LedgerInv ==
    /\ TypeOK /\ OneReservationPerUser /\ ReceiptKeepsReservation /\ EconomicsFrozen
    /\ RequestsKnow
    /\ \A u \in Claimed : HasAccounting(accounting)

-----------------------------------------------------------------------------
(* Refinement: the ledger keeps its side of PromotionReservation.           *)

AbstractReservation(r) ==
    IF Outstanding(r) THEN reservation[r]
    ELSE [none |-> "none", consume |-> "consumed", release |-> "released"]
           [result[r].operation]

Interface == INSTANCE PromotionReservation WITH
    reservation <- [r \in Receipts |-> AbstractReservation(r)],
    protected   <- prepared

\* Whatever the requests, the sweep and the store do, a reservation goes through the
\* life the receipt store relies on.
ImplementsReservation == Interface!Spec

-----------------------------------------------------------------------------
(* Liveness.  Every Host runs the sweep and the recovery task on a timer, so *)
(* one of them looks again and again at what is overdue, and finishes what   *)
(* it began, once Hosts and Redis stop failing.  Nothing is assumed of       *)
(* requests and operators.                                                   *)

Fairness ==
    /\ <>[][\A f \in Finishers : ~FinDies(f)]_vars
    /\ \A f \in Finishers : WF_vars(FinStep(f))
    /\ SF_vars(\E f \in Finishers : StartSweep(f, Len(deadlines)) /\ deadlines # <<>>)
    /\ \A r \in Receipts : SF_vars(\E f \in Finishers : StartDiscard(f, r))

FairSpec == Spec /\ Fairness

\* The budget of a receipt that is not executed comes back, whatever became of the
\* request that reserved it, and however few reservations a sweep looks at.
UnusedReservationReturns ==
    \A r \in Receipts : reservation[r] = "reserved" ~> reservation[r] # "reserved"

-----------------------------------------------------------------------------
(* What the code and its documents say and the interleavings refute.        *)

\* "Concurrent reservation already exists for this user+promotion" is an answer of
\* reserve; a reservation that is executing is reported as a corrupt ledger instead.
ExecutingIsConcurrent == \A r \in Receipts : req[r].pc # "executing"
=============================================================================
