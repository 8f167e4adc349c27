---------------------------- MODULE AccountSpend ----------------------------
(***************************************************************************)
(* The Sponsor Refill Account of the Host: withdrawals and slot refills   *)
(* are spends of one account.  One Redis record holds the current spend;   *)
(* every Host drives it (reserve, sign, submit, reconcile, complete) under *)
(* an expiring lock which recovery bypasses, while observers write the     *)
(* balances they read.  Redis scripts and RPC reads are one step each; a   *)
(* Host may fail between any two, a response may be lost, the lock and the *)
(* receipts may expire at any time, and RPC endpoints lag behind the chain.*)
(***************************************************************************)
EXTENDS Integers, FiniteSets, TLC

CONSTANTS
    Hosts,          \* Host processes, each with one spend worker
    Withdrawals,    \* withdrawal requests: a nonce and an amount each
    NonceOf, AmountOf,
    Slots,          \* sponsor slots that are refilled
    Endpoints,      \* RPC endpoints, any of which may answer a read
    Observers,      \* balance observers, each of one entity at a time
    Gas,            \* the gas a spend costs (its budget)
    Runway,         \* what a spend must leave in the account
    Target, Warn,   \* a slot is refilled to Target and healthy from Warn
    InitialFunds, InitialSlots,
    MaxSpends, MaxDeposits, MaxDrains, MaxWrites, MaxBusy, \* bounds of the exploration
    MaxFaults,      \* how many faults there are, None for any number
    None            \* no value: an unknown balance, no nonce, no slot, no lock

Nonces == {NonceOf[w] : w \in Withdrawals}
Active == {"reserved", "ready", "reconciling"}
Ended == {"succeeded", "failed"}
Results == {"succeeded", "failed", "runway_blocked"}   \* how a spend can have ended
Reasons == {"slot_observed", "source_observed", "retry"}   \* why a refill is tried

\* The identity of a withdrawal is a hash of its request, that of a refill is fresh.
OpOf(w) == <<NonceOf[w], AmountOf[w]>>

VARIABLES
    spend,      \* the current spend, in Redis
    receipt,    \* nonce -> what is known of its withdrawal, in Redis
    acct,       \* the observation of the account, in Redis
    slot,       \* slot -> its observation, in Redis
    lock,       \* the holder of the dispatch lock, in Redis
    task,       \* what the worker of each Host is doing
    answer,     \* what each withdrawal request was told
    watch,      \* what each observer is doing
    sent,       \* transactions handed to the network
    chain,      \* the ledger: what landed and the balances
    view,       \* the ledger as each RPC endpoint knows it
    spends, deposits, drains, faults   \* how often, and how often still (bounds)

store == <<spend, receipt, acct, slot>>
net == <<sent, chain, view>>
bounds == <<spends, deposits, drains, faults>>
vars == <<store, lock, task, answer, watch, net, bounds>>

NoSpend == [serial |-> 0, op |-> None, nonce |-> None, slot |-> None, amount |-> 0,
            state |-> "none", signed |-> FALSE, result |-> "none", required |-> None]

\* The transaction that is built for a spend; serial tells apart what is built twice.
Tx(s) == [serial |-> s.serial, op |-> s.op, nonce |-> s.nonce, slot |-> s.slot, amount |-> s.amount]

\* What is under way; as a bug would have it, only what is signed.
IsSigned(s) == s.state \in {"ready", "reconciling"}
IsActive(s) == s.state \in Active

\* The scripts compare the sequence, which the state stands for; as a bug would have
\* it, only the operation.
SameOperation(s, t) == s.op = t.op
Same(s, t) == s.op = t.op /\ s.state = t.state

NoJob == [kind |-> "none", request |-> None, slot |-> None]
Resting == [pc |-> "idle", job |-> NoJob, locked |-> FALSE, seen |-> NoSpend,
            auth |-> FALSE, own |-> FALSE, cursor |-> 0, slotSeq |-> 0,
            needs |-> None, bal |-> None, slotBal |-> None]
\* An observer is of a slot, of the account (None), or of nothing.
Entities == Slots \cup {None, "nothing"}
Unseen(what) == [pc |-> "idle", what |-> what, op |-> None, state |-> "none", seq |-> 0, bal |-> None]

Init ==
    /\ spend = NoSpend
    /\ receipt = [n \in Nonces |-> [type |-> "issued"]]
    /\ acct = [seq |-> 1, bal |-> InitialFunds]   \* the boot observed them
    /\ slot = [s \in Slots |-> [seq |-> 1, bal |-> InitialSlots]]
    /\ lock = None
    /\ task = [h \in Hosts |-> Resting]
    /\ answer = [w \in Withdrawals |-> [status |-> "unasked", op |-> None]]
    /\ watch \in [Observers -> {Unseen(what) : what \in Entities}]
    /\ sent = {}
    /\ chain = [succeeded |-> {}, failed |-> {}, funds |-> InitialFunds,
                bal |-> [s \in Slots |-> InitialSlots]]
    /\ view = [e \in Endpoints |-> chain]
    /\ spends = 0 /\ deposits = 0 /\ drains = 0 /\ faults = MaxFaults

-----------------------------------------------------------------------------
\* Moving a worker on, and ending its job.

At(h, pc) == task[h].pc = pc
Goto(h, pc) ==
    /\ task' = [task EXCEPT ![h].pc = pc]
    /\ UNCHANGED <<lock, answer>>

\* The lock is released only by its holder; a withdrawal request is answered.
Tell(h, status, op) ==
    /\ task' = [task EXCEPT ![h] = Resting]
    /\ lock' = IF task[h].locked /\ lock = h THEN None ELSE lock
    /\ answer' = IF task[h].job.kind = "withdraw"
                 THEN [answer EXCEPT ![task[h].job.request] = [status |-> status, op |-> op]]
                 ELSE answer

\* Everything but a result or an unknown nonce (pending, busy, an error) leaves the
\* caller without an outcome.
Unsettled(h) == Tell(h, "unsettled", None)

Wanted(h) == OpOf(task[h].job.request)
IsOwn(h, s) == task[h].job.kind = "withdraw" /\ s.op = Wanted(h)

\* A terminal spend as the answer; a request behind another spend is not accepted.
Project(h, s, own) == IF own THEN Tell(h, s.result, s.op) ELSE Unsettled(h)

\* The first step of each state.  Without the authorization of the request that
\* reserved it a reserved spend is not signed but failed; as a bug would have it, a
\* signed one as well.
FailsUnconfirmed(s, auth) ==
    CASE s.state = "reserved" /\ auth                -> "simulate"
      [] s.state \in {"reserved", "ready"} /\ ~auth -> "failing"
      [] s.state = "ready" /\ auth                   -> "lookup"
      [] s.state = "reconciling"                     -> "confirm"

FirstStep(s, auth) ==
    CASE s.state = "reserved" /\ auth  -> "simulate"
      [] s.state = "reserved" /\ ~auth -> "failing"
      [] s.state = "ready"             -> "lookup"
      [] s.state = "reconciling"       -> "confirm"

\* Continue with the spend as it was read.
Drive(h, s, auth, own) ==
    IF s.state \in Ended THEN Project(h, s, own)
    ELSE /\ task' = [task EXCEPT ![h] = [Resting EXCEPT
                        !.job = task[h].job, !.locked = task[h].locked,
                        !.pc = FirstStep(s, auth), !.seen = s, !.auth = auth, !.own = own]]
         /\ UNCHANGED <<lock, answer>>

\* What a slot is, of its observation and the current spend.
RefillOf(s) == spend.slot = s
SlotState(s) == IF RefillOf(s) /\ IsActive(spend) THEN "refilling"
                   ELSE IF slot[s].bal = None THEN "rpc_unreachable"
                   ELSE IF slot[s].bal >= Warn THEN "healthy"
                   ELSE IF RefillOf(s) /\ spend.state = "failed" THEN "refill_failed"
                   ELSE "low_balance"
RequiredFor(s) == IF RefillOf(s) /\ spend.state = "failed" THEN spend.required ELSE None
SourceCovers(r) == r # None /\ acct.bal # None /\ acct.bal >= r

Eligible(s, reason) ==
    LET state == SlotState(s)
        required == RequiredFor(s)
    IN  \/ reason = "slot_observed" /\ state = "low_balance" /\ required = None
        \/ reason # "slot_observed" /\ state = "low_balance"
                                    /\ (required = None \/ SourceCovers(required))
        \/ reason = "retry" /\ state = "rpc_unreachable"
                            /\ (required = None \/ SourceCovers(required))
        \/ reason = "retry" /\ state = "refill_failed" /\ required = None
        \/ reason # "slot_observed" /\ state = "refill_failed" /\ SourceCovers(required)

-----------------------------------------------------------------------------
\* A worker takes a job.

Busy == Cardinality({h \in Hosts : ~At(h, "idle")})
            + Cardinality({o \in Observers : watch[o].pc # "idle"})

StartRecovery(h) ==
    /\ At(h, "idle") /\ Busy < MaxBusy
    /\ task' = [task EXCEPT ![h] = [Resting EXCEPT !.pc = "recover", !.job.kind = "recover"]]
    /\ UNCHANGED <<store, lock, answer, watch, net, bounds>>

StartWithdrawal(h, w) ==
    /\ At(h, "idle") /\ Busy < MaxBusy /\ answer[w].status = "unasked"
    /\ task' = [task EXCEPT ![h] = [Resting EXCEPT !.pc = "acquire",
                                        !.job = [NoJob EXCEPT !.kind = "withdraw", !.request = w]]]
    /\ answer' = [answer EXCEPT ![w].status = "asked"]
    /\ UNCHANGED <<store, lock, watch, net, bounds>>

StartRefill(h, s) ==
    /\ At(h, "idle") /\ Busy < MaxBusy /\ spends < MaxSpends
    /\ task' = [task EXCEPT ![h] = [Resting EXCEPT !.pc = "acquire",
                    !.job = [NoJob EXCEPT !.kind = "refill", !.slot = s]]]
    /\ UNCHANGED <<store, lock, answer, watch, net, bounds>>

Acquire(h) ==
    /\ At(h, "acquire") /\ lock = None
    /\ lock' = h
    /\ task' = [task EXCEPT ![h].locked = TRUE,
                            ![h].pc = IF task[h].job.kind = "withdraw" THEN "receipt" ELSE "current"]
    /\ UNCHANGED <<store, answer, watch, net, bounds>>

AcquireTimesOut(h) ==
    /\ At(h, "acquire")
    /\ Unsettled(h)
    /\ UNCHANGED <<store, watch, net, bounds>>

\* A receipt of the nonce answers a request that was accepted before.
ByReceipt(h, r) ==
    IF r.type \in {"absent", "issued"} THEN Goto(h, "current")
    ELSE IF r.op # Wanted(h) THEN Tell(h, "nonce_missing", None)
    ELSE IF r.type = "terminal" THEN Tell(h, r.result, r.op)
    ELSE Goto(h, "accepted")

ReadReceipt(h) ==
    /\ At(h, "receipt")
    /\ ByReceipt(h, receipt[NonceOf[task[h].job.request]])
    /\ UNCHANGED <<store, watch, net, bounds>>

ReadAccepted(h) ==
    /\ At(h, "accepted")
    /\ IF IsOwn(h, spend) THEN Drive(h, spend, FALSE, TRUE) ELSE Unsettled(h)
    /\ UNCHANGED <<store, watch, net, bounds>>

\* Whatever spend is under way is driven first; a request behind it is not accepted.
ReadCurrent(h) ==
    /\ At(h, "current")
    /\ IF IsOwn(h, spend) \/ IsActive(spend) THEN Drive(h, spend, FALSE, IsOwn(h, spend))
       ELSE Goto(h, IF task[h].job.kind = "withdraw" THEN "reserve" ELSE "snapshot")
    /\ UNCHANGED <<store, watch, net, bounds>>

Recover(h) ==
    /\ At(h, "recover")
    /\ IF IsActive(spend) THEN Drive(h, spend, FALSE, FALSE) ELSE Unsettled(h)
    /\ UNCHANGED <<store, watch, net, bounds>>

-----------------------------------------------------------------------------
\* A refill is decided under the lock: eligibility, fresh balance, reservation.

Snapshot(h) ==
    /\ At(h, "snapshot")
    /\ LET s == task[h].job.slot
       IN  \/ Unsettled(h)
           \/ /\ \E reason \in Reasons : Eligible(s, reason)
              /\ task' = [task EXCEPT ![h] = [@ EXCEPT !.pc = "slotBalance",
                                !.slotSeq = slot[s].seq,
                                !.needs = IF RequiredFor(s) = None THEN None ELSE acct.seq]]
              /\ UNCHANGED <<lock, answer>>
    /\ UNCHANGED <<store, watch, net, bounds>>


ReadSlotBalance(h, e) ==
    /\ At(h, "slotBalance")
    /\ LET bal == view[e].bal[task[h].job.slot]
       IN  task' = [task EXCEPT ![h].slotBal = bal,
                                ![h].pc = IF bal >= Target THEN "note" ELSE "reserve"]
    /\ UNCHANGED <<store, lock, answer, watch, net, bounds>>

NoteBalance(h) ==
    /\ At(h, "note")
    /\ LET s == task[h].job.slot
       IN  IF slot[s].seq = task[h].slotSeq
           THEN /\ slot' = [slot EXCEPT ![s] = [seq |-> @.seq + 1, bal |-> task[h].slotBal]]
                /\ Unsettled(h)
           ELSE UNCHANGED slot /\ Unsettled(h)
    /\ UNCHANGED <<spend, receipt, acct, watch, net, bounds>>

\* The spend a worker asks for.
Asked(h) ==
    LET j == task[h].job
    IN  IF j.kind = "withdraw"
        THEN [NoSpend EXCEPT !.serial = spends + 1, !.op = OpOf(j.request), !.nonce = NonceOf[j.request],
                             !.amount = AmountOf[j.request], !.state = "reserved"]
        ELSE [NoSpend EXCEPT !.serial = spends + 1, !.op = <<"refill", spends + 1>>, !.slot = j.slot,
                             !.amount = Target - task[h].slotBal, !.state = "reserved"]

SourceChanged(h) == task[h].needs # None /\ acct.seq # task[h].needs
SlotChanged(h) == LET o == slot[task[h].job.slot]
                    IN  o.seq # task[h].slotSeq \/ o.bal # task[h].slotBal
\* As a bug would have it, any receipt lets the nonce be used.
NonceKnown(n) == receipt[n].type # "absent"
NonceUnused(n) == receipt[n].type = "issued"

Accept(h) ==
    /\ spend' = Asked(h)
    /\ spends' = spends + 1
    /\ IF task[h].job.kind = "withdraw"
       THEN /\ receipt' = [receipt EXCEPT ![Asked(h).nonce] =
                                [type |-> "accepted", op |-> Asked(h).op]]
            /\ UNCHANGED slot
       ELSE /\ slot' = [slot EXCEPT ![task[h].job.slot].seq = @ + 1]
            /\ UNCHANGED receipt
    /\ task' = [task EXCEPT ![h].pc = "created", ![h].seen = Asked(h)]
    /\ UNCHANGED <<acct, lock, answer>>

Reserve(h) ==
    /\ At(h, "reserve")
    /\ LET withdrawal == task[h].job.kind = "withdraw"
           n == NonceOf[task[h].job.request]
           refused(goes) == goes /\ UNCHANGED <<store, spends>>
       IN  IF IsActive(spend) THEN refused(Goto(h, "active"))
           ELSE IF withdrawal /\ receipt[n].type = "absent"
                THEN refused(Tell(h, "nonce_missing", None))
           ELSE IF withdrawal /\ ~NonceUnused(n) THEN refused(ByReceipt(h, receipt[n]))
           ELSE IF ~withdrawal /\ (SourceChanged(h) \/ SlotChanged(h))
                THEN refused(Unsettled(h))
           ELSE Accept(h)
    /\ UNCHANGED <<watch, net, deposits, drains, faults>>

\* The record is read back; only the reservation just made may be signed.
ReadCreated(h) ==
    /\ At(h, "created")
    /\ IF spend.op = task[h].seen.op
       THEN Drive(h, spend, TRUE, IsOwn(h, spend))
       ELSE Unsettled(h)
    /\ UNCHANGED <<store, watch, net, bounds>>

ReadActive(h) ==
    /\ At(h, "active")
    /\ Drive(h, spend, FALSE, IsOwn(h, spend))
    /\ UNCHANGED <<store, watch, net, bounds>>

\* After a transition that was lost, and after one that was made, the record is
\* read again; what has become of the same operation is driven on.
Reread(h) ==
    /\ At(h, "reread")
    /\ IF spend.op = task[h].seen.op THEN Drive(h, spend, task[h].auth, task[h].own)
       ELSE Unsettled(h)
    /\ UNCHANGED <<store, watch, net, bounds>>

-----------------------------------------------------------------------------
\* Preparing a reserved spend: sign, simulate, look at the account, store.

Simulate(h) ==
    /\ At(h, "simulate")
    /\ \E pc \in {"cursor", "failing"} : Goto(h, pc)
    /\ UNCHANGED <<store, watch, net, bounds>>

\* The cursor is taken before the balance is read, for a spend that is still the same.
TakeCursor(h, next) ==
    task' = [task EXCEPT ![h].cursor = acct.seq, ![h].pc = next]

CursorBeforeFunds(h) ==
    /\ At(h, "cursor")
    /\ IF Same(spend, task[h].seen)
       THEN TakeCursor(h, "funds") /\ UNCHANGED <<lock, answer>>
       ELSE Goto(h, "reread")
    /\ UNCHANGED <<store, watch, net, bounds>>

Cost(s) == s.amount + Gas
\* As a bug would have it, the gas is not part of what a spend takes.
KeepsRunwayBeforeGas(bal, s) == bal - s.amount >= Runway
KeepsRunway(bal, s) == bal - Cost(s) >= Runway

ReadFunds(h, e) ==
    /\ At(h, "funds")
    /\ LET bal == view[e].funds
       IN  task' = [task EXCEPT ![h].bal = bal,
                                ![h].pc = IF KeepsRunway(bal, task[h].seen) THEN "ready" ELSE "blocking"]
    /\ UNCHANGED <<store, lock, answer, watch, net, bounds>>

\* Balances are projected only when no other observation came in between.
AccountAfter(h) ==
    IF acct.seq = task[h].cursor THEN [seq |-> acct.seq + 1, bal |-> task[h].bal] ELSE acct

MarkReady(h) ==
    /\ At(h, "ready")
    /\ IF Same(spend, task[h].seen)
       THEN /\ spend' = [spend EXCEPT !.state = "ready", !.signed = TRUE]
            /\ acct' = AccountAfter(h)
       ELSE UNCHANGED <<spend, acct>>
    /\ Goto(h, "reread")
    /\ UNCHANGED <<receipt, slot, watch, net, bounds>>

\* As a bug would have it, the record ends without its result.
ClosedSilently(s, result) == [s EXCEPT !.state = IF result = "succeeded" THEN "succeeded" ELSE "failed"]
Closed(s, result) == [s EXCEPT !.state = IF result = "succeeded" THEN "succeeded" ELSE "failed",
                               !.result = result]

ReceiptAfter(s, result) ==
    IF s.nonce = None THEN receipt
    ELSE [receipt EXCEPT ![s.nonce] = [type |-> "terminal", op |-> s.op, result |-> result]]

\* A refill that would break into the runway says from which balance it would not.
FailReserved(h) ==
    /\ task[h].pc \in {"failing", "blocking"}
    /\ LET result == IF At(h, "failing") THEN "failed" ELSE "runway_blocked"
           required == IF At(h, "blocking") /\ spend.slot # None
                       THEN Runway + Cost(spend) ELSE None
       IN  IF Same(spend, task[h].seen)
           THEN /\ spend' = [Closed(spend, result) EXCEPT !.required = required]
                /\ receipt' = ReceiptAfter(spend, result)
                /\ Goto(h, "failed")
           ELSE /\ UNCHANGED <<spend, receipt>>
                /\ Goto(h, "reread")
    /\ UNCHANGED <<acct, slot, watch, net, bounds>>

\* The answer is whatever failed spend is read back.
ReadFailed(h) ==
    /\ At(h, "failed")
    /\ IF spend.state = "failed" THEN Project(h, spend, task[h].own) ELSE Goto(h, "reread")
    /\ UNCHANGED <<store, watch, net, bounds>>

-----------------------------------------------------------------------------
\* Driving a signed spend: look it up, submit it once, look again.

Landed(v) == v.succeeded \cup v.failed
\* As a bug would have it, what landed has succeeded.
LandedIsSuccess(v, x) == IF x \in Landed(v) THEN "succeeded" ELSE "failed"
ResultIn(v, x) == IF x \in v.succeeded THEN "succeeded" ELSE "failed"
Learn(h, result) ==
    task' = [task EXCEPT ![h].pc = "begin", ![h].seen.result = result]

Lookup(h, e) ==
    /\ At(h, "lookup")
    /\ LET x == Tx(task[h].seen)
       IN  IF x \in Landed(view[e]) THEN Learn(h, ResultIn(view[e], x))
           ELSE task' = [task EXCEPT ![h].pc = "submit"]
    /\ UNCHANGED <<store, lock, answer, watch, net, bounds>>

\* The request may be lost, or reach the network whatever the Host hears of it.
Submit(h) ==
    /\ At(h, "submit")
    /\ \E delivered \in {{}, {Tx(task[h].seen)}} : sent' = sent \cup delivered
    /\ Goto(h, "submitted")
    /\ UNCHANGED <<store, watch, chain, view, bounds>>

SubmitAnswers(h) ==
    /\ At(h, "submitted") /\ Tx(task[h].seen) \in Landed(chain)
    /\ Learn(h, ResultIn(chain, Tx(task[h].seen)))
    /\ UNCHANGED <<store, lock, answer, watch, net, bounds>>

SubmitFails(h) ==
    /\ At(h, "submitted")
    /\ Goto(h, "lookupAfter")
    /\ UNCHANGED <<store, watch, net, bounds>>

LookupAfter(h, e) ==
    /\ At(h, "lookupAfter")
    /\ LET x == Tx(task[h].seen)
       IN  IF x \in Landed(view[e])
           THEN Learn(h, ResultIn(view[e], x)) /\ UNCHANGED <<lock, answer>>
           ELSE Unsettled(h)
    /\ UNCHANGED <<store, watch, net, bounds>>

BeginReconciliation(h) ==
    /\ At(h, "begin")
    /\ spend' = IF Same(spend, task[h].seen)
                THEN [spend EXCEPT !.state = "reconciling", !.result = task[h].seen.result]
                ELSE spend
    /\ Goto(h, "reread")
    /\ UNCHANGED <<receipt, acct, slot, watch, net, bounds>>

-----------------------------------------------------------------------------
\* Reconciling: the result must be visible where the balances are read.

\* As a bug would have it, the result is not looked up again.
TrustsResult(e, s) == e \in Endpoints /\ s.result \in Results
Visible(e, s) ==
    Tx(s) \in Landed(view[e]) /\ ResultIn(view[e], Tx(s)) = s.result

Confirm(h, e) ==
    /\ At(h, "confirm")
    /\ IF Visible(e, task[h].seen) THEN Goto(h, "cursor2") ELSE Unsettled(h)
    /\ UNCHANGED <<store, watch, net, bounds>>

CursorBeforeObservation(h) ==
    /\ At(h, "cursor2")
    /\ IF Same(spend, task[h].seen)
       THEN /\ TakeCursor(h, IF task[h].seen.slot = None THEN "account" ELSE "projection")
            /\ UNCHANGED <<lock, answer>>
       ELSE Unsettled(h)
    /\ UNCHANGED <<store, watch, net, bounds>>

ReadProjection(h) ==
    /\ At(h, "projection")
    /\ IF Same(spend, task[h].seen)
       THEN /\ task' = [task EXCEPT ![h].pc = "observeSlot",
                                    ![h].slotSeq = slot[task[h].seen.slot].seq]
            /\ UNCHANGED <<lock, answer>>
       ELSE Unsettled(h)
    /\ UNCHANGED <<store, watch, net, bounds>>

ObserveSlot(h, e) ==
    /\ At(h, "observeSlot")
    /\ task' = [task EXCEPT ![h].pc = "account", ![h].slotBal = view[e].bal[task[h].seen.slot]]
    /\ UNCHANGED <<store, lock, answer, watch, net, bounds>>

ObserveAccount(h, e) ==
    /\ At(h, "account")
    /\ task' = [task EXCEPT ![h].pc = "complete", ![h].bal = view[e].funds]
    /\ UNCHANGED <<store, lock, answer, watch, net, bounds>>

Complete(h) ==
    /\ At(h, "complete")
    /\ LET s == task[h].seen
       IN  IF Same(spend, s) /\ (s.slot # None => slot[s.slot].seq = task[h].slotSeq)
           THEN /\ spend' = Closed(spend, s.result)
                /\ receipt' = ReceiptAfter(spend, s.result)
                /\ acct' = AccountAfter(h)
                /\ slot' = [x \in Slots |-> IF x = s.slot
                                THEN [seq |-> slot[x].seq + 1, bal |-> task[h].slotBal]
                                ELSE slot[x]]
                /\ Goto(h, "completed")
           ELSE /\ UNCHANGED store
                /\ Goto(h, "superseded")
    /\ UNCHANGED <<watch, net, bounds>>

\* The answer is whatever terminal spend is read back.
ReadCompleted(h) ==
    /\ At(h, "completed")
    /\ IF spend.state \in Ended THEN Project(h, spend, task[h].own) ELSE Goto(h, "superseded")
    /\ UNCHANGED <<store, watch, net, bounds>>

ReadSuperseded(h) ==
    /\ At(h, "superseded")
    /\ IF spend.op = task[h].seen.op /\ spend.state \in Ended
       THEN Project(h, spend, task[h].own) ELSE Unsettled(h)
    /\ UNCHANGED <<store, watch, net, bounds>>

-----------------------------------------------------------------------------
\* Observers: read a cursor, ask an endpoint, write if nothing came between.

Observe(o) ==
    /\ watch[o].pc = "idle" /\ Busy < MaxBusy
    /\ LET what == watch[o].what
       IN  \/ /\ what = None /\ ~IsActive(spend) /\ acct.seq < MaxWrites
              /\ watch' = [watch EXCEPT ![o].pc = "balance", ![o].op = spend.op,
                                        ![o].state = spend.state, ![o].seq = acct.seq]
           \/ /\ what \in Slots /\ ~(RefillOf(what) /\ IsActive(spend)) /\ slot[what].seq < MaxWrites
              /\ watch' = [watch EXCEPT ![o].pc = "balance", ![o].seq = slot[what].seq]
    /\ UNCHANGED <<store, lock, task, answer, net, bounds>>

\* A read that fails is recorded as an unknown balance.
ObserveBalance(o, e) ==
    /\ watch[o].pc = "balance"
    /\ \E bal \in {None, IF watch[o].what = None THEN view[e].funds
                         ELSE view[e].bal[watch[o].what]} :
           watch' = [watch EXCEPT ![o].bal = bal, ![o].pc = "write"]
    /\ UNCHANGED <<store, lock, task, answer, net, bounds>>

\* An account observation is current while the spend it was taken beside is still
\* the last one, and no other observation was written; a slot's while its own
\* sequence is.
StillBeside(o) == ~IsActive(spend) /\ Same(spend, watch[o])
SeqKept(o) == watch[o].seq = IF watch[o].what = None THEN acct.seq ELSE slot[watch[o].what].seq

WriteObservation(o) ==
    /\ watch[o].pc = "write"
    /\ LET new == [seq |-> watch[o].seq + 1, bal |-> watch[o].bal]
           what == watch[o].what
       IN  /\ acct' = IF what = None /\ StillBeside(o) /\ SeqKept(o) THEN new ELSE acct
           /\ slot' = IF what \in Slots /\ SeqKept(o) THEN [slot EXCEPT ![what] = new] ELSE slot
           /\ watch' = [watch EXCEPT ![o] = Unseen(what)]
    /\ UNCHANGED <<spend, receipt, lock, task, answer, net, bounds>>

-----------------------------------------------------------------------------
\* Faults, time and the network.

Fault ==
    /\ faults # 0
    /\ faults' = IF faults = None THEN None ELSE faults - 1
    /\ UNCHANGED <<spends, deposits, drains>>

\* An RPC or Redis error, or an abort, ends the job.
Fails(h) ==
    /\ ~At(h, "idle") /\ Fault
    /\ Unsettled(h)
    /\ UNCHANGED <<store, watch, net>>

\* The process dies: what it held in memory is gone, the lock stays.
Crash(h) ==
    /\ ~At(h, "idle") /\ Fault
    /\ task' = [task EXCEPT ![h] = Resting]
    /\ answer' = IF task[h].job.kind = "withdraw"
                 THEN [answer EXCEPT ![task[h].job.request] = [status |-> "unsettled", op |-> None]]
                 ELSE answer
    /\ UNCHANGED <<store, lock, watch, net>>

\* The TTL frees the lock of a slow or dead Host, and forgets a receipt.
LockExpires ==
    /\ lock # None
    /\ lock' = None
    /\ UNCHANGED <<store, task, answer, watch, net, bounds>>

ReceiptExpires(n) ==
    /\ receipt[n].type # "absent"
    /\ receipt' = [receipt EXCEPT ![n] = [type |-> "absent"]]
    /\ UNCHANGED <<spend, acct, slot, lock, task, answer, watch, net, bounds>>

Succeed(x) ==
    /\ chain.funds >= Cost(x)
    /\ chain' = [chain EXCEPT !.succeeded = @ \cup {x}, !.funds = @ - Cost(x),
                              !.bal = [s \in Slots |-> IF s = x.slot THEN @[s] + x.amount ELSE @[s]]]

FailOnChain(x) ==
    /\ chain.funds >= Gas
    /\ chain' = [chain EXCEPT !.failed = @ \cup {x}, !.funds = @ - Gas]

Land(x) ==
    /\ x \in sent \ Landed(chain)
    /\ Succeed(x) \/ FailOnChain(x)
    /\ UNCHANGED <<store, lock, task, answer, watch, sent, view, bounds>>

CatchUp(e) ==
    /\ view[e] # chain
    /\ view' = [view EXCEPT ![e] = chain]
    /\ UNCHANGED <<store, lock, task, answer, watch, sent, chain, bounds>>

Deposit ==
    /\ deposits < MaxDeposits
    /\ deposits' = deposits + 1
    /\ chain' = [chain EXCEPT !.funds = @ + 1]
    /\ UNCHANGED <<store, lock, task, answer, watch, sent, view, spends, drains, faults>>

\* A slot pays the gas of sponsored transactions.
Drain(s) ==
    /\ drains < MaxDrains /\ chain.bal[s] > 0
    /\ drains' = drains + 1
    /\ chain' = [chain EXCEPT !.bal[s] = @ - 1]
    /\ UNCHANGED <<store, lock, task, answer, watch, sent, view, spends, deposits, faults>>

-----------------------------------------------------------------------------

Work(h) ==
    \/ Acquire(h) \/ ReadReceipt(h) \/ ReadAccepted(h) \/ ReadCurrent(h) \/ Recover(h)
    \/ Snapshot(h) \/ NoteBalance(h) \/ Reserve(h) \/ ReadCreated(h) \/ ReadActive(h)
    \/ Reread(h) \/ Simulate(h) \/ CursorBeforeFunds(h) \/ MarkReady(h)
    \/ FailReserved(h) \/ ReadFailed(h) \/ Submit(h) \/ SubmitAnswers(h)
    \/ BeginReconciliation(h) \/ CursorBeforeObservation(h) \/ ReadProjection(h)
    \/ Complete(h) \/ ReadCompleted(h) \/ ReadSuperseded(h)
    \/ \E e \in Endpoints : \/ ReadSlotBalance(h, e) \/ ReadFunds(h, e) \/ Lookup(h, e)
                            \/ LookupAfter(h, e) \/ Confirm(h, e)
                            \/ ObserveSlot(h, e) \/ ObserveAccount(h, e)

Faults(h) == AcquireTimesOut(h) \/ SubmitFails(h) \/ Fails(h) \/ Crash(h)

Jobs(h) ==
    \/ StartRecovery(h)
    \/ \E w \in Withdrawals : StartWithdrawal(h, w)
    \/ \E s \in Slots : StartRefill(h, s)

Observing(o) ==
    \/ Observe(o)
    \/ \E e \in Endpoints : ObserveBalance(o, e)
    \/ WriteObservation(o)

Environment ==
    \/ LockExpires \/ Deposit
    \/ \E n \in Nonces : ReceiptExpires(n)
    \/ \E x \in sent : Land(x)
    \/ \E e \in Endpoints : CatchUp(e)
    \/ \E s \in Slots : Drain(s)

Next ==
    \/ \E h \in Hosts : Jobs(h) \/ Work(h) \/ Faults(h)
    \/ \E o \in Observers : Observing(o)
    \/ Environment

Spec == Init /\ [][Next]_vars

-----------------------------------------------------------------------------
\* Fairness: the recovery runs at every interval (reconciliationScheduler.ts:388-401),
\* no call lasts forever, a submission that is repeated gets through, what reached
\* the network lands, and endpoints catch up.
Delivers(h) == Submit(h) /\ Tx(task[h].seen) \in sent'

Fairness ==
    /\ \A h \in Hosts : /\ SF_vars(StartRecovery(h)) /\ SF_vars(Delivers(h))
                        /\ WF_vars(Work(h) \/ AcquireTimesOut(h) \/ SubmitFails(h))
    /\ \A e \in Endpoints : WF_vars(CatchUp(e))
    /\ WF_vars(\E x \in sent : Land(x))

FairSpec == Spec /\ Fairness

-----------------------------------------------------------------------------
\* Properties

Operations == Nonces \X Nat \cup {"refill"} \X Nat
Balances == Nat \cup {None}
States == {"none"} \cup Active \cup Ended

ASSUME SpendAssumption ==
    /\ AmountOf \in [Withdrawals -> Nat \ {0}] /\ NonceOf \in [Withdrawals -> Nonces]
    /\ {Gas, Runway, Target, InitialFunds, InitialSlots} \subseteq Nat /\ MaxFaults \in Balances
    /\ "refill" \notin Nonces /\ "nothing" \notin Slots \cup {None}
    /\ None \notin Nat \cup Operations \cup Nonces \cup Slots \cup Hosts

SpendRecords == [serial : Nat, op : Operations \cup {None}, nonce : Nonces \cup {None},
    slot : Slots \cup {None}, amount : Nat, state : States, signed : BOOLEAN,
    result : Results \cup {"none"}, required : Balances]
Txs == [serial : Nat, op : Operations, nonce : Nonces \cup {None},
        slot : Slots \cup {None}, amount : Nat \ {0}]
Receipts ==
    [type : {"absent", "issued"}] \cup [type : {"accepted"}, op : Operations]
        \cup [type : {"terminal"}, op : Operations, result : Results]
Chains == [succeeded : SUBSET Txs, failed : SUBSET Txs, funds : Nat, bal : [Slots -> Nat]]
Observations == [seq : Nat, bal : Balances]

\* Where a worker is: taking its job, deciding, preparing a reserved spend, driving a
\* signed one, or reconciling.
Deciding    == {"acquire", "receipt", "accepted", "current", "reserve"}
Refills     == {"snapshot", "slotBalance", "note"}
Preparing   == {"simulate", "cursor", "funds", "ready", "blocking", "failing"}
Paying      == {"lookup", "submit", "submitted", "lookupAfter", "begin"}
Reconciling == {"confirm", "cursor2", "projection", "observeSlot", "account", "complete"}
Elsewhere   == {"idle", "recover", "created", "active", "reread", "failed", "completed", "superseded"}
JobRecords == [kind : {"none", "recover", "withdraw", "refill"}, request : Withdrawals \cup {None},
               slot : Slots \cup {None}]
Tasks == [pc : Deciding \cup Refills \cup Preparing \cup Paying \cup Reconciling \cup Elsewhere,
    job : JobRecords, locked : BOOLEAN, seen : SpendRecords, auth : BOOLEAN, own : BOOLEAN,
    cursor : Nat, slotSeq : Nat, needs : Balances, bal : Balances, slotBal : Balances]

\* There is no spend of nothing, and a spend has a result once it is known how it ended.
SpendOK(s) ==
    /\ s.state = "none" => s = NoSpend
    /\ s.state # "none" => s.op \in Operations /\ s.amount # 0
    /\ s.state \in Ended \cup {"reconciling"} => s.result # "none"

\* A worker has what its step needs.
TaskOK(t) ==
    /\ SpendOK(t.seen)
    /\ t.job.kind = "withdraw" => t.job.request \in Withdrawals
    /\ t.job.kind = "refill" => t.job.slot \in Slots
    /\ t.pc \in Deciding => t.job.kind \in {"withdraw", "refill"}
    /\ t.pc \in {"receipt", "accepted"} => t.job.kind = "withdraw"
    /\ t.pc \in Refills => t.job.kind = "refill"
    /\ t.pc = "reserve" /\ t.job.kind = "refill" => t.slotBal # None /\ t.slotBal < Target
    /\ t.pc \in Preparing => t.seen.state = "reserved"
    /\ t.pc \in Paying => t.seen.state = "ready"
    /\ t.pc \in Reconciling => t.seen.state = "reconciling"
    /\ t.pc = "begin" => t.seen.result \in {"succeeded", "failed"}
    /\ t.pc \in {"projection", "observeSlot"} => t.seen.slot # None
    /\ t.pc \in {"created", "reread", "failed"} => t.seen.state # "none"

Answers == [status : {"unasked", "asked", "unsettled", "nonce_missing"} \cup Results,
            op : Operations \cup {None}]
Watches == [pc : {"idle", "balance", "write"}, what : Entities, op : Operations \cup {None},
            state : States, seq : Nat, bal : Balances]

StoreOK ==
    /\ spend \in SpendRecords /\ SpendOK(spend)
    /\ spend.result # "none" <=> spend.state \in Ended \cup {"reconciling"}
    /\ receipt \in [Nonces -> Receipts]
    /\ acct \in Observations /\ slot \in [Slots -> Observations]
WorkersOK ==
    /\ lock \in Hosts \cup {None}
    /\ task \in [Hosts -> Tasks] /\ \A h \in Hosts : TaskOK(task[h])
    /\ \A h \in Hosts : task[h].pc = "active" => spend.state # "none"
    /\ answer \in [Withdrawals -> Answers]
WatchOK ==
    /\ watch \in [Observers -> Watches]
    /\ \A o \in Observers : watch[o].pc # "idle" => watch[o].what # "nothing"
NetOK ==
    /\ sent \subseteq Txs /\ chain \in Chains /\ Landed(chain) \subseteq sent
    /\ view \in [Endpoints -> Chains]
BoundsOK == spends \in Nat /\ deposits \in Nat /\ drains \in Nat /\ faults \in Balances

\* What is stored and what a worker carries is of its type, and of the step it is at.
TypeOK == StoreOK /\ WorkersOK /\ WatchOK /\ NetOK /\ BoundsOK

\* Whatever races, every transaction that is in flight is the one whose exact
\* identity the durable record holds, signed and not yet reconciled: none is
\* forgotten, and there are never two (markReady, markReconciling).
InFlightIsRecorded ==
    \A x \in sent \ Landed(chain) : x = Tx(spend) /\ spend.state = "ready"

\* What the record and the receipts say of an ended spend is what the chain did,
\* and what failed before it was signed never reached the network.
Agrees(op, result) ==
    CASE result = "succeeded"      -> \E x \in chain.succeeded : x.op = op
      [] result = "failed"         -> \A x \in sent : x.op = op => x \in chain.failed
      [] result = "runway_blocked" -> \A x \in sent : x.op # op
OutcomeIsOnChain ==
    /\ spend.state \in Ended \cup {"reconciling"} => Agrees(spend.op, spend.result)
    /\ \A n \in Nonces : receipt[n].type = "terminal" =>
            Agrees(receipt[n].op, receipt[n].result)

\* A nonce pays once, however often the request is repeated and whatever expired.
NoncePaysOnce ==
    \A x, y \in sent : x.nonce = y.nonce /\ x.nonce # None => x = y

\* The result a request hears is what the chain did with the operation it names,
\* also when it is told later, of a receipt, or by another Host.
AnswerIsTrue ==
    \A w \in Withdrawals : answer[w].status \in Results => Agrees(answer[w].op, answer[w].status)

\* With one endpoint (a second one may not yet know the spend that the first one
\* confirmed): while no spend is under way, the recorded balance is not above the
\* account's, whichever of the observers and spends that read it writes last.
NoPhantomFunds ==
    ~IsActive(spend) /\ acct.bal # None => acct.bal <= chain.funds

\* With one endpoint, no slot is filled beyond the target, by two refills of one shortage or by one
\* computed of an old balance.
NoSlotOverfilled == \A s \in Slots : chain.bal[s] <= Target

\* With one endpoint, whatever lands leaves the runway in the account.
RunwayKept == Landed(chain) # {} => chain.funds >= Runway

\* A spend that is under way is ended, whatever request it came from and whatever
\* became of it: the account is never blocked for good.
SpendEnds == spend.state \in Active ~> spend.state \notin Active

\* The whole pays one spend at a time.
Serial == INSTANCE SerialSpend WITH
    open <- IF IsActive(spend) THEN {Tx(spend)} ELSE {},
    signed <- spend.state \in {"ready", "reconciling"},
    paid <- chain.succeeded, reverted <- chain.failed
PaysSerially == Serial!Spec
=============================================================================
