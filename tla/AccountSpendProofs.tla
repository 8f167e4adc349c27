------------------------- MODULE AccountSpendProofs -------------------------
(***************************************************************************)
(* Proofs about AccountSpend for every number of Hosts, requests, slots,   *)
(* endpoints and observers, and every balance.                             *)
(***************************************************************************)
EXTENDS AccountSpend, TLAPS

-----------------------------------------------------------------------------
(* Types.                                                                   *)

LEMMA RestingTyped == Resting \in Tasks /\ TaskOK(Resting) /\ SpendOK(NoSpend)
<1>1. NoSpend \in SpendRecords /\ SpendOK(NoSpend)
  BY SpendAssumption DEF NoSpend, SpendRecords, SpendOK, States, Active, Ended, Results, Balances
<1>2. NoJob \in JobRecords /\ NoJob.kind = "none"
  BY DEF NoJob, JobRecords
<1>3. Resting \in Tasks
  BY <1>1, <1>2 DEF Resting, Tasks, Elsewhere, Balances
<1>. QED
  BY <1>1, <1>2, <1>3 DEF Resting, TaskOK, Deciding, Refills, Preparing, Paying, Reconciling

\* Moving to another step.
LEMMA PcTyped ==
    ASSUME NEW t \in Tasks, NEW pc
    PROVE  LET u == [t EXCEPT !.pc = pc]
           IN  /\ u.pc = pc /\ u.job = t.job /\ u.seen = t.seen /\ u.slotBal = t.slotBal
               /\ u.locked = t.locked
               /\ pc \in Deciding \cup Refills \cup Preparing \cup Paying \cup Reconciling \cup Elsewhere
                    => u \in Tasks
  BY DEF Tasks

\* A worker changes its record, whatever else a step does.
LEMMA WorkerTyped ==
    ASSUME WorkersOK, NEW h \in Hosts, NEW t \in Tasks, TaskOK(t),
           task' = [task EXCEPT ![h] = t],
           lock' \in Hosts \cup {None}, answer' \in [Withdrawals -> Answers],
           spend.state # "none" => spend'.state # "none",
           t.pc = "active" => spend'.state # "none"
    PROVE  WorkersOK'
<1>1. task' \in [Hosts -> Tasks]
  BY DEF WorkersOK
<1>2. ASSUME NEW k \in Hosts PROVE TaskOK(task'[k]) /\ (task'[k].pc = "active" => spend'.state # "none")
  BY DEF WorkersOK
<1>. QED
  BY <1>1, <1>2 DEF WorkersOK

\* A step of a worker that leaves the current spend alone and goes on to pc.
LEMMA GotoTyped ==
    ASSUME WorkersOK, NEW h \in Hosts, NEW pc, Goto(h, pc), spend.state # "none" => spend'.state # "none",
           pc \in Deciding \cup Refills \cup Preparing \cup Paying \cup Reconciling \cup Elsewhere,
           pc = "active" => spend'.state # "none",
           TaskOK([task[h] EXCEPT !.pc = pc])
    PROVE  WorkersOK'
<1>1. task[h] \in Tasks
  BY DEF WorkersOK
<1> DEFINE t == [task[h] EXCEPT !.pc = pc]
<1>2. t \in Tasks /\ t.pc = pc
  BY <1>1, PcTyped
<1>3. task' = [task EXCEPT ![h] = t]
  BY DEF Goto, WorkersOK
<1>4. lock' \in Hosts \cup {None} /\ answer' \in [Withdrawals -> Answers]
  BY DEF Goto, WorkersOK
<1> HIDE DEF t
<1>. QED
  BY <1>2, <1>3, <1>4, WorkerTyped DEF t

LEMMA TellTyped ==
    ASSUME WorkersOK, NEW h \in Hosts, NEW status, NEW op, Tell(h, status, op),
           spend.state # "none" => spend'.state # "none",
           status \in {"unsettled", "nonce_missing"} \cup Results, op \in Operations \cup {None}
    PROVE  WorkersOK'
<1>1. task' = [task EXCEPT ![h] = Resting] /\ Resting.pc # "active"
  BY DEF Tell, Resting
<1>2. lock' \in Hosts \cup {None}
  BY DEF Tell, WorkersOK
<1>3. answer' \in [Withdrawals -> Answers]
  <2>1. task[h].job.kind = "withdraw" => task[h].job.request \in Withdrawals
    BY DEF WorkersOK, TaskOK
  <2>2. [status |-> status, op |-> op] \in Answers
    BY DEF Answers
  <2>. QED
    BY <2>1, <2>2 DEF Tell, WorkersOK
<1>. QED
  BY <1>1, <1>2, <1>3, WorkerTyped, RestingTyped

\* Going on with the spend that was read.
LEMMA DriveTyped ==
    ASSUME WorkersOK, NEW h \in Hosts, NEW s \in SpendRecords, SpendOK(s), s.state # "none",
           NEW auth \in BOOLEAN, NEW own \in BOOLEAN, Drive(h, s, auth, own),
           spend.state # "none" => spend'.state # "none"
    PROVE  WorkersOK'
<1>1. CASE s.state \in Ended
  <2>1. Project(h, s, own) /\ s.result \in Results /\ s.op \in Operations
    BY <1>1 DEF Drive, SpendOK, SpendRecords
  <2>. QED
    BY <2>1, TellTyped DEF Project, Unsettled
<1>2. CASE s.state \notin Ended
  <2> DEFINE t == [Resting EXCEPT !.job = task[h].job, !.locked = task[h].locked,
                        !.pc = FirstStep(s, auth), !.seen = s, !.auth = auth, !.own = own]
  <2>1. task' = [task EXCEPT ![h] = t] /\ UNCHANGED <<lock, answer>>
    BY <1>2 DEF Drive
  <2>2. s.state \in Active
    BY <1>2 DEF SpendRecords, States
  <2>3. /\ FirstStep(s, auth) \in Preparing \cup Paying \cup (Reconciling \ {"begin", "projection", "observeSlot"})
        /\ FirstStep(s, auth) \in Preparing => s.state = "reserved"
        /\ FirstStep(s, auth) \in Paying => s.state = "ready"
        /\ FirstStep(s, auth) \in Reconciling => s.state = "reconciling"
        /\ FirstStep(s, auth) \notin {"begin", "projection", "observeSlot"}
    BY <2>2 DEF FirstStep, Active, Preparing, Paying, Reconciling
  <2>4. task[h] \in Tasks /\ TaskOK(task[h])
    BY DEF WorkersOK
  <2>5. /\ t.pc = FirstStep(s, auth) /\ t.job = task[h].job /\ t.seen = s
        /\ t.locked = task[h].locked /\ t.auth = auth /\ t.own = own
    BY DEF Resting
  <2>6. t \in Tasks
    <3>1. task[h].job \in JobRecords /\ task[h].locked \in BOOLEAN
      BY <2>4 DEF Tasks
    <3>. HIDE DEF Resting
    <3>. QED
      BY <2>3, <3>1, RestingTyped DEF Tasks
  <2>7. TaskOK(t)
    BY <2>3, <2>4, <2>5 DEF TaskOK, Deciding, Refills, Preparing, Paying, Reconciling
  <2> HIDE DEF t
  <2>8. t.pc # "active"
    BY <2>3, <2>5 DEF Preparing, Paying, Reconciling
  <2>9. lock' \in Hosts \cup {None} /\ answer' \in [Withdrawals -> Answers]
    BY <2>1 DEF WorkersOK
  <2>. QED
    BY <2>1, <2>6, <2>7, <2>8, <2>9, WorkerTyped
<1>. QED
  BY <1>1, <1>2

-----------------------------------------------------------------------------
(* The steps of a worker that read, or answer, and write nothing.          *)

Starts(h) == StartRecovery(h) \/ (\E w \in Withdrawals : StartWithdrawal(h, w))
                 \/ (\E s \in Slots : StartRefill(h, s))
Requests(h) == Acquire(h) \/ AcquireTimesOut(h) \/ ReadReceipt(h) \/ ReadAccepted(h)
                   \/ ReadCurrent(h) \/ Recover(h) \/ Snapshot(h)
                   \/ (\E e \in Endpoints : ReadSlotBalance(h, e))
Rereads(h) == ReadCreated(h) \/ ReadActive(h) \/ Reread(h) \/ ReadFailed(h)
                   \/ ReadCompleted(h) \/ ReadSuperseded(h)
Prepares(h) == Simulate(h) \/ CursorBeforeFunds(h) \/ (\E e \in Endpoints : ReadFunds(h, e))
Looks(h) == SubmitAnswers(h) \/ SubmitFails(h)
                   \/ (\E e \in Endpoints : Lookup(h, e) \/ LookupAfter(h, e))
Reconciles(h) == CursorBeforeObservation(h) \/ ReadProjection(h)
                   \/ (\E e \in Endpoints : Confirm(h, e) \/ ObserveSlot(h, e) \/ ObserveAccount(h, e))
Reads(h) == Starts(h) \/ Requests(h) \/ Rereads(h) \/ Prepares(h) \/ Looks(h) \/ Reconciles(h)

LEMMA StartsTyped ==
    ASSUME TypeOK, NEW h \in Hosts, Starts(h) PROVE WorkersOK'
<1>. USE DEF TypeOK
<1>1. spend' = spend /\ lock' \in Hosts \cup {None}
  BY DEF Starts, StartRecovery, StartWithdrawal, StartRefill, store, WorkersOK
<1> DEFINE Goal == \E job \in JobRecords, pc \in {"recover", "acquire"} :
          /\ task' = [task EXCEPT ![h] = [Resting EXCEPT !.pc = pc, !.job = job]]
          /\ job.kind = "withdraw" => job.request \in Withdrawals
          /\ job.kind = "refill" => job.slot \in Slots
          /\ pc = "acquire" => job.kind \in {"withdraw", "refill"}
<1>2. PICK job \in JobRecords, pc \in {"recover", "acquire"} :
          /\ task' = [task EXCEPT ![h] = [Resting EXCEPT !.pc = pc, !.job = job]]
          /\ job.kind = "withdraw" => job.request \in Withdrawals
          /\ job.kind = "refill" => job.slot \in Slots
          /\ pc = "acquire" => job.kind \in {"withdraw", "refill"}
  <2>1. CASE StartRecovery(h)
    <3>1. [NoJob EXCEPT !.kind = "recover"] \in JobRecords
      BY DEF NoJob, JobRecords
    <3>2. task' = [task EXCEPT ![h] = [Resting EXCEPT !.pc = "recover",
                                          !.job = [NoJob EXCEPT !.kind = "recover"]]]
      BY <2>1 DEF StartRecovery, Resting
    <3>. QED
      BY <3>1, <3>2 DEF NoJob
  <2>2. ASSUME NEW w \in Withdrawals, StartWithdrawal(h, w)
        PROVE  Goal
    <3> DEFINE job == [NoJob EXCEPT !.kind = "withdraw", !.request = w]
    <3>1. job \in JobRecords /\ job.kind = "withdraw" /\ job.request = w
      BY DEF NoJob, JobRecords
    <3>2. task' = [task EXCEPT ![h] = [Resting EXCEPT !.pc = "acquire", !.job = job]]
      BY <2>2 DEF StartWithdrawal
    <3> HIDE DEF job
    <3>. QED
      BY <3>1, <3>2
  <2>3. ASSUME NEW s \in Slots, StartRefill(h, s)
        PROVE  Goal
    <3> DEFINE job == [NoJob EXCEPT !.kind = "refill", !.slot = s]
    <3>1. job \in JobRecords /\ job.kind = "refill" /\ job.slot = s
      BY DEF NoJob, JobRecords
    <3>2. task' = [task EXCEPT ![h] = [Resting EXCEPT !.pc = "acquire", !.job = job]]
      BY <2>3 DEF StartRefill
    <3> HIDE DEF job
    <3>. QED
      BY <3>1, <3>2
  <2>. QED
    BY <2>1, <2>2, <2>3 DEF Starts
<1>3. answer' \in [Withdrawals -> Answers]
  <2>1. ASSUME NEW w \in Withdrawals, StartWithdrawal(h, w) PROVE answer' \in [Withdrawals -> Answers]
    BY <2>1 DEF StartWithdrawal, WorkersOK, Answers
  <2>. QED
    BY <2>1 DEF Starts, StartRecovery, StartRefill, WorkersOK
<1> DEFINE t == [Resting EXCEPT !.pc = pc, !.job = job]
<1>4. t.pc = pc /\ t.job = job /\ t.seen = NoSpend /\ t.slotBal = None
  BY DEF Resting
<1>5. t \in Tasks
  BY RestingTyped DEF Tasks, Deciding, Elsewhere
<1>6. TaskOK(t)
  BY <1>2, <1>4, RestingTyped DEF TaskOK, Deciding, Refills, Preparing, Paying, Reconciling
<1> HIDE DEF t
<1>. QED
  BY <1>1, <1>2, <1>3, <1>4, <1>5, <1>6, WorkerTyped DEF t

\* What is known of the record of a worker.
LEMMA WorkerFacts ==
    ASSUME WorkersOK, NEW h \in Hosts
    PROVE  /\ task[h] \in Tasks /\ TaskOK(task[h])
           /\ task[h].job \in JobRecords /\ task[h].seen \in SpendRecords
           /\ task[h].auth \in BOOLEAN /\ task[h].own \in BOOLEAN /\ task[h].locked \in BOOLEAN
           /\ task[h].cursor \in Nat /\ task[h].slotSeq \in Nat /\ task[h].bal \in Balances
           /\ task[h].slotBal \in Balances
  BY DEF WorkersOK, Tasks

\* The owner of a withdrawal reads a spend that exists.
LEMMA OwnTyped ==
    ASSUME TypeOK, NEW h \in Hosts
    PROVE  /\ IsOwn(h, spend) \in BOOLEAN
           /\ IsOwn(h, spend) => spend.state # "none"
           /\ IsActive(spend) => spend.state # "none"
           /\ task[h].job.kind = "withdraw" =>
                  Wanted(h) \in Operations /\ NonceOf[task[h].job.request] \in Nonces
<1>1. task[h].job.kind = "withdraw" =>
          Wanted(h) \in Operations /\ NonceOf[task[h].job.request] \in Nonces
  BY SpendAssumption DEF TypeOK, WorkersOK, TaskOK, Wanted, OpOf, Operations
<1>2. spend.state = "none" => spend.op = None
  BY DEF TypeOK, StoreOK, SpendOK, NoSpend
<1>. QED
  BY <1>1, <1>2, SpendAssumption DEF IsOwn, IsActive, Active

LEMMA ReceiptFacts ==
    ASSUME StoreOK, NEW n \in Nonces
    PROVE  /\ receipt[n].type \in {"absent", "issued", "accepted", "terminal"}
           /\ receipt[n].type \in {"accepted", "terminal"} => receipt[n].op \in Operations
           /\ receipt[n].type = "terminal" => receipt[n].result \in Results
  BY DEF StoreOK, Receipts

LEMMA ByReceiptTyped ==
    ASSUME TypeOK, NEW h \in Hosts, task[h].job.kind = "withdraw",
           NEW n \in Nonces, ByReceipt(h, receipt[n]), UNCHANGED spend
    PROVE  WorkersOK'
<1>. USE DEF TypeOK
<1>1. task[h] \in Tasks /\ TaskOK(task[h])
  BY WorkerFacts
<1>2. ASSUME NEW pc \in {"current", "accepted"}, Goto(h, pc) PROVE WorkersOK'
  <2>1. TaskOK([task[h] EXCEPT !.pc = pc])
    BY <1>1, PcTyped DEF TaskOK, Deciding, Refills, Preparing, Paying, Reconciling
  <2>. QED
    BY <1>2, <2>1, GotoTyped DEF Deciding
<1>3. ASSUME Tell(h, "nonce_missing", None) PROVE WorkersOK'
  BY <1>3, TellTyped
<1>4. ASSUME Tell(h, receipt[n].result, receipt[n].op), receipt[n].type = "terminal" PROVE WorkersOK'
  BY <1>4, TellTyped, ReceiptFacts
<1>. QED
  BY <1>2, <1>3, <1>4 DEF ByReceipt

LEMMA RequestsTyped ==
    ASSUME TypeOK, NEW h \in Hosts, Requests(h) PROVE WorkersOK'
<1>. USE DEF TypeOK
<1>1. spend' = spend /\ SpendOK(spend) /\ spend \in SpendRecords
  BY DEF Requests, Acquire, AcquireTimesOut, ReadReceipt, ReadAccepted, ReadCurrent, Recover,
         Snapshot, ReadSlotBalance, store, StoreOK
<1>2. task[h] \in Tasks /\ TaskOK(task[h])
  BY WorkerFacts
<1>3. ASSUME Unsettled(h) PROVE WorkersOK'
  BY <1>1, <1>3, TellTyped DEF Unsettled
<1>4. ASSUME NEW own \in BOOLEAN, Drive(h, spend, FALSE, own), spend.state # "none" PROVE WorkersOK'
  BY <1>1, <1>4, DriveTyped
<1>5. CASE Acquire(h)
  <2> DEFINE t == [task[h] EXCEPT !.locked = TRUE,
                        !.pc = IF task[h].job.kind = "withdraw" THEN "receipt" ELSE "current"]
  <2>1. task' = [task EXCEPT ![h] = t] /\ lock' = h /\ answer' = answer
    BY <1>5 DEF Acquire
  <2>2. t \in Tasks /\ t.job = task[h].job /\ t.seen = task[h].seen /\ t.slotBal = task[h].slotBal
        /\ t.pc = IF task[h].job.kind = "withdraw" THEN "receipt" ELSE "current"
    BY <1>2 DEF Tasks, Deciding
  <2>3. TaskOK(t)
    BY <1>2, <1>5, <2>2 DEF TaskOK, Acquire, At, Deciding, Refills, Preparing, Paying, Reconciling
  <2> HIDE DEF t
  <2>. QED
    BY <1>1, <2>1, <2>2, <2>3, WorkerTyped DEF WorkersOK
<1>6. CASE AcquireTimesOut(h)
  BY <1>3, <1>6 DEF AcquireTimesOut
<1>7. CASE ReadReceipt(h)
  BY <1>1, <1>2, <1>7, OwnTyped, ByReceiptTyped DEF ReadReceipt, At, TaskOK
<1>8. CASE ReadAccepted(h)
  BY <1>3, <1>4, <1>8, OwnTyped DEF ReadAccepted
<1>9. CASE ReadCurrent(h)
  <2>1. CASE IsOwn(h, spend) \/ IsActive(spend)
    BY <1>4, <1>9, <2>1, OwnTyped DEF ReadCurrent
  <2>2. CASE ~(IsOwn(h, spend) \/ IsActive(spend))
    <3> DEFINE pc == IF task[h].job.kind = "withdraw" THEN "reserve" ELSE "snapshot"
    <3>1. Goto(h, pc)
      BY <1>9, <2>2 DEF ReadCurrent
    <3>2. TaskOK([task[h] EXCEPT !.pc = pc])
      BY <1>2, <1>9, PcTyped DEF ReadCurrent, At, TaskOK, Deciding, Refills, Preparing, Paying, Reconciling
    <3>. QED
      BY <1>1, <3>1, <3>2, GotoTyped DEF Deciding, Refills
  <2>. QED
    BY <2>1, <2>2
<1>10. CASE Recover(h)
  BY <1>3, <1>4, <1>10, OwnTyped DEF Recover
<1>11. CASE Snapshot(h)
  <2>1. task[h].pc = "snapshot" /\ task[h].job.slot \in Slots
    BY <1>2, <1>11 DEF Snapshot, At, TaskOK, Refills
  <2> DEFINE s == task[h].job.slot
             t == [task[h] EXCEPT !.pc = "slotBalance", !.slotSeq = slot[s].seq,
                        !.needs = IF RequiredFor(s) = None THEN None ELSE acct.seq]
  <2>2. CASE task' = [task EXCEPT ![h] = t] /\ UNCHANGED <<lock, answer>>
    <3>1. slot[s].seq \in Nat /\ acct.seq \in Nat
      BY <2>1 DEF StoreOK, Observations
    <3>2. t \in Tasks /\ t.pc = "slotBalance" /\ t.job = task[h].job /\ t.seen = task[h].seen
      BY <1>2, <3>1, ZenonT(60) DEF Tasks, Refills, Balances
    <3>3. TaskOK(t)
      BY <1>2, <2>1, <3>2 DEF TaskOK, Deciding, Refills, Preparing, Paying, Reconciling
    <3> HIDE DEF t
    <3>. QED
      BY <1>1, <2>2, <3>2, <3>3, WorkerTyped DEF WorkersOK
  <2>. QED
    BY <1>3, <1>11, <2>2 DEF Snapshot
<1>12. ASSUME NEW e \in Endpoints, ReadSlotBalance(h, e) PROVE WorkersOK'
  <2>1. task[h].pc = "slotBalance" /\ task[h].job.kind = "refill" /\ task[h].job.slot \in Slots
    BY <1>2, <1>12 DEF ReadSlotBalance, At, TaskOK, Refills
  <2> DEFINE bal == view[e].bal[task[h].job.slot]
             pc == IF bal >= Target THEN "note" ELSE "reserve"
             t == [task[h] EXCEPT !.slotBal = bal, !.pc = pc]
  <2>2. bal \in Nat /\ bal # None
    <3>1. view[e].bal \in [Slots -> Nat]
      BY DEF NetOK, Chains
    <3>. QED
      BY <2>1, <3>1, SpendAssumption
  <2>3. task' = [task EXCEPT ![h] = t] /\ UNCHANGED <<lock, answer>>
    BY <1>12 DEF ReadSlotBalance
  <2>4. pc \in {"note", "reserve"} /\ (pc = "reserve" => bal < Target)
    BY <2>2, SpendAssumption
  <2> HIDE DEF pc, bal
  <2>5. /\ t.pc = pc /\ t.job = task[h].job /\ t.seen = task[h].seen /\ t.slotBal = bal
        /\ t \in Tasks
    BY <1>2, <2>2, <2>4 DEF Tasks, Refills, Deciding, Balances
  <2> HIDE DEF t
  <2>6. TaskOK(t)
    BY <1>2, <2>1, <2>2, <2>4, <2>5 DEF TaskOK, Deciding, Refills, Preparing, Paying, Reconciling
  <2>. QED
    BY <1>1, <2>3, <2>4, <2>5, <2>6, WorkerTyped DEF WorkersOK
<1>. QED
  BY <1>5, <1>6, <1>7, <1>8, <1>9, <1>10, <1>11, <1>12 DEF Requests

LEMMA RereadsTyped ==
    ASSUME TypeOK, NEW h \in Hosts, Rereads(h) PROVE WorkersOK'
<1>. USE DEF TypeOK
<1>1. spend' = spend /\ SpendOK(spend) /\ spend \in SpendRecords
  BY DEF Rereads, ReadCreated, ReadActive, Reread, ReadFailed, ReadCompleted, ReadSuperseded, store, StoreOK
<1>2. TaskOK(task[h]) /\ task[h].auth \in BOOLEAN /\ task[h].own \in BOOLEAN /\ IsOwn(h, spend) \in BOOLEAN
  BY WorkerFacts, OwnTyped
<1>3. ASSUME Unsettled(h) PROVE WorkersOK'
  BY <1>1, <1>3, TellTyped DEF Unsettled
<1>4. ASSUME NEW auth \in BOOLEAN, NEW own \in BOOLEAN, Drive(h, spend, auth, own), spend.state # "none"
      PROVE  WorkersOK'
  BY <1>1, <1>4, DriveTyped
<1>5. ASSUME NEW own \in BOOLEAN, Project(h, spend, own), spend.state \in Ended PROVE WorkersOK'
  <2>1. spend.result \in Results /\ spend.op \in Operations
    BY <1>1, <1>5 DEF SpendOK, SpendRecords, Ended
  <2>. QED
    BY <1>1, <1>5, <2>1, TellTyped DEF Project, Unsettled
<1>6. ASSUME spend.op = task[h].seen.op, task[h].seen.state # "none" PROVE spend.state # "none"
  BY <1>1, <1>2, <1>6, SpendAssumption DEF TaskOK, SpendOK, NoSpend
<1>7. CASE ReadCreated(h)
  BY <1>2, <1>3, <1>4, <1>6, <1>7 DEF ReadCreated, At, TaskOK
<1>8. CASE ReadActive(h)
  BY <1>2, <1>4, <1>8 DEF ReadActive, At, WorkersOK
<1>9. CASE Reread(h)
  BY <1>2, <1>3, <1>4, <1>6, <1>9 DEF Reread, At, TaskOK
<1>10. ASSUME NEW pc \in {"reread", "superseded"}, Goto(h, pc), pc = "reread" => task[h].seen.state # "none"
       PROVE  WorkersOK'
  <2>1. TaskOK([task[h] EXCEPT !.pc = pc])
    BY <1>2, <1>10, WorkerFacts, PcTyped DEF TaskOK, Deciding, Refills, Preparing, Paying, Reconciling
  <2>. QED
    BY <1>1, <1>10, <2>1, GotoTyped DEF Elsewhere
<1>11. CASE ReadFailed(h)
  BY <1>2, <1>5, <1>10, <1>11 DEF ReadFailed, At, TaskOK, Ended
<1>12. CASE ReadCompleted(h)
  BY <1>2, <1>5, <1>10, <1>12 DEF ReadCompleted
<1>13. CASE ReadSuperseded(h)
  BY <1>2, <1>3, <1>5, <1>13 DEF ReadSuperseded
<1>. QED
  BY <1>7, <1>8, <1>9, <1>11, <1>12, <1>13 DEF Rereads

\* A step of a prepared spend to another.
LEMMA StageTyped ==
    ASSUME WorkersOK, NEW h \in Hosts, spend.state # "none" => spend'.state # "none",
           UNCHANGED <<lock, answer>>, NEW t \in Tasks, t.job = task[h].job,
           t.seen = task[h].seen, task' = [task EXCEPT ![h] = t],
           \/ t.pc \in Preparing /\ task[h].pc \in Preparing
           \/ /\ t.pc \in Paying /\ task[h].pc \in Paying /\ t.pc # "begin"
           \/ /\ t.pc \in Reconciling /\ task[h].pc \in Reconciling
              /\ t.pc \in {"projection", "observeSlot"} => t.seen.slot # None
    PROVE  WorkersOK'
<1>1. task[h] \in Tasks /\ TaskOK(task[h])
  BY WorkerFacts
<1>2. TaskOK(t)
  BY <1>1 DEF TaskOK, Deciding, Refills, Preparing, Paying, Reconciling
<1>3. t.pc # "active"
  BY DEF Preparing, Paying, Reconciling
<1>. QED
  BY <1>2, <1>3, WorkerTyped DEF WorkersOK

LEMMA StageGotoTyped ==
    ASSUME WorkersOK, NEW h \in Hosts, spend.state # "none" => spend'.state # "none",
           NEW pc, Goto(h, pc),
           \/ pc \in Preparing /\ task[h].pc \in Preparing
           \/ pc \in Paying /\ task[h].pc \in Paying /\ pc # "begin"
           \/ pc = "cursor2" /\ task[h].pc \in Reconciling
           \/ pc = "reread" /\ task[h].pc \in Preparing \cup Paying
    PROVE  WorkersOK'
<1> DEFINE t == [task[h] EXCEPT !.pc = pc]
<1>1. task[h] \in Tasks /\ TaskOK(task[h])
  BY WorkerFacts
<1>2. /\ t.pc = pc /\ t.job = task[h].job /\ t.seen = task[h].seen /\ t.slotBal = task[h].slotBal
      /\ pc \in Preparing \cup Paying \cup {"cursor2", "reread"} => t \in Tasks
  BY <1>1, PcTyped DEF Preparing, Paying, Reconciling, Elsewhere
<1> HIDE DEF t
<1>3. TaskOK(t) /\ t.pc # "active"
  BY <1>1, <1>2 DEF TaskOK, Deciding, Refills, Preparing, Paying, Reconciling
<1>. QED
  BY <1>2, <1>3, WorkerTyped DEF t, Goto, WorkersOK

\* Taking the cursor.
LEMMA CursorTyped ==
    ASSUME TypeOK, NEW h \in Hosts, NEW pc, TakeCursor(h, pc), UNCHANGED <<spend, lock, answer>>,
           \/ pc \in Preparing /\ task[h].pc \in Preparing
           \/ pc \in Reconciling /\ task[h].pc \in Reconciling
              /\ (pc \in {"projection", "observeSlot"} => task[h].seen.slot # None)
    PROVE  WorkersOK'
<1>. USE DEF TypeOK
<1> DEFINE t == [task[h] EXCEPT !.cursor = acct.seq, !.pc = pc]
<1>1. task[h] \in Tasks /\ acct.seq \in Nat
  BY WorkerFacts DEF StoreOK, Observations
<1>2. t \in Tasks /\ t.pc = pc /\ t.job = task[h].job /\ t.seen = task[h].seen
  BY <1>1 DEF Tasks, Preparing, Reconciling
<1>3. task' = [task EXCEPT ![h] = t]
  BY DEF TakeCursor, WorkersOK
<1> HIDE DEF t
<1>. QED
  BY <1>2, <1>3, StageTyped

LEMMA PreparesTyped ==
    ASSUME TypeOK, NEW h \in Hosts, Prepares(h) PROVE WorkersOK'
<1>. USE DEF TypeOK
<1>1. spend' = spend
  BY DEF Prepares, Simulate, CursorBeforeFunds, ReadFunds, store
<1>2. CASE Simulate(h)
  BY <1>1, <1>2, StageGotoTyped DEF Simulate, At, Preparing
<1>3. CASE CursorBeforeFunds(h)
  <2>1. task[h].pc \in Preparing /\ "funds" \in Preparing
    BY <1>3 DEF CursorBeforeFunds, At, Preparing
  <2>2. CASE Goto(h, "reread")
    BY <1>1, <2>1, <2>2, StageGotoTyped
  <2>3. CASE TakeCursor(h, "funds") /\ UNCHANGED <<lock, answer>>
    BY <1>1, <2>1, <2>3, CursorTyped
  <2>. QED
    BY <1>3, <2>2, <2>3 DEF CursorBeforeFunds
<1>4. ASSUME NEW e \in Endpoints, ReadFunds(h, e) PROVE WorkersOK'
  <2> DEFINE bal == view[e].funds
             pc == IF KeepsRunway(bal, task[h].seen) THEN "ready" ELSE "blocking"
             t == [task[h] EXCEPT !.bal = bal, !.pc = pc]
  <2>1. bal \in Nat /\ pc \in {"ready", "blocking"}
    BY DEF NetOK, Chains
  <2>2. task' = [task EXCEPT ![h] = t] /\ UNCHANGED <<lock, answer>> /\ task[h].pc \in Preparing
    BY <1>4 DEF ReadFunds, At, Preparing
  <2> HIDE DEF bal, pc
  <2>3. t \in Tasks /\ t.pc = pc /\ t.job = task[h].job /\ t.seen = task[h].seen
    BY <2>1, WorkerFacts DEF Tasks, Preparing, Balances
  <2> HIDE DEF t
  <2>. QED
    BY <1>1, <2>1, <2>2, <2>3, StageTyped DEF Preparing
<1>. QED
  BY <1>2, <1>3, <1>4 DEF Prepares

\* Learning how the transaction of a signed spend ended.
LEMMA LearnTyped ==
    ASSUME WorkersOK, NEW h \in Hosts, NEW result \in {"succeeded", "failed"}, Learn(h, result),
           task[h].pc \in Paying, UNCHANGED <<spend, lock, answer>>
    PROVE  WorkersOK'
<1>1. /\ task[h] \in Tasks /\ TaskOK(task[h]) /\ task[h].seen \in SpendRecords
      /\ task[h].seen.state = "ready"
  BY WorkerFacts DEF TaskOK
<1> DEFINE s == [task[h].seen EXCEPT !.result = result]
           t == [task[h] EXCEPT !.pc = "begin", !.seen = s]
<1>2. s \in SpendRecords /\ s.result = result /\ s.state = "ready" /\ SpendOK(s)
  BY <1>1 DEF SpendRecords, SpendOK, Results, Ended, TaskOK
<1> HIDE DEF s
<1>3. t \in Tasks /\ t.pc = "begin" /\ t.seen = s /\ t.job = task[h].job
  BY <1>1, <1>2 DEF Tasks, Paying
<1>4. task' = [task EXCEPT ![h] = t]
  BY DEF Learn, WorkersOK, s
<1> HIDE DEF t
<1>5. TaskOK(t)
  BY <1>1, <1>2, <1>3 DEF TaskOK, Deciding, Refills, Preparing, Paying, Reconciling
<1>. QED
  BY <1>3, <1>4, <1>5, WorkerTyped DEF WorkersOK

LEMMA LooksTyped ==
    ASSUME TypeOK, NEW h \in Hosts, Looks(h) PROVE WorkersOK'
<1>. USE DEF TypeOK
<1>1. spend' = spend
  BY DEF Looks, SubmitAnswers, SubmitFails, Lookup, LookupAfter, store
<1>2. ASSUME NEW v, NEW x PROVE ResultIn(v, x) \in {"succeeded", "failed"}
  BY DEF ResultIn
<1>3. CASE SubmitAnswers(h)
  BY <1>1, <1>2, <1>3, LearnTyped DEF SubmitAnswers, At, Paying
<1>4. CASE SubmitFails(h)
  BY <1>1, <1>4, StageGotoTyped DEF SubmitFails, At, Paying
<1>5. ASSUME NEW e \in Endpoints, Lookup(h, e) PROVE WorkersOK'
  <2>1. task[h].pc \in Paying /\ UNCHANGED <<lock, answer>>
    BY <1>5 DEF Lookup, At, Paying
  <2>2. ASSUME task' = [task EXCEPT ![h].pc = "submit"] PROVE WorkersOK'
    BY <1>1, <2>1, <2>2, StageGotoTyped DEF Goto, Paying
  <2>. QED
    BY <1>1, <1>2, <1>5, <2>1, <2>2, LearnTyped DEF Lookup
<1>6. ASSUME NEW e \in Endpoints, LookupAfter(h, e) PROVE WorkersOK'
  <2>1. task[h].pc \in Paying
    BY <1>6 DEF LookupAfter, At, Paying
  <2>2. ASSUME Unsettled(h) PROVE WorkersOK'
    BY <1>1, <2>2, TellTyped DEF Unsettled
  <2>. QED
    BY <1>1, <1>2, <1>6, <2>1, <2>2, LearnTyped DEF LookupAfter
<1>. QED
  BY <1>3, <1>4, <1>5, <1>6 DEF Looks

LEMMA ReconcilesTyped ==
    ASSUME TypeOK, NEW h \in Hosts, Reconciles(h) PROVE WorkersOK'
<1>. USE DEF TypeOK
<1>1. spend' = spend
  BY DEF Reconciles, CursorBeforeObservation, ReadProjection, Confirm, ObserveSlot, ObserveAccount, store
<1>2. task[h] \in Tasks /\ TaskOK(task[h]) /\ task[h].seen.slot \in Slots \cup {None}
  BY WorkerFacts DEF SpendRecords
<1>3. ASSUME Unsettled(h) PROVE WorkersOK'
  BY <1>1, <1>3, TellTyped DEF Unsettled
<1>4. ASSUME NEW e \in Endpoints, Confirm(h, e) PROVE WorkersOK'
  <2>1. ASSUME Goto(h, "cursor2") PROVE WorkersOK'
    BY <1>1, <1>4, <2>1, StageGotoTyped DEF Confirm, At, Reconciling
  <2>. QED
    BY <1>3, <1>4, <2>1 DEF Confirm
<1>5. CASE CursorBeforeObservation(h)
  <2> DEFINE pc == IF task[h].seen.slot = None THEN "account" ELSE "projection"
  <2>1. ASSUME TakeCursor(h, pc), UNCHANGED <<lock, answer>> PROVE WorkersOK'
    <3>1. task[h].pc \in Reconciling /\ pc \in Reconciling
          /\ (pc \in {"projection", "observeSlot"} => task[h].seen.slot # None)
      BY <1>5 DEF CursorBeforeObservation, At, Reconciling
    <3> HIDE DEF pc
    <3>. QED
      BY <1>1, <2>1, <3>1, CursorTyped
  <2>. QED
    BY <1>3, <1>5, <2>1 DEF CursorBeforeObservation
<1>6. CASE ReadProjection(h)
  <2>1. task[h].pc \in Reconciling /\ task[h].seen.slot \in Slots /\ task[h].seen.slot # None
    BY <1>2, <1>6 DEF ReadProjection, At, Reconciling, TaskOK
  <2> DEFINE t == [task[h] EXCEPT !.pc = "observeSlot", !.slotSeq = slot[task[h].seen.slot].seq]
  <2>2. t \in Tasks /\ t.pc = "observeSlot" /\ t.job = task[h].job /\ t.seen = task[h].seen
    BY <1>2, <2>1 DEF Tasks, Reconciling, StoreOK, Observations
  <2>3. ASSUME task' = [task EXCEPT ![h] = t], UNCHANGED <<lock, answer>> PROVE WorkersOK'
    <3> HIDE DEF t
    <3>. QED
      BY <1>1, <2>1, <2>2, <2>3, StageTyped DEF Reconciling
  <2>. QED
    BY <1>3, <1>6, <2>3 DEF ReadProjection
<1>7. ASSUME NEW e \in Endpoints, ObserveSlot(h, e) PROVE WorkersOK'
  <2>1. task[h].pc \in Reconciling /\ task[h].seen.slot \in Slots
    BY <1>2, <1>7 DEF ObserveSlot, At, Reconciling, TaskOK
  <2> DEFINE t == [task[h] EXCEPT !.pc = "account", !.slotBal = view[e].bal[task[h].seen.slot]]
  <2>2. view[e].bal[task[h].seen.slot] \in Balances
    BY <2>1 DEF NetOK, Chains, Balances
  <2>3. t \in Tasks /\ t.pc = "account" /\ t.job = task[h].job /\ t.seen = task[h].seen
    BY <1>2, <2>2 DEF Tasks, Reconciling
  <2>4. task' = [task EXCEPT ![h] = t] /\ UNCHANGED <<lock, answer>>
    BY <1>7 DEF ObserveSlot
  <2> HIDE DEF t
  <2>. QED
    BY <1>1, <2>1, <2>3, <2>4, StageTyped DEF Reconciling
<1>8. ASSUME NEW e \in Endpoints, ObserveAccount(h, e) PROVE WorkersOK'
  <2> DEFINE t == [task[h] EXCEPT !.pc = "complete", !.bal = view[e].funds]
  <2>1. view[e].funds \in Balances
    BY DEF NetOK, Chains, Balances
  <2>2. t \in Tasks /\ t.pc = "complete" /\ t.job = task[h].job /\ t.seen = task[h].seen
    BY <1>2, <2>1 DEF Tasks, Reconciling
  <2>3. task' = [task EXCEPT ![h] = t] /\ UNCHANGED <<lock, answer>> /\ task[h].pc \in Reconciling
    BY <1>8 DEF ObserveAccount, At, Reconciling
  <2> HIDE DEF t
  <2>. QED
    BY <1>1, <2>2, <2>3, StageTyped DEF Reconciling
<1>. QED
  BY <1>4, <1>5, <1>6, <1>7, <1>8 DEF Reconciles

LEMMA ReadsTyped ==
    ASSUME TypeOK, NEW h \in Hosts, Reads(h) PROVE TypeOK'
<1>1. WorkersOK'
  BY StartsTyped, RequestsTyped, RereadsTyped, PreparesTyped, LooksTyped, ReconcilesTyped DEF Reads
<1>2. UNCHANGED <<store, watch, net, bounds>>
  BY DEF Reads, Starts, StartRecovery, StartWithdrawal, StartRefill, Requests, Acquire, AcquireTimesOut,
         ReadReceipt, ReadAccepted, ReadCurrent, Recover, Snapshot, ReadSlotBalance, Rereads,
         ReadCreated, ReadActive, Reread, ReadFailed, ReadCompleted, ReadSuperseded, Prepares,
         Simulate, CursorBeforeFunds, ReadFunds, Looks, SubmitAnswers, SubmitFails, Lookup,
         LookupAfter, Reconciles, CursorBeforeObservation, ReadProjection, Confirm, ObserveSlot,
         ObserveAccount
<1>. QED
  BY <1>1, <1>2 DEF TypeOK, StoreOK, WatchOK, NetOK, BoundsOK, store, net, bounds

-----------------------------------------------------------------------------
(* The steps of a worker that write.                                        *)

\* The spend that a worker asks for.
LEMMA AskedTyped ==
    ASSUME TypeOK, NEW h \in Hosts, At(h, "reserve")
    PROVE  /\ Asked(h) \in SpendRecords /\ SpendOK(Asked(h))
           /\ Asked(h).state = "reserved" /\ Asked(h).serial = spends + 1 /\ Asked(h).result = "none"
           /\ Asked(h).op \in Operations
           /\ task[h].job.kind = "withdraw" =>
                  /\ task[h].job.request \in Withdrawals /\ Asked(h).op = OpOf(task[h].job.request)
                  /\ Asked(h).nonce = NonceOf[task[h].job.request] /\ Asked(h).nonce \in Nonces
                  /\ Asked(h).slot = None
           /\ task[h].job.kind # "withdraw" =>
                  /\ task[h].job.slot \in Slots /\ Asked(h).op = <<"refill", spends + 1>>
                  /\ Asked(h).nonce = None /\ Asked(h).slot = task[h].job.slot
                  /\ task[h].slotBal \in Nat /\ Asked(h).amount = Target - task[h].slotBal
<1>. USE DEF TypeOK
<1>1. task[h].job.kind \in {"withdraw", "refill"} /\ TaskOK(task[h]) /\ spends \in Nat
      /\ task[h].slotBal \in Balances
  BY WorkerFacts DEF At, TaskOK, Deciding, BoundsOK
<1>2. CASE task[h].job.kind = "withdraw"
  <2> DEFINE w == task[h].job.request
  <2>1. w \in Withdrawals
    BY <1>1, <1>2 DEF TaskOK
  <2>2. /\ OpOf(w) \in Operations /\ NonceOf[w] \in Nonces /\ AmountOf[w] \in Nat \ {0}
    BY <2>1, SpendAssumption DEF OpOf, Operations
  <2>3. Asked(h) = [serial |-> spends + 1, op |-> OpOf(w), nonce |-> NonceOf[w], slot |-> None,
                    amount |-> AmountOf[w], state |-> "reserved", signed |-> FALSE,
                    result |-> "none", required |-> None]
    BY <1>2 DEF Asked, NoSpend
  <2> HIDE DEF w
  <2>4. /\ Asked(h).state = "reserved" /\ Asked(h).serial = spends + 1 /\ Asked(h).result = "none"
        /\ Asked(h).op = OpOf(w) /\ Asked(h).nonce = NonceOf[w] /\ Asked(h).slot = None
        /\ Asked(h).amount = AmountOf[w]
    BY <2>3
  <2>5. Asked(h) \in SpendRecords
    BY <1>1, <2>2, <2>3 DEF SpendRecords, States, Active, Balances
  <2>. QED
    BY <1>2, <2>1, <2>2, <2>4, <2>5 DEF SpendOK, Ended, w
<1>3. CASE task[h].job.kind # "withdraw"
  <2>1. /\ task[h].job.slot \in Slots /\ task[h].slotBal \in Nat /\ task[h].slotBal < Target
    BY <1>1, <1>3 DEF TaskOK, At, Balances
  <2>2. /\ <<"refill", spends + 1>> \in Operations /\ Target - task[h].slotBal \in Nat \ {0}
    BY <1>1, <2>1, SpendAssumption DEF Operations
  <2>3. Asked(h) = [serial |-> spends + 1, op |-> <<"refill", spends + 1>>, nonce |-> None,
                    slot |-> task[h].job.slot, amount |-> Target - task[h].slotBal,
                    state |-> "reserved", signed |-> FALSE, result |-> "none", required |-> None]
    BY <1>3 DEF Asked, NoSpend
  <2>4. /\ Asked(h).state = "reserved" /\ Asked(h).serial = spends + 1 /\ Asked(h).result = "none"
        /\ Asked(h).op = <<"refill", spends + 1>> /\ Asked(h).nonce = None
        /\ Asked(h).slot = task[h].job.slot /\ Asked(h).amount = Target - task[h].slotBal
    BY <2>3
  <2>5. Asked(h) \in SpendRecords
    BY <1>1, <2>1, <2>2, <2>3 DEF SpendRecords, States, Active, Balances
  <2>. QED
    BY <1>3, <2>1, <2>2, <2>4, <2>5 DEF SpendOK, Ended
<1>. QED
  BY <1>2, <1>3

LEMMA AcceptTyped ==
    ASSUME TypeOK, NEW h \in Hosts, At(h, "reserve"), Accept(h) PROVE StoreOK' /\ WorkersOK'
<1>. USE DEF TypeOK
<1>1. /\ Asked(h) \in SpendRecords /\ SpendOK(Asked(h)) /\ Asked(h).state = "reserved"
      /\ Asked(h).result = "none" /\ Asked(h).op \in Operations
      /\ task[h].job.kind = "withdraw" => Asked(h).nonce \in Nonces
      /\ task[h].job.kind # "withdraw" => task[h].job.slot \in Slots
  BY AskedTyped
<1>2. spend' = Asked(h)
  BY DEF Accept
<1>3. receipt' \in [Nonces -> Receipts]
  <2>1. [type |-> "accepted", op |-> Asked(h).op] \in Receipts
    BY <1>1 DEF Receipts
  <2>. QED
    BY <1>1, <2>1 DEF Accept, StoreOK
<1>4. acct' \in Observations /\ slot' \in [Slots -> Observations]
  BY <1>1 DEF Accept, StoreOK, Observations
<1>5. StoreOK'
  BY <1>1, <1>2, <1>3, <1>4 DEF StoreOK, Ended
<1> DEFINE t == [task[h] EXCEPT !.pc = "created", !.seen = Asked(h)]
<1>6. task' = [task EXCEPT ![h] = t] /\ UNCHANGED <<lock, answer>>
  BY DEF Accept
<1>7. task[h] \in Tasks /\ TaskOK(task[h])
  BY WorkerFacts
<1>8. t \in Tasks /\ t.pc = "created" /\ t.seen = Asked(h) /\ t.job = task[h].job
  BY <1>1, <1>7 DEF Tasks, Elsewhere
<1> HIDE DEF t
<1>9. TaskOK(t)
  BY <1>1, <1>7, <1>8 DEF TaskOK, Deciding, Refills, Preparing, Paying, Reconciling
<1>10. WorkersOK'
  BY <1>1, <1>2, <1>6, <1>8, <1>9, WorkerTyped DEF WorkersOK
<1>. QED
  BY <1>5, <1>10

LEMMA ReserveTyped ==
    ASSUME TypeOK, NEW h \in Hosts, Reserve(h) PROVE TypeOK'
<1>. USE DEF TypeOK
<1>1. At(h, "reserve") /\ TaskOK(task[h])
  BY WorkerFacts DEF Reserve
<1>2. UNCHANGED <<watch, net, deposits, drains, faults>>
  BY DEF Reserve
<1>3. CASE Accept(h)
  <2>1. spends' \in Nat
    BY <1>3 DEF Accept, BoundsOK
  <2>. QED
    BY <1>1, <1>2, <1>3, <2>1, AcceptTyped DEF WatchOK, NetOK, BoundsOK, net
<1>4. ASSUME UNCHANGED <<store, spends>>, WorkersOK' PROVE TypeOK'
  BY <1>2, <1>4 DEF StoreOK, WatchOK, NetOK, BoundsOK, store, net
<1>5. CASE Goto(h, "active") /\ IsActive(spend) /\ UNCHANGED <<store, spends>>
  <2>1. TaskOK([task[h] EXCEPT !.pc = "active"])
    BY <1>1, WorkerFacts, PcTyped DEF TaskOK, Deciding, Refills, Preparing, Paying, Reconciling
  <2>2. spend' = spend /\ spend.state # "none"
    BY <1>5 DEF store, IsActive, Active
  <2>. QED
    BY <1>4, <1>5, <2>1, <2>2, GotoTyped DEF Elsewhere
<1>6. CASE Tell(h, "nonce_missing", None) /\ UNCHANGED <<store, spends>>
  BY <1>4, <1>6, TellTyped DEF store
<1>7. CASE Unsettled(h) /\ UNCHANGED <<store, spends>>
  BY <1>4, <1>7, TellTyped DEF store, Unsettled
<1>8. CASE /\ task[h].job.kind = "withdraw" /\ UNCHANGED <<store, spends>>
           /\ ByReceipt(h, receipt[NonceOf[task[h].job.request]])
  BY <1>4, <1>8, OwnTyped, ByReceiptTyped DEF store
<1>. QED
  BY <1>3, <1>5, <1>6, <1>7, <1>8 DEF Reserve

LEMMA NoteBalanceTyped ==
    ASSUME TypeOK, NEW h \in Hosts, NoteBalance(h) PROVE TypeOK'
<1>. USE DEF TypeOK
<1>1. task[h].job.slot \in Slots /\ task[h].slotBal \in Balances
  BY WorkerFacts DEF NoteBalance, At, TaskOK, Refills
<1>2. slot' \in [Slots -> Observations]
  BY <1>1 DEF NoteBalance, StoreOK, Observations
<1>3. UNCHANGED <<spend, receipt, acct, watch, net, bounds>> /\ Unsettled(h)
  BY DEF NoteBalance
<1>4. WorkersOK'
  BY <1>3, TellTyped DEF Unsettled
<1>. QED
  BY <1>2, <1>3, <1>4 DEF StoreOK, WatchOK, NetOK, BoundsOK, net, bounds

LEMMA ClosedTyped ==
    ASSUME NEW s \in SpendRecords, SpendOK(s), s.state # "none", NEW result \in Results
    PROVE  /\ Closed(s, result) \in SpendRecords /\ SpendOK(Closed(s, result))
           /\ Closed(s, result).state \in Ended /\ Closed(s, result).result = result
           /\ Closed(s, result).op = s.op /\ Tx(Closed(s, result)) = Tx(s)
           /\ Closed(s, result).nonce = s.nonce /\ Closed(s, result).slot = s.slot
<1> DEFINE c == Closed(s, result)
<1>1. /\ c.state \in Ended /\ c.result = result /\ c.op = s.op /\ c.amount = s.amount
      /\ c.nonce = s.nonce /\ c.slot = s.slot /\ c.serial = s.serial
  BY DEF Closed, SpendRecords, Ended
<1>2. c \in SpendRecords
  BY DEF Closed, SpendRecords, States, Ended
<1>. HIDE DEF c
<1>. QED
  BY <1>1, <1>2 DEF SpendOK, Ended, Results, Tx, c

LEMMA ReceiptAfterTyped ==
    ASSUME StoreOK, spend.state # "none", NEW result \in Results
    PROVE  ReceiptAfter(spend, result) \in [Nonces -> Receipts]
<1>1. spend.op \in Operations /\ spend.nonce \in Nonces \cup {None}
  BY DEF StoreOK, SpendOK, SpendRecords
<1>2. [type |-> "terminal", op |-> spend.op, result |-> result] \in Receipts
  BY <1>1 DEF Receipts
<1>. QED
  BY <1>1, <1>2 DEF ReceiptAfter, StoreOK

LEMMA AccountAfterTyped ==
    ASSUME TypeOK, NEW h \in Hosts PROVE AccountAfter(h) \in Observations
  BY WorkerFacts DEF TypeOK, StoreOK, AccountAfter, Observations

\* A worker whose spend is still the same has read a spend that is under way.
LEMMA SameState ==
    ASSUME TypeOK, NEW h \in Hosts, Same(spend, task[h].seen),
           task[h].pc \in Preparing \cup Paying \cup Reconciling
    PROVE  /\ spend.state \in Active /\ spend.state # "none" /\ spend.op = task[h].seen.op
           /\ task[h].pc \in Preparing => spend.state = "reserved"
           /\ task[h].pc \in Paying => spend.state = "ready"
           /\ task[h].pc \in Reconciling => spend.state = "reconciling"
  BY WorkerFacts DEF TypeOK, Same, TaskOK, Active

LEMMA MarkReadyTyped ==
    ASSUME TypeOK, NEW h \in Hosts, MarkReady(h) PROVE TypeOK'
<1>. USE DEF TypeOK
<1>1. task[h].pc \in Preparing /\ Goto(h, "reread")
  BY DEF MarkReady, At, Preparing
<1>2. UNCHANGED <<receipt, slot, watch, net, bounds>>
  BY DEF MarkReady
<1>3. StoreOK' /\ (spend.state # "none" => spend'.state # "none")
  <2>1. CASE Same(spend, task[h].seen)
    <3> DEFINE s == [spend EXCEPT !.state = "ready", !.signed = TRUE]
    <3>1. spend' = s /\ acct' = AccountAfter(h) /\ spend.state = "reserved" /\ spend.state # "none"
      BY <1>1, <2>1, SameState DEF MarkReady
    <3>2. /\ s \in SpendRecords /\ s.state = "ready" /\ s.op = spend.op /\ s.amount = spend.amount
          /\ s.result = spend.result
      BY DEF StoreOK, SpendRecords, States, Active
    <3> HIDE DEF s
    <3>. QED
      BY <1>2, <3>1, <3>2, AccountAfterTyped DEF StoreOK, SpendOK, Ended
  <2>2. CASE ~Same(spend, task[h].seen)
    BY <1>2, <2>2 DEF MarkReady, StoreOK
  <2>. QED
    BY <2>1, <2>2
<1>4. WorkersOK'
  BY <1>1, <1>3, StageGotoTyped
<1>. QED
  BY <1>2, <1>3, <1>4 DEF WatchOK, NetOK, BoundsOK, net, bounds

LEMMA FailReservedTyped ==
    ASSUME TypeOK, NEW h \in Hosts, FailReserved(h) PROVE TypeOK'
<1>. USE DEF TypeOK
<1>1. task[h].pc \in Preparing /\ UNCHANGED <<acct, slot, watch, net, bounds>>
  BY DEF FailReserved, Preparing
<1>2. CASE Same(spend, task[h].seen)
  <2> DEFINE result == IF At(h, "failing") THEN "failed" ELSE "runway_blocked"
             required == IF At(h, "blocking") /\ spend.slot # None THEN Runway + Cost(spend) ELSE None
             c == Closed(spend, result)
             s == [c EXCEPT !.required = required]
  <2>1. /\ spend' = s /\ receipt' = ReceiptAfter(spend, result) /\ Goto(h, "failed")
    BY <1>2 DEF FailReserved
  <2>2. spend \in SpendRecords /\ SpendOK(spend) /\ spend.state # "none" /\ result \in Results
    BY <1>1, <1>2, SameState DEF StoreOK, Results
  <2>3. required \in Balances
    BY <2>2, SpendAssumption DEF Balances, Cost, SpendRecords
  <2> HIDE DEF result, required
  <2>4. c \in SpendRecords /\ SpendOK(c) /\ c.state \in Ended /\ c.result = result
    BY <2>2, ClosedTyped
  <2> HIDE DEF c
  <2>5. s \in SpendRecords /\ s.state = c.state /\ s.op = c.op /\ s.amount = c.amount /\ s.result = result
    BY <2>3, <2>4 DEF SpendRecords
  <2> HIDE DEF s
  <2>6. StoreOK'
    <3>1. SpendOK(s)
      BY <2>4, <2>5 DEF SpendOK, Ended, NoSpend
    <3>2. result # "none"
      BY <2>2 DEF Results
    <3>. QED
      BY <1>1, <2>1, <2>2, <2>4, <2>5, <3>1, <3>2, ReceiptAfterTyped DEF StoreOK
  <2>7. WorkersOK'
    <3>1. TaskOK([task[h] EXCEPT !.pc = "failed"])
      BY <1>1, WorkerFacts, PcTyped DEF TaskOK, Deciding, Refills, Preparing, Paying, Reconciling
    <3>2. spend'.state # "none"
      BY <2>1, <2>4, <2>5 DEF Ended
    <3>. QED
      BY <2>1, <3>1, <3>2, GotoTyped DEF Elsewhere
  <2>. QED
    BY <1>1, <2>6, <2>7 DEF WatchOK, NetOK, BoundsOK, net, bounds
<1>3. CASE ~Same(spend, task[h].seen)
  <2>1. UNCHANGED <<spend, receipt>> /\ Goto(h, "reread")
    BY <1>3 DEF FailReserved
  <2>2. WorkersOK'
    BY <1>1, <2>1, StageGotoTyped
  <2>. QED
    BY <1>1, <2>1, <2>2 DEF StoreOK, WatchOK, NetOK, BoundsOK, net, bounds
<1>. QED
  BY <1>2, <1>3

\* The transaction of a spend that is there.
LEMMA TxTyped ==
    ASSUME NEW s \in SpendRecords, SpendOK(s), s.state # "none"
    PROVE  Tx(s) \in Txs /\ Tx(s).op = s.op /\ Tx(s).nonce = s.nonce /\ Tx(s).slot = s.slot
           /\ Tx(s).amount = s.amount /\ Tx(s).serial = s.serial
  BY DEF Tx, Txs, SpendOK, SpendRecords

LEMMA SubmitTyped ==
    ASSUME TypeOK, NEW h \in Hosts, Submit(h) PROVE TypeOK'
<1>. USE DEF TypeOK
<1>1. task[h].pc \in Paying /\ Goto(h, "submitted") /\ UNCHANGED <<store, watch, chain, view, bounds>>
  BY DEF Submit, At, Paying
<1>2. Tx(task[h].seen) \in Txs
  BY <1>1, WorkerFacts, TxTyped DEF TaskOK
<1>3. sent' \subseteq Txs /\ sent \subseteq sent'
  BY <1>2 DEF Submit, NetOK
<1>4. WorkersOK'
  BY <1>1, StageGotoTyped DEF Paying, store
<1>. QED
  BY <1>1, <1>3, <1>4 DEF StoreOK, WatchOK, NetOK, BoundsOK, Landed, store, bounds

LEMMA BeginReconciliationTyped ==
    ASSUME TypeOK, NEW h \in Hosts, BeginReconciliation(h) PROVE TypeOK'
<1>. USE DEF TypeOK
<1>1. task[h].pc = "begin" /\ Goto(h, "reread") /\ UNCHANGED <<receipt, acct, slot, watch, net, bounds>>
  BY DEF BeginReconciliation, At
<1>2. StoreOK' /\ (spend.state # "none" => spend'.state # "none")
  <2>1. CASE Same(spend, task[h].seen)
    <3> DEFINE result == task[h].seen.result
               s == [spend EXCEPT !.state = "reconciling", !.result = result]
    <3>1. spend' = s /\ spend.state # "none" /\ result \in {"succeeded", "failed"}
      BY <1>1, <2>1, SameState, WorkerFacts DEF BeginReconciliation, TaskOK, Paying
    <3> HIDE DEF result
    <3>2. /\ s \in SpendRecords /\ s.state = "reconciling" /\ s.op = spend.op
          /\ s.amount = spend.amount /\ s.result = result
      BY <3>1 DEF StoreOK, SpendRecords, States, Active, Results
    <3> HIDE DEF s
    <3>. QED
      BY <1>1, <3>1, <3>2 DEF StoreOK, SpendOK, Ended
  <2>2. CASE ~Same(spend, task[h].seen)
    BY <1>1, <2>2 DEF BeginReconciliation, StoreOK
  <2>. QED
    BY <2>1, <2>2
<1>3. WorkersOK'
  BY <1>1, <1>2, StageGotoTyped DEF Paying
<1>. QED
  BY <1>1, <1>2, <1>3 DEF WatchOK, NetOK, BoundsOK, net, bounds

LEMMA CompleteTyped ==
    ASSUME TypeOK, NEW h \in Hosts, Complete(h) PROVE TypeOK'
<1>. USE DEF TypeOK
<1> DEFINE s == task[h].seen
           Kept == Same(spend, s) /\ (s.slot # None => slot[s.slot].seq = task[h].slotSeq)
<1>1. task[h].pc = "complete" /\ UNCHANGED <<watch, net, bounds>>
  BY DEF Complete, At
<1>2. ASSUME NEW pc \in {"completed", "superseded"}, Goto(h, pc), spend.state # "none" => spend'.state # "none"
      PROVE  WorkersOK'
  <2>1. TaskOK([task[h] EXCEPT !.pc = pc])
    BY <1>2, WorkerFacts, PcTyped DEF TaskOK, Deciding, Refills, Preparing, Paying, Reconciling
  <2>. QED
    BY <1>2, <2>1, GotoTyped DEF Elsewhere
<1>3. CASE Kept
  <2>1. /\ spend' = Closed(spend, s.result) /\ receipt' = ReceiptAfter(spend, s.result)
        /\ acct' = AccountAfter(h) /\ Goto(h, "completed")
        /\ slot' = [x \in Slots |-> IF x = s.slot THEN [seq |-> slot[x].seq + 1, bal |-> task[h].slotBal]
                                    ELSE slot[x]]
    BY <1>3 DEF Complete
  <2>2. spend \in SpendRecords /\ SpendOK(spend) /\ spend.state # "none" /\ s.result \in Results
    BY <1>1, <1>3, SameState, WorkerFacts DEF StoreOK, Reconciling, TaskOK, SpendOK, SpendRecords
  <2>3. slot' \in [Slots -> Observations]
    BY <2>1, WorkerFacts DEF StoreOK, Observations
  <2>4. /\ spend' \in SpendRecords /\ SpendOK(spend') /\ spend'.state \in Ended /\ spend'.result = s.result
    BY <2>1, <2>2, ClosedTyped
  <2>5. receipt' \in [Nonces -> Receipts] /\ acct' \in Observations
    BY <2>1, <2>2, ReceiptAfterTyped, AccountAfterTyped
  <2>6. s.result # "none" /\ spend'.state # "none"
    BY <2>2, <2>4 DEF Results, Ended
  <2>7. StoreOK'
    BY <2>3, <2>4, <2>5, <2>6 DEF StoreOK
  <2>. QED
    BY <1>1, <1>2, <2>1, <2>6, <2>7 DEF WatchOK, NetOK, BoundsOK, net, bounds
<1>4. CASE ~Kept
  BY <1>1, <1>2, <1>4 DEF Complete, store, StoreOK, WatchOK, NetOK, BoundsOK, net, bounds
<1>. QED
  BY <1>3, <1>4

Writes(h) == NoteBalance(h) \/ Reserve(h) \/ MarkReady(h) \/ FailReserved(h) \/ Submit(h)
                 \/ BeginReconciliation(h) \/ Complete(h)
LEMMA WritesTyped ==
    ASSUME TypeOK, NEW h \in Hosts, Writes(h) PROVE TypeOK'
  BY NoteBalanceTyped, ReserveTyped, MarkReadyTyped, FailReservedTyped, SubmitTyped,
     BeginReconciliationTyped, CompleteTyped DEF Writes

-----------------------------------------------------------------------------
(* Faults, observers and the network.                                       *)

LEMMA FaultTyped ==
    ASSUME TypeOK, Fault PROVE BoundsOK'
  BY SpendAssumption DEF TypeOK, BoundsOK, Fault, Balances

LEMMA FaultsTyped ==
    ASSUME TypeOK, NEW h \in Hosts, Fails(h) \/ Crash(h) PROVE TypeOK'
<1>. USE DEF TypeOK
<1>1. UNCHANGED <<store, watch, net>> /\ BoundsOK'
  BY FaultTyped DEF Fails, Crash
<1>2. WorkersOK'
  <2>1. CASE Fails(h)
    BY <1>1, <2>1, TellTyped DEF Fails, Unsettled, store
  <2>2. CASE Crash(h)
    <3>1. task[h].job.kind = "withdraw" => task[h].job.request \in Withdrawals
      BY WorkerFacts DEF TaskOK
    <3>2. [status |-> "unsettled", op |-> None] \in Answers
      BY DEF Answers
    <3>3. answer' \in [Withdrawals -> Answers]
      BY <2>2, <3>1, <3>2 DEF Crash, WorkersOK
    <3>4. task' = [task EXCEPT ![h] = Resting] /\ Resting.pc # "active" /\ lock' = lock
      BY <2>2 DEF Crash, Resting
    <3>. QED
      BY <1>1, <3>3, <3>4, WorkerTyped, RestingTyped DEF store, WorkersOK
  <2>. QED
    BY <2>1, <2>2
<1>. QED
  BY <1>1, <1>2 DEF StoreOK, WatchOK, NetOK, store, net

LEMMA ObservingTyped ==
    ASSUME TypeOK, NEW o \in Observers, Observing(o) PROVE TypeOK'
<1>. USE DEF TypeOK
<1>1. watch[o] \in Watches /\ (watch[o].pc # "idle" => watch[o].what # "nothing")
  BY DEF WatchOK
<1>2. UNCHANGED <<spend, receipt, lock, task, answer, net, bounds>>
  BY DEF Observing, Observe, ObserveBalance, WriteObservation, store
<1>3. acct' \in Observations /\ slot' \in [Slots -> Observations]
  <2>1. CASE WriteObservation(o)
    <3>1. [seq |-> watch[o].seq + 1, bal |-> watch[o].bal] \in Observations
      BY <1>1 DEF Watches, Observations
    <3>. QED
      BY <2>1, <3>1 DEF WriteObservation, StoreOK
  <2>2. CASE ~WriteObservation(o)
    BY <2>2 DEF Observing, Observe, ObserveBalance, store, StoreOK
  <2>. QED
    BY <2>1, <2>2
<1>4. ASSUME NEW w \in Watches, watch' = [watch EXCEPT ![o] = w], w.pc # "idle" => w.what # "nothing"
      PROVE  WatchOK'
  BY <1>4 DEF WatchOK
<1>5. CASE Observe(o)
  <2>1. CASE watch[o].what = None
    <3> DEFINE w == [watch[o] EXCEPT !.pc = "balance", !.op = spend.op, !.state = spend.state, !.seq = acct.seq]
    <3>1. watch' = [watch EXCEPT ![o] = w]
      BY <1>5, <2>1, SpendAssumption DEF Observe, WatchOK
    <3>2. w \in Watches /\ w.what = None
      BY <1>1, <2>1 DEF Watches, StoreOK, SpendRecords, Observations
    <3> HIDE DEF w
    <3>. QED
      BY <1>2, <1>3, <1>4, <3>1, <3>2, SpendAssumption DEF StoreOK, WorkersOK, NetOK, BoundsOK, net, bounds
  <2>2. CASE watch[o].what \in Slots
    <3> DEFINE w == [watch[o] EXCEPT !.pc = "balance", !.seq = slot[watch[o].what].seq]
    <3>1. watch' = [watch EXCEPT ![o] = w]
      BY <1>5, <2>2, SpendAssumption DEF Observe, WatchOK
    <3>2. w \in Watches /\ w.what = watch[o].what
      BY <1>1, <2>2 DEF Watches, StoreOK, Observations
    <3> HIDE DEF w
    <3>. QED
      BY <1>2, <1>3, <1>4, <2>2, <3>1, <3>2, SpendAssumption DEF StoreOK, WorkersOK, NetOK, BoundsOK, net, bounds
  <2>. QED
    BY <1>5, <2>1, <2>2 DEF Observe
<1>6. ASSUME NEW e \in Endpoints, ObserveBalance(o, e) PROVE TypeOK'
  <2>1. watch[o].pc = "write" \/ watch[o].what \in Slots \cup {None}
    BY <1>1, <1>6 DEF ObserveBalance, Watches, Entities
  <2>2. PICK bal \in {None, IF watch[o].what = None THEN view[e].funds ELSE view[e].bal[watch[o].what]} :
            watch' = [watch EXCEPT ![o].bal = bal, ![o].pc = "write"]
    BY <1>6 DEF ObserveBalance
  <2>3. bal \in Balances
    BY <1>6, <2>1 DEF ObserveBalance, NetOK, Chains, Balances
  <2> DEFINE w == [watch[o] EXCEPT !.bal = bal, !.pc = "write"]
  <2>4. watch' = [watch EXCEPT ![o] = w] /\ w \in Watches /\ w.what = watch[o].what
    BY <1>1, <2>2, <2>3 DEF Watches, WatchOK
  <2> HIDE DEF w
  <2>. QED
    BY <1>1, <1>2, <1>3, <1>4, <1>6, <2>4 DEF ObserveBalance, StoreOK, WorkersOK, NetOK, BoundsOK, net, bounds
<1>7. CASE WriteObservation(o)
  <2>1. watch' = [watch EXCEPT ![o] = Unseen(watch[o].what)]
    BY <1>7 DEF WriteObservation
  <2>2. Unseen(watch[o].what) \in Watches /\ Unseen(watch[o].what).pc = "idle"
    BY <1>1 DEF Unseen, Watches, States, Balances
  <2>. QED
    BY <1>2, <1>3, <1>4, <2>1, <2>2 DEF StoreOK, WorkersOK, NetOK, BoundsOK, net, bounds
<1>. QED
  BY <1>5, <1>6, <1>7 DEF Observing

LEMMA LandTyped ==
    ASSUME NetOK, NEW x \in sent, Succeed(x) \/ FailOnChain(x)
    PROVE  chain' \in Chains /\ Landed(chain') \subseteq sent
<1>1. x \in Txs /\ x.amount \in Nat /\ Cost(x) \in Nat /\ Gas \in Nat /\ Cost(x) >= Gas
  BY SpendAssumption DEF NetOK, Txs, Cost
<1>2. chain \in Chains /\ chain.funds \in Nat /\ chain.bal \in [Slots -> Nat]
  BY DEF NetOK, Chains
<1>3. CASE Succeed(x)
  <2> DEFINE bal == [s \in Slots |-> IF s = x.slot THEN chain.bal[s] + x.amount ELSE chain.bal[s]]
             funds == chain.funds - Cost(x)
  <2>1. bal \in [Slots -> Nat] /\ funds \in Nat
    BY <1>1, <1>2, <1>3 DEF Succeed
  <2>2. chain' = [chain EXCEPT !.succeeded = @ \cup {x}, !.funds = funds, !.bal = bal]
    BY <1>3 DEF Succeed
  <2> HIDE DEF bal, funds
  <2>. QED
    BY <1>1, <1>2, <2>1, <2>2 DEF Chains, NetOK, Landed
<1>4. CASE FailOnChain(x)
  <2>1. chain.funds - Gas \in Nat
    BY <1>1, <1>2, <1>4 DEF FailOnChain
  <2>. QED
    BY <1>1, <1>2, <1>4, <2>1 DEF FailOnChain, Chains, NetOK, Landed
<1>. QED
  BY <1>3, <1>4

LEMMA EnvironmentTyped ==
    ASSUME TypeOK, Environment PROVE TypeOK'
<1>. USE DEF TypeOK
<1>1. ASSUME UNCHANGED <<store, task, answer, watch, bounds>>, NetOK', lock' \in Hosts \cup {None} PROVE TypeOK'
  BY <1>1 DEF StoreOK, WorkersOK, WatchOK, BoundsOK, store, bounds
<1>2. CASE LockExpires
  BY <1>1, <1>2 DEF LockExpires, NetOK, net
<1>3. CASE Deposit
  <2>1. chain' \in Chains /\ Landed(chain') = Landed(chain) /\ deposits' \in Nat
    BY <1>3 DEF Deposit, NetOK, Chains, Landed, BoundsOK
  <2>. QED
    BY <1>3, <2>1 DEF Deposit, StoreOK, WorkersOK, WatchOK, NetOK, BoundsOK, store
<1>4. ASSUME NEW n \in Nonces, ReceiptExpires(n) PROVE TypeOK'
  <2>1. [type |-> "absent"] \in Receipts
    BY DEF Receipts
  <2>. QED
    BY <1>4, <2>1 DEF ReceiptExpires, StoreOK, WorkersOK, WatchOK, NetOK, BoundsOK, net, bounds
<1>5. ASSUME NEW x \in sent, Land(x) PROVE TypeOK'
  BY <1>1, <1>5, LandTyped DEF Land, NetOK, WorkersOK
<1>6. ASSUME NEW e \in Endpoints, CatchUp(e) PROVE TypeOK'
  BY <1>1, <1>6 DEF CatchUp, NetOK, WorkersOK
<1>7. ASSUME NEW s \in Slots, Drain(s) PROVE TypeOK'
  <2>1. chain.bal \in [Slots -> Nat] /\ chain.bal[s] - 1 \in Nat
    BY <1>7 DEF Drain, NetOK, Chains
  <2> DEFINE bal == [chain.bal EXCEPT ![s] = chain.bal[s] - 1]
  <2>2. chain' = [chain EXCEPT !.bal = bal] /\ bal \in [Slots -> Nat]
    BY <1>7, <2>1 DEF Drain
  <2> HIDE DEF bal
  <2>3. chain' \in Chains /\ Landed(chain') = Landed(chain) /\ drains' \in Nat
    BY <1>7, <2>2 DEF Drain, NetOK, Chains, Landed, BoundsOK
  <2>. QED
    BY <1>7, <2>3 DEF Drain, StoreOK, WorkersOK, WatchOK, NetOK, BoundsOK, store
<1>. QED
  BY <1>2, <1>3, <1>4, <1>5, <1>6, <1>7 DEF Environment

-----------------------------------------------------------------------------
LEMMA TypeInit == Init => TypeOK
<1>. SUFFICES ASSUME Init PROVE TypeOK
  OBVIOUS
<1>. USE SpendAssumption DEF Init
<1>1. StoreOK
  <2>1. NoSpend \in SpendRecords
    BY DEF NoSpend, SpendRecords, States, Results, Balances
  <2>. QED
    BY <2>1 DEF StoreOK, SpendOK, NoSpend, Active, Ended, Receipts, Observations, Balances
<1>2. WorkersOK
  <2>1. Resting.pc # "active" /\ [status |-> "unasked", op |-> None] \in Answers
    BY DEF Resting, Answers
  <2>. QED
    BY <2>1, RestingTyped DEF WorkersOK
<1>3. WatchOK
  <2>1. \A what \in Entities : Unseen(what) \in Watches /\ Unseen(what).pc = "idle"
    BY DEF Unseen, Watches, States, Balances
  <2>. QED
    BY <2>1 DEF WatchOK
<1>4. NetOK
  BY DEF NetOK, Chains, Landed
<1>5. BoundsOK
  BY DEF BoundsOK, Balances
<1>. QED
  BY <1>1, <1>2, <1>3, <1>4, <1>5 DEF TypeOK

\* What a step is: of a worker that reads or writes or fails, of an observer, or of
\* the world around them.
LEMMA Steps ==
    ASSUME [Next]_vars
    PROVE  \/ \E h \in Hosts : Reads(h) \/ Writes(h) \/ Fails(h) \/ Crash(h)
           \/ \E o \in Observers : Observing(o)
           \/ Environment
           \/ UNCHANGED vars
  BY DEF Next, Jobs, Work, Faults, Reads, Starts, Requests, Rereads, Prepares, Looks, Reconciles, Writes

LEMMA TypeNext == TypeOK /\ [Next]_vars => TypeOK'
<1>. SUFFICES ASSUME TypeOK, [Next]_vars PROVE TypeOK'
  OBVIOUS
<1>1. CASE UNCHANGED vars
  BY <1>1 DEF vars, store, net, bounds, TypeOK, StoreOK, WorkersOK, WatchOK, NetOK, BoundsOK
<1>. QED
  BY <1>1, Steps, ReadsTyped, WritesTyped, FaultsTyped, ObservingTyped, EnvironmentTyped

\* Every record, receipt, observation, worker and observer keeps its type, and every
\* worker has what the step it is at reads.
THEOREM TypeCorrect == Spec => []TypeOK
  BY TypeInit, TypeNext, PTL DEF Spec
=============================================================================
