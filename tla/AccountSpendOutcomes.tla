------------------------ MODULE AccountSpendOutcomes ------------------------
(***************************************************************************)
(* What AccountSpend records and answers is what the chain did, for every  *)
(* number of Hosts, requests, slots, endpoints and observers, and it pays  *)
(* one spend at a time.                                                    *)
(*                                                                         *)
(* The invariants follow from IInv.  RecordInv relates the current spend,  *)
(* the receipts, what was sent and the chain; TaskInv says what a worker   *)
(* may rely on although others act between its steps: the transaction of   *)
(* the spend it read either landed or is still the one of the record, and  *)
(* an operation that was accepted never gets a second transaction.  The    *)
(* steps that change the world are few (ChangedSpend, Accept, Submit, Land *)
(* and the expiry of a receipt); each keeps RecordInv and what every other *)
(* worker relies on.  All others change one worker, who learns what        *)
(* RecordInv says of what it reads.                                        *)
(*                                                                         *)
(* The balances follow from FInv, where one endpoint answers every read:   *)
(* what it hides is the signed spend at most, what is carried of a balance *)
(* is not above the account while the spend it was read beside is the      *)
(* same, and a slot rises only by the refill whose acceptance moved its    *)
(* sequence on.                                                            *)
(***************************************************************************)
EXTENDS AccountSpendProofs

-----------------------------------------------------------------------------
(* The inductive invariant.                                                 *)

\* An operation that was accepted: its nonce is no longer merely issued, or so many
\* spends were reserved.  What was accepted stays accepted.
Used(op) ==
    \/ \E n \in Nonces, a \in Nat : op = <<n, a>> /\ receipt[n].type # "issued"
    \/ \E k \in Nat : op = <<"refill", k>> /\ k <= spends
Settled(op) == Used(op) /\ ~(IsActive(spend) /\ spend.op = op)
Final(op, result) == Agrees(op, result) /\ Settled(op)
OnChain(x, result) ==
    \/ result = "succeeded" /\ x \in chain.succeeded
    \/ result = "failed" /\ x \in chain.failed
NamesNonce(x) == x.nonce # None => \E a \in Nat : x.op = <<x.nonce, a>>

\* What the network was handed is of the current spend or was accepted before.
SentInv ==
    \A x \in sent : /\ Used(x.op) /\ NamesNonce(x)
                    /\ x.op = spend.op => x = Tx(spend)
                    /\ x.nonce # None /\ x.nonce = spend.nonce => x = Tx(spend)

SpendInv ==
    /\ NamesNonce(spend)
    /\ spend.state # "none" => Used(spend.op)
    /\ spend.state = "reserved" => Tx(spend) \notin sent
    /\ spend.state = "reconciling" => OnChain(Tx(spend), spend.result)
    /\ spend.state \in Ended => Agrees(spend.op, spend.result)

ViewInv ==
    \A e \in Endpoints : view[e].succeeded \subseteq chain.succeeded
                         /\ view[e].failed \subseteq chain.failed

ReceiptInv ==
    \A n \in Nonces : receipt[n].type = "terminal" => Final(receipt[n].op, receipt[n].result)

RecordInv == SentInv /\ SpendInv /\ ViewInv /\ ReceiptInv /\ InFlightIsRecorded /\ NoncePaysOnce

\* What a worker may rely on.
TaskInv(t) ==
    /\ t.seen.state # "none" => Used(t.seen.op) /\ NamesNonce(t.seen)
    /\ t.seen.state # "none" /\ t.seen.op = spend.op => Tx(t.seen) = Tx(spend)
    /\ t.pc \in Paying => Tx(t.seen) \in Landed(chain)
                          \/ (spend.state = "ready" /\ spend.op = t.seen.op)
    /\ t.pc = "begin" \/ t.seen.state = "reconciling" => OnChain(Tx(t.seen), t.seen.result)
AnswerInv(a) == a.status \in Results => Final(a.op, a.status)

WorkersInv ==
    /\ \A h \in Hosts : TaskInv(task[h])
    /\ \A w \in Withdrawals : AnswerInv(answer[w])

IInv == RecordInv /\ WorkersInv

-----------------------------------------------------------------------------
(* Changing one worker.                                                     *)

ChainGrows == chain.succeeded \subseteq chain'.succeeded /\ chain.failed \subseteq chain'.failed

world == <<spend, receipt, sent, chain, spends>>

LEMMA SameWorld ==
    ASSUME UNCHANGED world
    PROVE  /\ \A t : TaskInv(t) <=> TaskInv(t)'
           /\ \A op, r : Final(op, r) <=> Final(op, r)'
  BY DEF world, TaskInv, Final, Agrees, Settled, Used, IsActive, OnChain, NamesNonce, Landed

\* One worker goes on with the record t, and may answer its request.
LEMMA WorkerKnows ==
    ASSUME WorkersOK, WorkersInv, NEW h \in Hosts, NEW t, task' = [task EXCEPT ![h] = t], TaskInv(t)',
           \A u : TaskOK(u) /\ TaskInv(u) => TaskInv(u)',
           \A op : \A r \in Results : Final(op, r) => Final(op, r)', answer' = answer
    PROVE  WorkersInv'
<1>1. ASSUME NEW k \in Hosts PROVE TaskInv(task[k])'
  <2>1. CASE k = h
    BY <2>1 DEF WorkersOK
  <2>2. CASE k # h
    <3>1. task'[k] = task[k] /\ TaskOK(task[k]) /\ TaskInv(task[k])
      BY <2>2 DEF WorkersOK, WorkersInv
    <3>2. PICK u : u = task[k]
      OBVIOUS
    <3>3. TaskInv(u)'
      BY <3>1, <3>2
    <3>. QED
      BY <3>1, <3>2, <3>3
  <2>. QED
    BY <2>1, <2>2
<1>2. ASSUME NEW w \in Withdrawals PROVE AnswerInv(answer[w])'
  <2>1. PICK a : a = answer[w]
    OBVIOUS
  <2>2. AnswerInv(a)'
    BY <2>1 DEF WorkersInv, AnswerInv
  <2>. QED
    BY <2>1, <2>2
<1>. QED
  BY <1>1, <1>2 DEF WorkersInv

-----------------------------------------------------------------------------
(* The steps that only a worker notices.                                    *)

\* A worker goes on, with what it may rely on, and answers what is final.
Learned(h) ==
    \E t : /\ task' = [task EXCEPT ![h] = t] /\ TaskInv(t)
           /\ \A w \in Withdrawals : answer'[w] = answer[w] \/ AnswerInv(answer'[w])

LEMMA LearnedKeeps ==
    ASSUME TypeOK, IInv, NEW h \in Hosts, Learned(h), UNCHANGED <<world, view>>
    PROVE  IInv'
<1>1. PICK t : /\ task' = [task EXCEPT ![h] = t] /\ TaskInv(t)
               /\ \A w \in Withdrawals : answer'[w] = answer[w] \/ AnswerInv(answer'[w])
  BY DEF Learned
<1>2. /\ \A u : TaskInv(u) <=> TaskInv(u)'
      /\ \A op, r : Final(op, r) <=> Final(op, r)'
  BY SameWorld
<1>3. \A w \in Withdrawals : answer'[w] = answer[w] \/ answer'[w].status \notin Results
                             \/ Final(answer'[w].op, answer'[w].status)
  BY <1>1 DEF AnswerInv
<1>4. ASSUME NEW w \in Withdrawals PROVE AnswerInv(answer[w])'
  <2>1. answer'[w].status \in Results => Final(answer'[w].op, answer'[w].status)
    BY <1>3 DEF IInv, WorkersInv, AnswerInv
  <2>2. PICK a : a = answer'[w]
    OBVIOUS
  <2>3. a.status \in Results => Final(a.op, a.status)'
    BY <1>2, <2>1, <2>2
  <2>. QED
    BY <2>2, <2>3 DEF AnswerInv
<1>5. ASSUME NEW k \in Hosts PROVE TaskInv(task[k])'
  <2>1. PICK u : u = task'[k]
    OBVIOUS
  <2>2. TaskInv(u)
    BY <1>1, <2>1 DEF TypeOK, WorkersOK, IInv, WorkersInv
  <2>. QED
    BY <1>2, <2>1, <2>2
<1>6. RecordInv'
  BY DEF IInv, RecordInv, SentInv, SpendInv, ViewInv, ReceiptInv, InFlightIsRecorded, NoncePaysOnce,
         Final, Settled, Used, Agrees, OnChain, NamesNonce, IsActive, Landed, world, Tx
<1>. QED
  BY <1>4, <1>5, <1>6 DEF IInv, WorkersInv

LEMMA KeptLearns ==
    ASSUME TypeOK, IInv, NEW h \in Hosts, NEW t, task' = [task EXCEPT ![h] = t], answer' = answer,
           t.seen = task[h].seen, t.pc \in Paying => task[h].pc \in Paying, t.pc # "begin"
    PROVE  Learned(h)
<1>1. TaskInv(task[h])
  BY DEF IInv, WorkersInv
<1>2. TaskInv(t)
  BY <1>1 DEF TaskInv
<1>. QED
  BY <1>2 DEF Learned

LEMMA GotoLearns ==
    ASSUME TypeOK, IInv, NEW h \in Hosts, NEW pc, Goto(h, pc),
           pc \in Paying => task[h].pc \in Paying, pc # "begin"
    PROVE  Learned(h)
<1> DEFINE t == [task[h] EXCEPT !.pc = pc]
<1>1. task' = [task EXCEPT ![h] = t] /\ answer' = answer /\ t.pc = pc /\ t.seen = task[h].seen
  BY WorkerFacts, PcTyped DEF Goto, TypeOK, WorkersOK
<1> HIDE DEF t
<1>. QED
  BY <1>1, KeptLearns

LEMMA TellLearns ==
    ASSUME TypeOK, NEW h \in Hosts, NEW status, NEW op, Tell(h, status, op),
           status \in Results => Final(op, status)
    PROVE  Learned(h)
<1>1. TaskInv(Resting)
  BY DEF TaskInv, Resting, NoSpend, Paying
<1>2. ASSUME NEW w \in Withdrawals, answer'[w] # answer[w] PROVE answer'[w] = [status |-> status, op |-> op]
  BY <1>2 DEF Tell, TypeOK, WorkersOK
<1>3. AnswerInv([status |-> status, op |-> op])
  BY DEF AnswerInv
<1>. QED
  BY <1>1, <1>2, <1>3 DEF Learned, Tell

LEMMA UnsettledLearns ==
    ASSUME TypeOK, NEW h \in Hosts, Unsettled(h) PROVE Learned(h)
  BY TellLearns DEF Unsettled, Results

LEMMA ProjectLearns ==
    ASSUME TypeOK, IInv, NEW h \in Hosts, NEW own \in BOOLEAN, Project(h, spend, own), spend.state \in Ended
    PROVE  Learned(h)
<1>1. Final(spend.op, spend.result)
  BY DEF IInv, RecordInv, SpendInv, Final, Settled, IsActive, Active, Ended
<1>. QED
  BY <1>1, TellLearns, UnsettledLearns DEF Project

LEMMA DriveLearns ==
    ASSUME TypeOK, IInv, NEW h \in Hosts, NEW auth \in BOOLEAN, NEW own \in BOOLEAN,
           Drive(h, spend, auth, own), spend.state # "none"
    PROVE  Learned(h)
<1>1. CASE spend.state \in Ended
  BY <1>1, ProjectLearns DEF Drive
<1>2. CASE spend.state \notin Ended
  <2> DEFINE t == [Resting EXCEPT !.job = task[h].job, !.locked = task[h].locked,
                        !.pc = FirstStep(spend, auth), !.seen = spend, !.auth = auth, !.own = own]
  <2>1. task' = [task EXCEPT ![h] = t] /\ UNCHANGED answer
    BY <1>2 DEF Drive
  <2>2. spend.state \in Active
    BY <1>2 DEF TypeOK, StoreOK, SpendRecords, States
  <2>3. FirstStep(spend, auth) # "begin" /\ (FirstStep(spend, auth) \in Paying => spend.state = "ready")
    BY <2>2 DEF FirstStep, Active, Paying
  <2>4. t.pc = FirstStep(spend, auth) /\ t.seen = spend
    BY DEF Resting
  <2> HIDE DEF t
  <2>5. TaskInv(t)
    BY <2>3, <2>4 DEF TaskInv, IInv, RecordInv, SpendInv
  <2>. QED
    BY <2>1, <2>5 DEF Learned
<1>. QED
  BY <1>1, <1>2

\* What an endpoint knows of a transaction is what the chain did with it.
LEMMA ViewIsTrue ==
    ASSUME IInv, NEW e \in Endpoints, NEW x, x \in Landed(view[e])
    PROVE  OnChain(x, ResultIn(view[e], x))
  BY DEF IInv, RecordInv, ViewInv, Landed, ResultIn, OnChain

LEMMA LearnLearns ==
    ASSUME TypeOK, IInv, NEW h \in Hosts, task[h].pc \in Paying,
           NEW result, Learn(h, result), OnChain(Tx(task[h].seen), result), answer' = answer
    PROVE  Learned(h)
<1> DEFINE s == [task[h].seen EXCEPT !.result = result]
           t == [task[h] EXCEPT !.pc = "begin", !.seen = s]
<1>1. task[h] \in Tasks /\ task[h].seen \in SpendRecords /\ task[h].seen.state = "ready"
  BY WorkerFacts DEF TypeOK, TaskOK
<1>2. /\ s.result = result /\ s.op = task[h].seen.op /\ s.state = "ready" /\ s.nonce = task[h].seen.nonce
      /\ Tx(s) = Tx(task[h].seen)
  BY <1>1 DEF SpendRecords, Tx
<1>. HIDE DEF s
<1>3. t.pc = "begin" /\ t.seen = s
  BY <1>1 DEF Tasks
<1>4. task' = [task EXCEPT ![h] = t]
  BY DEF Learn, TypeOK, WorkersOK, s
<1>. HIDE DEF t
<1>5. TaskInv(task[h])
  BY DEF IInv, WorkersInv
<1>6. TaskInv(t)
  BY <1>1, <1>2, <1>3, <1>5 DEF TaskInv, NamesNonce, Paying, OnChain
<1>. QED
  BY <1>4, <1>6 DEF Learned

\* The steps that read or answer, and write nothing, one group at a time.
LEMMA StartsLearn ==
    ASSUME TypeOK, IInv, NEW h \in Hosts, Starts(h) PROVE Learned(h)
<1>1. ASSUME NEW t, task' = [task EXCEPT ![h] = t], t.seen = NoSpend, t.pc \in {"recover", "acquire"},
             \A w \in Withdrawals : answer'[w] = answer[w] \/ answer'[w].status = "asked"
      PROVE  Learned(h)
  <2>1. TaskInv(t)
    BY <1>1 DEF TaskInv, NoSpend, Paying
  <2>. QED
    BY <1>1, <2>1 DEF Learned, AnswerInv, Results
<1>2. CASE StartRecovery(h)
  <2> DEFINE t == [Resting EXCEPT !.pc = "recover", !.job.kind = "recover"]
  <2>1. task' = [task EXCEPT ![h] = t] /\ t.seen = NoSpend /\ t.pc = "recover" /\ answer' = answer
    BY <1>2 DEF StartRecovery, Resting
  <2> HIDE DEF t
  <2>. QED
    BY <1>1, <2>1
<1>3. ASSUME NEW w \in Withdrawals, StartWithdrawal(h, w) PROVE Learned(h)
  <2> DEFINE t == [Resting EXCEPT !.pc = "acquire", !.job = [NoJob EXCEPT !.kind = "withdraw", !.request = w]]
  <2>1. task' = [task EXCEPT ![h] = t] /\ t.seen = NoSpend /\ t.pc = "acquire"
    BY <1>3 DEF StartWithdrawal, Resting
  <2>2. \A v \in Withdrawals : answer'[v] = answer[v] \/ answer'[v].status = "asked"
    <3>1. answer[w] \in Answers
      BY DEF TypeOK, WorkersOK
    <3>. QED
      BY <1>3, <3>1 DEF StartWithdrawal, TypeOK, WorkersOK, Answers
  <2> HIDE DEF t
  <2>. QED
    BY <1>1, <2>1, <2>2
<1>4. ASSUME NEW s \in Slots, StartRefill(h, s) PROVE Learned(h)
  <2> DEFINE t == [Resting EXCEPT !.pc = "acquire", !.job = [NoJob EXCEPT !.kind = "refill", !.slot = s]]
  <2>1. task' = [task EXCEPT ![h] = t] /\ t.seen = NoSpend /\ t.pc = "acquire" /\ answer' = answer
    BY <1>4 DEF StartRefill, Resting
  <2> HIDE DEF t
  <2>. QED
    BY <1>1, <2>1
<1>. QED
  BY <1>2, <1>3, <1>4 DEF Starts

\* A terminal receipt answers with what is final.
LEMMA ByReceiptLearns ==
    ASSUME TypeOK, IInv, NEW h \in Hosts, NEW n \in Nonces, ByReceipt(h, receipt[n])
    PROVE  Learned(h)
<1>1. receipt[n].type = "terminal" => Final(receipt[n].op, receipt[n].result)
  BY DEF IInv, RecordInv, ReceiptInv
<1>2. ASSUME Tell(h, "nonce_missing", None) PROVE Learned(h)
  BY <1>2, TellLearns DEF Results
<1>3. ASSUME NEW pc \in {"current", "accepted"}, Goto(h, pc) PROVE Learned(h)
  BY <1>3, GotoLearns DEF Paying
<1>. QED
  BY <1>1, <1>2, <1>3, TellLearns DEF ByReceipt

LEMMA RequestsLearn ==
    ASSUME TypeOK, IInv, NEW h \in Hosts, Requests(h) PROVE Learned(h)
<1>1. task[h] \in Tasks /\ TaskOK(task[h])
  BY WorkerFacts DEF TypeOK
<1>2. ASSUME NEW own \in BOOLEAN, Drive(h, spend, FALSE, own), spend.state # "none" PROVE Learned(h)
  BY <1>2, DriveLearns
<1>3. CASE Acquire(h)
  <2> DEFINE t == [task[h] EXCEPT !.locked = TRUE,
                        !.pc = IF task[h].job.kind = "withdraw" THEN "receipt" ELSE "current"]
  <2>1. task' = [task EXCEPT ![h] = t] /\ answer' = answer
    BY <1>3 DEF Acquire
  <2>2. t.seen = task[h].seen /\ t.pc \notin Paying
    BY <1>1 DEF Tasks, Paying
  <2>3. "begin" \in Paying
    BY DEF Paying
  <2> HIDE DEF t
  <2>. QED
    BY <2>1, <2>2, <2>3, KeptLearns
<1>4. CASE AcquireTimesOut(h)
  BY <1>4, UnsettledLearns DEF AcquireTimesOut
<1>5. CASE ReadReceipt(h)
  BY <1>1, <1>5, OwnTyped, ByReceiptLearns DEF ReadReceipt, At, TaskOK
<1>6. CASE ReadAccepted(h)
  BY <1>2, <1>6, OwnTyped, UnsettledLearns DEF ReadAccepted
<1>7. CASE ReadCurrent(h)
  <2>1. ASSUME NEW pc \in {"reserve", "snapshot"}, Goto(h, pc) PROVE Learned(h)
    BY <2>1, GotoLearns DEF Paying
  <2>. QED
    BY <1>2, <1>7, <2>1, OwnTyped DEF ReadCurrent
<1>8. CASE Recover(h)
  BY <1>2, <1>8, OwnTyped, UnsettledLearns DEF Recover
<1>9. CASE Snapshot(h)
  <2> DEFINE s == task[h].job.slot
             t == [task[h] EXCEPT !.pc = "slotBalance", !.slotSeq = slot[s].seq,
                        !.needs = IF RequiredFor(s) = None THEN None ELSE acct.seq]
  <2>1. t.seen = task[h].seen /\ t.pc = "slotBalance"
    BY <1>1 DEF Tasks
  <2>2. ASSUME task' = [task EXCEPT ![h] = t], UNCHANGED <<lock, answer>> PROVE Learned(h)
    <3> HIDE DEF t
    <3>. QED
      BY <2>1, <2>2, KeptLearns DEF Paying
  <2>. QED
    BY <1>9, <2>2, UnsettledLearns DEF Snapshot
<1>10. ASSUME NEW e \in Endpoints, ReadSlotBalance(h, e) PROVE Learned(h)
  <2> DEFINE bal == view[e].bal[task[h].job.slot]
             pc == IF bal >= Target THEN "note" ELSE "reserve"
             t == [task[h] EXCEPT !.slotBal = bal, !.pc = pc]
  <2>1. task' = [task EXCEPT ![h] = t] /\ UNCHANGED <<lock, answer>>
    BY <1>10 DEF ReadSlotBalance
  <2>2. pc \in {"note", "reserve"}
    OBVIOUS
  <2> HIDE DEF bal, pc
  <2>3. t.seen = task[h].seen /\ t.pc = pc
    BY <1>1 DEF Tasks
  <2> HIDE DEF t
  <2>. QED
    BY <2>1, <2>2, <2>3, KeptLearns DEF Paying
<1>. QED
  BY <1>3, <1>4, <1>5, <1>6, <1>7, <1>8, <1>9, <1>10 DEF Requests

LEMMA RereadsLearn ==
    ASSUME TypeOK, IInv, NEW h \in Hosts, Rereads(h) PROVE Learned(h)
<1>1. /\ TaskOK(task[h]) /\ task[h].auth \in BOOLEAN /\ task[h].own \in BOOLEAN
      /\ IsOwn(h, spend) \in BOOLEAN
  BY WorkerFacts, OwnTyped DEF TypeOK
<1>2. ASSUME spend.op = task[h].seen.op, task[h].seen.state # "none" PROVE spend.state # "none"
  BY <1>1, <1>2, SpendAssumption DEF TypeOK, StoreOK, TaskOK, SpendOK, NoSpend
<1>3. ASSUME NEW pc \in {"reread", "superseded"}, Goto(h, pc) PROVE Learned(h)
  BY <1>3, GotoLearns DEF Paying
<1>4. CASE ReadCreated(h)
  BY <1>1, <1>2, <1>4, DriveLearns, UnsettledLearns DEF ReadCreated, At, TaskOK
<1>5. CASE ReadActive(h)
  BY <1>1, <1>5, DriveLearns DEF ReadActive, At, TypeOK, WorkersOK
<1>6. CASE Reread(h)
  BY <1>1, <1>2, <1>6, DriveLearns, UnsettledLearns DEF Reread, At, TaskOK
<1>7. CASE ReadFailed(h)
  BY <1>1, <1>3, <1>7, ProjectLearns DEF ReadFailed, Ended
<1>8. CASE ReadCompleted(h)
  BY <1>1, <1>3, <1>8, ProjectLearns DEF ReadCompleted
<1>9. CASE ReadSuperseded(h)
  BY <1>1, <1>9, ProjectLearns, UnsettledLearns DEF ReadSuperseded
<1>. QED
  BY <1>4, <1>5, <1>6, <1>7, <1>8, <1>9 DEF Rereads

LEMMA PreparesLearn ==
    ASSUME TypeOK, IInv, NEW h \in Hosts, Prepares(h) PROVE Learned(h)
<1>1. task[h] \in Tasks
  BY WorkerFacts DEF TypeOK
<1>2. ASSUME NEW pc \in {"cursor", "failing", "reread"}, Goto(h, pc) PROVE Learned(h)
  BY <1>2, GotoLearns DEF Paying
<1>3. CASE Simulate(h)
  BY <1>2, <1>3 DEF Simulate
<1>4. CASE CursorBeforeFunds(h)
  <2> DEFINE t == [task[h] EXCEPT !.cursor = acct.seq, !.pc = "funds"]
  <2>1. t.seen = task[h].seen /\ t.pc = "funds"
    BY <1>1 DEF Tasks
  <2>2. ASSUME TakeCursor(h, "funds"), UNCHANGED <<lock, answer>> PROVE Learned(h)
    <3>1. task' = [task EXCEPT ![h] = t]
      BY <2>2 DEF TakeCursor, TypeOK, WorkersOK
    <3> HIDE DEF t
    <3>. QED
      BY <2>1, <2>2, <3>1, KeptLearns DEF Paying
  <2>. QED
    BY <1>2, <1>4, <2>2 DEF CursorBeforeFunds
<1>5. ASSUME NEW e \in Endpoints, ReadFunds(h, e) PROVE Learned(h)
  <2> DEFINE bal == view[e].funds
             pc == IF KeepsRunway(bal, task[h].seen) THEN "ready" ELSE "blocking"
             t == [task[h] EXCEPT !.bal = bal, !.pc = pc]
  <2>1. task' = [task EXCEPT ![h] = t] /\ UNCHANGED <<lock, answer>>
    BY <1>5 DEF ReadFunds
  <2>2. pc \in {"ready", "blocking"}
    OBVIOUS
  <2> HIDE DEF bal, pc
  <2>3. t.seen = task[h].seen /\ t.pc = pc
    BY <1>1 DEF Tasks
  <2> HIDE DEF t
  <2>. QED
    BY <2>1, <2>2, <2>3, KeptLearns DEF Paying
<1>. QED
  BY <1>3, <1>4, <1>5 DEF Prepares

LEMMA LooksLearn ==
    ASSUME TypeOK, IInv, NEW h \in Hosts, Looks(h) PROVE Learned(h)
<1>1. CASE SubmitAnswers(h)
  <2>1. OnChain(Tx(task[h].seen), ResultIn(chain, Tx(task[h].seen)))
    BY <1>1 DEF SubmitAnswers, OnChain, ResultIn, Landed
  <2>. QED
    BY <1>1, <2>1, LearnLearns DEF SubmitAnswers, At, Paying
<1>2. CASE SubmitFails(h)
  BY <1>2, GotoLearns DEF SubmitFails, At, Paying
<1>3. ASSUME NEW e \in Endpoints, Lookup(h, e) PROVE Learned(h)
  <2>1. task[h].pc \in Paying /\ answer' = answer /\ lock' = lock
    BY <1>3 DEF Lookup, At, Paying
  <2>2. ASSUME task' = [task EXCEPT ![h].pc = "submit"] PROVE Learned(h)
    BY <2>1, <2>2, GotoLearns DEF Goto
  <2>. QED
    BY <1>3, <2>1, <2>2, LearnLearns, ViewIsTrue DEF Lookup
<1>4. ASSUME NEW e \in Endpoints, LookupAfter(h, e) PROVE Learned(h)
  <2>1. task[h].pc \in Paying
    BY <1>4 DEF LookupAfter, At, Paying
  <2>. QED
    BY <1>4, <2>1, LearnLearns, ViewIsTrue, UnsettledLearns DEF LookupAfter
<1>. QED
  BY <1>1, <1>2, <1>3, <1>4 DEF Looks

LEMMA ReconcilesLearn ==
    ASSUME TypeOK, IInv, NEW h \in Hosts, Reconciles(h) PROVE Learned(h)
<1>1. task[h] \in Tasks
  BY WorkerFacts DEF TypeOK
<1>2. ASSUME NEW t, task' = [task EXCEPT ![h] = t], answer' = answer, t.seen = task[h].seen,
             t.pc \in Reconciling
      PROVE  Learned(h)
  BY <1>2, KeptLearns DEF Reconciling, Paying
<1>3. ASSUME NEW e \in Endpoints, Confirm(h, e) PROVE Learned(h)
  BY <1>3, GotoLearns, UnsettledLearns DEF Confirm, Paying
<1>4. CASE CursorBeforeObservation(h)
  <2> DEFINE pc == IF task[h].seen.slot = None THEN "account" ELSE "projection"
             t == [task[h] EXCEPT !.cursor = acct.seq, !.pc = pc]
  <2>1. t.seen = task[h].seen /\ t.pc \in Reconciling
    BY <1>1 DEF Tasks, Reconciling
  <2>2. ASSUME TakeCursor(h, pc), UNCHANGED <<lock, answer>> PROVE Learned(h)
    <3>1. task' = [task EXCEPT ![h] = t]
      BY <2>2 DEF TakeCursor, TypeOK, WorkersOK
    <3> HIDE DEF t
    <3>. QED
      BY <1>2, <2>1, <2>2, <3>1
  <2>. QED
    BY <1>4, <2>2, UnsettledLearns DEF CursorBeforeObservation
<1>5. CASE ReadProjection(h)
  <2> DEFINE t == [task[h] EXCEPT !.pc = "observeSlot", !.slotSeq = slot[task[h].seen.slot].seq]
  <2>1. t.seen = task[h].seen /\ t.pc \in Reconciling
    BY <1>1 DEF Tasks, Reconciling
  <2>2. ASSUME task' = [task EXCEPT ![h] = t], UNCHANGED <<lock, answer>> PROVE Learned(h)
    <3> HIDE DEF t
    <3>. QED
      BY <1>2, <2>1, <2>2
  <2>. QED
    BY <1>5, <2>2, UnsettledLearns DEF ReadProjection
<1>6. ASSUME NEW e \in Endpoints, ObserveSlot(h, e) PROVE Learned(h)
  <2> DEFINE t == [task[h] EXCEPT !.pc = "account", !.slotBal = view[e].bal[task[h].seen.slot]]
  <2>1. t.seen = task[h].seen /\ t.pc \in Reconciling
    BY <1>1 DEF Tasks, Reconciling
  <2>2. task' = [task EXCEPT ![h] = t] /\ answer' = answer
    BY <1>6 DEF ObserveSlot
  <2> HIDE DEF t
  <2>. QED
    BY <1>2, <2>1, <2>2
<1>7. ASSUME NEW e \in Endpoints, ObserveAccount(h, e) PROVE Learned(h)
  <2> DEFINE t == [task[h] EXCEPT !.pc = "complete", !.bal = view[e].funds]
  <2>1. t.seen = task[h].seen /\ t.pc \in Reconciling
    BY <1>1 DEF Tasks, Reconciling
  <2>2. task' = [task EXCEPT ![h] = t] /\ answer' = answer
    BY <1>7 DEF ObserveAccount
  <2> HIDE DEF t
  <2>. QED
    BY <1>2, <2>1, <2>2
<1>. QED
  BY <1>3, <1>4, <1>5, <1>6, <1>7 DEF Reconciles

LEMMA ReadsLearn ==
    ASSUME TypeOK, IInv, NEW h \in Hosts, Reads(h) PROVE IInv'
<1>1. Learned(h)
  BY StartsLearn, RequestsLearn, RereadsLearn, PreparesLearn, LooksLearn, ReconcilesLearn DEF Reads
<1>2. UNCHANGED <<store, watch, net, bounds>>
  BY DEF Reads, Starts, StartRecovery, StartWithdrawal, StartRefill, Requests, Acquire, AcquireTimesOut,
         ReadReceipt, ReadAccepted, ReadCurrent, Recover, Snapshot, ReadSlotBalance, Rereads,
         ReadCreated, ReadActive, Reread, ReadFailed, ReadCompleted, ReadSuperseded, Prepares,
         Simulate, CursorBeforeFunds, ReadFunds, Looks, SubmitAnswers, SubmitFails, Lookup,
         LookupAfter, Reconciles, CursorBeforeObservation, ReadProjection, Confirm, ObserveSlot,
         ObserveAccount
<1>. QED
  BY <1>1, <1>2, LearnedKeeps DEF world, store, net, bounds

-----------------------------------------------------------------------------
(* The steps that change the world, and what they leave true for others.   *)

LEMMA UsedGrows ==
    ASSUME \A n \in Nonces : receipt[n].type # "issued" => receipt'[n].type # "issued",
           spends \in Nat, spends' \in Nat, spends <= spends'
    PROVE  \A op : Used(op) => Used(op)'
  BY DEF Used

\* What is final stays so, while the chain only grows, no settled operation is sent
\* again, and none becomes the current one again.
LEMMA FinalKept ==
    ASSUME ChainGrows, \A op : Used(op) => Used(op)',
           \A x \in sent' \ sent : ~Settled(x.op),
           \A op : Settled(op) => ~(IsActive(spend') /\ spend'.op = op)
    PROVE  \A op : \A r \in Results : Final(op, r) => Final(op, r)'
<1>1. ASSUME NEW op, NEW r \in Results, Final(op, r) PROVE Agrees(op, r)' /\ Settled(op)'
  <2>1. Settled(op) /\ Settled(op)'
    BY <1>1 DEF Final, Settled, IsActive
  <2>2. \A x \in sent' \ sent : x.op # op
    BY <2>1
  <2>3. CASE r = "succeeded"
    BY <1>1, <2>1, <2>3 DEF Final, Agrees, ChainGrows
  <2>4. CASE r = "failed"
    <3>1. \A x \in sent : x.op = op => x \in chain.failed
      BY <1>1, <2>4 DEF Final, Agrees
    <3>2. \A x \in sent' : x.op = op => x \in chain'.failed
      BY <2>2, <3>1 DEF ChainGrows
    <3>. QED
      BY <2>1, <2>4, <3>2 DEF Agrees
  <2>5. CASE r = "runway_blocked"
    <3>1. \A x \in sent : x.op # op
      BY <1>1, <2>5 DEF Final, Agrees
    <3>2. \A x \in sent' : x.op # op
      BY <2>2, <3>1
    <3>. QED
      BY <2>1, <2>5, <3>2 DEF Agrees
  <2>. QED
    BY <2>3, <2>4, <2>5 DEF Results
<1>. QED
  BY <1>1 DEF Final

\* What a worker relies on stays true, while the same spend is the current one and a
\* signed one stays signed until its transaction has landed.
LEMMA TaskKept ==
    ASSUME ChainGrows, \A op : Used(op) => Used(op)',
           spend'.op = spend.op, Tx(spend') = Tx(spend),
           spend.state = "ready" => spend'.state = "ready" \/ Tx(spend) \in Landed(chain')
    PROVE  \A u : TaskOK(u) /\ TaskInv(u) => TaskInv(u)'
<1>1. ASSUME NEW u, TaskOK(u), TaskInv(u) PROVE TaskInv(u)'
  <2>1. u.seen.state # "none" => Used(u.seen.op)' /\ NamesNonce(u.seen)'
    BY <1>1 DEF TaskInv, NamesNonce
  <2>2. u.seen.state # "none" /\ u.seen.op = spend'.op => Tx(u.seen) = Tx(spend')
    BY <1>1 DEF TaskInv
  <2>3. u.pc \in Paying => Tx(u.seen) \in Landed(chain') \/ (spend'.state = "ready" /\ spend'.op = u.seen.op)
    <3>1. CASE Tx(u.seen) \in Landed(chain)
      BY <3>1 DEF Landed, ChainGrows
    <3>2. CASE u.pc \in Paying /\ spend.state = "ready" /\ spend.op = u.seen.op
      <4>1. Tx(u.seen) = Tx(spend)
        BY <1>1, <3>2 DEF TaskInv, TaskOK
      <4>. QED
        BY <3>2, <4>1
    <3>. QED
      BY <1>1, <3>1, <3>2 DEF TaskInv
  <2>4. u.pc = "begin" \/ u.seen.state = "reconciling" => OnChain(Tx(u.seen), u.seen.result)'
    BY <1>1 DEF TaskInv, OnChain, ChainGrows, Tx
  <2>5. Tx(u.seen)' = Tx(u.seen) /\ Tx(spend)' = Tx(spend') /\ Landed(chain)' = Landed(chain')
    BY DEF Tx, Landed
  <2>. QED
    BY <2>1, <2>2, <2>3, <2>4, <2>5 DEF TaskInv
<1>. QED
  BY <1>1

\* The chain and what endpoints know of it grow, or something else that no record
\* speaks of changes.
LEMMA ChainStep ==
    ASSUME TypeOK, IInv, UNCHANGED <<spend, receipt, sent, spends, task, answer>>, ChainGrows, ViewInv'
    PROVE  IInv'
<1>1. \A op : Used(op) => Used(op)'
  BY DEF Used
<1>2. \A op : \A r \in Results : Final(op, r) => Final(op, r)'
  <2>1. \A op : Settled(op) => ~(IsActive(spend') /\ spend'.op = op)
    BY DEF Settled
  <2>. QED
    BY <1>1, <2>1, FinalKept
<1>3. \A u : TaskOK(u) /\ TaskInv(u) => TaskInv(u)'
  <2>1. Tx(spend') = Tx(spend) /\ spend'.op = spend.op
    OBVIOUS
  <2>. QED
    BY <1>1, <2>1, TaskKept
<1>4. \A h \in Hosts : TaskInv(task[h])'
  <2>1. ASSUME NEW h \in Hosts PROVE TaskInv(task[h])'
    <3>1. PICK u : u = task[h]
      OBVIOUS
    <3>2. TaskInv(u)'
      BY <1>3, <3>1, WorkerFacts DEF TypeOK, IInv, WorkersInv
    <3>. QED
      BY <3>1, <3>2
  <2>. QED
    BY <2>1
<1>5. \A w \in Withdrawals : AnswerInv(answer[w])'
  <2>1. ASSUME NEW w \in Withdrawals PROVE AnswerInv(answer[w])'
    <3>1. PICK a : a = answer[w]
      OBVIOUS
    <3>2. AnswerInv(a)'
      BY <1>2, <3>1 DEF IInv, WorkersInv, AnswerInv
    <3>. QED
      BY <3>1, <3>2
  <2>. QED
    BY <2>1
<1>6. ReceiptInv'
  <2>1. ASSUME NEW n \in Nonces, receipt[n].type = "terminal" PROVE Final(receipt[n].op, receipt[n].result)'
    <3>1. PICK op, r : op = receipt[n].op /\ r = receipt[n].result
      OBVIOUS
    <3>2. Final(op, r)'
      BY <1>2, <2>1, <3>1, ReceiptFacts DEF IInv, RecordInv, ReceiptInv, TypeOK
    <3>. QED
      BY <3>1, <3>2
  <2>. QED
    BY <2>1 DEF ReceiptInv
<1>7. SentInv'
  BY DEF IInv, RecordInv, SentInv, Used, NamesNonce, Tx
<1>8. SpendInv'
  <2>1. spend.state = "reconciling" => OnChain(Tx(spend), spend.result)'
    BY DEF IInv, RecordInv, SpendInv, OnChain, ChainGrows, Tx
  <2>2. spend.state \in Ended => Final(spend.op, spend.result) /\ spend.result \in Results
    BY DEF IInv, RecordInv, SpendInv, Final, Settled, IsActive, Ended, Active, TypeOK, StoreOK, SpendOK,
           SpendRecords
  <2>3. spend.state \in Ended => Agrees(spend.op, spend.result)'
    <3>1. PICK op, r : op = spend.op /\ r = spend.result
      OBVIOUS
    <3>2. spend.state \in Ended => Agrees(op, r)'
      BY <1>2, <2>2, <3>1 DEF Final
    <3>. QED
      BY <3>1, <3>2
  <2>. QED
    BY <2>1, <2>3 DEF IInv, RecordInv, SpendInv, NamesNonce, Used, Tx
<1>9. InFlightIsRecorded' /\ NoncePaysOnce'
  BY DEF IInv, RecordInv, InFlightIsRecorded, NoncePaysOnce, ChainGrows, Landed, Tx
<1>. QED
  BY <1>4, <1>5, <1>6, <1>7, <1>8, <1>9 DEF IInv, RecordInv, WorkersInv

LEMMA EnvironmentLearns ==
    ASSUME TypeOK, IInv, Environment, \A n \in Nonces : ~ReceiptExpires(n) PROVE IInv'
<1>1. ASSUME UNCHANGED <<spend, receipt, sent, spends, task, answer, view>>, ChainGrows PROVE IInv'
  <2>1. ViewInv'
    BY <1>1 DEF IInv, RecordInv, ViewInv, ChainGrows
  <2>. QED
    BY <1>1, <2>1, ChainStep
<1>2. chain \in Chains
  BY DEF TypeOK, NetOK
<1>3. CASE LockExpires
  BY <1>1, <1>3 DEF LockExpires, store, net, bounds, ChainGrows
<1>4. CASE Deposit
  BY <1>1, <1>2, <1>4 DEF Deposit, store, ChainGrows, Chains
<1>5. ASSUME NEW x \in sent, Land(x) PROVE IInv'
  <2>1. ChainGrows
    BY <1>2, <1>5 DEF Land, Succeed, FailOnChain, ChainGrows, Chains
  <2>. QED
    BY <1>1, <1>5, <2>1 DEF Land, store, bounds
<1>6. ASSUME NEW e \in Endpoints, CatchUp(e) PROVE IInv'
  <2>1. ChainGrows /\ UNCHANGED <<spend, receipt, sent, spends, task, answer>>
    BY <1>6 DEF CatchUp, ChainGrows, store, bounds
  <2>2. ViewInv'
    BY <1>6 DEF CatchUp, IInv, RecordInv, ViewInv, TypeOK, NetOK
  <2>. QED
    BY <2>1, <2>2, ChainStep
<1>7. ASSUME NEW s \in Slots, Drain(s) PROVE IInv'
  BY <1>1, <1>2, <1>7 DEF Drain, store, ChainGrows, Chains
<1>. QED
  BY <1>3, <1>4, <1>5, <1>6, <1>7 DEF Environment

LEMMA ObservingLearns ==
    ASSUME TypeOK, IInv, NEW o \in Observers, Observing(o) PROVE IInv'
<1>1. UNCHANGED <<spend, receipt, task, answer, net, bounds>>
  BY DEF Observing, Observe, ObserveBalance, WriteObservation, store
<1>2. ChainGrows /\ ViewInv'
  BY <1>1 DEF net, ChainGrows, IInv, RecordInv, ViewInv
<1>. QED
  BY <1>1, <1>2, ChainStep DEF net, bounds

-----------------------------------------------------------------------------
(* The steps of a worker that write.                                        *)

\* A worker writes a new state of the current spend: signs it, ends it, or records
\* how it ended; and the receipt of its nonce says the same.
LEMMA SpendMoves ==
    ASSUME TypeOK, IInv, TypeOK', NEW h \in Hosts, NEW pc, Goto(h, pc), pc \notin Paying,
           UNCHANGED <<sent, chain, view, spends>>,
           spend.state \in Active, spend'.state \notin {"none", "reserved"},
           Tx(spend') = Tx(spend), spend'.op = spend.op, spend'.nonce = spend.nonce,
           spend.state = "ready" => spend'.state = "ready" \/ Tx(spend) \in Landed(chain),
           spend'.state = "reconciling" => OnChain(Tx(spend), spend'.result),
           spend'.state \in Ended => Agrees(spend.op, spend'.result),
           \A n \in Nonces : \/ receipt'[n] = receipt[n]
                             \/ /\ receipt'[n].type = "terminal" /\ receipt'[n].op = spend.op
                                /\ receipt'[n].result = spend'.result /\ spend'.state \in Ended
    PROVE  IInv'
<1>1. \A op : Used(op) => Used(op)'
  <2>1. \A n \in Nonces : receipt[n].type # "issued" => receipt'[n].type # "issued"
    OBVIOUS
  <2>. QED
    BY <2>1, UsedGrows DEF TypeOK, BoundsOK
<1>2. ChainGrows /\ Used(spend.op)
  BY DEF ChainGrows, IInv, RecordInv, SpendInv, Active
<1>3. \A op : \A r \in Results : Final(op, r) => Final(op, r)'
  <2>1. \A op : Settled(op) => ~(IsActive(spend') /\ spend'.op = op)
    BY DEF Settled, IsActive
  <2>. QED
    BY <1>1, <1>2, <2>1, FinalKept
<1>4. \A u : TaskOK(u) /\ TaskInv(u) => TaskInv(u)'
  <2>1. Tx(spend) \in Landed(chain) => Tx(spend) \in Landed(chain')
    OBVIOUS
  <2>. QED
    BY <1>1, <1>2, <2>1, TaskKept
<1>5. WorkersInv'
  <2> DEFINE t == [task[h] EXCEPT !.pc = pc]
  <2>1. task' = [task EXCEPT ![h] = t] /\ answer' = answer
    BY DEF Goto, TypeOK, WorkersOK
  <2>2. t.pc = pc /\ t.seen = task[h].seen
    BY WorkerFacts, PcTyped DEF TypeOK
  <2>. HIDE DEF t
  <2>3. PICK u : u = t
    OBVIOUS
  <2>4. PICK v : v = task[h]
    OBVIOUS
  <2>5. TaskInv(v)'
    BY <1>4, <2>4, WorkerFacts DEF TypeOK, IInv, WorkersInv
  <2>6. TaskInv(u)'
    <3>1. u.pc \notin Paying /\ u.pc # "begin" /\ u.seen = v.seen
      BY <2>2, <2>3, <2>4 DEF Paying
    <3>. QED
      BY <2>5, <3>1 DEF TaskInv
  <2>. QED
    BY <1>3, <1>4, <2>1, <2>3, <2>6, WorkerKnows DEF TypeOK, IInv
<1>6. SentInv'
  <2>1. ASSUME NEW x \in sent PROVE Used(x.op)' /\ NamesNonce(x)'
    <3>1. PICK op : op = x.op
      OBVIOUS
    <3>2. Used(op)' /\ NamesNonce(x)
      BY <1>1, <3>1 DEF IInv, RecordInv, SentInv
    <3>. QED
      BY <3>1, <3>2 DEF NamesNonce
  <2>2. ASSUME NEW x \in sent
        PROVE  /\ x.op = spend'.op => x = Tx(spend')
               /\ x.nonce # None /\ x.nonce = spend'.nonce => x = Tx(spend')
    BY DEF IInv, RecordInv, SentInv
  <2>3. Tx(spend)' = Tx(spend')
    BY DEF Tx
  <2>. QED
    BY <2>1, <2>2, <2>3 DEF SentInv
<1>7. Used(spend.op)' /\ Agrees(spend.op, spend'.result) = Agrees(spend.op, spend.result)'
  <2>1. PICK op : op = spend.op
    OBVIOUS
  <2>2. Used(op)'
    BY <1>1, <1>2, <2>1
  <2>3. spend'.op = op
    BY <2>1
  <2>. QED
    BY <2>1, <2>2, <2>3 DEF Agrees, Used
<1>8. SpendInv'
  <2>1. NamesNonce(spend)'
    BY DEF IInv, RecordInv, SpendInv, NamesNonce
  <2>2. Tx(spend)' = Tx(spend) /\ OnChain(Tx(spend), spend'.result) = OnChain(Tx(spend), spend.result)'
    BY DEF Tx, OnChain
  <2>. QED
    BY <1>7, <2>1, <2>2 DEF SpendInv
<1>9. ReceiptInv'
  <2>1. ASSUME NEW n \in Nonces, receipt'[n].type = "terminal"
        PROVE  Final(receipt[n].op, receipt[n].result)'
    <3>1. CASE receipt'[n] = receipt[n]
      <4>1. PICK op, r : op = receipt[n].op /\ r = receipt[n].result
        OBVIOUS
      <4>2. Final(op, r)'
        BY <1>3, <2>1, <3>1, <4>1, ReceiptFacts DEF IInv, RecordInv, ReceiptInv, TypeOK
      <4>. QED
        BY <3>1, <4>1, <4>2
    <3>2. CASE /\ receipt'[n].op = spend.op /\ receipt'[n].result = spend'.result
               /\ spend'.state \in Ended
      <4>1. ~IsActive(spend')
        BY <3>2 DEF IsActive, Active, Ended
      <4>2. Used(receipt[n].op)' /\ Agrees(receipt[n].op, receipt[n].result)'
        BY <1>7, <3>2 DEF Agrees, Used
      <4>. QED
        BY <4>1, <4>2 DEF Final, Settled, IsActive
    <3>. QED
      BY <3>1, <3>2
  <2>. QED
    BY <2>1 DEF ReceiptInv
<1>10. ViewInv' /\ NoncePaysOnce'
  BY DEF IInv, RecordInv, ViewInv, NoncePaysOnce
<1>11. InFlightIsRecorded'
  <2>1. Tx(spend)' = Tx(spend)
    BY DEF Tx
  <2>. QED
    BY <2>1 DEF IInv, RecordInv, InFlightIsRecorded, Landed
<1>. QED
  BY <1>5, <1>6, <1>8, <1>9, <1>10, <1>11 DEF IInv, RecordInv

\* What becomes of the receipts when the spend ends with a result.
LEMMA ReceiptAfterSays ==
    ASSUME StoreOK, spend.state # "none", NEW result, NEW n \in Nonces
    PROVE  \/ ReceiptAfter(spend, result)[n] = receipt[n]
           \/ /\ ReceiptAfter(spend, result)[n].type = "terminal"
              /\ ReceiptAfter(spend, result)[n].op = spend.op
              /\ ReceiptAfter(spend, result)[n].result = result
  BY DEF ReceiptAfter, StoreOK

LEMMA MarkReadyLearns ==
    ASSUME TypeOK, IInv, NEW h \in Hosts, MarkReady(h) PROVE IInv'
<1>1. TypeOK'
  BY MarkReadyTyped
<1>2. At(h, "ready") /\ Goto(h, "reread") /\ UNCHANGED <<receipt, slot, watch, net, bounds>>
  BY DEF MarkReady
<1>3. CASE Same(spend, task[h].seen)
  <2>1. spend.state = "reserved" /\ spend.state \in Active
    BY <1>2, <1>3, SameState DEF At, Preparing
  <2>2. spend \in SpendRecords /\ spend' = [spend EXCEPT !.state = "ready", !.signed = TRUE]
    BY <1>3 DEF MarkReady, TypeOK, StoreOK
  <2>3. /\ spend'.state = "ready" /\ spend'.op = spend.op /\ spend'.nonce = spend.nonce
        /\ Tx(spend') = Tx(spend)
    BY <2>2 DEF SpendRecords, Tx
  <2>. QED
    BY <1>1, <1>2, <2>1, <2>3, SpendMoves DEF Paying, Ended, net, bounds
<1>4. CASE ~Same(spend, task[h].seen)
  <2>1. UNCHANGED <<world, view>>
    BY <1>2, <1>4 DEF MarkReady, world, net, bounds
  <2>. QED
    BY <1>2, <2>1, GotoLearns, LearnedKeeps DEF Paying
<1>. QED
  BY <1>3, <1>4

\* The result was learned of the transaction of the spend.
LEMMA BeginReconciliationLearns ==
    ASSUME TypeOK, IInv, NEW h \in Hosts, BeginReconciliation(h) PROVE IInv'
<1>1. TypeOK'
  BY BeginReconciliationTyped
<1>2. At(h, "begin") /\ Goto(h, "reread") /\ UNCHANGED <<receipt, acct, slot, watch, net, bounds>>
  BY DEF BeginReconciliation
<1>3. CASE Same(spend, task[h].seen)
  <2>1. spend.state = "ready" /\ spend.state \in Active /\ spend.op = task[h].seen.op
    BY <1>2, <1>3, SameState DEF At, Paying
  <2>2. spend \in SpendRecords
        /\ spend' = [spend EXCEPT !.state = "reconciling", !.result = task[h].seen.result]
    BY <1>3 DEF BeginReconciliation, TypeOK, StoreOK
  <2>3. /\ spend'.state = "reconciling" /\ spend'.op = spend.op /\ spend'.nonce = spend.nonce
        /\ Tx(spend') = Tx(spend) /\ spend'.result = task[h].seen.result
    BY <2>2 DEF SpendRecords, Tx
  <2>4. OnChain(Tx(spend), spend'.result)
    <3>1. TaskInv(task[h]) /\ task[h].seen.state = "ready"
      BY <1>2, WorkerFacts DEF IInv, WorkersInv, TypeOK, TaskOK, At, Paying
    <3>. QED
      BY <1>2, <2>1, <2>3, <3>1 DEF TaskInv, At
  <2>5. Tx(spend) \in Landed(chain)
    BY <2>4 DEF OnChain, Landed
  <2>. QED
    BY <1>1, <1>2, <2>1, <2>3, <2>4, <2>5, SpendMoves DEF Paying, Ended, net, bounds
<1>4. CASE ~Same(spend, task[h].seen)
  <2>1. UNCHANGED <<world, view>>
    BY <1>2, <1>4 DEF BeginReconciliation, world, net, bounds
  <2>. QED
    BY <1>2, <2>1, GotoLearns, LearnedKeeps DEF Paying
<1>. QED
  BY <1>3, <1>4

\* A reserved spend has never reached the network.
LEMMA FailReservedLearns ==
    ASSUME TypeOK, IInv, NEW h \in Hosts, FailReserved(h) PROVE IInv'
<1>1. TypeOK'
  BY FailReservedTyped
<1>2. task[h].pc \in Preparing /\ UNCHANGED <<acct, slot, watch, net, bounds>>
  BY DEF FailReserved, Preparing
<1>3. CASE Same(spend, task[h].seen)
  <2> DEFINE result == IF At(h, "failing") THEN "failed" ELSE "runway_blocked"
             required == IF At(h, "blocking") /\ spend.slot # None THEN Runway + Cost(spend) ELSE None
             c == Closed(spend, result)
  <2>1. spend.state = "reserved" /\ spend.state \in Active /\ spend.state # "none"
    BY <1>2, <1>3, SameState
  <2>2. result \in {"failed", "runway_blocked"} /\ result \in Results
    BY DEF Results
  <2>3. /\ spend' = [c EXCEPT !.required = required]
        /\ receipt' = ReceiptAfter(spend, result) /\ Goto(h, "failed")
    BY <1>3 DEF FailReserved
  <2> HIDE DEF result, required
  <2>4. /\ c \in SpendRecords /\ c.state \in Ended /\ c.result = result
        /\ c.op = spend.op /\ Tx(c) = Tx(spend) /\ c.nonce = spend.nonce
    BY <2>1, <2>2, ClosedTyped DEF TypeOK, StoreOK
  <2> HIDE DEF c
  <2>5. /\ spend'.state \in Ended /\ spend'.result = result
        /\ spend'.op = spend.op /\ Tx(spend') = Tx(spend) /\ spend'.nonce = spend.nonce
    BY <2>3, <2>4 DEF SpendRecords, Tx
  <2>6. Agrees(spend.op, result)
    <3>1. \A x \in sent : x.op # spend.op
      BY <2>1 DEF IInv, RecordInv, SpendInv, SentInv
    <3>. QED
      BY <2>2, <3>1 DEF Agrees
  <2>7. \A n \in Nonces : \/ receipt'[n] = receipt[n]
                          \/ /\ receipt'[n].type = "terminal" /\ receipt'[n].op = spend.op
                             /\ receipt'[n].result = spend'.result /\ spend'.state \in Ended
    BY <2>1, <2>3, <2>5, ReceiptAfterSays DEF TypeOK
  <2>8. spend'.state \notin {"none", "reserved", "reconciling"}
    BY <2>5 DEF Ended
  <2>. QED
    BY <1>1, <1>2, <2>1, <2>3, <2>5, <2>6, <2>7, <2>8, SpendMoves DEF Paying, net, bounds
<1>4. CASE ~Same(spend, task[h].seen)
  <2>1. UNCHANGED <<world, view>> /\ Goto(h, "reread")
    BY <1>2, <1>4 DEF FailReserved, world, net, bounds
  <2>. QED
    BY <2>1, GotoLearns, LearnedKeeps DEF Paying
<1>. QED
  BY <1>3, <1>4

\* What the spend ends with was read from the chain, of its own transaction.
LEMMA CompleteLearns ==
    ASSUME TypeOK, IInv, NEW h \in Hosts, Complete(h) PROVE IInv'
<1> DEFINE s == task[h].seen
           Kept == Same(spend, s) /\ (s.slot # None => slot[s.slot].seq = task[h].slotSeq)
<1>1. TypeOK'
  BY CompleteTyped
<1>2. At(h, "complete") /\ UNCHANGED <<watch, net, bounds>>
  BY DEF Complete
<1>3. CASE Kept
  <2>1. /\ spend' = Closed(spend, s.result) /\ receipt' = ReceiptAfter(spend, s.result)
        /\ Goto(h, "completed")
    BY <1>3 DEF Complete
  <2>2. /\ spend.state = "reconciling" /\ spend.state \in Active /\ spend.state # "none"
        /\ spend.op = s.op
    BY <1>2, <1>3, SameState DEF At, Reconciling
  <2>3. TaskInv(task[h]) /\ s.state = "reconciling" /\ s.result \in Results
    BY <1>2, WorkerFacts DEF IInv, WorkersInv, TypeOK, TaskOK, At, Reconciling, SpendOK, SpendRecords
  <2>4. OnChain(Tx(spend), s.result)
    BY <2>2, <2>3 DEF TaskInv
  <2>5. Agrees(spend.op, s.result)
    <3>1. Tx(spend).op = spend.op
      BY DEF Tx
    <3>2. \A x \in sent : x.op = spend.op => x = Tx(spend)
      BY DEF IInv, RecordInv, SentInv
    <3>. QED
      BY <2>4, <3>1, <3>2 DEF Agrees, OnChain
  <2>6. /\ spend'.state \in Ended /\ spend'.result = s.result
        /\ spend'.op = spend.op /\ Tx(spend') = Tx(spend) /\ spend'.nonce = spend.nonce
    BY <2>1, <2>2, <2>3, ClosedTyped DEF TypeOK, StoreOK
  <2>7. \A n \in Nonces : \/ receipt'[n] = receipt[n]
                          \/ /\ receipt'[n].type = "terminal" /\ receipt'[n].op = spend.op
                             /\ receipt'[n].result = spend'.result /\ spend'.state \in Ended
    BY <2>1, <2>2, <2>6, ReceiptAfterSays DEF TypeOK
  <2>8. spend'.state \notin {"none", "reserved", "reconciling"}
    BY <2>6 DEF Ended
  <2>. QED
    BY <1>1, <1>2, <2>1, <2>2, <2>5, <2>6, <2>7, <2>8, SpendMoves DEF Paying, net, bounds
<1>4. CASE ~Kept
  <2>1. UNCHANGED <<world, view>> /\ Goto(h, "superseded")
    BY <1>2, <1>4 DEF Complete, world, store, net, bounds
  <2>. QED
    BY <2>1, GotoLearns, LearnedKeeps DEF Paying
<1>. QED
  BY <1>3, <1>4

\* The operation that is reserved was never accepted: its nonce is still issued, or
\* it is one refill more.
LEMMA AskedIsNew ==
    ASSUME TypeOK, NEW h \in Hosts, At(h, "reserve"),
           task[h].job.kind = "withdraw" => receipt[Asked(h).nonce].type = "issued"
    PROVE  /\ ~Used(Asked(h).op) /\ NamesNonce(Asked(h))
           /\ Asked(h).nonce # None => \A a : ~Used(<<Asked(h).nonce, a>>)
<1>1. CASE task[h].job.kind = "withdraw"
  <2>1. /\ Asked(h).op = <<Asked(h).nonce, AmountOf[task[h].job.request]>> /\ Asked(h).nonce \in Nonces
        /\ AmountOf[task[h].job.request] \in Nat
    BY <1>1, AskedTyped, SpendAssumption DEF OpOf
  <2>2. \A a : ~Used(<<Asked(h).nonce, a>>)
    BY <1>1, <2>1, SpendAssumption DEF Used
  <2>. QED
    BY <2>1, <2>2 DEF NamesNonce
<1>2. CASE task[h].job.kind # "withdraw"
  <2>1. Asked(h).op = <<"refill", spends + 1>> /\ Asked(h).nonce = None /\ spends \in Nat
    BY <1>2, AskedTyped DEF TypeOK, BoundsOK
  <2>2. ASSUME NEW k \in Nat, k <= spends PROVE <<"refill", spends + 1>> # <<"refill", k>>
    BY <2>1, <2>2
  <2>3. ASSUME NEW n \in Nonces, NEW a PROVE <<"refill", spends + 1>> # <<n, a>>
    BY SpendAssumption
  <2>4. ~Used(Asked(h).op)
    BY <2>1, <2>2, <2>3 DEF Used
  <2>. QED
    BY <2>1, <2>4 DEF NamesNonce
<1>. QED
  BY <1>1, <1>2

LEMMA AcceptLearns ==
    ASSUME TypeOK, IInv, NEW h \in Hosts, At(h, "reserve"), Accept(h), ~IsActive(spend), net' = net,
           task[h].job.kind = "withdraw" => receipt[Asked(h).nonce].type = "issued"
    PROVE  IInv'
<1>1. /\ spend' = Asked(h) /\ spends' = spends + 1 /\ spends \in Nat /\ answer' = answer
      /\ spend'.state = "reserved" /\ spend'.op \in Operations
      /\ UNCHANGED <<sent, chain, view>>
  BY AskedTyped DEF Accept, TypeOK, BoundsOK, net
<1>2. /\ ~Used(spend'.op) /\ NamesNonce(spend')
      /\ spend'.nonce # None => \A a : ~Used(<<spend'.nonce, a>>)
  BY <1>1, AskedIsNew
<1>3. /\ Tx(spend').op = spend'.op /\ Tx(spend)' = Tx(spend')
  BY DEF Tx
<1>4. \A n \in Nonces : receipt'[n] = receipt[n] \/ receipt'[n].type = "accepted"
  BY DEF Accept, TypeOK, StoreOK
<1>5. \A op : Used(op) => Used(op)'
  <2>1. \A n \in Nonces : receipt[n].type # "issued" => receipt'[n].type # "issued"
    BY <1>4
  <2>2. spends' \in Nat /\ spends <= spends'
    BY <1>1
  <2>. QED
    BY <1>1, <2>1, <2>2, UsedGrows
<1>6. Used(spend.op)'
  <2>1. CASE task[h].job.kind = "withdraw"
    <3>1. /\ spend'.op = <<Asked(h).nonce, AmountOf[task[h].job.request]>>
          /\ Asked(h).nonce \in Nonces /\ AmountOf[task[h].job.request] \in Nat
      BY <1>1, <2>1, AskedTyped, SpendAssumption DEF OpOf
    <3>2. receipt'[Asked(h).nonce].type = "accepted"
      BY <2>1, <3>1 DEF Accept, TypeOK, StoreOK
    <3>. QED
      BY <3>1, <3>2 DEF Used
  <2>2. CASE task[h].job.kind # "withdraw"
    BY <1>1, <2>2, AskedTyped DEF Used
  <2>. QED
    BY <2>1, <2>2
<1>7. ChainGrows
  BY <1>1 DEF ChainGrows
<1>8. \A op : \A r \in Results : Final(op, r) => Final(op, r)'
  <2>1. \A op : Settled(op) => ~(IsActive(spend') /\ spend'.op = op)
    BY <1>2 DEF Settled
  <2>2. \A x \in sent' \ sent : ~Settled(x.op)
    BY <1>1
  <2>. QED
    BY <1>5, <1>7, <2>1, <2>2, FinalKept
<1>9. \A u : TaskOK(u) /\ TaskInv(u) => TaskInv(u)'
  <2>1. ASSUME NEW u, TaskOK(u), TaskInv(u) PROVE TaskInv(u)'
    <3>1. u.seen.state # "none" => Used(u.seen.op) /\ Used(u.seen.op)' /\ NamesNonce(u.seen)'
      BY <1>5, <2>1 DEF TaskInv, NamesNonce
    <3>2. u.pc \in Paying => Tx(u.seen) \in Landed(chain)
      BY <2>1 DEF TaskInv, IsActive, Active
    <3>3. Tx(u.seen)' = Tx(u.seen)
      BY DEF Tx
    <3>. QED
      BY <1>1, <1>2, <2>1, <3>1, <3>2, <3>3 DEF TaskInv, OnChain, Landed
  <2>. QED
    BY <2>1
<1>10. WorkersInv'
  <2> DEFINE t == [task[h] EXCEPT !.pc = "created", !.seen = Asked(h)]
  <2>1. task' = [task EXCEPT ![h] = t]
    BY DEF Accept
  <2>2. t.pc = "created" /\ t.seen = Asked(h)
    BY WorkerFacts DEF TypeOK, Tasks
  <2>. HIDE DEF t
  <2>3. PICK u : u = t
    OBVIOUS
  <2>4. u.pc = "created" /\ u.seen = spend'
    BY <1>1, <2>2, <2>3
  <2>5. Tx(u.seen)' = Tx(spend)' /\ NamesNonce(u.seen)'
    BY <1>2, <2>4 DEF Tx, NamesNonce
  <2>6. Used(u.seen.op)'
    BY <1>6, <2>4 DEF Used
  <2>7. TaskInv(u)'
    BY <1>1, <2>4, <2>5, <2>6 DEF TaskInv, Paying
  <2>. QED
    BY <1>1, <1>8, <1>9, <2>1, <2>3, <2>7, WorkerKnows DEF TypeOK, IInv
<1>11. SentInv'
  <2>1. ASSUME NEW x \in sent PROVE Used(x.op)' /\ NamesNonce(x)' /\ Used(x.op) /\ NamesNonce(x)
    <3>1. Used(x.op) /\ NamesNonce(x)
      BY DEF IInv, RecordInv, SentInv
    <3>. QED
      BY <1>5, <3>1 DEF NamesNonce
  <2>2. ASSUME NEW x \in sent
        PROVE  x.op # spend'.op /\ (x.nonce # None => x.nonce # spend'.nonce)
    BY <1>2, <2>1 DEF NamesNonce
  <2>. QED
    BY <1>1, <2>1, <2>2 DEF SentInv
<1>12. SpendInv'
  <2>1. Tx(spend') \notin sent
    BY <1>2, <1>3 DEF IInv, RecordInv, SentInv
  <2>2. NamesNonce(spend)'
    BY <1>2 DEF NamesNonce
  <2>. QED
    BY <1>1, <1>3, <1>6, <2>1, <2>2 DEF SpendInv, Ended
<1>13. ReceiptInv'
  <2>1. ASSUME NEW n \in Nonces, receipt'[n].type = "terminal"
        PROVE  Final(receipt[n].op, receipt[n].result)'
    <3>1. receipt'[n] = receipt[n]
      BY <1>4, <2>1
    <3>2. PICK op, r : op = receipt[n].op /\ r = receipt[n].result
      OBVIOUS
    <3>3. Final(op, r)'
      BY <1>8, <2>1, <3>1, <3>2, ReceiptFacts DEF IInv, RecordInv, ReceiptInv, TypeOK
    <3>. QED
      BY <3>1, <3>2, <3>3
  <2>. QED
    BY <2>1 DEF ReceiptInv
<1>14. ViewInv' /\ NoncePaysOnce'
  BY <1>1 DEF IInv, RecordInv, ViewInv, NoncePaysOnce
<1>15. InFlightIsRecorded'
  <2>1. sent \subseteq Landed(chain)
    BY DEF IInv, RecordInv, InFlightIsRecorded, IsActive, Active
  <2>. QED
    BY <1>1, <2>1 DEF InFlightIsRecorded, Landed
<1>. QED
  BY <1>10, <1>11, <1>12, <1>13, <1>14, <1>15 DEF IInv, RecordInv

LEMMA ReserveLearns ==
    ASSUME TypeOK, IInv, NEW h \in Hosts, Reserve(h) PROVE IInv'
<1> DEFINE withdrawal == task[h].job.kind = "withdraw"
           n == NonceOf[task[h].job.request]
<1>1. At(h, "reserve") /\ UNCHANGED <<watch, net, deposits, drains, faults>>
  BY DEF Reserve
<1>2. ASSUME Learned(h), UNCHANGED <<store, spends>> PROVE IInv'
  BY <1>1, <1>2, LearnedKeeps DEF world, store, net
<1>3. CASE Accept(h) /\ ~IsActive(spend) /\ (withdrawal => NonceUnused(n))
  <2>1. withdrawal => Asked(h).nonce = n
    BY <1>1, AskedTyped
  <2>. QED
    BY <1>1, <1>3, <2>1, AcceptLearns DEF NonceUnused
<1>4. CASE Goto(h, "active") /\ UNCHANGED <<store, spends>>
  BY <1>2, <1>4, GotoLearns DEF Paying
<1>5. CASE Tell(h, "nonce_missing", None) /\ UNCHANGED <<store, spends>>
  BY <1>2, <1>5, TellLearns DEF Results
<1>6. CASE withdrawal /\ ByReceipt(h, receipt[n]) /\ UNCHANGED <<store, spends>>
  <2>1. n \in Nonces
    BY <1>6, OwnTyped
  <2>. QED
    BY <1>2, <1>6, <2>1, ByReceiptLearns
<1>7. CASE Unsettled(h) /\ UNCHANGED <<store, spends>>
  BY <1>2, <1>7, UnsettledLearns
<1>. QED
  BY <1>3, <1>4, <1>5, <1>6, <1>7 DEF Reserve

\* What is submitted is the signed current spend, or landed before.
LEMMA SubmitLearns ==
    ASSUME TypeOK, IInv, NEW h \in Hosts, Submit(h) PROVE IInv'
<1> DEFINE x == Tx(task[h].seen)
<1>1. At(h, "submit") /\ Goto(h, "submitted") /\ UNCHANGED <<store, watch, chain, view, bounds>>
  BY DEF Submit
<1>2. TaskInv(task[h]) /\ TaskOK(task[h]) /\ task[h].pc \in Paying
  BY <1>1, WorkerFacts DEF IInv, WorkersInv, TypeOK, At, Paying
<1>3. CASE sent' = sent
  BY <1>1, <1>2, <1>3, GotoLearns, LearnedKeeps DEF world, store, bounds, Paying
<1>4. CASE sent' # sent
  <2>1. sent' = sent \cup {x} /\ x \notin sent
    BY <1>4 DEF Submit
  <2>2. x \notin Landed(chain)
    BY <2>1 DEF TypeOK, NetOK
  <2>3. spend.state = "ready" /\ x = Tx(spend) /\ IsActive(spend)
    BY <1>2, <2>2 DEF TaskInv, TaskOK, IsActive, Active
  <2>. HIDE DEF x
  <2>4. x.op = spend.op /\ x.nonce = spend.nonce
    BY <2>3 DEF Tx
  <2>5. UNCHANGED <<spend, receipt, spends, chain, view>>
    BY <1>1 DEF store, bounds
  <2>6. ChainGrows /\ Tx(spend') = Tx(spend) /\ spend'.op = spend.op
    BY <2>5 DEF ChainGrows
  <2>7. \A op : Used(op) <=> Used(op)'
    BY <2>5 DEF Used
  <2>8. \A op : \A r \in Results : Final(op, r) => Final(op, r)'
    <3>1. \A op : Settled(op) => ~(IsActive(spend') /\ spend'.op = op)
      BY <2>5 DEF Settled
    <3>2. \A y \in sent' \ sent : ~Settled(y.op)
      BY <2>1, <2>3, <2>4 DEF Settled
    <3>. QED
      BY <2>6, <2>7, <3>1, <3>2, FinalKept
  <2>9. \A u : TaskOK(u) /\ TaskInv(u) => TaskInv(u)'
    BY <2>3, <2>5, <2>6, <2>7, TaskKept
  <2>10. WorkersInv'
    <3> DEFINE t == [task[h] EXCEPT !.pc = "submitted"]
    <3>1. task' = [task EXCEPT ![h] = t] /\ answer' = answer
      BY <1>1 DEF Goto, TypeOK, WorkersOK
    <3>2. t.pc = "submitted" /\ t.seen = task[h].seen
      BY WorkerFacts, PcTyped DEF TypeOK
    <3>. HIDE DEF t
    <3>3. PICK u, v : u = t /\ v = task[h]
      OBVIOUS
    <3>4. TaskInv(v)'
      BY <1>2, <2>9, <3>3
    <3>5. TaskInv(u)'
      <4>1. u.pc = "submitted" /\ v.pc \in Paying /\ u.seen = v.seen
        BY <1>2, <3>2, <3>3
      <4>. QED
        BY <3>4, <4>1 DEF TaskInv
    <3>. QED
      BY <2>8, <2>9, <3>1, <3>3, <3>5, WorkerKnows DEF TypeOK, IInv
  <2>11. SentInv'
    <3>1. ASSUME NEW y \in sent'
          PROVE  /\ Used(y.op) /\ NamesNonce(y)
                 /\ y.op = spend.op => y = Tx(spend)
                 /\ y.nonce # None /\ y.nonce = spend.nonce => y = Tx(spend)
      <4>1. CASE y \in sent
        BY <4>1 DEF IInv, RecordInv, SentInv
      <4>2. CASE y = x
        BY <2>3, <2>4, <4>2 DEF IInv, RecordInv, SpendInv, NamesNonce
      <4>. QED
        BY <2>1, <4>1, <4>2
    <3>2. Tx(spend)' = Tx(spend)
      BY <2>5 DEF Tx
    <3>. QED
      BY <2>5, <2>7, <3>1, <3>2 DEF SentInv, NamesNonce
  <2>12. SpendInv'
    <3>1. NamesNonce(spend)' /\ (spend.state # "none" => Used(spend.op)')
      BY <2>5, <2>7 DEF IInv, RecordInv, SpendInv, NamesNonce
    <3>. QED
      BY <2>3, <2>5, <3>1 DEF SpendInv, Ended
  <2>13. ReceiptInv'
    <3>1. ASSUME NEW n \in Nonces, receipt[n].type = "terminal" PROVE Final(receipt[n].op, receipt[n].result)'
      <4>1. PICK op, r : op = receipt[n].op /\ r = receipt[n].result
        OBVIOUS
      <4>2. Final(op, r)'
        BY <2>8, <3>1, <4>1, ReceiptFacts DEF IInv, RecordInv, ReceiptInv, TypeOK
      <4>. QED
        BY <2>5, <4>1, <4>2
    <3>. QED
      BY <2>5, <3>1 DEF ReceiptInv
  <2>14. ViewInv'
    BY <2>5 DEF IInv, RecordInv, ViewInv
  <2>15. NoncePaysOnce'
    <3>1. ASSUME NEW y \in sent, y.nonce = x.nonce, y.nonce # None PROVE y = x
      BY <2>3, <2>4, <3>1 DEF IInv, RecordInv, SentInv
    <3>. QED
      BY <2>1, <3>1 DEF IInv, RecordInv, NoncePaysOnce
  <2>16. InFlightIsRecorded'
    <3>1. Tx(spend)' = Tx(spend)
      BY <2>5 DEF Tx
    <3>. QED
      BY <2>1, <2>3, <2>5, <3>1 DEF IInv, RecordInv, InFlightIsRecorded, Landed
  <2>. QED
    BY <2>10, <2>11, <2>12, <2>13, <2>14, <2>15, <2>16 DEF IInv, RecordInv
<1>. QED
  BY <1>3, <1>4

LEMMA WritesLearn ==
    ASSUME TypeOK, IInv, NEW h \in Hosts, Writes(h) PROVE IInv'
<1>1. CASE NoteBalance(h)
  BY <1>1, UnsettledLearns, LearnedKeeps DEF NoteBalance, world, net, bounds
<1>. QED
  BY <1>1, ReserveLearns, MarkReadyLearns, FailReservedLearns, SubmitLearns, BeginReconciliationLearns,
     CompleteLearns DEF Writes

LEMMA FaultsLearn ==
    ASSUME TypeOK, IInv, NEW h \in Hosts, Fails(h) \/ Crash(h) PROVE IInv'
<1>1. UNCHANGED <<world, view>>
  BY DEF Fails, Crash, Fault, world, store, net
<1>2. Learned(h)
  <2>1. CASE Fails(h)
    BY <2>1, UnsettledLearns DEF Fails
  <2>2. CASE Crash(h)
    <3>1. TaskInv(Resting)
      BY DEF TaskInv, Resting, NoSpend, Paying
    <3>2. ASSUME NEW w \in Withdrawals, answer'[w] # answer[w] PROVE answer'[w].status = "unsettled"
      BY <2>2, <3>2 DEF Crash, TypeOK, WorkersOK
    <3>. QED
      BY <2>2, <3>1, <3>2 DEF Crash, Learned, AnswerInv, Results
  <2>. QED
    BY <2>1, <2>2
<1>. QED
  BY <1>1, <1>2, LearnedKeeps

\* A receipt that is forgotten is not issued again.
LEMMA ReceiptExpiresLearns ==
    ASSUME TypeOK, IInv, NEW n \in Nonces, ReceiptExpires(n) PROVE IInv'
<1>1. /\ UNCHANGED <<spend, task, answer, sent, chain, view, spends>>
      /\ \A m \in Nonces : receipt'[m] = receipt[m] \/ receipt'[m].type = "absent"
  BY DEF ReceiptExpires, net, bounds, TypeOK, StoreOK
<1>2. \A op : Used(op) => Used(op)'
  <2>1. \A m \in Nonces : receipt[m].type # "issued" => receipt'[m].type # "issued"
    BY <1>1
  <2>2. spends \in Nat /\ spends' \in Nat /\ spends <= spends'
    BY <1>1 DEF TypeOK, BoundsOK
  <2>. QED
    BY <2>1, <2>2, UsedGrows
<1>3. ChainGrows /\ Tx(spend') = Tx(spend) /\ Tx(spend)' = Tx(spend) /\ spend'.op = spend.op
  BY <1>1 DEF ChainGrows, Tx
<1>4. \A op : \A r \in Results : Final(op, r) => Final(op, r)'
  <2>1. \A op : Settled(op) => ~(IsActive(spend') /\ spend'.op = op)
    BY <1>1 DEF Settled
  <2>. QED
    BY <1>1, <1>2, <1>3, <2>1, FinalKept
<1>5. \A u : TaskOK(u) /\ TaskInv(u) => TaskInv(u)'
  BY <1>1, <1>2, <1>3, TaskKept
<1>6. WorkersInv'
  <2>1. ASSUME NEW h \in Hosts PROVE TaskInv(task[h])'
    <3>1. PICK u : u = task[h]
      OBVIOUS
    <3>2. TaskInv(u)'
      BY <1>5, <3>1, WorkerFacts DEF TypeOK, IInv, WorkersInv
    <3>. QED
      BY <1>1, <3>1, <3>2
  <2>2. ASSUME NEW w \in Withdrawals PROVE AnswerInv(answer[w])'
    <3>1. PICK a : a = answer[w]
      OBVIOUS
    <3>2. AnswerInv(a)'
      BY <1>4, <3>1 DEF IInv, WorkersInv, AnswerInv
    <3>. QED
      BY <1>1, <3>1, <3>2
  <2>. QED
    BY <2>1, <2>2 DEF WorkersInv
<1>7. SentInv'
  <2>1. ASSUME NEW x \in sent PROVE Used(x.op)' /\ NamesNonce(x)'
    BY <1>2 DEF IInv, RecordInv, SentInv, NamesNonce
  <2>. QED
    BY <1>1, <1>3, <2>1 DEF IInv, RecordInv, SentInv
<1>8. SpendInv'
  <2>1. spend.state # "none" => Used(spend.op)'
    <3>1. PICK op : op = spend.op
      OBVIOUS
    <3>2. spend.state # "none" => Used(op)'
      BY <1>2, <3>1 DEF IInv, RecordInv, SpendInv
    <3>. QED
      BY <1>1, <3>1, <3>2 DEF Used
  <2>. QED
    BY <1>1, <1>3, <2>1 DEF IInv, RecordInv, SpendInv, NamesNonce, OnChain, Agrees
<1>9. ReceiptInv'
  <2>1. ASSUME NEW m \in Nonces, receipt'[m].type = "terminal"
        PROVE  Final(receipt[m].op, receipt[m].result)'
    <3>1. receipt'[m] = receipt[m]
      BY <1>1, <2>1
    <3>2. PICK op, r : op = receipt[m].op /\ r = receipt[m].result
      OBVIOUS
    <3>3. Final(op, r)'
      BY <1>4, <2>1, <3>1, <3>2, ReceiptFacts DEF IInv, RecordInv, ReceiptInv, TypeOK
    <3>. QED
      BY <3>1, <3>2, <3>3
  <2>. QED
    BY <2>1 DEF ReceiptInv
<1>10. ViewInv' /\ NoncePaysOnce' /\ InFlightIsRecorded'
  BY <1>1, <1>3 DEF IInv, RecordInv, ViewInv, NoncePaysOnce, InFlightIsRecorded, Landed
<1>. QED
  BY <1>6, <1>7, <1>8, <1>9, <1>10 DEF IInv, RecordInv

-----------------------------------------------------------------------------
(* The theorems.                                                            *)

LEMMA IInvInit == Init => IInv
<1>. SUFFICES ASSUME Init PROVE IInv
  OBVIOUS
<1>1. RecordInv
  BY DEF Init, RecordInv, SentInv, SpendInv, ViewInv, ReceiptInv, InFlightIsRecorded, NoncePaysOnce,
         NoSpend, NamesNonce, Ended, Landed
<1>2. WorkersInv
  BY DEF Init, WorkersInv, TaskInv, AnswerInv, Resting, NoSpend, Paying, Results
<1>. QED
  BY <1>1, <1>2 DEF IInv

LEMMA IInvNext == TypeOK /\ IInv /\ [Next]_vars => IInv'
<1>. SUFFICES ASSUME TypeOK, IInv, [Next]_vars PROVE IInv'
  OBVIOUS
<1>1. CASE UNCHANGED vars
  <2>1. UNCHANGED <<spend, receipt, sent, spends, task, answer>> /\ ChainGrows /\ ViewInv'
    BY <1>1 DEF vars, store, net, bounds, ChainGrows, IInv, RecordInv, ViewInv
  <2>. QED
    BY <2>1, ChainStep
<1>2. CASE Environment
  BY <1>2, EnvironmentLearns, ReceiptExpiresLearns
<1>. QED
  BY <1>1, <1>2, Steps, ReadsLearn, WritesLearn, FaultsLearn, ObservingLearns

LEMMA Inductive == Spec => [](TypeOK /\ IInv)
  BY TypeInit, TypeNext, IInvInit, IInvNext, PTL DEF Spec

\* Whatever races, every transaction that is in flight is the one whose exact identity
\* the durable record holds, signed and not yet reconciled (markReady, markReconciling).
THEOREM InFlightRecorded == Spec => []InFlightIsRecorded
<1>1. IInv => InFlightIsRecorded
  BY DEF IInv, RecordInv
<1>. QED
  BY <1>1, Inductive, PTL

\* What the record and the receipts say of an ended spend is what the chain did.
THEOREM OutcomesOnChain == Spec => []OutcomeIsOnChain
<1>1. TypeOK /\ IInv => OutcomeIsOnChain
  <2>. SUFFICES ASSUME TypeOK, IInv PROVE OutcomeIsOnChain
    OBVIOUS
  <2>1. spend.state = "reconciling" => Agrees(spend.op, spend.result)
    <3>1. Tx(spend).op = spend.op
      BY DEF Tx
    <3>. QED
      BY <3>1 DEF IInv, RecordInv, SpendInv, SentInv, OnChain, Agrees
  <2>. QED
    BY <2>1 DEF IInv, RecordInv, SpendInv, ReceiptInv, Final, OutcomeIsOnChain
<1>. QED
  BY <1>1, Inductive, PTL

\* A nonce pays once, however often the request is repeated and whatever expired.
THEOREM NoncesPayOnce == Spec => []NoncePaysOnce
<1>1. IInv => NoncePaysOnce
  BY DEF IInv, RecordInv
<1>. QED
  BY <1>1, Inductive, PTL

\* The result a request hears is what the chain did with the operation it names.
THEOREM AnswersTrue == Spec => []AnswerIsTrue
<1>1. IInv => AnswerIsTrue
  BY DEF IInv, WorkersInv, AnswerInv, Final, AnswerIsTrue
<1>. QED
  BY <1>1, Inductive, PTL

-----------------------------------------------------------------------------
(* The refinement: which steps are steps of the serial spend.              *)

\* The current spend and what landed stay as they are.
LEMMA QuietStutters ==
    ASSUME UNCHANGED <<spend, chain.succeeded, chain.failed>>
    PROVE  UNCHANGED Serial!vars
  BY DEF Serial!vars, IsActive, Tx

LEMMA ReadsStutter ==
    ASSUME NEW h \in Hosts, Reads(h) \/ NoteBalance(h) \/ Submit(h) \/ Fails(h) \/ Crash(h)
    PROVE  UNCHANGED Serial!vars
<1>1. UNCHANGED <<spend, chain>>
  BY DEF Reads, Starts, StartRecovery, StartWithdrawal, StartRefill, Requests, Acquire, AcquireTimesOut,
         ReadReceipt, ReadAccepted, ReadCurrent, Recover, Snapshot, ReadSlotBalance, Rereads,
         ReadCreated, ReadActive, Reread, ReadFailed, ReadCompleted, ReadSuperseded, Prepares,
         Simulate, CursorBeforeFunds, ReadFunds, Looks, SubmitAnswers, SubmitFails, Lookup,
         LookupAfter, Reconciles, CursorBeforeObservation, ReadProjection, Confirm, ObserveSlot,
         ObserveAccount, NoteBalance, Submit, Fails, Crash, store, net
<1>. QED
  BY <1>1, QuietStutters

\* The reservation accepts a spend that is new to the chain.
LEMMA ReserveRefines ==
    ASSUME TypeOK, TypeOK', IInv', NEW h \in Hosts, Reserve(h)
    PROVE  Serial!Accept \/ UNCHANGED Serial!vars
<1>1. chain' = chain /\ At(h, "reserve")
  BY DEF Reserve, net
<1>2. CASE Accept(h) /\ ~IsActive(spend)
  <2>1. spend'.state = "reserved" /\ Tx(spend') = Tx(spend)'
    BY <1>1, <1>2, AskedTyped DEF Accept, Tx
  <2>2. IsActive(spend') /\ ~(spend'.state \in {"ready", "reconciling"})
    BY <2>1 DEF IsActive, Active
  <2>3. Tx(spend') \notin Landed(chain)
    BY <1>1, <2>1 DEF IInv, RecordInv, SpendInv, TypeOK, NetOK, Landed
  <2>4. IsActive(spend)' = IsActive(spend')
    BY DEF IsActive
  <2>. QED
    BY <1>1, <1>2, <2>1, <2>2, <2>3, <2>4 DEF Serial!Accept, Serial!Decided, Landed
<1>3. CASE UNCHANGED store
  BY <1>1, <1>3, QuietStutters DEF store
<1>. QED
  BY <1>2, <1>3 DEF Reserve

LEMMA MarkReadyRefines ==
    ASSUME TypeOK, NEW h \in Hosts, MarkReady(h) PROVE Serial!Sign \/ UNCHANGED Serial!vars
<1>1. At(h, "ready") /\ chain' = chain
  BY DEF MarkReady, net
<1>2. CASE Same(spend, task[h].seen)
  <2>1. spend.state = "reserved" /\ spend \in SpendRecords
    BY <1>1, <1>2, SameState DEF At, Preparing, TypeOK, StoreOK
  <2>2. spend' = [spend EXCEPT !.state = "ready", !.signed = TRUE]
    BY <1>2 DEF MarkReady
  <2>3. spend'.state = "ready" /\ Tx(spend)' = Tx(spend)
    BY <2>1, <2>2 DEF SpendRecords, Tx
  <2>. QED
    BY <1>1, <2>1, <2>3 DEF Serial!Sign, IsActive, Active
<1>3. CASE ~Same(spend, task[h].seen)
  BY <1>1, <1>3, QuietStutters DEF MarkReady
<1>. QED
  BY <1>2, <1>3

LEMMA BeginReconciliationRefines ==
    ASSUME TypeOK, NEW h \in Hosts, BeginReconciliation(h) PROVE UNCHANGED Serial!vars
<1>1. At(h, "begin") /\ chain' = chain
  BY DEF BeginReconciliation, net
<1>2. CASE Same(spend, task[h].seen)
  <2>1. spend.state = "ready" /\ spend \in SpendRecords
    BY <1>1, <1>2, SameState DEF At, Paying, TypeOK, StoreOK
  <2>2. spend' = [spend EXCEPT !.state = "reconciling", !.result = task[h].seen.result]
    BY <1>2 DEF BeginReconciliation
  <2>3. spend'.state = "reconciling" /\ Tx(spend)' = Tx(spend)
    BY <2>1, <2>2 DEF SpendRecords, Tx
  <2>. QED
    BY <1>1, <2>1, <2>3 DEF Serial!vars, IsActive, Active
<1>3. CASE ~Same(spend, task[h].seen)
  BY <1>1, <1>3, QuietStutters DEF BeginReconciliation
<1>. QED
  BY <1>2, <1>3

\* A spend that fails before it is signed is abandoned.
LEMMA FailReservedRefines ==
    ASSUME TypeOK, NEW h \in Hosts, FailReserved(h) PROVE Serial!Abandon \/ UNCHANGED Serial!vars
<1>1. task[h].pc \in Preparing /\ chain' = chain
  BY DEF FailReserved, Preparing, net
<1>2. CASE Same(spend, task[h].seen)
  <2>1. spend.state = "reserved" /\ spend \in SpendRecords
    BY <1>1, <1>2, SameState DEF TypeOK, StoreOK
  <2>2. spend'.state \in Ended
    BY <1>2, <2>1 DEF FailReserved, Closed, Ended, SpendRecords
  <2>. QED
    BY <1>1, <2>1, <2>2 DEF Serial!Abandon, IsActive, Active, Ended
<1>3. CASE ~Same(spend, task[h].seen)
  BY <1>1, <1>3, QuietStutters DEF FailReserved
<1>. QED
  BY <1>2, <1>3

\* A spend is closed when the chain has decided it.
LEMMA CompleteRefines ==
    ASSUME TypeOK, IInv, NEW h \in Hosts, Complete(h) PROVE Serial!Close \/ UNCHANGED Serial!vars
<1> DEFINE s == task[h].seen
           Kept == Same(spend, s) /\ (s.slot # None => slot[s.slot].seq = task[h].slotSeq)
<1>1. At(h, "complete") /\ chain' = chain
  BY DEF Complete, net
<1>2. CASE Kept
  <2>1. spend.state = "reconciling" /\ spend \in SpendRecords
    BY <1>1, <1>2, SameState DEF At, Reconciling, TypeOK, StoreOK
  <2>2. spend'.state \in Ended
    BY <1>2, <2>1 DEF Complete, Closed, Ended, SpendRecords
  <2>3. Tx(spend) \in Landed(chain)
    BY <2>1 DEF IInv, RecordInv, SpendInv, OnChain, Landed
  <2>. QED
    BY <1>1, <2>1, <2>2, <2>3 DEF Serial!Close, Serial!Decided, IsActive, Active, Ended, Landed
<1>3. CASE ~Kept
  BY <1>1, <1>3, QuietStutters DEF Complete, store
<1>. QED
  BY <1>2, <1>3

\* The chain decides the one signed spend.
LEMMA LandRefines ==
    ASSUME TypeOK, IInv, NEW x \in sent, Land(x) PROVE Serial!Decide
<1>1. x = Tx(spend) /\ spend.state = "ready" /\ x \notin Landed(chain) /\ spend' = spend
  BY DEF Land, IInv, RecordInv, InFlightIsRecorded, store
<1>2. chain \in Chains
  BY DEF TypeOK, NetOK
<1>3. \/ chain'.succeeded = chain.succeeded \cup {x} /\ chain'.failed = chain.failed
      \/ chain'.failed = chain.failed \cup {x} /\ chain'.succeeded = chain.succeeded
  BY <1>2 DEF Land, Succeed, FailOnChain, Chains
<1>4. Tx(spend)' = Tx(spend) /\ IsActive(spend) /\ IsActive(spend)' = IsActive(spend)
  BY <1>1 DEF IsActive, Active, Tx
<1>5. x \in {Tx(spend)} \ (chain.succeeded \cup chain.failed)
  BY <1>1 DEF Landed
<1>. QED
  BY <1>1, <1>3, <1>4, <1>5 DEF Serial!Decide, Serial!Decided

LEMMA EnvironmentRefines ==
    ASSUME TypeOK, IInv, Environment PROVE Serial!Decide \/ UNCHANGED Serial!vars
<1>1. ASSUME \A x \in sent : ~Land(x) PROVE UNCHANGED <<spend, chain.succeeded, chain.failed>>
  <2>1. chain \in Chains
    BY DEF TypeOK, NetOK
  <2>. QED
    BY <1>1, <2>1 DEF Environment, LockExpires, Deposit, ReceiptExpires, CatchUp, Drain, store, net, Chains
<1>. QED
  BY <1>1, QuietStutters, LandRefines

LEMMA StepRefines ==
    TypeOK /\ IInv /\ TypeOK' /\ IInv' /\ [Next]_vars => [Serial!Next]_(Serial!vars)
<1>. SUFFICES ASSUME TypeOK, IInv, TypeOK', IInv', [Next]_vars PROVE Serial!Next \/ UNCHANGED Serial!vars
  OBVIOUS
<1>1. ASSUME NEW h \in Hosts, Writes(h) PROVE Serial!Next \/ UNCHANGED Serial!vars
  BY <1>1, ReadsStutter, ReserveRefines, MarkReadyRefines, BeginReconciliationRefines,
     FailReservedRefines, CompleteRefines DEF Writes, Serial!Next
<1>2. ASSUME NEW o \in Observers, Observing(o) PROVE UNCHANGED Serial!vars
  BY <1>2, QuietStutters DEF Observing, Observe, ObserveBalance, WriteObservation, store, net
<1>3. CASE Environment
  BY <1>3, EnvironmentRefines DEF Serial!Next
<1>4. CASE UNCHANGED vars
  BY <1>4, QuietStutters DEF vars, store, net
<1>. QED
  BY <1>1, <1>2, <1>3, <1>4, Steps, ReadsStutter

LEMMA InitRefines == Init => Serial!Init
  BY DEF Init, Serial!Init, NoSpend, IsActive, Active

\* However many Hosts drive it, the account pays one spend at a time: one is accepted
\* while none is open, and a signed one stays open until the chain has decided it.
THEOREM SpendsAreSerial == Spec => PaysSerially
  BY InitRefines, StepRefines, Inductive, PTL DEF Spec, PaysSerially, Serial!Spec
-----------------------------------------------------------------------------
(* The balances.  With one endpoint a balance that is read is old only while *)
(* the current spend is signed: whatever landed before is visible, because   *)
(* a spend is completed only once the endpoint shows it.  What a worker or   *)
(* an observer carries is not above the account while the spend it was read  *)
(* beside is still the same, and what a refill carries of a slot is not      *)
(* below the slot while the sequence of the slot is still the same.          *)

OneEndpoint == \A d, e \in Endpoints : d = e

Hidden(e) == Landed(chain) \ Landed(view[e])
ViewFunds ==
    \A e \in Endpoints :
        /\ \A x \in Hidden(e) : IsSigned(spend) /\ x = Tx(spend)
        /\ Hidden(e) = {} => view[e].funds <= chain.funds
        /\ \A s \in Slots :
              (\A x \in Hidden(e) : x.slot # s) => chain.bal[s] <= view[e].bal[s]

Awaited == spend.state \in {"reserved", "ready"} /\ Tx(spend) \notin Landed(chain)
AcctFunds ==
    /\ ~IsSigned(spend) /\ acct.bal # None => acct.bal <= chain.funds
    /\ (spend.state = "ready" /\ Awaited) => chain.funds >= Runway + Cost(spend)
    /\ RunwayKept

RoomAtStart == InitialSlots <= Target
SlotFunds ==
    /\ RoomAtStart => NoSlotOverfilled
    /\ RoomAtStart /\ Awaited /\ spend.slot # None =>
          chain.bal[spend.slot] + spend.amount <= Target

\* What a worker may rely on: the balance of the account.
Still(t, state) == spend.state = state /\ spend.op = t.seen.op
TaskFunds(t) ==
    /\ t.pc = "ready" => /\ t.bal \in Nat /\ t.bal >= Runway + Cost(t.seen)
                         /\ Still(t, "reserved") => t.bal <= chain.funds
    /\ t.pc \in Reconciling => ~Still(t, "reserved") /\ ~Still(t, "ready")
    /\ t.pc \in Reconciling \ {"confirm"} =>
          \A e \in Endpoints : Tx(t.seen) \in Landed(view[e])
    /\ t.pc \in Reconciling \ {"confirm", "cursor2"} /\ Still(t, "reconciling") =>
          acct.seq = t.cursor
    /\ t.pc = "complete" => t.bal \in Nat /\ (Still(t, "reconciling") => t.bal <= chain.funds)

\* What a refill may rely on: the balance of the slot.
RefillFunds(t) ==
    t.pc \in {"slotBalance", "note", "reserve"} /\ t.job.kind = "refill" =>
        /\ t.slotSeq \in Nat /\ t.slotSeq <= slot[t.job.slot].seq
        /\ slot[t.job.slot].seq = t.slotSeq => ~(IsActive(spend) /\ spend.slot = t.job.slot)
        /\ t.pc # "slotBalance" => t.slotBal \in Nat
        /\ t.pc # "slotBalance" /\ slot[t.job.slot].seq = t.slotSeq =>
              chain.bal[t.job.slot] <= t.slotBal

WatchFunds(w) ==
    w.pc # "idle" /\ w.what = None =>
        /\ w.op # None => Used(w.op)
        /\ w.op = spend.op => ~IsActive(spend)
        /\ w.pc = "write" /\ w.op = spend.op /\ w.bal # None => w.bal <= chain.funds

FInv ==
    /\ ViewFunds /\ AcctFunds /\ SlotFunds
    /\ \A h \in Hosts : TaskFunds(task[h]) /\ RefillFunds(task[h])
    /\ \A o \in Observers : WatchFunds(watch[o])

\* What worker, request and observer rely on is of these variables.
funds == <<spend, receipt, acct, slot, chain, view, spends>>

LEMMA SameFunds ==
    ASSUME UNCHANGED funds
    PROVE  /\ \A t : (TaskFunds(t) <=> TaskFunds(t)') /\ (RefillFunds(t) <=> RefillFunds(t)')
           /\ \A w : WatchFunds(w) <=> WatchFunds(w)'
           /\ ViewFunds <=> ViewFunds'
           /\ AcctFunds <=> AcctFunds'
           /\ SlotFunds <=> SlotFunds'
<1>1. \A t : TaskFunds(t) <=> TaskFunds(t)'
  BY DEF funds, TaskFunds, Still, Landed
<1>2. \A t : RefillFunds(t) <=> RefillFunds(t)'
  BY DEF funds, RefillFunds
<1>3. \A w : WatchFunds(w) <=> WatchFunds(w)'
  BY DEF funds, WatchFunds, Used
<1>4. ViewFunds <=> ViewFunds'
  BY DEF funds, ViewFunds, Hidden, Landed
<1>5. /\ AcctFunds <=> AcctFunds'
      /\ SlotFunds <=> SlotFunds'
  BY DEF funds, AcctFunds, SlotFunds, Awaited, RunwayKept, NoSlotOverfilled, Landed
<1>. QED
  BY <1>1, <1>2, <1>3, <1>4, <1>5

-----------------------------------------------------------------------------
(* The steps that leave the balances alone.                                 *)

FundsLearned(h) == \E t : task' = [task EXCEPT ![h] = t] /\ TaskFunds(t) /\ RefillFunds(t)

LEMMA FundsLearnedKeeps ==
    ASSUME TypeOK, FInv, NEW h \in Hosts, FundsLearned(h), UNCHANGED <<funds, watch>>
    PROVE  FInv'
<1>1. PICK t : task' = [task EXCEPT ![h] = t] /\ TaskFunds(t) /\ RefillFunds(t)
  BY DEF FundsLearned
<1>2. /\ \A u : (TaskFunds(u) <=> TaskFunds(u)') /\ (RefillFunds(u) <=> RefillFunds(u)')
      /\ \A w : WatchFunds(w) <=> WatchFunds(w)'
      /\ ViewFunds' /\ AcctFunds' /\ SlotFunds'
  BY SameFunds DEF FInv
<1>3. ASSUME NEW k \in Hosts PROVE TaskFunds(task[k])' /\ RefillFunds(task[k])'
  <2>1. PICK u : u = task'[k]
    OBVIOUS
  <2>2. TaskFunds(u) /\ RefillFunds(u)
    BY <1>1, <2>1 DEF FInv, TypeOK, WorkersOK
  <2>. QED
    BY <1>2, <2>1, <2>2
<1>4. ASSUME NEW o \in Observers PROVE WatchFunds(watch[o])'
  <2>1. PICK w : w = watch[o]
    OBVIOUS
  <2>. QED
    BY <1>2, <2>1 DEF FInv
<1>. QED
  BY <1>2, <1>3, <1>4 DEF FInv

\* A worker that carries no balance.
Carries(t) ==
    \/ t.pc \in Reconciling \cup {"ready", "slotBalance", "note"}
    \/ t.pc = "reserve" /\ t.job.kind = "refill"

LEMMA NothingCarried ==
    ASSUME NEW t, ~Carries(t) PROVE TaskFunds(t) /\ RefillFunds(t)
<1>1. /\ t.pc \notin Reconciling /\ t.pc # "complete"
      /\ t.pc # "ready" /\ t.pc # "slotBalance" /\ t.pc # "note"
      /\ t.pc = "reserve" => t.job.kind # "refill"
  BY DEF Carries, Reconciling
<1>2. TaskFunds(t)
  BY <1>1 DEF TaskFunds
<1>. QED
  BY <1>1, <1>2 DEF RefillFunds

LEMMA GotoFunds ==
    ASSUME TypeOK, NEW h \in Hosts, NEW pc, Goto(h, pc),
           pc \notin Reconciling \cup {"ready", "slotBalance", "note"},
           pc = "reserve" => task[h].job.kind # "refill"
    PROVE  FundsLearned(h)
<1> DEFINE t == [task[h] EXCEPT !.pc = pc]
<1>1. task' = [task EXCEPT ![h] = t] /\ t.pc = pc /\ t.job = task[h].job
  BY WorkerFacts, PcTyped DEF Goto, TypeOK, WorkersOK
<1> HIDE DEF t
<1>. QED
  BY <1>1, NothingCarried DEF FundsLearned, Carries

LEMMA TellFunds ==
    ASSUME NEW h \in Hosts, NEW status, NEW op, Tell(h, status, op) PROVE FundsLearned(h)
<1>1. ~Carries(Resting)
  BY DEF Resting, Carries, Reconciling
<1>. QED
  BY <1>1, NothingCarried DEF Tell, FundsLearned

LEMMA DriveFunds ==
    ASSUME TypeOK, NEW h \in Hosts, NEW auth, NEW own, Drive(h, spend, auth, own), spend.state # "none"
    PROVE  FundsLearned(h)
<1>1. CASE spend.state \in Ended
  BY <1>1, TellFunds DEF Drive, Project, Unsettled
<1>2. CASE spend.state \notin Ended
  <2> DEFINE t == [Resting EXCEPT !.job = task[h].job, !.locked = task[h].locked,
                        !.pc = FirstStep(spend, auth), !.seen = spend, !.auth = auth, !.own = own]
  <2>1. task' = [task EXCEPT ![h] = t]
    BY <1>2 DEF Drive
  <2>2. t.pc = FirstStep(spend, auth) /\ t.seen = spend
    BY DEF Resting
  <2>3. spend.state \in Active
    BY <1>2 DEF TypeOK, StoreOK, SpendRecords, States
  <2> HIDE DEF t
  <2>4. CASE spend.state = "reconciling"
    <3>1. t.pc = "confirm"
      BY <2>2, <2>4 DEF FirstStep
    <3>. QED
      BY <2>1, <2>2, <2>4, <3>1 DEF FundsLearned, TaskFunds, RefillFunds, Still
  <2>5. CASE spend.state # "reconciling"
    <3>1. t.pc \in {"simulate", "failing", "lookup"}
      BY <2>2, <2>3, <2>5 DEF FirstStep, Active
    <3>2. ~Carries(t)
      BY <3>1 DEF Carries, Reconciling
    <3>. QED
      BY <2>1, <3>2, NothingCarried DEF FundsLearned
  <2>. QED
    BY <2>4, <2>5
<1>. QED
  BY <1>1, <1>2

LEMMA StartsFunds ==
    ASSUME NEW h \in Hosts, Starts(h) PROVE FundsLearned(h)
<1>1. ASSUME NEW t, task' = [task EXCEPT ![h] = t], t.pc \in {"recover", "acquire"} PROVE FundsLearned(h)
  <2>1. ~Carries(t)
    BY <1>1 DEF Carries, Reconciling
  <2>. QED
    BY <1>1, <2>1, NothingCarried DEF FundsLearned
<1>2. CASE StartRecovery(h)
  <2> DEFINE t == [Resting EXCEPT !.pc = "recover", !.job.kind = "recover"]
  <2>1. task' = [task EXCEPT ![h] = t] /\ t.pc = "recover"
    BY <1>2 DEF StartRecovery, Resting
  <2> HIDE DEF t
  <2>. QED
    BY <1>1, <2>1
<1>3. ASSUME NEW job, task' = [task EXCEPT ![h] = [Resting EXCEPT !.pc = "acquire", !.job = job]]
      PROVE  FundsLearned(h)
  <2> DEFINE t == [Resting EXCEPT !.pc = "acquire", !.job = job]
  <2>1. task' = [task EXCEPT ![h] = t] /\ t.pc = "acquire"
    BY <1>3 DEF Resting
  <2> HIDE DEF t
  <2>. QED
    BY <1>1, <2>1
<1>. QED
  BY <1>2, <1>3 DEF Starts, StartWithdrawal, StartRefill

LEMMA RereadsFunds ==
    ASSUME TypeOK, NEW h \in Hosts, Rereads(h) PROVE FundsLearned(h)
<1>1. TaskOK(task[h])
  BY WorkerFacts DEF TypeOK
<1>2. ASSUME spend.op = task[h].seen.op, task[h].seen.state # "none" PROVE spend.state # "none"
  BY <1>1, <1>2, SpendAssumption DEF TypeOK, StoreOK, TaskOK, SpendOK, NoSpend
<1>3. ASSUME NEW pc \in {"reread", "superseded"}, Goto(h, pc) PROVE FundsLearned(h)
  BY <1>3, GotoFunds DEF Reconciling
<1>4. ASSUME NEW own, Project(h, spend, own) PROVE FundsLearned(h)
  BY <1>4, TellFunds DEF Project, Unsettled
<1>5. ASSUME Unsettled(h) PROVE FundsLearned(h)
  BY <1>5, TellFunds DEF Unsettled
<1>6. CASE ReadCreated(h)
  BY <1>1, <1>2, <1>5, <1>6, DriveFunds DEF ReadCreated, At, TaskOK
<1>7. CASE ReadActive(h)
  BY <1>7, DriveFunds DEF ReadActive, At, TypeOK, WorkersOK
<1>8. CASE Reread(h)
  BY <1>1, <1>2, <1>5, <1>8, DriveFunds DEF Reread, At, TaskOK
<1>9. CASE ReadFailed(h)
  BY <1>3, <1>4, <1>9 DEF ReadFailed
<1>10. CASE ReadCompleted(h)
  BY <1>3, <1>4, <1>10 DEF ReadCompleted
<1>11. CASE ReadSuperseded(h)
  BY <1>4, <1>5, <1>11 DEF ReadSuperseded
<1>. QED
  BY <1>6, <1>7, <1>8, <1>9, <1>10, <1>11 DEF Rereads

LEMMA LooksFunds ==
    ASSUME TypeOK, NEW h \in Hosts, Looks(h) PROVE FundsLearned(h)
<1>1. ASSUME NEW result, Learn(h, result) PROVE FundsLearned(h)
  <2> DEFINE t == [task[h] EXCEPT !.pc = "begin", !.seen.result = result]
  <2>1. task' = [task EXCEPT ![h] = t] /\ t.pc = "begin"
    BY <1>1, WorkerFacts DEF Learn, TypeOK, WorkersOK, Tasks
  <2> HIDE DEF t
  <2>2. ~Carries(t)
    BY <2>1 DEF Carries, Reconciling
  <2>. QED
    BY <2>1, <2>2, NothingCarried DEF FundsLearned
<1>2. ASSUME NEW pc \in {"submit", "lookupAfter"}, Goto(h, pc) PROVE FundsLearned(h)
  BY <1>2, GotoFunds DEF Reconciling
<1>3. CASE SubmitAnswers(h)
  BY <1>1, <1>3 DEF SubmitAnswers
<1>4. CASE SubmitFails(h)
  BY <1>2, <1>4 DEF SubmitFails
<1>5. ASSUME NEW e \in Endpoints, Lookup(h, e) PROVE FundsLearned(h)
  BY <1>1, <1>2, <1>5 DEF Lookup, Goto
<1>6. ASSUME NEW e \in Endpoints, LookupAfter(h, e) PROVE FundsLearned(h)
  BY <1>1, <1>6, TellFunds DEF LookupAfter, Unsettled
<1>. QED
  BY <1>3, <1>4, <1>5, <1>6 DEF Looks

\* The balance of the account is read while everything that landed is visible.
LEMMA PreparesFunds ==
    ASSUME TypeOK, FInv, NEW h \in Hosts, Prepares(h) PROVE FundsLearned(h)
<1>1. task[h] \in Tasks /\ TaskOK(task[h])
  BY WorkerFacts DEF TypeOK
<1>2. ASSUME NEW pc \in {"cursor", "failing", "reread"}, Goto(h, pc) PROVE FundsLearned(h)
  BY <1>2, GotoFunds DEF Reconciling
<1>3. CASE Simulate(h)
  BY <1>2, <1>3 DEF Simulate
<1>4. CASE CursorBeforeFunds(h)
  <2> DEFINE t == [task[h] EXCEPT !.cursor = acct.seq, !.pc = "funds"]
  <2>1. t.pc = "funds"
    BY <1>1 DEF Tasks
  <2>2. ASSUME TakeCursor(h, "funds") PROVE FundsLearned(h)
    <3>1. task' = [task EXCEPT ![h] = t]
      BY <2>2 DEF TakeCursor, TypeOK, WorkersOK
    <3> HIDE DEF t
    <3>2. ~Carries(t)
      BY <2>1 DEF Carries, Reconciling
    <3>. QED
      BY <3>1, <3>2, NothingCarried DEF FundsLearned
  <2>. QED
    BY <1>2, <1>4, <2>2 DEF CursorBeforeFunds
<1>5. ASSUME NEW e \in Endpoints, ReadFunds(h, e) PROVE FundsLearned(h)
  <2> DEFINE bal == view[e].funds
             pc == IF KeepsRunway(bal, task[h].seen) THEN "ready" ELSE "blocking"
             t == [task[h] EXCEPT !.bal = bal, !.pc = pc]
  <2>1. task' = [task EXCEPT ![h] = t]
    BY <1>5 DEF ReadFunds
  <2>2. bal \in Nat
    BY DEF TypeOK, NetOK, Chains
  <2>3. pc = "ready" => bal >= Runway + Cost(task[h].seen)
    <3>1. Cost(task[h].seen) \in Nat /\ Runway \in Nat
      BY WorkerFacts, SpendAssumption DEF TypeOK, Cost, SpendRecords
    <3>. QED
      BY <2>2, <3>1 DEF KeepsRunway
  <2>4. ~IsSigned(spend) => bal <= chain.funds
    BY DEF FInv, ViewFunds
  <2> HIDE DEF bal
  <2>5. t.seen = task[h].seen /\ t.pc = pc /\ t.bal = bal
    BY <1>1 DEF Tasks
  <2>6. pc \in {"ready", "blocking"}
    OBVIOUS
  <2> HIDE DEF t, pc
  <2>7. TaskFunds(t)
    BY <2>2, <2>3, <2>4, <2>5, <2>6 DEF TaskFunds, Still, IsSigned, Reconciling
  <2>8. RefillFunds(t)
    BY <2>5, <2>6 DEF RefillFunds
  <2>. QED
    BY <2>1, <2>7, <2>8 DEF FundsLearned
<1>. QED
  BY <1>3, <1>4, <1>5 DEF Prepares

\* The balance of the slot is read while no refill of it is under way.
LEMMA RequestsFunds ==
    ASSUME TypeOK, FInv, NEW h \in Hosts, Requests(h) PROVE FundsLearned(h)
<1>1. task[h] \in Tasks /\ TaskOK(task[h])
  BY WorkerFacts DEF TypeOK
<1>2. ASSUME NEW own, Drive(h, spend, FALSE, own), spend.state # "none" PROVE FundsLearned(h)
  BY <1>2, DriveFunds
<1>3. ASSUME NEW status, NEW op, Tell(h, status, op) PROVE FundsLearned(h)
  BY <1>3, TellFunds
<1>4. CASE Acquire(h)
  <2> DEFINE t == [task[h] EXCEPT !.locked = TRUE,
                        !.pc = IF task[h].job.kind = "withdraw" THEN "receipt" ELSE "current"]
  <2>1. task' = [task EXCEPT ![h] = t]
    BY <1>4 DEF Acquire
  <2>2. t.pc \in {"receipt", "current"}
    BY <1>1 DEF Tasks
  <2> HIDE DEF t
  <2>3. ~Carries(t)
    BY <2>2 DEF Carries, Reconciling
  <2>. QED
    BY <2>1, <2>3, NothingCarried DEF FundsLearned
<1>5. CASE AcquireTimesOut(h)
  BY <1>3, <1>5 DEF AcquireTimesOut, Unsettled
<1>6. CASE ReadReceipt(h)
  <2>1. ASSUME NEW pc \in {"current", "accepted"}, Goto(h, pc) PROVE FundsLearned(h)
    BY <2>1, GotoFunds DEF Reconciling
  <2>. QED
    BY <1>3, <1>6, <2>1 DEF ReadReceipt, ByReceipt
<1>7. CASE ReadAccepted(h)
  BY <1>2, <1>3, <1>7, OwnTyped DEF ReadAccepted, Unsettled
<1>8. CASE ReadCurrent(h)
  <2>1. ASSUME Goto(h, "snapshot") PROVE FundsLearned(h)
    BY <2>1, GotoFunds DEF Reconciling
  <2>2. ASSUME Goto(h, "reserve"), task[h].job.kind = "withdraw" PROVE FundsLearned(h)
    BY <2>2, GotoFunds DEF Reconciling
  <2>. QED
    BY <1>2, <1>8, <2>1, <2>2, OwnTyped DEF ReadCurrent
<1>9. CASE Recover(h)
  BY <1>2, <1>3, <1>9, OwnTyped DEF Recover, Unsettled
<1>10. CASE Snapshot(h)
  <2> DEFINE s == task[h].job.slot
             t == [task[h] EXCEPT !.pc = "slotBalance", !.slotSeq = slot[s].seq,
                        !.needs = IF RequiredFor(s) = None THEN None ELSE acct.seq]
  <2>1. task[h].pc = "snapshot" /\ s \in Slots
    BY <1>1, <1>10 DEF Snapshot, At, TaskOK, Refills
  <2>2. slot[s].seq \in Nat
    BY <2>1 DEF TypeOK, StoreOK, Observations
  <2>3. t.pc = "slotBalance" /\ t.job = task[h].job /\ t.slotSeq = slot[s].seq
    BY <1>1 DEF Tasks
  <2>4. ASSUME \E reason \in Reasons : Eligible(s, reason), task' = [task EXCEPT ![h] = t]
        PROVE  FundsLearned(h)
    <3>1. ~(IsActive(spend) /\ spend.slot = s)
      BY <2>4 DEF Eligible, SlotState, RefillOf, Reasons
    <3> HIDE DEF t
    <3>2. TaskFunds(t)
      BY <2>3 DEF TaskFunds, Reconciling
    <3>3. RefillFunds(t)
      BY <2>2, <2>3, <3>1 DEF RefillFunds
    <3>. QED
      BY <2>4, <3>2, <3>3 DEF FundsLearned
  <2>. QED
    BY <1>3, <1>10, <2>4 DEF Snapshot, Unsettled
<1>11. ASSUME NEW e \in Endpoints, ReadSlotBalance(h, e) PROVE FundsLearned(h)
  <2> DEFINE s == task[h].job.slot
             bal == view[e].bal[s]
             pc == IF bal >= Target THEN "note" ELSE "reserve"
             t == [task[h] EXCEPT !.slotBal = bal, !.pc = pc]
  <2>1. task' = [task EXCEPT ![h] = t]
    BY <1>11 DEF ReadSlotBalance
  <2>2. s \in Slots /\ task[h].pc = "slotBalance" /\ task[h].job.kind = "refill"
    BY <1>1, <1>11 DEF ReadSlotBalance, At, TaskOK, Refills
  <2>3. bal \in Nat
    BY <2>2 DEF TypeOK, NetOK, Chains
  <2>4. ~(IsActive(spend) /\ spend.slot = s) => chain.bal[s] <= bal
    <3>1. ASSUME ~(IsActive(spend) /\ spend.slot = s), NEW x \in Hidden(e) PROVE x.slot # s
      BY <3>1 DEF FInv, ViewFunds, IsSigned, IsActive, Active, Tx
    <3>. QED
      BY <2>2, <3>1 DEF FInv, ViewFunds
  <2>5. RefillFunds(task[h])
    BY DEF FInv
  <2> HIDE DEF bal
  <2>6. /\ t.job = task[h].job /\ t.pc = pc /\ t.slotBal = bal
        /\ t.slotSeq = task[h].slotSeq
    BY <1>1 DEF Tasks
  <2>7. pc \in {"note", "reserve"}
    OBVIOUS
  <2> HIDE DEF t, pc
  <2>8. TaskFunds(t)
    BY <2>6, <2>7 DEF TaskFunds, Reconciling
  <2>9. RefillFunds(t)
    BY <2>2, <2>3, <2>4, <2>5, <2>6, <2>7 DEF RefillFunds
  <2>. QED
    BY <2>1, <2>8, <2>9 DEF FundsLearned
<1>. QED
  BY <1>4, <1>5, <1>6, <1>7, <1>8, <1>9, <1>10, <1>11 DEF Requests

\* The result is confirmed first: the balances are those after the spend.
LEMMA ReconcilesFunds ==
    ASSUME OneEndpoint, TypeOK, IInv, FInv, NEW h \in Hosts, Reconciles(h) PROVE FundsLearned(h)
<1>1. task[h] \in Tasks /\ TaskOK(task[h]) /\ TaskFunds(task[h]) /\ TaskInv(task[h])
  BY WorkerFacts DEF TypeOK, FInv, IInv, WorkersInv
<1>2. ASSUME Unsettled(h) PROVE FundsLearned(h)
  BY <1>2, TellFunds DEF Unsettled
<1>3. ASSUME NEW t, task' = [task EXCEPT ![h] = t], TaskFunds(t), t.pc \in Reconciling
      PROVE  FundsLearned(h)
  BY <1>3 DEF FundsLearned, RefillFunds, Reconciling
<1>4. ASSUME NEW e \in Endpoints, Confirm(h, e) PROVE FundsLearned(h)
  <2> DEFINE t == [task[h] EXCEPT !.pc = "cursor2"]
  <2>1. ASSUME Visible(e, task[h].seen), Goto(h, "cursor2") PROVE FundsLearned(h)
    <3>1. task' = [task EXCEPT ![h] = t] /\ t.pc = "cursor2" /\ t.seen = task[h].seen
      BY <1>1, <2>1, PcTyped DEF Goto, TypeOK, WorkersOK
    <3>2. \A d \in Endpoints : Tx(task[h].seen) \in Landed(view[d])
      BY <2>1 DEF OneEndpoint, Visible
    <3>3. task[h].pc = "confirm"
      BY <1>4 DEF Confirm, At
    <3> HIDE DEF t
    <3>4. TaskFunds(t)
      BY <1>1, <3>1, <3>2, <3>3 DEF TaskFunds, Still, Reconciling
    <3>. QED
      BY <1>3, <3>1, <3>4 DEF Reconciling
  <2>. QED
    BY <1>2, <1>4, <2>1 DEF Confirm
<1>5. CASE CursorBeforeObservation(h)
  <2> DEFINE pc == IF task[h].seen.slot = None THEN "account" ELSE "projection"
             t == [task[h] EXCEPT !.cursor = acct.seq, !.pc = pc]
  <2>1. t.seen = task[h].seen /\ t.pc = pc /\ t.cursor = acct.seq
    BY <1>1 DEF Tasks
  <2>2. pc \in {"account", "projection"} /\ task[h].pc = "cursor2"
    BY <1>5 DEF CursorBeforeObservation, At
  <2>3. ASSUME TakeCursor(h, pc) PROVE FundsLearned(h)
    <3>1. task' = [task EXCEPT ![h] = t]
      BY <2>3 DEF TakeCursor, TypeOK, WorkersOK
    <3> HIDE DEF t, pc
    <3>2. TaskFunds(t)
      BY <1>1, <2>1, <2>2 DEF TaskFunds, Still, Reconciling
    <3>. QED
      BY <1>3, <2>1, <2>2, <3>1, <3>2 DEF Reconciling
  <2>. QED
    BY <1>2, <1>5, <2>3 DEF CursorBeforeObservation
<1>6. ASSUME NEW t, task' = [task EXCEPT ![h] = t], t.pc \in {"observeSlot", "account"},
             t.seen = task[h].seen, t.cursor = task[h].cursor,
             task[h].pc \in {"projection", "observeSlot"}
      PROVE  FundsLearned(h)
  <2>1. TaskFunds(t)
    BY <1>1, <1>6 DEF TaskFunds, Still, Reconciling
  <2>. QED
    BY <1>3, <1>6, <2>1 DEF Reconciling
<1>7. CASE ReadProjection(h)
  <2> DEFINE t == [task[h] EXCEPT !.pc = "observeSlot", !.slotSeq = slot[task[h].seen.slot].seq]
  <2>1. t.seen = task[h].seen /\ t.pc = "observeSlot" /\ t.cursor = task[h].cursor
    BY <1>1 DEF Tasks
  <2>2. ASSUME task' = [task EXCEPT ![h] = t] PROVE FundsLearned(h)
    <3> HIDE DEF t
    <3>. QED
      BY <1>6, <1>7, <2>1, <2>2 DEF ReadProjection, At
  <2>. QED
    BY <1>2, <1>7, <2>2 DEF ReadProjection
<1>8. ASSUME NEW e \in Endpoints, ObserveSlot(h, e) PROVE FundsLearned(h)
  <2> DEFINE t == [task[h] EXCEPT !.pc = "account", !.slotBal = view[e].bal[task[h].seen.slot]]
  <2>1. /\ t.seen = task[h].seen /\ t.pc = "account" /\ t.cursor = task[h].cursor
        /\ task' = [task EXCEPT ![h] = t]
    BY <1>1, <1>8 DEF Tasks, ObserveSlot
  <2> HIDE DEF t
  <2>. QED
    BY <1>6, <1>8, <2>1 DEF ObserveSlot, At
<1>9. ASSUME NEW e \in Endpoints, ObserveAccount(h, e) PROVE FundsLearned(h)
  <2> DEFINE bal == view[e].funds
             t == [task[h] EXCEPT !.pc = "complete", !.bal = bal]
  <2>1. bal \in Nat
    BY DEF TypeOK, NetOK, Chains
  <2>2. task[h].pc = "account" /\ task' = [task EXCEPT ![h] = t]
    BY <1>9 DEF ObserveAccount, At
  <2>3. Still(task[h], "reconciling") => bal <= chain.funds
    <3>1. SUFFICES ASSUME Still(task[h], "reconciling") PROVE Hidden(e) = {}
      BY DEF FInv, ViewFunds
    <3>2. Tx(task[h].seen) = Tx(spend)
      BY <1>1, <2>2, <3>1 DEF TaskInv, TaskOK, Still, Reconciling
    <3>3. Tx(spend) \in Landed(view[e])
      BY <1>1, <2>2, <3>2 DEF TaskFunds, Reconciling
    <3>. QED
      BY <3>3 DEF FInv, ViewFunds, Hidden
  <2> HIDE DEF bal
  <2>4. t.seen = task[h].seen /\ t.pc = "complete" /\ t.cursor = task[h].cursor /\ t.bal = bal
    BY <1>1 DEF Tasks
  <2> HIDE DEF t
  <2>5. TaskFunds(t)
    BY <1>1, <2>1, <2>2, <2>3, <2>4 DEF TaskFunds, Still, Reconciling
  <2>. QED
    BY <1>3, <2>2, <2>4, <2>5 DEF Reconciling
<1>. QED
  BY <1>4, <1>5, <1>7, <1>8, <1>9 DEF Reconciles

LEMMA ReadsFunds ==
    ASSUME OneEndpoint, TypeOK, IInv, FInv, NEW h \in Hosts, Reads(h) PROVE FInv'
<1>1. FundsLearned(h)
  BY StartsFunds, RequestsFunds, RereadsFunds, PreparesFunds, LooksFunds, ReconcilesFunds DEF Reads
<1>2. UNCHANGED <<store, watch, net, bounds>>
  BY DEF Reads, Starts, StartRecovery, StartWithdrawal, StartRefill, Requests, Acquire, AcquireTimesOut,
         ReadReceipt, ReadAccepted, ReadCurrent, Recover, Snapshot, ReadSlotBalance, Rereads,
         ReadCreated, ReadActive, Reread, ReadFailed, ReadCompleted, ReadSuperseded, Prepares,
         Simulate, CursorBeforeFunds, ReadFunds, Looks, SubmitAnswers, SubmitFails, Lookup,
         LookupAfter, Reconciles, CursorBeforeObservation, ReadProjection, Confirm, ObserveSlot,
         ObserveAccount
<1>. QED
  BY <1>1, <1>2, FundsLearnedKeeps DEF funds, store, net, bounds

-----------------------------------------------------------------------------
(* The steps that change the balances, and what they leave true for others.*)

\* Nothing accepted is accepted again, a spend only goes on, the account falls only
\* while the spend is signed, and a slot rises only by the refill that is under way,
\* whose acceptance raised the sequence of the slot.
Onward ==
    /\ \A op : Used(op) => Used(op)'
    /\ spend'.op # spend.op => ~Used(spend'.op) /\ spend'.op # None
    /\ spend'.op = spend.op =>
          /\ spend'.state = "reserved" => spend.state = "reserved"
          /\ spend'.state = "ready" => spend.state \in {"reserved", "ready"}
          /\ spend'.state = "reconciling" => spend.state \in {"ready", "reconciling"}
          /\ spend.state = "reconciling" /\ spend'.state = "reconciling" => acct'.seq = acct.seq
    /\ spend.state # "ready" => chain.funds <= chain'.funds
    /\ \A e \in Endpoints : Landed(view[e]) \subseteq Landed(view'[e])
    /\ \A s \in Slots :
          /\ slot[s].seq <= slot'[s].seq
          /\ slot'[s].seq = slot[s].seq =>
                /\ IsActive(spend') /\ spend'.slot = s => IsActive(spend) /\ spend.slot = s
                /\ ~(IsActive(spend) /\ spend.slot = s) => chain'.bal[s] <= chain.bal[s]

LEMMA FundsTyped ==
    ASSUME TypeOK
    PROVE  /\ chain.funds \in Nat /\ chain.bal \in [Slots -> Nat]
           /\ \A e \in Endpoints : view[e].funds \in Nat /\ view[e].bal \in [Slots -> Nat]
           /\ acct.seq \in Nat /\ acct.bal \in Nat \cup {None} /\ None \notin Nat
           /\ \A s \in Slots : slot[s].seq \in Nat
           /\ spend.amount \in Nat /\ Gas \in Nat /\ Runway \in Nat /\ Target \in Nat
           /\ spend.state \in {"none", "reserved", "ready", "reconciling", "succeeded", "failed"}
  BY SpendAssumption
     DEF TypeOK, NetOK, StoreOK, Chains, Observations, Balances, SpendRecords, States, Active, Ended

LEMMA TaskFundsKept ==
    ASSUME TypeOK, chain'.funds \in Nat, Onward
    PROVE  \A u : TaskOK(u) /\ TaskInv(u) /\ TaskFunds(u) => TaskFunds(u)'
<1>. SUFFICES ASSUME NEW u, TaskOK(u), TaskInv(u), TaskFunds(u) PROVE TaskFunds(u)'
  OBVIOUS
<1>1. u.pc \in Reconciling \cup {"ready"} =>
          Used(u.seen.op) /\ u.seen.state \in {"reserved", "reconciling"}
  BY DEF TaskOK, TaskInv, Preparing
<1>2. u.pc \in Reconciling \cup {"ready"} /\ spend'.op = u.seen.op => spend'.op = spend.op
  BY <1>1 DEF Onward
<1>3. u.pc = "ready" => /\ u.bal \in Nat /\ u.bal >= Runway + Cost(u.seen)
                        /\ Still(u, "reserved")' => u.bal <= chain'.funds
  BY <1>2, FundsTyped DEF Onward, TaskFunds, Still
<1>4. u.pc \in Reconciling => ~Still(u, "reserved")' /\ ~Still(u, "ready")'
  BY <1>2 DEF Onward, TaskFunds, Still
<1>5. u.pc \in Reconciling /\ Still(u, "reconciling")' => Still(u, "reconciling")
  BY <1>2 DEF Onward, TaskFunds, Still
<1>6. u.pc \in Reconciling \ {"confirm"} => \A e \in Endpoints : Tx(u.seen) \in Landed(view'[e])
  BY DEF Onward, TaskFunds
<1>7. u.pc \in Reconciling \ {"confirm", "cursor2"} /\ Still(u, "reconciling")' =>
          acct'.seq = u.cursor
  BY <1>2, <1>5 DEF Onward, TaskFunds, Still
<1>8. u.pc = "complete" => u.bal \in Nat /\ (Still(u, "reconciling")' => u.bal <= chain'.funds)
  <2>1. "complete" \in Reconciling
    BY DEF Reconciling
  <2>. QED
    BY <1>2, <1>5, <2>1, FundsTyped DEF Onward, TaskFunds, Still
<1>. QED
  BY <1>3, <1>4, <1>6, <1>7, <1>8 DEF TaskFunds

LEMMA RefillFundsKept ==
    ASSUME TypeOK, TypeOK', Onward
    PROVE  \A u : TaskOK(u) /\ RefillFunds(u) => RefillFunds(u)'
<1>. SUFFICES ASSUME NEW u, TaskOK(u), RefillFunds(u),
                     u.pc \in {"slotBalance", "note", "reserve"}, u.job.kind = "refill"
              PROVE  RefillFunds(u)'
  BY DEF RefillFunds
<1>1. PICK s \in Slots : s = u.job.slot
  BY DEF TaskOK
<1>2. PICK k \in Nat, l \in Nat, b \in Nat, c \in Nat :
          k = slot[s].seq /\ l = slot'[s].seq /\ b = chain.bal[s] /\ c = chain'.bal[s]
  BY DEF TypeOK, StoreOK, NetOK, Observations, Chains
<1>3. /\ k <= l
      /\ l = k => /\ IsActive(spend') /\ spend'.slot = s => IsActive(spend) /\ spend.slot = s
                  /\ ~(IsActive(spend) /\ spend.slot = s) => c <= b
  BY <1>2 DEF Onward
<1>4. /\ u.slotSeq \in Nat /\ u.slotSeq <= k
      /\ k = u.slotSeq => ~(IsActive(spend) /\ spend.slot = s)
      /\ u.pc # "slotBalance" => u.slotBal \in Nat
      /\ u.pc # "slotBalance" /\ k = u.slotSeq => b <= u.slotBal
  BY <1>1, <1>2 DEF RefillFunds
<1>5. /\ u.slotSeq <= l
      /\ l = u.slotSeq => ~(IsActive(spend') /\ spend'.slot = s)
      /\ u.pc # "slotBalance" /\ l = u.slotSeq => c <= u.slotBal
  BY <1>3, <1>4
<1>. QED
  BY <1>1, <1>2, <1>4, <1>5 DEF RefillFunds

LEMMA WatchFundsKept ==
    ASSUME TypeOK, chain'.funds \in Nat, Onward, spend'.state \in States
    PROVE  \A w \in Watches : WatchFunds(w) => WatchFunds(w)'
<1>. SUFFICES ASSUME NEW w \in Watches, WatchFunds(w), w.pc # "idle", w.what = None
              PROVE  WatchFunds(w)'
  BY DEF WatchFunds
<1>1. w.op # None => Used(w.op) /\ Used(w.op)'
  BY DEF WatchFunds, Onward
<1>2. w.op = spend'.op => spend'.op = spend.op
  BY <1>1 DEF Onward
<1>3. w.op = spend'.op => ~IsActive(spend) /\ ~IsActive(spend')
  BY <1>2 DEF WatchFunds, Onward, IsActive, Active
<1>4. w.pc = "write" /\ w.op = spend'.op /\ w.bal # None => w.bal <= chain'.funds
  <2>1. w.bal \in Nat \cup {None}
    BY DEF Watches, Balances
  <2>2. w.op = spend'.op => chain.funds <= chain'.funds
    BY <1>3 DEF Onward, IsActive, Active
  <2>. QED
    BY <1>2, <2>1, <2>2, FundsTyped DEF WatchFunds
<1>. QED
  BY <1>1, <1>3, <1>4 DEF WatchFunds

\* A step that goes on, of one worker at most, which carries nothing after it.
LEMMA OnwardKeeps ==
    ASSUME TypeOK, TypeOK', IInv, FInv, Onward,
           \A o \in Observers : watch'[o] = watch[o] \/ watch'[o].pc = "idle",
           task' = task \/ \E h \in Hosts : \E t : task' = [task EXCEPT ![h] = t] /\ ~Carries(t),
           ViewFunds', AcctFunds', SlotFunds'
    PROVE  FInv'
<1>0. chain'.funds \in Nat /\ spend'.state \in States
  BY DEF TypeOK, NetOK, StoreOK, Chains, SpendRecords
<1>1. ASSUME NEW k \in Hosts PROVE TaskFunds(task[k])' /\ RefillFunds(task[k])'
  <2>1. PICK u : u = task'[k]
    OBVIOUS
  <2>2. CASE ~Carries(u)
    <3>1. u.pc \notin Reconciling /\ u.pc # "ready" /\ u.pc # "complete"
          /\ u.pc # "slotBalance" /\ u.pc # "note"
          /\ (u.pc = "reserve" => u.job.kind # "refill")
      BY <2>2 DEF Carries, Reconciling
    <3>2. TaskFunds(u)'
      BY <3>1 DEF TaskFunds
    <3>3. RefillFunds(u)'
      BY <3>1 DEF RefillFunds
    <3>. QED
      BY <2>1, <3>2, <3>3
  <2>3. CASE Carries(u)
    <3>1. u = task[k]
      BY <2>1, <2>3 DEF TypeOK, WorkersOK
    <3>2. TaskOK(u) /\ TaskInv(u) /\ TaskFunds(u) /\ RefillFunds(u)
      BY <3>1 DEF TypeOK, WorkersOK, IInv, WorkersInv, FInv
    <3>3. TaskFunds(u)' /\ RefillFunds(u)'
      BY <1>0, <3>2, TaskFundsKept, RefillFundsKept
    <3>. QED
      BY <2>1, <3>3
  <2>. QED
    BY <2>2, <2>3
<1>2. ASSUME NEW o \in Observers PROVE WatchFunds(watch[o])'
  <2>1. PICK w : w = watch'[o]
    OBVIOUS
  <2>2. CASE w.pc = "idle"
    BY <2>1, <2>2 DEF WatchFunds
  <2>3. CASE w = watch[o]
    <3>1. w \in Watches /\ WatchFunds(w)
      BY <2>3 DEF TypeOK, WatchOK, FInv
    <3>2. WatchFunds(w)'
      BY <1>0, <3>1, WatchFundsKept
    <3>. QED
      BY <2>1, <3>2
  <2>. QED
    BY <2>1, <2>2, <2>3
<1>. QED
  BY <1>1, <1>2 DEF FInv

LEMMA ReceiptsUsed ==
    ASSUME TypeOK, spends' = spends,
           \A n \in Nonces : receipt[n].type # "issued" => receipt'[n].type # "issued"
    PROVE  \A op : Used(op) => Used(op)'
  BY UsedGrows DEF TypeOK, BoundsOK

\* The current spend goes on.
LEMMA SpendOnward ==
    ASSUME TypeOK, TypeOK', UNCHANGED <<chain, view, spends>>,
           spend'.op = spend.op, spend'.slot = spend.slot,
           spend'.state = "reserved" => spend.state = "reserved",
           spend'.state = "ready" => spend.state \in {"reserved", "ready"},
           spend'.state = "reconciling" => spend.state \in {"ready", "reconciling"},
           spend.state = "reconciling" /\ spend'.state = "reconciling" => acct' = acct,
           \A n \in Nonces : receipt[n].type # "issued" => receipt'[n].type # "issued",
           \A s \in Slots : slot'[s].seq = slot[s].seq \/ slot'[s].seq = slot[s].seq + 1
    PROVE  Onward
<1>1. \A op : Used(op) => Used(op)'
  BY ReceiptsUsed
<1>2. IsActive(spend') => IsActive(spend)
  BY DEF IsActive, Active
<1>3. ASSUME NEW s \in Slots
      PROVE  /\ slot[s].seq <= slot'[s].seq
             /\ chain'.bal[s] <= chain.bal[s] /\ chain.funds <= chain'.funds
  BY <1>3, FundsTyped
<1>4. chain.funds <= chain'.funds
  BY FundsTyped
<1>. QED
  BY <1>1, <1>2, <1>3, <1>4 DEF Onward

LEMMA ViewsKept ==
    ASSUME FInv, UNCHANGED <<chain, view>>, Tx(spend') = Tx(spend),
           \/ IsSigned(spend') \/ ~IsSigned(spend)
           \/ \A e \in Endpoints : Tx(spend) \in Landed(view[e])
    PROVE  ViewFunds'
<1>1. Tx(spend)' = Tx(spend)
  BY DEF Tx
<1>2. ASSUME NEW e \in Endpoints
      PROVE  /\ Hidden(e)' = Hidden(e)
             /\ \A x \in Hidden(e) : IsSigned(spend') /\ x = Tx(spend)
             /\ Hidden(e) = {} => view[e].funds <= chain.funds
             /\ \A s \in Slots :
                   (\A x \in Hidden(e) : x.slot # s) => chain.bal[s] <= view[e].bal[s]
  <2>1. Hidden(e)' = Hidden(e)
    BY DEF Hidden, Landed
  <2>. QED
    BY <2>1 DEF FInv, ViewFunds, Hidden
<1>. QED
  BY <1>1, <1>2 DEF ViewFunds, IsSigned

\* A worker that goes on, or ends its job, and carries nothing.
LEMMA GotoCarries ==
    ASSUME TypeOK, NEW h \in Hosts, NEW pc, Goto(h, pc),
           pc \notin Reconciling \cup {"ready", "slotBalance", "note", "reserve"}
    PROVE  \E t : task' = [task EXCEPT ![h] = t] /\ ~Carries(t)
<1> DEFINE t == [task[h] EXCEPT !.pc = pc]
<1>1. task' = [task EXCEPT ![h] = t] /\ t.pc = pc
  BY WorkerFacts, PcTyped DEF Goto, TypeOK, WorkersOK
<1> HIDE DEF t
<1>. QED
  BY <1>1 DEF Carries

LEMMA TellCarries ==
    ASSUME NEW h \in Hosts, NEW status, NEW op, Tell(h, status, op)
    PROVE  \E t : task' = [task EXCEPT ![h] = t] /\ ~Carries(t)
<1>1. ~Carries(Resting)
  BY DEF Resting, Carries, Reconciling
<1>. QED
  BY <1>1 DEF Tell

\* What was looked at keeps the runway, and nothing was paid since.
LEMMA MarkReadyFunds ==
    ASSUME TypeOK, TypeOK', IInv, FInv, NEW h \in Hosts, MarkReady(h) PROVE FInv'
<1>1. At(h, "ready") /\ Goto(h, "reread") /\ UNCHANGED <<receipt, slot, watch, net, bounds>>
  BY DEF MarkReady
<1>2. CASE Same(spend, task[h].seen)
  <2>1. /\ spend.state = "reserved" /\ spend.op = task[h].seen.op
        /\ ~IsSigned(spend) /\ Tx(task[h].seen) = Tx(spend)
    BY <1>1, <1>2, SameState, WorkerFacts
       DEF At, Preparing, IsSigned, IInv, WorkersInv, TaskInv, TypeOK, TaskOK
  <2>2. spend \in SpendRecords /\ spend' = [spend EXCEPT !.state = "ready", !.signed = TRUE]
    BY <1>2 DEF MarkReady, TypeOK, StoreOK
  <2>3. /\ spend'.state = "ready" /\ spend'.op = spend.op /\ spend'.slot = spend.slot
        /\ spend'.amount = spend.amount /\ Tx(spend') = Tx(spend) /\ Tx(spend)' = Tx(spend)
    BY <2>2 DEF SpendRecords, Tx
  <2>4. Onward
    BY <1>1, <2>1, <2>3, SpendOnward DEF net, bounds
  <2>5. ViewFunds'
    BY <1>1, <2>3, ViewsKept DEF net, IsSigned
  <2>6. AcctFunds'
    <3>1. /\ task[h].bal \in Nat /\ task[h].bal >= Runway + Cost(task[h].seen)
          /\ task[h].bal <= chain.funds
      BY <1>1, <2>1 DEF FInv, TaskFunds, Still, At
    <3>2. Cost(task[h].seen) = Cost(spend) /\ Cost(spend)' = Cost(spend) /\ Cost(spend) \in Nat
      BY <2>1, <2>3, FundsTyped DEF Cost, Tx
    <3>3. chain.funds >= Runway + Cost(spend)
      BY <3>1, <3>2, FundsTyped
    <3>4. RunwayKept'
      BY <1>1 DEF FInv, AcctFunds, RunwayKept, Landed, net
    <3>. QED
      BY <1>1, <2>3, <3>2, <3>3, <3>4 DEF AcctFunds, IsSigned, net
  <2>7. SlotFunds'
    BY <1>1, <2>1, <2>3 DEF FInv, SlotFunds, Awaited, NoSlotOverfilled, Landed, net
  <2>. QED
    BY <1>1, <2>4, <2>5, <2>6, <2>7, GotoCarries, OnwardKeeps DEF Reconciling
<1>3. CASE ~Same(spend, task[h].seen)
  BY <1>1, <1>3, GotoFunds, FundsLearnedKeeps DEF MarkReady, funds, net, bounds, Reconciling
<1>. QED
  BY <1>2, <1>3

LEMMA BeginReconciliationFunds ==
    ASSUME TypeOK, TypeOK', IInv, FInv, NEW h \in Hosts, BeginReconciliation(h) PROVE FInv'
<1>1. At(h, "begin") /\ Goto(h, "reread") /\ UNCHANGED <<receipt, acct, slot, watch, net, bounds>>
  BY DEF BeginReconciliation
<1>2. CASE Same(spend, task[h].seen)
  <2>1. spend.state = "ready" /\ IsSigned(spend)
    BY <1>1, <1>2, SameState DEF At, Paying, IsSigned
  <2>2. spend \in SpendRecords
        /\ spend' = [spend EXCEPT !.state = "reconciling", !.result = task[h].seen.result]
    BY <1>2 DEF BeginReconciliation, TypeOK, StoreOK
  <2>3. /\ spend'.state = "reconciling" /\ spend'.op = spend.op /\ spend'.slot = spend.slot
        /\ Tx(spend') = Tx(spend) /\ Tx(spend)' = Tx(spend)
    BY <2>2 DEF SpendRecords, Tx
  <2>4. Onward
    BY <1>1, <2>1, <2>3, SpendOnward DEF net, bounds
  <2>5. ViewFunds'
    BY <1>1, <2>3, ViewsKept DEF net, IsSigned
  <2>6. AcctFunds' /\ SlotFunds'
    BY <1>1, <2>1, <2>3
       DEF FInv, AcctFunds, SlotFunds, Awaited, RunwayKept, NoSlotOverfilled, Landed, net, IsSigned
  <2>. QED
    BY <1>1, <2>4, <2>5, <2>6, GotoCarries, OnwardKeeps DEF Reconciling
<1>3. CASE ~Same(spend, task[h].seen)
  BY <1>1, <1>3, GotoFunds, FundsLearnedKeeps DEF BeginReconciliation, funds, net, bounds, Reconciling
<1>. QED
  BY <1>2, <1>3

LEMMA FailReservedFunds ==
    ASSUME TypeOK, TypeOK', IInv, FInv, NEW h \in Hosts, FailReserved(h) PROVE FInv'
<1>1. task[h].pc \in Preparing /\ UNCHANGED <<acct, slot, watch, net, bounds>>
  BY DEF FailReserved, Preparing
<1>2. CASE Same(spend, task[h].seen)
  <2> DEFINE result == IF At(h, "failing") THEN "failed" ELSE "runway_blocked"
             required == IF At(h, "blocking") /\ spend.slot # None THEN Runway + Cost(spend) ELSE None
             c == Closed(spend, result)
  <2>1. spend.state = "reserved" /\ ~IsSigned(spend) /\ spend.state # "none"
    BY <1>1, <1>2, SameState DEF IsSigned
  <2>2. result \in Results
    BY DEF Results
  <2>3. /\ spend' = [c EXCEPT !.required = required]
        /\ receipt' = ReceiptAfter(spend, result) /\ Goto(h, "failed")
    BY <1>2 DEF FailReserved
  <2> HIDE DEF result, required
  <2>4. /\ c \in SpendRecords /\ c.state \in Ended
        /\ c.op = spend.op /\ Tx(c) = Tx(spend) /\ c.slot = spend.slot
    BY <2>1, <2>2, ClosedTyped DEF TypeOK, StoreOK
  <2> HIDE DEF c
  <2>5. /\ spend'.state \in Ended /\ spend'.op = spend.op /\ spend'.slot = spend.slot
        /\ Tx(spend') = Tx(spend)
    BY <2>3, <2>4 DEF SpendRecords, Tx
  <2>6. \A n \in Nonces : receipt[n].type # "issued" => receipt'[n].type # "issued"
    BY <2>1, <2>3, ReceiptAfterSays DEF TypeOK
  <2>7. Onward
    BY <1>1, <2>1, <2>5, <2>6, SpendOnward DEF net, bounds, Ended
  <2>8. ViewFunds'
    BY <1>1, <2>1, <2>5, ViewsKept DEF net
  <2>9. AcctFunds' /\ SlotFunds'
    BY <1>1, <2>1, <2>5
       DEF FInv, AcctFunds, SlotFunds, Awaited, RunwayKept, NoSlotOverfilled, Landed, net, Ended
  <2>. QED
    BY <1>1, <2>3, <2>7, <2>8, <2>9, GotoCarries, OnwardKeeps DEF Reconciling
<1>3. CASE ~Same(spend, task[h].seen)
  <2>1. UNCHANGED <<funds, watch>> /\ Goto(h, "reread")
    BY <1>1, <1>3 DEF FailReserved, funds, net, bounds
  <2>. QED
    BY <2>1, GotoFunds, FundsLearnedKeeps DEF Reconciling
<1>. QED
  BY <1>2, <1>3

\* The result was confirmed where the balance was read, and the cursor is still that
\* of the last observation: none is written beside a spend that is under way.
LEMMA CompleteFunds ==
    ASSUME TypeOK, TypeOK', IInv, FInv, NEW h \in Hosts, Complete(h) PROVE FInv'
<1> DEFINE s == task[h].seen
           Kept == Same(spend, s) /\ (s.slot # None => slot[s.slot].seq = task[h].slotSeq)
<1>1. At(h, "complete") /\ UNCHANGED <<watch, net, bounds>>
  BY DEF Complete
<1>2. CASE Kept
  <2>1. /\ spend' = Closed(spend, s.result) /\ receipt' = ReceiptAfter(spend, s.result)
        /\ acct' = AccountAfter(h) /\ Goto(h, "completed")
        /\ slot' = [x \in Slots |-> IF x = s.slot
                        THEN [seq |-> slot[x].seq + 1, bal |-> task[h].slotBal] ELSE slot[x]]
    BY <1>2 DEF Complete
  <2>2. /\ spend.state = "reconciling" /\ spend.state # "none" /\ spend.op = s.op
        /\ s.state = "reconciling" /\ s.result \in Results
    BY <1>1, <1>2, SameState, WorkerFacts
       DEF At, Reconciling, TypeOK, TaskOK, SpendOK, SpendRecords
  <2>3. TaskFunds(task[h]) /\ TaskInv(task[h])
    BY DEF FInv, IInv, WorkersInv
  <2>4. /\ spend'.state \in Ended /\ spend'.op = spend.op /\ spend'.slot = spend.slot
        /\ Tx(spend') = Tx(spend)
    BY <2>1, <2>2, ClosedTyped DEF TypeOK, StoreOK
  <2>5. /\ \A e \in Endpoints : Tx(spend) \in Landed(view[e])
        /\ task[h].bal \in Nat /\ task[h].bal <= chain.funds /\ acct.seq = task[h].cursor
    BY <1>1, <2>2, <2>3 DEF TaskFunds, TaskInv, Still, At, Reconciling
  <2>6. \A n \in Nonces : receipt[n].type # "issued" => receipt'[n].type # "issued"
    BY <2>1, <2>2, ReceiptAfterSays DEF TypeOK
  <2>7. \A x \in Slots : slot'[x].seq = slot[x].seq \/ slot'[x].seq = slot[x].seq + 1
    BY <2>1
  <2>8. Onward
    BY <1>1, <2>2, <2>4, <2>6, <2>7, SpendOnward DEF net, bounds, Ended
  <2>9. ViewFunds'
    BY <1>1, <2>4, <2>5, ViewsKept DEF net
  <2>10. AcctFunds'
    BY <1>1, <2>1, <2>4, <2>5
       DEF FInv, AcctFunds, AccountAfter, RunwayKept, Landed, net, Ended
  <2>11. SlotFunds'
    BY <1>1, <2>4 DEF FInv, SlotFunds, Awaited, NoSlotOverfilled, Landed, net, Ended
  <2>. QED
    BY <1>1, <2>1, <2>8, <2>9, <2>10, <2>11, GotoCarries, OnwardKeeps DEF Reconciling
<1>3. CASE ~Kept
  <2>1. UNCHANGED <<funds, watch>> /\ Goto(h, "superseded")
    BY <1>1, <1>3 DEF Complete, funds, store, net, bounds
  <2>. QED
    BY <2>1, GotoFunds, FundsLearnedKeeps DEF Reconciling
<1>. QED
  BY <1>2, <1>3

\* Neither the current spend nor the account nor the chain changes.
LEMMA BalancesKept ==
    ASSUME FInv, UNCHANGED <<spend, acct, chain, view>>
    PROVE  ViewFunds' /\ AcctFunds' /\ SlotFunds'
<1>1. ViewFunds'
  BY DEF FInv, ViewFunds, Hidden, Landed
<1>. QED
  BY <1>1 DEF FInv, AcctFunds, SlotFunds, Awaited, RunwayKept, NoSlotOverfilled, Landed

LEMMA NoteBalanceFunds ==
    ASSUME TypeOK, TypeOK', IInv, FInv, NEW h \in Hosts, NoteBalance(h) PROVE FInv'
<1>1. /\ UNCHANGED <<spend, receipt, acct, watch, net, bounds>> /\ Unsettled(h)
      /\ task[h].job.slot \in Slots
  BY WorkerFacts DEF NoteBalance, At, TypeOK, TaskOK, Refills
<1>2. \A s \in Slots : slot'[s].seq = slot[s].seq \/ slot'[s].seq = slot[s].seq + 1
  BY <1>1 DEF NoteBalance, TypeOK, StoreOK
<1>3. Onward
  BY <1>1, <1>2, FundsTyped, SpendOnward DEF net, bounds
<1>. QED
  BY <1>1, <1>3, BalancesKept, TellCarries, OnwardKeeps DEF net, Unsettled

\* Everything that landed is visible, and what a refill read of its slot is of the
\* sequence that the slot still has.
LEMMA AcceptFunds ==
    ASSUME TypeOK, TypeOK', IInv, FInv, NEW h \in Hosts, At(h, "reserve"), Accept(h),
           ~IsActive(spend), net' = net, watch' = watch,
           task[h].job.kind = "withdraw" => receipt[Asked(h).nonce].type = "issued",
           task[h].job.kind # "withdraw" => ~SlotChanged(h)
    PROVE  FInv'
<1>1. /\ spend' = Asked(h) /\ spends' = spends + 1 /\ spends \in Nat /\ acct' = acct
      /\ spend'.state = "reserved" /\ spend'.op \in Operations
      /\ UNCHANGED <<sent, chain, view>>
  BY AskedTyped DEF Accept, TypeOK, BoundsOK, net
<1>2. ~IsSigned(spend) /\ ~IsSigned(spend') /\ task[h].job.kind \in {"withdraw", "refill"}
  BY <1>1, WorkerFacts DEF IsActive, IsSigned, Active, At, TypeOK, TaskOK, Deciding
<1>3. ~Used(spend'.op) /\ spend'.op # None
  BY <1>1, AskedIsNew, SpendAssumption
<1>4. \A op : Used(op) => Used(op)'
  <2>1. \A n \in Nonces : receipt[n].type # "issued" => receipt'[n].type # "issued"
    BY DEF Accept, TypeOK, StoreOK
  <2>2. spends' \in Nat /\ spends <= spends'
    BY <1>1
  <2>. QED
    BY <1>1, <2>1, <2>2, UsedGrows
<1>5. spend'.op # spend.op
  <2>1. spend.state = "none" => spend.op = None
    BY DEF TypeOK, StoreOK, SpendOK, NoSpend
  <2>2. spend.state # "none" => Used(spend.op)
    BY DEF IInv, RecordInv, SpendInv
  <2>. QED
    BY <1>3, <2>1, <2>2
<1>6. ASSUME NEW s \in Slots
      PROVE  /\ slot[s].seq <= slot'[s].seq /\ chain'.bal[s] <= chain.bal[s]
             /\ slot'[s].seq = slot[s].seq => spend'.slot # s
  <2>1. CASE task[h].job.kind = "withdraw"
    <3>1. slot' = slot /\ spend'.slot = None /\ None \notin Slots
      BY <1>1, <2>1, AskedTyped, SpendAssumption DEF Accept
    <3>. QED
      BY <1>1, <3>1, FundsTyped
  <2>2. CASE task[h].job.kind # "withdraw"
    <3>1. /\ spend'.slot = task[h].job.slot /\ task[h].job.slot \in Slots
          /\ slot' = [slot EXCEPT ![task[h].job.slot].seq = @ + 1]
      BY <1>1, <2>2, AskedTyped DEF Accept
    <3>2. slot'[s].seq = IF s = task[h].job.slot THEN slot[s].seq + 1 ELSE slot[s].seq
      BY <3>1 DEF TypeOK, StoreOK, Observations
    <3>. QED
      BY <1>1, <3>1, <3>2, FundsTyped
  <2>. QED
    BY <2>1, <2>2
<1>7. Onward
  <2>1. chain.funds <= chain'.funds
    BY <1>1, FundsTyped
  <2>. QED
    BY <1>1, <1>3, <1>4, <1>5, <1>6, <2>1 DEF Onward
<1>8. ViewFunds'
  <2>1. ASSUME NEW e \in Endpoints PROVE Hidden(e)' = Hidden(e) /\ Hidden(e) = {}
    BY <1>1, <1>2 DEF FInv, ViewFunds, Hidden, Landed
  <2>. QED
    BY <1>1, <2>1 DEF FInv, ViewFunds
<1>9. AcctFunds'
  BY <1>1, <1>2 DEF FInv, AcctFunds, RunwayKept, Landed
<1>10. SlotFunds'
  <2>1. spend'.slot # None => chain'.bal[spend'.slot] + spend'.amount <= Target
    <3>1. SUFFICES ASSUME task[h].job.kind # "withdraw"
                   PROVE  chain.bal[spend'.slot] + spend'.amount <= Target
      BY <1>1, AskedTyped
    <3>2. PICK s \in Slots : s = task[h].job.slot
      BY <3>1, AskedTyped
    <3>3. /\ spend'.slot = s /\ spend'.amount = Target - task[h].slotBal /\ task[h].slotBal \in Nat
      BY <1>1, <3>1, <3>2, AskedTyped
    <3>4. slot[s].seq = task[h].slotSeq
      BY <3>1, <3>2 DEF SlotChanged
    <3>5. chain.bal[s] <= task[h].slotBal
      BY <1>2, <3>1, <3>2, <3>4 DEF FInv, RefillFunds, At
    <3>6. chain.bal[s] \in Nat /\ Target \in Nat
      BY <3>2, FundsTyped
    <3>. QED
      BY <3>3, <3>5, <3>6
  <2>. QED
    BY <1>1, <2>1 DEF FInv, SlotFunds, NoSlotOverfilled
<1>11. \E t : task' = [task EXCEPT ![h] = t] /\ ~Carries(t)
  <2> DEFINE t == [task[h] EXCEPT !.pc = "created", !.seen = Asked(h)]
  <2>1. task' = [task EXCEPT ![h] = t] /\ t.pc = "created"
    BY WorkerFacts DEF Accept, TypeOK, Tasks
  <2> HIDE DEF t
  <2>. QED
    BY <2>1 DEF Carries, Reconciling
<1>. QED
  BY <1>7, <1>8, <1>9, <1>10, <1>11, OnwardKeeps

LEMMA ReserveFunds ==
    ASSUME TypeOK, TypeOK', IInv, FInv, NEW h \in Hosts, Reserve(h) PROVE FInv'
<1> DEFINE withdrawal == task[h].job.kind = "withdraw"
           n == NonceOf[task[h].job.request]
<1>1. At(h, "reserve") /\ UNCHANGED <<watch, net, deposits, drains, faults>>
  BY DEF Reserve
<1>2. ASSUME FundsLearned(h), UNCHANGED <<store, spends>> PROVE FInv'
  BY <1>1, <1>2, FundsLearnedKeeps DEF funds, store, net
<1>3. CASE /\ Accept(h) /\ ~IsActive(spend) /\ (withdrawal => NonceUnused(n))
           /\ (~withdrawal => ~SlotChanged(h))
  <2>1. withdrawal => Asked(h).nonce = n
    BY <1>1, AskedTyped
  <2>. QED
    BY <1>1, <1>3, <2>1, AcceptFunds DEF NonceUnused
<1>4. CASE Goto(h, "active") /\ UNCHANGED <<store, spends>>
  BY <1>2, <1>4, GotoFunds DEF Reconciling
<1>5. ASSUME NEW status, NEW op, Tell(h, status, op), UNCHANGED <<store, spends>> PROVE FInv'
  BY <1>2, <1>5, TellFunds
<1>6. CASE withdrawal /\ ByReceipt(h, receipt[n]) /\ UNCHANGED <<store, spends>>
  <2>1. ASSUME NEW pc \in {"current", "accepted"}, Goto(h, pc) PROVE FInv'
    BY <1>2, <1>6, <2>1, GotoFunds DEF Reconciling
  <2>. QED
    BY <1>5, <1>6, <2>1 DEF ByReceipt
<1>. QED
  BY <1>3, <1>4, <1>5, <1>6 DEF Reserve, Unsettled

LEMMA SubmitFunds ==
    ASSUME TypeOK, FInv, NEW h \in Hosts, Submit(h) PROVE FInv'
<1>1. UNCHANGED <<funds, watch>> /\ Goto(h, "submitted")
  BY DEF Submit, funds, store, bounds
<1>. QED
  BY <1>1, GotoFunds, FundsLearnedKeeps DEF Reconciling

LEMMA WritesFunds ==
    ASSUME TypeOK, TypeOK', IInv, FInv, NEW h \in Hosts, Writes(h) PROVE FInv'
  BY NoteBalanceFunds, ReserveFunds, MarkReadyFunds, FailReservedFunds, SubmitFunds,
     BeginReconciliationFunds, CompleteFunds DEF Writes

LEMMA FaultsFunds ==
    ASSUME TypeOK, FInv, NEW h \in Hosts, Fails(h) \/ Crash(h) PROVE FInv'
<1>1. UNCHANGED <<funds, watch>>
  BY DEF Fails, Crash, Fault, funds, store, net
<1>2. ~Carries(Resting)
  BY DEF Resting, Carries, Reconciling
<1>3. FundsLearned(h)
  BY <1>2, TellFunds, NothingCarried DEF Fails, Crash, Unsettled, FundsLearned
<1>. QED
  BY <1>1, <1>3, FundsLearnedKeeps

-----------------------------------------------------------------------------
(* Observers.                                                               *)

\* One observer goes on with the record w, and nothing else changes.
LEMMA WatchingFunds ==
    ASSUME TypeOK, FInv, NEW o \in Observers, NEW w, watch' = [watch EXCEPT ![o] = w], WatchFunds(w),
           UNCHANGED <<funds, task>>
    PROVE  FInv'
<1>1. /\ \A u : (TaskFunds(u) <=> TaskFunds(u)') /\ (RefillFunds(u) <=> RefillFunds(u)')
      /\ \A v : WatchFunds(v) <=> WatchFunds(v)'
      /\ ViewFunds' /\ AcctFunds' /\ SlotFunds'
  BY SameFunds DEF FInv
<1>2. ASSUME NEW k \in Hosts PROVE TaskFunds(task[k])' /\ RefillFunds(task[k])'
  <2>1. PICK u : u = task[k]
    OBVIOUS
  <2>. QED
    BY <1>1, <2>1 DEF FInv
<1>3. ASSUME NEW p \in Observers PROVE WatchFunds(watch[p])'
  <2>1. PICK v : v = watch'[p]
    OBVIOUS
  <2>2. WatchFunds(v)
    BY <2>1 DEF FInv, TypeOK, WatchOK
  <2>. QED
    BY <1>1, <2>1, <2>2
<1>. QED
  BY <1>1, <1>2, <1>3 DEF FInv

\* The account is read beside a spend that is not under way, so nothing is hidden from
\* the endpoint, and written only while it still is the last one.
LEMMA ObservingFunds ==
    ASSUME TypeOK, TypeOK', IInv, FInv, NEW o \in Observers, Observing(o) PROVE FInv'
<1>1. UNCHANGED <<spend, receipt, lock, task, answer, net, bounds>>
  BY DEF Observing, Observe, ObserveBalance, WriteObservation, store
<1>2. watch[o] \in Watches
  BY DEF TypeOK, WatchOK
<1>3. CASE Observe(o)
  <2>0. UNCHANGED <<funds, task>>
    BY <1>1, <1>3 DEF Observe, funds, store, net, bounds
  <2>1. CASE watch[o].what = None
    <3> DEFINE w == [watch[o] EXCEPT !.pc = "balance", !.op = spend.op, !.state = spend.state, !.seq = acct.seq]
    <3>1. watch' = [watch EXCEPT ![o] = w] /\ ~IsActive(spend)
      BY <1>3, <2>1, SpendAssumption DEF Observe, TypeOK, WatchOK
    <3>2. w.pc = "balance" /\ w.op = spend.op
      BY <1>2 DEF Watches
    <3>3. spend.op # None => Used(spend.op)
      BY DEF IInv, RecordInv, SpendInv, TypeOK, StoreOK, SpendOK, NoSpend
    <3> HIDE DEF w
    <3>4. WatchFunds(w)
      BY <3>1, <3>2, <3>3 DEF WatchFunds
    <3>. QED
      BY <2>0, <3>1, <3>4, WatchingFunds
  <2>2. CASE watch[o].what \in Slots
    <3> DEFINE w == [watch[o] EXCEPT !.pc = "balance", !.seq = slot[watch[o].what].seq]
    <3>1. watch' = [watch EXCEPT ![o] = w]
      BY <1>3, <2>2, SpendAssumption DEF Observe, TypeOK, WatchOK
    <3>2. w.what # None
      BY <1>2, <2>2, SpendAssumption DEF Watches
    <3> HIDE DEF w
    <3>3. WatchFunds(w)
      BY <3>2 DEF WatchFunds
    <3>. QED
      BY <2>0, <3>1, <3>3, WatchingFunds
  <2>. QED
    BY <1>3, <2>1, <2>2 DEF Observe
<1>4. ASSUME NEW e \in Endpoints, ObserveBalance(o, e) PROVE FInv'
  <2>1. PICK bal : /\ watch' = [watch EXCEPT ![o].bal = bal, ![o].pc = "write"]
                   /\ watch[o].what = None => bal \in {None, view[e].funds}
    BY <1>4 DEF ObserveBalance
  <2> DEFINE w == [watch[o] EXCEPT !.bal = bal, !.pc = "write"]
  <2>2. watch' = [watch EXCEPT ![o] = w]
    BY <2>1 DEF TypeOK, WatchOK
  <2>3. w.what = watch[o].what /\ w.op = watch[o].op /\ w.bal = bal
    BY <1>2 DEF Watches
  <2> HIDE DEF w
  <2>4. watch[o].pc = "balance" /\ WatchFunds(watch[o])
    BY <1>4 DEF ObserveBalance, FInv
  <2>5. ~IsActive(spend) => view[e].funds <= chain.funds
    BY DEF FInv, ViewFunds, IsActive, IsSigned, Active
  <2>6. WatchFunds(w)
    BY <2>1, <2>3, <2>4, <2>5 DEF WatchFunds
  <2>7. UNCHANGED <<funds, task>>
    BY <1>1, <1>4 DEF ObserveBalance, funds, store, net, bounds
  <2>. QED
    BY <2>2, <2>6, <2>7, WatchingFunds
<1>5. CASE WriteObservation(o)
  <2> DEFINE new == [seq |-> watch[o].seq + 1, bal |-> watch[o].bal]
             what == watch[o].what
  <2>1. /\ watch[o].pc = "write" /\ watch' = [watch EXCEPT ![o] = Unseen(what)]
        /\ acct' = IF what = None /\ StillBeside(o) /\ SeqKept(o) THEN new ELSE acct
        /\ slot' = IF what \in Slots /\ SeqKept(o) THEN [slot EXCEPT ![what] = new] ELSE slot
    BY <1>5 DEF WriteObservation
  <2>2. \A p \in Observers : watch'[p] = watch[p] \/ watch'[p].pc = "idle"
    BY <2>1 DEF TypeOK, WatchOK, Unseen
  <2>3. \A s \in Slots : slot'[s].seq = slot[s].seq \/ slot'[s].seq = slot[s].seq + 1
    BY <2>1, SpendAssumption DEF SeqKept, TypeOK, StoreOK
  <2>4. spend.state = "reconciling" => acct' = acct
    BY <2>1 DEF StillBeside, IsActive, Active
  <2>5. Onward
    BY <1>1, <2>3, <2>4, SpendOnward DEF net, bounds
  <2>6. ViewFunds' /\ SlotFunds'
    BY <1>1 DEF net, FInv, ViewFunds, SlotFunds, Hidden, Landed, Awaited, NoSlotOverfilled
  <2>7. acct' # acct /\ acct'.bal # None => ~IsActive(spend) /\ acct'.bal <= chain.funds
    <3>1. WatchFunds(watch[o])
      BY DEF FInv
    <3>. QED
      BY <2>1, <3>1 DEF WatchFunds, StillBeside, Same
  <2>8. AcctFunds'
    BY <1>1, <2>7 DEF net, FInv, AcctFunds, Landed, Awaited, RunwayKept
  <2>. QED
    BY <1>1, <2>2, <2>5, <2>6, <2>8, OnwardKeeps
<1>. QED
  BY <1>3, <1>4, <1>5 DEF Observing

-----------------------------------------------------------------------------
(* Time and the network.                                                    *)

LEMMA WorldOnward ==
    ASSUME TypeOK, UNCHANGED <<spend, acct, slot, spends>>,
           \A n \in Nonces : receipt[n].type # "issued" => receipt'[n].type # "issued",
           spend.state # "ready" => chain.funds <= chain'.funds,
           \A e \in Endpoints : Landed(view[e]) \subseteq Landed(view'[e]),
           \A s \in Slots : ~(IsActive(spend) /\ spend.slot = s) => chain'.bal[s] <= chain.bal[s]
    PROVE  Onward
<1>1. \A op : Used(op) => Used(op)'
  BY ReceiptsUsed
<1>2. \A s \in Slots : slot[s].seq <= slot'[s].seq
  BY FundsTyped
<1>. QED
  BY <1>1, <1>2 DEF Onward

\* The lock and the receipts do not speak of balances.
LEMMA ExpiresFunds ==
    ASSUME TypeOK, TypeOK', IInv, FInv, LockExpires \/ \E n \in Nonces : ReceiptExpires(n) PROVE FInv'
<1>1. UNCHANGED <<spend, acct, slot, task, watch, net, bounds>>
  BY DEF LockExpires, ReceiptExpires, store
<1>2. \A n \in Nonces : receipt[n].type # "issued" => receipt'[n].type # "issued"
  BY DEF LockExpires, ReceiptExpires, store, TypeOK, StoreOK
<1>3. \A s \in Slots : chain'.bal[s] <= chain.bal[s] /\ chain.funds <= chain'.funds
  BY <1>1, FundsTyped DEF net
<1>4. chain.funds <= chain'.funds
  BY <1>1, FundsTyped DEF net
<1>5. Onward
  BY <1>1, <1>2, <1>3, <1>4, WorldOnward DEF net, bounds
<1>. QED
  BY <1>1, <1>5, BalancesKept, OnwardKeeps DEF net

\* More in the account, or less in a slot.
LEMMA MovesFunds ==
    ASSUME TypeOK, TypeOK', IInv, FInv, UNCHANGED <<store, task, watch, view, spends>>,
           chain'.succeeded = chain.succeeded, chain'.failed = chain.failed,
           chain.funds <= chain'.funds, \A s \in Slots : chain'.bal[s] <= chain.bal[s]
    PROVE  FInv'
<1>1. chain.funds \in Nat /\ chain'.funds \in Nat /\ chain.bal \in [Slots -> Nat] /\ chain'.bal \in [Slots -> Nat]
  BY DEF TypeOK, NetOK, Chains
<1>2. UNCHANGED <<spend, receipt, acct, slot>> /\ Landed(chain') = Landed(chain)
  BY DEF store, Landed
<1>3. Onward
  BY <1>2, WorldOnward
<1>4. ViewFunds'
  <2>1. ASSUME NEW e \in Endpoints
        PROVE  /\ \A x \in Hidden(e) : IsSigned(spend) /\ x = Tx(spend)
               /\ Hidden(e) = {} => view[e].funds <= chain'.funds
               /\ \A s \in Slots :
                     (\A x \in Hidden(e) : x.slot # s) => chain'.bal[s] <= view[e].bal[s]
    <3>1. Hidden(e) = {} => view[e].funds <= chain'.funds
      BY <1>1, FundsTyped DEF FInv, ViewFunds
    <3>2. ASSUME NEW s \in Slots, \A x \in Hidden(e) : x.slot # s PROVE chain'.bal[s] <= view[e].bal[s]
      <4>1. chain.bal[s] <= view[e].bal[s]
        BY <3>2 DEF FInv, ViewFunds
      <4>2. chain.bal[s] \in Nat /\ chain'.bal[s] \in Nat /\ view[e].bal[s] \in Nat
        BY <1>1, FundsTyped
      <4>. QED
        BY <4>1, <4>2
    <3>. QED
      BY <3>1, <3>2 DEF FInv, ViewFunds
  <2>2. ASSUME NEW e \in Endpoints PROVE Hidden(e)' = Hidden(e)
    BY <1>2 DEF Hidden, Landed
  <2>3. IsSigned(spend)' = IsSigned(spend) /\ Tx(spend)' = Tx(spend)
    BY <1>2 DEF IsSigned, Tx
  <2>. QED
    BY <2>1, <2>2, <2>3 DEF ViewFunds
<1>5. AcctFunds'
  <2>1. Cost(spend) \in Nat /\ Runway \in Nat
    BY FundsTyped DEF Cost
  <2>. QED
    BY <1>1, <1>2, <2>1, FundsTyped DEF FInv, AcctFunds, RunwayKept, IsSigned, Awaited, Cost, Tx
<1>6. SlotFunds'
  <2>1. RoomAtStart => NoSlotOverfilled'
    <3>1. ASSUME RoomAtStart, NEW s \in Slots PROVE chain'.bal[s] <= Target
      <4>1. chain.bal[s] <= Target /\ chain.bal[s] \in Nat /\ chain'.bal[s] \in Nat /\ Target \in Nat
        BY <1>1, <3>1, FundsTyped DEF FInv, SlotFunds, NoSlotOverfilled
      <4>. QED
        BY <4>1
    <3>. QED
      BY <3>1 DEF NoSlotOverfilled
  <2>2. ASSUME RoomAtStart, Awaited', spend.slot # None PROVE chain'.bal[spend.slot] + spend.amount <= Target
    <3>1. PICK s \in Slots : s = spend.slot
      BY <2>2 DEF TypeOK, StoreOK, SpendRecords
    <3>2. chain.bal[s] + spend.amount <= Target
      BY <1>2, <2>2, <3>1 DEF FInv, SlotFunds, Awaited, Tx
    <3>3. chain.bal[s] \in Nat /\ chain'.bal[s] \in Nat /\ chain'.bal[s] <= chain.bal[s]
      BY <1>1
    <3>. QED
      BY <3>1, <3>2, <3>3, FundsTyped
  <2>. QED
    BY <1>2, <2>1, <2>2 DEF SlotFunds
<1>. QED
  BY <1>2, <1>3, <1>4, <1>5, <1>6, OnwardKeeps

\* An endpoint that catches up hides nothing, and knows the balances.
LEMMA CatchUpFunds ==
    ASSUME TypeOK, TypeOK', IInv, FInv, NEW e \in Endpoints, CatchUp(e) PROVE FInv'
<1>1. /\ UNCHANGED <<store, spend, receipt, acct, slot, task, watch, chain, spends>>
      /\ \A d \in Endpoints : view'[d] = IF d = e THEN chain ELSE view[d]
  BY DEF CatchUp, store, bounds, TypeOK, NetOK
<1>2. \A d \in Endpoints : Landed(view[d]) \subseteq Landed(view'[d])
  BY <1>1 DEF IInv, RecordInv, ViewInv, Landed
<1>3. /\ \A s \in Slots : chain'.bal[s] <= chain.bal[s] /\ chain.bal[s] <= chain.bal[s]
      /\ chain.funds <= chain'.funds
  BY <1>1, FundsTyped
<1>4. Onward
  BY <1>1, <1>2, <1>3, WorldOnward
<1>5. ViewFunds'
  <2>1. ASSUME NEW d \in Endpoints PROVE Hidden(d)' = IF d = e THEN {} ELSE Hidden(d)
    BY <1>1 DEF Hidden, Landed
  <2>2. IsSigned(spend)' = IsSigned(spend) /\ Tx(spend)' = Tx(spend)
    BY <1>1 DEF IsSigned, Tx
  <2>. QED
    BY <1>1, <1>3, <2>1, <2>2 DEF FInv, ViewFunds
<1>6. AcctFunds' /\ SlotFunds'
  BY <1>1 DEF FInv, AcctFunds, SlotFunds, Awaited, RunwayKept, NoSlotOverfilled, Landed
<1>. QED
  BY <1>1, <1>4, <1>5, <1>6, OnwardKeeps

\* What lands is the signed spend: the account had what it costs beside the runway, and
\* the slot had room for it.
LEMMA LandFunds ==
    ASSUME TypeOK, TypeOK', IInv, FInv, NEW x \in sent, Land(x) PROVE FInv'
<1>1. /\ UNCHANGED <<store, task, watch, view, spends>> /\ x \notin Landed(chain)
      /\ UNCHANGED <<spend, receipt, acct, slot>>
  BY DEF Land, store, bounds
<1>2. x = Tx(spend) /\ spend.state = "ready" /\ IsSigned(spend) /\ Awaited /\ IsActive(spend)
  BY <1>1 DEF Land, IInv, RecordInv, InFlightIsRecorded, IsSigned, Awaited, IsActive, Active
<1>3. x.amount = spend.amount /\ x.slot = spend.slot /\ Cost(x) = Cost(spend) /\ x.amount \in Nat
  BY <1>2, FundsTyped DEF Tx, Cost
<1>4. /\ chain.funds >= Runway + Cost(spend) /\ Cost(spend) \in Nat /\ Cost(spend) >= Gas
      /\ Gas \in Nat /\ Runway \in Nat /\ chain.funds \in Nat
  BY <1>2, FundsTyped DEF FInv, AcctFunds, Cost
<1>5. chain \in Chains
  BY DEF TypeOK, NetOK
<1>6. /\ chain'.funds = chain.funds - Cost(spend) \/ chain'.funds = chain.funds - Gas
      /\ Landed(chain') = Landed(chain) \cup {x}
      /\ \A s \in Slots : \/ chain'.bal[s] = chain.bal[s]
                          \/ s = spend.slot /\ chain'.bal[s] = chain.bal[s] + spend.amount
  <2>1. CASE Succeed(x)
    <3> DEFINE bal == [s \in Slots |-> IF s = x.slot THEN chain.bal[s] + x.amount ELSE chain.bal[s]]
               funded == chain.funds - Cost(x)
    <3>1. chain' = [chain EXCEPT !.succeeded = @ \cup {x}, !.funds = funded, !.bal = bal]
      BY <2>1 DEF Succeed
    <3>2. \A s \in Slots : bal[s] = IF s = x.slot THEN chain.bal[s] + x.amount ELSE chain.bal[s]
      OBVIOUS
    <3> HIDE DEF bal
    <3>. QED
      BY <1>3, <1>5, <3>1, <3>2 DEF Chains, Landed
  <2>2. CASE FailOnChain(x)
    BY <1>5, <2>2 DEF FailOnChain, Chains, Landed
  <2>. QED
    BY <2>1, <2>2 DEF Land
<1>7. Onward
  <2>1. \A s \in Slots : ~(IsActive(spend) /\ spend.slot = s) => chain'.bal[s] <= chain.bal[s]
    BY <1>2, <1>6, FundsTyped
  <2>. QED
    BY <1>1, <1>2, <2>1, WorldOnward
<1>8. ViewFunds'
  <2>1. ASSUME NEW e \in Endpoints PROVE Hidden(e)' = Hidden(e) \cup {x}
    BY <1>1, <1>6 DEF Hidden, IInv, RecordInv, ViewInv, Landed
  <2>2. IsSigned(spend)' /\ Tx(spend)' = Tx(spend)
    BY <1>1, <1>2 DEF IsSigned, Tx
  <2>3. ASSUME NEW e \in Endpoints, NEW s \in Slots, \A y \in Hidden(e) \cup {x} : y.slot # s
        PROVE  chain'.bal[s] <= view[e].bal[s]
    BY <1>3, <1>6, <2>3 DEF FInv, ViewFunds
  <2>4. \A e \in Endpoints : \A y \in Hidden(e) : y = Tx(spend)
    BY DEF FInv, ViewFunds
  <2>. QED
    BY <1>1, <1>2, <2>1, <2>2, <2>3, <2>4 DEF ViewFunds
<1>9. ~Awaited'
  BY <1>1, <1>2, <1>6 DEF Awaited, Tx
<1>10. AcctFunds'
  <2>1. chain'.funds >= Runway
    BY <1>4, <1>6
  <2>. QED
    BY <1>1, <1>2, <1>9, <2>1 DEF AcctFunds, IsSigned, RunwayKept
<1>11. SlotFunds'
  <2>1. ASSUME RoomAtStart, NEW s \in Slots PROVE chain'.bal[s] <= Target
    <3>1. chain.bal[s] <= Target /\ (s = spend.slot => chain.bal[s] + spend.amount <= Target)
      BY <1>2, <2>1, SpendAssumption DEF FInv, SlotFunds, NoSlotOverfilled
    <3>. QED
      BY <1>6, <3>1
  <2>. QED
    BY <1>9, <2>1 DEF SlotFunds, NoSlotOverfilled
<1>. QED
  BY <1>1, <1>7, <1>8, <1>10, <1>11, OnwardKeeps

LEMMA EnvironmentFunds ==
    ASSUME TypeOK, TypeOK', IInv, FInv, Environment PROVE FInv'
<1>1. chain \in Chains /\ chain.funds \in Nat /\ chain.bal \in [Slots -> Nat]
  BY DEF TypeOK, NetOK, Chains
<1>2. CASE Deposit
  <2>1. /\ UNCHANGED <<store, task, watch, view, spends>>
        /\ chain'.succeeded = chain.succeeded /\ chain'.failed = chain.failed
        /\ chain'.funds = chain.funds + 1 /\ chain'.bal = chain.bal
    BY <1>1, <1>2 DEF Deposit, Chains
  <2>2. chain.funds <= chain'.funds /\ \A s \in Slots : chain'.bal[s] <= chain.bal[s]
    BY <1>1, <2>1
  <2>. QED
    BY <2>1, <2>2, MovesFunds
<1>3. ASSUME NEW s \in Slots, Drain(s) PROVE FInv'
  <2> DEFINE bal == [chain.bal EXCEPT ![s] = chain.bal[s] - 1]
  <2>1. chain' = [chain EXCEPT !.bal = bal]
    BY <1>3 DEF Drain
  <2>2. \A t \in Slots : bal[t] <= chain.bal[t]
    BY <1>1
  <2> HIDE DEF bal
  <2>3. /\ UNCHANGED <<store, task, watch, view, spends>>
        /\ chain'.succeeded = chain.succeeded /\ chain'.failed = chain.failed
        /\ chain'.funds = chain.funds /\ chain'.bal = bal
    BY <1>1, <1>3, <2>1 DEF Drain, Chains
  <2>. QED
    BY <1>1, <2>2, <2>3, MovesFunds
<1>. QED
  BY <1>2, <1>3, ExpiresFunds, LandFunds, CatchUpFunds DEF Environment

-----------------------------------------------------------------------------
(* The theorems about balances.                                             *)

LEMMA FundsInit ==
    ASSUME Init PROVE FInv
<1>0. InitialFunds \in Nat /\ InitialSlots \in Nat /\ Target \in Nat
  BY SpendAssumption
<1>. USE DEF Init
<1>1. \A e \in Endpoints : view[e] = chain /\ Hidden(e) = {}
  BY DEF Hidden, Landed
<1>2. ViewFunds
  BY <1>0, <1>1 DEF ViewFunds
<1>3. /\ Landed(chain) = {} /\ spend.state = "none"
      /\ acct.bal = InitialFunds /\ chain.funds = InitialFunds
      /\ \A s \in Slots : chain.bal[s] = InitialSlots
  BY DEF Landed, NoSpend
<1>4. AcctFunds
  <2>. HIDE DEF Init
  <2>. QED
    BY <1>0, <1>3 DEF AcctFunds, RunwayKept
<1>9. SlotFunds
  <2>. HIDE DEF Init
  <2>. QED
    BY <1>0, <1>3 DEF SlotFunds, Awaited, NoSlotOverfilled, RoomAtStart
<1>5. \A h \in Hosts : task[h] = Resting
  OBVIOUS
<1>6. TaskFunds(Resting) /\ RefillFunds(Resting)
  <2>1. ~Carries(Resting)
    BY DEF Resting, Carries, Reconciling
  <2>. QED
    BY <2>1, NothingCarried
<1>7. \A o \in Observers : watch[o].pc = "idle"
  BY DEF Unseen
<1>8. \A o \in Observers : WatchFunds(watch[o])
  BY <1>7 DEF WatchFunds
<1>. QED
  BY <1>2, <1>4, <1>5, <1>6, <1>8, <1>9 DEF FInv

LEMMA FundsNext ==
    ASSUME OneEndpoint, TypeOK, TypeOK', IInv, FInv, [Next]_vars PROVE FInv'
<1>1. CASE UNCHANGED vars
  <2>1. UNCHANGED <<funds, task, watch>>
    BY <1>1 DEF vars, funds, store, net, bounds
  <2>2. /\ \A u : (TaskFunds(u) <=> TaskFunds(u)') /\ (RefillFunds(u) <=> RefillFunds(u)')
        /\ \A w : WatchFunds(w) <=> WatchFunds(w)'
        /\ ViewFunds' /\ AcctFunds' /\ SlotFunds'
    BY <2>1, SameFunds DEF FInv
  <2>3. ASSUME NEW h \in Hosts PROVE TaskFunds(task[h])' /\ RefillFunds(task[h])'
    <3>1. PICK u : u = task[h]
      OBVIOUS
    <3>. QED
      BY <2>1, <2>2, <3>1 DEF FInv
  <2>4. ASSUME NEW o \in Observers PROVE WatchFunds(watch[o])'
    <3>1. PICK w : w = watch[o]
      OBVIOUS
    <3>. QED
      BY <2>1, <2>2, <3>1 DEF FInv
  <2>. QED
    BY <2>2, <2>3, <2>4 DEF FInv
<1>. QED
  BY <1>1, Steps, ReadsFunds, WritesFunds, FaultsFunds, ObservingFunds, EnvironmentFunds

LEMMA FundsInductive ==
    ASSUME OneEndpoint PROVE Spec => []FInv
<1>1. Init => FInv
  BY FundsInit
<1>2. TypeOK /\ TypeOK' /\ IInv /\ FInv /\ [Next]_vars => FInv'
  BY FundsNext
<1>. QED
  BY <1>1, <1>2, Inductive, PTL DEF Spec

\* With one endpoint, whichever of the observers and spends that read the account writes
\* last, the recorded balance is not above the account's while no spend is under way.
THEOREM NoPhantoms ==
    ASSUME OneEndpoint PROVE Spec => []NoPhantomFunds
<1>1. FInv => NoPhantomFunds
  BY DEF FInv, AcctFunds, NoPhantomFunds, IsActive, IsSigned, Active
<1>. QED
  BY <1>1, FundsInductive, PTL

\* With one endpoint, no slot is filled beyond the target by two refills of one shortage
\* or by one computed of an old balance, if none was above it at the beginning.
THEOREM SlotsNotOverfilled ==
    ASSUME OneEndpoint, RoomAtStart PROVE Spec => []NoSlotOverfilled
<1>1. FInv => NoSlotOverfilled
  BY DEF FInv, SlotFunds
<1>. QED
  BY <1>1, FundsInductive, PTL

\* With one endpoint, whatever lands leaves the runway in the account.
THEOREM RunwayIsKept ==
    ASSUME OneEndpoint PROVE Spec => []RunwayKept
<1>1. FInv => RunwayKept
  BY DEF FInv, AcctFunds
<1>. QED
  BY <1>1, FundsInductive, PTL
=============================================================================
