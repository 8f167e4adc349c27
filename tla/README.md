# Formal model of the Stelis Host

Stelis lets a Host pay the gas of other people's Sui transactions. A client asks the Host to
*prepare* a transaction; the Host leases one of its sponsor addresses, builds the transaction,
and keeps it as a durable *receipt*. The client signs it and asks the Host to *sponsor* it; the
Host checks the bytes, signs as gas owner, submits, and accounts for the result. A *generic*
receipt settles on chain and repays the Host; a *Promotion* receipt is paid from a studio's
budget. Everything the Host processes share is in Redis, and each may die at any moment.

This directory holds TLA+ models of that system, TLC configurations that check them on small
instances, and TLAPS proofs of the core for every size. Paths below are relative to the
repository root; `core-api` is `src/packages/core-api/src`.

## Inventory

| Part | State it keeps | Operations | Interacts with |
|---|---|---|---|
| Receipt store, `core-api/store/redisSponsoredExecutionStore.ts` | prepared, execution and final record of a receipt; nonce keys; IP, user, sender, deadline and callback indexes | commit, begin, discard, finalize, reserve and release a nonce, recovery pages, delivery mark | one Lua script changes receipt, lease and Promotion records together |
| Sponsor pool, `store/redisSponsorPool.ts`, `sponsorLeaseProof.ts` | one lease record per sponsor address: reserved (with TTL), committed, executing | checkout, checkin, sign | read by the store to plan its transitions |
| Prepare session, `session/sponsoredExecution/runner.ts`, `reservations.ts` | what a request has acquired | acquire slot, nonce, ledger reservation; commit; release in reverse | store, pool, ledger, chain snapshot |
| Sponsor session, `sponsorRunner.ts`, `sessionPrimitives.ts` | progress of a request | read, check, begin, sign and submit, finalize or discard, deliver | store, pool, Sui RPC, result callback |
| Recovery, `store/sponsoredExecutionRecovery.ts` | none but its timer | discard expired receipts, close due executions, deliver callbacks | every Host process runs one |
| Promotion ledger, `studio/executionLedgerRedis.ts`, `promotionRecords.ts` | accounting of a Promotion, entitlement of a user, reservation or result of a receipt, deadline index | claim, reserve, consume, release, sweep, and the plans the store applies | store, Promotion store |
| Promotion store, `studio/promotionStore.ts` | Promotion records and status indexes | create, edit, transition, delete | ledger compares the whole record |
| Execution policies, `genericExecutionPolicy.ts`, `studioExecutionPolicy.ts` | per-request state | snapshot, build, checks, preflight, classification | relay, chain |
| Abuse blocker, rate limiters, in-flight limiter, `store/redis*.ts`, `failurePolicy.ts` | counters and blocks with TTL | admit, record, block | request admission |
| Sponsor operations, `app-api/src/sponsor-operations/` | spend record of the refill account, availability records, a lock | refill, reconcile, gate requests | chain, result callback |
| Relay, `core-relay/src/` | none | PTB validation, gas and price arithmetic | policies, SDK |
| Contracts, `contracts/move/sources/` | vault credit and nonce, protocol configuration with pending updates | settle, deposit, withdraw, configure, pause | the chain of everything above |
| SDK, MCP server, web, admin | client state | calls the Host | Host routes |

What is hard in it is not any one of these operations but their order: two sponsor requests for
one receipt; a commit or begin whose response is lost and which lands later; a lease or a nonce
that expires under a slow build and is handed to someone else; recovery closing an execution that
a slow request is still signing; the chain landing a transaction after the Host gave up on it.
`PROJECT.json` lists these hazards at their lines, with the properties that cover them.

## Modules

| Module | What it is |
|---|---|
| `SponsoredExecution` | Receipts, leases, nonces, prepare and sponsor requests, recovery, chain. Model, properties, inductive invariant, fairness |
| `ReceiptLifecycle` | The abstract specification: what a client, a studio and an auditor may rely on for one receipt |
| `MCSponsoredExecution` | Instances for TLC, and the states in which the system may stop |
| `SponsoredExecutionProofs` | Proof of the inductive invariant and of what follows from it |
| `SponsoredExecutionRefinement` | Proof that `SponsoredExecution` implements `ReceiptLifecycle` and keeps the reservation contract, and of the sender limit |
| `PromotionLedger` | Claims, reservations, budget and record of one Promotion. Model, properties, inductive invariant, fairness |
| `PromotionReservation` | The abstract specification: what the ledger and the receipt store promise each other of a reservation |
| `MCPromotionLedger`, `MCPromotionLoads` | Instances for TLC, and the states in which the ledger may stop |
| `PromotionLedgerProofs` | Proof of the inductive invariant `LedgerInv` |
| `PromotionLedgerTheorems` | What follows from it, the sums of the budget, and that `PromotionLedger` implements `PromotionReservation` |
| `AccountSpend` | Withdrawals and slot refills of the sponsor refill account: spend record, receipts, lock, workers, observers, chain |
| `SerialSpend` | The abstract specification: one spend at a time, each landing once at most |
| `MCAccountSpend` | Instances for TLC |
| `AccountSpendProofs`, `AccountSpendOutcomes` | Proof of the types; of the records and answers; of the balances; that `AccountSpend` implements `SerialSpend` |
| `Settlement` | The generic settlement: Move configuration and vaults, config cache, build, sponsor checks, execution |
| `MCSettlement`, `SettlementProofs` | Instances for TLC, and the proofs |
| `Admission` | Abuse blocks, failure counters, prepare requests in flight |
| `MCAdmission`, `AdmissionProofs` | Instances for TLC, and the proofs |

The modules meet where the code does. `SponsoredExecution` and `PromotionLedger` meet in
`PromotionReservation`: the first knows the reservation of a receipt and nothing of budgets; the second
knows the budget and, of the receipt store, only when it commits, begins, discards and finalizes. Each
implements the abstract module (`KeepsReservationContract`, `ImplementsReservation`): what one assumes of the
other is what the other does. `Settlement` says what is in the transaction whose receipt
`SponsoredExecution` keeps: there a check may fail and a transaction may succeed or abort, here it is
said which and why. `AccountSpend` and `Admission` share no record with the others.

### SponsoredExecution and the code

*Granularity.* One action is one Redis script, one Redis write, one signature, or one run of code
between two awaits. The TypeScript method that surrounds a script reads first, plans, and the
script compares the exact bytes of everything it read; a plan that is stale is refused. An action
therefore takes effect on the current state, and a refusal caused by a concurrent change of the
Promotion accounting is one of the failures the caller may meet anyway (`PrepCommitLost`,
`AttemptBeginLost`, and the crash actions, which leave all records as they were).

*State.* `stage[r]` says which of the three receipt records exists: the scripts keep them
exclusive. `result`, `callback` are fields of the final record. `lease[s]` is the lease record of a
sponsor address. `nonceKey[r]` is the reserved nonce, 0 if the key does not exist. The IP, user and
sender indexes are derived (`PreparedOfIp`, `PreparedOfUser`, `SenderIndex`), because each script
that writes a record writes its index entries too. `promo[r]` is the reservation of a receipt in
the ledger or its operation result. `prep`, `att`, `rcv` are the control states of prepare requests,
sponsor requests and recovery tasks; `seenNonce`, `slotOf`, `txNonce` what a prepare request has
read and written into its transaction. `chain`, `chainNonce` are the chain.

*Time.* A TTL, a deadline or an age may pass at any moment: `LeaseExpires`, `DeadlinePasses`, and the
choice of `old` reservations in `PrepReserveNonce`. No two durations are compared, so what holds
does so for every configuration of them.

*Lost calls.* A commit or begin whose response is lost goes into `commitInFlight` or
`beginInFlight` and is applied never or at any later moment, against the state of that moment. The
request continues with the code of its error path.

*Chain.* A signed transaction lands at most once, at any later moment or never, also after the Host
gave up. A generic transaction succeeds only with a nonce above the vault's
(`vault.move`, `check_and_advance_nonce`). A lookup may miss a transaction that has landed.

*Delivery.* A final result is handed to the Host's callback and then marked, by the request that
finalized it (`AttemptCallback`, `AttemptMark`) or by a recovery task that found it pending
(`RecoverPickCallback`, `RecoverCallback`, `RecoverMark`). The callback may fail, the mark may find that
somebody else has marked, and a task may die between any two of the three. `heard` is the environment's
side: the receipts whose result the callback has taken, perhaps more than once.

*Crashes.* `PrepCrash`, `AttemptCrash`, `RecoverCrash` end a control state anywhere and leave Redis.

*Left out of the data.* Bytes, hashes, HMAC proofs, amounts, error classes, logging. One Promotion
is modelled, so a user has at most one reservation. Which prepared receipt of an IP is the oldest is
left open: every one may be evicted.

### PromotionLedger and the code

*Granularity.* A method of `executionLedgerRedis.ts` reads with one or several commands, plans in
TypeScript and writes with one script. Every read and every script is an action, because the reads
are not one state: `ReserveStart`, `ReserveReadAccounting`, `ReserveReadEntitlement`,
`ReserveReadActive` and `ReserveConfirm` or `ReserveApply` are one `reserve`; `FinRead`, `FinCheck`,
`FinPlan`, `FinRecheck` and `FinApply` are one `release`, one entry of a sweep, one discard or one
finalization. A request carries what it has read (`acc`, `ent`, `promo`), and the script compares it
(`Unchanged`, `StillCurrent`, `ClaimMatches`, `ReserveMatches`, `FinMatches`).

*State.* `promotion`, `accounting`, `entitlement[u]`, `reservation[r]`, `result[r]` are the Redis records
of one Promotion with the fields the ledger computes with; `deadlines` is the reservation deadline
index, in order; `prepared` is the set of receipts whose prepared record exists, which protects their
reservation from the ledger's own releases. `claim`, `req`, `fin`, `adm` are claim and prepare requests,
tasks that end reservations, and requests of operators.

*Assertions.* The code checks every stored record when it decodes it and records against each other
when it uses them, and throws if they do not fit: `AccountingDecodes`, `EntitlementDecodes`, `Readable`,
`ReservationFits`. In the model an assertion that fails ends the request in a state of its own
(`torn`, `stale`, `executing`, `corrupt`), so that the runs can say which of them can fail.

*Inputs.* An execution may be charged any amount of `Charges`, below, at or above the reservation: the
ledger takes whatever the effects report (`computeExecutionCostClaim`), logs an overrun and has tests for
it, although Sui bounds gas by a budget that the studio policy sets to the reservation.

*Left out.* `consume`, which only tests call: production code consumes through the plan of
`prepareFinalization`. The branches of `reserve` for a receipt that already has its own reservation: a
receipt id is made by the request that reserves it. Expiry of a Promotion and of an entitlement, which
the handlers check before they call the ledger and which only refuse more. Status indexes and pages.

### AccountSpend and the code

Files: `packages/app-api/src/sponsor-operations/` (`accountSpend.ts`, `accountSpendState.ts`, `refillLock.ts`,
`redisState.ts`, `reconciliationScheduler.ts`).

*Granularity.* One action is one Redis script, one RPC read or one submission. `task[h]` is the worker of a
Host: its step `pc`, the spend it has read (`seen`), whether it holds the authorization of the request that
reserved it (`auth`), and what it has read since. The steps are grouped as in the code: taking a job
(`Deciding`, `Refills`), bringing a reserved spend to a signed one (`Preparing`), driving a signed one
(`Paying`) and writing what it did (`Reconciling`).

*State.* `spend` is the one active record of the account; its `serial` stands for the bytes of the
transaction that is built for it, so that two builds of the same operation differ. `receipt[n]` is what
is known of the withdrawal with nonce `n`. `acct` and `slot[s]` are the observations, a balance with the
sequence that the scripts compare. `lock` expires at any time (`LockExpires`), and so do receipts
(`ReceiptExpires`). `watch[o]` is a balance observer, of one slot, of the account, or of nothing.

*Chain.* `sent` is what was handed to the network, `chain` what landed, `view[e]` what endpoint `e`
knows of it. What is sent lands at most once, at any later moment or never. A submission may answer, time
out or be lost. What lands costs `Gas`, paid or reverted: the budget, of which the chain takes the whole here.

*Left out.* The queue and the timers of the scheduler: a job may start whenever the Host is idle. The
availability gate, which only refuses requests.

### Settlement and the code

Files: `packages/contracts/move/sources/` (`config.move`, `vault.move`, `settle.move`), `core-api/context.ts`
(`getConfig`), `core-api/prepare/` (build and planner), `session/sponsoredExecution/genericExecutionPolicy.ts`,
`hostChainState.ts`, and the checks and prices of `packages/core-relay/src/`.

*Granularity.* One action is one Move transaction, one read of the chain, one dry run, or one
check with what it decides. `req[r]` is a request from its snapshot to its outcome: the config and vault it
saw, its nonce, simulated gas, execution gap, the sealed transaction `tx`, and what was paid.

*Gas.* A dry run takes one of `Gases`, an execution anything up to the budget of the transaction, and one
that needs more aborts for it and costs the whole budget. Nothing ties it to the dry run: the gas price may
rise with the epoch, and `gasEstimate.ts:18-20` says that the Host then absorbs the loss. The budget is the
gross gas and a margin, capped by the claim bound. The model keeps gas net of the storage rebate, so `Margins`
stands for the rebate and the margin together. `gasPaid` is what the Host paid, also for an abort.

*Objects.* A vault is an owned object: a built transaction pins its version (`pin`), and the chain executes
it only at that version (`Lapse` is the refusal otherwise). The config is shared, and `settle` compares its
version. `published[v + 1]` records what was in force under version `v`; no action reads it.

*Arithmetic.* The claim, the required swap output, the slippage floor and the protocol's checks are
translated as they are, over naturals. What the market gives is chosen: a spread beyond the cap, too little,
or the minimum and a little more.

*Left out.* Coin selection and funding are one refusal (`NoFunding`). Decoding of transactions and the
command allowlist. The handover of the admin capability.

### Admission and the code

Files: `core-api/store/redisAbuseBlocker.ts`, `redisFixedWindowCounter.ts`, `redisPrepareInflight.ts`,
`abuseBlocking.ts`, `app-api/src/requestAdmission.ts`.

*Granularity.* One action is one script. Whoever writes a block reads the record and the index entry with
one script, decides, and writes with a second that compares both with what was read: `ReadBlock` and
`ApplyBlock`, `ReadForRemoval` and `Remove`, `SweepRead` and `SweepDelete`.

*Time* is explicit, since deadlines are compared with each other: `now` is the clock of Redis. `owed[i]` and
`longest[i]` are history: the deadlines that were acknowledged. No action reads them.

*Slots in flight.* A slot is an entry with the time it was taken, and whoever takes one prunes those
older than `SlotTtl` first. A build takes no notice of that: it goes on, without a slot. A request ends
`served` if it has given its slot back, and `leaked` if the acquisition's response or the release was lost or
its Host died: then the slot stays until it is pruned. `since` is when a request took its slot; no action reads it.

*Failures.* `StepsFor` is what a failure asks to record: both blocks of a manipulation, or the counters. A
step may be lost, refused for a concurrent change, or cut short by a crash; then the rest of the list is not
done, as in the code, which swallows the error. The table of failure codes is reduced to that.

### Properties

*Kind* says where a property is stated: checked by a run (*run*), proved for every size (*theorem*), or both.

Of `SponsoredExecution`:

| Property | Kind | Claim |
|---|---|---|
| `TypeOK` | run, theorem | shapes, and every nonce within u64 |
| `DurableReceiptIntact` | run, theorem | a prepared or executing receipt keeps the lease, the nonce or the reservation that its discard or finalization compares |
| `OutcomeIsOnChain` | run, theorem | a recorded on-chain outcome is the outcome on chain |
| `OneSigner` | run, theorem | at most one request gets past the begin of a receipt |
| `NonceReservationsDistinct` | run, theorem | live nonce reservations of a sender differ |
| `SenderWithinLimit` | run, theorem | the sender limit holds across both routes |
| `PromotionPays` | run, theorem | the ledger agrees with the receipt; gas spent, or that may be spent, is not refunded |
| `ImplementsLifecycle` | run, theorem | the whole implements `ReceiptLifecycle` |
| `KeepsReservationContract` | run, theorem | the receipt store implements `PromotionReservation` |
| `LeaseHasOwner` | theorem | a lease without TTL belongs to a durable receipt in the same stage; a reserved one to a receipt not yet committed |
| `UnsignedMeansUnsigned` | theorem | a receipt recorded as never signed is not signed, and never will be |
| `DeliveredWasHeard` | theorem | a result is marked only after the callback has taken it |
| `LifecycleForward` | theorem | receipts move forward only; a final record changes only in its delivery mark |
| `ReceiptBecomesFinal`, `SlotsComeBack` | run | recovery finishes every durable receipt and returns every slot whatever the requests do |
| `ResultIsDelivered` | run | the callback takes every final result and it is marked, though callbacks fail and tasks die before the mark |

Of `PromotionLedger`:

| Property | Kind | Claim |
|---|---|---|
| `TypeOK` | run, theorem | shapes, no amount below zero, every consumed sum within the ledger bound |
| `BudgetBalances` | run, theorem | the accounting record is the sum of outstanding reservations and of charges, and no budget is lost |
| `BudgetCoversAllowances` | run, theorem | the available budget covers every allowance given or still to be claimed, short only of what others were charged beyond theirs |
| `ReceiptKeepsReservation` | run, theorem | a prepared receipt keeps its reservation; the deadline index holds exactly what is reserved and not executing |
| `ClaimsWithinCapacity` | run, theorem | every claim is counted once and none is above capacity |
| `EconomicsFrozen` | run, theorem | once somebody has claimed, no edit, deletion or return to draft reaches the economics |
| `StoredRecordsReadable` | run, theorem | no reader of the stored records has a reason to call them corrupt |
| `ImplementsReservation` | run, theorem | the ledger implements `PromotionReservation` |
| `OverspentIsExhausted` | theorem | a user charged beyond the allowance is exhausted; any other has exactly the rest of it |
| `OneReservationPerUser` | theorem | a user has one outstanding reservation at most, and the entitlement names it |
| `ResultsAreFinal` | theorem | an operation result is written once, and its reservation does not come back |
| `UnusedReservationReturns` | run | a reservation that is not executed is released or discarded |
| `ExecutingIsConcurrent` | refuted | see *Findings* |

Of `AccountSpend`:

| Property | Kind | Claim |
|---|---|---|
| `TypeOK` | theorem | shapes, and that a worker has what its step needs |
| `InFlightIsRecorded` | run, theorem | what was handed to the network is the recorded spend, or has landed: none is forgotten and there are never two |
| `OutcomeIsOnChain` | run, theorem | a recorded outcome is what the chain did; what failed before its signature never reached the network |
| `NoncePaysOnce` | run, theorem | a withdrawal nonce pays once, whatever is retried and whatever has expired |
| `AnswerIsTrue` | run, theorem | what a withdrawal is told is what the chain did with it |
| `NoPhantomFunds` | run, theorem | the recorded balance is not above the account's while no spend is under way |
| `NoSlotOverfilled` | run, theorem | no slot is filled beyond its target |
| `RunwayKept` | run, theorem | what lands leaves the runway in the account |
| `PaysSerially` | run, theorem | the whole implements `SerialSpend` |
| `SpendEnds` | run | a spend under way is ended, whatever became of its request |

`NoPhantomFunds`, `NoSlotOverfilled` and `RunwayKept` are about one RPC endpoint; see *Findings* for two.

Of `Settlement`:

| Property | Kind | Claim |
|---|---|---|
| `TypeOK` | run, theorem | shapes, and the bounds that the contract keeps on the terms in force |
| `AgreedTermsPaid` | run, theorem | a settlement pays what was agreed when it was prepared, to the treasury of that version |
| `CreditConserved` | run, theorem | what swaps brought in is in the vault, paid, or withdrawn |
| `AbortsOnlyOnDrift` | run, theorem | what the Host signed fails on the chain only for the market, gas above the budget, a newer config version, or a vault registered meanwhile |
| `GasLossBounded` | run, theorem | a settlement whose gas rose since the dry run by no more than the variance pays the Host its gas and its fee; however far it rises, and also for an abort, the Host pays no more gas than the claim bound of the version agreed under |
| `PauseHolds` | run, theorem | after a pause nothing settles for two epochs |
| `WithdrawalIsServed` | refuted | see *Findings* |

Of `Admission`:

| Property | Kind | Claim |
|---|---|---|
| `BlockStands` | run, theorem | an acknowledged block stands until its deadline unless an operator removes it, and no reader finds contradicting entries |
| `AbuseIsBlocked` | run, theorem | a recorded manipulation has blocked address and subject; a counter above its threshold has led to a block |
| `InFlightBounded` | run, theorem | of the builds that began within one slot age of each other there are at most as many as the capacity; with older ones there may be more, see *Findings* |
| `OverloadIsReal` | run, theorem | who is refused for overload meets as many requests as the capacity that took a slot less than one slot age ago and still build, or leaked it |
| `TypeOK` | theorem | shapes |

### Runs and bounds

| Run | Instance | Question |
|---|---|---|
| `eviction` | loads: 2 generic receipts of one IP with room for one prepared, 2 slots, a sponsor request each; or 2 generic receipts and a Promotion one of one sender, limit 2, one slot, nonces 1..2 of which earlier settlements may have used one | can eviction, late commits, cleanup, expiry or compaction break a durable receipt? Can two reservations share a nonce, can a nonce leave u64, do two different enforcement points keep one limit? Also `ImplementsLifecycle` |
| `double_sponsor` | 2 Promotion receipts, 1 slot, 2 sponsor requests for the first, 2 recovery tasks | races of requests and recovery over one receipt; does the store keep its side of the reservation contract? Results stay undelivered |
| `liveness` | 1 Promotion receipt, 2 sponsor requests, the second after the first has ended or died, 2 recovery tasks, failing callbacks, fairness | does everything finish, is every result delivered? |
| `ledger_budget` | 2 users, 3 receipts reserving 1 and 2 of an allowance of 2, charges 0, 1, 3 | does the arithmetic of budget and allowances close? |
| `ledger_races` | loads: 1 user who prepares twice, 2 tasks that end reservations, charges 0 and 2 for 1 reserved; or 2 operators, 2 writes each, 2 allowances to choose from, 2 users for 1 place | can two endings, or an ending and a commit, contradict each other? Do edits, transitions, deletion and claims keep apart? |
| `ledger_liveness` | 2 users with a reservation each, a sweep of one entry, fairness | does every unused reservation come back? |
| `reserve_executing` | 1 user, 2 receipts | refutes what the code documents |
| `account_spend` | 2 Hosts, one account of 4 with gas 1 and runway 1, 2 spends; loads: a withdrawal and its retry beside an observer of the account and recovery; 2 refills of one slot beside an observer of the slot; one of each | does the account pay one spend at a time, each once, and are records, answers and balances what the chain did? |
| `account_liveness` | 1 Host that fails twice, a withdrawal, refills, a deposit, a slot that pays | does every spend end? |
| `settlement` | a user with a vault and credit 3 and one without; seven loads of one or two requests, withdrawals, updates, pauses, execution gaps, gas prices; budgets of the gas and up to 2 more | do prepared terms, credit and gas survive drift of config, vault and market? |
| `withdraw_first` | the user with credit, whose commands withdraw it | refutes what the code documents |
| `admission` | 3 requests of one address and two wallets, a sweep, an operator, time to 4, blocks of 1 and 2, one slot in flight that is pruned after 2; four loads | do blocks stand, is abuse blocked, does the limit hold, and does a leaked slot ever keep anybody out for good? |

*Loads.* Some runs explore several mixes of work without their product. The load is a state constraint
(`OneLoad` in the MC modules) over what is under way or was; a state that fits several loads is expanded for all
of them. In the three loads of `Settlement` with gas prices an execution takes any gas up to any budget; in
the other four nothing or all of a budget that has room. Nothing a load excludes is claimed to have been checked together with it.

The bounds make each conflict happen at its smallest: two receipts are enough to compete for a slot, a
client IP, a reservation and a nonce; three are needed for two nonces and a Promotion receipt under one
limit; two requests and two recovery tasks for every pair that can race over a receipt. A nonce range of
two puts the end of u64 in reach. The actions name at most two receipts (a request and the receipt it
evicts or competes with). In the ledger, a reservation of the whole allowance and a charge above it make
every balance reach zero and the clamp; a batch of one puts a protected reservation in front of an
unprotected one; two tasks are enough for every pair of endings, since a script names one receipt. In
`AccountSpend` two spends are what it takes for one to be overtaken by the next, and an account of 4
pays one of cost 2 and then a second only if the first was reverted: otherwise the runway blocks it. In
`Settlement` two versions are an update and one behind it, and three epochs are a queue, its delay and
its application, and budgets lie on both sides of the claim's gas. In `Admission` time 4 is twice the longest block and
twice the age of a slot. The proofs drop all of these bounds
for everything but liveness.

Deadlock is checked in all runs but `liveness`, `ledger_liveness` and the two of `Settlement`: `MCSpec` adds
a stuttering step only to the states `Terminated` describes, in which every request has ended and nothing is left
behind. A state in which something is left and nobody can act would be reported. `AccountSpend` and `Admission`
never stop: recovery and the sweep may always start. A `Settlement` stops when its requests are done and the
epochs are used up.

### Fairness

*`SponsoredExecution`* (`liveness`). Weak fairness: leases expire and deadlines pass. Strong fairness, per
receipt: if its expired prepared record, its due execution or its pending callback can be
picked by some recovery task again and again, some task picks it; if some task can discard, look up or
finalize it, have the callback take it or mark it again and again, some task does. A step that can fail
or be cut short may still do so any finite number of times, at every stage. The code justifies this by a timer in every Host process
that reads whole indexes, oldest first, page by page, and retries what failed on the next tick
(`sponsoredExecutionRecovery.ts:213-331`). What it assumes of the environment is that Host processes
do not crash, and Redis and Sui calls and the callback do not fail, every single time, and that each returns.
Being per receipt, it also assumes that no entry fails for ever: an exception of one entry ends the whole pass
(`sponsoredExecutionRecovery.ts:266`), and one that did so always would starve those behind it. The hazard is
listed without a property. No request is assumed to make
progress, nothing in flight to land, and the chain to execute anything.

*`PromotionLedger`* (`ledger_liveness`). A task goes on with what it began (weak), starts
a sweep whenever it can start one again and again, and a discard of a prepared receipt likewise
(strong): both are on timers (`executionLedgerRedis.ts:1129`, `sponsoredExecutionRecovery.ts`). Tasks do
not die for ever. A sweep may be started that finds only a part of the index overdue; the strong
fairness is for the one that finds all of it, since deadlines pass.

*`AccountSpend`* (`account_liveness`). A Host starts the recovery of a spend that it can start again and again
(strong, per Host: the periodic job of `reconciliationScheduler.ts:388-401`); a worker goes on with its work,
whose waits have timeouts (weak); a submission that is tried again and again reaches the network once (strong); an
endpoint catches up and something sent lands (weak). Faults are at most two (`MaxFaults`): a Host that always dies
ends nothing. No request is assumed to be repeated.

## Proofs

All proofs are checked by TLAPS and hold for any number of receipts, slots, users, requests and
processes. They assume only what the modules assume of their constants:

| Module | Assumptions |
|---|---|
| `SponsoredExecution` | `IdentityAssumption` (every receipt has a sender, IP, user and mode, every sponsor request a receipt), `LimitAssumption` (limits are positive), `StartAssumption` (the nonces on chain at first are u64); for the sender limit `ReceiptsFinite` |
| `PromotionLedger` | `IdentityAssumption` (every receipt and claim has a user; users are finite), `AmountAssumption` (reserved amounts and allowances are positive, as the code asserts) |
| `AccountSpend` | `SpendAssumption` (amounts are positive, balances and costs natural, names of different kinds differ). The theorems about balances add `OneEndpoint`, and that of the slots `RoomAtStart` (no slot begins above its target), as hypotheses |
| `Settlement` | `SettlementAssumption` (terms, fees, gas and quotes are naturals, the first terms are valid, a user without a vault has nothing in it) |
| `Admission` | `DurationAssumption` (durations, capacity and slot age are positive), `IdentityAssumption` (an address is not a subject) |

None is about a particular charge, budget, fee, amount or duration.

### SponsoredExecution

*Inductive invariant.* No safety property above is inductive by itself. `SafetyInv` adds five facts
about what somebody knows while others act:

- `PrepareKnowsReceipt`: until a request sends its commit its receipt has no durable record, and until
  its checkout no slot. It is why a late commit finds the receipt absent or refuses.
- `FinalRecordComplete`: result, delivery mark and Promotion result exist exactly with the final
  record and agree.
- `SignerKnowsReceipt`: nothing is signed for an absent or prepared receipt, and a request past its
  begin finds the receipt executing, or closed by somebody else with an outcome that does not exclude
  its signature. It is why a slow request that signs after recovery closed its execution does no
  harm: recovery never closes an execution as unsigned.
- `DeliveredWasHeard`: whoever is about to mark a result, request or task, has seen the callback take it.
- `RecoveryKnowsReceipt`: what a recovery task looked up is still true when it writes it, because
  on-chain outcomes do not change.

*Argument.* Every action is one of a few kinds of store transition (`StoreStep` in
`SponsoredExecutionProofs`: commit, begin, discard, finalize, mark, acquire, release, expire, none).
The store invariants are proved once per kind. The lemma `OthersIntact` carries the receipts that
a transition does not name: leases of different receipts are different records. `SignStep`
then goes through the requests and recovery tasks, and `TypeStep` through the types.

*Sender limit.* An argument about cardinalities: an index grows by one receipt at most, and only in steps
that saw room.

*Refinements.* `ImplementsLifecycle` maps each kind of store transition, each signature and each landing
to one step of `ReceiptLifecycle`. `KeepsReservationContract` needs one more invariant, `ReservesOnce`:
a request that has not come to its reservation has nothing in the ledger, so a receipt is reserved once.
Then commit, begin, discard and finalize are the four steps of the contract by these names, a
reservation and its release are the ledger's, and no other step moves either of the two: what protects a
reservation is the prepared record of its receipt and nothing else.

### PromotionLedger

*Inductive invariant.* `OneReservationPerUser`, `ReceiptKeepsReservation` and `EconomicsFrozen` are not
inductive: they say nothing of a request that is about to write. A script compares the records with
what its request has read, so it is enough to say what the request knows of its own copy, which nobody
else can change. `LedgerInv` adds that (`RequestsKnow`):

- `ClaimKnows`: the Promotion it read was active, there was a place left, and the accounting it read, if
  there was one, has the allowance of that Promotion.
- `ReserveKnows`: nothing was ever reserved for the receipt, and both balances cover the amount. A receipt
  is reserved by one request, so no other can make this false.
- `FinishKnows`: the reservation fits the records that were read and the sums stay within the bound; only
  a finalization consumes, and a release charges nothing.

*Argument.* `LedgerStep`: the stored records change in six ways only (an edit, a claim, a reserve, a
commit, a begin, an ending). `ClaimFacts`, `ReserveFacts` and `FinishFacts` carry what the request knows
over to the records themselves, through the comparison. Each part of the invariant then has one case
for each of the six; the deadline index needs that a sequence without one of its entries keeps the
others (`RemoveAtKeepsOthers`). `OverspentIsExhausted` and `ClaimsWithinCapacity` are inductive on top of
`LedgerInv`, the first by the arithmetic of `Left`, the second by counting the users who claimed.

*Sums.* The budget is a sum over users and receipts, and a sum over a set is a recursion that the
provers cannot unfold. `TotalOf` is stated as a cardinality instead: an amount is a set of units, tagged
by who owes it, and a sum is the number of them. A reserve adds the units of one receipt, an ending
removes them or moves as many to what was charged, and the theorems about finite sets count them.
`Budget` is then inductive; `BudgetCoversAllowances` counts in the same way what the users have left,
the places nobody has claimed, and what was charged beyond an allowance. `StoredRecordsReadable` follows
from both with `Blank` (who has not claimed has no record), `Decodes` (every entitlement passes its
decoder) and `Priced` (a Promotion that exists has an allowance).

### AccountSpend

*Inductive invariant.* `RecordInv` relates the current spend, the receipts, what was sent and the chain. The
four properties of it are not inductive, since a worker writes what it read long ago, without the lock if that has
expired. `TaskInv` says what a worker may rely on: the operation of the spend it read was accepted, so it never gets
a second transaction; if the record still names the operation, it is the same transaction; and the
transaction of a worker that drives a signed spend has landed or is still the recorded one. This is why recovery may
ignore the lock.

*Argument.* The steps that change the world are few: `ChangedSpend` (the scripts), an acceptance, a submission, a
landing, the expiry of a receipt. Each keeps `RecordInv` and `TaskInv` of every other worker. All other steps
change one worker, who learns what `RecordInv` says of what it reads.

*Balances.* `FInv` says how far a balance that somebody carries may be from the account's. With one
endpoint, what a view hides is the signed spend at most; a balance read beside a spend is not above the
account's once that spend has landed; and a script writes it only if the spend and the sequence of the
observation are still those it was read beside. A slot rises only by the refill whose acceptance moved
the sequence of its observation on, so a second refill that was computed of the same shortage is
refused.

### Settlement

*Inductive invariant.* `IInv` adds to the properties what a request carries through changes of the
world: what it read of the config are the terms of that version (`VersionsOK`, `CacheOK`); queued terms
have passed the contract's checks (`QueueOK`); who has no vault has nothing in it (`VaultsOK`); a pause
is old enough or stands with no earlier unpause queued (`PauseOK`); and a sealed transaction fits the
terms of its version, and while the vault is at the version it pins, the vault can honour it
(`SealedOK`).

*Argument.* A step of the chain only *grows* the world: versions are added, registrations stay, a
vault that changes moves its pin (`Grows`). What a request knows is kept by growth (`RequestKept`), once for all
requests that take no part in a step. The rest is the arithmetic of the planner: that the
input of a settlement covers its costs at the least output it accepts, that the claim covers the dry run's gas with
its variance, and that no budget is above the claim bound (`BudgetOK`, kept by every step as what is sealed).

### Admission

*Inductive invariant.* Record and index entry of a block are written and deleted together and cover what was
acknowledged (`Agreement`); of the blocks that a manipulation asks for, those no longer on the
request's list are done (`Recorded`); a counter above its threshold has led to a block, or a
request is about to set it from a snapshot that is not older than the window, or was stopped (`CountersLead`);
who builds has the slot it took at `since` or is older than the age at which slots are pruned; and whoever
has a slot builds or leaked it (`InFlight`).

*Argument.* A script that compares both entries acts on a state equal to its snapshot, so whatever was decided
of the snapshot holds of the state; a decision never shortens a block. Slots are counted with
the theorems about cardinality.

### What is only model-checked

Liveness (`ReceiptBecomesFinal`, `ResultIsDelivered`, `SlotsComeBack`, `UnusedReservationReturns`,
`SpendEnds`): TLAPS does not reason about fairness here. Deadlock freedom, for the same reason. Every
invariant and every other action property that a run checks is stated by a theorem.

## Findings

- `ExecutingIsConcurrent` (run `reserve_executing`). `reserve` is documented to answer a user who has a
  reservation with `concurrent_reservation` (`executionLedger.ts:212`). It does so until the earlier
  receipt executes. Then the deadline is no longer in the reservation index, `readReceiptState`
  (`executionLedgerRedis.ts:1638`) calls the record inconsistent, and the request ends with
  `PromotionRecordCorruptionError` although nothing is corrupt.
- `WithdrawalIsServed` (run `withdraw_first`). A user "must always be able to withdraw even within a sponsored
  execution PTB (e.g. withdraw + settle in the same PTB)" (`validate/static.ts:111-112`). The settle call is
  appended with the credit of the snapshot (`settlementPlanner.ts:172`), which the withdrawal before it has taken
  (`vault.move:119-124`), so its dry run aborts (`vault.move:93`) and the request is refused.

Observations, which no run of its own shows:

- `PrepareInflightLimiter` "bounds the number of concurrent prepare operations" (`prepareInflightTypes.ts:4`). An
  acquisition counts only the slots younger than the slot age (`redisPrepareInflight.ts:71`), and no build is ended
  at that age, so slow builds and new ones may together be more than the capacity. `InFlightBounded` says what
  does hold.

- The nonce reservation is documented as "Sender-scoped monotonic" (`reservations.ts:227`). The begin of an
  execution deletes it before the transaction lands, so a prepare request with an older chain snapshot gets the
  same nonce. The chain accepts only one of the two.
- `reserve` reads accounting and entitlement with two commands (`executionLedgerRedis.ts:1524-1528`) and asserts
  over them as one state. A claim or a reservation that lands in between is reported as corruption (the
  end `torn` of the model). `StoredRecordsReadable` shows that the stored records themselves are
  consistent at every moment.
- The available budget is documented as "total - reserved - consumed" (`studio/domain.ts:114`). A charge beyond
  the available budget is clamped and forgotten, so a later release makes budget available that was spent.
  `BudgetBalances` and `BudgetCoversAllowances` say what holds instead.
- A release whose reservation the sweep ends between its first two reads throws a mismatch
  (`executionLedgerRedis.ts:1863`), where `finalize` handles the same race one read later as a retry
  (`1884-1900`). The model has that end as the state `stale`; no record is touched.
- With two RPC endpoints (`Endpoints = {e1, e2}`) `NoPhantomFunds`, `NoSlotOverfilled` and `RunwayKept` fail: a
  balance may be read at an endpoint that does not know the spend which another has confirmed.
- A config read in flight is reused by `getConfig` after an invalidation, although `context.ts:786-788` says
  otherwise; the next check refuses the request.
- An abort for a newer config version at preflight is counted against the user's address
  (`failures.ts`, `ADDRESS_CARVE_OUT_SUBCODES`), although `failurePolicy.ts:416-420` calls it not user-driven.
- `setBlock` gives up after two concurrent changes. Its error is swallowed, as documented; a conflict on the
  address also skips the block of the subject.
- Completing or failing a spend returns any terminal record that is read afterwards
  (`accountSpendState.ts:974-977`, `1036-1037`); the timer of a refill's retry dies with its Host, and the periodic
  job stands in for it.

## Plan

In order of what matters to money and liveness. Done: `SponsoredExecution`, `PromotionLedger`, `AccountSpend`,
`Settlement`, `Admission` with their abstract specifications, runs and proofs. Next:

1. A specification over all of a receipt's budget: that gas paid by the Host is repaid by a settlement or charged
   to a Promotion, as a composition of `ReceiptLifecycle`, `PromotionReservation` and `Settlement`.
2. `SponsoredExecution` with several Promotions per user, for the per-user limit.
3. Pricing operators (`core-relay/src/gasEstimate.ts`): rounding and caps, with lemmas on their bounds.
4. `SponsorIntegrity`: the comparison the SDK makes between what it asked for and what it signs.

## Not modelled, and why

- The in-memory stores: single-process twins of the Redis stores for tests. The repository's conformance
  tests compare the two; what is hard in the Redis ones does not happen in them.
- HTTP routes, boot, configuration, admin authentication, audit log: wiring and input validation with
  hardly any state.
- BCS parsing, PTB construction, signatures, DeepBook quotes, Sui RPC: external or pure data. The models
  keep their outcomes (a check may fail, a lookup may miss, a transaction may land).
- The scheduler of sponsor operations: its queue, timers and merging of triggers. `AccountSpend` lets a job start
  at any time, and its fairness is what the periodic job gives.
- Web and admin applications, MCP server, SDK: user interfaces and clients of the Host.
