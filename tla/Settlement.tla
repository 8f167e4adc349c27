----------------------------- MODULE Settlement -----------------------------
(* The generic settlement, end to end: the Move package (config, vault and   *)
(* settle), the Host's cached view of the on-chain config, the planner and   *)
(* build pipeline of /prepare, and the checks of /sponsor up to the          *)
(* transaction's execution.                                                  *)
(*                                                                           *)
(* A request is prepared against a snapshot of the config and of the user's  *)
(* vault, may be sponsored much later, and executes later still; the admin   *)
(* changes the config and the user withdraws at any moment in between.  A    *)
(* vault is an owned object: a built transaction pins its version, and the   *)
(* chain executes it only while that version is the vault's.  Every dry run  *)
(* executes the settle call itself on the chain's present state.             *)
(*                                                                           *)
(* Amounts are small naturals.  The market is what a dry run or an execution *)
(* meets: a spread beyond the cap, an output below the minimum, or the       *)
(* minimum and a little more.  Receipts, sponsor slots and the durable       *)
(* outcome are SponsoredExecution's.                                         *)
EXTENDS Integers, Sequences

CONSTANTS Requests, Users, UserOf,   \* who asks for which settlement
          InitialTerms, Terms,       \* fee terms in force at first, and the admin's choices
          Treasuries, Genesis,       \* protocol treasuries, and the first of them
          InitialVaults,             \* the vaults that exist at first
          WithdrawChoices,           \* may a user's PTB begin with vault::withdraw
          HostFee,                   \* the Host's quoted fee (HOST_FEE_MIST)
          Gases, Variance,           \* simulated gas, GAS_VARIANCE_FIXED_MIST
          Margins,                   \* gas budget beyond the gas: rebate and margin
          Gaps, ToleranceBps,        \* execution gaps, CONVERGENCE_TOLERANCE_BPS
          Slacks, Tolerance,         \* quote beyond the target; slippage floor below it
          Improvements,              \* output beyond the minimum at execution
          MaxEpoch, MaxVersion,      \* bounds of the checked instance
          None                       \* nothing read yet

Delay == 2

Variants == {"new_user", "with_vault", "credit"}

IsTerms(t) == /\ t \in [hostCap : Nat, protocolFee : Nat, maxClaim : Nat, minSettle : Nat]

\* update_config's asserts: the claim bound is positive, dust stays below it, and
\* both fees together fit in it.
ValidTerms(t) == /\ t.maxClaim > 0
                 /\ t.minSettle > 0 /\ t.minSettle <= t.maxClaim
                 /\ t.hostCap + t.protocolFee <= t.maxClaim

Vaults == [registered : BOOLEAN, credit : Nat, lastNonce : Nat, pin : Nat]
NewVault == [registered |-> FALSE, credit |-> 0, lastNonce |-> 0, pin |-> 0]

ASSUME SettlementAssumption ==
    /\ UserOf \in [Requests -> Users]
    /\ IsTerms(InitialTerms)
    /\ \A t \in Terms : IsTerms(t)
    /\ ValidTerms(InitialTerms)
    /\ Genesis \in Treasuries
    /\ InitialVaults \in [Users -> Vaults]
    /\ \A u \in Users : InitialVaults[u].registered \/ InitialVaults[u] = NewVault
    /\ WithdrawChoices \subseteq BOOLEAN
    /\ HostFee \in Nat /\ Variance \in Nat /\ Tolerance \in Nat /\ ToleranceBps \in Nat
    /\ Gases \subseteq Nat /\ Margins \subseteq Nat /\ Gaps \subseteq Nat
    /\ Slacks \subseteq Nat /\ Improvements \subseteq Nat
    /\ MaxEpoch \in Nat /\ MaxVersion \in Nat

VARIABLES
    config,     \* the shared Config object
    epoch,      \* the chain's epoch
    vault,      \* UserVault and its registry entry, per user
    cache,      \* the Host's config cache and its one in-flight read
    req,        \* the requests
    \* history, which no action reads
    published,  \* what was in force under each config version
    books,      \* what each user has put in, paid and withdrawn
    pausedAt    \* the epoch of the last set_paused(true), None before it

vars == <<config, epoch, vault, cache, req, published, books, pausedAt>>
chain == <<config, epoch, vault, published, books, pausedAt>>

-----------------------------------------------------------------------------
(* config.move *)

InForce == [terms |-> config.terms, treasury |-> config.treasury, paused |-> config.paused]

Update(value) == [value |-> value, apply |-> epoch + Delay]
Queued(u) == u # None
Ripe(u) == Queued(u) /\ epoch >= u.apply

\* A change of what is in force begins a version.
Begin(c) == /\ config.version < MaxVersion
            /\ config' = [c EXCEPT !.version = @ + 1]
            /\ published' = Append(published, [terms |-> c.terms, treasury |-> c.treasury,
                                               paused |-> c.paused])

\* As a bug would have it, an unpause that was queued survives the next pause.
PauseKeepsQueue ==
    /\ IF ~config.paused THEN Begin([config EXCEPT !.paused = TRUE])
                          ELSE UNCHANGED <<config, published>>
    /\ pausedAt' = epoch
    /\ UNCHANGED <<epoch, vault, cache, req, books>>

\* set_paused(true): at once, and an unpause that was queued is dropped.
Pause == LET dropped == Queued(config.pendingPause)
             c == [config EXCEPT !.paused = TRUE, !.pendingPause = None]
         IN /\ IF ~config.paused \/ dropped THEN Begin(c)
                                            ELSE UNCHANGED <<config, published>>
            /\ pausedAt' = epoch
            /\ UNCHANGED <<epoch, vault, cache, req, books>>

\* set_paused(false): queued, and applied by anyone once its epoch has come.
QueueUnpause == /\ ~Queued(config.pendingPause)
                /\ config.paused
                /\ config' = [config EXCEPT !.pendingPause = Update(FALSE)]
                /\ UNCHANGED <<epoch, vault, cache, req, published, books, pausedAt>>

ApplyUnpause == /\ Ripe(config.pendingPause)
                /\ Begin([config EXCEPT !.paused = config.pendingPause.value,
                                        !.pendingPause = None])
                /\ UNCHANGED <<epoch, vault, cache, req, books, pausedAt>>

QueueTreasury(t) == /\ ~Queued(config.pendingTreasury)
                    /\ t # config.treasury
                    /\ config' = [config EXCEPT !.pendingTreasury = Update(t)]
                    /\ UNCHANGED <<epoch, vault, cache, req, published, books, pausedAt>>

\* As a bug would have it, a new treasury is not a new version.
ApplyTreasuryQuietly ==
    /\ Ripe(config.pendingTreasury)
    /\ config' = [config EXCEPT !.treasury = config.pendingTreasury.value,
                                !.pendingTreasury = None]
    /\ UNCHANGED <<epoch, vault, cache, req, published, books, pausedAt>>

ApplyTreasury == /\ Ripe(config.pendingTreasury)
                 /\ Begin([config EXCEPT !.treasury = config.pendingTreasury.value,
                                         !.pendingTreasury = None])
                 /\ UNCHANGED <<epoch, vault, cache, req, books, pausedAt>>

\* As a bug would have it, terms are queued unchecked.
QueueAnyTerms(t) == /\ ~Queued(config.pendingTerms)
                    /\ t # config.terms
                    /\ config' = [config EXCEPT !.pendingTerms = Update(t)]
                    /\ UNCHANGED <<epoch, vault, cache, req, published, books, pausedAt>>

QueueTerms(t) == /\ ~Queued(config.pendingTerms)
                 /\ ValidTerms(t)
                 /\ t # config.terms
                 /\ config' = [config EXCEPT !.pendingTerms = Update(t)]
                 /\ UNCHANGED <<epoch, vault, cache, req, published, books, pausedAt>>

ApplyTerms == /\ Ripe(config.pendingTerms)
              /\ Begin([config EXCEPT !.terms = config.pendingTerms.value,
                                      !.pendingTerms = None])
              /\ UNCHANGED <<epoch, vault, cache, req, books, pausedAt>>

\* The three cancel functions.
Updates == {"pendingTerms", "pendingTreasury", "pendingPause"}

Cancel(field) == /\ Queued(config[field])
                 /\ config' = [config EXCEPT ![field] = None]
                 /\ UNCHANGED <<epoch, vault, cache, req, published, books, pausedAt>>

NextEpoch == /\ epoch < MaxEpoch
             /\ epoch' = epoch + 1
             /\ UNCHANGED <<config, vault, cache, req, published, books, pausedAt>>

Admin == \/ Pause \/ QueueUnpause \/ ApplyUnpause
         \/ \E t \in Treasuries : QueueTreasury(t)
         \/ \E t \in Terms : QueueTerms(t)
         \/ ApplyTreasury \/ ApplyTerms
         \/ \E field \in Updates : Cancel(field)

-----------------------------------------------------------------------------
(* vault.move and settle.move *)

\* withdraw and withdraw_amount, in a transaction of the user's own.
Withdraw(u, amount) ==
    /\ vault[u].registered
    /\ amount > 0 /\ amount <= vault[u].credit
    /\ vault' = [vault EXCEPT ![u].credit = @ - amount, ![u].pin = @ + 1]
    /\ books' = [books EXCEPT ![u].withdrawn = @ + amount]
    /\ UNCHANGED <<config, epoch, cache, req, published, pausedAt>>

\* What the market may do to a transaction: only a swap meets it.
Markets(t) ==
    IF t.variant = "credit"
    THEN {[book |-> "filled", out |-> 0]}
    ELSE [book : {"wide", "short"}, out : {0}]
           \cup [book : {"filled"}, out : {t.minOut + more : more \in Improvements}]

\* settle_core's asserts, in their order.
CoreAbort(t, total) ==
    LET fees == config.terms IN
    IF config.paused THEN "EPaused"
    ELSE IF t.claim > fees.maxClaim THEN "EClaimTooHigh"
    ELSE IF t.variant # "credit" /\ total < fees.minSettle THEN "ETotalInTooLow"
    ELSE IF config.version # t.version THEN "EConfigVersionMismatch"
    ELSE IF fees.protocolFee # t.protocolFee THEN "EProtocolFeeMismatch"
    ELSE IF t.hostFee > fees.hostCap THEN "EHostFeeCapExceeded"
    ELSE IF total < t.claim + t.hostFee + fees.protocolFee THEN "EInsufficientFunds"
    ELSE "none"

\* The credit a settlement finds: a PTB that withdraws first has emptied it.
CreditLeft(t, u) == IF t.withdraws THEN 0 ELSE vault[u].credit

\* The abort of an entry function for user u, "none" when it completes.
Abort(t, u, m) ==
    IF t.withdraws /\ vault[u].credit = 0 THEN "EInsufficientBalance"
    ELSE IF t.variant # "new_user" /\ ~vault[u].registered THEN "EVaultNotRegistered"
    ELSE IF m.book = "wide" THEN "ESpreadTooWide"
    ELSE IF t.use > CreditLeft(t, u) THEN "EInsufficientBalance"
    ELSE IF m.book = "short" THEN "EMinimumQuantityOutNotMet"
    ELSE IF t.variant = "new_user" /\ vault[u].registered THEN "EVaultAlreadyRegistered"
    ELSE IF t.nonce <= vault[u].lastNonce THEN "EReplayNonce"
    ELSE CoreAbort(t, t.use + m.out)

\* settle_core's split of the coin it is given, and what is left of it.
Payout(t) == t.claim + t.hostFee
\* As a bug would have it, the protocol fee stays in the vault's surplus as well.
SurplusWithFee(t, total) == total - Payout(t)
Surplus(t, total) == total - (Payout(t) + config.terms.protocolFee)

\* An entry function that completes: the vault is created when it is missing, its
\* nonce advances, the credit is taken and the surplus joins it.
Settle(t, u, m) ==
    LET withdrawn == vault[u].credit - CreditLeft(t, u)
    IN /\ vault' = [vault EXCEPT ![u] =
                       [registered |-> TRUE,
                        credit |-> CreditLeft(t, u) - t.use + Surplus(t, t.use + m.out),
                        lastNonce |-> t.nonce,
                        pin |-> @.pin + 1]]
       /\ books' = [books EXCEPT ![u] =
                       [deposited |-> @.deposited + m.out,
                        charged |-> @.charged + Payout(t) + config.terms.protocolFee,
                        withdrawn |-> @.withdrawn + withdrawn]]

\* Only a transaction whose owned vault is at the version it was built with can
\* be executed, or simulated.
Current(t, u) == t.variant = "new_user" \/ t.pin = vault[u].pin

-----------------------------------------------------------------------------
(* The Host's config cache: a TTL, an invalidation and one read in flight    *)
(* (context.ts getConfig).  A request that finds a read in flight waits for  *)
(* that one.                                                                 *)

OnchainConfig == [terms |-> config.terms, version |-> config.version]

\* getConfig: what it does to a cache c that may have been invalidated.
GetConfig(c) == IF c.fresh \/ c.fetch # "none" THEN c ELSE [c EXCEPT !.fetch = "sent"]

Waiting(r) == \/ req[r].pc = "reading" /\ req[r].config = None
              \/ req[r].pc = "revalidating"

FetchReads == /\ cache.fetch = "sent"
              /\ cache' = [cache EXCEPT !.fetch = "read", !.got = OnchainConfig]
              /\ UNCHANGED <<chain, req>>

FetchReturns ==
    /\ cache.fetch = "read"
    /\ cache' = [config |-> cache.got, fresh |-> TRUE, fetch |-> "none", got |-> None]
    /\ req' = [r \in Requests |->
                 IF ~Waiting(r) THEN req[r]
                 ELSE IF req[r].pc = "reading" THEN [req[r] EXCEPT !.config = cache.got]
                 ELSE [req[r] EXCEPT !.pc = "checking", !.fresh = cache.got]]
    /\ UNCHANGED chain

FetchFails ==
    /\ cache.fetch # "none"
    /\ cache' = [cache EXCEPT !.fetch = "none", !.got = None]
    /\ req' = [r \in Requests |->
                 IF Waiting(r) THEN [req[r] EXCEPT !.pc = "refused", !.cause = "ChainReadFailed"]
                               ELSE req[r]]
    /\ UNCHANGED chain

TtlPasses == /\ cache.fresh
             /\ cache' = [cache EXCEPT !.fresh = FALSE]
             /\ UNCHANGED <<chain, req>>

-----------------------------------------------------------------------------
(* Planner (settlementPlanner.ts)                                            *)

Greater(a, b) == IF a > b THEN a ELSE b

\* The input a settlement of this claim needs under fees: its cost, or the dust bound.
Need(fees, claim) == Greater(claim + HostFee + fees.protocolFee, fees.minSettle)

CreditCovers(r, claim) == /\ req[r].seen.registered
                          /\ req[r].seen.credit >= Need(req[r].config.terms, claim)

\* calculateRequiredSwapOutput
RequiredSwapOutput(r, claim) ==
    LET need == Need(req[r].config.terms, claim)
        credit == req[r].seen.credit
    IN IF need > credit THEN need - credit ELSE 0

\* solveExecutableSwap: the verified output of the quote covers the target.
Quotes(target) == {target + slack : slack \in Slacks}

\* As a bug would have it, the slippage floor alone bounds the output.
SlippageFloor(required, verified) ==
    IF verified > Tolerance THEN verified - Tolerance ELSE 0

\* calculateSwapOutputGuards: the slippage floor of the verified quote, never below
\* what the settlement requires.
MinSuiOut(required, verified) ==
    Greater(required, IF verified > Tolerance THEN verified - Tolerance ELSE 0)

\* The settle call appended to the user's commands, over the vault object of now.
Call(r, variant, use, minOut, claim, buffer, budget) ==
    [variant |-> variant, use |-> use, minOut |-> minOut, claim |-> claim,
     buffer |-> buffer, budget |-> budget, hostFee |-> HostFee,
     protocolFee |-> req[r].config.terms.protocolFee, version |-> req[r].config.version,
     nonce |-> req[r].nonce, withdraws |-> req[r].withdraws, pin |-> vault[UserOf[r]].pin]

CreditCall(r, claim, budget) ==
    Call(r, "credit", Need(req[r].config.terms, claim), 0, claim, 0, budget)

SwapCall(r, claim, buffer, verified, budget) ==
    Call(r, IF req[r].seen.registered THEN "with_vault" ELSE "new_user",
         req[r].seen.credit, MinSuiOut(RequiredSwapOutput(r, claim), verified), claim, buffer,
         budget)

\* validateSettleArgs (L2) of a call against a config read from the chain.
SettleArgsValid(t, c) == /\ t.claim <= c.terms.maxClaim
                         /\ t.hostFee <= c.terms.hostCap
                         /\ t.protocolFee = c.terms.protocolFee
                         /\ t.version = c.version
                         /\ t.variant = "credit" => t.buffer = 0

-----------------------------------------------------------------------------
(* /prepare: chain snapshot, nonce, and the build pipeline                   *)

Idle == [pc |-> "idle", withdraws |-> FALSE, config |-> None, seen |-> None, nonce |-> 0,
         path |-> None, gas |-> 0, gap |-> 0, tx |-> None, fresh |-> None,
         simulated |-> 0, cause |-> "none", paid |-> None, gasPaid |-> 0]

Done == {"settled", "aborted", "expired", "refused"}

\* Every failure of a phase ends the request with what it was.
Refuse(r, why) == req' = [req EXCEPT ![r] = [Idle EXCEPT !.pc = "refused", !.cause = why,
                                                         !.withdraws = req[r].withdraws]]

\* The two reads of runGenericChainSnapshot start together: the config through the
\* cache, the credit from the chain.
StartPrepare(r) ==
    /\ req[r].pc = "idle"
    /\ \E withdraws \in WithdrawChoices :
         /\ withdraws => vault[UserOf[r]].registered
         /\ req' = [req EXCEPT ![r].pc = "reading", ![r].withdraws = withdraws,
                               ![r].config = IF cache.fresh THEN cache.config ELSE None]
    /\ cache' = GetConfig(cache)
    /\ UNCHANGED chain

ReadCredit(r) ==
    /\ req[r].pc = "reading" /\ req[r].seen = None
    /\ req' = [req EXCEPT ![r].seen = [registered |-> vault[UserOf[r]].registered,
                                       credit |-> vault[UserOf[r]].credit,
                                       lastNonce |-> vault[UserOf[r]].lastNonce]]
    /\ UNCHANGED <<chain, cache>>

\* Nonces of the user that a request holds, and the last one seen on the chain.
Taken(r) == {req[r].seen.lastNonce}
            \cup {req[q].nonce : q \in {p \in Requests : /\ UserOf[p] = UserOf[r]
                                                        /\ req[p].pc \notin Done}}

\* reserveNonce, and the profile the pipeline starts from.
ReserveNonce(r) ==
    /\ req[r].pc = "reading" /\ req[r].seen # None /\ req[r].config # None
    /\ \E last \in Taken(r) :
         /\ \A n \in Taken(r) : n <= last
         /\ req' = [req EXCEPT ![r].nonce = last + 1,
                               ![r].pc = IF req[r].seen.registered THEN "probing"
                                                                   ELSE "measuring"]
    /\ UNCHANGED <<chain, cache>>

\* dryRunPreSwapCreditPathCosts: simulate a credit settlement of the largest claim the
\* credit covers, and keep that path when the credit covers the measured claim too.
CreditProbe(r) ==
    LET maxClaim == req[r].config.terms.maxClaim
        seeds == {c \in 0..maxClaim : CreditCovers(r, c)}
    IN /\ req[r].pc = "probing"
       /\ \/ seeds = {} /\ req' = [req EXCEPT ![r].pc = "measuring"]
          \/ \E seed \in seeds :
               LET abort == Abort(CreditCall(r, seed, maxClaim), UserOf[r],
                                  [book |-> "filled", out |-> 0])
               IN /\ \A c \in seeds : c <= seed
                  /\ \/ abort # "none" /\ Refuse(r, abort)
                     \/ /\ abort = "none"
                        /\ \E gas \in Gases :
                             \/ gas + Variance > maxClaim /\ Refuse(r, "ClaimWouldExceedMax")
                             \/ /\ gas + Variance \in seeds
                                /\ req' = [req EXCEPT ![r].pc = "building", ![r].gas = gas,
                                                      ![r].path = "credit"]
                             \/ /\ gas + Variance \in (0..maxClaim) \ seeds
                                /\ req' = [req EXCEPT ![r].pc = "measuring"]
       /\ UNCHANGED <<chain, cache>>

\* No quote, no payment source, no sponsor gas: a phase that needs them fails.
NoFunding(r) == /\ req[r].pc \in {"measuring", "gap", "building"}
                /\ Refuse(r, "Unfunded")
                /\ UNCHANGED <<chain, cache>>

\* runMaxClaimGasProbe: pass 1 simulates a swap settlement of the largest claim.
MaxClaimGasProbe(r) ==
    LET maxClaim == req[r].config.terms.maxClaim IN
    /\ req[r].pc = "measuring"
    /\ \E verified \in Quotes(RequiredSwapOutput(r, maxClaim)) :
         LET t == SwapCall(r, maxClaim, 0, verified, maxClaim)
         IN \E m \in Markets(t) :
              LET abort == Abort(t, UserOf[r], m)
              IN \/ abort # "none" /\ Refuse(r, abort)
                 \/ /\ abort = "none"
                    /\ \E gas \in Gases : req' = [req EXCEPT ![r].pc = "gap", ![r].gas = gas]
    /\ UNCHANGED <<chain, cache>>

\* measureSwapExecutionGap: pass 1.5 quotes the measured claim.
MeasureSwapExecutionGap(r) ==
    /\ req[r].pc = "gap"
    /\ \E gap \in Gaps : req' = [req EXCEPT ![r].pc = "building", ![r].path = "swap",
                                            ![r].gap = gap]
    /\ UNCHANGED <<chain, cache>>

Claim(r) == req[r].gas + Variance + req[r].gap

\* The gas budget is the gross gas and a margin, capped by the claim bound.  Gas is net
\* of the storage rebate everywhere else.
Capped(budget, maxClaim) == IF budget > maxClaim THEN maxClaim ELSE budget
Budgets(r) == {Capped(req[r].gas + more, req[r].config.terms.maxClaim) : more \in Margins}

\* Pass 2 quotes again: a gap beyond the measured one, tolerance included, fails.
Converges(residual, gap) == residual * 10000 <= gap * (10000 + ToleranceBps)

\* The sealed transaction was simulated by the build that pinned its objects.
Seal(r, t) ==
    \E m \in Markets(t) :
      LET abort == Abort(t, UserOf[r], m)
      IN \/ abort # "none" /\ Refuse(r, abort)
         \/ abort = "none" /\ ~SettleArgsValid(t, req[r].config) /\ Refuse(r, "L2")
         \/ /\ abort = "none" /\ SettleArgsValid(t, req[r].config)
            /\ req' = [req EXCEPT ![r] = [Idle EXCEPT !.pc = "prepared", !.tx = t,
                                                      !.withdraws = t.withdraws,
                                                      !.nonce = t.nonce]]

\* buildFinalGenericPrepareResult and validateGenericBuildResult.
FinalBuild(r) ==
    /\ req[r].pc = "building"
    /\ \/ Claim(r) > req[r].config.terms.maxClaim /\ Refuse(r, "ClaimWouldExceedMax")
       \/ /\ Claim(r) <= req[r].config.terms.maxClaim
          /\ req[r].path = "credit"
          /\ \E budget \in Budgets(r) : Seal(r, CreditCall(r, Claim(r), budget))
       \/ /\ Claim(r) <= req[r].config.terms.maxClaim
          /\ req[r].path = "swap"
          /\ \E residual \in Gaps, verified \in Quotes(RequiredSwapOutput(r, Claim(r))) :
               \/ ~Converges(residual, req[r].gap) /\ Refuse(r, "SlippageConvergenceFailed")
               \/ /\ Converges(residual, req[r].gap)
                  /\ \E budget \in Budgets(r) :
                        Seal(r, SwapCall(r, Claim(r), req[r].gap, verified, budget))
    /\ UNCHANGED <<chain, cache>>

-----------------------------------------------------------------------------
(* /sponsor: revalidation, vault re-query, preflight, and the execution      *)

\* revalidateGenericSponsorPolicy invalidates the cache before it reads the config.
StartSponsor(r) ==
    /\ req[r].pc = "prepared"
    /\ cache' = GetConfig([cache EXCEPT !.fresh = FALSE])
    /\ req' = [req EXCEPT ![r].pc = "revalidating"]
    /\ UNCHANGED chain

Revalidate(r) ==
    /\ req[r].pc = "checking"
    /\ IF SettleArgsValid(req[r].tx, req[r].fresh)
       THEN req' = [req EXCEPT ![r].pc = IF req[r].tx.variant = "new_user"
                                         THEN "requerying" ELSE "preflight"]
       ELSE Refuse(r, "RePrepareRequired")
    /\ UNCHANGED <<chain, cache>>

\* A user without a vault at /prepare must still have none.
RequeryVault(r) ==
    /\ req[r].pc = "requerying"
    /\ IF vault[UserOf[r]].registered THEN Refuse(r, "RePrepareRequired")
                                      ELSE req' = [req EXCEPT ![r].pc = "preflight"]
    /\ UNCHANGED <<chain, cache>>

\* As a bug would have it, the claim is not held against the gas.
GasBelowMaxClaim(t, gas, c) == gas <= c.terms.maxClaim

\* validateNonlossSponsor
Nonloss(t, gas, c) == /\ t.claim >= gas + Variance + t.buffer
                      /\ t.budget <= c.terms.maxClaim
                      /\ gas <= c.terms.maxClaim

\* runGenericPreflight simulates the bytes to be signed; the signature follows.  The
\* budget may no longer do, whatever the net gas would be.
Preflight(r) ==
    LET t == req[r].tx IN
    /\ req[r].pc = "preflight"
    /\ \/ ~Current(t, UserOf[r]) /\ Refuse(r, "StaleObject")
       \/ /\ Current(t, UserOf[r])
          /\ \E m \in Markets(t), gas \in Gases :
               LET abort == Abort(t, UserOf[r], m)
               IN \/ Refuse(r, "InsufficientGas")
                  \/ abort # "none" /\ Refuse(r, abort)
                  \/ abort = "none" /\ ~Nonloss(t, gas, req[r].fresh) /\ Refuse(r, "L3")
                  \/ /\ abort = "none" /\ Nonloss(t, gas, req[r].fresh) /\ gas <= t.budget
                     /\ req' = [req EXCEPT ![r].pc = "signed", ![r].simulated = gas,
                                            ![r].fresh = None]
    /\ UNCHANGED <<chain, cache>>

\* The chain executes a signed transaction at some later time, and the Host pays for
\* the gas of failures too.  Nothing ties this gas to the simulated gas: prices rise.
\* Only the budget bounds it, and a transaction that needs more fails and costs it all.
Execute(r) ==
    LET t == req[r].tx IN
    /\ req[r].pc = "signed"
    /\ Current(t, UserOf[r])
    /\ \E m \in Markets(t), gas \in 0..t.budget :
         LET abort == Abort(t, UserOf[r], m)
             Fails(cause) ==
                /\ req' = [req EXCEPT ![r].pc = "aborted", ![r].cause = cause,
                                      ![r].gasPaid = gas]
                /\ UNCHANGED chain
         IN \/ abort # "none" /\ Fails(abort)
            \/ gas = t.budget /\ Fails("InsufficientGas")
            \/ /\ abort = "none"
               /\ Settle(t, UserOf[r], m)
               /\ req' = [req EXCEPT ![r].pc = "settled", ![r].gasPaid = gas,
                            ![r].paid = [host |-> Payout(t),
                                         protocolFee |-> config.terms.protocolFee,
                                         treasury |-> config.treasury]]
               /\ UNCHANGED <<config, epoch, published, pausedAt>>
    /\ UNCHANGED cache

\* Its vault has moved on: no validator will execute it.
Lapse(r) == /\ req[r].pc = "signed" /\ ~Current(req[r].tx, UserOf[r])
            /\ req' = [req EXCEPT ![r] = [Idle EXCEPT !.pc = "expired"]]
            /\ UNCHANGED <<chain, cache>>

-----------------------------------------------------------------------------

Init == /\ config = [terms |-> InitialTerms, treasury |-> Genesis, paused |-> FALSE,
                     version |-> 0, pendingTerms |-> None, pendingTreasury |-> None,
                     pendingPause |-> None]
        /\ epoch = 0
        /\ vault = InitialVaults
        /\ cache = [config |-> OnchainConfig, fresh |-> TRUE, fetch |-> "none", got |-> None]
        /\ req = [r \in Requests |-> Idle]
        /\ published = <<InForce>>
        /\ books = [u \in Users |-> [deposited |-> InitialVaults[u].credit,
                                   charged |-> 0, withdrawn |-> 0]]
        /\ pausedAt = None

Prepare(r) == \/ StartPrepare(r) \/ ReadCredit(r) \/ ReserveNonce(r) \/ CreditProbe(r)
              \/ NoFunding(r) \/ MaxClaimGasProbe(r) \/ MeasureSwapExecutionGap(r)
              \/ FinalBuild(r)

Sponsor(r) == \/ StartSponsor(r) \/ Revalidate(r) \/ RequeryVault(r) \/ Preflight(r)
              \/ Execute(r) \/ Lapse(r)

Host == FetchReads \/ FetchReturns \/ FetchFails \/ TtlPasses

Next == \/ Admin \/ NextEpoch \/ Host
        \/ \E u \in Users : \E amount \in 1..vault[u].credit : Withdraw(u, amount)
        \/ \E r \in Requests : Prepare(r) \/ Sponsor(r)

Spec == Init /\ [][Next]_vars

-----------------------------------------------------------------------------
(* Properties                                                                *)

SeenConfig == [terms : Terms \cup {InitialTerms}, version : Nat]
Pending(values) == {None} \cup [value : values, apply : Nat]
Tx == [variant : Variants, use : Nat, minOut : Nat, claim : Nat, buffer : Nat, budget : Nat,
       hostFee : Nat, protocolFee : Nat, version : Nat, nonce : Nat, withdraws : BOOLEAN, pin : Nat]

Configs == [terms : Terms \cup {InitialTerms}, treasury : Treasuries, paused : BOOLEAN,
            version : Nat, pendingTerms : Pending(Terms),
            pendingTreasury : Pending(Treasuries), pendingPause : Pending({FALSE})]
Caches == [config : SeenConfig, fresh : BOOLEAN, fetch : {"none", "sent", "read"},
           got : SeenConfig \cup {None}]
Credits == [registered : BOOLEAN, credit : Nat, lastNonce : Nat]
Payments == [host : Nat, protocolFee : Nat, treasury : Treasuries]
Aborts == {"EInsufficientBalance", "EVaultNotRegistered", "ESpreadTooWide",
           "EMinimumQuantityOutNotMet", "EVaultAlreadyRegistered", "EReplayNonce", "EPaused",
           "EClaimTooHigh", "ETotalInTooLow", "EConfigVersionMismatch",
           "EProtocolFeeMismatch", "EHostFeeCapExceeded", "EInsufficientFunds",
           "InsufficientGas"}
Refusals == {"ChainReadFailed", "Unfunded", "ClaimWouldExceedMax",
             "SlippageConvergenceFailed", "L2", "L3", "RePrepareRequired", "StaleObject"}
RequestRecords ==
    [pc : {"idle", "reading", "probing", "measuring", "gap", "building", "prepared",
           "revalidating", "checking", "requerying", "preflight", "signed"} \cup Done,
     withdraws : BOOLEAN, config : SeenConfig \cup {None}, seen : Credits \cup {None},
     nonce : Nat, path : {None, "credit", "swap"}, gas : Nat, gap : Nat,
     tx : Tx \cup {None}, fresh : SeenConfig \cup {None}, simulated : Nat,
     cause : {"none"} \cup Aborts \cup Refusals, paid : Payments \cup {None},
     gasPaid : Nat]

\* Types of the state, and the bounds that config.move keeps on the terms in force:
\* a positive claim bound, dust under it, both fees inside it (E-7, E-8).
TypeOK ==
    /\ config \in Configs /\ ValidTerms(config.terms)
    /\ epoch \in Nat
    /\ vault \in [Users -> Vaults]
    /\ cache \in Caches
    /\ req \in [Requests -> RequestRecords]
    /\ published \in Seq([terms : Terms \cup {InitialTerms}, treasury : Treasuries,
                          paused : BOOLEAN])
    /\ books \in [Users -> [deposited : Nat, charged : Nat, withdrawn : Nat]]
    /\ pausedAt \in Nat \cup {None}

\* A settlement pays exactly what was agreed when it was prepared, however long ago
\* and whatever the admin has done since: the planned claim and host fee to the
\* Host, the protocol fee of that config version to the treasury of that version.
AgreedTermsPaid ==
    \A r \in Requests :
      req[r].pc = "settled" =>
        LET t == req[r].tx
            agreed == published[t.version + 1]
        IN /\ req[r].paid.host = t.claim + HostFee
           /\ req[r].paid.protocolFee = agreed.terms.protocolFee
           /\ req[r].paid.treasury = agreed.treasury
           /\ HostFee <= agreed.terms.hostCap
           /\ t.claim <= agreed.terms.maxClaim
           /\ ~agreed.paused

\* No MIST is lost or made in a vault: what swaps have brought in is in the vault,
\* paid to the Host and the treasury, or withdrawn by the user.
CreditConserved ==
    \A u \in Users :
      books[u].deposited = vault[u].credit + books[u].charged + books[u].withdrawn

\* A transaction the Host has signed fails on the chain for what the Host cannot
\* hold still: the market, the gas, a new config version, a vault registered meanwhile.
\* It never runs out of credit or input, replays a nonce or mistakes a fee.
AbortsOnlyOnDrift ==
    \A r \in Requests :
      req[r].pc = "aborted" =>
        \/ req[r].cause \in {"ESpreadTooWide", "EMinimumQuantityOutNotMet",
                            "InsufficientGas"}
        \/ req[r].cause = "EVaultAlreadyRegistered" /\ vault[UserOf[r]].registered
        \/ /\ req[r].cause \in {"EPaused", "EClaimTooHigh", "ETotalInTooLow",
                                "EConfigVersionMismatch"}
           /\ req[r].tx.version < config.version

\* A settlement pays the Host its fee and its gas as long as the gas has risen since
\* the dry run by no more than the variance it reckons with (E-9).  However far it
\* rises, and also for a transaction that fails, the Host pays no more gas than the
\* claim bound of the config version it was agreed under.
GasLossBounded ==
    \A r \in Requests :
      req[r].pc \in {"settled", "aborted"} =>
        LET t == req[r].tx
            agreed == published[t.version + 1]
        IN /\ req[r].gasPaid <= agreed.terms.maxClaim
           /\ req[r].pc = "settled" /\ req[r].gasPaid <= req[r].simulated + Variance =>
                 req[r].paid.host >= req[r].gasPaid + HostFee

Settles(r) == req[r].pc = "signed" /\ req'[r].pc = "settled"

\* After a pause no settlement completes for two epochs: the unpause has to be
\* queued after the pause, and one queued before it is gone.
PauseHolds ==
    [][\A r \in Requests :
         Settles(r) => pausedAt = None \/ epoch >= pausedAt + Delay]_vars

\* static.ts: a user "must always be able to withdraw even within a sponsored
\* execution PTB (e.g. withdraw + settle in the same PTB)".
WithdrawalIsServed ==
    \A r \in Requests :
      ~(req[r].pc = "refused" /\ req[r].withdraws /\ req[r].cause = "EInsufficientBalance")

=============================================================================
