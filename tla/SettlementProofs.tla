-------------------------- MODULE SettlementProofs --------------------------
(***************************************************************************)
(* Proofs about Settlement for every number of users and requests, every   *)
(* choice of fee terms the contract accepts, and every amount, gas, gap,   *)
(* quote and number of updates.                                            *)
(***************************************************************************)
EXTENDS Settlement, TLAPS

-----------------------------------------------------------------------------
(* The inductive invariant.                                                 *)

Sealed == {"prepared", "revalidating", "checking", "requerying", "preflight",
                  "signed"}
Planned == {"probing", "measuring", "gap", "building"}

\* What was in force under a version is what its number stands for: the last one
\* is in force now.
VersionsOK == /\ Len(published) = config.version + 1
              /\ published[config.version + 1] = InForce

\* Queued terms have passed the checks of update_config.
QueueOK == Queued(config.pendingTerms) => ValidTerms(config.pendingTerms.value)

\* A config that was read, now or long ago: the terms of its version.
ReadOK(c) == /\ c.version <= config.version
             /\ c.terms = published[c.version + 1].terms

CacheOK == /\ ReadOK(cache.config)
           /\ cache.fetch = "read" => cache.got \in SeenConfig /\ ReadOK(cache.got)

VaultsOK == \A u \in Users :
              ~vault[u].registered => vault[u].credit = 0 /\ vault[u].lastNonce = 0

\* After a pause: two epochs have passed, or it stands and no unpause comes earlier.
PauseOK == pausedAt # None =>
             /\ pausedAt <= epoch
             /\ \/ epoch >= pausedAt + Delay
                \/ /\ config.paused
                   /\ \/ config.pendingPause = None
                      \/ config.pendingPause.apply >= pausedAt + Delay

\* The gas budget of t is within the claim bound of its version.
BudgetOK(t) == /\ t \in Tx /\ t.version <= config.version
               /\ t.budget <= published[t.version + 1].terms.maxClaim

\* A sealed transaction t of user u: it fits the terms of its version, its input
\* covers its costs at the least output it accepts, and while the vault is at the
\* version that t pins, the vault can honour it.
SealedOK(t, u) ==
    LET agreed == published[t.version + 1]
    IN /\ t \in Tx
       /\ t.version <= config.version
       /\ ~agreed.paused
       /\ t.hostFee = HostFee /\ HostFee <= agreed.terms.hostCap
       /\ t.claim <= agreed.terms.maxClaim
       /\ BudgetOK(t)
       /\ t.protocolFee = agreed.terms.protocolFee
       /\ t.use + t.minOut >= t.claim + HostFee + t.protocolFee
       /\ t.variant = "credit" => t.minOut = 0
       /\ t.variant # "credit" => t.use + t.minOut >= agreed.terms.minSettle
       /\ t.variant = "new_user" => t.use = 0 /\ t.nonce > 0 /\ ~t.withdraws
       /\ t.variant # "new_user" =>
            /\ t.pin <= vault[u].pin
            /\ t.pin = vault[u].pin =>
                 /\ vault[u].registered
                 /\ t.use <= CreditLeft(t, u)
                 /\ t.nonce > vault[u].lastNonce
                 /\ t.withdraws => vault[u].credit > 0

\* What a request x of user u has read, planned, sealed and obtained.
RequestOK(x, u) ==
    /\ x.pc = "idle" => x.seen = None
    /\ x.config # None => ReadOK(x.config)
    /\ x.withdraws => vault[u].registered
    /\ x.seen # None => \/ x.seen.registered
                        \/ x.seen.credit = 0 /\ ~x.withdraws
    /\ x.pc \in Planned => x.config # None /\ x.seen # None /\ x.nonce > 0
    /\ x.pc \in Sealed \cup {"settled"} => SealedOK(x.tx, u)
    /\ x.pc \in {"signed", "settled"} => x.tx.claim >= x.simulated + Variance
    /\ x.pc = "settled" =>
         LET agreed == published[x.tx.version + 1]
         IN /\ x.paid \in Payments
            /\ x.paid.host = x.tx.claim + HostFee
            /\ x.paid.protocolFee = agreed.terms.protocolFee
            /\ x.paid.treasury = agreed.treasury
    /\ x.pc \in {"settled", "aborted"} => BudgetOK(x.tx) /\ x.gasPaid <= x.tx.budget
    /\ x.pc = "aborted" =>
         \/ x.cause \in {"ESpreadTooWide", "EMinimumQuantityOutNotMet", "InsufficientGas"}
         \/ x.cause = "EVaultAlreadyRegistered" /\ vault[u].registered
         \/ /\ x.cause \in {"EPaused", "EClaimTooHigh", "ETotalInTooLow",
                            "EConfigVersionMismatch"}
            /\ x.tx \in Tx /\ x.tx.version < config.version

RequestsOK == \A r \in Requests : RequestOK(req[r], UserOf[r])

IInv == /\ TypeOK /\ VersionsOK /\ QueueOK /\ CacheOK /\ VaultsOK /\ PauseOK
        /\ RequestsOK /\ CreditConserved

-----------------------------------------------------------------------------
(* Frames.                                                                  *)

\* What a step of the chain may do to what was read, planned or sealed before it:
\* versions are added, registrations stay, and a vault that changes moves its pin.
Grows ==
    /\ config'.version >= config.version
    /\ \A v \in 0..config.version : published'[v + 1] = published[v + 1]
    /\ \A u \in Users : /\ vault[u].registered => vault'[u].registered
                        /\ vault'[u].pin >= vault[u].pin
                        /\ vault'[u].pin = vault[u].pin => vault'[u] = vault[u]

LEMMA NoGrowth == ASSUME TypeOK, UNCHANGED chain PROVE Grows
  BY DEF TypeOK, Configs, Vaults, chain, Grows

LEMMA ReadKept ==
    ASSUME TypeOK, config'.version \in Nat, Grows, NEW c \in SeenConfig, ReadOK(c)
    PROVE  ReadOK(c)'
  BY DEF TypeOK, Configs, SeenConfig, ReadOK, Grows

LEMMA BudgetKept ==
    ASSUME TypeOK, config'.version \in Nat, Grows, NEW t, BudgetOK(t)
    PROVE  BudgetOK(t)'
<1>1. t \in Tx /\ t.version \in 0..config.version
  BY DEF BudgetOK, TypeOK, Configs, Tx
<1>2. published'[t.version + 1] = published[t.version + 1]
  BY <1>1 DEF Grows
<1>3. t.version <= config'.version
  BY <1>1 DEF Grows, TypeOK, Configs
<1>. QED
  BY <1>1, <1>2, <1>3 DEF BudgetOK

LEMMA SealedKept ==
    ASSUME TypeOK, config'.version \in Nat, vault' \in [Users -> Vaults], Grows,
           NEW u \in Users, NEW t, SealedOK(t, u)
    PROVE  SealedOK(t, u)'
<1>1. t \in Tx /\ t.version \in 0..config.version /\ t.pin \in Nat
  BY DEF SealedOK, TypeOK, Configs, Tx
<1>2. published'[t.version + 1] = published[t.version + 1]
  BY <1>1 DEF Grows
<1>3. vault[u].pin \in Nat /\ vault'[u].pin \in Nat
  BY DEF TypeOK, Vaults
<1>4. ASSUME t.pin <= vault[u].pin, t.pin = vault'[u].pin
      PROVE  vault'[u] = vault[u] /\ t.pin = vault[u].pin
  BY <1>1, <1>3, <1>4 DEF Grows
<1>5. t.pin <= vault[u].pin => t.pin <= vault'[u].pin
  BY <1>1, <1>3 DEF Grows
<1>6. t.version <= config'.version
  BY <1>1 DEF Grows, TypeOK, Configs
<1>7. BudgetOK(t)'
  BY BudgetKept DEF SealedOK
<1>. QED
  BY <1>1, <1>2, <1>4, <1>5, <1>6, <1>7 DEF SealedOK, CreditLeft

\* A request that takes no part in a step knows what it knew.
LEMMA RequestKept ==
    ASSUME TypeOK, config'.version \in Nat, vault' \in [Users -> Vaults], Grows,
           NEW u \in Users, NEW x \in RequestRecords, RequestOK(x, u)
    PROVE  RequestOK(x, u)'
<1>1. x.config # None => ReadOK(x.config)'
  BY ReadKept DEF RequestOK, RequestRecords
<1>2. x.withdraws => vault'[u].registered
  BY DEF RequestOK, Grows
<1>3. SealedOK(x.tx, u) => SealedOK(x.tx, u)'
  BY SealedKept
<1>4. x.pc = "settled" => published'[x.tx.version + 1] = published[x.tx.version + 1]
  <2>1. ASSUME x.pc = "settled" PROVE x.tx.version \in 0..config.version
    BY <2>1 DEF RequestOK, SealedOK, Tx, TypeOK, Configs
  <2>. QED
    BY <2>1 DEF Grows
<1>6. BudgetOK(x.tx) => BudgetOK(x.tx)'
  BY BudgetKept
<1>5. x.pc = "aborted" =>
        \/ x.cause \in {"ESpreadTooWide", "EMinimumQuantityOutNotMet", "InsufficientGas"}
        \/ x.cause = "EVaultAlreadyRegistered" /\ vault'[u].registered
        \/ /\ x.cause \in {"EPaused", "EClaimTooHigh", "ETotalInTooLow",
                           "EConfigVersionMismatch"}
           /\ x.tx \in Tx /\ x.tx.version < config'.version
  <2>1. x.tx \in Tx => x.tx.version \in Nat
    BY DEF Tx
  <2>2. config.version \in Nat
    BY DEF TypeOK, Configs
  <2>3. config'.version >= config.version
    BY DEF Grows
  <2>4. x.tx \in Tx /\ x.tx.version < config.version => x.tx.version < config'.version
    BY <2>1, <2>2, <2>3
  <2>5. vault[u].registered => vault'[u].registered
    BY DEF Grows
  <2>. QED
    BY <2>4, <2>5 DEF RequestOK
<1>. QED
  BY <1>1, <1>2, <1>3, <1>4, <1>5, <1>6 DEF RequestOK

\* A step of the chain leaves the Host and its requests as they were.
LEMMA ChainStep ==
    ASSUME IInv, Grows, UNCHANGED <<cache, req>>,
           config' \in Configs, vault' \in [Users -> Vaults]
    PROVE  CacheOK' /\ RequestsOK' /\ cache' \in Caches /\ req' \in [Requests -> RequestRecords]
<1>. config'.version \in Nat
  BY DEF Configs
<1>1. CacheOK'
  BY ReadKept DEF IInv, TypeOK, CacheOK, Caches
<1>2. RequestsOK'
  <2>. SUFFICES ASSUME NEW r \in Requests PROVE RequestOK(req[r], UserOf[r])'
    BY DEF RequestsOK
  <2>. req'[r] = req[r] /\ UserOf[r] \in Users /\ req[r] \in RequestRecords
    BY SettlementAssumption DEF IInv, TypeOK
  <2>. QED
    BY RequestKept DEF IInv, RequestsOK
<1>. QED
  BY <1>1, <1>2 DEF IInv, TypeOK

\* A step of the Host leaves the chain as it was.
LEMMA HostStep ==
    ASSUME IInv, UNCHANGED chain, cache' \in Caches, CacheOK',
           req' \in [Requests -> RequestRecords],
           \A r \in Requests : RequestOK(req'[r], UserOf[r])
    PROVE  IInv'
<1>1. TypeOK'
  BY DEF IInv, TypeOK, chain
<1>2. RequestsOK'
  <2>. SUFFICES ASSUME NEW r \in Requests PROVE RequestOK(req[r], UserOf[r])'
    BY DEF RequestsOK
  <2>. Grows /\ config'.version \in Nat /\ vault' \in [Users -> Vaults] /\ UserOf[r] \in Users
    BY NoGrowth, SettlementAssumption, <1>1 DEF IInv, TypeOK, Configs
  <2> DEFINE x == req'[r]
  <2>1. x \in RequestRecords /\ RequestOK(x, UserOf[r])
    OBVIOUS
  <2>. QED
    BY <2>1 DEF chain, RequestOK, ReadOK, SealedOK, BudgetOK, CreditLeft
<1>. QED
  BY <1>1, <1>2 DEF IInv, chain, VersionsOK, InForce, QueueOK, VaultsOK, PauseOK,
                    CreditConserved

\* A request moves to the record x, and nothing else changes.
LEMMA RequestStep ==
    ASSUME IInv, NEW r \in Requests, NEW x \in RequestRecords, RequestOK(x, UserOf[r]),
           req' = [req EXCEPT ![r] = x], UNCHANGED <<chain, cache>>
    PROVE  IInv'
<1>1. req' \in [Requests -> RequestRecords]
  BY DEF IInv, TypeOK
<1>2. \A q \in Requests : RequestOK(req'[q], UserOf[q])
  BY DEF IInv, TypeOK, RequestsOK
<1>3. cache' \in Caches /\ CacheOK'
  BY DEF IInv, TypeOK, CacheOK, ReadOK, chain
<1>. QED
  BY <1>1, <1>2, <1>3, HostStep

-----------------------------------------------------------------------------
(* config.move.                                                             *)

\* A new version is published with what is in force under it.
LEMMA BeginsVersion ==
    ASSUME IInv, NEW c \in Configs, Begin(c), c.version = config.version,
           ValidTerms(c.terms), UNCHANGED vault
    PROVE  /\ config' = [c EXCEPT !.version = c.version + 1]
           /\ config' \in Configs /\ ValidTerms(config'.terms)
           /\ published' \in Seq([terms : Terms \cup {InitialTerms}, treasury : Treasuries,
                                  paused : BOOLEAN])
           /\ VersionsOK' /\ Grows
<1> DEFINE p == [terms |-> c.terms, treasury |-> c.treasury, paused |-> c.paused]
           S == [terms : Terms \cup {InitialTerms}, treasury : Treasuries, paused : BOOLEAN]
<1>1. config' = [c EXCEPT !.version = c.version + 1] /\ published' = Append(published, p)
  BY DEF Begin
<1>2. config' \in Configs /\ ValidTerms(config'.terms)
  BY <1>1 DEF Configs, ValidTerms
<1>3. p \in S /\ published \in Seq(S) /\ Len(published) = config.version + 1 /\ config.version \in Nat
  BY DEF Configs, IInv, TypeOK, VersionsOK
<1>4. /\ published' \in Seq(S) /\ Len(published') = config.version + 2
      /\ published'[config.version + 2] = p
      /\ \A v \in 0..config.version : published'[v + 1] = published[v + 1]
  <2>. HIDE DEF p, S
  <2>. QED
    BY <1>1, <1>3
<1>5. config'.version = config.version + 1 /\ config'.terms = c.terms
      /\ config'.treasury = c.treasury /\ config'.paused = c.paused
  BY <1>1 DEF Configs
<1>6. VersionsOK'
  BY <1>3, <1>4, <1>5 DEF VersionsOK, InForce
<1>7. Grows
  BY <1>3, <1>4, <1>5 DEF Grows, IInv, TypeOK, Vaults
<1>. QED
  BY <1>1, <1>2, <1>4, <1>6, <1>7

\* A step of the admin that begins no version.
LEMMA QueueStep ==
    ASSUME IInv, config' \in Configs, UNCHANGED <<vault, published>>,
           config'.terms = config.terms, config'.treasury = config.treasury,
           config'.paused = config.paused, config'.version = config.version
    PROVE  VersionsOK' /\ Grows /\ ValidTerms(config'.terms)
  BY DEF IInv, TypeOK, VersionsOK, InForce, Grows, Vaults, Configs

\* What the admin leaves of the invariant when config, published and pausedAt move.
LEMMA AdminStep ==
    ASSUME IInv, config' \in Configs, ValidTerms(config'.terms), VersionsOK', Grows,
           published' \in Seq([terms : Terms \cup {InitialTerms}, treasury : Treasuries,
                               paused : BOOLEAN]),
           epoch' \in Nat, pausedAt' \in Nat \cup {None}, UNCHANGED <<vault, cache, req, books>>,
           QueueOK', PauseOK'
    PROVE  IInv'
<1>1. CacheOK' /\ RequestsOK' /\ cache' \in Caches /\ req' \in [Requests -> RequestRecords]
  BY ChainStep DEF IInv, TypeOK
<1>2. TypeOK'
  BY <1>1 DEF IInv, TypeOK
<1>. QED
  BY <1>1, <1>2 DEF IInv, VaultsOK, CreditConserved

LEMMA PauseKeeps == ASSUME IInv, Pause PROVE IInv'
<1> DEFINE c == [config EXCEPT !.paused = TRUE, !.pendingPause = None]
           S == Seq([terms : Terms \cup {InitialTerms}, treasury : Treasuries, paused : BOOLEAN])
<1>1. config \in Configs /\ published \in S /\ epoch \in Nat
  BY DEF IInv, TypeOK
<1>2. c \in Configs /\ c.terms = config.terms /\ c.version = config.version
      /\ c.pendingTerms = config.pendingTerms /\ c.paused = TRUE /\ c.pendingPause = None
  BY <1>1 DEF Configs, Pending
<1>3. pausedAt' = epoch /\ UNCHANGED <<epoch, vault, cache, req, books>>
  BY DEF Pause
<1>4. CASE ~config.paused \/ Queued(config.pendingPause)
  <2>1. Begin(c)
    BY <1>4 DEF Pause
  <2>2. /\ config' = [c EXCEPT !.version = c.version + 1] /\ config' \in Configs
        /\ ValidTerms(config'.terms) /\ published' \in S /\ VersionsOK' /\ Grows
    BY <2>1, <1>2, <1>3, BeginsVersion DEF IInv, TypeOK
  <2>3. config'.paused = TRUE /\ config'.pendingPause = None
        /\ config'.pendingTerms = config.pendingTerms
    BY <2>2, <1>2 DEF Configs
  <2>4. QueueOK' /\ PauseOK'
    BY <2>3, <1>3, <1>1 DEF QueueOK, PauseOK, IInv, Queued
  <2>. QED
    BY <2>2, <2>4, <1>1, <1>3, AdminStep
<1>5. CASE ~(~config.paused \/ Queued(config.pendingPause))
  <2>1. UNCHANGED <<config, published>>
    BY <1>5 DEF Pause
  <2>2. VersionsOK' /\ Grows /\ ValidTerms(config'.terms)
    BY <2>1, <1>1, <1>3, QueueStep
  <2>3. QueueOK' /\ PauseOK'
    BY <2>1, <1>5, <1>3, <1>1 DEF QueueOK, PauseOK, IInv, Queued
  <2>. QED
    BY <2>1, <2>2, <2>3, <1>1, <1>3, AdminStep
<1>. QED
  BY <1>4, <1>5

LEMMA QueueUnpauseKeeps == ASSUME IInv, QueueUnpause PROVE IInv'
<1>1. config \in Configs /\ epoch \in Nat /\ pausedAt \in Nat \cup {None}
  BY DEF IInv, TypeOK
<1>2. Update(FALSE) \in Pending({FALSE}) /\ Update(FALSE).apply = epoch + 2
  BY <1>1 DEF Update, Pending, Delay
<1>3. /\ config' = [config EXCEPT !.pendingPause = Update(FALSE)]
      /\ UNCHANGED <<epoch, vault, cache, req, published, books, pausedAt>>
  BY DEF QueueUnpause
<1>4. config' \in Configs /\ config'.terms = config.terms /\ config'.treasury = config.treasury
      /\ config'.paused = config.paused /\ config'.version = config.version
      /\ config'.pendingTerms = config.pendingTerms /\ config'.pendingPause.apply = epoch + 2
  BY <1>1, <1>2, <1>3 DEF Configs
<1>5. QueueOK' /\ PauseOK'
  <2>1. pausedAt # None => pausedAt <= epoch
    BY DEF IInv, PauseOK
  <2>2. config'.paused
    BY <1>4 DEF QueueUnpause
  <2>3. QueueOK'
    BY <1>4 DEF IInv, QueueOK, Queued
  <2>4. /\ pausedAt' = pausedAt /\ epoch' = epoch
        /\ pausedAt # None => config'.pendingPause.apply >= pausedAt + Delay
    <3>1. ASSUME pausedAt # None PROVE config'.pendingPause.apply >= pausedAt + Delay
      <4>1. pausedAt \in Nat /\ pausedAt <= epoch /\ epoch \in Nat
        BY <1>1, <2>1, <3>1
      <4>2. epoch + 2 >= pausedAt + 2
        BY <4>1
      <4>. QED
        BY <4>2, <1>4 DEF Delay
    <3>. QED
      BY <1>3, <3>1
  <2>5. PauseOK'
    BY <2>1, <2>2, <2>4 DEF PauseOK
  <2>. QED
    BY <2>3, <2>5
<1>6. VersionsOK' /\ Grows /\ ValidTerms(config'.terms)
  BY <1>3, <1>4, QueueStep
<1>. QED
  BY <1>1, <1>3, <1>4, <1>5, <1>6, AdminStep DEF IInv, TypeOK

LEMMA ApplyUnpauseKeeps == ASSUME IInv, ApplyUnpause PROVE IInv'
<1> DEFINE c == [config EXCEPT !.paused = config.pendingPause.value, !.pendingPause = None]
<1>1. config \in Configs /\ epoch \in Nat /\ pausedAt \in Nat \cup {None}
  BY DEF IInv, TypeOK
<1>2. config.pendingPause \in [value : {FALSE}, apply : Nat] /\ epoch >= config.pendingPause.apply
  BY <1>1 DEF ApplyUnpause, Ripe, Queued, Configs, Pending
<1>3. Begin(c) /\ UNCHANGED <<epoch, vault, cache, req, books, pausedAt>>
  BY DEF ApplyUnpause
<1>4. c \in Configs /\ c.terms = config.terms /\ c.version = config.version
      /\ c.pendingTerms = config.pendingTerms
  BY <1>1, <1>2 DEF Configs, Pending
<1>5. /\ config' = [c EXCEPT !.version = c.version + 1] /\ config' \in Configs
      /\ ValidTerms(config'.terms) /\ VersionsOK' /\ Grows
      /\ published' \in Seq([terms : Terms \cup {InitialTerms}, treasury : Treasuries,
                             paused : BOOLEAN])
  BY <1>3, <1>4, BeginsVersion DEF IInv, TypeOK
<1>6. QueueOK'
  BY <1>4, <1>5 DEF IInv, QueueOK, Queued, Configs
<1>7. pausedAt # None => pausedAt <= epoch /\ epoch >= pausedAt + Delay
  <2>1. config.pendingPause # None /\ config.pendingPause.apply \in Nat
    BY <1>2 DEF ApplyUnpause, Ripe, Queued
  <2>2. PauseOK
    BY DEF IInv
  <2>. QED
    BY <1>1, <1>2, <2>1, <2>2 DEF PauseOK, Delay
<1>8. PauseOK'
  BY <1>3, <1>7 DEF PauseOK
<1>. QED
  BY <1>1, <1>3, <1>5, <1>6, <1>8, AdminStep

LEMMA QueueTreasuryKeeps ==
    ASSUME IInv, NEW t \in Treasuries, QueueTreasury(t) PROVE IInv'
<1>1. config \in Configs /\ epoch \in Nat
  BY DEF IInv, TypeOK
<1>2. Update(t) \in Pending(Treasuries)
  BY <1>1 DEF Update, Pending, Delay
<1>3. /\ config' = [config EXCEPT !.pendingTreasury = Update(t)]
      /\ UNCHANGED <<epoch, vault, cache, req, published, books, pausedAt>>
  BY DEF QueueTreasury
<1>4. config' \in Configs /\ config'.terms = config.terms /\ config'.treasury = config.treasury
      /\ config'.paused = config.paused /\ config'.version = config.version
      /\ config'.pendingTerms = config.pendingTerms
      /\ config'.pendingPause = config.pendingPause
  BY <1>1, <1>2, <1>3 DEF Configs
<1>5. QueueOK' /\ PauseOK'
  BY <1>3, <1>4 DEF IInv, QueueOK, PauseOK, Queued
<1>6. VersionsOK' /\ Grows /\ ValidTerms(config'.terms)
  BY <1>3, <1>4, QueueStep
<1>. QED
  BY <1>1, <1>3, <1>4, <1>5, <1>6, AdminStep DEF IInv, TypeOK

LEMMA QueueTermsKeeps == ASSUME IInv, NEW t \in Terms, QueueTerms(t) PROVE IInv'
<1>1. config \in Configs /\ epoch \in Nat
  BY DEF IInv, TypeOK
<1>2. Update(t) \in Pending(Terms) /\ Update(t).value = t
  BY <1>1 DEF Update, Pending, Delay
<1>3. /\ config' = [config EXCEPT !.pendingTerms = Update(t)] /\ ValidTerms(t)
      /\ UNCHANGED <<epoch, vault, cache, req, published, books, pausedAt>>
  BY DEF QueueTerms
<1>4. config' \in Configs /\ config'.terms = config.terms /\ config'.treasury = config.treasury
      /\ config'.paused = config.paused /\ config'.version = config.version
      /\ config'.pendingTerms.value = t /\ config'.pendingPause = config.pendingPause
  BY <1>1, <1>2, <1>3 DEF Configs
<1>5. QueueOK' /\ PauseOK'
  BY <1>3, <1>4 DEF IInv, QueueOK, PauseOK, Queued, ValidTerms
<1>6. VersionsOK' /\ Grows /\ ValidTerms(config'.terms)
  BY <1>3, <1>4, QueueStep
<1>. QED
  BY <1>1, <1>3, <1>4, <1>5, <1>6, AdminStep DEF IInv, TypeOK

LEMMA ApplyTreasuryKeeps == ASSUME IInv, ApplyTreasury PROVE IInv'
<1> DEFINE c == [config EXCEPT !.treasury = config.pendingTreasury.value,
                               !.pendingTreasury = None]
<1>1. config \in Configs /\ epoch \in Nat
  BY DEF IInv, TypeOK
<1>2. config.pendingTreasury \in [value : Treasuries, apply : Nat]
  BY <1>1 DEF ApplyTreasury, Ripe, Queued, Configs, Pending
<1>3. Begin(c) /\ UNCHANGED <<epoch, vault, cache, req, books, pausedAt>>
  BY DEF ApplyTreasury
<1>4. c \in Configs /\ c.terms = config.terms /\ c.version = config.version
      /\ c.pendingTerms = config.pendingTerms /\ c.paused = config.paused
      /\ c.pendingPause = config.pendingPause
  BY <1>1, <1>2 DEF Configs, Pending
<1>5. /\ config' = [c EXCEPT !.version = c.version + 1] /\ config' \in Configs
      /\ ValidTerms(config'.terms) /\ VersionsOK' /\ Grows
      /\ published' \in Seq([terms : Terms \cup {InitialTerms}, treasury : Treasuries,
                             paused : BOOLEAN])
  BY <1>3, <1>4, BeginsVersion DEF IInv, TypeOK
<1>6. config'.pendingTerms = config.pendingTerms /\ config'.paused = config.paused
      /\ config'.pendingPause = config.pendingPause
  BY <1>4, <1>5 DEF Configs
<1>7. QueueOK' /\ PauseOK'
  BY <1>3, <1>6 DEF IInv, QueueOK, PauseOK, Queued
<1>. QED
  BY <1>1, <1>3, <1>5, <1>7, AdminStep DEF IInv, TypeOK

LEMMA ApplyTermsKeeps == ASSUME IInv, ApplyTerms PROVE IInv'
<1> DEFINE c == [config EXCEPT !.terms = config.pendingTerms.value, !.pendingTerms = None]
<1>1. config \in Configs /\ epoch \in Nat
  BY DEF IInv, TypeOK
<1>2. config.pendingTerms \in [value : Terms, apply : Nat]
      /\ ValidTerms(config.pendingTerms.value)
  BY <1>1 DEF ApplyTerms, Ripe, Queued, Configs, Pending, IInv, QueueOK
<1>3. Begin(c) /\ UNCHANGED <<epoch, vault, cache, req, books, pausedAt>>
  BY DEF ApplyTerms
<1>4. c \in Configs /\ c.terms = config.pendingTerms.value /\ c.version = config.version
      /\ c.pendingTerms = None /\ c.paused = config.paused
      /\ c.pendingPause = config.pendingPause
  BY <1>1, <1>2 DEF Configs, Pending
<1>5. /\ config' = [c EXCEPT !.version = c.version + 1] /\ config' \in Configs
      /\ ValidTerms(config'.terms) /\ VersionsOK' /\ Grows
      /\ published' \in Seq([terms : Terms \cup {InitialTerms}, treasury : Treasuries,
                             paused : BOOLEAN])
  BY <1>2, <1>3, <1>4, BeginsVersion
<1>6. config'.pendingTerms = None /\ config'.paused = config.paused
      /\ config'.pendingPause = config.pendingPause
  BY <1>4, <1>5 DEF Configs
<1>7. QueueOK' /\ PauseOK'
  BY <1>3, <1>6 DEF IInv, QueueOK, PauseOK, Queued
<1>. QED
  BY <1>1, <1>3, <1>5, <1>7, AdminStep DEF IInv, TypeOK

LEMMA CancelKeeps == ASSUME IInv, NEW field \in Updates, Cancel(field) PROVE IInv'
<1>1. config \in Configs /\ epoch \in Nat
  BY DEF IInv, TypeOK
<1>2. /\ config' = [config EXCEPT ![field] = None]
      /\ UNCHANGED <<epoch, vault, cache, req, published, books, pausedAt>>
  BY DEF Cancel
<1>3. config' \in Configs /\ config'.terms = config.terms /\ config'.treasury = config.treasury
      /\ config'.paused = config.paused /\ config'.version = config.version
      /\ config'.pendingTerms \in {config.pendingTerms, None}
      /\ config'.pendingPause \in {config.pendingPause, None}
  BY <1>1, <1>2 DEF Configs, Pending, Updates
<1>4. QueueOK'
  BY <1>3 DEF IInv, QueueOK, Queued
<1>5. PauseOK'
  BY <1>2, <1>3 DEF IInv, PauseOK
<1>6. VersionsOK' /\ Grows /\ ValidTerms(config'.terms)
  BY <1>2, <1>3, QueueStep
<1>. QED
  BY <1>1, <1>2, <1>3, <1>4, <1>5, <1>6, AdminStep DEF IInv, TypeOK

LEMMA NextEpochKeeps == ASSUME IInv, NextEpoch PROVE IInv'
<1>1. config \in Configs /\ epoch \in Nat /\ pausedAt \in Nat \cup {None}
  BY DEF IInv, TypeOK
<1>2. epoch' = epoch + 1 /\ UNCHANGED <<config, vault, cache, req, published, books, pausedAt>>
  BY DEF NextEpoch
<1>3. QueueOK'
  BY <1>2 DEF IInv, QueueOK, Queued
<1>4. PauseOK'
  <2>1. PauseOK
    BY DEF IInv
  <2>. QED
    BY <1>1, <1>2, <2>1 DEF PauseOK, Delay
<1>5. VersionsOK' /\ Grows /\ ValidTerms(config'.terms)
  BY <1>1, <1>2, QueueStep
<1>. QED
  BY <1>1, <1>2, <1>3, <1>4, <1>5, AdminStep DEF IInv, TypeOK

LEMMA AdminKeeps == ASSUME IInv, Admin PROVE IInv'
  BY PauseKeeps, QueueUnpauseKeeps, ApplyUnpauseKeeps, QueueTreasuryKeeps, QueueTermsKeeps,
     ApplyTreasuryKeeps, ApplyTermsKeeps, CancelKeeps DEF Admin

-----------------------------------------------------------------------------
(* vault.move: withdrawals in the user's own transactions.                  *)

LEMMA VaultDebited ==
    ASSUME NEW x \in Vaults, NEW n \in Nat, n <= x.credit
    PROVE  LET v == [x EXCEPT !.credit = @ - n, !.pin = @ + 1]
           IN  /\ v \in Vaults /\ v.registered = x.registered /\ v.pin = x.pin + 1
               /\ v.credit = x.credit - n /\ v.lastNonce = x.lastNonce
<1>1. x.credit - n \in Nat /\ x.pin + 1 \in Nat
  BY DEF Vaults
<1> DEFINE v == [x EXCEPT !.credit = x.credit - n, !.pin = x.pin + 1]
<1>2. v.registered = x.registered /\ v.lastNonce = x.lastNonce
  BY DEF Vaults
<1>3. v.credit = x.credit - n /\ v.pin = x.pin + 1
  BY DEF Vaults
<1>4. v \in Vaults
  BY <1>1 DEF Vaults
<1>. QED
  BY <1>2, <1>3, <1>4

LEMMA BookDebited ==
    ASSUME NEW x \in [deposited : Nat, charged : Nat, withdrawn : Nat], NEW n \in Nat
    PROVE  LET b == [x EXCEPT !.withdrawn = @ + n]
           IN  /\ b \in [deposited : Nat, charged : Nat, withdrawn : Nat]
               /\ b.deposited = x.deposited /\ b.charged = x.charged
               /\ b.withdrawn = x.withdrawn + n
<1>1. x.withdrawn + n \in Nat
  OBVIOUS
<1>. QED
  BY <1>1

LEMMA WithdrawKeeps ==
    ASSUME IInv, NEW u \in Users, NEW amount \in 1..vault[u].credit, Withdraw(u, amount)
    PROVE  IInv'
<1> DEFINE v == [vault[u] EXCEPT !.credit = @ - amount, !.pin = @ + 1]
           b == [books[u] EXCEPT !.withdrawn = @ + amount]
<1>1. /\ vault' = [vault EXCEPT ![u] = v] /\ books' = [books EXCEPT ![u] = b]
      /\ vault[u].registered
      /\ UNCHANGED <<config, epoch, cache, req, published, pausedAt>>
  BY DEF Withdraw
<1>2. vault[u] \in Vaults /\ amount \in Nat /\ amount <= vault[u].credit
  BY DEF IInv, TypeOK, Vaults
<1>3. v \in Vaults /\ v.registered = vault[u].registered /\ v.pin = vault[u].pin + 1
      /\ v.credit = vault[u].credit - amount
  BY <1>2, VaultDebited
<1>4. b \in [deposited : Nat, charged : Nat, withdrawn : Nat] /\ b.deposited = books[u].deposited
      /\ b.charged = books[u].charged /\ b.withdrawn = books[u].withdrawn + amount
  BY <1>2, BookDebited DEF IInv, TypeOK
<1>5. vault' \in [Users -> Vaults]
      /\ books' \in [Users -> [deposited : Nat, charged : Nat, withdrawn : Nat]]
  BY <1>1, <1>3, <1>4 DEF IInv, TypeOK
<1>6. \A w \in Users : vault'[w] = IF w = u THEN v ELSE vault[w]
  BY <1>1 DEF IInv, TypeOK
<1>7. \A w \in Users : books'[w] = IF w = u THEN b ELSE books[w]
  BY <1>1 DEF IInv, TypeOK
<1>. HIDE DEF v, b
<1>14. v.registered
  BY <1>1, <1>3
<1>8. Grows
  <2>1. config'.version = config.version /\ config.version \in Nat /\ published' = published
    BY <1>1 DEF IInv, TypeOK, Configs
  <2>2. \A w \in Users : vault[w].pin \in Nat
    BY DEF IInv, TypeOK, Vaults
  <2>3. vault'[u].registered
    BY <1>6, <1>14
  <2>5. vault'[u].pin >= vault[u].pin /\ vault'[u].pin # vault[u].pin
    <3>1. vault'[u].pin = vault[u].pin + 1
      BY <1>3, <1>6
    <3>. QED
      BY <2>2, <3>1
  <2>4. \A w \in Users : w # u => vault'[w] = vault[w]
    BY <1>6
  <2>. QED
    BY <2>1, <2>2, <2>3, <2>4, <2>5 DEF Grows
<1>9. CacheOK' /\ RequestsOK' /\ cache' \in Caches /\ req' \in [Requests -> RequestRecords]
  BY <1>1, <1>5, <1>8, ChainStep DEF IInv, TypeOK
<1>10. TypeOK'
  BY <1>1, <1>5, <1>9 DEF IInv, TypeOK
<1>11. VaultsOK'
  BY <1>6, <1>14 DEF IInv, VaultsOK
<1>12. CreditConserved'
  <2>1. \A w \in Users : books[w].deposited = vault[w].credit + books[w].charged
                                                + books[w].withdrawn
    BY DEF IInv, CreditConserved
  <2>2. books[u].deposited \in Nat /\ books[u].charged \in Nat /\ books[u].withdrawn \in Nat
        /\ vault[u].credit \in Nat
    BY <1>2 DEF IInv, TypeOK, Vaults
  <2>3. b.deposited = v.credit + b.charged + b.withdrawn
    BY <1>2, <1>3, <1>4, <2>1, <2>2
  <2>. QED
    BY <1>6, <1>7, <2>1, <2>3 DEF CreditConserved
<1>13. VersionsOK' /\ QueueOK' /\ PauseOK'
  BY <1>1 DEF IInv, VersionsOK, InForce, QueueOK, Queued, PauseOK
<1>. QED
  BY <1>9, <1>10, <1>11, <1>12, <1>13 DEF IInv

-----------------------------------------------------------------------------
(* context.ts: the config cache.                                            *)

LEMMA ReadsInForce ==
    ASSUME IInv PROVE OnchainConfig \in SeenConfig /\ ReadOK(OnchainConfig)
  BY DEF IInv, TypeOK, Configs, VersionsOK, InForce, OnchainConfig, SeenConfig, ReadOK

LEMMA FetchReadsKeeps == ASSUME IInv, FetchReads PROVE IInv'
<1>1. /\ cache' = [cache EXCEPT !.fetch = "read", !.got = OnchainConfig]
      /\ UNCHANGED <<chain, req>>
  BY DEF FetchReads
<1>2. cache' \in Caches /\ cache'.config = cache.config /\ cache'.got = OnchainConfig
      /\ cache'.got \in SeenConfig
  BY <1>1, ReadsInForce DEF IInv, TypeOK, Caches
<1>3. CacheOK'
  BY <1>1, <1>2, ReadsInForce DEF IInv, CacheOK, ReadOK, chain
<1>. QED
  BY <1>1, <1>2, <1>3, HostStep DEF IInv, TypeOK, RequestsOK

LEMMA IdleTyped == Idle \in RequestRecords
  BY DEF Idle, RequestRecords, Done

\* A request that has planned nothing yet, or has ended without a settlement, only
\* has to know what it read.
LEMMA EarlyOK ==
    ASSUME NEW u \in Users, NEW x \in RequestRecords,
           x.pc \in {"reading", "refused", "expired"},
           x.config # None => ReadOK(x.config), x.withdraws => vault[u].registered,
           x.seen # None => x.seen.registered \/ (x.seen.credit = 0 /\ ~x.withdraws)
    PROVE  RequestOK(x, u)
  BY DEF RequestOK, Planned, Sealed

LEMMA RefusedOK ==
    ASSUME IInv, NEW r \in Requests, NEW why \in Aborts \cup Refusals
    PROVE  LET x == [Idle EXCEPT !.pc = "refused", !.cause = why, !.withdraws = req[r].withdraws]
           IN  x \in RequestRecords /\ RequestOK(x, UserOf[r])
<1> DEFINE x == [Idle EXCEPT !.pc = "refused", !.cause = why, !.withdraws = req[r].withdraws]
<1>1. UserOf[r] \in Users /\ req[r] \in RequestRecords /\ RequestOK(req[r], UserOf[r])
  BY SettlementAssumption DEF IInv, TypeOK, RequestsOK
<1>2. req[r].withdraws \in BOOLEAN /\ (req[r].withdraws => vault[UserOf[r]].registered)
  BY <1>1 DEF RequestRecords, RequestOK
<1>3. x \in RequestRecords
  BY <1>2, IdleTyped DEF RequestRecords, Done
<1>4. x.pc = "refused" /\ x.config = None /\ x.seen = None /\ x.withdraws = req[r].withdraws
  BY DEF Idle
<1>5. RequestOK(x, UserOf[r])
  BY <1>1, <1>2, <1>3, <1>4, EarlyOK
<1>. QED
  BY <1>3, <1>5

LEMMA RefuseKeeps ==
    ASSUME IInv, NEW r \in Requests, NEW why \in Aborts \cup Refusals, Refuse(r, why),
           UNCHANGED <<chain, cache>>
    PROVE  IInv'
  BY RefusedOK, RequestStep DEF Refuse

LEMMA FetchReturnsKeeps == ASSUME IInv, FetchReturns PROVE IInv'
<1>1. /\ cache.fetch = "read" /\ UNCHANGED chain
      /\ cache' = [config |-> cache.got, fresh |-> TRUE, fetch |-> "none", got |-> None]
  BY DEF FetchReturns
<1>2. cache.got \in SeenConfig /\ ReadOK(cache.got)
  BY <1>1 DEF IInv, CacheOK
<1>3. cache' \in Caches /\ CacheOK'
  <2>1. cache' \in Caches
    BY <1>1, <1>2 DEF Caches
  <2>2. ReadOK(cache'.config)
    BY <1>1, <1>2
  <2>3. cache'.fetch = "none"
    BY <1>1
  <2>4. ReadOK(cache.config)'
    BY <1>1, <2>2 DEF ReadOK, chain
  <2>. QED
    BY <2>1, <2>3, <2>4 DEF CacheOK
<1>4. ASSUME NEW r \in Requests
      PROVE  req'[r] \in RequestRecords /\ RequestOK(req'[r], UserOf[r])
  <2>. UserOf[r] \in Users /\ req[r] \in RequestRecords /\ RequestOK(req[r], UserOf[r])
    BY SettlementAssumption DEF IInv, TypeOK, RequestsOK
  <2>1. CASE ~Waiting(r)
    <3>. req'[r] = req[r]
      BY <2>1 DEF FetchReturns
    <3>. QED
      OBVIOUS
  <2>2. CASE Waiting(r) /\ req[r].pc = "reading"
    <3> DEFINE x == [req[r] EXCEPT !.config = cache.got]
    <3>1. req'[r] = x
      BY <2>2 DEF FetchReturns
    <3>2. x \in RequestRecords /\ x.pc = "reading" /\ x.config = cache.got
          /\ x.withdraws = req[r].withdraws /\ x.seen = req[r].seen
      BY <1>2, <2>2 DEF RequestRecords
    <3>. HIDE DEF x
    <3>4. x.seen # None => x.seen.registered \/ (x.seen.credit = 0 /\ ~x.withdraws)
      BY <3>2 DEF RequestOK
    <3>5. ReadOK(x.config) /\ (x.withdraws => vault[UserOf[r]].registered)
      BY <1>2, <3>2 DEF RequestOK
    <3>3. RequestOK(x, UserOf[r])
      BY <3>2, <3>4, <3>5, EarlyOK
    <3>. QED
      BY <3>1, <3>2, <3>3
  <2>3. CASE Waiting(r) /\ req[r].pc # "reading"
    <3> DEFINE x == [req[r] EXCEPT !.pc = "checking", !.fresh = cache.got]
    <3>1. req'[r] = x /\ req[r].pc = "revalidating"
      BY <2>3 DEF FetchReturns, Waiting
    <3>2. x \in RequestRecords /\ x.pc = "checking" /\ x.config = req[r].config
          /\ x.withdraws = req[r].withdraws /\ x.seen = req[r].seen /\ x.tx = req[r].tx
      BY <1>2 DEF RequestRecords
    <3>3. RequestOK(x, UserOf[r])
      BY <3>1, <3>2 DEF RequestOK, Planned, Sealed
    <3>. QED
      BY <3>1, <3>2, <3>3
  <2>. QED
    BY <2>1, <2>2, <2>3
<1>5. req' \in [Requests -> RequestRecords]
  BY <1>4 DEF FetchReturns
<1>. QED
  BY <1>1, <1>3, <1>4, <1>5, HostStep

LEMMA FetchFailsKeeps == ASSUME IInv, FetchFails PROVE IInv'
<1>1. cache' = [cache EXCEPT !.fetch = "none", !.got = None] /\ UNCHANGED chain
  BY DEF FetchFails
<1>2. cache' \in Caches /\ cache'.config = cache.config /\ cache'.got = None
      /\ cache'.fetch = "none"
  BY <1>1 DEF IInv, TypeOK, Caches
<1>3. CacheOK'
  BY <1>1, <1>2 DEF IInv, CacheOK, ReadOK, chain
<1>4. ASSUME NEW r \in Requests
      PROVE  req'[r] \in RequestRecords /\ RequestOK(req'[r], UserOf[r])
  <2>. UserOf[r] \in Users /\ req[r] \in RequestRecords /\ RequestOK(req[r], UserOf[r])
    BY SettlementAssumption DEF IInv, TypeOK, RequestsOK
  <2>1. CASE ~Waiting(r)
    <3>. req'[r] = req[r]
      BY <2>1 DEF FetchFails
    <3>. QED
      OBVIOUS
  <2>2. CASE Waiting(r)
    <3> DEFINE x == [req[r] EXCEPT !.pc = "refused", !.cause = "ChainReadFailed"]
    <3>1. req'[r] = x
      BY <2>2 DEF FetchFails
    <3>2. x.pc = "refused" /\ x.config = req[r].config
          /\ x.withdraws = req[r].withdraws /\ x.seen = req[r].seen
      BY DEF RequestRecords
    <3>4. x \in RequestRecords
      BY ZenonT(60) DEF RequestRecords, Done, Refusals
    <3>. HIDE DEF x
    <3>5. x.seen # None => x.seen.registered \/ (x.seen.credit = 0 /\ ~x.withdraws)
      BY <3>2 DEF RequestOK
    <3>6. (x.config # None => ReadOK(x.config)) /\ (x.withdraws => vault[UserOf[r]].registered)
      BY <3>2 DEF RequestOK
    <3>3. RequestOK(x, UserOf[r])
      BY <3>2, <3>4, <3>5, <3>6, EarlyOK
    <3>. QED
      BY <3>1, <3>3, <3>4
  <2>. QED
    BY <2>1, <2>2
<1>5. req' \in [Requests -> RequestRecords]
  BY <1>4 DEF FetchFails
<1>. QED
  BY <1>1, <1>2, <1>3, <1>4, <1>5, HostStep

LEMMA TtlPassesKeeps == ASSUME IInv, TtlPasses PROVE IInv'
<1>1. cache' = [cache EXCEPT !.fresh = FALSE] /\ UNCHANGED <<chain, req>>
  BY DEF TtlPasses
<1>2. cache' \in Caches /\ cache'.config = cache.config /\ cache'.got = cache.got
      /\ cache'.fetch = cache.fetch
  BY <1>1 DEF IInv, TypeOK, Caches
<1>3. CacheOK'
  BY <1>1, <1>2 DEF IInv, CacheOK, ReadOK, chain
<1>. QED
  BY <1>1, <1>2, <1>3, HostStep DEF IInv, TypeOK, RequestsOK

-----------------------------------------------------------------------------
(* /prepare, up to the final build.                                         *)

LEMMA RequestTyped ==
    ASSUME IInv, NEW r \in Requests
    PROVE  UserOf[r] \in Users /\ req[r] \in RequestRecords /\ RequestOK(req[r], UserOf[r])
  BY SettlementAssumption DEF IInv, TypeOK, RequestsOK

\* A request moves to the record x, and the cache may start a read.
LEMMA CachedStep ==
    ASSUME IInv, NEW r \in Requests, NEW x \in RequestRecords, RequestOK(x, UserOf[r]),
           req' = [req EXCEPT ![r] = x], UNCHANGED chain, cache' \in Caches,
           cache'.config = cache.config, cache'.got = cache.got,
           cache'.fetch = cache.fetch \/ cache'.fetch = "sent"
    PROVE  IInv'
<1>1. req' \in [Requests -> RequestRecords]
  BY DEF IInv, TypeOK
<1>2. \A q \in Requests : RequestOK(req'[q], UserOf[q])
  BY DEF IInv, TypeOK, RequestsOK
<1>3. CacheOK'
  BY DEF IInv, CacheOK, ReadOK, chain
<1>. QED
  BY <1>1, <1>2, <1>3, HostStep

LEMMA GetConfigOK ==
    ASSUME IInv, NEW c \in {cache, [cache EXCEPT !.fresh = FALSE]}
    PROVE  /\ GetConfig(c) \in Caches
           /\ GetConfig(c).config = cache.config /\ GetConfig(c).got = cache.got
           /\ GetConfig(c).fetch = cache.fetch \/ GetConfig(c).fetch = "sent"
<1>1. c \in Caches /\ c.config = cache.config /\ c.got = cache.got /\ c.fetch = cache.fetch
  BY DEF IInv, TypeOK, Caches
<1>2. CASE c.fresh \/ c.fetch # "none"
  BY <1>1, <1>2 DEF GetConfig
<1>3. CASE ~(c.fresh \/ c.fetch # "none")
  <2>1. GetConfig(c) = [c EXCEPT !.fetch = "sent"]
    BY <1>3 DEF GetConfig
  <2>. QED
    BY <1>1, <2>1 DEF Caches
<1>. QED
  BY <1>2, <1>3

LEMMA StartPrepareKeeps == ASSUME IInv, NEW r \in Requests, StartPrepare(r) PROVE IInv'
<1>1. PICK w \in WithdrawChoices :
        /\ w => vault[UserOf[r]].registered
        /\ req' = [req EXCEPT ![r].pc = "reading", ![r].withdraws = w,
                              ![r].config = IF cache.fresh THEN cache.config ELSE None]
  BY DEF StartPrepare
<1>2. req[r].pc = "idle" /\ cache' = GetConfig(cache) /\ UNCHANGED chain
  BY DEF StartPrepare
<1> DEFINE c == IF cache.fresh THEN cache.config ELSE None
           x == [req[r] EXCEPT !.pc = "reading", !.withdraws = w, !.config = c]
<1>3. w \in BOOLEAN
  BY SettlementAssumption
<1>4. c \in SeenConfig \cup {None} /\ (c # None => ReadOK(c))
  BY DEF IInv, TypeOK, Caches, CacheOK
<1>5. req' = [req EXCEPT ![r] = x]
  BY <1>1 DEF IInv, TypeOK
<1>. HIDE DEF c
<1>6. x \in RequestRecords
  BY <1>3, <1>4, RequestTyped, ZenonT(60) DEF RequestRecords
<1>7. x.pc = "reading" /\ x.withdraws = w /\ x.config = c /\ x.seen = req[r].seen
  BY RequestTyped DEF RequestRecords
<1>. HIDE DEF x
<1>8. req[r].seen = None
  BY <1>2, RequestTyped DEF RequestOK
<1>9. RequestOK(x, UserOf[r])
  BY <1>1, <1>4, <1>6, <1>7, <1>8, RequestTyped, EarlyOK
<1>. QED
  BY <1>2, <1>5, <1>6, <1>9, GetConfigOK, CachedStep

LEMMA ReadCreditKeeps == ASSUME IInv, NEW r \in Requests, ReadCredit(r) PROVE IInv'
<1> DEFINE v == vault[UserOf[r]]
           s == [registered |-> v.registered, credit |-> v.credit, lastNonce |-> v.lastNonce]
           x == [req[r] EXCEPT !.seen = s]
<1>1. req[r].pc = "reading" /\ req' = [req EXCEPT ![r] = x] /\ UNCHANGED <<chain, cache>>
  BY DEF ReadCredit, IInv, TypeOK
<1>2. v \in Vaults /\ (~v.registered => v.credit = 0)
  BY RequestTyped DEF IInv, TypeOK, VaultsOK
<1>3. s \in Credits /\ (s.registered <=> v.registered) /\ s.credit = v.credit
  BY <1>2 DEF Vaults, Credits
<1>. HIDE DEF s
<1>4. x \in RequestRecords
  BY <1>3, RequestTyped DEF RequestRecords
<1>5. x.pc = "reading" /\ x.withdraws = req[r].withdraws /\ x.config = req[r].config
      /\ x.seen = s
  BY <1>1, RequestTyped DEF RequestRecords
<1>. HIDE DEF x
<1>6. x.withdraws => v.registered
  BY <1>5, RequestTyped DEF RequestOK
<1>7. s.registered \/ (s.credit = 0 /\ ~x.withdraws)
  BY <1>2, <1>3, <1>6
<1>8. x.config # None => ReadOK(x.config)
  BY <1>5, RequestTyped DEF RequestOK
<1>9. RequestOK(x, UserOf[r])
  BY <1>4, <1>5, <1>6, <1>7, <1>8, RequestTyped, EarlyOK
<1>. QED
  BY <1>1, <1>4, <1>9, RequestStep

\* A request that goes on planning with what it has read.
LEMMA PlannedOK ==
    ASSUME NEW u \in Users, NEW x \in RequestRecords, RequestOK(x, u), NEW y \in RequestRecords,
           y.pc \in Planned, y.config = x.config, y.seen = x.seen, y.withdraws = x.withdraws,
           y.config # None, y.seen # None, y.nonce > 0
    PROVE  RequestOK(y, u)
  BY DEF RequestOK, Planned, Sealed

LEMMA PlanKeeps ==
    ASSUME IInv, NEW r \in Requests, req[r].pc \in Planned, NEW y \in RequestRecords,
           y.pc \in Planned, y.config = req[r].config, y.seen = req[r].seen,
           y.withdraws = req[r].withdraws, y.nonce = req[r].nonce,
           req' = [req EXCEPT ![r] = y], UNCHANGED <<chain, cache>>
    PROVE  IInv'
<1>1. req[r].config # None /\ req[r].seen # None /\ req[r].nonce > 0
  BY RequestTyped DEF RequestOK
<1>2. RequestOK(y, UserOf[r])
  BY <1>1, RequestTyped, PlannedOK
<1>. QED
  BY <1>2, RequestStep

LEMMA ReserveNonceKeeps == ASSUME IInv, NEW r \in Requests, ReserveNonce(r) PROVE IInv'
<1>1. /\ req[r].pc = "reading" /\ req[r].seen # None /\ req[r].config # None
      /\ UNCHANGED <<chain, cache>>
  BY DEF ReserveNonce
<1>2. PICK last \in Taken(r) :
        req' = [req EXCEPT ![r].nonce = last + 1,
                           ![r].pc = IF req[r].seen.registered THEN "probing"
                                                               ELSE "measuring"]
  BY DEF ReserveNonce
<1>3. last \in Nat
  <2>1. req[r].seen.lastNonce \in Nat
    BY <1>1, RequestTyped DEF RequestRecords, Credits
  <2>2. \A q \in Requests : req[q].nonce \in Nat
    BY DEF IInv, TypeOK, RequestRecords
  <2>. QED
    BY <2>1, <2>2 DEF Taken
<1> DEFINE p == IF req[r].seen.registered THEN "probing" ELSE "measuring"
           y == [req[r] EXCEPT !.nonce = last + 1, !.pc = p]
<1>4. p \in {"probing", "measuring"} /\ last + 1 \in Nat /\ last + 1 > 0
  BY <1>3
<1>5. req' = [req EXCEPT ![r] = y]
  BY <1>2 DEF IInv, TypeOK
<1>. HIDE DEF p
<1>6. y \in RequestRecords
  <2>1. req[r] \in RequestRecords
    BY RequestTyped
  <2>2. [req[r] EXCEPT !.nonce = last + 1] \in RequestRecords
    BY <1>4, <2>1 DEF RequestRecords
  <2>3. y = [[req[r] EXCEPT !.nonce = last + 1] EXCEPT !.pc = p]
    BY <2>1 DEF RequestRecords
  <2> DEFINE z == [req[r] EXCEPT !.nonce = last + 1]
  <2>4. z \in RequestRecords /\ y = [z EXCEPT !.pc = p]
    BY <2>2, <2>3
  <2>. HIDE DEF z, y
  <2>. QED
    BY <1>4, <2>4 DEF RequestRecords
<1>7. y.pc = p /\ y.config = req[r].config /\ y.seen = req[r].seen
      /\ y.withdraws = req[r].withdraws /\ y.nonce = last + 1
  BY RequestTyped DEF RequestRecords
<1>. HIDE DEF y
<1>8. y.pc \in Planned
  BY <1>4, <1>7 DEF Planned
<1>9. RequestOK(y, UserOf[r])
  BY <1>1, <1>4, <1>6, <1>7, <1>8, RequestTyped, PlannedOK
<1>. QED
  BY <1>1, <1>5, <1>6, <1>9, RequestStep

LEMMA AbortTyped == ASSUME NEW t, NEW u, NEW m PROVE Abort(t, u, m) \in Aborts \cup {"none"}
<1>1. \A total : CoreAbort(t, total) \in Aborts \cup {"none"}
  BY DEF CoreAbort, Aborts
<1>. QED
  BY <1>1 DEF Abort, Aborts

\* A dry run that aborts ends the request.
LEMMA AbortKeeps ==
    ASSUME IInv, NEW r \in Requests, NEW t, NEW u, NEW m, Abort(t, u, m) # "none",
           Refuse(r, Abort(t, u, m)), UNCHANGED <<chain, cache>>
    PROVE  IInv'
  BY AbortTyped, RefuseKeeps

LEMMA CreditProbeKeeps == ASSUME IInv, NEW r \in Requests, CreditProbe(r) PROVE IInv'
<1> DEFINE maxClaim == req[r].config.terms.maxClaim
           seeds == {c \in 0..maxClaim : CreditCovers(r, c)}
           probe(seed) == CreditCall(r, seed, maxClaim)
           filled == [book |-> "filled", out |-> 0]
<1>1. req[r].pc = "probing" /\ UNCHANGED <<chain, cache>>
  BY DEF CreditProbe
<1>2. req[r] \in RequestRecords /\ req[r].pc \in Planned
  BY <1>1, RequestTyped DEF Planned
<1>3. \A p, g, path : [req EXCEPT ![r].pc = p, ![r].gas = g, ![r].path = path]
                        = [req EXCEPT ![r] = [req[r] EXCEPT !.pc = p, !.gas = g, !.path = path]]
  BY DEF IInv, TypeOK
<1>4. \A p : [req EXCEPT ![r].pc = p] = [req EXCEPT ![r] = [req[r] EXCEPT !.pc = p]]
  BY DEF IInv, TypeOK
<1>5. CASE req' = [req EXCEPT ![r].pc = "measuring"]
  <2> DEFINE y == [req[r] EXCEPT !.pc = "measuring"]
  <2>1. y \in RequestRecords /\ y.pc \in Planned
    BY <1>2 DEF RequestRecords, Planned
  <2>2. y.config = req[r].config /\ y.seen = req[r].seen /\ y.withdraws = req[r].withdraws
        /\ y.nonce = req[r].nonce
    BY <1>2 DEF RequestRecords
  <2>3. req' = [req EXCEPT ![r] = y]
    BY <1>4, <1>5
  <2>. HIDE DEF y
  <2>. QED
    BY <1>1, <1>2, <2>1, <2>2, <2>3, PlanKeeps
<1>6. ASSUME NEW gas \in Gases,
             req' = [req EXCEPT ![r].pc = "building", ![r].gas = gas, ![r].path = "credit"]
      PROVE  IInv'
  <2> DEFINE y == [req[r] EXCEPT !.pc = "building", !.gas = gas, !.path = "credit"]
  <2>1. y \in RequestRecords /\ y.pc \in Planned
    <3>1. gas \in Nat
      BY SettlementAssumption
    <3>2. y \in RequestRecords
      BY <1>2, <3>1 DEF RequestRecords
    <3>3. y.pc \in Planned
      BY <1>2 DEF RequestRecords, Planned
    <3>. QED
      BY <3>2, <3>3
  <2>2. y.config = req[r].config /\ y.seen = req[r].seen /\ y.withdraws = req[r].withdraws
        /\ y.nonce = req[r].nonce
    BY <1>2 DEF RequestRecords
  <2>3. req' = [req EXCEPT ![r] = y]
    BY <1>3, <1>6
  <2>. HIDE DEF y
  <2>. QED
    BY <1>1, <1>2, <2>1, <2>2, <2>3, PlanKeeps
<1>7. CASE Refuse(r, "ClaimWouldExceedMax")
  BY <1>1, <1>7, RefuseKeeps DEF Refusals
<1>8. ASSUME NEW seed \in seeds, Abort(probe(seed), UserOf[r], filled) # "none",
             Refuse(r, Abort(probe(seed), UserOf[r], filled))
      PROVE  IInv'
  BY <1>1, <1>8, AbortKeeps
<1>. QED
  BY <1>5, <1>6, <1>7, <1>8 DEF CreditProbe

LEMMA NoFundingKeeps == ASSUME IInv, NEW r \in Requests, NoFunding(r) PROVE IInv'
  BY RefuseKeeps DEF NoFunding, Refusals

LEMMA MaxClaimGasProbeKeeps ==
    ASSUME IInv, NEW r \in Requests, MaxClaimGasProbe(r) PROVE IInv'
<1>1. req[r].pc = "measuring" /\ UNCHANGED <<chain, cache>>
  BY DEF MaxClaimGasProbe
<1>2. req[r] \in RequestRecords /\ req[r].pc \in Planned
  BY <1>1, RequestTyped DEF Planned
<1>3. ASSUME NEW t, NEW m, Abort(t, UserOf[r], m) # "none", Refuse(r, Abort(t, UserOf[r], m))
      PROVE  IInv'
  BY <1>1, <1>3, AbortKeeps
<1>4. ASSUME NEW gas \in Gases, req' = [req EXCEPT ![r].pc = "gap", ![r].gas = gas]
      PROVE  IInv'
  <2> DEFINE y == [req[r] EXCEPT !.pc = "gap", !.gas = gas]
  <2>1. y \in RequestRecords /\ y.pc \in Planned
    <3>1. gas \in Nat
      BY SettlementAssumption
    <3>2. y \in RequestRecords
      BY <1>2, <3>1 DEF RequestRecords
    <3>3. y.pc \in Planned
      BY <1>2 DEF RequestRecords, Planned
    <3>. QED
      BY <3>2, <3>3
  <2>2. y.config = req[r].config /\ y.seen = req[r].seen /\ y.withdraws = req[r].withdraws
        /\ y.nonce = req[r].nonce
    BY <1>2 DEF RequestRecords
  <2>3. req' = [req EXCEPT ![r] = y]
    BY <1>4 DEF IInv, TypeOK
  <2>. HIDE DEF y
  <2>. QED
    BY <1>1, <1>2, <2>1, <2>2, <2>3, PlanKeeps
<1>. QED
  BY <1>3, <1>4 DEF MaxClaimGasProbe

LEMMA MeasureSwapExecutionGapKeeps ==
    ASSUME IInv, NEW r \in Requests, MeasureSwapExecutionGap(r) PROVE IInv'
<1>1. req[r].pc = "gap" /\ UNCHANGED <<chain, cache>>
  BY DEF MeasureSwapExecutionGap
<1>2. req[r] \in RequestRecords /\ req[r].pc \in Planned
  BY <1>1, RequestTyped DEF Planned
<1>3. PICK gap \in Gaps : req' = [req EXCEPT ![r].pc = "building", ![r].path = "swap",
                                             ![r].gap = gap]
  BY DEF MeasureSwapExecutionGap
<1> DEFINE y == [req[r] EXCEPT !.pc = "building", !.path = "swap", !.gap = gap]
<1>4. y \in RequestRecords /\ y.pc \in Planned
  <2>1. gap \in Nat
    BY SettlementAssumption
  <2>2. y \in RequestRecords
    BY <1>2, <2>1 DEF RequestRecords
  <2>3. y.pc \in Planned
    BY <1>2 DEF RequestRecords, Planned
  <2>. QED
    BY <2>2, <2>3
<1>5. y.config = req[r].config /\ y.seen = req[r].seen /\ y.withdraws = req[r].withdraws
      /\ y.nonce = req[r].nonce
  BY <1>2 DEF RequestRecords
<1>6. req' = [req EXCEPT ![r] = y]
  BY <1>3 DEF IInv, TypeOK
<1>. HIDE DEF y
<1>. QED
  BY <1>1, <1>2, <1>4, <1>5, <1>6, PlanKeeps

-----------------------------------------------------------------------------
(* The settle call: what the planner puts in, and what a dry run of it shows. *)

LEMMA TermsTyped ==
    ASSUME NEW t \in Terms \cup {InitialTerms}
    PROVE  /\ t.hostCap \in Nat /\ t.protocolFee \in Nat
           /\ t.maxClaim \in Nat /\ t.minSettle \in Nat
  BY SettlementAssumption DEF IsTerms

LEMMA NeedCovers ==
    ASSUME NEW fees \in Terms \cup {InitialTerms}, NEW claim \in Nat
    PROVE  /\ Need(fees, claim) \in Nat
           /\ Need(fees, claim) >= claim + HostFee + fees.protocolFee
           /\ Need(fees, claim) >= fees.minSettle
<1>1. fees.protocolFee \in Nat /\ fees.minSettle \in Nat /\ HostFee \in Nat
  BY TermsTyped, SettlementAssumption
<1>2. claim + HostFee + fees.protocolFee \in Nat
  BY <1>1
<1>. QED
  BY <1>1, <1>2 DEF Need, Greater

\* The guarded output is never below what is required, whatever the quote.
LEMMA OutputCovers ==
    ASSUME NEW required \in Nat, NEW verified \in Nat
    PROVE  MinSuiOut(required, verified) \in Nat /\ MinSuiOut(required, verified) >= required
<1>1. Tolerance \in Nat
  BY SettlementAssumption
<1>. QED
  BY <1>1 DEF MinSuiOut, Greater

\* What the planner promises of a call t for request r.
Fits(r, t) ==
    LET fees == req[r].config.terms
    IN /\ t \in Tx
       /\ t.hostFee = HostFee /\ t.protocolFee = fees.protocolFee
       /\ t.version = req[r].config.version
       /\ t.budget <= fees.maxClaim
       /\ t.nonce = req[r].nonce /\ (t.withdraws <=> req[r].withdraws)
       /\ t.pin = vault[UserOf[r]].pin
       /\ t.use + t.minOut >= t.claim + HostFee + fees.protocolFee
       /\ t.variant = "credit" => t.minOut = 0
       /\ t.variant # "credit" => t.use + t.minOut >= fees.minSettle
       /\ t.variant = "new_user" => t.use = 0 /\ ~t.withdraws

LEMMA PlanningTyped ==
    ASSUME IInv, NEW r \in Requests, req[r].pc \in Planned
    PROVE  /\ req[r].config \in SeenConfig /\ req[r].seen \in Credits
           /\ req[r].config.terms \in Terms \cup {InitialTerms} /\ req[r].config.version \in Nat
           /\ ReadOK(req[r].config)
           /\ req[r].nonce \in Nat /\ req[r].nonce > 0 /\ req[r].withdraws \in BOOLEAN
           /\ req[r].gas \in Nat /\ req[r].gap \in Nat
           /\ req[r].seen.registered \/ (req[r].seen.credit = 0 /\ ~req[r].withdraws)
           /\ vault[UserOf[r]].pin \in Nat
<1>1. req[r].config # None /\ req[r].seen # None /\ req[r].nonce > 0
  BY RequestTyped DEF RequestOK
<1>2. req[r].config \in SeenConfig /\ req[r].seen \in Credits
  BY <1>1, RequestTyped DEF RequestRecords
<1>3. req[r].nonce \in Nat /\ req[r].withdraws \in BOOLEAN /\ req[r].gas \in Nat /\ req[r].gap \in Nat
  BY RequestTyped DEF RequestRecords
<1>4. vault[UserOf[r]].pin \in Nat
  BY RequestTyped DEF IInv, TypeOK, Vaults
<1>5. ReadOK(req[r].config)
      /\ (req[r].seen.registered \/ (req[r].seen.credit = 0 /\ ~req[r].withdraws))
  BY <1>1, RequestTyped DEF RequestOK
<1>. QED
  BY <1>1, <1>2, <1>3, <1>4, <1>5 DEF SeenConfig

LEMMA CreditCallFits ==
    ASSUME IInv, NEW r \in Requests, req[r].pc \in Planned, NEW claim \in Nat,
           NEW budget \in Nat, budget <= req[r].config.terms.maxClaim
    PROVE  Fits(r, CreditCall(r, claim, budget))
<1> DEFINE fees == req[r].config.terms
           use == Need(fees, claim)
           t == CreditCall(r, claim, budget)
<1>1. use \in Nat /\ use >= claim + HostFee + fees.protocolFee /\ fees.protocolFee \in Nat
  BY NeedCovers, PlanningTyped, TermsTyped
<1>2. t = [variant |-> "credit", use |-> use, minOut |-> 0, claim |-> claim, buffer |-> 0,
           budget |-> budget, hostFee |-> HostFee, protocolFee |-> fees.protocolFee,
           version |-> req[r].config.version, nonce |-> req[r].nonce,
           withdraws |-> req[r].withdraws, pin |-> vault[UserOf[r]].pin]
  BY DEF CreditCall, Call
<1>. HIDE DEF use, t
<1>3. t \in Tx
  BY <1>1, <1>2, PlanningTyped, SettlementAssumption DEF Tx, Variants
<1>4. t.use + t.minOut >= t.claim + HostFee + fees.protocolFee
  BY <1>1, <1>2
<1>5. Fits(r, t)
  BY <1>2, <1>3, <1>4 DEF Fits
<1>. QED
  BY <1>5 DEF t

LEMMA SwapCallFits ==
    ASSUME IInv, NEW r \in Requests, req[r].pc \in Planned, NEW claim \in Nat, NEW buffer \in Nat,
           NEW verified \in Nat, NEW budget \in Nat, budget <= req[r].config.terms.maxClaim
    PROVE  Fits(r, SwapCall(r, claim, buffer, verified, budget))
<1> DEFINE fees == req[r].config.terms
           credit == req[r].seen.credit
           required == RequiredSwapOutput(r, claim)
           variant == IF req[r].seen.registered THEN "with_vault" ELSE "new_user"
           out == MinSuiOut(required, verified)
           t == SwapCall(r, claim, buffer, verified, budget)
<1>1. /\ fees.protocolFee \in Nat /\ fees.minSettle \in Nat /\ credit \in Nat
      /\ Need(fees, claim) \in Nat /\ Need(fees, claim) >= claim + HostFee + fees.protocolFee
      /\ Need(fees, claim) >= fees.minSettle /\ HostFee \in Nat
  BY NeedCovers, PlanningTyped, TermsTyped, SettlementAssumption DEF Credits
<1>2. required \in Nat /\ credit + required >= Need(fees, claim)
  BY <1>1 DEF RequiredSwapOutput
<1>3. out \in Nat /\ out >= required
  BY <1>2, OutputCovers
<1>4. variant \in Variants /\ variant # "credit" /\ (variant = "new_user" => ~req[r].seen.registered)
  BY DEF Variants
<1>5. t = [variant |-> variant, use |-> credit, minOut |-> out, claim |-> claim,
           buffer |-> buffer, budget |-> budget, hostFee |-> HostFee,
           protocolFee |-> fees.protocolFee, version |-> req[r].config.version,
           nonce |-> req[r].nonce, withdraws |-> req[r].withdraws, pin |-> vault[UserOf[r]].pin]
  BY DEF SwapCall, Call
<1>. HIDE DEF required, variant, out, t
<1>6. t \in Tx
  BY <1>1, <1>3, <1>4, <1>5, PlanningTyped DEF Tx
<1>7. credit + out >= claim + HostFee + fees.protocolFee /\ credit + out >= fees.minSettle
  BY <1>1, <1>2, <1>3
<1>8. variant = "new_user" => credit = 0 /\ ~req[r].withdraws
  BY <1>4, PlanningTyped
<1>9. Fits(r, t)
  BY <1>4, <1>5, <1>6, <1>7, <1>8 DEF Fits
<1>. QED
  BY <1>9 DEF t

\* A simulation or execution that completes has passed every assert.
LEMMA CompletedPasses ==
    ASSUME IInv, NEW u \in Users, NEW t \in Tx, NEW m, m.out \in Nat, Abort(t, u, m) = "none"
    PROVE  /\ t.withdraws => vault[u].credit > 0
           /\ t.variant # "new_user" => vault[u].registered
           /\ t.variant = "new_user" => ~vault[u].registered
           /\ t.use <= CreditLeft(t, u)
           /\ t.nonce > vault[u].lastNonce
           /\ CoreAbort(t, t.use + m.out) = "none"
<1>1. vault[u].credit \in Nat /\ vault[u].lastNonce \in Nat /\ t.use \in Nat /\ t.nonce \in Nat
  BY DEF IInv, TypeOK, Vaults, Tx
<1>2. CreditLeft(t, u) \in Nat
  BY <1>1 DEF CreditLeft
<1>3. /\ ~(t.withdraws /\ vault[u].credit = 0)
      /\ ~(t.variant # "new_user" /\ ~vault[u].registered)
      /\ ~(t.use > CreditLeft(t, u))
      /\ ~(t.variant = "new_user" /\ vault[u].registered)
      /\ ~(t.nonce <= vault[u].lastNonce)
      /\ CoreAbort(t, t.use + m.out) = "none"
  BY DEF Abort
<1>. QED
  BY <1>1, <1>2, <1>3

LEMMA CorePasses ==
    ASSUME IInv, NEW t \in Tx, NEW total \in Nat, CoreAbort(t, total) = "none"
    PROVE  /\ ~config.paused /\ config.version = t.version
           /\ t.claim <= config.terms.maxClaim /\ t.hostFee <= config.terms.hostCap
           /\ config.terms.protocolFee = t.protocolFee
           /\ total >= t.claim + t.hostFee + config.terms.protocolFee
<1>1. /\ config.terms.maxClaim \in Nat /\ config.terms.hostCap \in Nat
      /\ config.terms.protocolFee \in Nat /\ t.claim \in Nat /\ t.hostFee \in Nat
  BY TermsTyped DEF IInv, TypeOK, Configs, Tx
<1>2. /\ ~config.paused /\ ~(t.claim > config.terms.maxClaim)
      /\ ~(config.version # t.version) /\ ~(config.terms.protocolFee # t.protocolFee)
      /\ ~(t.hostFee > config.terms.hostCap)
      /\ ~(total < t.claim + t.hostFee + config.terms.protocolFee)
  BY DEF CoreAbort
<1>. QED
  BY <1>1, <1>2

LEMMA OutputTyped == ASSUME NEW t \in Tx, NEW m \in Markets(t) PROVE m.out \in Nat
<1>1. t.minOut \in Nat /\ \A more \in Improvements : more \in Nat
  BY SettlementAssumption DEF Tx
<1>. QED
  BY <1>1 DEF Markets

\* A fitting call whose dry run completes may be sealed.
LEMMA SealedByDryRun ==
    ASSUME IInv, NEW r \in Requests, req[r].pc \in Planned, NEW t, Fits(r, t),
           NEW m \in Markets(t), Abort(t, UserOf[r], m) = "none"
    PROVE  SealedOK(t, UserOf[r])
<1> DEFINE u == UserOf[r]
           agreed == published[t.version + 1]
<1>1. t \in Tx /\ u \in Users /\ m.out \in Nat
  BY OutputTyped, RequestTyped DEF Fits
<1>2. /\ t.withdraws => vault[u].credit > 0
      /\ t.variant # "new_user" => vault[u].registered
      /\ t.variant = "new_user" => ~vault[u].registered
      /\ t.use <= CreditLeft(t, u) /\ t.nonce > vault[u].lastNonce
      /\ CoreAbort(t, t.use + m.out) = "none"
  BY <1>1, CompletedPasses
<1>3. t.use + m.out \in Nat
  BY <1>1 DEF Tx
<1>4. /\ ~config.paused /\ config.version = t.version
      /\ t.claim <= config.terms.maxClaim /\ t.hostFee <= config.terms.hostCap
  BY <1>1, <1>2, <1>3, CorePasses
<1>5. agreed.terms = config.terms /\ agreed.paused = config.paused
  BY <1>4 DEF IInv, VersionsOK, InForce
<1>6. agreed.terms = req[r].config.terms
  BY PlanningTyped DEF Fits, ReadOK
<1>7. t.variant = "new_user" => t.use = 0 /\ t.nonce > 0 /\ ~t.withdraws
  BY PlanningTyped DEF Fits
<1>8. t.pin = vault[u].pin /\ vault[u].pin \in Nat /\ t.pin <= vault[u].pin
  BY PlanningTyped DEF Fits
<1>9. t.version <= config.version
  BY <1>1, <1>4 DEF Tx
<1>10. ~agreed.paused
  BY <1>4, <1>5
<1>11. t.hostFee = HostFee /\ HostFee <= agreed.terms.hostCap /\ t.claim <= agreed.terms.maxClaim
  BY <1>4, <1>5 DEF Fits
<1>12. /\ t.protocolFee = agreed.terms.protocolFee
       /\ t.use + t.minOut >= t.claim + HostFee + t.protocolFee
       /\ t.variant = "credit" => t.minOut = 0
       /\ t.variant # "credit" => t.use + t.minOut >= agreed.terms.minSettle
  BY <1>6 DEF Fits
<1>14. BudgetOK(t)
  BY <1>1, <1>6, <1>9 DEF Fits, BudgetOK
<1>. HIDE DEF u
<1>13. SealedOK(t, u)
  BY <1>1, <1>2, <1>7, <1>8, <1>9, <1>10, <1>11, <1>12, <1>14 DEF SealedOK
<1>. QED
  BY <1>13 DEF u

LEMMA SealKeeps ==
    ASSUME IInv, NEW r \in Requests, req[r].pc \in Planned, NEW t, Fits(r, t), Seal(r, t),
           UNCHANGED <<chain, cache>>
    PROVE  IInv'
<1> DEFINE x == [Idle EXCEPT !.pc = "prepared", !.tx = t, !.withdraws = t.withdraws,
                             !.nonce = t.nonce]
<1>1. CASE Refuse(r, "L2")
  BY <1>1, RefuseKeeps DEF Refusals
<1>2. ASSUME NEW m, Abort(t, UserOf[r], m) # "none", Refuse(r, Abort(t, UserOf[r], m))
      PROVE  IInv'
  BY <1>2, AbortKeeps
<1>3. ASSUME NEW m \in Markets(t), Abort(t, UserOf[r], m) = "none", req' = [req EXCEPT ![r] = x]
      PROVE  IInv'
  <2>1. SealedOK(t, UserOf[r])
    BY <1>3, SealedByDryRun
  <2>2. t \in Tx /\ t.withdraws \in BOOLEAN /\ t.nonce \in Nat
    BY DEF Fits, Tx
  <2>3. x \in RequestRecords
    BY <2>2, IdleTyped DEF RequestRecords
  <2>4. x.pc = "prepared" /\ x.tx = t /\ x.withdraws = t.withdraws /\ x.config = None
        /\ x.seen = None
    BY DEF Idle
  <2>5. t.withdraws => vault[UserOf[r]].registered
    BY RequestTyped DEF Fits, RequestOK
  <2>. HIDE DEF x
  <2>6. RequestOK(x, UserOf[r])
    BY <2>1, <2>4, <2>5 DEF RequestOK, Planned
  <2>. QED
    BY <1>3, <2>3, <2>6, RequestStep
<1>. QED
  BY <1>1, <1>2, <1>3 DEF Seal

LEMMA FinalBuildKeeps == ASSUME IInv, NEW r \in Requests, FinalBuild(r) PROVE IInv'
<1>1. req[r].pc = "building" /\ UNCHANGED <<chain, cache>>
  BY DEF FinalBuild
<1>2. req[r].pc \in Planned
  BY <1>1 DEF Planned
<1>3. Claim(r) \in Nat
  BY <1>2, PlanningTyped, SettlementAssumption DEF Claim
<1>4. CASE Refuse(r, "ClaimWouldExceedMax") \/ Refuse(r, "SlippageConvergenceFailed")
  BY <1>1, <1>4, RefuseKeeps DEF Refusals
<1>7. \A budget \in Budgets(r) : budget \in Nat /\ budget <= req[r].config.terms.maxClaim
  <2>1. req[r].gas \in Nat /\ req[r].config.terms.maxClaim \in Nat
    BY <1>2, PlanningTyped, TermsTyped
  <2>. QED
    BY <2>1, SettlementAssumption DEF Budgets, Capped
<1>5. ASSUME NEW budget \in Budgets(r), Seal(r, CreditCall(r, Claim(r), budget))
      PROVE  IInv'
  BY <1>1, <1>2, <1>3, <1>5, <1>7, CreditCallFits, SealKeeps
<1>6. ASSUME NEW verified \in Quotes(RequiredSwapOutput(r, Claim(r))),
             NEW budget \in Budgets(r),
             Seal(r, SwapCall(r, Claim(r), req[r].gap, verified, budget))
      PROVE  IInv'
  <2>1. RequiredSwapOutput(r, Claim(r)) \in Nat
    <3>1. Need(req[r].config.terms, Claim(r)) \in Nat /\ req[r].seen.credit \in Nat
      BY <1>2, <1>3, NeedCovers, PlanningTyped DEF Credits
    <3>. QED
      BY <3>1 DEF RequiredSwapOutput
  <2>2. verified \in Nat
    BY <2>1, SettlementAssumption DEF Quotes
  <2>3. req[r].gap \in Nat
    BY <1>2, PlanningTyped
  <2>. QED
    BY <1>1, <1>2, <1>3, <1>6, <1>7, <2>2, <2>3, SwapCallFits, SealKeeps
<1>. QED
  BY <1>4, <1>5, <1>6 DEF FinalBuild

LEMMA PrepareKeeps == ASSUME IInv, NEW r \in Requests, Prepare(r) PROVE IInv'
  BY StartPrepareKeeps, ReadCreditKeeps, ReserveNonceKeeps, CreditProbeKeeps, NoFundingKeeps,
     MaxClaimGasProbeKeeps, MeasureSwapExecutionGapKeeps, FinalBuildKeeps DEF Prepare

-----------------------------------------------------------------------------
(* /sponsor, and the execution.                                             *)

\* A sealed request that moves on under the same transaction.
LEMMA SealedMoves ==
    ASSUME IInv, NEW r \in Requests, req[r].pc \in Sealed, NEW y \in RequestRecords,
           y.pc \in Sealed, y.config = req[r].config, y.seen = req[r].seen,
           y.withdraws = req[r].withdraws, y.tx = req[r].tx,
           y.pc = "signed" => y.tx.claim >= y.simulated + Variance
    PROVE  RequestOK(y, UserOf[r])
  BY RequestTyped DEF RequestOK, Planned, Sealed

LEMMA StartSponsorKeeps == ASSUME IInv, NEW r \in Requests, StartSponsor(r) PROVE IInv'
<1> DEFINE y == [req[r] EXCEPT !.pc = "revalidating"]
<1>1. /\ req[r].pc = "prepared" /\ UNCHANGED chain
      /\ cache' = GetConfig([cache EXCEPT !.fresh = FALSE]) /\ req' = [req EXCEPT ![r] = y]
  BY DEF StartSponsor, IInv, TypeOK
<1>2. y \in RequestRecords
  BY RequestTyped DEF RequestRecords
<1>3. /\ y.pc = "revalidating" /\ y.config = req[r].config /\ y.seen = req[r].seen
      /\ y.withdraws = req[r].withdraws /\ y.tx = req[r].tx
  BY RequestTyped DEF RequestRecords
<1>. HIDE DEF y
<1>4. RequestOK(y, UserOf[r])
  BY <1>1, <1>2, <1>3, SealedMoves DEF Sealed
<1>. QED
  BY <1>1, <1>2, <1>4, GetConfigOK, CachedStep

LEMMA ChecksKeep ==
    ASSUME IInv, NEW r \in Requests, req[r].pc \in Sealed,
           NEW p \in {"requerying", "preflight"}, req' = [req EXCEPT ![r].pc = p],
           UNCHANGED <<chain, cache>>
    PROVE  IInv'
<1> DEFINE y == [req[r] EXCEPT !.pc = p]
<1>1. req' = [req EXCEPT ![r] = y]
  BY DEF IInv, TypeOK
<1>2. y \in RequestRecords
  BY RequestTyped DEF RequestRecords
<1>3. /\ y.pc = p /\ y.config = req[r].config /\ y.seen = req[r].seen
      /\ y.withdraws = req[r].withdraws /\ y.tx = req[r].tx
  BY RequestTyped DEF RequestRecords
<1>. HIDE DEF y
<1>4. RequestOK(y, UserOf[r])
  BY <1>2, <1>3, SealedMoves DEF Sealed
<1>. QED
  BY <1>1, <1>2, <1>4, RequestStep

LEMMA RevalidateKeeps == ASSUME IInv, NEW r \in Requests, Revalidate(r) PROVE IInv'
<1>1. req[r].pc \in Sealed /\ UNCHANGED <<chain, cache>>
  BY DEF Revalidate, Sealed
<1>2. CASE SettleArgsValid(req[r].tx, req[r].fresh)
  <2> DEFINE p == IF req[r].tx.variant = "new_user" THEN "requerying" ELSE "preflight"
  <2>1. req' = [req EXCEPT ![r].pc = p] /\ p \in {"requerying", "preflight"}
    BY <1>2 DEF Revalidate
  <2>. HIDE DEF p
  <2>. QED
    BY <1>1, <2>1, ChecksKeep
<1>3. CASE ~SettleArgsValid(req[r].tx, req[r].fresh)
  BY <1>1, <1>3, RefuseKeeps DEF Revalidate, Refusals
<1>. QED
  BY <1>2, <1>3

LEMMA RequeryVaultKeeps == ASSUME IInv, NEW r \in Requests, RequeryVault(r) PROVE IInv'
<1>1. req[r].pc \in Sealed /\ UNCHANGED <<chain, cache>>
  BY DEF RequeryVault, Sealed
<1>2. CASE vault[UserOf[r]].registered
  BY <1>1, <1>2, RefuseKeeps DEF RequeryVault, Refusals
<1>3. CASE ~vault[UserOf[r]].registered
  BY <1>1, <1>3, ChecksKeep DEF RequeryVault
<1>. QED
  BY <1>2, <1>3

LEMMA PreflightKeeps == ASSUME IInv, NEW r \in Requests, Preflight(r) PROVE IInv'
<1> DEFINE t == req[r].tx
<1>1. req[r].pc \in Sealed /\ UNCHANGED <<chain, cache>>
  BY DEF Preflight, Sealed
<1>2. CASE Refuse(r, "StaleObject") \/ Refuse(r, "L3") \/ Refuse(r, "InsufficientGas")
  BY <1>1, <1>2, RefuseKeeps DEF Refusals, Aborts
<1>3. ASSUME NEW m, Abort(t, UserOf[r], m) # "none", Refuse(r, Abort(t, UserOf[r], m))
      PROVE  IInv'
  BY <1>1, <1>3, AbortKeeps
<1>4. ASSUME NEW gas \in Gases, Nonloss(t, gas, req[r].fresh),
             req' = [req EXCEPT ![r].pc = "signed", ![r].simulated = gas, ![r].fresh = None]
      PROVE  IInv'
  <2> DEFINE y == [req[r] EXCEPT !.pc = "signed", !.simulated = gas, !.fresh = None]
  <2>1. req' = [req EXCEPT ![r] = y]
    BY <1>4 DEF IInv, TypeOK
  <2>2. gas \in Nat /\ Variance \in Nat
    BY SettlementAssumption
  <2>3. y \in RequestRecords
    BY <2>2, RequestTyped, ZenonT(60) DEF RequestRecords
  <2>4. /\ y.pc = "signed" /\ y.config = req[r].config /\ y.seen = req[r].seen
        /\ y.withdraws = req[r].withdraws /\ y.tx = t /\ y.simulated = gas
    BY RequestTyped DEF RequestRecords
  <2>5. t \in Tx
    BY <1>1, RequestTyped DEF RequestOK, SealedOK
  <2>6. t.claim >= gas + Variance
    <3>1. t.claim \in Nat /\ t.buffer \in Nat /\ t.claim >= gas + Variance + t.buffer
      BY <1>4, <2>5 DEF Nonloss, Tx
    <3>. QED
      BY <2>2, <3>1
  <2>. HIDE DEF y, t
  <2>7. RequestOK(y, UserOf[r])
    BY <1>1, <2>3, <2>4, <2>6, SealedMoves DEF Sealed, t
  <2>. QED
    BY <1>1, <2>1, <2>3, <2>7, RequestStep
<1>. QED
  BY <1>2, <1>3, <1>4 DEF Preflight

LEMMA LapseKeeps == ASSUME IInv, NEW r \in Requests, Lapse(r) PROVE IInv'
<1> DEFINE x == [Idle EXCEPT !.pc = "expired"]
<1>1. req' = [req EXCEPT ![r] = x] /\ UNCHANGED <<chain, cache>>
  BY DEF Lapse
<1>2. x \in RequestRecords
  BY IdleTyped DEF RequestRecords, Done
<1>3. x.pc = "expired" /\ x.config = None /\ x.seen = None /\ x.withdraws = FALSE
  BY DEF Idle
<1>. HIDE DEF x
<1>4. RequestOK(x, UserOf[r])
  BY <1>2, <1>3, RequestTyped, EarlyOK
<1>. QED
  BY <1>1, <1>2, <1>4, RequestStep

\* A sealed transaction under the version it was sealed for: what it agreed to is
\* in force.
LEMMA AgreedInForce ==
    ASSUME IInv, NEW u \in Users, NEW t, SealedOK(t, u), t.version = config.version
    PROVE  /\ ~config.paused /\ t.claim <= config.terms.maxClaim
           /\ t.hostFee <= config.terms.hostCap /\ t.protocolFee = config.terms.protocolFee
           /\ t.variant # "credit" => t.use + t.minOut >= config.terms.minSettle
           /\ published[t.version + 1] = InForce
<1>1. published[t.version + 1] = InForce
  BY DEF IInv, VersionsOK
<1>2. InForce.terms = config.terms /\ InForce.paused = config.paused
  BY DEF InForce
<1>. QED
  BY <1>1, <1>2 DEF SealedOK

\* The asserts of settle_core fail a sealed transaction only under a newer version.
LEMMA CoreAbortsOnDrift ==
    ASSUME IInv, NEW u \in Users, NEW t, SealedOK(t, u), NEW total \in Nat,
           total >= t.use + t.minOut, CoreAbort(t, total) # "none"
    PROVE  /\ t.version < config.version
           /\ CoreAbort(t, total) \in {"EPaused", "EClaimTooHigh", "ETotalInTooLow",
                                       "EConfigVersionMismatch"}
<1>1. /\ t.version \in Nat /\ config.version \in Nat /\ t.version <= config.version
      /\ t.use \in Nat /\ t.minOut \in Nat /\ t.claim \in Nat /\ t.hostFee = HostFee
      /\ HostFee \in Nat /\ t.protocolFee \in Nat
      /\ t.use + t.minOut >= t.claim + HostFee + t.protocolFee
  BY SettlementAssumption DEF SealedOK, Tx, IInv, TypeOK, Configs
<1>2. /\ config.terms.maxClaim \in Nat /\ config.terms.hostCap \in Nat
      /\ config.terms.protocolFee \in Nat /\ config.terms.minSettle \in Nat
  BY TermsTyped DEF IInv, TypeOK, Configs
<1>3. t.version < config.version
  <2>. SUFFICES ASSUME t.version = config.version PROVE FALSE
    BY <1>1
  <2>1. /\ ~config.paused /\ t.claim <= config.terms.maxClaim
        /\ t.hostFee <= config.terms.hostCap /\ t.protocolFee = config.terms.protocolFee
        /\ t.variant # "credit" => t.use + t.minOut >= config.terms.minSettle
    BY AgreedInForce
  <2>2. /\ ~(t.claim > config.terms.maxClaim) /\ ~(t.hostFee > config.terms.hostCap)
        /\ ~(t.variant # "credit" /\ total < config.terms.minSettle)
        /\ ~(total < t.claim + t.hostFee + config.terms.protocolFee)
    BY <1>1, <1>2, <2>1
  <2>. QED
    BY <2>1, <2>2 DEF CoreAbort
<1>. QED
  BY <1>3, <1>1 DEF CoreAbort

LEMMA Improves ==
    ASSUME NEW a \in Nat, NEW least \in Nat, NEW out \in Nat,
           \E more \in Improvements : out = least + more
    PROVE  a + out \in Nat /\ a + out >= a + least
<1>1. PICK more \in Improvements : out = least + more
  OBVIOUS
<1>2. more \in Nat
  BY SettlementAssumption
<1>. QED
  BY <1>1, <1>2

LEMMA ExecutionAbortsOnDrift ==
    ASSUME IInv, NEW u \in Users, NEW t, SealedOK(t, u), Current(t, u), NEW m \in Markets(t),
           Abort(t, u, m) # "none"
    PROVE  \/ Abort(t, u, m) \in {"ESpreadTooWide", "EMinimumQuantityOutNotMet"}
           \/ Abort(t, u, m) = "EVaultAlreadyRegistered" /\ vault[u].registered
           \/ /\ Abort(t, u, m) \in {"EPaused", "EClaimTooHigh", "ETotalInTooLow",
                                     "EConfigVersionMismatch"}
              /\ t.version < config.version
<1>1. /\ t \in Tx /\ t.use \in Nat /\ t.minOut \in Nat /\ t.nonce \in Nat
      /\ m.out \in Nat /\ vault[u].credit \in Nat /\ vault[u].lastNonce \in Nat
  BY OutputTyped DEF SealedOK, Tx, IInv, TypeOK, Vaults
<1>2. CreditLeft(t, u) \in Nat
  BY <1>1 DEF CreditLeft
<1>3. CASE t.variant = "new_user"
  <2>1. t.use = 0 /\ t.nonce > 0 /\ ~t.withdraws
    BY <1>3 DEF SealedOK
  <2>2. ~(t.use > CreditLeft(t, u))
    BY <1>2, <2>1
  <2>3. ~vault[u].registered => ~(t.nonce <= vault[u].lastNonce)
    BY <1>1, <2>1 DEF IInv, VaultsOK
  <2>4. CASE vault[u].registered
    BY <1>3, <2>1, <2>2, <2>4 DEF Abort
  <2>5. CASE ~vault[u].registered
    <3>1. \/ Abort(t, u, m) \in {"ESpreadTooWide", "EMinimumQuantityOutNotMet"}
          \/ m.book = "filled" /\ Abort(t, u, m) = CoreAbort(t, t.use + m.out)
      BY <1>3, <2>1, <2>2, <2>3, <2>5 DEF Abort, Markets
    <3>2. m.book = "filled" => t.use + m.out \in Nat /\ t.use + m.out >= t.use + t.minOut
      <4>1. m.book = "filled" => \E more \in Improvements : m.out = t.minOut + more
        BY <1>3 DEF Markets
      <4>. QED
        BY <1>1, <4>1, Improves
    <3>. QED
      BY <3>1, <3>2, CoreAbortsOnDrift
  <2>. QED
    BY <2>4, <2>5
<1>4. CASE t.variant # "new_user"
  <2>1. t.pin = vault[u].pin
    BY <1>4 DEF Current
  <2>2. /\ vault[u].registered /\ t.use <= CreditLeft(t, u) /\ t.nonce > vault[u].lastNonce
        /\ t.withdraws => vault[u].credit > 0
    BY <1>4, <2>1 DEF SealedOK
  <2>3. /\ ~(t.use > CreditLeft(t, u)) /\ ~(t.nonce <= vault[u].lastNonce)
        /\ ~(t.withdraws /\ vault[u].credit = 0)
    BY <1>1, <1>2, <2>2
  <2>4. \/ Abort(t, u, m) \in {"ESpreadTooWide", "EMinimumQuantityOutNotMet"}
        \/ m.book = "filled" /\ Abort(t, u, m) = CoreAbort(t, t.use + m.out)
    BY <1>4, <2>2, <2>3 DEF Abort, Markets
  <2>5. m.book = "filled" => t.use + m.out \in Nat /\ t.use + m.out >= t.use + t.minOut
    <3>1. CASE t.variant = "credit"
      <4>1. m.out = 0 /\ t.minOut = 0
        BY <3>1 DEF Markets, SealedOK
      <4>. QED
        BY <1>1, <4>1
    <3>2. CASE t.variant # "credit"
      <4>1. m.book = "filled" => \E more \in Improvements : m.out = t.minOut + more
        BY <3>2 DEF Markets
      <4>. QED
        BY <1>1, <4>1, Improves
    <3>. QED
      BY <3>1, <3>2
  <2>. QED
    BY <2>4, <2>5, CoreAbortsOnDrift
<1>. QED
  BY <1>3, <1>4

\* What a completed settlement does to the vault and the books of its user.
LEMMA SettleBooks ==
    ASSUME IInv, NEW u \in Users, NEW t, SealedOK(t, u), NEW m, m.out \in Nat,
           Abort(t, u, m) = "none", Settle(t, u, m)
    PROVE  /\ vault' \in [Users -> Vaults]
           /\ books' \in [Users -> [deposited : Nat, charged : Nat, withdrawn : Nat]]
           /\ vault'[u].registered /\ vault'[u].pin = vault[u].pin + 1
           /\ \A w \in Users : w # u => vault'[w] = vault[w] /\ books'[w] = books[w]
           /\ books'[u].deposited = vault'[u].credit + books'[u].charged + books'[u].withdrawn
<1> DEFINE left == CreditLeft(t, u)
           total == t.use + m.out
           fee == config.terms.protocolFee
           credit == left - t.use + Surplus(t, total)
           v == [registered |-> TRUE, credit |-> credit, lastNonce |-> t.nonce,
                 pin |-> vault[u].pin + 1]
           b == [deposited |-> books[u].deposited + m.out,
                 charged |-> books[u].charged + Payout(t) + fee,
                 withdrawn |-> books[u].withdrawn + (vault[u].credit - left)]
<1>1. vault' = [vault EXCEPT ![u] = v] /\ books' = [books EXCEPT ![u] = b]
  BY DEF Settle, IInv, TypeOK
<1>2. /\ t \in Tx /\ t.use \in Nat /\ t.nonce \in Nat /\ t.claim \in Nat /\ t.hostFee \in Nat
      /\ t.withdraws \in BOOLEAN
  BY DEF SealedOK, Tx
<1>3. /\ vault[u].credit \in Nat /\ vault[u].pin \in Nat /\ fee \in Nat
      /\ books[u].deposited \in Nat /\ books[u].charged \in Nat /\ books[u].withdrawn \in Nat
  BY TermsTyped DEF IInv, TypeOK, Vaults, Configs
<1>4. left \in Nat /\ left <= vault[u].credit
  BY <1>3 DEF CreditLeft
<1>5. total \in Nat
  BY <1>2
<1>6. t.use <= left /\ total >= t.claim + t.hostFee + fee
  BY <1>2, <1>5, CompletedPasses, CorePasses
<1>. HIDE DEF left
<1>7. /\ Surplus(t, total) = t.use + m.out - (t.claim + t.hostFee + fee)
      /\ Payout(t) = t.claim + t.hostFee
  <2>1. Payout(t) = t.claim + t.hostFee
    BY DEF Payout
  <2>2. Surplus(t, total) = total - (Payout(t) + fee)
    BY Zenon DEF Surplus
  <2>. QED
    BY <1>2, <1>3, <2>1, <2>2
<1>. HIDE DEF fee
<1>8. credit \in Nat /\ credit = left + m.out - (t.claim + t.hostFee + fee)
  BY <1>2, <1>3, <1>4, <1>5, <1>6, <1>7
<1>9. v \in Vaults
  BY <1>2, <1>3, <1>8 DEF Vaults
<1>10. b \in [deposited : Nat, charged : Nat, withdrawn : Nat]
  BY <1>2, <1>3, <1>4, <1>7
<1>11. books[u].deposited = vault[u].credit + books[u].charged + books[u].withdrawn
  BY DEF IInv, CreditConserved
<1>12. b.deposited = v.credit + b.charged + b.withdrawn
  <2>1. b.deposited = books[u].deposited + m.out
        /\ b.charged = books[u].charged + (t.claim + t.hostFee) + fee
        /\ b.withdrawn = books[u].withdrawn + (vault[u].credit - left) /\ v.credit = credit
    BY <1>7
  <2>. HIDE DEF b, v, credit
  <2>. QED
    BY <1>2, <1>3, <1>4, <1>8, <1>11, <2>1
<1>13. v.registered /\ v.pin = vault[u].pin + 1
  OBVIOUS
<1>. HIDE DEF v, b
<1>14. /\ vault' \in [Users -> Vaults]
       /\ books' \in [Users -> [deposited : Nat, charged : Nat, withdrawn : Nat]]
  BY <1>1, <1>9, <1>10 DEF IInv, TypeOK
<1>15. vault'[u] = v /\ books'[u] = b
  BY <1>1 DEF IInv, TypeOK
<1>16. \A w \in Users : w # u => vault'[w] = vault[w] /\ books'[w] = books[w]
  BY <1>1 DEF IInv, TypeOK
<1>17. vault'[u].registered
  BY <1>13, <1>15
<1>18. vault'[u].pin = vault[u].pin + 1
  BY <1>13, <1>15
<1>19. books'[u].deposited = vault'[u].credit + books'[u].charged + books'[u].withdrawn
  BY <1>12, <1>15
<1>. QED
  BY <1>14, <1>16, <1>17, <1>18, <1>19

LEMMA SettleKeeps ==
    ASSUME IInv, NEW r \in Requests, NEW t, t = req[r].tx, req[r].pc = "signed",
           NEW m, m.out \in Nat, NEW gas \in 0..t.budget,
           Abort(t, UserOf[r], m) = "none", Settle(t, UserOf[r], m),
           req' = [req EXCEPT ![r].pc = "settled", ![r].gasPaid = gas,
                     ![r].paid = [host |-> Payout(t),
                                  protocolFee |-> config.terms.protocolFee,
                                  treasury |-> config.treasury]],
           UNCHANGED <<config, epoch, cache, published, pausedAt>>
    PROVE  IInv'
<1> DEFINE u == UserOf[r]
           paid == [host |-> Payout(t), protocolFee |-> config.terms.protocolFee,
                    treasury |-> config.treasury]
           x == [req[r] EXCEPT !.pc = "settled", !.gasPaid = gas, !.paid = paid]
<1>1. u \in Users /\ req[r] \in RequestRecords /\ RequestOK(req[r], u)
  BY RequestTyped
<1>2. SealedOK(t, u) /\ t \in Tx /\ t.claim >= req[r].simulated + Variance
  BY <1>1 DEF RequestOK, Sealed, SealedOK
<1>3. /\ vault' \in [Users -> Vaults]
      /\ books' \in [Users -> [deposited : Nat, charged : Nat, withdrawn : Nat]]
      /\ vault'[u].registered /\ vault'[u].pin = vault[u].pin + 1
      /\ \A w \in Users : w # u => vault'[w] = vault[w] /\ books'[w] = books[w]
      /\ books'[u].deposited = vault'[u].credit + books'[u].charged + books'[u].withdrawn
  BY <1>1, <1>2, SettleBooks
<1>4. /\ t.version = config.version /\ config.terms.protocolFee = t.protocolFee
      /\ config.terms.protocolFee \in Nat
  <2>1. t.use + m.out \in Nat
    BY <1>2 DEF Tx
  <2>. QED
    BY <1>1, <1>2, <2>1, CompletedPasses, CorePasses, TermsTyped, SMTT(40) DEF IInv, TypeOK, Configs
<1>5. published[t.version + 1] = InForce
  BY <1>1, <1>2, <1>4, AgreedInForce
<1>6. gas \in Nat /\ gas <= t.budget /\ BudgetOK(t)
  BY <1>2, SMTT(40) DEF SealedOK, Tx
<1>7. Payout(t) \in Nat /\ Payout(t) = t.claim + HostFee
  BY <1>2, SMTT(40) DEF Payout, Tx, SealedOK
<1>8. config.treasury \in Treasuries
  BY DEF IInv, TypeOK, Configs
<1>9. /\ paid \in Payments /\ paid.host = t.claim + HostFee
      /\ paid.protocolFee = config.terms.protocolFee /\ paid.treasury = config.treasury
  BY <1>4, <1>7, <1>8 DEF Payments
<1>. HIDE DEF paid, u
<1>10. x \in RequestRecords
  BY <1>1, <1>6, <1>9 DEF RequestRecords, Done
<1>11. /\ x.pc = "settled" /\ x.paid = paid /\ x.config = req[r].config /\ x.seen = req[r].seen
       /\ x.withdraws = req[r].withdraws /\ x.tx = t /\ x.simulated = req[r].simulated
       /\ x.gasPaid = gas
  BY <1>1 DEF RequestRecords
<1>12. req' = [req EXCEPT ![r] = x]
  BY DEF IInv, TypeOK, paid
<1>. HIDE DEF x
<1>13. RequestOK(x, u)
  <2>1. InForce.terms = config.terms /\ InForce.treasury = config.treasury
    BY DEF InForce
  <2>. QED
    BY <1>1, <1>2, <1>5, <1>6, <1>9, <1>11, <2>1 DEF RequestOK, Planned, Sealed
<1>14. Grows /\ config'.version \in Nat
  <2>1. config'.version = config.version /\ config.version \in Nat /\ published' = published
    BY DEF IInv, TypeOK, Configs
  <2>2. \A w \in Users : vault[w].pin \in Nat
    BY DEF IInv, TypeOK, Vaults
  <2>3. vault'[u].pin >= vault[u].pin /\ vault'[u].pin # vault[u].pin
    BY <1>1, <1>3, <2>2 DEF u
  <2>. QED
    BY <1>3, <2>1, <2>2, <2>3 DEF Grows
<1>15. RequestsOK'
  <2>. SUFFICES ASSUME NEW q \in Requests PROVE RequestOK(req[q], UserOf[q])'
    BY DEF RequestsOK
  <2>1. req'[q] \in RequestRecords /\ RequestOK(req'[q], UserOf[q]) /\ UserOf[q] \in Users
    <3>1. CASE q = r
      BY <1>1, <1>10, <1>12, <1>13, <3>1 DEF IInv, TypeOK, u
    <3>2. CASE q # r
      BY <1>12, <3>2, RequestTyped DEF IInv, TypeOK
    <3>. QED
      BY <3>1, <3>2
  <2>2. PICK y \in RequestRecords : y = req'[q] /\ RequestOK(y, UserOf[q])
    BY <2>1
  <2>3. PICK w \in Users : w = UserOf[q]
    BY <2>1
  <2>4. RequestOK(y, w)'
    BY <1>3, <1>14, <2>2, <2>3, RequestKept DEF IInv
  <2>5. RequestOK(y, UserOf[q])'
    BY <2>3, <2>4
  <2>. QED
    BY <2>2, <2>5
<1>16. TypeOK'
  <2>1. req' \in [Requests -> RequestRecords]
    BY <1>10, <1>12 DEF IInv, TypeOK
  <2>. QED
    BY <1>3, <2>1 DEF IInv, TypeOK
<1>17. VaultsOK' /\ CreditConserved'
  BY <1>1, <1>3 DEF IInv, VaultsOK, CreditConserved
<1>18. VersionsOK' /\ QueueOK' /\ PauseOK'
  BY DEF IInv, VersionsOK, InForce, QueueOK, Queued, PauseOK
<1>19. CacheOK'
  BY DEF IInv, CacheOK, ReadOK
<1>. QED
  BY <1>15, <1>16, <1>17, <1>18, <1>19 DEF IInv

LEMMA AbortedKeeps ==
    ASSUME IInv, NEW r \in Requests, req[r].pc = "signed", Current(req[r].tx, UserOf[r]),
           NEW m \in Markets(req[r].tx), NEW why, why # "none",
           why \in {Abort(req[r].tx, UserOf[r], m), "InsufficientGas"},
           NEW gas \in 0..req[r].tx.budget,
           req' = [req EXCEPT ![r].pc = "aborted", ![r].cause = why, ![r].gasPaid = gas],
           UNCHANGED <<chain, cache>>
    PROVE  IInv'
<1> DEFINE y == [req[r] EXCEPT !.pc = "aborted", !.cause = why, !.gasPaid = gas]
<1>1. req[r] \in RequestRecords /\ UserOf[r] \in Users /\ RequestOK(req[r], UserOf[r])
  BY RequestTyped
<1>2. SealedOK(req[r].tx, UserOf[r]) /\ req[r].tx \in Tx
  BY <1>1 DEF RequestOK, Sealed, SealedOK
<1>3. \/ why \in {"ESpreadTooWide", "EMinimumQuantityOutNotMet", "InsufficientGas"}
      \/ why = "EVaultAlreadyRegistered" /\ vault[UserOf[r]].registered
      \/ /\ why \in {"EPaused", "EClaimTooHigh", "ETotalInTooLow", "EConfigVersionMismatch"}
         /\ req[r].tx.version < config.version
  BY <1>1, <1>2, ExecutionAbortsOnDrift
<1>4. why \in Aborts
  BY AbortTyped DEF Aborts
<1>9. gas \in Nat /\ gas <= req[r].tx.budget /\ BudgetOK(req[r].tx)
  BY <1>2, SMTT(40) DEF SealedOK, Tx
<1>5. req' = [req EXCEPT ![r] = y]
  BY DEF IInv, TypeOK
<1>6. y \in RequestRecords
  BY <1>1, <1>4, <1>9 DEF RequestRecords, Done
<1>7. /\ y.pc = "aborted" /\ y.config = req[r].config /\ y.seen = req[r].seen
      /\ y.withdraws = req[r].withdraws /\ y.tx = req[r].tx /\ y.cause = why
      /\ y.gasPaid = gas
  BY <1>1 DEF RequestRecords
<1>. HIDE DEF y
<1>8. RequestOK(y, UserOf[r])
  BY <1>1, <1>2, <1>3, <1>7, <1>9 DEF RequestOK, Planned, Sealed
<1>. QED
  BY <1>5, <1>6, <1>8, RequestStep

LEMMA ExecuteKeeps == ASSUME IInv, NEW r \in Requests, Execute(r) PROVE IInv'
<1> DEFINE t == req[r].tx
           abort(m) == Abort(t, UserOf[r], m)
<1>1. req[r].pc = "signed" /\ Current(t, UserOf[r]) /\ cache' = cache
  BY DEF Execute
<1>2. PICK m \in Markets(t), gas \in 0..t.budget :
        \/ \E why \in {abort(m), "InsufficientGas"} :
             /\ why # "none"
             /\ req' = [req EXCEPT ![r].pc = "aborted", ![r].cause = why, ![r].gasPaid = gas]
             /\ UNCHANGED chain
        \/ /\ abort(m) = "none"
           /\ Settle(t, UserOf[r], m)
           /\ req' = [req EXCEPT ![r].pc = "settled", ![r].gasPaid = gas,
                        ![r].paid = [host |-> Payout(t),
                                     protocolFee |-> config.terms.protocolFee,
                                     treasury |-> config.treasury]]
           /\ UNCHANGED <<config, epoch, published, pausedAt>>
  BY DEF Execute
<1>3. t \in Tx
  BY <1>1, RequestTyped DEF RequestOK, Sealed, SealedOK
<1>4. m.out \in Nat
  BY <1>3, OutputTyped
<1>5. ASSUME NEW why \in {abort(m), "InsufficientGas"}, why # "none",
             req' = [req EXCEPT ![r].pc = "aborted", ![r].cause = why, ![r].gasPaid = gas],
             UNCHANGED chain
      PROVE  IInv'
  BY <1>1, <1>5, AbortedKeeps
<1>6. CASE /\ abort(m) = "none" /\ Settle(t, UserOf[r], m)
           /\ req' = [req EXCEPT ![r].pc = "settled", ![r].gasPaid = gas,
                        ![r].paid = [host |-> Payout(t),
                                     protocolFee |-> config.terms.protocolFee,
                                     treasury |-> config.treasury]]
           /\ UNCHANGED <<config, epoch, published, pausedAt>>
  BY <1>1, <1>4, <1>6, SettleKeeps
<1>. QED
  BY <1>2, <1>5, <1>6

LEMMA SponsorKeeps == ASSUME IInv, NEW r \in Requests, Sponsor(r) PROVE IInv'
  BY StartSponsorKeeps, RevalidateKeeps, RequeryVaultKeeps, PreflightKeeps, ExecuteKeeps,
     LapseKeeps DEF Sponsor

-----------------------------------------------------------------------------
(* The invariant, and what follows from it.                                 *)

LEMMA Inductive == ASSUME IInv, [Next]_vars PROVE IInv'
<1>1. CASE Admin
  BY <1>1, AdminKeeps
<1>2. CASE NextEpoch
  BY <1>2, NextEpochKeeps
<1>3. CASE Host
  BY <1>3, FetchReadsKeeps, FetchReturnsKeeps, FetchFailsKeeps, TtlPassesKeeps DEF Host
<1>4. ASSUME NEW u \in Users, NEW amount \in 1..vault[u].credit, Withdraw(u, amount)
      PROVE  IInv'
  BY <1>4, WithdrawKeeps
<1>5. ASSUME NEW r \in Requests, Prepare(r) \/ Sponsor(r) PROVE IInv'
  BY <1>5, PrepareKeeps, SponsorKeeps
<1>6. CASE UNCHANGED vars
  <2>1. UNCHANGED <<config, epoch, vault, cache, req, published, books, pausedAt>>
    BY <1>6 DEF vars
  <2>2. config \in Configs /\ ValidTerms(config.terms)
    BY DEF IInv, TypeOK
  <2>3. VersionsOK' /\ Grows /\ ValidTerms(config'.terms)
    BY <2>1, <2>2, QueueStep
  <2>4. QueueOK' /\ PauseOK'
    BY <2>1 DEF IInv, QueueOK, Queued, PauseOK
  <2>. QED
    BY <2>1, <2>2, <2>3, <2>4, AdminStep DEF IInv, TypeOK
<1>. QED
  BY <1>1, <1>2, <1>3, <1>4, <1>5, <1>6 DEF Next

LEMMA Initially == Init => IInv
<1>. SUFFICES ASSUME Init PROVE IInv
  OBVIOUS
<1>1. /\ config = [terms |-> InitialTerms, treasury |-> Genesis, paused |-> FALSE,
                   version |-> 0, pendingTerms |-> None, pendingTreasury |-> None,
                   pendingPause |-> None]
      /\ epoch = 0 /\ vault = InitialVaults
      /\ cache = [config |-> OnchainConfig, fresh |-> TRUE, fetch |-> "none", got |-> None]
      /\ req = [r \in Requests |-> Idle] /\ published = <<InForce>>
      /\ books = [u \in Users |-> [deposited |-> InitialVaults[u].credit,
                                   charged |-> 0, withdrawn |-> 0]]
      /\ pausedAt = None
  BY DEF Init
<1>2. config \in Configs /\ ValidTerms(config.terms)
  BY <1>1, SettlementAssumption DEF Configs, Pending
<1>3. vault \in [Users -> Vaults]
  BY <1>1, SettlementAssumption
<1>4. OnchainConfig \in SeenConfig /\ OnchainConfig.version = 0
      /\ OnchainConfig.terms = config.terms
  BY <1>1 DEF OnchainConfig, SeenConfig
<1>5. cache \in Caches /\ cache.config = OnchainConfig /\ cache.fetch = "none"
  BY <1>1, <1>4 DEF Caches
<1>6. /\ InForce \in [terms : Terms \cup {InitialTerms}, treasury : Treasuries,
                      paused : BOOLEAN]
      /\ InForce.terms = config.terms
  BY <1>2 DEF InForce, Configs
<1>7. /\ published \in Seq([terms : Terms \cup {InitialTerms}, treasury : Treasuries,
                            paused : BOOLEAN])
      /\ Len(published) = 1 /\ published[1] = InForce
  BY <1>1, <1>6
<1>8. \A u \in Users : InitialVaults[u].credit \in Nat
  BY SettlementAssumption DEF Vaults
<1>9. books \in [Users -> [deposited : Nat, charged : Nat, withdrawn : Nat]]
      /\ \A u \in Users : books[u].deposited = vault[u].credit + books[u].charged
                                               + books[u].withdrawn
  BY <1>1, <1>8
<1>10. TypeOK
  BY <1>1, <1>2, <1>3, <1>5, <1>7, <1>9, IdleTyped DEF TypeOK
<1>11. config.version = 0 /\ config.pendingTerms = None
  BY <1>1
<1>12. VersionsOK /\ CacheOK
  BY <1>4, <1>5, <1>6, <1>7, <1>11 DEF VersionsOK, CacheOK, ReadOK
<1>13. QueueOK /\ PauseOK
  BY <1>1, <1>11 DEF QueueOK, Queued, PauseOK
<1>14. VaultsOK
  BY <1>1, SettlementAssumption DEF VaultsOK, NewVault
<1>15. RequestsOK
  <2>1. /\ Idle.pc = "idle" /\ Idle.config = None /\ Idle.seen = None
        /\ Idle.withdraws = FALSE
    BY DEF Idle
  <2>. QED
    BY <1>1, <2>1 DEF RequestsOK, RequestOK, Planned, Sealed
<1>16. CreditConserved
  BY <1>9 DEF CreditConserved
<1>. QED
  BY <1>10, <1>12, <1>13, <1>14, <1>15, <1>16 DEF IInv

\* What has been read, planned, sealed and settled always agrees with the config
\* versions and the vaults it came from (settlementPlanner.ts, config.move).
THEOREM SettlementInvariant == Spec => []IInv
  BY Initially, Inductive, PTL DEF Spec

\* The types of the state, and the bounds config.move keeps on the terms in force.
THEOREM TypeCorrect == Spec => []TypeOK
<1>1. IInv => TypeOK
  BY DEF IInv
<1>. QED
  BY <1>1, SettlementInvariant, PTL

\* What settles pays what was agreed under the config version it was prepared for,
\* whatever the admin did since.
THEOREM TermsPaid == Spec => []AgreedTermsPaid
<1>1. IInv => AgreedTermsPaid
  BY DEF IInv, RequestsOK, RequestOK, SealedOK, Sealed, AgreedTermsPaid
<1>. QED
  BY <1>1, SettlementInvariant, PTL

\* No MIST is lost or made in a vault, however settlements and withdrawals interleave.
THEOREM CreditKept == Spec => []CreditConserved
<1>1. IInv => CreditConserved
  BY DEF IInv
<1>. QED
  BY <1>1, SettlementInvariant, PTL

\* What the Host signed fails only for the market, a newer config version or a vault
\* registered meanwhile.
THEOREM AbortsAreDrift == Spec => []AbortsOnlyOnDrift
<1>1. IInv => AbortsOnlyOnDrift
  BY DEF IInv, RequestsOK, RequestOK, AbortsOnlyOnDrift
<1>. QED
  BY <1>1, SettlementInvariant, PTL

\* The Host pays for no transaction, settled or failed, more gas than the claim bound it
\* was agreed under, however the gas has risen since the dry run; and a settlement pays
\* the Host its fee and its gas, if the gas has risen by the variance at most.
THEOREM GasLossStaysBounded == Spec => []GasLossBounded
<1>1. ASSUME IInv, NEW x \in RequestRecords, NEW u \in Users, RequestOK(x, u),
             x.pc \in {"settled", "aborted"}
      PROVE  x.gasPaid <= published[x.tx.version + 1].terms.maxClaim
  <2>1. BudgetOK(x.tx) /\ x.gasPaid <= x.tx.budget
    BY <1>1 DEF RequestOK
  <2>2. x.gasPaid \in Nat /\ x.tx.budget \in Nat
    BY <2>1 DEF RequestRecords, BudgetOK, Tx
  <2>3. published[x.tx.version + 1].terms.maxClaim \in Nat
    <3> DEFINE n == x.tx.version + 1
               S == [terms : Terms \cup {InitialTerms}, treasury : Treasuries, paused : BOOLEAN]
    <3>3. /\ published \in Seq(S) /\ Len(published) = config.version + 1
          /\ config.version \in Nat /\ x.tx.version \in Nat
      BY <1>1, <2>1 DEF IInv, VersionsOK, BudgetOK, TypeOK, Configs, Tx
    <3>1. n \in 1..Len(published)
      BY <2>1, <3>3 DEF BudgetOK
    <3>4. published[n] \in S
      <4>. HIDE DEF n, S
      <4>. QED
        BY <3>1, <3>3
    <3>2. published[n].terms \in Terms \cup {InitialTerms}
      BY <3>4
    <3>. QED
      BY <3>2, TermsTyped
  <2>. QED
    BY <2>1, <2>2, <2>3 DEF BudgetOK
<1>2. ASSUME NEW x \in RequestRecords, NEW u \in Users, RequestOK(x, u), x.pc = "settled",
             x.gasPaid <= x.simulated + Variance
      PROVE  x.paid.host >= x.gasPaid + HostFee
  <2>1. /\ x.paid.host = x.tx.claim + HostFee /\ x.tx.claim >= x.simulated + Variance
        /\ x.tx \in Tx
    BY <1>2 DEF RequestOK, BudgetOK
  <2>2. /\ x.gasPaid \in Nat /\ x.tx.claim \in Nat /\ x.simulated \in Nat
        /\ HostFee \in Nat /\ Variance \in Nat
    BY <2>1, SettlementAssumption DEF Tx, RequestRecords
  <2>. QED
    BY <1>2, <2>1, <2>2
<1>3. IInv => GasLossBounded
  <2>. SUFFICES ASSUME IInv, NEW r \in Requests, req[r].pc \in {"settled", "aborted"}
                PROVE  /\ req[r].gasPaid <= published[req[r].tx.version + 1].terms.maxClaim
                       /\ req[r].pc = "settled"
                            /\ req[r].gasPaid <= req[r].simulated + Variance =>
                              req[r].paid.host >= req[r].gasPaid + HostFee
    BY DEF GasLossBounded
  <2>1. req[r] \in RequestRecords /\ UserOf[r] \in Users /\ RequestOK(req[r], UserOf[r])
    BY RequestTyped
  <2>. QED
    BY <1>1, <1>2, <2>1
<1>. QED
  BY <1>3, SettlementInvariant, PTL

\* Only the execution of a transaction of its own settles a request, and the chain
\* was not paused then.
LEMMA OthersKept ==
    ASSUME IInv, NEW q \in Requests, NEW r \in Requests, r # q, Prepare(q) \/ Sponsor(q)
    PROVE  req'[r] = req[r]
<1>1. req \in [Requests -> RequestRecords]
  BY DEF IInv, TypeOK
<1>2. ASSUME NEW why, Refuse(q, why) PROVE req'[r] = req[r]
  BY <1>1, <1>2 DEF Refuse
<1>3. ASSUME NEW t, Seal(q, t) PROVE req'[r] = req[r]
  BY <1>1, <1>2, <1>3 DEF Seal
<1>4. CASE StartPrepare(q) \/ ReadCredit(q) \/ ReserveNonce(q) \/ NoFunding(q)
           \/ MeasureSwapExecutionGap(q)
  BY <1>1, <1>2, <1>4 DEF StartPrepare, ReadCredit, ReserveNonce, NoFunding,
                           MeasureSwapExecutionGap
<1>5. CASE CreditProbe(q)
  BY <1>1, <1>2, <1>5 DEF CreditProbe
<1>6. CASE MaxClaimGasProbe(q)
  BY <1>1, <1>2, <1>6 DEF MaxClaimGasProbe
<1>7. CASE FinalBuild(q)
  BY <1>2, <1>3, <1>7 DEF FinalBuild
<1>8. CASE StartSponsor(q) \/ Revalidate(q) \/ RequeryVault(q) \/ Lapse(q)
  BY <1>1, <1>2, <1>8 DEF StartSponsor, Revalidate, RequeryVault, Lapse
<1>9. CASE Preflight(q)
  BY <1>1, <1>2, <1>9 DEF Preflight
<1>10. CASE Execute(q)
  BY <1>1, <1>10 DEF Execute
<1>. QED
  BY <1>4, <1>5, <1>6, <1>7, <1>8, <1>9, <1>10 DEF Prepare, Sponsor

LEMMA SettlesUnpaused ==
    ASSUME IInv, [Next]_vars, NEW r \in Requests, Settles(r)
    PROVE  ~config.paused
<1>1. req[r].pc = "signed" /\ req'[r].pc = "settled" /\ req'[r].pc # req[r].pc
  BY DEF Settles
<1>2. req \in [Requests -> RequestRecords]
  BY DEF IInv, TypeOK
<1>3. ~(req' = req) /\ ~UNCHANGED vars
  BY <1>1 DEF vars
<1>4. ~Admin /\ ~NextEpoch /\ \A u \in Users : \A amount \in 1..vault[u].credit : ~Withdraw(u, amount)
  BY <1>3 DEF Admin, Pause, QueueUnpause, ApplyUnpause, QueueTreasury, QueueTerms,
              ApplyTreasury, ApplyTerms, Cancel, NextEpoch, Withdraw
<1>5. ~Host
  <2>1. ~FetchReads /\ ~TtlPasses
    BY <1>3 DEF FetchReads, TtlPasses
  <2>2. ~Waiting(r)
    BY <1>1 DEF Waiting
  <2>3. ~FetchReturns /\ ~FetchFails
    BY <1>1, <2>2 DEF FetchReturns, FetchFails
  <2>. QED
    BY <2>1, <2>3 DEF Host
<1>6. PICK q \in Requests : Prepare(q) \/ Sponsor(q)
  BY <1>3, <1>4, <1>5 DEF Next
<1>7. q = r
  BY <1>1, <1>6, OthersKept
<1>8. Execute(r)
  <2>1. ~Prepare(r)
    BY <1>1 DEF Prepare, StartPrepare, ReadCredit, ReserveNonce, CreditProbe, NoFunding,
                MaxClaimGasProbe, MeasureSwapExecutionGap, FinalBuild
  <2>2. ~StartSponsor(r) /\ ~Revalidate(r) /\ ~RequeryVault(r) /\ ~Preflight(r)
    BY <1>1 DEF StartSponsor, Revalidate, RequeryVault, Preflight
  <2>3. ~Lapse(r)
    <3>1. ASSUME Lapse(r) PROVE req'[r].pc = "expired"
      BY <1>2, <3>1 DEF Lapse, Idle
    <3>. QED
      BY <1>1, <3>1
  <2>. QED
    BY <1>6, <1>7, <2>1, <2>2, <2>3 DEF Sponsor
<1> DEFINE t == req[r].tx
<1>9. PICK m \in Markets(t) : Abort(t, UserOf[r], m) = "none"
  <2>1. ASSUME NEW why, NEW gas,
               req' = [req EXCEPT ![r].pc = "aborted", ![r].cause = why, ![r].gasPaid = gas]
        PROVE  FALSE
    <3>1. req'[r].pc = "aborted"
      BY <1>2, <2>1 DEF RequestRecords
    <3>. QED
      BY <1>1, <3>1
  <2>. QED
    BY <1>8, <2>1 DEF Execute
<1>10. t \in Tx /\ UserOf[r] \in Users /\ m.out \in Nat
  BY <1>1, RequestTyped, OutputTyped DEF RequestOK, Sealed, SealedOK
<1>11. t.use + m.out \in Nat
  BY <1>10 DEF Tx
<1>. QED
  BY <1>9, <1>10, <1>11, CompletedPasses, CorePasses

\* After a pause nothing settles for two epochs, whatever unpause was queued before.
THEOREM PauseStands == Spec => PauseHolds
<1>1. ASSUME IInv, [Next]_vars, NEW r \in Requests, Settles(r), pausedAt # None
      PROVE  epoch >= pausedAt + Delay
  <2>1. ~config.paused
    BY <1>1, SettlesUnpaused
  <2>. QED
    BY <1>1, <2>1 DEF IInv, PauseOK
<1>2. IInv /\ [Next]_vars =>
        [\A r \in Requests : Settles(r) => pausedAt = None \/ epoch >= pausedAt + Delay]_vars
  BY <1>1
<1>. QED
  BY <1>2, SettlementInvariant, PTL DEF Spec, PauseHolds
=============================================================================
