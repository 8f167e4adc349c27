---------------------------- MODULE MCSettlement ----------------------------
(* Settlement for TLC: u1 has a vault with credit, u2 has none.  A load is   *)
(* what one part of the run is about: which requests are made, and how far   *)
(* the admin and the epochs go.                                              *)
EXTENDS Settlement, TLC

CONSTANTS r1, r2, r3, r4, u1, u2, t1, t2, Loads

Askers == [r \in Requests |-> IF r \in {r1, r2} THEN u1 ELSE u2]
SomeVaults == [u \in Users |->
    IF u = u1 THEN [registered |-> TRUE, credit |-> 3, lastNonce |-> 1, pin |-> 1]
              ELSE NewVault]

Low == [hostCap |-> 1, protocolFee |-> 0, maxClaim |-> 4, minSettle |-> 1]
High == [hostCap |-> 1, protocolFee |-> 1, maxClaim |-> 3, minSettle |-> 3]
RaisedTerms == {High, [High EXCEPT !.hostCap = 3]}   \* the second breaks the fee bound

Load(requests, updates, versions, writes, gap, prices) ==
    [requests |-> requests, updates |-> updates, versions |-> versions, writes |-> writes,
     gap |-> gap, prices |-> prices]
Fees == {"pendingTerms", "pendingTreasury"}
VaultRace == Load({r1, r2}, {}, 0, 2, 0, FALSE)
NewUserRace == Load({r3, r4}, {}, 0, 1, 0, FALSE)
Pausing == Load({r1}, {"pendingPause"}, 2, 2, 0, FALSE)
Repricing == Load({r1}, Fees, 2, 2, 0, FALSE)
NewUserMeetsAdmin == Load({r3}, Fees \cup {"pendingPause"}, 1, 1, 0, TRUE)
VaultWrites == Load({r1}, {}, 0, 3, 1, TRUE)
NewUserGap == Load({r3}, {}, 0, 1, 1, TRUE)
AllLoads == {VaultRace, NewUserRace, Pausing, Repricing, NewUserMeetsAdmin,
             VaultWrites, NewUserGap}
JustVault == {VaultWrites}

\* Where gas prices are no part of the load, budgets have room, and an execution takes
\* nothing or all of it.
Steady(r) == req[r].tx # None =>
    /\ req[r].tx.budget > req[r].tx.claim - (req[r].tx.buffer + Variance)
    /\ req[r].gasPaid \in {0, req[r].tx.budget}
Within(load) ==
    /\ load.prices \/ \A r \in Requests : Steady(r)
    /\ \A r \in Requests \ load.requests : req[r].pc = "idle"
    /\ \A r \in Requests : /\ req[r].withdraws => load.gap > 0
                           /\ req[r].gap <= load.gap
                           /\ req[r].tx # None => req[r].tx.buffer <= load.gap
    /\ \A u \in Users : vault[u].pin <= load.writes
    /\ config.version <= load.versions
    /\ \A field \in Updates \ load.updates : config[field] = None
    /\ load.updates = {} => epoch = 0
    /\ "pendingPause" \notin load.updates => pausedAt = None
    /\ "pendingTerms" \notin load.updates => config.terms = InitialTerms
    /\ "pendingTreasury" \notin load.updates => config.treasury = Genesis
OneLoad == \E load \in Loads : Within(load)

Symmetry == Permutations({r1, r2}) \cup Permutations({r3, r4})

=============================================================================
