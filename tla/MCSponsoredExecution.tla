------------------------ MODULE MCSponsoredExecution ------------------------
(* Small instances of SponsoredExecution.                                   *)
EXTENDS SponsoredExecution

CONSTANTS r1, r2, r3, a1, a2, s2

\* Every receipt belongs to one sender, one client IP and one studio user.
OneSender == [r \in Receipts |-> "alice"]
OneIp  == [r \in Receipts |-> "ip"]
\* The generic receipts share a client IP.
TwoIps == [r \in Receipts |-> IF r = r3 THEN "ip2" ELSE "ip1"]

AllGeneric   == [r \in Receipts |-> "generic"]
AllPromotion == [r \in Receipts |-> "promotion"]
Mixed        == [r \in Receipts |-> IF r = r3 THEN "promotion" ELSE "generic"]

\* Two requests race for the first receipt, or each receipt has its own.
BothFirst == [a \in Attempts |-> r1]
OneEach   == [a \in Attempts |-> IF a = a1 THEN r1 ELSE r2]

\* Loads that one run explores without their product, while the Promotion is
\* active: two generic receipts are prepared and sponsored with every nonce left;
\* three are prepared with one slot, no commit of theirs in flight; or two are, with
\* one nonce left.
Sponsoring == /\ prep[r3] = "start"
              /\ \/ \A u \in Senders : chainNonce[u] = 0
                 \/ \E r \in Receipts : chain[r] # "none"
Preparing  == /\ \A a \in Attempts : att[a] = "idle"
              /\ lease[s2] = NoLease
              /\ \/ prep[r3] = "start"
                 \/ commitInFlight = {} /\ \A u \in Senders : chainNonce[u] = 0
\* Deliveries the recovery task makes are the liveness run's.
NoRedelivery == \A p \in Recoverers : rcv[p].pc \notin {"deliver", "mark"}
OneLoad == promotionActive /\ NoRedelivery /\ (Sponsoring \/ Preparing)
\* No request delivers either: a final receipt stays pending.
NoDelivery == NoRedelivery /\ \A a \in Attempts : att[a] # "deliver"

\* The second request for a receipt comes after the first has ended or died.
OneAfterTheOther == att[a1] = "done" \/ att[a2] = "idle"

\* Nothing is left to do and nothing is left behind: the only states in which
\* the system may stop.
Terminated ==
    /\ \A r \in Receipts : /\ prep[r] \in {"responded", "failed"}
                           /\ stage[r] \in {"absent", "final"}
                           /\ callback[r] # "pending"
                           /\ promo[r] \notin {"reserved", "executing"}
    /\ \A s \in Slots : lease[s] = NoLease
    /\ UNCHANGED vars

MCSpec == Init /\ [][Next \/ Terminated]_vars

=============================================================================
