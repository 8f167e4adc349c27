------------------------- MODULE MCPromotionLedger -------------------------
(* Small instances of PromotionLedger.                                      *)
EXTENDS PromotionLedger

CONSTANTS u1, u2, r1, r2, r3, c1, c2, a1, a2, f1

AllOfOne  == [r \in Receipts |-> u1]
OneEach   == [r \in Receipts |-> IF r = r1 THEN u1 ELSE u2]
TwoOfOne  == [r \in Receipts |-> IF r = r3 THEN u2 ELSE u1]
ClaimEach == [c \in Claims |-> IF c = c1 THEN u1 ELSE u2]

Ones == [r \in Receipts |-> 1]
Twos == [r \in Receipts |-> 2]
OneThenTwo == [r \in Receipts |-> IF r = r1 THEN 1 ELSE 2]

\* The states in which nothing is left to do: no request is under way, and nothing
\* is reserved.
Terminated ==
    /\ \A r \in Receipts : /\ req[r].pc \notin {"idle", "accounting", "entitlement",
                                                "active", "confirm", "apply"}
                           /\ reservation[r] = "none"
    /\ \A c \in Claims : claim[c].pc \notin {"idle", "read", "apply"}
    /\ \A f \in Finishers : Free(f)
    /\ UNCHANGED vars

MCSpec == Init /\ [][Next \/ Terminated]_vars
=============================================================================
