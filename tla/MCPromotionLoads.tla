-------------------------- MODULE MCPromotionLoads --------------------------
(* Two loads of PromotionLedger, which one run explores without their      *)
(* product: a user who prepares twice, while two tasks end her             *)
(* reservations; and operators and users who all want the Promotion to be  *)
(* something else.                                                          *)
EXTENDS MCPromotionLedger

\* What takes part, and within which bounds.
Racing    == [claims |-> {c1}, receipts |-> {r1, r2}, finishers |-> Finishers,
              admins |-> {a1}, edits |-> 1, allowances |-> {2}]
Operating == [claims |-> {c1, c2}, receipts |-> {r1}, finishers |-> {f1},
              admins |-> {a1, a2}, edits |-> 2, allowances |-> {1, 2}]

\* The state constraint: what is under way, or was, is of one of the loads.
Within(load) ==
    /\ \A c \in Claims : claim[c].pc # "idle" => c \in load.claims
    /\ \A r \in Receipts : req[r].pc # "idle" => r \in load.receipts
    /\ \A f \in Finishers : fin[f].pc # "idle" => f \in load.finishers
    /\ \A a \in Admins : adm[a] # NoPromotion => a \in load.admins /\ adm[a].edit < load.edits
    /\ promotion.edit <= load.edits
    /\ promotion # NoPromotion => promotion.allowance \in load.allowances
OneLoad == \E load \in {Racing, Operating} : Within(load)
=============================================================================
