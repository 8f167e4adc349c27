------------------------ MODULE PromotionReservation ------------------------
(***************************************************************************)
(* What the Promotion ledger and the receipt store promise each other of   *)
(* the reservation of a receipt.  The ledger gives a user one reservation  *)
(* at a time; once the receipt is durable, only the store ends it; an      *)
(* executing one is ended once; gas is consumed only by an execution.      *)
(***************************************************************************)
CONSTANTS Receipts, UserOf

VARIABLES
    reservation,   \* "none", "reserved", "executing", "consumed" or "released"
    protected      \* receipts whose prepared record is durable

vars == <<reservation, protected>>

Init ==
    /\ reservation = [r \in Receipts |-> "none"]
    /\ protected = {}

Outstanding(r) == reservation[r] \in {"reserved", "executing"}

Reserve(r) ==
    /\ reservation[r] = "none"
    /\ \A q \in Receipts : UserOf[q] = UserOf[r] => ~Outstanding(q)
    /\ reservation' = [reservation EXCEPT ![r] = "reserved"]
    /\ UNCHANGED protected

\* The ledger takes back what nobody made durable.
Release(r) ==
    /\ reservation[r] = "reserved" /\ r \notin protected
    /\ reservation' = [reservation EXCEPT ![r] = "released"]
    /\ UNCHANGED protected

Commit(r) ==
    /\ reservation[r] = "reserved" /\ r \notin protected
    /\ protected' = protected \cup {r}
    /\ UNCHANGED reservation

Discard(r) ==
    /\ r \in protected
    /\ reservation' = [reservation EXCEPT ![r] = "released"]
    /\ protected' = protected \ {r}

Begin(r) ==
    /\ r \in protected
    /\ reservation' = [reservation EXCEPT ![r] = "executing"]
    /\ protected' = protected \ {r}

Finish(r) ==
    /\ reservation[r] = "executing"
    /\ \E o \in {"consumed", "released"} : reservation' = [reservation EXCEPT ![r] = o]
    /\ UNCHANGED protected

Next == \E r \in Receipts :
    Reserve(r) \/ Release(r) \/ Commit(r) \/ Discard(r) \/ Begin(r) \/ Finish(r)

Spec == Init /\ [][Next]_vars
=============================================================================
