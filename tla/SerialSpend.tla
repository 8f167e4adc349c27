----------------------------- MODULE SerialSpend -----------------------------
(***************************************************************************)
(* What the Sponsor Refill Account promises: it pays one spend at a time.  *)
(* A spend is accepted while none is open, is signed once, and is closed   *)
(* unpaid only before it is signed; a signed one stays open until the      *)
(* chain has decided it, and the chain decides nothing else.               *)
(***************************************************************************)
VARIABLES
    open,       \* the spend under way, if any: a set of at most one
    signed,     \* whether its transaction exists
    paid,       \* spends the chain executed
    reverted    \* spends the chain charged and reverted

vars == <<open, signed, paid, reverted>>

Init == open = {} /\ signed = FALSE /\ paid = {} /\ reverted = {}

Decided == paid \cup reverted

Accept ==
    /\ open = {}
    /\ \E x \in open' : x \notin Decided /\ open' = {x}
    /\ signed' = FALSE
    /\ UNCHANGED <<paid, reverted>>

Sign ==
    /\ open # {} /\ ~signed
    /\ signed' = TRUE
    /\ UNCHANGED <<open, paid, reverted>>

Abandon ==
    /\ open # {} /\ ~signed
    /\ open' = {}
    /\ UNCHANGED <<signed, paid, reverted>>

Decide ==
    /\ signed
    /\ \E x \in open \ Decided :
          \/ paid' = paid \cup {x} /\ UNCHANGED reverted
          \/ reverted' = reverted \cup {x} /\ UNCHANGED paid
    /\ UNCHANGED <<open, signed>>

Close ==
    /\ open # {} /\ signed /\ open \subseteq Decided
    /\ open' = {} /\ signed' = FALSE
    /\ UNCHANGED <<paid, reverted>>

Next == Accept \/ Sign \/ Abandon \/ Decide \/ Close

Spec == Init /\ [][Next]_vars
=============================================================================
