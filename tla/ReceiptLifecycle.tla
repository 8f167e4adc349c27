-------------------------- MODULE ReceiptLifecycle --------------------------
(***************************************************************************)
(* What the sponsored execution promises of a receipt, whoever works on    *)
(* it: it is closed once; while it is open nobody has signed it; it is     *)
(* signed once, and never after it was closed as unsigned; when it is      *)
(* closed with an on-chain outcome that is the outcome on chain; the       *)
(* result is announced only when it is final.                              *)
(***************************************************************************)
CONSTANT Receipts

VARIABLES phase, outcome, announced, chain

vars == <<phase, outcome, announced, chain>>

OnChain == {"success", "reverted", "congestion"}

Init ==
    /\ phase = [r \in Receipts |-> "none"]
    /\ outcome = [r \in Receipts |-> "none"]
    /\ announced = {}
    /\ chain = [r \in Receipts |-> "none"]

\* The prepared transaction is durable.
Open(r) ==
    /\ phase[r] = "none"
    /\ phase' = [phase EXCEPT ![r] = "open"]
    /\ UNCHANGED <<outcome, announced, chain>>

\* One sponsor request takes the receipt for execution.
Start(r) ==
    /\ phase[r] = "open"
    /\ phase' = [phase EXCEPT ![r] = "running"]
    /\ UNCHANGED <<outcome, announced, chain>>

Sign(r) ==
    /\ chain[r] = "none"
    /\ \/ phase[r] = "running"
       \/ phase[r] = "closed" /\ outcome[r] = "unresolved"
    /\ chain' = [chain EXCEPT ![r] = "signed"]
    /\ UNCHANGED <<phase, outcome, announced>>

Land(r) ==
    /\ chain[r] = "signed"
    /\ \E o \in OnChain : chain' = [chain EXCEPT ![r] = o]
    /\ UNCHANGED <<phase, outcome, announced>>

\* The result becomes final: unsigned, what the chain says, or, of a running
\* receipt only, unresolved.
Close(r) ==
    /\ phase[r] \in {"open", "running"}
    /\ phase' = [phase EXCEPT ![r] = "closed"]
    /\ \E o \in {"unsigned", "unresolved"} \cup OnChain :
         /\ o = "unsigned" => chain[r] = "none"
         /\ o # "unsigned" => phase[r] = "running"
         /\ o \in OnChain => chain[r] = o
         /\ outcome' = [outcome EXCEPT ![r] = o]
    /\ UNCHANGED <<announced, chain>>

Announce(r) ==
    /\ phase[r] = "closed"
    /\ announced' = announced \cup {r}
    /\ UNCHANGED <<phase, outcome, chain>>

Next == \E r \in Receipts :
    Open(r) \/ Start(r) \/ Sign(r) \/ Land(r) \/ Close(r) \/ Announce(r)

Spec == Init /\ [][Next]_vars
=============================================================================
