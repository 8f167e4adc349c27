--------------------------- MODULE MCAccountSpend ---------------------------
(* Small instances of AccountSpend.  A load says which jobs are tried, so   *)
(* that one run explores several mixes without their product.               *)
EXTENDS AccountSpend

CONSTANTS w1, w2, w3, n1, n2, s1, Loads

OneNonce  == [w \in Withdrawals |-> n1]
TwoNonces == [w \in Withdrawals |-> IF w = w2 THEN n2 ELSE n1]
Ones      == [w \in Withdrawals |-> 1]
OneAndTwo == [w \in Withdrawals |-> IF w = w2 THEN 2 ELSE 1]

Symmetry == Permutations(Hosts) \cup Permutations(Withdrawals)

\* Observers beside one kind of spend; and one of each kind, without observers.  What
\* an observer is of tells the loads apart in every state.
Withdrawing == [observed |-> None, withdrawals |-> 2, refills |-> 0, recover |-> TRUE]
Refilling   == [observed |-> s1, withdrawals |-> 0, refills |-> 2, recover |-> FALSE]
Mixing      == [observed |-> "nothing", withdrawals |-> 1, refills |-> 1, recover |-> FALSE]

\* The state constraint: what is under way, or was, is of one of the loads.
Within(load) ==
    /\ \A o \in Observers : watch[o].what = load.observed
    /\ Cardinality({w \in Withdrawals : answer[w].status # "unasked"}) <= load.withdrawals
    /\ \A h \in Hosts : /\ task[h].job.kind = "refill" => load.refills > 0
                        /\ task[h].job.kind = "recover" => load.recover
    /\ Cardinality({x \in sent \cup {Tx(spend)} : x.slot # None}) <= load.refills
OneLoad == \E load \in Loads : Within(load)
AllLoads == {Withdrawing, Refilling, Mixing}
AnyLoad  == {[observed |-> "nothing", withdrawals |-> Cardinality(Withdrawals),
              refills |-> MaxSpends, recover |-> TRUE]}
=============================================================================
