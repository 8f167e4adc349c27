---------------------------- MODULE MCAdmission ----------------------------
(* Admission for TLC: requests of one client address, and the loads that     *)
(* one run explores without their product.                                   *)
EXTENDS Admission

CONSTANTS r1, r2, r3

OneIp    == [r \in Requests |-> "ip"]
Wallets  == [r \in Requests |-> IF r = r3 THEN "bob" ELSE "alice"]
OneSpare == [f \in Families |-> IF f = "ip" THEN 1 ELSE 0]

\* Requests are built; or an operator and a sweep meet two failures of one address;
\* or the failures of three requests meet each other and a sweep; or two failures
\* have a subject as well.
Only(rs) == \A r \in Requests \ rs : req[r].pc = "idle"
Unasked  == \A a \in Admins : admin[a].pc = "idle"
Unbuilt  == \A r \in Requests : /\ slot[r] = 0
                                /\ req[r].pc \notin {"building", "served", "leaked"}
Building == Unasked /\ \A r \in Requests : req[r].kind = "none"
Removing == Unbuilt /\ Only({r1, r2}) /\ \A r \in Requests : ~req[r].known
Crowding == Unbuilt /\ Unasked /\ now <= 3 /\ \A r \in Requests : req[r].kind \in {"none", "ip"}
Proving  == Unbuilt /\ Unasked /\ now <= 3 /\ Only({r1, r2})
OneLoad  == Building \/ Removing \/ Crowding \/ Proving
=============================================================================
