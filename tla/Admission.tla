----------------------------- MODULE Admission -----------------------------
(* Who is let in: temporary blocks of client addresses and of subjects      *)
(* (wallets or Studio users), the failure counters that lead to them, and   *)
(* the limit of prepare requests in flight.                                 *)
(*                                                                          *)
(* A block is two entries in Redis: a record that Redis itself drops after  *)
(* its deadline, and an entry of the deadline index that only a sweep, a    *)
(* page of the operator's list or the operator removes.  Whoever writes     *)
(* reads both with one script, decides, and writes with a second script     *)
(* that compares both with what was read.  One script is one action; a      *)
(* Host may die, and a call may fail, at every one of them.                 *)
(*                                                                          *)
(* Time is explicit, since deadlines are compared with each other; MaxTime  *)
(* bounds it.  What a request was blocked for (reason) is kept, because     *)
(* the scripts compare whole records.                                       *)
EXTENDS Naturals, FiniteSets, Sequences

CONSTANTS
    Requests,        \* requests to the Host, and their failures
    Sweepers,        \* expiry sweeps of Hosts, and pages that an operator lists
    Admins,          \* removals by an operator
    IpOf, SubjectOf, \* the client address and the subject of a request
    Families,        \* the families of failure counters
    Threshold,       \* family -> failures that a window allows
    Window,          \* how long a failure counter lasts
    ShortBlock,      \* the block of a threshold
    LongBlock,       \* the block of a manipulation
    Capacity,        \* prepare requests in flight
    SlotTtl,         \* the age at which the slot of a prepare request is pruned
    MaxTime

ASSUME DurationAssumption ==
    /\ {Window, ShortBlock, LongBlock, Capacity, SlotTtl} \subseteq Nat \ {0}
    /\ MaxTime \in Nat
    /\ "ip" \in Families /\ Threshold \in [Families -> Nat]

ASSUME IdentityAssumption ==
    /\ DOMAIN IpOf = Requests /\ DOMAIN SubjectOf = Requests
    /\ \A r, q \in Requests : IpOf[r] # SubjectOf[q]

Ips        == {IpOf[r] : r \in Requests}
Subjects   == {SubjectOf[r] : r \in Requests}
Identities == Ips \cup Subjects
Counters   == ({"ip"} \X Ips) \cup ((Families \ {"ip"}) \X Subjects)

VARIABLES
    now,      \* the clock of Redis, from 1
    block,    \* identity -> the record, live or past its deadline
    score,    \* identity -> its entry in the deadline index, 0 if there is none
    counter,  \* counter -> failures counted, and when the window ends
    slot,     \* request -> when it took a slot in flight, 0 if it has none
    req,      \* request -> its control state
    admin,    \* operator -> its control state
    sweep,    \* sweep -> the entries it is about to delete
    owed,     \* ghost: identity -> the latest deadline acknowledged and not removed
    longest   \* ghost: identity -> the latest deadline ever acknowledged

redis == <<block, score>>
ghost == <<owed, longest>>
vars  == <<now, block, score, counter, slot, req, admin, sweep, owed, longest>>

Larger(a, b) == IF a > b THEN a ELSE b

NoBlock == [until |-> 0, reason |-> "none"]
Reasons == {"manipulation"} \cup Families
Blocks  == {NoBlock} \cup [until : Nat \ {0}, reason : Reasons]

-----------------------------------------------------------------------------
(* What Redis shows of a block and of a counter now                         *)

\* PEXPIREAT and PEXPIRE: a key is there up to its deadline and gone after it.
Record(i)   == IF block[i].until >= now THEN block[i] ELSE NoBlock
Counted(k)  == IF counter[k].ends >= now THEN counter[k].n ELSE 0
Snapshot(i) == [raw |-> Record(i), score |-> score[i], at |-> now]

\* What a reader calls corrupt: the two entries of a block contradict each other.
Readable(s) == IF s.raw = NoBlock THEN s.score <= s.at ELSE s.score = s.raw.until
Live(s)     == s.raw.until > s.at
Matches(i, s) == Record(i) = s.raw /\ score[i] = s.score

-----------------------------------------------------------------------------
(* What a failed request has to record, as a list of steps                  *)

Count(k)                == [op |-> "count", of |-> k]
Block(i, time, reason)  == [op |-> "block", of |-> i, time |-> time, reason |-> reason]

\* A manipulation blocks at once.  Any other failure counts against the address,
\* and against the subject if it is known and the failure has a counter family.
StepsFor(r, kind, known) ==
    CASE kind = "manipulation" ->
           <<Block(IpOf[r], LongBlock, "manipulation")>> \o
           IF known THEN <<Block(SubjectOf[r], LongBlock, "manipulation")>> ELSE <<>>
      [] OTHER ->
           <<Count(<<"ip", IpOf[r]>>)>> \o
           IF known /\ kind # "ip" THEN <<Count(<<kind, SubjectOf[r]>>)>> ELSE <<>>

NoSnapshot == [raw |-> NoBlock, score |-> 0, at |-> 0]
Idle == [pc |-> "idle", kind |-> "none", known |-> FALSE, todo |-> <<>>, seen |-> NoSnapshot,
         retried |-> FALSE, since |-> 0]
Becomes(r, pc) == req' = [req EXCEPT ![r].pc = pc]

Recording(r) == req[r].pc \in {"record", "apply"}
Doing(r)     == Head(req[r].todo)

\* The step is done: the next one starts, with its own retry, or all is recorded.
StepDone(r, steps) ==
    [req EXCEPT ![r].todo = steps, ![r].retried = FALSE, ![r].seen = NoSnapshot,
                ![r].pc = IF steps = <<>> THEN "recorded" ELSE "record"]

-----------------------------------------------------------------------------
(* Admission and the work of a request                                      *)

\* The address is checked when a request comes in.  A check that cannot be made,
\* or that finds corrupt entries, refuses the request.
CheckIp(r) ==
    /\ req[r].pc = "idle"
    /\ LET seen == Snapshot(IpOf[r]) IN
       \/ Becomes(r, IF Readable(seen) /\ ~Live(seen) THEN "admitted" ELSE "refused")
       \/ Becomes(r, "refused")
    /\ UNCHANGED <<now, redis, counter, slot, admin, sweep, ghost>>

\* The subject is checked once the request has proved who it is.
CheckSubject(r) ==
    /\ req[r].pc = "admitted"
    /\ LET seen == Snapshot(SubjectOf[r]) IN
       \/ Becomes(r, IF Readable(seen) /\ ~Live(seen) THEN "cleared" ELSE "refused")
       \/ Becomes(r, "refused")
    /\ UNCHANGED <<now, redis, counter, slot, admin, sweep, ghost>>

\* The slots that the next acquisition finds: the others are pruned by age.
\* Mutant: they are not, and a slot that nobody gives back is taken for ever.
EverySlot == {r \in Requests : slot[r] # 0}
Young == {r \in Requests : slot[r] # 0 /\ slot[r] + SlotTtl > now}
Pruned(taken) == [r \in Requests |-> IF r \in taken THEN now
                                     ELSE IF r \in Young THEN slot[r] ELSE 0]
\* Mutant: one request too many.
HasAlmostCapacity == Cardinality(Young) <= Capacity
HasCapacity == Cardinality(Young) < Capacity

\* A prepare request takes a slot in flight, or is told that there is none.  Nothing
\* ends a build that has become older than its slot: it goes on without one.
Acquire(r) ==
    /\ req[r].pc = "cleared"
    /\ slot' = Pruned(IF HasCapacity THEN {r} ELSE {})
    /\ req' = IF HasCapacity THEN [req EXCEPT ![r].pc = "building", ![r].since = now]
                             ELSE [req EXCEPT ![r].pc = "overloaded"]
    /\ UNCHANGED <<now, redis, counter, admin, sweep, ghost>>

\* The response is lost: the request fails, and nobody knows the token it was given.
AcquireLost(r) ==
    /\ req[r].pc = "cleared" /\ HasCapacity
    /\ slot' = Pruned({r})
    /\ req' = [req EXCEPT ![r].pc = "leaked", ![r].since = now]
    /\ UNCHANGED <<now, redis, counter, admin, sweep, ghost>>

\* However the build ends, the slot is given back, once.  A failure to do so, or the
\* loss of the answer, is logged, and the slot may then stay.
Release(r) ==
    /\ req[r].pc = "building"
    /\ \/ slot' = [slot EXCEPT ![r] = 0] /\ Becomes(r, "served")
       \/ slot' \in {slot, [slot EXCEPT ![r] = 0]} /\ Becomes(r, "leaked")
    /\ UNCHANGED <<now, redis, counter, admin, sweep, ghost>>

\* A request fails before its subject is checked, or after; the subject is recorded
\* only if the request has proved it.
Fail(r) ==
    /\ req[r].pc \in {"admitted", "cleared"}
    /\ \E kind \in {"manipulation"} \cup Families, known \in BOOLEAN :
          /\ known => req[r].pc = "cleared"
          /\ req' = [req EXCEPT ![r].pc = "record", ![r].kind = kind, ![r].known = known,
                                ![r].todo = StepsFor(r, kind, known), ![r].since = now]
    /\ UNCHANGED <<now, redis, counter, slot, admin, sweep, ghost>>

-----------------------------------------------------------------------------
(* Recording a failure                                                      *)

\* A fixed window starts with its first failure.  The failure that crosses the
\* threshold, and every later one of the window, asks for a block.
Counting(r) ==
    /\ req[r].pc = "record" /\ Doing(r).op = "count"
    /\ LET k == Doing(r).of
           n == Counted(k) + 1
       IN /\ counter' = [counter EXCEPT ![k] = [n |-> n, ends |-> IF n = 1 THEN now + Window
                                                                           ELSE @.ends]]
          /\ req' = StepDone(r, IF n > Threshold[k[1]]
                                THEN <<Block(k[2], ShortBlock, k[1])>> \o Tail(req[r].todo)
                                ELSE Tail(req[r].todo))
    /\ UNCHANGED <<now, redis, slot, admin, sweep, ghost>>

\* setBlock reads first; corrupt entries end the recording.
ReadBlock(r) ==
    /\ req[r].pc = "record" /\ Doing(r).op = "block"
    /\ LET seen == Snapshot(Doing(r).of) IN
       req' = IF Readable(seen) THEN [req EXCEPT ![r].pc = "apply", ![r].seen = seen]
                                ELSE [req EXCEPT ![r].pc = "corrupt"]
    /\ UNCHANGED <<now, redis, counter, slot, admin, sweep, ghost>>

\* The later deadline wins; a record that is kept keeps its reason.
Wanted(r) == [until |-> req[r].seen.at + Doing(r).time, reason |-> Doing(r).reason]
\* Mutant: any block there is stays, however short.
KeepsAny(r) == req[r].seen.raw # NoBlock
Keeps(r) == req[r].seen.raw # NoBlock /\ req[r].seen.raw.until >= Wanted(r).until
Decided(r) == IF Keeps(r) THEN req[r].seen.raw ELSE Wanted(r)

\* What the script compares, and that the decision is not already past.
CanApply(r) == Matches(Doing(r).of, req[r].seen) /\ Decided(r).until > now

Acknowledge(i, until) ==
    /\ owed' = [owed EXCEPT ![i] = Larger(@, until)]
    /\ longest' = [longest EXCEPT ![i] = Larger(@, until)]

ApplyBlock(r) ==
    /\ req[r].pc = "apply" /\ CanApply(r)
    /\ LET i == Doing(r).of IN
       /\ block' = [block EXCEPT ![i] = Decided(r)]
       /\ score' = [score EXCEPT ![i] = Decided(r).until]
       /\ Acknowledge(i, Decided(r).until)
    /\ req' = StepDone(r, Tail(req[r].todo))
    /\ UNCHANGED <<now, counter, slot, admin, sweep>>

\* The entries changed, or the deadline passed: setBlock tries once more, and then
\* gives up the whole recording.
ApplyRefused(r) ==
    /\ req[r].pc = "apply" /\ ~CanApply(r)
    /\ req' = IF req[r].retried THEN [req EXCEPT ![r].pc = "conflict"]
              ELSE [req EXCEPT ![r].pc = "record", ![r].retried = TRUE, ![r].seen = NoSnapshot]
    /\ UNCHANGED <<now, redis, counter, slot, admin, sweep, ghost>>

\* Redis fails, or its response is lost after the script ran: the error is swallowed
\* and the rest of the recording is left out.
RecordFails(r) ==
    /\ Recording(r)
    /\ \/ UNCHANGED <<redis, counter, ghost>>
       \/ /\ req[r].pc = "apply" /\ CanApply(r)
          /\ block' = [block EXCEPT ![Doing(r).of] = Decided(r)]
          /\ score' = [score EXCEPT ![Doing(r).of] = Decided(r).until]
          /\ UNCHANGED <<counter, ghost>>
       \/ /\ req[r].pc = "record" /\ Doing(r).op = "count"
          /\ counter' = [counter EXCEPT ![Doing(r).of] =
                            [n |-> Counted(Doing(r).of) + 1,
                             ends |-> IF Counted(Doing(r).of) = 0 THEN now + Window ELSE @.ends]]
          /\ UNCHANGED <<redis, ghost>>
    /\ Becomes(r, "lost")
    /\ UNCHANGED <<now, slot, admin, sweep>>

\* The Host dies; the slot of a build stays behind.
Crash(r) ==
    /\ req[r].pc \in {"admitted", "cleared", "building"}
    /\ Becomes(r, IF req[r].pc = "building" THEN "leaked" ELSE "lost")
    /\ UNCHANGED <<now, redis, counter, slot, admin, sweep, ghost>>

-----------------------------------------------------------------------------
(* Removal by an operator, expiry, time                                     *)

NobodyAsks == [pc |-> "idle", of |-> "none", seen |-> NoSnapshot]

ReadForRemoval(a) ==
    /\ admin[a].pc = "idle"
    /\ \E i \in Identities :
          LET seen == Snapshot(i) IN
          admin' = [admin EXCEPT ![a] = [of |-> i, seen |-> seen, pc |->
              CASE ~Readable(seen) -> "corrupt"
                [] seen.raw = NoBlock /\ seen.score = 0 -> "missing"
                [] OTHER -> "delete"]]
    /\ UNCHANGED <<now, redis, counter, slot, req, sweep, ghost>>

\* Both entries go at once, if they are still what was read; the operator is told of
\* a block only if it was live.
Remove(a) ==
    /\ admin[a].pc = "delete"
    /\ LET i == admin[a].of IN
       IF Matches(i, admin[a].seen)
       THEN /\ block' = [block EXCEPT ![i] = NoBlock]
            /\ score' = [score EXCEPT ![i] = 0]
            /\ owed' = [owed EXCEPT ![i] = 0]
            /\ admin' = [admin EXCEPT ![a].pc = IF Live(Snapshot(i)) THEN "removed"
                                                                     ELSE "missing"]
            /\ UNCHANGED longest
       ELSE admin' = [admin EXCEPT ![a].pc = "conflict"] /\ UNCHANGED <<redis, ghost>>
    /\ UNCHANGED <<now, counter, slot, req, sweep>>

\* A sweep reads entries of the index that are due, or a page shows them.
Due == {i \in Identities : score[i] # 0 /\ score[i] <= now}
Row(i) == [of |-> i, raw |-> Record(i), score |-> score[i]]

SweepRead(h) ==
    /\ sweep[h] = {}
    /\ \E rows \in SUBSET {Row(i) : i \in Due} \ {{}} : sweep' = [sweep EXCEPT ![h] = rows]
    /\ UNCHANGED <<now, redis, counter, slot, req, admin, ghost>>

\* Of what was read, what has not changed is deleted, record and entry together.
\* Mutant: what was due when it was read is deleted, whatever became of it.
StaleWhenRead(row) == row.score <= now
Stale(row) == /\ score[row.of] = row.score /\ row.score <= now
              /\ Record(row.of) = row.raw
SweepDelete(h) ==
    /\ sweep[h] # {}
    /\ LET gone == {row.of : row \in {row \in sweep[h] : Stale(row)}} IN
       /\ block' = [i \in Identities |-> IF i \in gone THEN NoBlock ELSE block[i]]
       /\ score' = [i \in Identities |-> IF i \in gone THEN 0 ELSE score[i]]
    /\ sweep' = [sweep EXCEPT ![h] = {}]
    /\ UNCHANGED <<now, counter, slot, req, admin, ghost>>

\* The Host dies, or the call fails, between the two scripts.
SweepDies(h) ==
    /\ sweep[h] # {}
    /\ sweep' = [sweep EXCEPT ![h] = {}]
    /\ UNCHANGED <<now, redis, counter, slot, req, admin, ghost>>

Tick ==
    /\ now < MaxTime
    /\ now' = now + 1
    /\ UNCHANGED <<redis, counter, slot, req, admin, sweep, ghost>>

-----------------------------------------------------------------------------
Init ==
    /\ now = 1
    /\ block = [i \in Identities |-> NoBlock] /\ score = [i \in Identities |-> 0]
    /\ counter = [k \in Counters |-> [n |-> 0, ends |-> 0]]
    /\ slot = [r \in Requests |-> 0]
    /\ req = [r \in Requests |-> Idle]
    /\ admin = [a \in Admins |-> NobodyAsks]
    /\ sweep = [h \in Sweepers |-> {}]
    /\ owed = [i \in Identities |-> 0] /\ longest = [i \in Identities |-> 0]

RequestStep(r) ==
    \/ CheckIp(r) \/ CheckSubject(r) \/ Acquire(r) \/ AcquireLost(r) \/ Release(r)
    \/ Fail(r) \/ Counting(r) \/ ReadBlock(r) \/ ApplyBlock(r) \/ ApplyRefused(r)
    \/ RecordFails(r) \/ Crash(r)
Next ==
    \/ \E r \in Requests : RequestStep(r)
    \/ \E a \in Admins : ReadForRemoval(a) \/ Remove(a)
    \/ \E h \in Sweepers : SweepRead(h) \/ SweepDelete(h) \/ SweepDies(h)
    \/ Tick

Spec == Init /\ [][Next]_vars

-----------------------------------------------------------------------------
(* Properties                                                               *)

Snapshots == [raw : Blocks, score : Nat, at : Nat]
Steps == [op : {"count"}, of : Counters]
         \cup [op : {"block"}, of : Identities, time : {ShortBlock, LongBlock}, reason : Reasons]
Controls == {"idle", "admitted", "cleared", "refused", "overloaded", "building", "served",
             "leaked", "record", "apply", "recorded", "corrupt", "conflict", "lost"}

\* Shapes; a request that records has something left to record.
TypeOK ==
    /\ now \in 1..Larger(1, MaxTime)
    /\ block \in [Identities -> Blocks] /\ score \in [Identities -> Nat]
    /\ counter \in [Counters -> [n : Nat, ends : Nat]]
    /\ slot \in [Requests -> Nat]
    /\ \A r \in Requests :
          /\ req[r].pc \in Controls /\ req[r].kind \in {"none", "manipulation"} \cup Families
          /\ req[r].known \in BOOLEAN /\ req[r].retried \in BOOLEAN
          /\ req[r].seen \in Snapshots /\ req[r].since \in Nat
          /\ \A n \in 1..Len(req[r].todo) : req[r].todo[n] \in Steps
          /\ Recording(r) => req[r].todo # <<>>
    /\ \A a \in Admins : admin[a].pc # "idle" => admin[a].of \in Identities
    /\ \A h \in Sweepers : sweep[h] \subseteq
          [of : Identities, raw : Blocks, score : Nat \ {0}]
    /\ owed \in [Identities -> Nat] /\ longest \in [Identities -> Nat]

\* A block that setBlock has acknowledged stands until its deadline, unless an operator
\* removes it: no later and shorter block, no sweep and no page of an older moment
\* takes it away.  Nor does any reader find entries that contradict each other.
BlockStands ==
    \A i \in Identities :
       /\ owed[i] > now => Record(i).until >= owed[i]
       /\ Readable(Snapshot(i))

\* Recording that was not cut short has its effect: a manipulation has blocked the
\* address and the subject it proved for the long time; a counter above its
\* threshold, when nobody is recording or has failed to, has led to a block.
AbuseIsBlocked ==
    /\ \A r \in Requests :
          req[r].pc = "recorded" /\ req[r].kind = "manipulation" =>
              \A i \in {IpOf[r]} \cup (IF req[r].known THEN {SubjectOf[r]} ELSE {}) :
                 longest[i] >= req[r].since + LongBlock
    /\ (\A r \in Requests : ~Recording(r) /\ req[r].pc \notin {"lost", "conflict"}) =>
          \A k \in Counters : Counted(k) > Threshold[k[1]] =>
              longest[k[2]] >= counter[k].ends - Window + ShortBlock

\* No more requests than the capacity build at a time of those that began within one
\* slot age of each other, however old they have become and whatever was lost or died.
\* (A build that outlives its slot is not counted by the limiter: builds that began
\* further apart may together be more than the capacity.)
Abreast(q) == {r \in Requests : /\ req[r].pc = "building" /\ req[q].since <= req[r].since
                                /\ req[r].since < req[q].since + SlotTtl}
InFlightBounded ==
    \A q \in Requests : req[q].pc = "building" => Cardinality(Abreast(q)) <= Capacity

\* Who is told that there is no capacity meets as many requests as there is capacity
\* that took a slot less than one slot age ago and build, or never learned that they
\* gave it back: a slot that leaked keeps nobody out for longer.
Holders == {r \in Requests : /\ req[r].pc \in {"building", "leaked"}
                             /\ now < req[r].since + SlotTtl}
OverloadIsReal ==
    [][\A r \in Requests : req[r].pc = "cleared" /\ req'[r].pc = "overloaded" =>
          Cardinality(Holders) >= Capacity]_vars
=============================================================================
