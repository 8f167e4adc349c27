--------------------------- MODULE AdmissionProofs ---------------------------
(* Proofs about Admission, for any number of requests, sweeps, operators and *)
(* counter families, and for any durations, thresholds and capacity.         *)
EXTENDS Admission, TLAPS, FiniteSetTheorems, SequenceTheorems

-----------------------------------------------------------------------------
(* The inductive invariant                                                  *)

Requestors == [pc : Controls, kind : {"none", "manipulation"} \cup Families,
               known : BOOLEAN, todo : Seq(Steps), seen : Snapshots,
               retried : BOOLEAN, since : Nat]
Removals == [pc : {"idle", "corrupt", "missing", "delete", "removed", "conflict"},
             of : Identities \cup {"none"}, seen : Snapshots]
Rows == [of : Identities, raw : Blocks, score : Nat \ {0}]

\* The type invariant, with what EXCEPT needs to know of the whole values.
Shape ==
    /\ now \in Nat /\ 1 <= now /\ now <= Larger(1, MaxTime)
    /\ block \in [Identities -> Blocks] /\ score \in [Identities -> Nat]
    /\ counter \in [Counters -> [n : Nat, ends : Nat]]
    /\ slot \in [Requests -> Nat]
    /\ req \in [Requests -> Requestors]
    /\ \A r \in Requests : /\ Recording(r) => req[r].todo # <<>>
                           /\ req[r].pc = "apply" => Doing(r).op = "block"
    /\ admin \in [Admins -> Removals]
    /\ \A a \in Admins : admin[a].pc # "idle" => admin[a].of \in Identities
    /\ sweep \in [Sweepers -> SUBSET Rows]
    /\ owed \in [Identities -> Nat] /\ longest \in [Identities -> Nat]

\* The record and the entry of the index are written and deleted together; what
\* has been acknowledged and is not past is covered by the record.
Agreement ==
    \A i \in Identities : /\ score[i] = block[i].until
                          /\ owed[i] > now => block[i].until >= owed[i]

\* Of the blocks that a manipulation asks for, those no longer to do are done.
LongDone(r, i) == longest[i] >= req[r].since + LongBlock
Manipulated(r) ==
    /\ Recording(r) =>
         \/ req[r].todo = StepsFor(r, "manipulation", req[r].known)
         \/ /\ req[r].known /\ LongDone(r, IpOf[r])
            /\ req[r].todo = <<Block(SubjectOf[r], LongBlock, "manipulation")>>
    /\ req[r].pc = "recorded" =>
         /\ LongDone(r, IpOf[r])
         /\ req[r].known => LongDone(r, SubjectOf[r])

\* A request reads a block after its failure; corrupt entries are never found.
HasRecorded(r) ==
    /\ req[r].pc # "corrupt" /\ req[r].since <= now
    /\ req[r].pc = "apply" => req[r].since <= req[r].seen.at
    /\ req[r].kind = "manipulation" => Manipulated(r)
Recorded == \A r \in Requests : HasRecorded(r)

\* A counter above its threshold has led to a block, or somebody is about to set it
\* from a snapshot that is not older than the window, or was stopped.
Asks(r, k) ==
    /\ Recording(r) /\ Doing(r).op = "block"
    /\ Doing(r).of = k[2] /\ Doing(r).time = ShortBlock
    /\ req[r].pc = "apply" => req[r].seen.at >= counter[k].ends - Window
Stopped(r) == req[r].pc \in {"lost", "conflict"}
CountersLead ==
    \A k \in Counters :
       /\ counter[k].ends <= now + Window
       /\ Counted(k) > Threshold[k[1]] =>
             \/ longest[k[2]] >= counter[k].ends - Window + ShortBlock
             \/ \E r \in Requests : Stopped(r) \/ Asks(r, k)

\* Who has a slot took it when it began and has not given it back; who builds has one,
\* or is older than the age at which slots are pruned.
Slotted == {r \in Requests : req[r].pc \in {"building", "leaked"}}
SlotsHeld ==
    \A r \in Requests :
       /\ slot[r] # 0 => r \in Slotted /\ slot[r] = req[r].since
       /\ req[r].pc = "building" =>
             /\ 1 <= req[r].since /\ req[r].since <= now
             /\ slot[r] = req[r].since \/ req[r].since + SlotTtl <= now
InFlight ==
    /\ IsFiniteSet(Slotted) /\ SlotsHeld
    /\ IsFiniteSet(Young) /\ Cardinality(Young) <= Capacity
    /\ InFlightBounded

IInv == Shape /\ Agreement /\ Recorded /\ CountersLead /\ InFlight

-----------------------------------------------------------------------------
(* Types of the operators                                                   *)

LEMMA Durations ==
    /\ Window \in Nat /\ Window >= 1 /\ ShortBlock \in Nat /\ ShortBlock >= 1
    /\ LongBlock \in Nat /\ LongBlock >= 1 /\ Capacity \in Nat /\ Capacity >= 1
    /\ SlotTtl \in Nat /\ SlotTtl >= 1 /\ MaxTime \in Nat
    /\ "ip" \in Families /\ \A f \in Families : Threshold[f] \in Nat
  BY DurationAssumption

LEMMA Members ==
    /\ \A r \in Requests : IpOf[r] \in Identities /\ SubjectOf[r] \in Identities
    /\ \A k \in Counters : k[1] \in Families /\ k[2] \in Identities
  BY Durations DEF Identities, Ips, Subjects, Counters

LEMMA CountTyped == \A k \in Counters : Count(k) \in Steps
  BY DEF Count, Steps

LEMMA BlockTyped ==
    \A i \in Identities, time \in {ShortBlock, LongBlock}, reason \in Reasons :
       Block(i, time, reason) \in Steps
  BY DEF Block, Steps

LEMMA StepsForTyped ==
    ASSUME NEW r \in Requests, NEW kind \in {"manipulation"} \cup Families, NEW known \in BOOLEAN
    PROVE  StepsFor(r, kind, known) \in Seq(Steps) /\ StepsFor(r, kind, known) # <<>>
<1>1. CASE kind = "manipulation"
  <2>1. /\ Block(IpOf[r], LongBlock, "manipulation") \in Steps
        /\ Block(SubjectOf[r], LongBlock, "manipulation") \in Steps
    BY Members, BlockTyped DEF Reasons
  <2>. QED
    BY <1>1, <2>1 DEF StepsFor
<1>2. CASE kind # "manipulation"
  <2>1. Count(<<"ip", IpOf[r]>>) \in Steps
    BY CountTyped DEF Counters, Ips
  <2>2. ASSUME kind # "ip" PROVE Count(<<kind, SubjectOf[r]>>) \in Steps
    BY <1>2, <2>2, CountTyped DEF Counters, Subjects
  <2>. QED
    BY <1>2, <2>1, <2>2 DEF StepsFor
<1>. QED
  BY <1>1, <1>2

LEMMA SnapshotTyped ==
    ASSUME Shape, NEW i \in Identities
    PROVE  /\ Record(i) \in Blocks /\ Snapshot(i) \in Snapshots
           /\ Snapshot(i).at = now /\ Snapshot(i).raw = Record(i)
           /\ Snapshot(i).score = score[i]
  BY DEF Shape, Record, Snapshot, Snapshots, Blocks

LEMMA NoneTyped == NoSnapshot \in Snapshots /\ Idle \in Requestors /\ NobodyAsks \in Removals
  BY DEF NoSnapshot, Snapshots, Blocks, Idle, Requestors, Controls, NobodyAsks, Removals

LEMMA DoingTyped ==
    ASSUME Shape, NEW r \in Requests, Recording(r)
    PROVE  /\ Doing(r) \in Steps /\ Tail(req[r].todo) \in Seq(Steps)
           /\ Doing(r).op = "count" => Doing(r).of \in Counters
           /\ Doing(r).op = "block" => /\ Doing(r).of \in Identities
                                       /\ Doing(r).time \in {ShortBlock, LongBlock}
                                       /\ Doing(r).reason \in Reasons
<1>1. req[r].todo \in Seq(Steps) /\ req[r].todo # <<>>
  BY DEF Shape, Requestors
<1>2. Doing(r) \in Steps /\ Tail(req[r].todo) \in Seq(Steps)
  BY <1>1 DEF Doing
<1>. QED
  BY <1>2 DEF Steps

LEMMA DecidedTyped ==
    ASSUME Shape, NEW r \in Requests, Recording(r), Doing(r).op = "block"
    PROVE  /\ Decided(r) \in Blocks /\ Decided(r).until \in Nat \ {0}
           /\ Decided(r).until >= req[r].seen.at + Doing(r).time
<1>1. req[r].seen \in Snapshots
  BY DEF Shape, Requestors
<1>2. /\ Wanted(r) \in [until : Nat \ {0}, reason : Reasons]
      /\ Wanted(r).until = req[r].seen.at + Doing(r).time
  BY <1>1, DoingTyped, Durations DEF Wanted, Snapshots
<1>3. CASE Keeps(r)
  <2>1. req[r].seen.raw \in [until : Nat \ {0}, reason : Reasons]
    BY <1>1, <1>3 DEF Keeps, Snapshots, Blocks
  <2>. QED
    BY <1>2, <1>3, <2>1 DEF Keeps, Decided, Blocks
<1>4. CASE ~Keeps(r)
  BY <1>2, <1>4 DEF Decided, Blocks
<1>. QED
  BY <1>3, <1>4

-----------------------------------------------------------------------------
(* Types are kept                                                           *)

LEMMA ShapeInit == Init => Shape
  BY Durations, NoneTyped DEF Init, Shape, Larger, Blocks, Recording, Idle, NobodyAsks

RequestsTyped ==
    /\ req \in [Requests -> Requestors]
    /\ \A r \in Requests : /\ Recording(r) => req[r].todo # <<>>
                           /\ req[r].pc = "apply" => Doing(r).op = "block"

\* A request that moves on keeps the types if its next state has them.
LEMMA OneRequestTyped ==
    ASSUME Shape, NEW r \in Requests, NEW next \in Requestors,
           req' = [req EXCEPT ![r] = next],
           next.pc \in {"record", "apply"} => next.todo # <<>>,
           next.pc = "apply" => Head(next.todo).op = "block"
    PROVE  RequestsTyped'
<1>1. req' \in [Requests -> Requestors] /\ req'[r] = next
      /\ \A q \in Requests : q # r => req'[q] = req[q]
  BY DEF Shape
<1>. QED
  BY <1>1 DEF Shape, RequestsTyped, Recording, Doing

LEMMA NextStepTyped ==
    ASSUME Shape, NEW r \in Requests, NEW steps \in Seq(Steps), req' = StepDone(r, steps)
    PROVE  RequestsTyped'
<1>. DEFINE next == [req[r] EXCEPT !.todo = steps, !.retried = FALSE, !.seen = NoSnapshot,
                                   !.pc = IF steps = <<>> THEN "recorded" ELSE "record"]
<1>1. next \in Requestors
  BY NoneTyped DEF Shape, Requestors, Controls
<1>2. req' = [req EXCEPT ![r] = next]
  BY DEF StepDone, Shape
<1>3. next.pc = (IF steps = <<>> THEN "recorded" ELSE "record") /\ next.todo = steps
  BY DEF Shape, Requestors
<1>. HIDE DEF next
<1>. QED
  BY <1>1, <1>2, <1>3, OneRequestTyped

LEMMA MoveTyped ==
    ASSUME Shape, NEW r \in Requests, NEW pc \in Controls \ {"record", "apply"}, Becomes(r, pc)
    PROVE  RequestsTyped'
<1>. DEFINE next == [req[r] EXCEPT !.pc = pc]
<1>1. next \in Requestors /\ next.pc = pc
  BY DEF Shape, Requestors
<1>2. req' = [req EXCEPT ![r] = next]
  BY DEF Becomes, Shape
<1>. HIDE DEF next
<1>. QED
  BY <1>1, <1>2, OneRequestTyped

LEMMA ShapeRequests ==
    ASSUME Shape, NEW r \in Requests, RequestStep(r)
    PROVE  Shape'
<1>1. CASE CheckIp(r) \/ CheckSubject(r) \/ Crash(r)
  <2>1. PICK pc \in Controls \ {"record", "apply"} : Becomes(r, pc)
    BY <1>1 DEF CheckIp, CheckSubject, Crash, Controls
  <2>. QED
    BY <1>1, <2>1, MoveTyped DEF CheckIp, CheckSubject, Crash, Shape, RequestsTyped, redis, ghost
<1>2. CASE Acquire(r) /\ HasCapacity
  <2>. DEFINE next == [req[r] EXCEPT !.pc = "building", !.since = now]
  <2>1. slot' \in [Requests -> Nat]
    BY <1>2 DEF Acquire, Pruned, Shape
  <2>2. next \in Requestors /\ next.pc = "building"
    BY DEF Shape, Requestors, Controls
  <2>3. req' = [req EXCEPT ![r] = next]
    BY <1>2 DEF Acquire, Shape
  <2>. HIDE DEF next
  <2>4. RequestsTyped'
    BY <2>2, <2>3, OneRequestTyped
  <2>. QED
    BY <1>2, <2>1, <2>4 DEF Acquire, Shape, RequestsTyped, redis, ghost
<1>10. CASE AcquireLost(r)
  <2>. DEFINE next == [req[r] EXCEPT !.pc = "leaked", !.since = now]
  <2>1. slot' \in [Requests -> Nat]
    BY <1>10 DEF AcquireLost, Pruned, Shape
  <2>2. next \in Requestors /\ next.pc = "leaked"
    BY DEF Shape, Requestors, Controls
  <2>3. req' = [req EXCEPT ![r] = next]
    BY <1>10 DEF AcquireLost, Shape
  <2>. HIDE DEF next
  <2>4. RequestsTyped'
    BY <2>2, <2>3, OneRequestTyped
  <2>. QED
    BY <1>10, <2>1, <2>4 DEF AcquireLost, Shape, RequestsTyped, redis, ghost
<1>3. CASE (Acquire(r) /\ ~HasCapacity) \/ Release(r)
  <2>1. slot' \in [Requests -> Nat]
    <3>1. \A taken : Pruned(taken) \in [Requests -> Nat]
      BY DEF Pruned, Shape
    <3>2. [slot EXCEPT ![r] = 0] \in [Requests -> Nat] /\ slot \in [Requests -> Nat]
      BY DEF Shape
    <3>. QED
      BY <1>3, <3>1, <3>2 DEF Acquire, Release
  <2>2. PICK pc \in Controls \ {"record", "apply"} : Becomes(r, pc)
    BY <1>3 DEF Acquire, Release, Becomes, Controls
  <2>. QED
    BY <1>3, <2>1, <2>2, MoveTyped
       DEF Acquire, Release, Shape, RequestsTyped, redis, ghost
<1>4. CASE Fail(r)
  <2>1. PICK kind \in {"manipulation"} \cup Families, known \in BOOLEAN :
           req' = [req EXCEPT ![r].pc = "record", ![r].kind = kind, ![r].known = known,
                              ![r].todo = StepsFor(r, kind, known), ![r].since = now]
    BY <1>4 DEF Fail
  <2>. DEFINE next == [req[r] EXCEPT !.pc = "record", !.kind = kind, !.known = known,
                                     !.todo = StepsFor(r, kind, known), !.since = now]
  <2>2. StepsFor(r, kind, known) \in Seq(Steps) /\ StepsFor(r, kind, known) # <<>>
    BY StepsForTyped
  <2>3. next \in Requestors /\ next.pc = "record" /\ next.todo # <<>>
    BY <2>2, ZenonT(60) DEF Shape, Requestors, Controls
  <2>4. req' = [req EXCEPT ![r] = next]
    BY <2>1 DEF Shape
  <2>. HIDE DEF next
  <2>5. RequestsTyped'
    BY <2>3, <2>4, OneRequestTyped
  <2>. QED
    BY <1>4, <2>5 DEF Fail, Shape, RequestsTyped, redis, ghost
<1>5. CASE Counting(r)
  <2>. DEFINE k == Doing(r).of
  <2>1. Recording(r) /\ k \in Counters /\ Tail(req[r].todo) \in Seq(Steps)
    BY <1>5, DoingTyped DEF Counting, Recording
  <2>. HIDE DEF k
  <2>2. /\ Counted(k) \in Nat /\ Block(k[2], ShortBlock, k[1]) \in Steps
        /\ now + Window \in Nat
    <3>1. Counted(k) \in Nat /\ now + Window \in Nat
      BY <2>1, Durations DEF Counted, Shape
    <3>2. k[1] \in Reasons /\ k[2] \in Identities
      BY <2>1, Members DEF Reasons
    <3>. QED
      BY <3>1, <3>2, BlockTyped
  <2>3. counter' \in [Counters -> [n : Nat, ends : Nat]]
    BY <1>5, <2>1, <2>2 DEF Counting, Shape, k
  <2>4. <<Block(k[2], ShortBlock, k[1])>> \o Tail(req[r].todo) \in Seq(Steps)
    BY <2>1, <2>2
  <2>5. PICK steps : steps \in Seq(Steps) /\ req' = StepDone(r, steps)
    BY <1>5, <2>1, <2>4 DEF Counting, k
  <2>6. RequestsTyped'
    BY <2>5, NextStepTyped
  <2>. QED
    BY <1>5, <2>3, <2>6 DEF Counting, Shape, RequestsTyped, redis, ghost
<1>6. CASE ReadBlock(r)
  <2>. DEFINE seen == Snapshot(Doing(r).of)
              next == [req[r] EXCEPT !.pc = "apply", !.seen = seen]
  <2>1. /\ Recording(r) /\ Doing(r).of \in Identities /\ Doing(r).op = "block"
        /\ req[r].pc = "record"
    BY <1>6, DoingTyped DEF ReadBlock, Recording
  <2>2. seen \in Snapshots
    BY <2>1, SnapshotTyped
  <2>. HIDE DEF seen
  <2>3. CASE Readable(seen)
    <3>1. /\ next \in Requestors /\ next.pc = "apply" /\ next.todo = req[r].todo
      BY <2>2 DEF Shape, Requestors, Controls
    <3>2. req' = [req EXCEPT ![r] = next]
      BY <1>6, <2>3 DEF ReadBlock, Shape, seen
    <3>. HIDE DEF next
    <3>3. next.todo # <<>> /\ Head(next.todo).op = "block"
      BY <2>1, <3>1 DEF Shape, Doing
    <3>4. RequestsTyped'
      BY <3>1, <3>2, <3>3, OneRequestTyped
    <3>. QED
      BY <1>6, <3>4 DEF ReadBlock, Shape, RequestsTyped, redis, ghost
  <2>4. CASE ~Readable(seen)
    <3>1. Becomes(r, "corrupt") /\ "corrupt" \in Controls
      BY <1>6, <2>4 DEF ReadBlock, Becomes, Controls, seen
    <3>. QED
      BY <1>6, <3>1, MoveTyped DEF ReadBlock, Shape, RequestsTyped, redis, ghost
  <2>. QED
    BY <2>3, <2>4
<1>7. CASE ApplyBlock(r)
  <2>. DEFINE i == Doing(r).of
  <2>1. Recording(r) /\ Doing(r).op = "block"
    BY <1>7 DEF ApplyBlock, Recording, Shape
  <2>2. /\ i \in Identities /\ Tail(req[r].todo) \in Seq(Steps)
        /\ Decided(r) \in Blocks /\ Decided(r).until \in Nat
    BY <2>1, DoingTyped, DecidedTyped
  <2>3. RequestsTyped'
    BY <1>7, <2>2, NextStepTyped DEF ApplyBlock
  <2>4. block' \in [Identities -> Blocks] /\ score' \in [Identities -> Nat]
    BY <1>7, <2>2 DEF ApplyBlock, Shape
  <2>5. owed' \in [Identities -> Nat] /\ longest' \in [Identities -> Nat]
    BY <1>7, <2>2 DEF ApplyBlock, Acknowledge, Larger, Shape
  <2>. QED
    BY <1>7, <2>3, <2>4, <2>5 DEF ApplyBlock, Shape, RequestsTyped
<1>8. CASE ApplyRefused(r)
  <2>. DEFINE next == [req[r] EXCEPT !.pc = "record", !.retried = TRUE, !.seen = NoSnapshot]
  <2>1. CASE req[r].retried
    <3>1. Becomes(r, "conflict") /\ "conflict" \in Controls
      BY <1>8, <2>1 DEF ApplyRefused, Becomes, Controls
    <3>. QED
      BY <1>8, <3>1, MoveTyped DEF ApplyRefused, Shape, RequestsTyped, redis, ghost
  <2>2. CASE ~req[r].retried
    <3>1. /\ next \in Requestors /\ next.pc = "record" /\ next.todo = req[r].todo
      BY NoneTyped DEF Shape, Requestors, Controls
    <3>2. req' = [req EXCEPT ![r] = next]
      BY <1>8, <2>2 DEF ApplyRefused, Shape
    <3>3. req[r].todo # <<>>
      BY <1>8 DEF ApplyRefused, Shape, Recording
    <3>. HIDE DEF next
    <3>4. RequestsTyped'
      BY <3>1, <3>2, <3>3, OneRequestTyped
    <3>. QED
      BY <1>8, <3>4 DEF ApplyRefused, Shape, RequestsTyped, redis, ghost
  <2>. QED
    BY <2>1, <2>2
<1>9. CASE RecordFails(r)
  <2>1. Becomes(r, "lost") /\ "lost" \in Controls /\ Recording(r)
    BY <1>9 DEF RecordFails, Controls
  <2>2. counter' \in [Counters -> [n : Nat, ends : Nat]]
    <3>1. CASE counter' = counter
      BY <3>1 DEF Shape
    <3>2. CASE Doing(r).op = "count" /\ counter' # counter
      <4>. DEFINE k == Doing(r).of
      <4>1. k \in Counters /\ Counted(k) + 1 \in Nat /\ now + Window \in Nat
        BY <2>1, <3>2, DoingTyped, Durations DEF Counted, Shape
      <4>2. counter' = [counter EXCEPT ![k] =
                           [n |-> Counted(k) + 1,
                            ends |-> IF Counted(k) = 0 THEN now + Window ELSE @.ends]]
        BY <1>9, <3>2 DEF RecordFails
      <4>. HIDE DEF k
      <4>. QED
        BY <4>1, <4>2 DEF Shape
    <3>. QED
      BY <1>9, <3>1, <3>2 DEF RecordFails
  <2>3. block' \in [Identities -> Blocks] /\ score' \in [Identities -> Nat]
    <3>1. CASE redis' = redis
      BY <3>1 DEF redis, Shape
    <3>2. CASE req[r].pc = "apply" /\ redis' # redis
      <4>1. /\ Doing(r).op = "block" /\ Doing(r).of \in Identities
            /\ Decided(r) \in Blocks /\ Decided(r).until \in Nat
        BY <2>1, <3>2, DoingTyped, DecidedTyped DEF Shape
      <4>2. /\ block' = [block EXCEPT ![Doing(r).of] = Decided(r)]
            /\ score' = [score EXCEPT ![Doing(r).of] = Decided(r).until]
        BY <1>9, <3>2, <4>1 DEF RecordFails, redis
      <4>. QED
        BY <4>1, <4>2 DEF Shape
    <3>. QED
      BY <1>9, <3>1, <3>2 DEF RecordFails
  <2>4. UNCHANGED <<now, slot, admin, sweep, owed, longest>>
    BY <1>9 DEF RecordFails, ghost
  <2>. QED
    BY <2>1, <2>2, <2>3, <2>4, MoveTyped DEF Shape, RequestsTyped
<1>. QED
  BY <1>1, <1>2, <1>3, <1>4, <1>5, <1>6, <1>7, <1>8, <1>9, <1>10 DEF RequestStep

LEMMA ShapeEnvironment ==
    ASSUME Shape, \/ \E a \in Admins : ReadForRemoval(a) \/ Remove(a)
                  \/ \E h \in Sweepers : SweepRead(h) \/ SweepDelete(h) \/ SweepDies(h)
                  \/ Tick
    PROVE  Shape'
<1>1. ASSUME NEW a \in Admins, ReadForRemoval(a) PROVE Shape'
  <2>1. PICK i \in Identities, pc \in {"corrupt", "missing", "delete"} :
           admin' = [admin EXCEPT ![a] = [of |-> i, seen |-> Snapshot(i), pc |-> pc]]
    BY <1>1 DEF ReadForRemoval
  <2>2. [of |-> i, seen |-> Snapshot(i), pc |-> pc] \in Removals
    BY SnapshotTyped DEF Removals
  <2>3. /\ admin' \in [Admins -> Removals]
        /\ \A b \in Admins : admin'[b].pc # "idle" => admin'[b].of \in Identities
    BY <2>1, <2>2 DEF Shape
  <2>. QED
    BY <1>1, <2>3 DEF ReadForRemoval, Shape, Recording, Doing, redis, ghost
<1>2. ASSUME NEW a \in Admins, Remove(a) PROVE Shape'
  <2>1. admin[a].of \in Identities
    BY <1>2 DEF Remove, Shape
  <2>2. PICK pc \in {"removed", "missing", "conflict"} : admin' = [admin EXCEPT ![a].pc = pc]
    BY <1>2 DEF Remove
  <2>3. /\ admin' \in [Admins -> Removals]
        /\ \A b \in Admins : admin'[b].pc # "idle" => admin'[b].of \in Identities
    BY <2>1, <2>2, ZenonT(60) DEF Shape, Removals
  <2>4. /\ block' \in [Identities -> Blocks] /\ score' \in [Identities -> Nat]
        /\ owed' \in [Identities -> Nat] /\ longest' = longest
    <3>1. /\ [block EXCEPT ![admin[a].of] = NoBlock] \in [Identities -> Blocks]
          /\ [score EXCEPT ![admin[a].of] = 0] \in [Identities -> Nat]
          /\ [owed EXCEPT ![admin[a].of] = 0] \in [Identities -> Nat]
      BY <2>1 DEF Shape, Blocks
    <3>. QED
      BY <1>2, <3>1 DEF Remove, Shape, redis, ghost
  <2>. QED
    BY <1>2, <2>3, <2>4 DEF Remove, Shape, Recording, Doing
<1>3. ASSUME NEW h \in Sweepers, SweepRead(h) PROVE Shape'
  <2>1. \A i \in Due : Row(i) \in Rows
    BY SnapshotTyped DEF Due, Row, Rows, Shape
  <2>2. sweep' \in [Sweepers -> SUBSET Rows]
    BY <1>3, <2>1 DEF SweepRead, Shape
  <2>. QED
    BY <1>3, <2>2 DEF SweepRead, Shape, Recording, Doing, redis, ghost
<1>4. ASSUME NEW h \in Sweepers, SweepDelete(h) \/ SweepDies(h) PROVE Shape'
  <2>1. block' \in [Identities -> Blocks] /\ score' \in [Identities -> Nat]
    <3>1. \A gone : /\ [i \in Identities |-> IF i \in gone THEN NoBlock ELSE block[i]]
                            \in [Identities -> Blocks]
                    /\ [i \in Identities |-> IF i \in gone THEN 0 ELSE score[i]]
                            \in [Identities -> Nat]
      BY DEF Shape, Blocks
    <3>2. CASE SweepDelete(h)
      <4>. DEFINE gone == {row.of : row \in {row \in sweep[h] : Stale(row)}}
      <4>1. /\ block' = [i \in Identities |-> IF i \in gone THEN NoBlock ELSE block[i]]
            /\ score' = [i \in Identities |-> IF i \in gone THEN 0 ELSE score[i]]
        BY <3>2 DEF SweepDelete
      <4>. HIDE DEF gone
      <4>. QED
        BY <3>1, <4>1
    <3>. QED
      BY <1>4, <3>2 DEF SweepDies, Shape, redis
  <2>2. sweep' \in [Sweepers -> SUBSET Rows]
    BY <1>4 DEF SweepDelete, SweepDies, Shape
  <2>. QED
    BY <1>4, <2>1, <2>2 DEF SweepDelete, SweepDies, Shape, Recording, Doing, redis, ghost
<1>5. ASSUME Tick PROVE Shape'
  BY <1>5, Durations DEF Tick, Shape, Larger, Recording, Doing, redis, ghost
<1>. QED
  BY <1>1, <1>2, <1>3, <1>4, <1>5

LEMMA ShapeStep == Shape /\ [Next]_vars => Shape'
<1>. SUFFICES ASSUME Shape, [Next]_vars PROVE Shape'
  OBVIOUS
<1>1. CASE Next
  BY <1>1, ShapeRequests, ShapeEnvironment DEF Next
<1>2. CASE UNCHANGED vars
  BY <1>2 DEF vars, Shape, Recording, Doing
<1>. QED
  BY <1>1, <1>2

-----------------------------------------------------------------------------
(* The two entries of a block                                               *)

LEMMA AgreementInit == Init => Agreement
  BY DEF Init, Agreement, NoBlock

\* What setBlock writes covers what was owed and what it has decided.
LEMMA WriteCovers ==
    ASSUME Shape, Agreement, NEW r \in Requests, Recording(r), Doing(r).op = "block",
           CanApply(r), owed[Doing(r).of] > now
    PROVE  Decided(r).until >= owed[Doing(r).of]
<1>. DEFINE i == Doing(r).of
<1>1. i \in Identities /\ req[r].seen \in Snapshots
  BY DoingTyped DEF Shape, Requestors
<1>2. block[i].until >= owed[i] /\ Record(i) = block[i] /\ block[i] # NoBlock
      /\ block[i].until \in Nat /\ owed[i] \in Nat /\ now \in Nat
  BY <1>1 DEF Agreement, Record, Shape, Blocks, NoBlock
<1>3. req[r].seen.raw = block[i]
  BY <1>2 DEF CanApply, Matches
<1>4. Wanted(r).until \in Nat
  <2>1. Doing(r).time \in Nat /\ req[r].seen.at \in Nat
    BY <1>1, DoingTyped, Durations DEF Snapshots
  <2>. QED
    BY <2>1 DEF Wanted
<1>. QED
  BY <1>2, <1>3, <1>4 DEF Decided, Keeps

\* setBlock writes both entries, whether or not its answer arrives.
LEMMA WriteAgrees ==
    ASSUME Shape, Agreement, NEW r \in Requests, Recording(r), Doing(r).op = "block",
           CanApply(r), now' = now,
           block' = [block EXCEPT ![Doing(r).of] = Decided(r)],
           score' = [score EXCEPT ![Doing(r).of] = Decided(r).until],
           owed' = owed \/ Acknowledge(Doing(r).of, Decided(r).until)
    PROVE  Agreement'
<1>. DEFINE i == Doing(r).of
<1>1. i \in Identities /\ Decided(r).until \in Nat /\ owed[i] \in Nat /\ now \in Nat
  BY DoingTyped, DecidedTyped DEF Shape
<1>2. owed[i] > now => Decided(r).until >= owed[i]
  BY WriteCovers
<1>3. score'[i] = block'[i].until /\ block'[i] = Decided(r)
  BY <1>1 DEF Shape
<1>4. owed'[i] > now' => block'[i].until >= owed'[i]
  BY <1>1, <1>2, <1>3 DEF Acknowledge, Larger, Shape
<1>5. \A j \in Identities : j # i =>
         block'[j] = block[j] /\ score'[j] = score[j] /\ owed'[j] = owed[j]
  BY <1>1 DEF Acknowledge, Shape
<1>. QED
  BY <1>3, <1>4, <1>5 DEF Agreement

LEMMA AgreementStep == Shape /\ Agreement /\ [Next]_vars => Agreement'
<1>. SUFFICES ASSUME Shape, Agreement, [Next]_vars PROVE Agreement'
  OBVIOUS
<1>1. CASE now' = now /\ UNCHANGED <<block, score, owed>>
  BY <1>1 DEF Agreement
<1>2. ASSUME NEW r \in Requests, ApplyBlock(r) PROVE Agreement'
  BY <1>2, WriteAgrees DEF ApplyBlock, Shape, Recording
<1>3. ASSUME NEW r \in Requests, RecordFails(r) PROVE Agreement'
  <2>1. CASE req[r].pc = "apply" /\ CanApply(r) /\ redis' # redis
    <3>1. /\ block' = [block EXCEPT ![Doing(r).of] = Decided(r)]
          /\ score' = [score EXCEPT ![Doing(r).of] = Decided(r).until]
          /\ now' = now /\ owed' = owed
      BY <1>3, <2>1 DEF RecordFails, redis, ghost
    <3>. QED
      BY <2>1, <3>1, WriteAgrees DEF Shape, Recording
  <2>2. CASE redis' = redis
    BY <1>1, <1>3, <2>2 DEF RecordFails, redis, ghost
  <2>. QED
    BY <1>3, <2>1, <2>2 DEF RecordFails
<1>4. ASSUME NEW a \in Admins, Remove(a) PROVE Agreement'
  <2>1. admin[a].of \in Identities
    BY <1>4 DEF Remove, Shape
  <2>. QED
    BY <1>4, <2>1, SMTT(40) DEF Remove, Agreement, Shape, NoBlock, redis, ghost
<1>5. ASSUME NEW h \in Sweepers, SweepDelete(h) PROVE Agreement'
  <2>. DEFINE gone == {row.of : row \in {row \in sweep[h] : Stale(row)}}
  <2>1. \A i \in Identities : i \in gone => score[i] <= now
    BY <1>5 DEF Stale
  <2>2. ASSUME NEW i \in Identities, i \in gone PROVE ~(owed[i] > now)
    <3>1. score[i] <= now
      BY <2>1, <2>2
    <3>2. score[i] = block[i].until /\ (owed[i] > now => block[i].until >= owed[i])
      BY DEF Agreement
    <3>3. score[i] \in Nat /\ owed[i] \in Nat /\ now \in Nat
      BY DEF Shape
    <3>. QED
      BY <3>1, <3>2, <3>3
  <2>3. /\ block' = [i \in Identities |-> IF i \in gone THEN NoBlock ELSE block[i]]
        /\ score' = [i \in Identities |-> IF i \in gone THEN 0 ELSE score[i]]
        /\ now' = now /\ owed' = owed
    BY <1>5 DEF SweepDelete, ghost
  <2>. HIDE DEF gone
  <2>. QED
    BY <2>2, <2>3 DEF Agreement, NoBlock
<1>6. CASE Tick
  BY <1>6 DEF Tick, Agreement, Shape, Blocks, redis, ghost
<1>. QED
  BY <1>1, <1>2, <1>3, <1>4, <1>5, <1>6
     DEF Next, RequestStep, CheckIp, CheckSubject, Acquire, AcquireLost, Release, Fail,
         Counting, ReadBlock, ApplyRefused, Crash, ReadForRemoval, SweepRead, SweepDies,
         vars, redis, ghost

LEMMA StandsByAgreement == Shape /\ Agreement => BlockStands
<1>. SUFFICES ASSUME Shape, Agreement, NEW i \in Identities
              PROVE  /\ owed[i] > now => Record(i).until >= owed[i]
                     /\ Readable(Snapshot(i))
  BY DEF BlockStands
<1>1. /\ block[i].until \in Nat /\ score[i] \in Nat /\ owed[i] \in Nat /\ now \in Nat
      /\ score[i] = block[i].until /\ now >= 1
      /\ owed[i] > now => block[i].until >= owed[i]
  BY DEF Shape, Agreement, Blocks, NoBlock
<1>2. owed[i] > now => Record(i).until >= owed[i]
  BY <1>1 DEF Record
<1>3. Readable(Snapshot(i))
  BY <1>1, SnapshotTyped DEF Readable, Record, NoBlock
<1>. QED
  BY <1>2, <1>3

-----------------------------------------------------------------------------
(* What is recorded has its effect                                          *)

\* A step put before a list is its head, and the list is what is left.
LEMMA Prepend ==
    ASSUME NEW b \in Steps, NEW rest \in Seq(Steps)
    PROVE  /\ <<b>> \o rest \in Seq(Steps) /\ <<b>> \o rest # <<>>
           /\ Head(<<b>> \o rest) = b /\ Tail(<<b>> \o rest) = rest
<1>. DEFINE s == <<b>> \o rest
<1>1. <<b>> \in Seq(Steps) /\ Len(<<b>>) = 1 /\ <<b>>[1] = b /\ Len(rest) \in Nat
  OBVIOUS
<1>2. /\ s \in Seq(Steps) /\ Len(s) = 1 + Len(rest)
      /\ \A i \in 1..(1 + Len(rest)) : s[i] = IF i <= 1 THEN <<b>>[i] ELSE rest[i - 1]
  BY <1>1, ConcatProperties
<1>. HIDE DEF s
<1>3. s # <<>> /\ Head(s) = s[1] /\ s[1] = b
  BY <1>1, <1>2
<1>4. /\ Tail(s) \in Seq(Steps) /\ Len(Tail(s)) = Len(rest)
      /\ \A i \in 1..Len(Tail(s)) : Tail(s)[i] = s[i + 1]
  BY <1>1, <1>2, <1>3, HeadTailProperties
<1>5. \A i \in 1..Len(rest) : Tail(s)[i] = rest[i]
  BY <1>1, <1>2, <1>4
<1>6. Tail(s) = rest
  BY <1>4, <1>5, SeqEqual
<1>. QED
  BY <1>2, <1>3, <1>6 DEF s

LEMMA ManipulationSteps ==
    ASSUME NEW r \in Requests, NEW known \in BOOLEAN
    PROVE  LET steps == StepsFor(r, "manipulation", known) IN
           /\ steps \in Seq(Steps)
           /\ Head(steps) = Block(IpOf[r], LongBlock, "manipulation")
           /\ ~known => Tail(steps) = <<>>
           /\ known => Tail(steps) = <<Block(SubjectOf[r], LongBlock, "manipulation")>>
<1>. DEFINE b == Block(IpOf[r], LongBlock, "manipulation")
            c == Block(SubjectOf[r], LongBlock, "manipulation")
<1>1. b \in Steps /\ c \in Steps
  BY Members, BlockTyped DEF Reasons
<1>2. StepsFor(r, "manipulation", known) = <<b>> \o IF known THEN <<c>> ELSE <<>>
  BY DEF StepsFor
<1>. HIDE DEF b, c
<1>3. <<c>> \in Seq(Steps) /\ <<>> \in Seq(Steps)
  BY <1>1
<1>. QED
  BY <1>1, <1>2, <1>3, Prepend DEF b, c

\* A deadline that has been acknowledged stays acknowledged.
LEMMA LongestGrows ==
    ASSUME Shape, [Next]_vars
    PROVE  \A i \in Identities : longest'[i] >= longest[i]
<1>1. CASE longest' = longest
  BY <1>1 DEF Shape
<1>2. ASSUME NEW r \in Requests, ApplyBlock(r) PROVE \A i \in Identities : longest'[i] >= longest[i]
  <2>1. Recording(r) /\ Doing(r).op = "block"
    BY <1>2 DEF ApplyBlock, Shape, Recording
  <2>2. Doing(r).of \in Identities /\ Decided(r).until \in Nat
    BY <2>1, DoingTyped, DecidedTyped
  <2>. QED
    BY <1>2, <2>2 DEF ApplyBlock, Acknowledge, Larger, Shape
<1>3. ASSUME NEW a \in Admins, Remove(a) PROVE longest' = longest
  BY <1>3 DEF Remove, ghost
<1>. QED
  BY <1>1, <1>2, <1>3
     DEF Next, RequestStep, CheckIp, CheckSubject, Acquire, AcquireLost, Release, Fail,
         Counting, ReadBlock, ApplyRefused, RecordFails, Crash, ReadForRemoval, SweepRead,
         SweepDelete, SweepDies, Tick, vars, redis, ghost

LEMMA ApplyEffect ==
    ASSUME Shape, NEW r \in Requests, ApplyBlock(r)
    PROVE  /\ Recording(r) /\ Doing(r).op = "block" /\ Doing(r).of \in Identities
           /\ longest'[Doing(r).of] >= req[r].seen.at + Doing(r).time
           /\ req'[r].todo = Tail(req[r].todo)
           /\ req'[r].pc = IF Tail(req[r].todo) = <<>> THEN "recorded" ELSE "record"
           /\ req'[r].kind = req[r].kind /\ req'[r].known = req[r].known
           /\ req'[r].since = req[r].since
           /\ \A q \in Requests : q # r => req'[q] = req[q]
<1>1. Recording(r) /\ Doing(r).op = "block"
  BY DEF ApplyBlock, Shape, Recording
<1>2. /\ Doing(r).of \in Identities /\ Decided(r).until \in Nat
      /\ Decided(r).until >= req[r].seen.at + Doing(r).time
  BY <1>1, DoingTyped, DecidedTyped
<1>3. longest'[Doing(r).of] >= Decided(r).until
  BY <1>2 DEF ApplyBlock, Acknowledge, Larger, Shape
<1>4. longest'[Doing(r).of] \in Nat
  BY <1>2 DEF ApplyBlock, Acknowledge, Larger, Shape
<1>5. Doing(r).time \in Nat /\ req[r].seen.at \in Nat
  BY <1>1, DoingTyped, Durations DEF Shape, Requestors, Snapshots
<1>6. longest'[Doing(r).of] >= req[r].seen.at + Doing(r).time
  BY <1>2, <1>3, <1>4, <1>5
<1>7. req' = StepDone(r, Tail(req[r].todo))
  BY DEF ApplyBlock
<1>. QED
  BY <1>1, <1>2, <1>6, <1>7 DEF StepDone, Shape, Requestors

LEMMA RecordedInit == Init => Recorded
  BY DEF Init, Recorded, HasRecorded, Idle, Manipulated, Recording

\* A request that does not move keeps what it has done, and so does one that moves
\* without a change of its list.
LEMMA StillRecorded ==
    ASSUME Shape, Recorded, [Next]_vars, now' = now \/ now' = now + 1,
           NEW q \in Requests, req'[q] = req[q]
    PROVE  HasRecorded(q)'
<1>1. \A i \in Identities : LongDone(q, i) => LongDone(q, i)'
  <2>. SUFFICES ASSUME NEW i \in Identities, LongDone(q, i) PROVE LongDone(q, i)'
    OBVIOUS
  <2>1. longest'[i] >= longest[i]
    BY LongestGrows
  <2>2. longest'[i] \in Nat /\ longest[i] \in Nat /\ req[q].since \in Nat /\ LongBlock \in Nat
    BY ShapeStep, Durations DEF Shape, Requestors
  <2>. QED
    BY <2>1, <2>2 DEF LongDone
<1>2. req[q].since \in Nat /\ now \in Nat
  BY DEF Shape, Requestors
<1>. QED
  BY <1>1, <1>2, Members DEF Recorded, HasRecorded, Manipulated, Recording

\* What a manipulation has left to do starts with a block.
LEMMA ManipulationBlocks ==
    ASSUME Shape, Recorded, NEW r \in Requests, Recording(r), req[r].kind = "manipulation"
    PROVE  /\ Doing(r).op = "block" /\ Doing(r).time = LongBlock
           /\ \/ /\ Doing(r).of = IpOf[r]
                 /\ ~req[r].known => Tail(req[r].todo) = <<>>
                 /\ req[r].known => Tail(req[r].todo)
                                      = <<Block(SubjectOf[r], LongBlock, "manipulation")>>
              \/ /\ req[r].known /\ LongDone(r, IpOf[r])
                 /\ Doing(r).of = SubjectOf[r] /\ Tail(req[r].todo) = <<>>
<1>. DEFINE c == Block(SubjectOf[r], LongBlock, "manipulation")
<1>1. req[r].known \in BOOLEAN
  BY DEF Shape, Requestors
<1>2. CASE req[r].todo = StepsFor(r, "manipulation", req[r].known)
  BY <1>1, <1>2, ManipulationSteps DEF Doing, Block
<1>3. CASE req[r].known /\ LongDone(r, IpOf[r]) /\ req[r].todo = <<c>>
  <2>1. Head(<<c>>) = c /\ Tail(<<c>>) = <<>>
    BY Members, BlockTyped DEF Reasons
  <2>. QED
    BY <1>3, <2>1 DEF Doing, Block
<1>. QED
  BY <1>2, <1>3 DEF Recorded, HasRecorded, Manipulated

LEMMA RecordedStep == Shape /\ Agreement /\ Recorded /\ [Next]_vars => Recorded'
<1>. SUFFICES ASSUME Shape, Agreement, Recorded, [Next]_vars PROVE Recorded'
  OBVIOUS
<1>1. CASE req' = req /\ (now' = now \/ now' = now + 1)
  BY <1>1, StillRecorded DEF Recorded
<1>2. ASSUME NEW r \in Requests, RequestStep(r) PROVE Recorded'
  <2>1. now' = now /\ \A q \in Requests : q # r => req'[q] = req[q]
    BY <1>2 DEF RequestStep, CheckIp, CheckSubject, Acquire, AcquireLost, Release, Fail,
                Counting, ReadBlock, ApplyBlock, ApplyRefused, RecordFails, Crash, Becomes,
                StepDone, Shape
  <2>. SUFFICES HasRecorded(r)'
    BY <2>1, StillRecorded DEF Recorded
  <2>2. HasRecorded(r) /\ now \in Nat /\ req[r] \in Requestors
    BY DEF Recorded, Shape
  <2>3. CASE \/ CheckIp(r) \/ CheckSubject(r) \/ Acquire(r) \/ AcquireLost(r) \/ Release(r)
             \/ RecordFails(r) \/ Crash(r)
    <3>1. /\ req'[r].pc \in {"admitted", "cleared", "refused", "overloaded", "building", "served",
                          "leaked", "lost"}
          /\ req'[r].since \in {req[r].since, now}
      BY <2>3, <2>2 DEF CheckIp, CheckSubject, Acquire, AcquireLost, Release, RecordFails,
                        Crash, Becomes, Shape, Requestors
    <3>. QED
      BY <2>1, <2>2, <3>1 DEF HasRecorded, Manipulated, Recording
  <2>4. CASE Fail(r)
    <3>1. PICK kind \in {"manipulation"} \cup Families, known \in BOOLEAN :
             req' = [req EXCEPT ![r].pc = "record", ![r].kind = kind, ![r].known = known,
                                ![r].todo = StepsFor(r, kind, known), ![r].since = now]
      BY <2>4 DEF Fail
    <3>2. /\ req'[r].pc = "record" /\ req'[r].kind = kind /\ req'[r].known = known
          /\ req'[r].todo = StepsFor(r, kind, known) /\ req'[r].since = now
      BY <3>1 DEF Shape, Requestors
    <3>. QED
      BY <2>1, <2>2, <3>2 DEF HasRecorded, Manipulated
  <2>5. CASE Counting(r)
    <3>1. req[r].kind # "manipulation"
      BY <2>5, ManipulationBlocks DEF Counting, Recording
    <3>2. /\ req'[r].pc \in {"record", "recorded"} /\ req'[r].kind = req[r].kind
          /\ req'[r].since = req[r].since
      BY <2>5 DEF Counting, StepDone, Shape, Requestors
    <3>. QED
      BY <2>1, <2>2, <3>1, <3>2 DEF HasRecorded
  <2>6. CASE ReadBlock(r)
    <3>1. Recording(r) /\ Doing(r).of \in Identities
      BY <2>6, DoingTyped DEF ReadBlock, Recording
    <3>2. Readable(Snapshot(Doing(r).of)) /\ Snapshot(Doing(r).of).at = now
      BY <3>1, StandsByAgreement, SnapshotTyped DEF BlockStands
    <3>3. req' = [req EXCEPT ![r].pc = "apply", ![r].seen = Snapshot(Doing(r).of)]
      BY <2>6, <3>2 DEF ReadBlock
    <3>4. /\ req'[r].pc = "apply" /\ req'[r].seen.at = now /\ req'[r].since = req[r].since
          /\ req'[r].kind = req[r].kind /\ req'[r].known = req[r].known
          /\ req'[r].todo = req[r].todo
      BY <3>2, <3>3 DEF Shape, Requestors
    <3>5. longest' = longest
      BY <2>6 DEF ReadBlock, ghost
    <3>. QED
      BY <2>1, <2>2, <3>1, <3>4, <3>5 DEF HasRecorded, Manipulated, LongDone, Recording
  <2>7. CASE ApplyBlock(r)
    <3>1. /\ req'[r].pc \in {"record", "recorded"} /\ req'[r].since <= now'
      BY <2>1, <2>2, <2>7, ApplyEffect DEF HasRecorded
    <3>2. ASSUME req'[r].kind = "manipulation" PROVE Manipulated(r)'
      <4>1. /\ Recording(r) /\ req[r].kind = "manipulation" /\ req[r].pc = "apply"
            /\ longest'[Doing(r).of] >= req[r].seen.at + Doing(r).time
            /\ req[r].since <= req[r].seen.at
        BY <2>2, <2>7, <3>2, ApplyEffect DEF ApplyBlock, HasRecorded
      <4>2. /\ longest'[Doing(r).of] \in Nat /\ req[r].since \in Nat /\ req[r].seen.at \in Nat
            /\ LongBlock \in Nat
        BY <2>7, ShapeStep, ApplyEffect, Durations DEF Shape, Requestors, Snapshots
      <4>3. PICK i \in Identities : i = Doing(r).of
        BY <2>7, ApplyEffect
      <4>4. req'[r].since = req[r].since /\ req'[r].known = req[r].known
        BY <2>7, ApplyEffect
      <4>5. LongDone(r, i)'
        <5>1. Doing(r).time = LongBlock
          BY <4>1, ManipulationBlocks
        <5>2. longest'[i] >= req[r].since + LongBlock
          BY <4>1, <4>2, <4>3, <5>1
        <5>. QED
          BY <4>4, <5>2 DEF LongDone
      <4>6. LongDone(r, IpOf[r]) => LongDone(r, IpOf[r])'
        <5>1. longest'[IpOf[r]] >= longest[IpOf[r]]
          BY LongestGrows, Members
        <5>2. longest'[IpOf[r]] \in Nat /\ longest[IpOf[r]] \in Nat
          BY ShapeStep, Members DEF Shape
        <5>. QED
          BY <4>2, <4>4, <5>1, <5>2 DEF LongDone
      <4>7. /\ req'[r].todo = Tail(req[r].todo)
            /\ req'[r].pc = IF Tail(req[r].todo) = <<>> THEN "recorded" ELSE "record"
        BY <2>7, ApplyEffect
      <4>8. <<Block(SubjectOf[r], LongBlock, "manipulation")>> # <<>>
        OBVIOUS
      <4>9. /\ LongDone(r, IpOf[r])'
            /\ \/ req[r].known /\ i = SubjectOf[r] /\ Tail(req[r].todo) = <<>>
               \/ ~req[r].known /\ Tail(req[r].todo) = <<>>
               \/ /\ req[r].known
                  /\ Tail(req[r].todo) = <<Block(SubjectOf[r], LongBlock, "manipulation")>>
        BY <4>1, <4>3, <4>5, <4>6, ManipulationBlocks
      <4>. QED
        BY <4>4, <4>5, <4>7, <4>8, <4>9 DEF Manipulated, Recording
    <3>. QED
      BY <3>1, <3>2 DEF HasRecorded
  <2>8. CASE ApplyRefused(r)
    <3>1. /\ req'[r].pc \in {"record", "conflict"} /\ req'[r].kind = req[r].kind
          /\ req'[r].known = req[r].known /\ req'[r].todo = req[r].todo
          /\ req'[r].since = req[r].since /\ Recording(r)
      BY <2>8 DEF ApplyRefused, Recording, Shape, Requestors
    <3>2. longest' = longest
      BY <2>8 DEF ApplyRefused, ghost
    <3>. QED
      BY <2>1, <2>2, <3>1, <3>2 DEF HasRecorded, Manipulated, LongDone, Recording
  <2>. QED
    BY <1>2, <2>3, <2>4, <2>5, <2>6, <2>7, <2>8 DEF RequestStep
<1>. QED
  BY <1>1, <1>2
     DEF Next, ReadForRemoval, Remove, SweepRead, SweepDelete, SweepDies, Tick, vars

-----------------------------------------------------------------------------
(* A counter above its threshold leads to a block                           *)

LEMMA CountersLeadInit == Init => CountersLead
  BY Durations, Members DEF Init, CountersLead, Counted

LEMMA NowMoves == Shape /\ [Next]_vars => now' \in Nat /\ now \in Nat /\ now' >= now
<1>. SUFFICES ASSUME Shape, [Next]_vars PROVE now' \in Nat /\ now \in Nat /\ now' >= now
  OBVIOUS
<1>1. now' = now \/ now' = now + 1
  BY DEF Next, RequestStep, CheckIp, CheckSubject, Acquire, AcquireLost, Release, Fail,
         Counting, ReadBlock, ApplyBlock, ApplyRefused, RecordFails, Crash, ReadForRemoval,
         Remove, SweepRead, SweepDelete, SweepDies, Tick, vars
<1>. QED
  BY <1>1 DEF Shape

\* Who was stopped stays so; who is about to set a block sets one that is long enough,
\* is still about to, or is stopped.
LEMMA AskStays ==
    ASSUME Shape, Agreement, CountersLead, [Next]_vars,
           NEW k \in Counters, counter'[k] = counter[k],
           NEW r \in Requests, Stopped(r) \/ Asks(r, k)
    PROVE  \/ longest'[k[2]] >= counter'[k].ends - Window + ShortBlock
           \/ Stopped(r)' \/ Asks(r, k)'
<1>1. /\ counter[k].ends \in Nat /\ counter[k].ends <= now + Window /\ now \in Nat
      /\ req[r] \in Requestors /\ k[2] \in Identities
  BY Members DEF CountersLead, Shape
<1>2. CASE req'[r] = req[r]
  BY <1>2 DEF Stopped, Asks, Recording, Doing
<1>3. CASE RequestStep(r)
  <2>1. Asks(r, k) /\ Recording(r) /\ Doing(r).op = "block" /\ Doing(r).of = k[2]
        /\ Doing(r).time = ShortBlock
    BY <1>3 DEF RequestStep, Stopped, CheckIp, CheckSubject, Acquire, AcquireLost, Release,
                Fail, Counting, ReadBlock, ApplyBlock, ApplyRefused, RecordFails, Crash,
                Recording, Asks
  <2>2. CASE ReadBlock(r)
    <3>1. Readable(Snapshot(Doing(r).of)) /\ Snapshot(Doing(r).of).at = now
      BY <1>1, <2>1, StandsByAgreement, SnapshotTyped DEF BlockStands
    <3>2. req' = [req EXCEPT ![r].pc = "apply", ![r].seen = Snapshot(Doing(r).of)]
      BY <2>2, <3>1 DEF ReadBlock
    <3>3. /\ req'[r].pc = "apply" /\ req'[r].seen.at = now /\ req'[r].todo = req[r].todo
      BY <1>1, <3>1, <3>2 DEF Shape, Requestors
    <3>4. now >= counter'[k].ends - Window
      BY <1>1, Durations
    <3>. QED
      BY <2>1, <3>3, <3>4 DEF Asks, Recording, Doing
  <2>3. CASE ApplyBlock(r)
    <3>1. longest'[k[2]] >= req[r].seen.at + ShortBlock /\ req[r].pc = "apply"
      BY <2>1, <2>3, ApplyEffect DEF ApplyBlock
    <3>2. req[r].seen.at >= counter[k].ends - Window
      BY <2>1, <3>1 DEF Asks
    <3>3. longest'[k[2]] \in Nat /\ req[r].seen.at \in Nat
      BY <1>1, ShapeStep DEF Shape, Requestors, Snapshots
    <3>. QED
      BY <1>1, <3>1, <3>2, <3>3, Durations
  <2>4. CASE ApplyRefused(r)
    <3>1. \/ req'[r].pc = "conflict"
          \/ req'[r].pc = "record" /\ req'[r].todo = req[r].todo
      BY <1>1, <2>4 DEF ApplyRefused, Shape, Requestors
    <3>. QED
      BY <2>1, <3>1 DEF Stopped, Asks, Recording, Doing
  <2>5. CASE RecordFails(r)
    <3>1. req'[r].pc = "lost"
      BY <1>1, <2>5 DEF RecordFails, Becomes, Shape, Requestors
    <3>. QED
      BY <3>1 DEF Stopped
  <2>. QED
    BY <1>3, <2>1, <2>2, <2>3, <2>4, <2>5
       DEF RequestStep, CheckIp, CheckSubject, Acquire, AcquireLost, Release, Fail, Counting,
           Crash, Recording
<1>4. ASSUME NEW q \in Requests, q # r, RequestStep(q) PROVE req'[r] = req[r]
  BY <1>4 DEF RequestStep, CheckIp, CheckSubject, Acquire, AcquireLost, Release, Fail,
              Counting, ReadBlock, ApplyBlock, ApplyRefused, RecordFails, Crash, Becomes,
              StepDone, Shape
<1>. QED
  BY <1>2, <1>3, <1>4
     DEF Next, ReadForRemoval, Remove, SweepRead, SweepDelete, SweepDies, Tick, vars

\* A failure that is counted asks for the block, if the counter is above its threshold.
LEMMA CountAsks ==
    ASSUME Shape, NEW r \in Requests, NEW k \in Counters, k = Doing(r).of,
           Counting(r), Counted(k)' > Threshold[k[1]]
    PROVE  Asks(r, k)'
<1>1. Recording(r) /\ Tail(req[r].todo) \in Seq(Steps)
  BY DoingTyped DEF Counting, Recording
<1>2. counter[k] \in [n : Nat, ends : Nat] /\ now \in Nat /\ Counted(k) \in Nat /\ now' = now
  BY DEF Counting, Shape, Counted
<1>3. counter'[k].n = Counted(k) + 1
  BY <1>2 DEF Counting, Shape
<1>4. Counted(k) + 1 > Threshold[k[1]]
  BY <1>2, <1>3, Durations, Members DEF Counted
<1>. DEFINE b == Block(k[2], ShortBlock, k[1])
            steps == <<b>> \o Tail(req[r].todo)
<1>5. b \in Steps /\ b.op = "block" /\ b.of = k[2] /\ b.time = ShortBlock
  BY Members, BlockTyped DEF Reasons, Block
<1>6. req' = StepDone(r, steps)
  BY <1>4 DEF Counting
<1>. HIDE DEF b
<1>7. steps \in Seq(Steps) /\ steps # <<>> /\ Head(steps) = b
  BY <1>1, <1>5, Prepend
<1>. HIDE DEF steps
<1>8. req'[r].pc = "record" /\ req'[r].todo = steps
  BY <1>6, <1>7 DEF StepDone, Shape, Requestors
<1>. QED
  BY <1>5, <1>7, <1>8 DEF Asks, Recording, Doing

LEMMA CountersLeadStep ==
    Shape /\ Agreement /\ CountersLead /\ [Next]_vars => CountersLead'
<1>. SUFFICES ASSUME Shape, Agreement, CountersLead, [Next]_vars, NEW k \in Counters
              PROVE  /\ counter'[k].ends <= now' + Window
                     /\ Counted(k)' > Threshold[k[1]] =>
                          \/ longest'[k[2]] >= counter'[k].ends - Window + ShortBlock
                          \/ \E r \in Requests : Stopped(r)' \/ Asks(r, k)'
  BY DEF CountersLead
<1>1. /\ counter[k].ends \in Nat /\ counter[k].n \in Nat /\ now \in Nat /\ now' \in Nat
      /\ now' >= now /\ counter[k].ends <= now + Window /\ k[2] \in Identities
      /\ Threshold[k[1]] \in Nat
  BY NowMoves, Members, Durations DEF CountersLead, Shape
<1>2. CASE counter'[k] = counter[k]
  <2>1. Counted(k)' > Threshold[k[1]] => Counted(k) > Threshold[k[1]]
    BY <1>1, <1>2 DEF Counted
  <2>2. ASSUME longest[k[2]] >= counter[k].ends - Window + ShortBlock
        PROVE  longest'[k[2]] >= counter'[k].ends - Window + ShortBlock
    <3>1. longest'[k[2]] >= longest[k[2]] /\ longest'[k[2]] \in Nat /\ longest[k[2]] \in Nat
      BY <1>1, LongestGrows, ShapeStep DEF Shape
    <3>. QED
      BY <1>1, <1>2, <2>2, <3>1, Durations
  <2>3. counter'[k].ends <= now' + Window
    BY <1>1, <1>2, Durations
  <2>. QED
    BY <1>2, <2>1, <2>2, <2>3, AskStays DEF CountersLead
<1>3. CASE counter'[k] # counter[k]
  <2>1. PICK r \in Requests : Counting(r) \/ RecordFails(r)
    BY <1>3 DEF Next, RequestStep, CheckIp, CheckSubject, Acquire, AcquireLost, Release, Fail,
                ReadBlock, ApplyBlock, ApplyRefused, Crash, ReadForRemoval, Remove, SweepRead,
                SweepDelete, SweepDies, Tick, vars
  <2>2. /\ Recording(r) /\ Doing(r).op = "count" /\ k = Doing(r).of
        /\ counter'[k].ends \in {now + Window, counter[k].ends} /\ now' = now
    <3>1. /\ Recording(r) /\ Doing(r).op = "count" /\ now' = now
          /\ \E n, e : counter' = [counter EXCEPT ![Doing(r).of] = [n |-> n, ends |-> e]]
                       /\ e \in {now + Window, counter[Doing(r).of].ends}
      <4>1. CASE Counting(r)
        BY <4>1, DoingTyped DEF Counting, Shape, Recording
      <4>2. CASE RecordFails(r)
        BY <1>3, <4>2, DoingTyped DEF RecordFails, Shape, Recording
      <4>. QED
        BY <2>1, <4>1, <4>2
    <3>. QED
      BY <1>3, <3>1, DoingTyped DEF Shape
  <2>3. counter'[k].ends <= now' + Window
    BY <1>1, <2>2, Durations
  <2>4. CASE Counting(r)
    BY <2>2, <2>3, <2>4, CountAsks
  <2>5. CASE RecordFails(r)
    <3>1. Stopped(r)'
      BY <2>5 DEF RecordFails, Becomes, Shape, Requestors, Stopped
    <3>. QED
      BY <2>3, <3>1
  <2>. QED
    BY <2>1, <2>4, <2>5
<1>. QED
  BY <1>2, <1>3

-----------------------------------------------------------------------------
(* Slots in flight                                                          *)

LEMMA InFlightInit == Init => InFlight
<1>. SUFFICES ASSUME Init PROVE InFlight
  OBVIOUS
<1>1. Young = {} /\ Slotted = {} /\ \A r \in Requests : slot[r] = 0 /\ req[r].pc # "building"
  BY DEF Init, Young, Slotted, Idle
<1>. QED
  BY <1>1, FS_EmptySet, Durations DEF InFlight, SlotsHeld, InFlightBounded

\* A set is within the capacity if it has slots that count, and one member more only
\* if there is capacity.
LEMMA OneMore ==
    ASSUME InFlight, NEW S, NEW r,
           S \subseteq Young \/ (HasCapacity /\ S \subseteq Young \cup {r})
    PROVE  IsFiniteSet(S) /\ Cardinality(S) <= Capacity
<1>1. IsFiniteSet(Young) /\ Cardinality(Young) \in Nat /\ Cardinality(Young) <= Capacity
  BY FS_CardinalityType DEF InFlight
<1>2. CASE S \subseteq Young
  <2>1. IsFiniteSet(S) /\ Cardinality(S) <= Cardinality(Young)
    BY <1>1, <1>2, FS_Subset
  <2>. QED
    BY <1>1, <2>1, FS_CardinalityType, Durations
<1>3. CASE HasCapacity /\ S \subseteq Young \cup {r}
  <2>1. /\ IsFiniteSet(Young \cup {r})
        /\ Cardinality(Young \cup {r}) \in Nat
        /\ Cardinality(Young \cup {r}) <= Cardinality(Young) + 1
    <3>1. /\ IsFiniteSet(Young \cup {r})
          /\ Cardinality(Young \cup {r})
               = IF r \in Young THEN Cardinality(Young) ELSE Cardinality(Young) + 1
      BY <1>1, FS_AddElement
    <3>. QED
      BY <1>1, <3>1
  <2>2. IsFiniteSet(S) /\ Cardinality(S) <= Cardinality(Young \cup {r})
    BY <1>3, <2>1, FS_Subset
  <2>. QED
    BY <1>1, <1>3, <2>1, <2>2, FS_CardinalityType, Durations DEF HasCapacity
<1>. QED
  BY <1>2, <1>3

\* Builds that are no longer among others leave these within the capacity.
LEMMA FewerAbreast ==
    ASSUME InFlight, NEW q \in Requests, req[q].pc = "building",
           NEW S, S \subseteq Abreast(q)
    PROVE  Cardinality(S) <= Capacity
<1>1. IsFiniteSet(Abreast(q))
  <2>1. Abreast(q) \subseteq Slotted
    BY DEF Abreast, Slotted
  <2>. QED
    BY <2>1, FS_Subset DEF InFlight
<1>2. /\ Cardinality(S) <= Cardinality(Abreast(q))
      /\ Cardinality(S) \in Nat /\ Cardinality(Abreast(q)) \in Nat
  BY <1>1, FS_Subset, FS_CardinalityType
<1>3. Cardinality(Abreast(q)) <= Capacity
  BY DEF InFlight, InFlightBounded
<1>. QED
  BY <1>2, <1>3, Durations

\* A step after which nobody builds who did not build before, with a slot taken by
\* nobody, keeps all of it.
LEMMA NobodyBegins ==
    ASSUME Shape, InFlight, now' \in Nat, now <= now',
           \A q \in Requests :
              /\ slot'[q] \in {slot[q], 0}
              /\ slot'[q] # 0 => q \in Slotted' /\ req'[q].since = req[q].since
              /\ req'[q].pc = "leaked" => q \in Slotted
              /\ req'[q].pc = "building" => req'[q] = req[q]
                                            /\ (slot'[q] = slot[q] \/ slot[q] + SlotTtl <= now')
    PROVE  InFlight'
<1>1. \A q \in Requests : slot[q] \in Nat /\ req[q].since \in Nat /\ now \in Nat
  BY DEF Shape, Requestors
<1>2. IsFiniteSet(Slotted')
  <2>1. Slotted' \subseteq Slotted
    BY DEF Slotted
  <2>. QED
    BY <2>1, FS_Subset DEF InFlight
<1>3. SlotsHeld'
  BY <1>1, Durations DEF InFlight, SlotsHeld
<1>4. IsFiniteSet(Young') /\ Cardinality(Young') <= Capacity
  <2>1. Young' \subseteq Young
    BY <1>1, Durations DEF Young
  <2>. QED
    BY <2>1, OneMore
<1>5. InFlightBounded'
  <2>1. ASSUME NEW q \in Requests, req'[q].pc = "building"
        PROVE  Cardinality(Abreast(q)') <= Capacity
    <3>1. req[q].pc = "building" /\ Abreast(q)' \subseteq Abreast(q)
      BY <2>1 DEF Abreast
    <3>. QED
      BY <3>1, FewerAbreast
  <2>. QED
    BY <2>1 DEF InFlightBounded
<1>. QED
  BY <1>2, <1>3, <1>4, <1>5 DEF InFlight

\* A request that finds capacity is counted at once.
LEMMA OneBegins ==
    ASSUME Shape, InFlight, NEW r \in Requests, HasCapacity, req[r].pc = "cleared",
           slot' = Pruned({r}), now' = now,
           req'[r].pc \in {"building", "leaked"}, req'[r].since = now,
           \A q \in Requests : q # r => req'[q] = req[q]
    PROVE  InFlight'
<1>1. \A q \in Requests : slot[q] \in Nat /\ req[q].since \in Nat /\ now \in Nat /\ now >= 1
  BY DEF Shape, Requestors
<1>2. slot'[r] = now /\ slot[r] = 0
  BY DEF Pruned, InFlight, SlotsHeld, Slotted
<1>3. \A q \in Requests : q # r =>
         slot'[q] = slot[q] \/ (slot'[q] = 0 /\ slot[q] + SlotTtl <= now)
  BY <1>1, Durations DEF Pruned, Young
<1>4. IsFiniteSet(Slotted')
  <2>1. Slotted' \subseteq Slotted \cup {r}
    BY DEF Slotted
  <2>. QED
    BY <2>1, FS_AddElement, FS_Subset DEF InFlight
<1>5. SlotsHeld'
  <2>. SUFFICES ASSUME NEW q \in Requests
                PROVE  /\ slot'[q] # 0 => q \in Slotted' /\ slot'[q] = req'[q].since
                       /\ req'[q].pc = "building" =>
                             /\ 1 <= req'[q].since /\ req'[q].since <= now'
                             /\ \/ slot'[q] = req'[q].since
                                \/ req'[q].since + SlotTtl <= now'
    BY DEF SlotsHeld
  <2>1. CASE q = r
    BY <1>1, <1>2, <2>1 DEF Slotted
  <2>2. CASE q # r
    BY <1>1, <1>3, <2>2 DEF InFlight, SlotsHeld, Slotted
  <2>. QED
    BY <2>1, <2>2
<1>6. IsFiniteSet(Young') /\ Cardinality(Young') <= Capacity
  <2>1. Young' \subseteq Young \cup {r}
    BY <1>1, <1>3 DEF Young
  <2>. QED
    BY <2>1, OneMore
<1>7. InFlightBounded'
  <2>. SUFFICES ASSUME NEW q \in Requests, req'[q].pc = "building"
                PROVE  Cardinality(Abreast(q)') <= Capacity
    BY DEF InFlightBounded
  <2>1. CASE r \in Abreast(q)'
    <3>1. now < req'[q].since + SlotTtl
      BY <2>1 DEF Abreast
    <3>2. ASSUME NEW p \in Abreast(q)', p # r PROVE p \in Young
      <4>1. /\ p \in Requests /\ req[p].pc = "building" /\ req'[q].since <= req[p].since
        BY <3>2 DEF Abreast
      <4>2. req'[q].since \in Nat
        BY <1>1
      <4>3. now < req[p].since + SlotTtl
        BY <1>1, <3>1, <4>1, <4>2, Durations
      <4>4. slot[p] = req[p].since /\ req[p].since >= 1
        BY <1>1, <4>1, <4>3, Durations DEF InFlight, SlotsHeld
      <4>. QED
        BY <1>1, <4>1, <4>3, <4>4, Durations DEF Young
    <3>3. Abreast(q)' \subseteq Young \cup {r}
      BY <3>2
    <3>. QED
      BY <3>3, OneMore
  <2>2. CASE r \notin Abreast(q)'
    <3>1. q # r
      BY <1>1, <2>2, Durations DEF Abreast
    <3>2. req[q].pc = "building" /\ Abreast(q)' \subseteq Abreast(q)
      BY <2>2, <3>1 DEF Abreast
    <3>. QED
      BY <3>2, FewerAbreast
  <2>. QED
    BY <2>1, <2>2
<1>. QED
  BY <1>4, <1>5, <1>6, <1>7 DEF InFlight

LEMMA InFlightStep == Shape /\ InFlight /\ [Next]_vars => InFlight'
<1>. SUFFICES ASSUME Shape, InFlight, [Next]_vars PROVE InFlight'
  OBVIOUS
<1>1. \A q \in Requests : slot[q] \in Nat /\ req[q].since \in Nat /\ req[q] \in Requestors
  BY DEF Shape, Requestors
<1>2. now \in Nat /\ now >= 1
  BY DEF Shape
<1>3. ASSUME NEW r \in Requests, Acquire(r) \/ AcquireLost(r) PROVE InFlight'
  <2>1. /\ now' = now /\ req[r].pc = "cleared"
        /\ \A q \in Requests : q # r => req'[q] = req[q]
    BY <1>3 DEF Acquire, AcquireLost, Shape
  <2>2. CASE HasCapacity
    <3>1. /\ slot' = Pruned({r}) /\ req'[r].pc \in {"building", "leaked"}
          /\ req'[r].since = now
      BY <1>1, <1>3, <2>2 DEF Acquire, AcquireLost, Shape, Requestors
    <3>. QED
      BY <2>1, <2>2, <3>1, OneBegins
  <2>3. CASE ~HasCapacity
    <3>1. slot' = Pruned({}) /\ req'[r].pc = "overloaded" /\ slot[r] = 0
      BY <1>1, <1>3, <2>1, <2>3
         DEF Acquire, AcquireLost, Shape, Requestors, InFlight, SlotsHeld, Slotted
    <3>2. \A q \in Requests : \/ slot'[q] = slot[q]
                              \/ slot'[q] = 0 /\ slot[q] + SlotTtl <= now
      BY <1>1, <1>2, <3>1, Durations DEF Pruned, Young
    <3>3. \A q \in Requests : q # r /\ slot[q] # 0 => q \in Slotted'
      BY <2>1 DEF InFlight, SlotsHeld, Slotted
    <3>. QED
      BY <1>2, <2>1, <3>1, <3>2, <3>3, NobodyBegins DEF Slotted
  <2>. QED
    BY <2>2, <2>3
<1>4. ASSUME NEW r \in Requests, Release(r) PROVE InFlight'
  <2>1. now' = now /\ \A q \in Requests : slot'[q] \in {slot[q], 0}
                                          /\ (q # r => slot'[q] = slot[q])
    BY <1>4 DEF Release, Shape
  <2>2. /\ req[r].pc = "building" /\ req'[r].since = req[r].since
        /\ \/ req'[r].pc = "served" /\ slot'[r] = 0
           \/ req'[r].pc = "leaked"
        /\ \A q \in Requests : q # r => req'[q] = req[q]
    BY <1>1, <1>4 DEF Release, Becomes, Shape, Requestors
  <2>3. \A q \in Requests : slot'[q] # 0 => q \in Slotted' /\ req'[q].since = req[q].since
    BY <2>1, <2>2 DEF InFlight, SlotsHeld, Slotted
  <2>. QED
    BY <1>2, <2>1, <2>2, <2>3, NobodyBegins DEF Slotted
<1>5. CASE Tick
  <2>1. slot' = slot /\ req' = req /\ now' = now + 1
    BY <1>5 DEF Tick
  <2>2. \A q \in Requests : slot'[q] # 0 => q \in Slotted'
    BY <2>1 DEF InFlight, SlotsHeld, Slotted
  <2>. QED
    BY <1>2, <2>1, <2>2, NobodyBegins DEF Slotted
<1>6. CASE /\ slot' = slot /\ now' = now
           /\ \A q \in Requests : \/ req'[q] = req[q]
                                  \/ q \notin Slotted /\ q \notin Slotted'
                                  \/ /\ req[q].pc = "building" /\ req'[q].pc = "leaked"
                                     /\ req'[q].since = req[q].since
  <2>1. \A q \in Requests : slot'[q] # 0 => q \in Slotted' /\ req'[q].since = req[q].since
    BY <1>6 DEF InFlight, SlotsHeld, Slotted
  <2>. QED
    BY <1>2, <1>6, <2>1, NobodyBegins DEF Slotted
<1>7. ASSUME NEW r \in Requests, RequestStep(r),
             ~(Acquire(r) \/ AcquireLost(r) \/ Release(r))
      PROVE  InFlight'
  <2>1. slot' = slot /\ now' = now /\ \A q \in Requests : q # r => req'[q] = req[q]
    BY <1>7 DEF RequestStep, CheckIp, CheckSubject, Fail, Counting, ReadBlock, ApplyBlock,
                ApplyRefused, RecordFails, Crash, Becomes, StepDone, Shape
  <2>2. CASE Crash(r)
    <3>1. \/ /\ req[r].pc = "building" /\ req'[r].pc = "leaked"
             /\ req'[r].since = req[r].since
          \/ req[r].pc \in {"admitted", "cleared"} /\ req'[r].pc = "lost"
      BY <1>1, <2>2 DEF Crash, Becomes, Shape, Requestors
    <3>. QED
      BY <1>6, <2>1, <3>1 DEF Slotted
  <2>3. CASE ~Crash(r)
    <3>1. req[r].pc \notin {"building", "leaked"}
      BY <1>7, <2>3 DEF RequestStep, CheckIp, CheckSubject, Fail, Counting, ReadBlock,
                        ApplyBlock, ApplyRefused, RecordFails, Recording
    <3>2. req'[r].pc \notin {"building", "leaked"}
      <4>1. CASE Fail(r)
        BY <1>1, <4>1 DEF Fail, Shape, Requestors
      <4>2. CASE CheckIp(r) \/ CheckSubject(r) \/ RecordFails(r)
        <5>1. PICK pc \in {"admitted", "cleared", "refused", "lost"} : Becomes(r, pc)
          BY <4>2 DEF CheckIp, CheckSubject, RecordFails
        <5>. QED
          BY <1>1, <5>1 DEF Becomes, Shape, Requestors
      <4>3. CASE ReadBlock(r) \/ ApplyRefused(r)
        BY <1>1, <4>3 DEF ReadBlock, ApplyRefused, Shape, Requestors
      <4>4. CASE Counting(r) \/ ApplyBlock(r)
        <5>1. PICK steps : req' = StepDone(r, steps)
          BY <4>4 DEF Counting, ApplyBlock
        <5>. QED
          BY <1>1, <5>1 DEF StepDone, Shape, Requestors
      <4>. QED
        BY <1>7, <2>3, <4>1, <4>2, <4>3, <4>4 DEF RequestStep
    <3>. QED
      BY <1>6, <2>1, <3>1, <3>2 DEF Slotted
  <2>. QED
    BY <2>2, <2>3
<1>8. CASE req' = req /\ slot' = slot /\ now' = now
  BY <1>6, <1>8
<1>. QED
  BY <1>3, <1>4, <1>5, <1>7, <1>8
     DEF Next, ReadForRemoval, Remove, SweepRead, SweepDelete, SweepDies, vars

-----------------------------------------------------------------------------
(* Theorems                                                                 *)

LEMMA IInvInit == Init => IInv
  BY ShapeInit, AgreementInit, RecordedInit, CountersLeadInit, InFlightInit DEF IInv

LEMMA IInvStep == IInv /\ [Next]_vars => IInv'
  BY ShapeStep, AgreementStep, RecordedStep, CountersLeadStep, InFlightStep DEF IInv

\* The inductive invariant holds in every state: the record and the index entry of a
\* block agree, what was recorded has had its effect, counters above their threshold
\* lead to blocks, and slots are within the capacity.
THEOREM AdmissionInvariant == Spec => []IInv
<1>. QED
  BY IInvInit, IInvStep, PTL DEF Spec

\* Values have their types; a request that records has something left to record.
THEOREM TypesKept == Spec => []TypeOK
<1>1. IInv => TypeOK
  <2>. SUFFICES ASSUME Shape PROVE TypeOK
    BY DEF IInv
  <2>1. now \in 1..Larger(1, MaxTime)
    BY Durations DEF Shape, Larger
  <2>2. ASSUME NEW r \in Requests
        PROVE  /\ req[r].pc \in Controls
               /\ req[r].kind \in {"none", "manipulation"} \cup Families
               /\ req[r].known \in BOOLEAN /\ req[r].retried \in BOOLEAN
               /\ req[r].seen \in Snapshots /\ req[r].since \in Nat
               /\ \A n \in 1..Len(req[r].todo) : req[r].todo[n] \in Steps
               /\ Recording(r) => req[r].todo # <<>>
    BY DEF Shape, Requestors
  <2>. QED
    BY <2>1, <2>2 DEF TypeOK, Shape, Rows
<1>. QED
  BY <1>1, AdmissionInvariant, PTL

\* A block that setBlock has acknowledged stands until its deadline, whatever shorter
\* block, sweep or page of an older moment comes after it, unless an operator removes
\* it; and no reader finds entries that contradict each other.
THEOREM BlocksStand == Spec => []BlockStands
<1>1. IInv => BlockStands
  BY StandsByAgreement DEF IInv
<1>. QED
  BY <1>1, AdmissionInvariant, PTL

\* A manipulation whose recording came to its end has blocked the address and the
\* subject for the long time, and a counter above its threshold has led to a block
\* once nobody is recording and nobody was stopped while recording.
THEOREM AbuseBlocked == Spec => []AbuseIsBlocked
<1>1. IInv => AbuseIsBlocked
  <2>. SUFFICES ASSUME IInv PROVE AbuseIsBlocked
    OBVIOUS
  <2>1. ASSUME NEW r \in Requests, req[r].pc = "recorded", req[r].kind = "manipulation",
               NEW i \in {IpOf[r]} \cup (IF req[r].known THEN {SubjectOf[r]} ELSE {})
        PROVE  longest[i] >= req[r].since + LongBlock
    BY <2>1 DEF IInv, Recorded, HasRecorded, Manipulated, LongDone
  <2>2. ASSUME \A r \in Requests : ~Recording(r) /\ req[r].pc \notin {"lost", "conflict"},
               NEW k \in Counters, Counted(k) > Threshold[k[1]]
        PROVE  longest[k[2]] >= counter[k].ends - Window + ShortBlock
    BY <2>2 DEF IInv, CountersLead, Stopped, Asks
  <2>. QED
    BY <2>1, <2>2 DEF AbuseIsBlocked
<1>. QED
  BY <1>1, AdmissionInvariant, PTL

\* No more prepare requests than the capacity build at a time of those that began
\* within one slot age of each other, also once their slots have been pruned, and
\* whatever release or answer was lost.
THEOREM BuildsBounded == Spec => []InFlightBounded
<1>1. IInv => InFlightBounded
  BY DEF IInv, InFlight
<1>. QED
  BY <1>1, AdmissionInvariant, PTL

\* A prepare request is told that there is no capacity only if as many requests as there
\* is capacity took a slot less than one slot age ago and have not learned that they
\* gave it back: what a dead Host leaves behind refuses nobody for longer.
THEOREM OverloadsReal == Spec => OverloadIsReal
<1>1. IInv /\ [Next]_vars =>
         [\A r \in Requests : req[r].pc = "cleared" /\ req'[r].pc = "overloaded" =>
             Cardinality(Holders) >= Capacity]_vars
  <2>. SUFFICES ASSUME IInv, [Next]_vars, NEW r \in Requests, req[r].pc = "cleared",
                       req'[r].pc = "overloaded"
                PROVE  Cardinality(Holders) >= Capacity
    OBVIOUS
  <2>1. ~HasCapacity
    <3>1. req'[r].pc # req[r].pc /\ req \in [Requests -> Requestors]
      BY DEF IInv, Shape
    <3>2. PICK q \in Requests : RequestStep(q)
      BY <3>1 DEF Next, ReadForRemoval, Remove, SweepRead, SweepDelete, SweepDies, Tick, vars
    <3>3. CASE Acquire(q)
      BY <3>1, <3>3 DEF Acquire, Requestors
    <3>4. CASE Counting(q) \/ ApplyBlock(q)
      <4>1. req[q].pc \in {"record", "apply"}
        BY <3>4 DEF Counting, ApplyBlock
      <4>2. PICK steps : req' = StepDone(q, steps)
        BY <3>4 DEF Counting, ApplyBlock
      <4>. QED
        BY <3>1, <4>1, <4>2 DEF StepDone
    <3>5. CASE CheckIp(q) \/ CheckSubject(q) \/ Release(q) \/ RecordFails(q) \/ Crash(q)
      <4>1. PICK pc \in {"admitted", "cleared", "refused", "served", "leaked", "lost"} :
               Becomes(q, pc)
        BY <3>5 DEF CheckIp, CheckSubject, Release, RecordFails, Crash
      <4>. QED
        BY <3>1, <4>1 DEF Becomes
    <3>6. CASE AcquireLost(q)
      BY <3>1, <3>6 DEF AcquireLost, Requestors
    <3>8. CASE Fail(q)
      <4>1. PICK kind \in {"manipulation"} \cup Families, known \in BOOLEAN :
               req' = [req EXCEPT ![q].pc = "record", ![q].kind = kind, ![q].known = known,
                                  ![q].todo = StepsFor(q, kind, known), ![q].since = now]
        BY <3>8 DEF Fail
      <4>. QED
        BY <3>1, <4>1 DEF Requestors
    <3>7. CASE ReadBlock(q) \/ ApplyRefused(q)
      <4>1. req[q].pc \in {"record", "apply"} /\ \A p \in Requests : p # q => req'[p] = req[p]
        BY <3>1, <3>7 DEF ReadBlock, ApplyRefused
      <4>. QED
        BY <3>1, <4>1
    <3>. QED
      BY <3>2, <3>3, <3>4, <3>5, <3>6, <3>7, <3>8 DEF RequestStep
  <2>2. Young \subseteq Holders /\ Holders \subseteq Slotted
    <3>1. \A q \in Requests : slot[q] \in Nat /\ req[q].since \in Nat /\ now \in Nat
      BY DEF IInv, Shape, Requestors
    <3>. QED
      BY <3>1, Durations DEF IInv, InFlight, SlotsHeld, Slotted, Young, Holders
  <2>3. IsFiniteSet(Holders) /\ IsFiniteSet(Young) /\ Cardinality(Young) <= Cardinality(Holders)
    BY <2>2, FS_Subset DEF IInv, InFlight
  <2>4. Cardinality(Young) \in Nat /\ Cardinality(Holders) \in Nat
    BY <2>3, FS_CardinalityType
  <2>. QED
    BY <2>1, <2>3, <2>4, Durations DEF HasCapacity
<1>. QED
  BY <1>1, AdmissionInvariant, PTL DEF Spec, OverloadIsReal
=============================================================================
