--------------------------- MODULE GroupSyncProofs ---------------------------
(***************************************************************************)
(* What GroupSync guarantees for every bound.                              *)
(***************************************************************************)
EXTENDS GroupSync, TLAPS

(***************************************************************************)
(* Versions, and the log after a write.                                    *)
(***************************************************************************)
LEMMA AbsentIsVersion == Absent \in Version /\ ~Exists(Absent)
  BY DEF Absent, Version, Exists

LEMMA PublishFacts ==
    ASSUME NEW l \in Seq(Version), NEW v
    PROVE  \/ Publish(l, v) = l
           \/ Publish(l, v) = Append(l, v)
  BY DEF Publish

LEMMA AtFacts ==
    ASSUME log \in Seq(Version), NEW i \in 0..Len(log)
    PROVE  /\ At(i) \in Version
           /\ i \in DOMAIN log => At(i) = log[i]
           /\ i = Len(log) => At(i) = Current
           /\ i = 0 => At(i) = Absent
  BY AbsentIsVersion DEF At, Current, CurrentOf, VersionAt

(***************************************************************************)
(* Who writes: the users, and a worker that read the last version.         *)
(***************************************************************************)
UserWrites(v) ==
    \/ log = << >> /\ v = [Absent EXCEPT !.generation = 1]
    \/ Exists(Current) /\ v = [Current EXCEPT !.generation = @ + 1]
    \/ /\ Exists(Current) /\ ~Current.terminating /\ Current.finalizer
       /\ v = [Current EXCEPT !.generation = @ + 1, !.terminating = TRUE]
    \/ Exists(Current) /\ ~Current.finalizer /\ v = Absent

WorkerWrites(v) ==
    Writing /\ Fresh(log, worker.read) /\ v = ToWrite(Reading)

Written(v) == (UserWrites(v) \/ WorkerWrites(v)) /\ log' = Publish(log, v)

LEMMA EveryWrite ==
    [Next]_vars =>
        \/ UNCHANGED log
        \/ UNCHANGED segments /\ \E v : Written(v)
<1> SUFFICES ASSUME [Next]_vars
             PROVE  UNCHANGED log \/ (UNCHANGED segments /\ \E v : Written(v))
  OBVIOUS
<1>1. CASE CreateGroup
  BY <1>1 DEF CreateGroup, Written, UserWrites
<1>2. CASE EditGroup
  BY <1>2 DEF EditGroup, Written, UserWrites
<1>3. CASE DeleteGroup
  BY <1>3 DEF DeleteGroup, Written, UserWrites
<1>4. CASE StoreUpdate
  BY <1>4 DEF StoreUpdate, Write, Written, WorkerWrites
<1>5. CASE UpdateFails
  BY <1>5 DEF UpdateFails, Write, Written, WorkerWrites
<1>6. CASE Observe \/ Resync \/ RestartManager \/ StartReconcile \/ UNCHANGED vars
  BY <1>6 DEF Observe, Resync, RestartManager, Restarted, StartReconcile, vars
<1>7. CASE CreateContactGroup \/ FinalizeCall \/ CallFails
  BY <1>7 DEF CreateContactGroup, FinalizeCall, EvictMemberships, CheckMemberships,
              GetContactGroup, DeleteContactGroup, CallFails, Proceed
<1> QED
  BY <1>1, <1>2, <1>3, <1>4, <1>5, <1>6, <1>7 DEF Next, Users, Reconcile

(* Who changes the segments: a worker that creates or deletes one.         *)
LEMMA EverySegment ==
    [Next]_vars =>
        \/ UNCHANGED segments
        \/ worker.step = "create" /\ CreateSegment
        \/ worker.step = "delete" /\ RemoveSegment(worker.id)
<1> SUFFICES ASSUME [Next]_vars
             PROVE  \/ UNCHANGED segments
                    \/ worker.step = "create" /\ CreateSegment
                    \/ worker.step = "delete" /\ RemoveSegment(worker.id)
  OBVIOUS
<1>1. CASE Users \/ Observe \/ Resync \/ RestartManager \/ UNCHANGED vars
  BY <1>1 DEF Users, CreateGroup, EditGroup, DeleteGroup, Observe, Resync,
              RestartManager, Restarted, vars
<1>2. CASE StartReconcile \/ StoreUpdate \/ UpdateFails
             \/ EvictMemberships \/ CheckMemberships \/ GetContactGroup
  BY <1>2 DEF StartReconcile, StoreUpdate, UpdateFails,
              EvictMemberships, CheckMemberships, GetContactGroup
<1>3. CASE CreateContactGroup \/ DeleteContactGroup
  BY <1>3 DEF CreateContactGroup, DeleteContactGroup, Proceed
<1>4. CASE CallFails
  BY <1>4 DEF CallFails
<1> QED
  BY <1>1, <1>2, <1>3, <1>4 DEF Next, Reconcile, FinalizeCall

(***************************************************************************)
(* Segments: a new one is at Resend and was not on record.                 *)
(***************************************************************************)
LEMMA SegmentFacts ==
    ASSUME TypeOK
    PROVE  /\ NewSegment \in Nat \ {0}
           /\ NewSegment \in DOMAIN segments =>
                \A i \in DOMAIN log : log[i].providerID # NewSegment
           /\ CreateSegment =>
                /\ segments' \in Seq(BOOLEAN)
                /\ DOMAIN segments' = DOMAIN segments \cup {NewSegment}
                /\ \A n \in DOMAIN segments : segments[n] => segments'[n]
                /\ \A n \in DOMAIN segments \ {NewSegment} : segments'[n] = segments[n]
                /\ segments'[NewSegment]
<1>1. segments \in Seq(BOOLEAN) /\ DOMAIN segments = 1..Len(segments) /\ Len(segments) \in Nat
  BY DEF TypeOK
<1>2. NewSegment = Len(segments) + 1 \/ NewSegment \in NeverRecorded
  BY DEF NewSegment
<1>3. NewSegment \in 1..(Len(segments) + 1)
  BY <1>1, <1>2 DEF NeverRecorded
<1>4. NewSegment \in DOMAIN segments =>
        \A i \in DOMAIN log : log[i].providerID # NewSegment
  BY <1>1, <1>2 DEF NeverRecorded
<1>5. ASSUME CreateSegment
      PROVE  /\ segments' \in Seq(BOOLEAN)
             /\ DOMAIN segments' = DOMAIN segments \cup {NewSegment}
             /\ \A n \in DOMAIN segments : segments[n] => segments'[n]
             /\ \A n \in DOMAIN segments \ {NewSegment} : segments'[n] = segments[n]
             /\ segments'[NewSegment]
  <2> DEFINE D == DOMAIN segments \cup {NewSegment}
  <2>1. segments' = [n \in D |-> n = NewSegment \/ segments[n]]
    BY <1>5 DEF CreateSegment
  <2>2. PICK k \in Nat : D = 1..k
    BY <1>1, <1>2, <1>3 DEF NeverRecorded
  <2>3. segments' \in Seq(BOOLEAN)
    <3>1. \A n \in D : (n = NewSegment \/ segments[n]) \in BOOLEAN
      OBVIOUS
    <3>2. segments' \in [1..k -> BOOLEAN]
      BY <2>1, <2>2, <3>1, Zenon
    <3> QED
      BY <3>2, <2>2
  <2>4. \A n \in DOMAIN segments \ {NewSegment} : segments[n] \in BOOLEAN
    BY <1>1
  <2> QED
    BY <2>1, <2>3, <2>4, Zenon
<1> QED
  BY <1>3, <1>4, <1>5

LEMMA RemoveFacts ==
    ASSUME TypeOK, NEW id, RemoveSegment(id)
    PROVE  /\ segments' \in Seq(BOOLEAN)
           /\ DOMAIN segments' = DOMAIN segments
           /\ \A n \in DOMAIN segments : n # id => segments'[n] = segments[n]
           /\ \A n \in DOMAIN segments : segments'[n] => segments[n] /\ n # id
<1>1. segments \in Seq(BOOLEAN) /\ DOMAIN segments = 1..Len(segments) /\ Len(segments) \in Nat
  BY DEF TypeOK
<1>2. segments' = [n \in DOMAIN segments |-> segments[n] /\ n # id]
  BY DEF RemoveSegment, SegmentToDelete
<1>3. \A n \in DOMAIN segments : segments[n] \in BOOLEAN
  BY <1>1
<1>4. \A n \in DOMAIN segments : (segments[n] /\ n # id) \in BOOLEAN
  OBVIOUS
<1>5. segments' \in [1..Len(segments) -> BOOLEAN]
  BY <1>1, <1>2, <1>4, Zenon
<1>6. segments' \in Seq(BOOLEAN)
  BY <1>1, <1>5
<1>7. DOMAIN segments' = DOMAIN segments
  BY <1>2
<1>8. \A n \in DOMAIN segments : segments'[n] = (segments[n] /\ n # id)
  BY <1>2, Zenon
<1>9. \A n \in DOMAIN segments : n # id => segments'[n] = segments[n]
  BY <1>3, <1>8, Zenon
<1> QED
  BY <1>6, <1>7, <1>8, <1>9, Zenon

(***************************************************************************)
(* The log grows by one version at a time.                                 *)
(***************************************************************************)
LEMMA AppendFacts ==
    ASSUME log \in Seq(Version), NEW v \in Version, log' = Append(log, v)
    PROVE  /\ log' \in Seq(Version)
           /\ Len(log) \in Nat /\ Len(log') = Len(log) + 1
           /\ DOMAIN log = 1..Len(log) /\ DOMAIN log' = 1..(Len(log) + 1)
           /\ \A i \in DOMAIN log : log'[i] = log[i]
           /\ log'[Len(log) + 1] = v
           /\ Current' = v
  BY DEF Current, CurrentOf, VersionAt

LEMMA CurrentFacts ==
    ASSUME log \in Seq(Version)
    PROVE  /\ Current \in Version
           /\ log # << >> => Len(log) \in DOMAIN log /\ Current = log[Len(log)]
           /\ log = << >> => Current = Absent /\ Len(log) = 0
           /\ Len(log) \in Nat /\ DOMAIN log = 1..Len(log)
  BY AbsentIsVersion DEF Current, CurrentOf, VersionAt

(* What is written is a version that keeps the promises of the earlier     *)
(* ones; the object goes only when its segment has.                        *)
Follows(v) ==
    /\ v \in Version
    /\ log # << >> => Exists(Current)
    /\ ~Exists(v) => v = Absent
    /\ v.providerID # 0 <=> v.readyAt # 0
    /\ v.providerID # 0 => v.finalizer /\ v.providerID \in DOMAIN segments
    /\ Exists(v) /\ log # << >> =>
         /\ Current.terminating => v.terminating
         /\ Current.providerID # 0 => v.providerID = Current.providerID
    /\ Exists(v) /\ ~v.terminating /\ v.readyAt # 0 => AtResend(v.providerID)
    /\ ~Exists(v) /\ Current.providerID # 0 => ~AtResend(Current.providerID)

LEMMA UserFollows ==
    ASSUME IInv, NEW v, UserWrites(v)
    PROVE  Follows(v)
<1>1. log \in Seq(Version) /\ segments \in Seq(BOOLEAN)
  BY DEF IInv, TypeOK
<1>2. CASE log = << >> /\ v = [Absent EXCEPT !.generation = 1]
  <2>1. /\ v \in Version /\ v.generation = 1 /\ ~v.terminating /\ ~v.finalizer
        /\ v.providerID = 0 /\ v.readyAt = 0
    BY <1>2 DEF Absent, Version
  <2> QED
    BY <1>2, <2>1 DEF Follows, Exists
<1>3. ASSUME Exists(Current)
      PROVE  /\ log # << >> /\ Current \in Version
             /\ Current.providerID # 0 <=> Current.readyAt # 0
             /\ Current.providerID # 0 =>
                  Current.finalizer /\ Current.providerID \in DOMAIN segments
             /\ ~Current.terminating /\ Current.readyAt # 0 => AtResend(Current.providerID)
  BY <1>1, <1>3, CurrentFacts, AbsentIsVersion DEF IInv, VersionsOK, ReadyGroupHasItsSegment
<1>4. CASE Exists(Current) /\ v = [Current EXCEPT !.generation = @ + 1]
  BY <1>3, <1>4 DEF Follows, Version, Exists
<1>5. CASE /\ Exists(Current) /\ ~Current.terminating /\ Current.finalizer
           /\ v = [Current EXCEPT !.generation = @ + 1, !.terminating = TRUE]
  <2> DEFINE g == Current.generation + 1
  <2>1. Current \in Version /\ g \in Nat \ {0}
    BY <1>3, <1>5 DEF Version
  <2>2. v = [Current EXCEPT !.generation = g, !.terminating = TRUE]
    BY <1>5
  <2>3. /\ v \in Version /\ v.generation = g /\ v.terminating
        /\ v.finalizer = Current.finalizer
        /\ v.providerID = Current.providerID /\ v.readyAt = Current.readyAt
    <3> HIDE DEF g
    <3> QED
      BY <2>1, <2>2 DEF Version
  <2> QED
    BY <1>3, <1>5, <2>1, <2>3 DEF Follows, Exists
<1>6. CASE Exists(Current) /\ ~Current.finalizer /\ v = Absent
  BY <1>3, <1>6 DEF Follows, Version, Exists, Absent
<1> QED
  BY <1>2, <1>4, <1>5, <1>6 DEF UserWrites

LEMMA WorkerFollows ==
    ASSUME IInv, NEW v, WorkerWrites(v)
    PROVE  Follows(v)
<1>1. log \in Seq(Version) /\ segments \in Seq(BOOLEAN)
  BY DEF IInv, TypeOK
<1>2. worker # Idle
  BY DEF WorkerWrites, Writing, Idle
<1>3. Reading = Current /\ Exists(Current) /\ log # << >> /\ Current \in Version
  <2>1. worker.read \in DOMAIN log /\ worker.read = Len(log) /\ Exists(Reading)
    BY <1>2 DEF IInv, PositionsOK, InProgress, WorkerWrites, Fresh
  <2>2. worker.read \in 0..Len(log) /\ log # << >>
    BY <1>1, <2>1
  <2>3. Reading = Current
    BY <1>1, <2>1, <2>2, AtFacts DEF Reading
  <2> QED
    BY <1>1, <2>1, <2>2, <2>3, CurrentFacts
<1>4. /\ Current.providerID # 0 <=> Current.readyAt # 0
      /\ Current.providerID # 0 =>
           Current.finalizer /\ Current.providerID \in DOMAIN segments
      /\ ~Current.terminating /\ Current.readyAt # 0 => AtResend(Current.providerID)
  BY <1>1, <1>3, CurrentFacts DEF IInv, VersionsOK, ReadyGroupHasItsSegment
<1>5. CASE worker.step = "adopt"
  <2>1. v = [Current EXCEPT !.finalizer = TRUE]
    BY <1>3, <1>5 DEF WorkerWrites, ToWrite
  <2> QED
    BY <1>3, <1>4, <2>1 DEF Follows, Version, Exists
<1>6. CASE worker.step = "release"
  <2>1. v = Absent
    BY <1>6 DEF WorkerWrites, ToWrite
  <2>2. ~AtResend(Current.providerID)
    BY <1>2, <1>3, <1>6 DEF IInv, InProgress
  <2> QED
    BY <1>3, <2>1, <2>2 DEF Follows, Absent, Version, Exists
<1>7. CASE worker.step = "status"
  <2>1. Current.finalizer /\ ~Current.terminating
        /\ (Current.readyAt = 0 => AtResend(worker.id))
    BY <1>2, <1>3, <1>7 DEF IInv, InProgress
  <2>2. v = IF Current.readyAt = 0
            THEN [Current EXCEPT !.providerID = worker.id, !.readyAt = Current.generation]
            ELSE IF Current.readyAt # Current.generation
            THEN [Current EXCEPT !.updatedAt = Current.generation]
            ELSE Current
    BY <1>3, <1>7 DEF WorkerWrites, ToWrite
  <2>3. CASE Current.readyAt = 0
    <3>1. worker.id \in Nat \ {0} /\ worker.id \in DOMAIN segments
      BY <1>1, <2>1, <2>3 DEF AtResend
    <3> QED
      BY <1>3, <1>4, <2>1, <2>2, <2>3, <3>1 DEF Follows, Version, Exists
  <2>4. CASE Current.readyAt # 0
    BY <1>3, <1>4, <2>1, <2>2, <2>4 DEF Follows, Version, Exists
  <2> QED
    BY <2>3, <2>4
<1> QED
  BY <1>5, <1>6, <1>7 DEF WorkerWrites, Writing

LEMMA LogStep ==
    ASSUME IInv, [Next]_vars
    PROVE  \/ UNCHANGED log
           \/ UNCHANGED segments /\ \E v : Follows(v) /\ log' = Append(log, v)
<1>1. log \in Seq(Version)
  BY DEF IInv, TypeOK
<1>2. ASSUME UNCHANGED segments, NEW v, Written(v)
      PROVE  UNCHANGED log \/ (Follows(v) /\ log' = Append(log, v))
  BY <1>1, <1>2, PublishFacts, UserFollows, WorkerFollows DEF Written
<1> QED
  BY <1>2, EveryWrite

(* Segments on record: none comes back, and the one of a group that is not *)
(* being deleted stays.                                                    *)
Recorded(n) == n # 0 /\ \E i \in DOMAIN log : log[i].providerID = n

LEMMA SegmentStep ==
    ASSUME IInv, [Next]_vars
    PROVE  /\ segments' \in Seq(BOOLEAN)
           /\ DOMAIN segments \subseteq DOMAIN segments'
           /\ \A n : Recorded(n) /\ AtResend(n)' => AtResend(n)
           /\ Exists(Current) /\ ~Current.terminating =>
                \A n : AtResend(n) => AtResend(n)'
<1>1. TypeOK /\ log \in Seq(Version) /\ segments \in Seq(BOOLEAN)
  BY DEF IInv, TypeOK
<1>2. \A n : Recorded(n) => n \in DOMAIN segments
  BY DEF IInv, VersionsOK, Recorded
<1>3. CASE UNCHANGED segments
  BY <1>1, <1>3 DEF AtResend
<1>4. CASE CreateSegment
  <2>1. /\ segments' \in Seq(BOOLEAN)
        /\ DOMAIN segments' = DOMAIN segments \cup {NewSegment}
        /\ \A n \in DOMAIN segments : segments[n] => segments'[n]
        /\ \A n \in DOMAIN segments \ {NewSegment} : segments'[n] = segments[n]
    BY <1>1, <1>4, SegmentFacts
  <2>2. \A n : Recorded(n) => n \in DOMAIN segments \ {NewSegment}
    BY <1>1, <1>2, SegmentFacts DEF Recorded
  <2> QED
    BY <2>1, <2>2 DEF AtResend
<1>5. CASE worker.step = "delete" /\ RemoveSegment(worker.id)
  <2>1. /\ segments' \in Seq(BOOLEAN)
        /\ DOMAIN segments' = DOMAIN segments
        /\ \A n \in DOMAIN segments : segments'[n] => segments[n]
    BY <1>1, <1>5, RemoveFacts
  <2>2. worker # Idle
    BY <1>5 DEF Idle
  <2>3. Reading.terminating /\ worker.read \in DOMAIN log /\ Reading = log[worker.read]
    BY <1>1, <1>5, <2>2, AtFacts
       DEF IInv, InProgress, PositionsOK, Reading
  <2>4. Exists(Current) => Current.terminating
    BY <1>1, <2>3, CurrentFacts DEF IInv, RecordKept
  <2> QED
    BY <2>1, <2>4 DEF AtResend
<1> QED
  BY <1>3, <1>4, <1>5, EverySegment

(***************************************************************************)
(* The invariant, one conjunct at a time.                                  *)
(***************************************************************************)
LEMMA VersionsStep ==
    ASSUME IInv, [Next]_vars
    PROVE  VersionsOK'
<1>1. log \in Seq(Version) /\ VersionsOK
  BY DEF IInv, TypeOK
<1>2. DOMAIN segments \subseteq DOMAIN segments'
  BY SegmentStep
<1>3. CASE UNCHANGED log
  BY <1>1, <1>2, <1>3 DEF VersionsOK
<1>4. ASSUME NEW v, Follows(v), log' = Append(log, v)
      PROVE  VersionsOK'
  <2>1. /\ Len(log) \in Nat /\ Len(log') = Len(log) + 1
        /\ DOMAIN log = 1..Len(log) /\ DOMAIN log' = 1..(Len(log) + 1)
        /\ \A i \in DOMAIN log : log'[i] = log[i]
        /\ log'[Len(log) + 1] = v
    BY <1>1, <1>4, AppendFacts DEF Follows
  <2>2. \A i \in DOMAIN log : Exists(log[i])
    BY <1>1, <1>4, <2>1, CurrentFacts DEF Follows, VersionsOK
  <2>3. \A i \in DOMAIN log' : i \in DOMAIN log \/ i = Len(log) + 1
    BY <2>1
  <2> QED
    BY <1>1, <1>2, <1>4, <2>1, <2>2, <2>3 DEF Follows, VersionsOK
<1> QED
  BY <1>3, <1>4, LogStep

LEMMA RecordStep ==
    ASSUME IInv, [Next]_vars
    PROVE  RecordKept'
<1>1. log \in Seq(Version) /\ RecordKept
  BY DEF IInv, TypeOK
<1>2. CASE UNCHANGED log
  BY <1>1, <1>2 DEF RecordKept
<1>3. ASSUME NEW v, Follows(v), log' = Append(log, v)
      PROVE  RecordKept'
  <2>1. /\ Len(log) \in Nat
        /\ DOMAIN log = 1..Len(log) /\ DOMAIN log' = 1..(Len(log) + 1)
        /\ \A i \in DOMAIN log : log'[i] = log[i]
        /\ log'[Len(log) + 1] = v
    BY <1>1, <1>3, AppendFacts DEF Follows
  <2> SUFFICES ASSUME NEW i \in DOMAIN log', NEW j \in DOMAIN log',
                      i < j, Exists(log'[j])
               PROVE  /\ log'[i].terminating => log'[j].terminating
                      /\ log'[i].providerID # 0 => log'[j].providerID = log'[i].providerID
    BY DEF RecordKept
  <2>2. i \in DOMAIN log /\ log'[i] = log[i]
    BY <2>1
  <2>3. CASE j \in DOMAIN log
    BY <1>1, <2>1, <2>2, <2>3 DEF RecordKept
  <2>4. CASE j = Len(log) + 1
    <3>1. Exists(Current) /\ Current = log[Len(log)] /\ Len(log) \in DOMAIN log
          /\ log # << >>
      BY <1>1, <1>3, <2>1, <2>2, CurrentFacts DEF Follows
    <3>2. /\ Current.terminating => v.terminating
          /\ Current.providerID # 0 => v.providerID = Current.providerID
      BY <1>3, <2>1, <2>4, <3>1 DEF Follows
    <3>3. /\ log[i].terminating => Current.terminating
          /\ log[i].providerID # 0 => Current.providerID = log[i].providerID
      BY <1>1, <2>1, <2>2, <3>1 DEF RecordKept
    <3> QED
      BY <2>1, <2>2, <2>4, <3>2, <3>3
  <2> QED
    BY <2>1, <2>3, <2>4
<1> QED
  BY <1>2, <1>3, LogStep

LEMMA ReadyStep ==
    ASSUME IInv, [Next]_vars
    PROVE  ReadyGroupHasItsSegment'
<1>1. log \in Seq(Version)
  BY DEF IInv, TypeOK
<1>2. CASE UNCHANGED log
  <2>1. Current' = Current
    BY <1>2 DEF Current, CurrentOf, VersionAt
  <2>2. Exists(Current) /\ ~Current.terminating =>
          \A n : AtResend(n) => AtResend(n)'
    BY SegmentStep
  <2> QED
    BY <2>1, <2>2 DEF IInv, ReadyGroupHasItsSegment, Exists, AtResend
<1>3. ASSUME UNCHANGED segments, NEW v, Follows(v), log' = Append(log, v)
      PROVE  ReadyGroupHasItsSegment'
  BY <1>1, <1>3, AppendFacts DEF Follows, ReadyGroupHasItsSegment, Exists, AtResend
<1> QED
  BY <1>2, <1>3, LogStep

LEMMA CleanUpStep ==
    ASSUME IInv, [Next]_vars
    PROVE  RecordedSegmentsAreCleanedUp'
<1>1. /\ log \in Seq(Version) /\ VersionsOK /\ RecordKept
      /\ RecordedSegmentsAreCleanedUp
  BY DEF IInv, TypeOK
<1>2. CASE UNCHANGED log
  <2> SUFFICES ASSUME NEW i \in DOMAIN log, NEW j \in DOMAIN log,
                      log[i].providerID # 0, ~Exists(log[j]), i < j
               PROVE  ~AtResend(log[i].providerID)'
    BY <1>1, <1>2 DEF RecordedSegmentsAreCleanedUp, Exists, AtResend
  <2> DEFINE n == log[i].providerID
  <2>1. ~AtResend(n) /\ Recorded(n)
    BY <1>1 DEF RecordedSegmentsAreCleanedUp, Recorded
  <2>2. \A m : Recorded(m) /\ AtResend(m)' => AtResend(m)
    BY SegmentStep
  <2>3. log'[i].providerID = n
    BY <1>2
  <2> QED
    BY <2>1, <2>2, <2>3 DEF AtResend
<1>3. ASSUME UNCHANGED segments, NEW v, Follows(v), log' = Append(log, v)
      PROVE  RecordedSegmentsAreCleanedUp'
  <2>1. /\ Len(log) \in Nat
        /\ DOMAIN log = 1..Len(log) /\ DOMAIN log' = 1..(Len(log) + 1)
        /\ \A i \in DOMAIN log : log'[i] = log[i]
        /\ log'[Len(log) + 1] = v
    BY <1>1, <1>3, AppendFacts DEF Follows
  <2>2. \A i \in DOMAIN log :
          /\ log # << >> /\ Exists(Current)
          /\ log[i].providerID # 0 => Current.providerID = log[i].providerID
    BY <1>1, <1>3, <2>1, CurrentFacts DEF Follows, RecordKept
  <2>3. \A i \in DOMAIN log : log[i].providerID # 0 =>
          /\ Exists(v) => v.providerID = log[i].providerID
          /\ ~Exists(v) => v.providerID = 0 /\ ~AtResend(log[i].providerID)
    BY <1>3, <2>2 DEF Follows, Absent
  <2> SUFFICES ASSUME NEW i \in DOMAIN log', NEW j \in DOMAIN log', log'[i].providerID # 0
               PROVE  /\ log'[j].providerID \in {0, log'[i].providerID}
                      /\ ~Exists(log'[j]) /\ i < j => ~AtResend(log'[i].providerID)
    BY <1>3 DEF RecordedSegmentsAreCleanedUp, Exists, AtResend
  <2>4. CASE i \in DOMAIN log /\ j \in DOMAIN log
    BY <1>1, <2>1, <2>4 DEF RecordedSegmentsAreCleanedUp
  <2>5. CASE i \in DOMAIN log /\ j = Len(log) + 1
    BY <2>1, <2>3, <2>5
  <2>6. CASE i = Len(log) + 1 /\ j \in DOMAIN log
    <3>1. log'[j] = log[j] /\ log'[i] = v /\ v.providerID # 0 /\ ~(i < j)
      BY <2>1, <2>6
    <3> QED
      BY <2>3, <2>6, <3>1
  <2>7. CASE i = Len(log) + 1 /\ j = Len(log) + 1
    BY <2>1, <2>7
  <2> QED
    BY <2>1, <2>4, <2>5, <2>6, <2>7
<1> QED
  BY <1>2, <1>3, LogStep

(***************************************************************************)
(* The reconciliation in progress.                                         *)
(***************************************************************************)
LEMMA WorkerFacts ==
    ASSUME TypeOK, worker # Idle
    PROVE  /\ worker \in [step : {"adopt", "create", "status",
                                    "evict", "check", "get", "delete", "release"},
                           read : Nat, id : Nat]
           /\ worker.step # "idle"
  BY DEF TypeOK, WorkerStates

LEMMA StartFacts ==
    ASSUME IInv, StartReconcile
    PROVE  /\ worker' \in WorkerStates
           /\ worker' # Idle =>
                /\ ctrlAt \in DOMAIN log /\ Exists(log[ctrlAt])
                /\ worker' = [step |-> FirstStep(log[ctrlAt]), read |-> ctrlAt,
                              id |-> log[ctrlAt].providerID]
           /\ Exists(Cached) => worker' # Idle
<1>1. log \in Seq(Version) /\ ctrlAt \in Nat /\ ctrlAt <= Len(log)
  BY DEF IInv, TypeOK, PositionsOK
<1>2. Cached \in Version /\ (ctrlAt \in DOMAIN log => Cached = log[ctrlAt])
      /\ (ctrlAt = 0 => Cached = Absent)
  BY <1>1, AtFacts DEF Cached
<1>3. Exists(Cached) => ctrlAt \in DOMAIN log
  BY <1>1, <1>2, AbsentIsVersion
<1>4. Cached.providerID \in Nat
  BY <1>2 DEF Version
<1>5. FirstStep(Cached) \in {"adopt", "create", "status",
                            "evict", "check", "get", "delete", "release"}
  BY DEF FirstStep
<1>6. CASE Exists(Cached)
  <2>1. worker' = [step |-> FirstStep(Cached), read |-> ctrlAt, id |-> Cached.providerID]
    BY <1>6 DEF StartReconcile
  <2>2. worker' \in WorkerStates /\ worker'.step # "idle"
    BY <1>1, <1>4, <1>5, <2>1 DEF WorkerStates
  <2> QED
    BY <1>2, <1>3, <1>6, <2>1, <2>2 DEF Idle
<1>7. CASE ~Exists(Cached)
  BY <1>7 DEF StartReconcile, WorkerStates
<1> QED
  BY <1>6, <1>7

LEMMA ProceedFacts ==
    ASSUME TypeOK, NEW to \in {"status", "check", "get", "delete", "release"}, NEW id \in Nat,
           NEW from \in {"create", "evict", "check", "get", "delete"}, Proceed(from, to, id)
    PROVE  /\ worker # Idle /\ worker' # Idle /\ worker' \in WorkerStates
           /\ worker'.step = to /\ worker'.read = worker.read /\ worker'.id = id
<1>1. worker # Idle
  BY DEF Proceed, Idle
<1>2. worker' = [worker EXCEPT !.step = to, !.id = id]
  BY DEF Proceed
<1>3. /\ worker' \in WorkerStates
      /\ worker'.step = to /\ worker'.read = worker.read /\ worker'.id = id
  BY <1>1, <1>2, WorkerFacts DEF WorkerStates
<1> QED
  BY <1>1, <1>3 DEF Idle

LEMMA TypeStep ==
    ASSUME IInv, [Next]_vars
    PROVE  TypeOK'
<1> USE DEF IInv, TypeOK
<1>1. log' \in Seq(Version)
  BY LogStep, AppendFacts DEF Follows
<1>2. segments' \in Seq(BOOLEAN)
  BY SegmentStep
<1>3. spare' \in Nat /\ ctrlAt' \in Nat /\ queued' \in BOOLEAN /\ worker' \in WorkerStates
  <2>0. /\ Disturb => spare' \in Nat
        /\ Idle \in WorkerStates
    <3>1. spare \in Nat
      OBVIOUS
    <3> QED
      BY <3>1 DEF Disturb, WorkerStates
  <2>1. CASE Users \/ Observe \/ Resync \/ UNCHANGED vars
    <3>1. /\ spare' = spare \/ Disturb
          /\ ctrlAt' = ctrlAt \/ ctrlAt' = ctrlAt + 1
          /\ queued' = queued \/ queued' = TRUE
          /\ worker' = worker
      BY <2>1 DEF Users, CreateGroup, EditGroup, DeleteGroup, Observe, Resync, vars
    <3>2. spare' \in Nat /\ ctrlAt' \in Nat
      BY <2>0, <3>1
    <3>3. worker' \in WorkerStates
      BY <3>1
    <3>4. queued' \in BOOLEAN
      BY <3>1, Zenon
    <3> QED
      BY <3>2, <3>3, <3>4
  <2>2. CASE RestartManager
    <3>1. ctrlAt' \in Nat
      BY <2>2 DEF RestartManager, Restarted
    <3>2. queued' \in BOOLEAN
      BY <2>2, Zenon DEF RestartManager, Restarted, Exists
    <3> QED
      BY <2>0, <2>2, <3>1, <3>2 DEF RestartManager, Restarted
  <2>3. CASE StartReconcile
    BY <2>3, StartFacts DEF StartReconcile
  <2>4. CASE CreateContactGroup
    BY <2>4, SegmentFacts, ProceedFacts DEF CreateContactGroup, Proceed
  <2>5. CASE FinalizeCall
    <3>1. worker # Idle
      BY <2>5 DEF FinalizeCall, EvictMemberships, CheckMemberships,
              GetContactGroup, DeleteContactGroup, Proceed, Idle
    <3>2. worker.id \in Nat
      BY <3>1, WorkerFacts
    <3> QED
      BY <2>5, <3>2, ProceedFacts DEF FinalizeCall, EvictMemberships, CheckMemberships,
              GetContactGroup, DeleteContactGroup, Proceed
  <2>6. CASE CallFails \/ UpdateFails
    BY <2>0, <2>6, Zenon DEF CallFails, UpdateFails, GiveUp
  <2>7. CASE StoreUpdate
    BY <2>0, <2>7 DEF StoreUpdate
  <2> QED
    BY <2>1, <2>2, <2>3, <2>4, <2>5, <2>6, <2>7 DEF Next, Reconcile
<1> QED
  BY <1>1, <1>2, <1>3

(* A version once published stays where it is, and so what was read.       *)
LEMMA LogKept ==
    ASSUME IInv, [Next]_vars
    PROVE  /\ Len(log) \in Nat /\ Len(log') \in Nat /\ Len(log) <= Len(log')
           /\ DOMAIN log = 1..Len(log) /\ DOMAIN log' = 1..Len(log')
           /\ \A i \in DOMAIN log : i \in DOMAIN log' /\ log'[i] = log[i]
<1>1. log \in Seq(Version)
  BY DEF IInv, TypeOK
<1>2. CASE UNCHANGED log
  BY <1>1, <1>2
<1>3. ASSUME NEW v, Follows(v), log' = Append(log, v)
      PROVE  /\ Len(log) \in Nat /\ Len(log') \in Nat /\ Len(log) <= Len(log')
             /\ DOMAIN log = 1..Len(log) /\ DOMAIN log' = 1..Len(log')
             /\ \A i \in DOMAIN log : i \in DOMAIN log' /\ log'[i] = log[i]
  BY <1>1, <1>3, AppendFacts DEF Follows
<1> QED
  BY <1>2, <1>3, LogStep

LEMMA ReadingFacts ==
    ASSUME IInv, worker # Idle
    PROVE  /\ worker.read \in DOMAIN log
           /\ Reading = log[worker.read] /\ Reading \in Version
<1>1. log \in Seq(Version) /\ worker.read \in DOMAIN log
  BY DEF IInv, TypeOK, PositionsOK
<1>2. worker.read \in 0..Len(log)
  BY <1>1
<1> QED
  BY <1>1, <1>2, AtFacts DEF Reading

(* What a step does to the position read: it is kept, or taken anew.       *)
LEMMA WorkerStep ==
    ASSUME IInv, [Next]_vars, worker' # Idle
    PROVE  \/ worker' = worker /\ UNCHANGED segments
           \/ StartReconcile
           \/ CreateContactGroup
           \/ EvictMemberships
           \/ CheckMemberships
           \/ GetContactGroup
           \/ DeleteContactGroup
<1>1. CASE Users \/ Observe \/ Resync \/ UNCHANGED vars
  BY <1>1 DEF Users, CreateGroup, EditGroup, DeleteGroup, Observe, Resync, vars
<1>2. CASE RestartManager \/ CallFails \/ UpdateFails \/ StoreUpdate
  BY <1>2 DEF RestartManager, Restarted, CallFails, UpdateFails, StoreUpdate, GiveUp
<1> QED
  BY <1>1, <1>2 DEF Next, Reconcile, FinalizeCall

LEMMA CallFacts ==
    ASSUME IInv, CreateContactGroup \/ FinalizeCall
    PROVE  /\ worker # Idle /\ worker' # Idle /\ worker'.read = worker.read
           /\ UNCHANGED <<log, ctrlAt, queued>>
           /\ CreateContactGroup =>
                worker.step = "create" /\ worker'.step = "status" /\ worker'.id = NewSegment
           /\ EvictMemberships \/ CheckMemberships =>
                /\ worker.step \in {"evict", "check"} /\ worker'.id = worker.id
                /\ worker'.step \in {"check", "get"}
           /\ GetContactGroup =>
                /\ worker.step = "get" /\ worker'.id = worker.id
                /\ worker'.step = IF AtResend(worker.id) THEN "delete" ELSE "release"
           /\ DeleteContactGroup =>
                worker.step = "delete" /\ worker'.step = "release" /\ worker'.id = worker.id
<1>1. TypeOK
  BY DEF IInv
<1>2. worker # Idle
  BY DEF CreateContactGroup, FinalizeCall, EvictMemberships, CheckMemberships,
              GetContactGroup, DeleteContactGroup, Proceed, Idle
<1>3. worker.id \in Nat
  BY <1>1, <1>2, WorkerFacts
<1>4. CASE CreateContactGroup
  BY <1>1, <1>4, SegmentFacts, ProceedFacts
     DEF CreateContactGroup, FinalizeCall, EvictMemberships, CheckMemberships,
              GetContactGroup, DeleteContactGroup, Proceed
<1>5. CASE GetContactGroup
  BY <1>1, <1>3, <1>5, ProceedFacts
     DEF CreateContactGroup, FinalizeCall, EvictMemberships, CheckMemberships,
              GetContactGroup, DeleteContactGroup, Proceed
<1>6. CASE DeleteContactGroup
  BY <1>1, <1>3, <1>6, ProceedFacts
     DEF CreateContactGroup, FinalizeCall, EvictMemberships, CheckMemberships,
              GetContactGroup, DeleteContactGroup, Proceed
<1>7. CASE EvictMemberships
  BY <1>1, <1>3, <1>7, ProceedFacts
     DEF CreateContactGroup, EvictMemberships, CheckMemberships, GetContactGroup,
         DeleteContactGroup, Proceed
<1>8. CASE CheckMemberships
  BY <1>1, <1>3, <1>8, ProceedFacts
     DEF CreateContactGroup, EvictMemberships, CheckMemberships, GetContactGroup,
         DeleteContactGroup, Proceed
<1> QED
  BY <1>4, <1>5, <1>6, <1>7, <1>8 DEF FinalizeCall

LEMMA PositionsStep ==
    ASSUME IInv, [Next]_vars
    PROVE  PositionsOK'
<1>1. TypeOK /\ PositionsOK /\ ctrlAt \in Nat
  BY DEF IInv, TypeOK
<1>2. /\ Len(log) \in Nat /\ Len(log') \in Nat /\ Len(log) <= Len(log')
      /\ \A i \in DOMAIN log : i \in DOMAIN log'
  BY LogKept
<1>3. ctrlAt' <= Len(log')
  <2>1. CASE Observe
    BY <1>1, <1>2, <2>1 DEF Observe
  <2>2. CASE RestartManager
    BY <1>1, <1>2, <2>2 DEF RestartManager, Restarted
  <2>3. CASE ctrlAt' = ctrlAt
    BY <1>1, <1>2, <2>3 DEF PositionsOK
  <2> QED
    BY <2>1, <2>2, <2>3
       DEF Next, Reconcile, Users, CreateGroup, EditGroup, DeleteGroup, Resync,
           StartReconcile, CreateContactGroup, FinalizeCall, EvictMemberships, CheckMemberships,
              GetContactGroup, DeleteContactGroup,
           Proceed, StoreUpdate, UpdateFails, CallFails, GiveUp, vars
<1>4. ASSUME worker' # Idle
      PROVE  worker'.read \in DOMAIN log' /\ (queued' \/ worker'.read = ctrlAt')
  <2>1. CASE worker' = worker /\ UNCHANGED segments
    <3>1. worker.read \in DOMAIN log /\ (queued \/ worker.read = ctrlAt)
      BY <1>1, <1>4, <2>1 DEF PositionsOK
    <3>2. queued' \/ (queued' = queued /\ ctrlAt' = ctrlAt)
      BY <1>4, <2>1
         DEF Next, Reconcile, Users, CreateGroup, EditGroup, DeleteGroup, Observe, Resync,
             StartReconcile, CreateContactGroup, FinalizeCall, EvictMemberships, CheckMemberships,
              GetContactGroup, DeleteContactGroup,
             Proceed, StoreUpdate, UpdateFails, CallFails, GiveUp, RestartManager, Restarted, vars, Idle
    <3> QED
      BY <1>2, <2>1, <3>1, <3>2
  <2>2. CASE StartReconcile
    <3>1. worker'.read = ctrlAt /\ ctrlAt \in DOMAIN log
      BY <1>4, <2>2, StartFacts
    <3> QED
      BY <1>2, <2>2, <3>1 DEF StartReconcile
  <2>3. CASE CreateContactGroup \/ FinalizeCall
    <3>1. /\ worker # Idle /\ worker'.read = worker.read
          /\ queued' = queued /\ ctrlAt' = ctrlAt
      BY <2>3, CallFacts
    <3> QED
      BY <1>1, <1>2, <3>1 DEF PositionsOK
  <2> QED
    BY <1>4, <2>1, <2>2, <2>3, WorkerStep DEF FinalizeCall
<1> QED
  BY <1>3, <1>4 DEF PositionsOK, Idle

LEMMA InProgressStep ==
    ASSUME IInv, [Next]_vars
    PROVE  InProgress'
<1> SUFFICES ASSUME worker' # Idle
             PROVE  InProgress'
  BY DEF InProgress, Idle
<1>1. TypeOK /\ log \in Seq(Version) /\ InProgress
  BY DEF IInv, TypeOK
<1>2. TypeOK' /\ log' \in Seq(Version)
  BY TypeStep DEF TypeOK
<1>3. worker'.read \in DOMAIN log'
  BY PositionsStep DEF PositionsOK, Idle
<1>4. Reading' = log'[worker'.read]
  BY <1>2, <1>3 DEF Reading, At, VersionAt
<1>5. \A i \in DOMAIN log : log'[i] = log[i]
  BY LogKept
<1>6. ASSUME worker # Idle, worker'.read = worker.read
      PROVE  Reading' = Reading
  BY <1>4, <1>5, <1>6, ReadingFacts
<1>7. CASE worker' = worker /\ UNCHANGED segments
  <2>1. worker # Idle /\ Reading' = Reading
    BY <1>6, <1>7
  <2> QED
    BY <1>1, <1>7, <2>1 DEF InProgress, Exists, AtResend
<1>8. CASE StartReconcile
  <2>1. /\ ctrlAt \in DOMAIN log /\ Exists(log[ctrlAt])
        /\ worker' = [step |-> FirstStep(log[ctrlAt]), read |-> ctrlAt,
                      id |-> log[ctrlAt].providerID]
    BY <1>8, StartFacts
  <2>2. Reading' = log[ctrlAt]
    BY <1>4, <1>5, <2>1
  <2>3. worker'.step = FirstStep(Reading') /\ worker'.id = Reading'.providerID
        /\ Exists(Reading')
    BY <2>1, <2>2
  <2> QED
    BY <2>3 DEF InProgress, FirstStep, Exists
<1>9. CASE CreateContactGroup
  <2>1. worker # Idle /\ worker.step = "create" /\ worker'.step = "status"
        /\ worker'.id = NewSegment /\ Reading' = Reading
    BY <1>6, <1>9, CallFacts
  <2>2. DOMAIN segments' = DOMAIN segments \cup {NewSegment} /\ segments'[NewSegment]
    BY <1>1, <1>9, SegmentFacts DEF CreateContactGroup
  <2>3. /\ Exists(Reading) /\ ~Reading.terminating /\ Reading.finalizer
        /\ worker'.id \in DOMAIN segments' /\ segments'[worker'.id]
    BY <1>1, <2>1, <2>2 DEF InProgress
  <2> QED
    BY <2>1, <2>3 DEF InProgress, Exists, AtResend
<1>10. CASE GetContactGroup
  <2>1. worker # Idle /\ worker.step = "get" /\ worker'.id = worker.id
        /\ worker'.step = (IF AtResend(worker.id) THEN "delete" ELSE "release")
        /\ Reading' = Reading
    BY <1>6, <1>10, CallFacts DEF FinalizeCall
  <2>2. Exists(Reading) /\ Reading.terminating /\ worker.id = Reading.providerID
    BY <1>1, <2>1 DEF InProgress
  <2>3. UNCHANGED segments
    BY <1>10 DEF GetContactGroup
  <2> QED
    BY <2>1, <2>2, <2>3 DEF InProgress, Exists, AtResend
<1>11. CASE DeleteContactGroup
  <2>1. worker # Idle /\ worker.step = "delete" /\ worker'.step = "release"
        /\ worker'.id = worker.id /\ Reading' = Reading
    BY <1>6, <1>11, CallFacts DEF FinalizeCall
  <2>2. Exists(Reading) /\ Reading.terminating /\ worker.id = Reading.providerID
    BY <1>1, <2>1 DEF InProgress
  <2>3. /\ DOMAIN segments' = DOMAIN segments
        /\ \A n \in DOMAIN segments : segments'[n] => n # worker.id
    BY <1>1, <1>11, RemoveFacts DEF DeleteContactGroup
  <2> QED
    BY <2>1, <2>2, <2>3 DEF InProgress, Exists, AtResend
<1>12. CASE EvictMemberships \/ CheckMemberships
  <2>1. worker # Idle /\ worker.step \in {"evict", "check"} /\ worker'.id = worker.id
        /\ worker'.step \in {"check", "get"} /\ Reading' = Reading
    BY <1>6, <1>12, CallFacts DEF FinalizeCall
  <2>2. Exists(Reading) /\ Reading.terminating /\ worker.id = Reading.providerID
    BY <1>1, <2>1 DEF InProgress
  <2> QED
    BY <2>1, <2>2 DEF InProgress, Exists, AtResend
<1> QED
  BY <1>7, <1>8, <1>9, <1>10, <1>11, <1>12, WorkerStep

LEMMA StrandedStep ==
    ASSUME IInv, [Next]_vars
    PROVE  NoGroupStranded'
<1>1. /\ TypeOK /\ log \in Seq(Version) /\ ctrlAt \in Nat /\ ctrlAt <= Len(log)
      /\ NoGroupStranded
  BY DEF IInv, TypeOK, PositionsOK
<1>2. ASSUME NEW v, Follows(v), log' = Append(log, v)
      PROVE  NoGroupStranded'
  <2>1. Len(log) \in Nat /\ Len(log') = Len(log) + 1
    BY <1>1, <1>2, AppendFacts DEF Follows
  <2>2. log' # log
    BY <2>1
  <2>3. ctrlAt' = ctrlAt
    BY <2>2
       DEF Next, Reconcile, Users, CreateGroup, EditGroup, DeleteGroup, Observe, Resync,
           StartReconcile, CreateContactGroup, FinalizeCall, EvictMemberships, CheckMemberships,
              GetContactGroup, DeleteContactGroup,
           Proceed, StoreUpdate, UpdateFails, CallFails, GiveUp, RestartManager, Restarted, vars
  <2> QED
    BY <1>1, <2>1, <2>3 DEF NoGroupStranded
<1>3. ASSUME UNCHANGED log
      PROVE  NoGroupStranded'
  <2> SUFFICES ASSUME Exists(Current), Current.terminating \/ Current.readyAt = 0
               PROVE  queued' \/ worker' # Idle \/ ctrlAt' < Len(log)
    BY <1>3 DEF NoGroupStranded, Idle, Exists, Current, CurrentOf, VersionAt
  <2>1. queued \/ worker # Idle \/ ctrlAt < Len(log)
    BY <1>1 DEF NoGroupStranded
  <2>2. CASE Users \/ UNCHANGED vars
    BY <2>1, <2>2 DEF Users, CreateGroup, EditGroup, DeleteGroup, vars
  <2>3. CASE Observe \/ Resync \/ CallFails \/ UpdateFails
    BY <2>3 DEF Observe, Resync, CallFails, UpdateFails, GiveUp
  <2>4. CASE RestartManager
    <3>1. ctrlAt' \in 0..Len(log) /\ queued' = Exists(At(ctrlAt'))
      BY <2>4 DEF RestartManager, Restarted
    <3>2. CASE ctrlAt' = Len(log)
      <4>1. At(ctrlAt') = Current
        BY <3>2 DEF At, Current, CurrentOf
      <4> QED
        BY <3>1, <4>1
    <3>3. CASE ctrlAt' # Len(log)
      BY <1>1, <3>1, <3>3
    <3> QED
      BY <3>2, <3>3
  <2>5. CASE StartReconcile
    <3>1. CASE ctrlAt = Len(log)
      <4>1. Cached = Current
        BY <3>1 DEF Cached, At, Current, CurrentOf
      <4> QED
        BY <2>5, <4>1, StartFacts
    <3>2. CASE ctrlAt # Len(log)
      BY <1>1, <2>5, <3>2 DEF StartReconcile
    <3> QED
      BY <3>1, <3>2
  <2>6. CASE CreateContactGroup \/ FinalizeCall
    BY <2>6, CallFacts
  <2>7. CASE StoreUpdate
    <3>1. worker # Idle /\ queued' = queued /\ ctrlAt' = ctrlAt
      BY <2>7 DEF StoreUpdate, Writing, Idle
    <3>2. Reading \in Version /\ worker.read \in DOMAIN log /\ Reading = log[worker.read]
      BY <3>1, ReadingFacts
    <3>3. ToWrite(Reading) = Reading
      <4>1. CASE NothingToWrite
        BY <4>1 DEF NothingToWrite
      <4>2. CASE Write
        <5>1. worker.read = Len(log) /\ log = Publish(log, ToWrite(Reading))
          BY <1>3, <4>2 DEF Write, Fresh
        <5>2. log # Append(log, ToWrite(Reading))
          <6>1. Len(Append(log, ToWrite(Reading))) = Len(log) + 1 /\ Len(log) \in Nat
            BY <1>1
          <6> QED
            BY <6>1
        <5> QED
          BY <3>2, <5>1, <5>2 DEF Publish
      <4> QED
        BY <2>7, <4>1, <4>2 DEF StoreUpdate
    <3>4. ~Reading.terminating /\ Reading.readyAt # 0
      <4>1. Exists(Reading) /\ (worker.step = "adopt" => ~Reading.finalizer)
            /\ (worker.step \in {"adopt", "status"} => ~Reading.terminating)
        BY <3>1 DEF IInv, InProgress
      <4>2. CASE worker.step = "adopt"
        <5>1. Reading = [Reading EXCEPT !.finalizer = TRUE]
          BY <3>3, <4>2 DEF ToWrite
        <5>2. Reading.finalizer
          BY <3>2, <5>1 DEF Version
        <5> QED
          BY <4>1, <4>2, <5>2
      <4>3. CASE worker.step = "release"
        <5>1. Reading = Absent
          BY <3>3, <4>3 DEF ToWrite
        <5> QED
          BY <4>1, <5>1, AbsentIsVersion
      <4>4. CASE worker.step = "status"
        <5>1. ASSUME Reading.readyAt = 0
              PROVE  FALSE
          <6>1. Reading = [Reading EXCEPT !.providerID = worker.id,
                                          !.readyAt = Reading.generation]
            BY <3>3, <4>4, <5>1 DEF ToWrite
          <6>2. Reading.readyAt = Reading.generation
            BY <3>2, <6>1 DEF Version
          <6> QED
            BY <4>1, <5>1, <6>2 DEF Exists
        <5> QED
          BY <4>1, <4>4, <5>1
      <4> QED
        BY <2>7, <4>2, <4>3, <4>4 DEF StoreUpdate, Writing
    <3>5. worker.read # Len(log)
      BY <1>1, <3>2, <3>4, CurrentFacts
    <3>6. queued \/ worker.read = ctrlAt
      BY <3>1 DEF IInv, PositionsOK
    <3> QED
      BY <1>1, <3>1, <3>2, <3>5, <3>6
  <2> QED
    BY <2>2, <2>3, <2>4, <2>5, <2>6, <2>7 DEF Next, Reconcile
<1> QED
  BY <1>2, <1>3, LogStep

LEMMA InvariantInit == Init => IInv
<1> SUFFICES ASSUME Init
             PROVE  IInv
  OBVIOUS
<1>1. TypeOK /\ log = << >> /\ DOMAIN log = {} /\ Current = Absent /\ worker = Idle
  <2>1. log = << >> /\ segments = << >> /\ worker = Idle
    BY DEF Init
  <2>2. log \in Seq(Version) /\ segments \in Seq(BOOLEAN) /\ DOMAIN log = {} /\ Len(log) = 0
    BY <2>1
  <2>3. spare \in Nat /\ ctrlAt \in Nat /\ queued \in BOOLEAN
    BY GroupBoundsAreNats DEF Init
  <2>4. worker \in WorkerStates
    BY <2>1 DEF WorkerStates
  <2>5. Current = Absent
    BY <2>2 DEF Current, CurrentOf, VersionAt
  <2> QED
    BY <2>1, <2>2, <2>3, <2>4, <2>5 DEF TypeOK
<1>2. PositionsOK
  BY <1>1 DEF Init, PositionsOK
<1> QED
  BY <1>1, <1>2, AbsentIsVersion
     DEF IInv, VersionsOK, RecordKept, InProgress, ReadyGroupHasItsSegment,
         RecordedSegmentsAreCleanedUp, NoGroupStranded

LEMMA InvariantStep == IInv /\ [Next]_vars => IInv'
  BY TypeStep, PositionsStep, VersionsStep, RecordStep, InProgressStep, ReadyStep,
     CleanUpStep, StrandedStep DEF IInv

(***************************************************************************)
(* The inductive invariant: what every reconciliation of a ContactGroup,   *)
(* at whatever point it was interrupted, may rely on.                      *)
(***************************************************************************)
THEOREM GroupInvariant == Spec => []IInv
  BY InvariantInit, InvariantStep, PTL DEF Spec

(***************************************************************************)
(* Type correctness of the ContactGroup controller's state.                *)
(***************************************************************************)
THEOREM GroupTypeCorrect == Spec => []TypeOK
<1>1. IInv => TypeOK
  BY DEF IInv
<1> QED
  BY <1>1, GroupInvariant, PTL

(***************************************************************************)
(* However often the manager restarts and however late its cache is, the   *)
(* segment of a Ready group that nobody deleted stays at Resend.           *)
(***************************************************************************)
THEOREM SegmentKept == Spec => []ReadyGroupHasItsSegment
<1>1. IInv => ReadyGroupHasItsSegment
  BY DEF IInv
<1> QED
  BY <1>1, GroupInvariant, PTL

(***************************************************************************)
(* The finalizer lets the object go only when the segment on its record,   *)
(* which never changes, is gone from Resend.                               *)
(***************************************************************************)
THEOREM SegmentCleanedUp == Spec => []RecordedSegmentsAreCleanedUp
<1>1. IInv => RecordedSegmentsAreCleanedUp
  BY DEF IInv
<1> QED
  BY <1>1, GroupInvariant, PTL

(***************************************************************************)
(* No error path, conflict or restart leaves a group that is not Ready, or *)
(* that is being deleted, without a reconciliation to come.                *)
(***************************************************************************)
THEOREM GroupNeverStranded == Spec => []NoGroupStranded
<1>1. IInv => NoGroupStranded
  BY DEF IInv
<1> QED
  BY <1>1, GroupInvariant, PTL

==============================================================================
