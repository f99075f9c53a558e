----------------------------- MODULE GroupSync ------------------------------
(***************************************************************************)
(* The ContactGroup controller (internal/controller/                       *)
(* contactgroup_controller.go), one ContactGroup, and Resend's segments.   *)
(* A reconciliation reads the group from the cache, calls Resend at most   *)
(* twice and writes once; both writes, of the finalizer and of the status, *)
(* are refused when the object has moved.  Creating a segment always makes *)
(* a new one.  The memberships of the group are no state of this module;   *)
(* Memberships says what the finalizer does about them.                    *)
(***************************************************************************)
EXTENDS KubeObjects

CONSTANTS
    MaxGeneration,   \* bound: edits of the spec stop at this generation
    MaxSegments,     \* bound: segments of this group that are told apart
    MaxDisturbances  \* bound: faults, restarts and resyncs

ASSUME GroupBoundsAreNats ==
    MaxGeneration \in Nat /\ MaxSegments \in Nat /\ MaxDisturbances \in Nat

VARIABLES
    log,       \* the published versions of the ContactGroup
    segments,  \* segments[n]: segment n is at Resend; ids count from 1
    spare,     \* disturbances still allowed
    ctrlAt,    \* the position of the manager's cache in log
    queued,    \* the group is in the work queue
    worker     \* the reconciliation in progress

vars == <<log, segments, spare, ctrlAt, queued, worker>>

(* readyAt and updatedAt: the generations the Ready and Updated conditions *)
(* observed, 0 for no condition.                                           *)
Version ==
    [generation : Nat, terminating : BOOLEAN, finalizer : BOOLEAN,
     providerID : Nat, readyAt : Nat, updatedAt : Nat]

Absent ==
    [generation |-> 0, terminating |-> FALSE, finalizer |-> FALSE,
     providerID |-> 0, readyAt |-> 0, updatedAt |-> 0]

Idle == [step |-> "idle"]
WorkerStates ==
    {Idle} \cup [step : {"adopt", "create", "status",
                          "evict", "check", "get", "delete", "release"},
                 read : Nat, id : Nat]

Exists(v) == v.generation # 0
At(i) == VersionAt(log, i, Absent)
Current == CurrentOf(log, Absent)
Cached == At(ctrlAt)
Reading == At(worker.read)
AtResend(n) == n \in DOMAIN segments /\ segments[n]

Init ==
    /\ log = << >> /\ segments = << >> /\ spare = MaxDisturbances
    /\ ctrlAt = 0 /\ queued = FALSE /\ worker = Idle

Disturb == spare > 0 /\ spare' = spare - 1

(***************************************************************************)
(* The users.                                                              *)
(***************************************************************************)
CreateGroup ==
    /\ log = << >>
    /\ log' = Publish(log, [Absent EXCEPT !.generation = 1])
    /\ UNCHANGED <<segments, spare, ctrlAt, queued, worker>>

EditGroup ==
    /\ Exists(Current)
    /\ Current.generation < MaxGeneration
    /\ log' = Publish(log, [Current EXCEPT !.generation = @ + 1])
    /\ UNCHANGED <<segments, spare, ctrlAt, queued, worker>>

DeleteGroup ==
    /\ Exists(Current)
    /\ ~Current.terminating
    /\ log' = Publish(log,
           IF Current.finalizer
           THEN [Current EXCEPT !.generation = @ + 1, !.terminating = TRUE]
           ELSE Absent)
    /\ UNCHANGED <<segments, spare, ctrlAt, queued, worker>>

(***************************************************************************)
(* Informer and work queue; a requeue after an error is immediate here.    *)
(***************************************************************************)
Observe ==
    /\ ctrlAt < Len(log)
    /\ ctrlAt' = ctrlAt + 1
    /\ queued' = TRUE
    /\ UNCHANGED <<log, segments, spare, worker>>

Resync ==
    /\ Exists(Cached) /\ ~queued
    /\ Disturb
    /\ queued' = TRUE
    /\ UNCHANGED <<log, segments, ctrlAt, worker>>

Restarted ==
    /\ ctrlAt' \in 0..Len(log)
    /\ queued' = Exists(At(ctrlAt'))
    /\ worker' = Idle

RestartManager == Disturb /\ Restarted /\ UNCHANGED <<log, segments>>

(***************************************************************************)
(* Reconcile.                                                              *)
(***************************************************************************)
FirstStep(v) ==
    IF v.terminating THEN "evict"
    ELSE IF ~v.finalizer THEN "adopt"
    ELSE IF v.readyAt = 0 THEN "create"
    ELSE "status"

StartReconcile ==
    /\ worker = Idle
    /\ queued
    /\ queued' = FALSE
    /\ worker' = IF Exists(Cached)
                 THEN [step |-> FirstStep(Cached), read |-> ctrlAt,
                       id |-> Cached.providerID]
                 ELSE Idle
    /\ UNCHANGED <<log, segments, spare, ctrlAt>>

(* Nothing bounds how often a segment is created.  Past MaxSegments the    *)
(* new one takes the place of one that was never recorded: no process has  *)
(* the id of that one any more, so nothing is ever done with it.           *)
NeverRecorded ==
    {n \in DOMAIN segments : \A i \in DOMAIN log : log[i].providerID # n}

NewSegment ==
    IF Len(segments) < MaxSegments \/ NeverRecorded = {} THEN Len(segments) + 1
    ELSE CHOOSE n \in NeverRecorded : TRUE

CreateSegment ==
    segments' = [n \in DOMAIN segments \cup {NewSegment} |->
                    n = NewSegment \/ segments[n]]

Proceed(from, to, id) ==
    /\ worker.step = from
    /\ worker' = [worker EXCEPT !.step = to, !.id = id]
    /\ UNCHANGED <<log, spare, ctrlAt, queued>>

CreateContactGroup ==
    Proceed("create", "status", NewSegment) /\ CreateSegment

(* Finalize: the memberships' deletion, the second List that must find     *)
(* none, and with it the removals' deletion; then GetContactGroup, and     *)
(* DeleteContactGroup if Resend has it.                                    *)
EvictMemberships ==
    Proceed("evict", "check", worker.id) /\ UNCHANGED segments

CheckMemberships ==
    Proceed("check", "get", worker.id) /\ UNCHANGED segments

GetContactGroup ==
    /\ Proceed("get", IF AtResend(worker.id) THEN "delete" ELSE "release", worker.id)
    /\ UNCHANGED segments

MutantFirstSegment(id) == 1

SegmentToDelete(id) == id

RemoveSegment(id) ==
    segments' = [n \in DOMAIN segments |-> segments[n] /\ n # SegmentToDelete(id)]

DeleteContactGroup ==
    Proceed("delete", "release", worker.id) /\ RemoveSegment(worker.id)

FinalizeCall ==
    EvictMemberships \/ CheckMemberships \/ GetContactGroup \/ DeleteContactGroup

MutantGiveUpForGood ==
    worker' = Idle /\ UNCHANGED <<ctrlAt, queued>>

MutantReadingKept ==
    worker' = [worker EXCEPT !.step = "idle"] /\ queued' = TRUE /\ UNCHANGED ctrlAt

GiveUp ==
    worker' = Idle /\ queued' = TRUE /\ UNCHANGED ctrlAt

CallFails ==
    /\ worker.step \in {"create", "evict", "check", "get", "delete"}
    /\ Disturb
    /\ \/ UNCHANGED segments
       \/ worker.step = "create" /\ CreateSegment      \* created, answer lost
       \/ worker.step = "delete" /\ RemoveSegment(worker.id)
    /\ GiveUp
    /\ UNCHANGED log

(* What is written: by Update the finalizer, or its removal and with it    *)
(* the object's; by Status().Update the outcome of the switch.  An edit is *)
(* observed in Updated alone, so that Ready keeps its generation.          *)
ToWrite(v) ==
    CASE worker.step = "adopt"   -> [v EXCEPT !.finalizer = TRUE]
      [] worker.step = "release" -> Absent
      [] OTHER ->
           IF v.readyAt = 0
           THEN [v EXCEPT !.providerID = worker.id, !.readyAt = v.generation]
           ELSE IF v.readyAt # v.generation
           THEN [v EXCEPT !.updatedAt = v.generation]
           ELSE v

MutantPatch == log' = Publish(log, ToWrite(Reading))

Write == Fresh(log, worker.read) /\ log' = Publish(log, ToWrite(Reading))

Writing == worker.step \in {"adopt", "release", "status"}
NothingToWrite == ToWrite(Reading) = Reading

StoreUpdate ==
    /\ Writing
    /\ IF NothingToWrite THEN UNCHANGED log ELSE Write
    /\ worker' = Idle
    /\ UNCHANGED <<segments, spare, ctrlAt, queued>>

UpdateFails ==
    /\ Writing
    /\ ~NothingToWrite
    /\ \/ ~Fresh(log, worker.read) /\ UNCHANGED <<log, spare>>
       \/ Disturb /\ UNCHANGED log
       \/ Disturb /\ Write                \* stored, but the answer is lost
    /\ GiveUp
    /\ UNCHANGED segments

Users == CreateGroup \/ EditGroup \/ DeleteGroup
Reconcile ==
    \/ StartReconcile
    \/ CreateContactGroup \/ FinalizeCall
    \/ StoreUpdate \/ UpdateFails

Next == Users \/ Observe \/ Reconcile \/ Resync \/ CallFails \/ RestartManager

Spec == Init /\ [][Next]_vars

(* The informer delivers, the worker takes what is queued and its calls    *)
(* return.                                                                 *)
FairSpec == Spec /\ WF_vars(Observe) /\ WF_vars(Reconcile)

TypeOK ==
    /\ log \in Seq(Version)
    /\ segments \in Seq(BOOLEAN)
    /\ spare \in Nat
    /\ ctrlAt \in Nat
    /\ queued \in BOOLEAN
    /\ worker \in WorkerStates

(***************************************************************************)
(* No segment is taken from under a group: while a Ready group is not      *)
(* being deleted, the segment on record is at Resend.  The finalizer       *)
(* deletes by an id it read earlier, possibly before a crash.              *)
(***************************************************************************)
ReadyGroupHasItsSegment ==
    Exists(Current) /\ ~Current.terminating /\ Current.readyAt # 0 =>
        AtResend(Current.providerID)

(***************************************************************************)
(* Once the object is gone, no segment that was ever on record is left at  *)
(* Resend, and the record never moved from one segment to another.         *)
(***************************************************************************)
RecordedSegmentsAreCleanedUp ==
    \A i, j \in DOMAIN log :
        log[i].providerID # 0 =>
            /\ log[j].providerID \in {0, log[i].providerID}
            /\ ~Exists(log[j]) /\ i < j => ~AtResend(log[i].providerID)

(***************************************************************************)
(* While a group is neither Ready nor gone, or is being deleted, a         *)
(* reconciliation is due or under way.                                     *)
(***************************************************************************)
NoGroupStranded ==
    Exists(Current) /\ (Current.terminating \/ Current.readyAt = 0) =>
        queued \/ worker # Idle \/ ctrlAt < Len(log)

(***************************************************************************)
(* What the three rest on.  PositionsOK: a reconciliation reads what was   *)
(* published, and a version observed after its start queues the group      *)
(* again.  VersionsOK: what a version may look like; deletion is the last. *)
(* RecordKept: what later versions keep.  InProgress: what a               *)
(* reconciliation has learnt is still true of the version it read.         *)
(***************************************************************************)
PositionsOK ==
    /\ ctrlAt <= Len(log)
    /\ worker # Idle =>
        worker.read \in DOMAIN log /\ (queued \/ worker.read = ctrlAt)

VersionsOK ==
    \A i \in DOMAIN log :
        /\ ~Exists(log[i]) => log[i] = Absent /\ i = Len(log)
        /\ log[i].providerID # 0 <=> log[i].readyAt # 0
        /\ log[i].providerID # 0 =>
             log[i].finalizer /\ log[i].providerID \in DOMAIN segments

RecordKept ==
    \A i, j \in DOMAIN log :
        i < j /\ Exists(log[j]) =>
            /\ log[i].terminating => log[j].terminating
            /\ log[i].providerID # 0 => log[j].providerID = log[i].providerID

InProgress ==
    worker # Idle =>
        /\ Exists(Reading)
        /\ worker.step \in {"evict", "check", "get", "delete", "release"} =>
             Reading.terminating /\ worker.id = Reading.providerID
        /\ worker.step \in {"adopt", "create", "status"} => ~Reading.terminating
        /\ worker.step = "adopt" => ~Reading.finalizer
        /\ worker.step \in {"create", "status"} => Reading.finalizer
        /\ worker.step = "create" => Reading.readyAt = 0
        /\ worker.step = "status" /\ Reading.readyAt = 0 => AtResend(worker.id)
        /\ worker.step = "release" => ~AtResend(worker.id)

IInv ==
    /\ TypeOK /\ PositionsOK /\ VersionsOK /\ RecordKept /\ InProgress
    /\ ReadyGroupHasItsSegment /\ RecordedSegmentsAreCleanedUp /\ NoGroupStranded

(***************************************************************************)
(* A group being deleted ends up gone, whatever fails in between.          *)
(***************************************************************************)
DeletionCompletes == Current.terminating ~> ~Exists(Current)

============================================================================
