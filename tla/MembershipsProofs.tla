-------------------------- MODULE MembershipsProofs --------------------------
(***************************************************************************)
(* What Memberships guarantees for every bound and every choice of what    *)
(* the users do, with or without the Loops provider.                       *)
(***************************************************************************)
EXTENDS Memberships, TLAPS

(***************************************************************************)
(* Logs.                                                                   *)
(***************************************************************************)
LEMMA LogFacts ==
    ASSUME NEW S, NEW absent \in S, NEW l \in Seq(S)
    PROVE  /\ Len(l) \in Nat /\ DOMAIN l = 1..Len(l)
           /\ CurrentOf(l, absent) \in S
           /\ l # << >> => Len(l) \in DOMAIN l /\ CurrentOf(l, absent) = l[Len(l)]
           /\ l = << >> => CurrentOf(l, absent) = absent /\ Len(l) = 0
           /\ \A i \in 0..Len(l) :
                /\ VersionAt(l, i, absent) \in S
                /\ i \in DOMAIN l => VersionAt(l, i, absent) = l[i]
                /\ i = 0 => VersionAt(l, i, absent) = absent
           /\ VersionAt(l, Len(l), absent) = CurrentOf(l, absent)
  BY DEF CurrentOf, VersionAt

(* A log after a write, whether or not the write changed anything.         *)
Grows(l, m, v) ==
    /\ m # << >> /\ Len(l) <= Len(m) /\ Len(m) \in Nat
    /\ (m = l /\ l[Len(l)] = v) \/ Len(m) = Len(l) + 1
    /\ \A i \in DOMAIN l : i \in DOMAIN m /\ m[i] = l[i]
    /\ \A i \in DOMAIN m : i \in DOMAIN l \/ (i = Len(m) /\ m[i] = v)

LEMMA PublishFacts ==
    ASSUME NEW S, NEW absent \in S, NEW l \in Seq(S), NEW v \in S
    PROVE  /\ Publish(l, v) \in Seq(S)
           /\ CurrentOf(Publish(l, v), absent) = v
           /\ Grows(l, Publish(l, v), v)
<1>1. CASE l # << >> /\ l[Len(l)] = v
  <2>1. Publish(l, v) = l /\ Len(l) # 0 /\ Len(l) \in Nat
    BY <1>1 DEF Publish
  <2>2. CurrentOf(l, absent) = v
    BY <1>1, <2>1 DEF CurrentOf, VersionAt
  <2> QED
    BY <1>1, <2>1, <2>2 DEF Grows
<1>2. CASE ~(l # << >> /\ l[Len(l)] = v)
  <2>1. Publish(l, v) = Append(l, v)
    BY <1>2 DEF Publish
  <2> DEFINE m == Append(l, v)
  <2>2. /\ m \in Seq(S) /\ m # << >> /\ Len(m) = Len(l) + 1 /\ Len(l) \in Nat
        /\ DOMAIN l = 1..Len(l) /\ DOMAIN m = 1..(Len(l) + 1)
        /\ m[Len(l) + 1] = v
        /\ \A i \in DOMAIN l : m[i] = l[i]
    OBVIOUS
  <2> HIDE DEF m
  <2>3. CurrentOf(m, absent) = v
    BY <2>2 DEF CurrentOf, VersionAt
  <2>4. Grows(l, m, v)
    BY <2>2 DEF Grows
  <2> QED
    BY <2>1, <2>2, <2>3, <2>4 DEF m
<1> QED
  BY <1>1, <1>2

LEMMA AbsentAreTyped ==
    /\ Absent \in Version /\ ~Exists(Absent)
    /\ Group!Absent \in Group!Version /\ ~Group!Exists(Group!Absent)
    /\ NoMembership \in Membership /\ ~NoMembership.exists
    /\ NoRemoval \in Removal /\ ~NoRemoval.exists /\ ~NoRemoval.ready
<1>1. NoConditions \in Conditions
  BY DEF NoConditions, Conditions
<1> QED
  BY <1>1 DEF Absent, Version, Exists, Group!Absent, Group!Version, Group!Exists,
              NoMembership, Membership, NoRemoval, Removal

(***************************************************************************)
(* Who writes the membership: users and Loops, a finalizer or a removal    *)
(* that deletes it, an update of the Contact, and its own controller.      *)
(***************************************************************************)
CgmWrites(v) ==
    \/ /\ cgmLog = << >> /\ removalLog = << >> /\ (UsersWait => InUse /\ GroupInUse)
       /\ v = [NoMembership EXCEPT !.exists = TRUE]
       /\ UNCHANGED <<log, groupLog, removalLog>>
    \/ /\ CurrentCgm.exists
       /\ v = IF CurrentCgm.finalizer THEN [CurrentCgm EXCEPT !.terminating = TRUE]
              ELSE NoMembership
    \/ CurrentCgm.exists /\ v = [CurrentCgm EXCEPT !.loopsReady = TRUE]
    \/ /\ CachedCgm.exists /\ Fresh(cgmLog, cgmAt)
       /\ v = [CachedCgm EXCEPT !.updated = "UpdateRequested"]
    \/ /\ CgmWriting /\ Fresh(cgmLog, cgmWorker.read)
       /\ v = CgmToWrite(CgmReading)

LEMMA EveryCgmWrite ==
    ASSUME History, [Next]_vars
    PROVE  UNCHANGED cgmLog \/ \E v : CgmWrites(v) /\ cgmLog' = Publish(cgmLog, v)
<1> DEFINE Goal == UNCHANGED cgmLog \/ \E v : CgmWrites(v) /\ cgmLog' = Publish(cgmLog, v)
<1>1. DeleteMembership => Goal
  BY DEF DeleteMembership, CgmWrites
<1>2. DeleteListed => Goal
  BY <1>1 DEF DeleteListed
<1>3. EvictListed \/ NobodyLeft \/ UNCHANGED objectVars => Goal
  BY <1>2 DEF EvictListed, NobodyLeft, objectVars
<1>4. RequestUpdate => Goal
  BY DEF RequestUpdate, CgmWrites
<1>5. CASE Users
  <2>1. CASE CreateMembership
    BY <2>1 DEF CreateMembership, CgmWrites, History, worldVars, groupVars
  <2>2. CASE LoopsReportsMembership
    BY <2>2 DEF LoopsReportsMembership, CgmWrites
  <2>3. CASE CreateRemoval \/ UsersEditContact \/ UserDeletesContact
               \/ UserDeletesGroup \/ UserDeletesMembership
    BY <1>1, <2>3 DEF CreateRemoval, UsersEditContact, UserDeletesContact,
                      UserDeletesGroup, UserDeletesMembership, objectVars
  <2> QED
    BY <1>5, <2>1, <2>2, <2>3 DEF Users
<1>6. CASE ReconcileContact
  <2>1. CASE ContactAlone
    BY <1>3, <2>1 DEF ContactAlone
  <2>2. CASE ContactCalls
    BY <1>3, <1>4, <2>2 DEF ContactCalls, AskRefused, WaitForMemberships
  <2>3. CASE ContactCallFails
    BY <1>3, <1>4, <2>3 DEF ContactCallFails
  <2> QED
    BY <1>6, <2>1, <2>2, <2>3 DEF ReconcileContact
<1>7. CASE ReconcileGroup
  BY <1>3, <1>7 DEF ReconcileGroup, GroupAlone, GroupWaits, GroupCallFails
<1>8. CASE ReconcileMembership
  <2>1. CASE StartMembership \/ AddMember \/ AddRefused \/ TakeMember \/ CgmCallFails
    BY <2>1 DEF StartMembership, AddMember, AddRefused, TakeMember, CgmCallFails, CgmProceed
  <2>2. CASE StoreMembership \/ StoreMembershipFails
    BY <2>2 DEF StoreMembership, StoreMembershipFails, CgmWrite, CgmWrites
  <2> QED
    BY <1>8, <2>1, <2>2 DEF ReconcileMembership
<1>9. CASE ReconcileRemoval
  BY <1>2, <1>9 DEF ReconcileRemoval, StartRemoval, DeleteMemberships,
                    DeleteMembershipsFails, RecordRemoval, RecordRemovalFails, objectVars
<1>10. CASE ObserveContact \/ ObserveGroup \/ ObserveMemberships \/ RestartAll
              \/ ResyncAll \/ UNCHANGED vars
  BY <1>10 DEF ObserveContact, ObserveGroup, ObserveMemberships, ObserveMembership,
               ObserveRemoval, RestartAll, ResyncAll, Stored, objectVars, vars
<1> QED
  BY <1>5, <1>6, <1>7, <1>8, <1>9, <1>10 DEF Next

(***************************************************************************)
(* Who writes the removal: its user, a finalizer that deletes it, and its  *)
(* own controller.                                                         *)
(***************************************************************************)
RemovalWrites(v) ==
    \/ /\ removalLog = << >> /\ CurrentCgm.exists /\ (UsersWait => cgmAt = Len(cgmLog))
       /\ v = [NoRemoval EXCEPT !.exists = TRUE] /\ UNCHANGED <<cgmLog, cgmAt>>
    \/ CachedRemoval.exists /\ CurrentRemoval.exists /\ v = NoRemoval
    \/ /\ removalWorker.step = "status" /\ Fresh(removalLog, removalWorker.read)
       /\ v = [exists |-> TRUE, ready |-> TRUE] /\ UNCHANGED cgmLog

LEMMA EveryRemovalWrite ==
    ASSUME [Next]_vars
    PROVE  \/ UNCHANGED removalLog
           \/ \E v : RemovalWrites(v) /\ removalLog' = Publish(removalLog, v)
<1> DEFINE Goal == \/ UNCHANGED removalLog
                   \/ \E v : RemovalWrites(v) /\ removalLog' = Publish(removalLog, v)
<1>1. DeleteListedRemovals => Goal
  BY DEF DeleteListedRemovals, RemovalWrites
<1>2. EvictListed \/ NobodyLeft \/ RequestUpdate \/ UNCHANGED objectVars => Goal
  BY <1>1 DEF EvictListed, NobodyLeft, RequestUpdate, objectVars
<1>3. CASE Users
  <2>1. CASE CreateRemoval
    <3>1. cgmAt' = cgmAt
      BY <1>3 DEF Users, cacheVars
    <3> QED
      BY <2>1, <3>1 DEF CreateRemoval, RemovalWrites, Settled
  <2>2. CASE Users /\ ~CreateRemoval
    BY <2>2 DEF Users, CreateMembership, LoopsReportsMembership, UsersEditContact,
                UserDeletesContact, UserDeletesGroup, UserDeletesMembership, objectVars
  <2> QED
    BY <1>3, <2>1, <2>2
<1>4. CASE ReconcileContact
  BY <1>2, <1>4 DEF ReconcileContact, ContactAlone, ContactCalls, AskRefused,
                    WaitForMemberships, ContactCallFails
<1>5. CASE ReconcileGroup
  BY <1>2, <1>5 DEF ReconcileGroup, GroupAlone, GroupWaits, GroupCallFails
<1>6. CASE ReconcileRemoval
  <2>1. CASE StartRemoval \/ DeleteMemberships \/ DeleteMembershipsFails
    BY <2>1 DEF StartRemoval, DeleteMemberships, DeleteMembershipsFails, objectVars
  <2>2. CASE RecordRemoval \/ RecordRemovalFails
    BY <2>2 DEF RecordRemoval, RecordRemovalFails, StoreReady, RemovalWrites
  <2> QED
    BY <1>6, <2>1, <2>2 DEF ReconcileRemoval
<1>7. CASE ReconcileMembership
  BY <1>7 DEF ReconcileMembership, cgmOthers
<1>8. CASE ObserveContact \/ ObserveGroup \/ ObserveMemberships \/ RestartAll
             \/ ResyncAll \/ UNCHANGED vars
  BY <1>8 DEF ObserveContact, ObserveGroup, ObserveMemberships, ObserveMembership,
              ObserveRemoval, RestartAll, ResyncAll, Stored, objectVars, vars
<1> QED
  BY <1>3, <1>4, <1>5, <1>6, <1>7, <1>8 DEF Next

(***************************************************************************)
(* Who writes the Contact, and the contacts at Resend.                     *)
(***************************************************************************)
ContactWrites(v) ==
    \/ /\ Exists(Current) /\ Current.generation < MaxGeneration
       /\ \E a \in Addresses : v = [Current EXCEPT !.generation = @ + 1, !.email = a]
    \/ /\ Exists(Current) /\ ~Current.terminating /\ Settled /\ UNCHANGED <<cgmLog, cgmAt>>
       /\ v = IF Current.finalizer
              THEN [Current EXCEPT !.generation = @ + 1, !.terminating = TRUE]
              ELSE Absent
    \/ /\ worker.step \in {"adopt", "release"} /\ Fresh(log, worker.read)
       /\ v = Finalized /\ UNCHANGED <<cgmLog, cgmAt>>
    \/ worker.step = "patch" /\ Exists(Current) /\ v = Patched(Current)

LEMMA EveryContactWrite ==
    ASSUME [Next]_vars
    PROVE  UNCHANGED log \/ \E v : ContactWrites(v) /\ log' = Publish(log, v)
<1> DEFINE Goal == UNCHANGED log \/ \E v : ContactWrites(v) /\ log' = Publish(log, v)
<1>1. CASE Users
  <2>1. CASE UsersEditContact
    BY <2>1 DEF UsersEditContact, EditContact, ContactWrites
  <2>2. CASE UserDeletesContact
    <3>1. UNCHANGED <<cgmLog, cgmAt>>
      BY <1>1, <2>2 DEF Users, UserDeletesContact, objectVars, cacheVars
    <3> QED
      BY <2>2, <3>1 DEF UserDeletesContact, DeleteContact, ContactWrites
  <2>3. CASE CreateMembership \/ CreateRemoval \/ UserDeletesGroup
               \/ UserDeletesMembership \/ LoopsReportsMembership
    BY <2>3 DEF CreateMembership, CreateRemoval, UserDeletesGroup,
                UserDeletesMembership, LoopsReportsMembership, worldVars
  <2> QED
    BY <1>1, <2>1, <2>2, <2>3 DEF Users
<1>2. CASE ReconcileContact
  <2>1. CASE StartReconcile \/ CreateAtResend \/ DeleteAtResend \/ ContactCalls
               \/ ContactCallFails
    BY <2>1 DEF StartReconcile, CreateAtResend, DeleteAtResend, Proceed, worldVars,
                ContactCalls, AskMemberships, AskRefused, EvictMemberships,
                CheckMemberships, WaitForMemberships, ContactCallFails, CallFails
  <2>2. CASE (UpdateFinalizer \/ UpdateFinalizerFails) /\ UNCHANGED objectVars
    <3>1. UNCHANGED <<cgmLog, cgmAt>>
      BY <1>2, <2>2 DEF ReconcileContact, objectVars, cacheVars
    <3> QED
      BY <2>2, <3>1 DEF UpdateFinalizer, UpdateFinalizerFails, StoreFinalized, ContactWrites
  <2>3. CASE PatchStatus \/ PatchFails
    BY <2>3 DEF PatchStatus, PatchFails, StorePatch, ContactWrites
  <2> QED
    BY <1>2, <2>1, <2>2, <2>3 DEF ReconcileContact, ContactAlone
<1>3. CASE ReconcileGroup
  BY <1>3 DEF ReconcileGroup
<1>4. CASE ReconcileMembership \/ ReconcileRemoval
  BY <1>4 DEF ReconcileMembership, cgmOthers, ReconcileRemoval, removalOthers
<1>5. CASE ObserveContact \/ ObserveGroup \/ ObserveMemberships \/ RestartAll
             \/ ResyncAll \/ UNCHANGED vars
  BY <1>5 DEF ObserveContact, Observe, ObserveGroup, ObserveMemberships, RestartAll,
              ResyncAll, Stored, worldVars, vars
<1> QED
  BY <1>1, <1>2, <1>3, <1>4, <1>5 DEF Next

LEMMA EveryCall ==
    ASSUME [Next]_vars
    PROVE  \/ UNCHANGED contacts
           \/ worker.step \in {"create", "recreate"} /\ StoreContact(Reading.email)
           \/ worker.step \in {"replace", "remove"} /\ RemoveContact(worker.id)
<1>1. CASE Users
  BY <1>1 DEF Users, CreateMembership, CreateRemoval, UserDeletesGroup, UserDeletesContact,
              UserDeletesMembership, LoopsReportsMembership, UsersEditContact,
              EditContact, DeleteContact, worldVars
<1>2. CASE ReconcileContact
  <2>1. CASE StartReconcile \/ ContactCalls \/ UpdateFinalizer \/ UpdateFinalizerFails
               \/ PatchStatus \/ PatchFails
    BY <2>1 DEF StartReconcile, worldVars, ContactCalls, AskMemberships, AskRefused,
                EvictMemberships, CheckMemberships, WaitForMemberships,
                UpdateFinalizer, UpdateFinalizerFails, PatchStatus, PatchFails
  <2>2. CASE CreateAtResend \/ DeleteAtResend
    BY <2>2 DEF CreateAtResend, DeleteAtResend, Proceed
  <2>3. CASE ContactCallFails
    BY <2>3 DEF ContactCallFails, CallFails
  <2> QED
    BY <1>2, <2>1, <2>2, <2>3 DEF ReconcileContact, ContactAlone
<1>3. CASE ReconcileGroup \/ ReconcileMembership \/ ReconcileRemoval
  BY <1>3 DEF ReconcileGroup, ReconcileMembership, cgmOthers, ReconcileRemoval,
              removalOthers
<1>4. CASE ObserveContact \/ ObserveGroup \/ ObserveMemberships \/ RestartAll
             \/ ResyncAll \/ UNCHANGED vars
  BY <1>4 DEF ObserveContact, Observe, ObserveGroup, ObserveMemberships, RestartAll,
              ResyncAll, Stored, worldVars, vars
<1> QED
  BY <1>1, <1>2, <1>3, <1>4 DEF Next

(***************************************************************************)
(* Who writes the group and its segment: the user who deletes it, and its  *)
(* controller.                                                             *)
(***************************************************************************)
GroupWrites(v) ==
    \/ /\ Group!Exists(Group!Current) /\ ~Group!Current.terminating
       /\ Settled /\ UNCHANGED <<cgmLog, cgmAt>>
       /\ v = IF Group!Current.finalizer
              THEN [Group!Current EXCEPT !.generation = @ + 1, !.terminating = TRUE]
              ELSE Group!Absent
    \/ /\ Group!Writing /\ Fresh(groupLog, groupWorker.read)
       /\ v = Group!ToWrite(Group!Reading) /\ UNCHANGED <<cgmLog, cgmAt>>

LEMMA EveryGroupWrite ==
    ASSUME [Next]_vars
    PROVE  UNCHANGED groupLog \/ \E v : GroupWrites(v) /\ groupLog' = Publish(groupLog, v)
<1> DEFINE Goal == UNCHANGED groupLog
                     \/ \E v : GroupWrites(v) /\ groupLog' = Publish(groupLog, v)
<1>1. CASE Users
  <2>1. CASE UserDeletesGroup
    <3>1. UNCHANGED <<cgmLog, cgmAt>>
      BY <1>1, <2>1 DEF Users, UserDeletesGroup, objectVars, cacheVars
    <3> QED
      BY <2>1, <3>1 DEF UserDeletesGroup, Group!DeleteGroup, GroupWrites,
                        Group!Publish, Publish
  <2>2. CASE CreateMembership \/ CreateRemoval \/ UsersEditContact \/ UserDeletesContact
               \/ UserDeletesMembership \/ LoopsReportsMembership
    BY <2>2 DEF CreateMembership, CreateRemoval, UsersEditContact, UserDeletesContact,
                UserDeletesMembership, LoopsReportsMembership, groupVars
  <2> QED
    BY <1>1, <2>1, <2>2 DEF Users
<1>2. CASE ReconcileGroup
  <2>1. CASE Group!StartReconcile \/ Group!GetContactGroup \/ Group!DeleteContactGroup
               \/ Group!EvictMemberships \/ Group!CheckMemberships \/ GroupWaits
               \/ GroupCallFails
    BY <2>1 DEF Group!StartReconcile, Group!GetContactGroup, Group!DeleteContactGroup,
                Group!EvictMemberships, Group!CheckMemberships, Group!Proceed,
                GroupWaits, GroupCallFails, Group!CallFails
  <2>2. CASE (Group!StoreUpdate \/ Group!UpdateFails) /\ UNCHANGED objectVars
    <3>1. UNCHANGED <<cgmLog, cgmAt>>
      BY <1>2, <2>2 DEF ReconcileGroup, objectVars, cacheVars
    <3> QED
      BY <2>2, <3>1 DEF Group!StoreUpdate, Group!UpdateFails, Group!Write, GroupWrites,
                        Group!Publish, Publish, Group!Fresh, Fresh
  <2> QED
    BY <1>2, <2>1, <2>2 DEF ReconcileGroup, GroupAlone
<1>3. CASE ReconcileContact
  BY <1>3 DEF ReconcileContact, groupVars
<1>4. CASE ReconcileMembership \/ ReconcileRemoval
  BY <1>4 DEF ReconcileMembership, cgmOthers, ReconcileRemoval, removalOthers, groupVars
<1>5. CASE ObserveContact \/ ObserveGroup \/ ObserveMemberships \/ RestartAll
             \/ ResyncAll \/ UNCHANGED vars
  BY <1>5 DEF ObserveContact, ObserveGroup, Group!Observe, ObserveMemberships, RestartAll,
              ResyncAll, Stored, groupVars, vars
<1> QED
  BY <1>1, <1>2, <1>3, <1>4, <1>5 DEF Next

LEMMA EverySegment ==
    ASSUME [Next]_vars
    PROVE  \/ UNCHANGED segments
           \/ groupWorker.step = "create" /\ Group!CreateSegment
           \/ groupWorker.step = "delete" /\ Group!RemoveSegment(groupWorker.id)
<1>1. CASE Users
  BY <1>1 DEF Users, CreateMembership, CreateRemoval, UserDeletesGroup, UserDeletesContact,
              UserDeletesMembership, LoopsReportsMembership, UsersEditContact,
              Group!DeleteGroup, groupVars
<1>2. CASE ReconcileGroup
  BY <1>2 DEF ReconcileGroup, GroupAlone, GroupWaits, GroupCallFails,
              Group!StartReconcile, Group!GetContactGroup, Group!DeleteContactGroup,
              Group!EvictMemberships, Group!CheckMemberships, Group!Proceed,
              Group!CallFails, Group!StoreUpdate, Group!UpdateFails
<1>3. CASE ReconcileContact \/ ReconcileMembership \/ ReconcileRemoval
  BY <1>3 DEF ReconcileContact, ReconcileMembership, cgmOthers, ReconcileRemoval,
              removalOthers, groupVars
<1>4. CASE ObserveContact \/ ObserveGroup \/ ObserveMemberships \/ RestartAll
             \/ ResyncAll \/ UNCHANGED vars
  BY <1>4 DEF ObserveContact, ObserveGroup, Group!Observe, ObserveMemberships, RestartAll,
              ResyncAll, Stored, groupVars, vars
<1> QED
  BY <1>1, <1>2, <1>3, <1>4 DEF Next

(***************************************************************************)
(* What is on record, in the caches and in the workers' hands.             *)
(***************************************************************************)
LEMMA ContactFacts ==
    ASSUME IInv
    PROVE  /\ Current \in Version /\ Len(log) \in DOMAIN log /\ Current = log[Len(log)]
           /\ Cached \in Version
           /\ Exists(Current) => Current.finalizer /\ Current.email \in Addresses
           /\ Exists(Cached) => Cached.email \in Addresses
           /\ ~Exists(Current) => Current = Absent
           /\ worker # Idle =>
                /\ Reading \in Version /\ Reading = log[worker.read] /\ Exists(Reading)
                /\ Reading.email \in Addresses /\ Reading.finalizer
                /\ worker.step \in Steps /\ worker.id \in Nat /\ worker.read \in Nat
                /\ Fresh(log, worker.read) => Reading = Current
<1>1. log \in Seq(Version) /\ log # << >> /\ ctrlAt \in Nat /\ ctrlAt <= Len(log)
  BY DEF IInv, TypeOK, PositionsOK, History
<1>2. Current \in Version /\ Len(log) \in DOMAIN log /\ Current = log[Len(log)]
  BY <1>1, AbsentAreTyped, LogFacts DEF Current
<1>3. Cached \in Version /\ (ctrlAt \in DOMAIN log => Cached = log[ctrlAt])
      /\ (ctrlAt = 0 => Cached = Absent) /\ (ctrlAt = 0 \/ ctrlAt \in DOMAIN log)
  BY <1>1, AbsentAreTyped DEF Cached, At, VersionAt
<1>4. \A i \in DOMAIN log : \/ Exists(log[i]) /\ log[i].finalizer /\ log[i].email \in Addresses
                            \/ log[i] = Absent
  BY DEF IInv, History
<1>5. ASSUME worker # Idle
      PROVE  /\ Reading \in Version /\ Reading = log[worker.read] /\ Exists(Reading)
             /\ worker.step \in Steps /\ worker.id \in Nat /\ worker.read \in Nat
             /\ worker.read \in DOMAIN log
             /\ Fresh(log, worker.read) => Reading = Current
  <2>1. worker.read \in DOMAIN log /\ Exists(Reading)
    BY <1>5 DEF IInv, PositionsOK, InProgress
  <2>2. worker.step \in Steps /\ worker.id \in Nat /\ worker.read \in Nat
    BY <1>5 DEF IInv, TypeOK, WorkerStates
  <2>3. Reading = log[worker.read] /\ Reading \in Version
    BY <1>1, <2>1 DEF Reading, At, VersionAt
  <2> QED
    BY <1>2, <2>1, <2>2, <2>3 DEF Fresh
<1> QED
  BY <1>2, <1>3, <1>4, <1>5, AbsentAreTyped

LEMMA GroupFacts ==
    ASSUME IInv
    PROVE  /\ groupLog \in Seq(Group!Version) /\ segments \in Seq(BOOLEAN)
           /\ Group!Current \in Group!Version /\ Len(groupLog) \in DOMAIN groupLog
           /\ Group!Current = groupLog[Len(groupLog)]
           /\ Group!Cached \in Group!Version
           /\ Group!Exists(Group!Current) =>
                Group!Current.finalizer /\ Group!Current.readyAt # 0
           /\ Group!Exists(Group!Cached) =>
                Group!Cached.finalizer /\ Group!Cached.readyAt # 0
           /\ ~Group!Exists(Group!Current) => Group!Current = Group!Absent
           /\ groupWorker # Idle =>
                /\ Group!Reading \in Group!Version /\ Group!Exists(Group!Reading)
                /\ Group!Reading.finalizer /\ Group!Reading.readyAt # 0
                /\ groupWorker.read \in Nat /\ groupWorker.id \in Nat
                /\ groupWorker.step \in {"status", "evict", "check", "get", "delete", "release"}
                /\ Fresh(groupLog, groupWorker.read) => Group!Reading = Group!Current
<1>1. /\ groupLog \in Seq(Group!Version) /\ groupLog # << >> /\ segments \in Seq(BOOLEAN)
      /\ groupAt \in Nat /\ groupAt <= Len(groupLog)
  BY DEF IInv, TypeOK, PositionsOK, History, Group!TypeOK
<1>2. /\ Group!Current \in Group!Version /\ Len(groupLog) \in DOMAIN groupLog
      /\ Group!Current = groupLog[Len(groupLog)]
  BY <1>1 DEF Group!Current, Group!CurrentOf, Group!VersionAt
<1>3. /\ Group!Cached \in Group!Version
      /\ groupAt \in DOMAIN groupLog => Group!Cached = groupLog[groupAt]
      /\ groupAt = 0 => Group!Cached = Group!Absent
      /\ groupAt = 0 \/ groupAt \in DOMAIN groupLog
  BY <1>1, AbsentAreTyped DEF Group!Cached, Group!At, Group!VersionAt
<1>4. \A i \in DOMAIN groupLog :
        \/ Group!Exists(groupLog[i]) /\ groupLog[i].finalizer /\ groupLog[i].readyAt # 0
        \/ groupLog[i] = Group!Absent
  BY DEF IInv, History
<1>5. ASSUME groupWorker # Idle
      PROVE  /\ Group!Reading \in Group!Version /\ Group!Exists(Group!Reading)
             /\ Group!Reading.finalizer /\ Group!Reading.readyAt # 0
             /\ groupWorker.read \in Nat /\ groupWorker.id \in Nat
             /\ groupWorker.step \in {"status", "evict", "check", "get", "delete", "release"}
             /\ Fresh(groupLog, groupWorker.read) => Group!Reading = Group!Current
  <2>1. /\ groupWorker.read \in DOMAIN groupLog /\ Group!Exists(Group!Reading)
        /\ groupWorker.step \notin {"adopt", "create"}
    BY <1>5 DEF IInv, PositionsOK, InProgress
  <2>2. /\ groupWorker.step \in {"adopt", "create", "status",
                                  "evict", "check", "get", "delete", "release"}
        /\ groupWorker.id \in Nat /\ groupWorker.read \in Nat
    BY <1>5 DEF IInv, TypeOK, Group!TypeOK, Group!WorkerStates, Idle, Group!Idle
  <2>3. Group!Reading = groupLog[groupWorker.read] /\ Group!Reading \in Group!Version
    BY <1>1, <2>1 DEF Group!Reading, Group!At, Group!VersionAt
  <2> QED
    BY <1>2, <1>4, <2>1, <2>2, <2>3, AbsentAreTyped DEF Fresh
<1> QED
  BY <1>1, <1>2, <1>3, <1>4, <1>5, AbsentAreTyped

LEMMA CgmFacts ==
    ASSUME IInv
    PROVE  /\ CurrentCgm \in Membership /\ CachedCgm \in Membership
           /\ cgmLog # << >> => Len(cgmLog) \in DOMAIN cgmLog /\ CurrentCgm = cgmLog[Len(cgmLog)]
           /\ cgmLog = << >> => CurrentCgm = NoMembership
           /\ ~CurrentCgm.exists => CurrentCgm = NoMembership
           /\ cgmAt = Len(cgmLog) => CachedCgm = CurrentCgm
           /\ ~CachedCgm.exists /\ (cgmLog # << >> => cgmAt > 0) => ~CurrentCgm.exists
           /\ cgmWorker # Idle =>
                /\ CgmReading \in Membership /\ CgmReading.exists
                /\ cgmWorker.step \in {"adopt", "add", "status", "take", "release"}
                /\ cgmWorker.read \in Nat /\ cgmWorker.contact \in Nat
                /\ Fresh(cgmLog, cgmWorker.read) => CgmReading = CurrentCgm
<1>1. cgmLog \in Seq(Membership) /\ cgmAt \in Nat /\ cgmAt <= Len(cgmLog)
  BY DEF IInv, TypeOK, PositionsOK
<1>2. /\ CurrentCgm \in Membership
      /\ cgmLog # << >> => Len(cgmLog) \in DOMAIN cgmLog /\ CurrentCgm = cgmLog[Len(cgmLog)]
      /\ cgmLog = << >> => CurrentCgm = NoMembership
  BY <1>1, AbsentAreTyped, LogFacts DEF CurrentCgm
<1>3. /\ CachedCgm \in Membership
      /\ cgmAt = 0 \/ (cgmAt \in DOMAIN cgmLog /\ CachedCgm = cgmLog[cgmAt])
      /\ cgmAt = Len(cgmLog) => CachedCgm = CurrentCgm
  BY <1>1, AbsentAreTyped DEF CachedCgm, CgmAt, VersionAt, CurrentCgm, CurrentOf
<1>4. \A i \in DOMAIN cgmLog :
        cgmLog[i].exists \/ (cgmLog[i] = NoMembership /\ i = Len(cgmLog))
  BY DEF IInv, History
<1>5. ASSUME cgmWorker # Idle
      PROVE  /\ CgmReading \in Membership /\ CgmReading.exists
             /\ cgmWorker.step \in {"adopt", "add", "status", "take", "release"}
             /\ cgmWorker.read \in Nat /\ cgmWorker.contact \in Nat
             /\ Fresh(cgmLog, cgmWorker.read) => CgmReading = CurrentCgm
  <2>1. cgmWorker.read \in DOMAIN cgmLog /\ CgmReading.exists
    BY <1>5 DEF IInv, PositionsOK, InProgress
  <2>2. /\ cgmWorker.step \in {"adopt", "add", "status", "take", "release"}
        /\ cgmWorker.read \in Nat /\ cgmWorker.contact \in Nat
    BY <1>5 DEF IInv, TypeOK, CgmWorkerStates
  <2>3. CgmReading = cgmLog[cgmWorker.read] /\ CgmReading \in Membership
    BY <1>1, <2>1 DEF CgmReading, CgmAt, VersionAt
  <2>4. cgmLog # << >>
    BY <1>1, <2>1
  <2> QED
    BY <1>2, <2>1, <2>2, <2>3, <2>4 DEF Fresh
<1>6. ~CachedCgm.exists /\ (cgmLog # << >> => cgmAt > 0) => ~CurrentCgm.exists
  BY <1>1, <1>2, <1>3, <1>4, AbsentAreTyped
<1> QED
  BY <1>2, <1>3, <1>4, <1>5, <1>6, AbsentAreTyped

LEMMA RemovalFacts ==
    ASSUME IInv
    PROVE  /\ CurrentRemoval \in Removal /\ CachedRemoval \in Removal
           /\ removalWorker # Idle =>
                /\ removalLog # << >> /\ removalWorker.read \in Nat
                /\ removalWorker.step \in {"delete", "status"}
<1>1. removalLog \in Seq(Removal) /\ removalAt \in Nat /\ removalAt <= Len(removalLog)
  BY DEF IInv, TypeOK, PositionsOK
<1>2. CurrentRemoval \in Removal /\ CachedRemoval \in Removal
  BY <1>1, AbsentAreTyped DEF CurrentRemoval, CurrentOf, CachedRemoval, RemovalAt, VersionAt
<1>3. removalWorker # Idle => removalLog # << >> /\ removalWorker.read \in Nat
  BY <1>1 DEF IInv, PositionsOK
<1>4. removalWorker # Idle => removalWorker.step \in {"delete", "status"}
  BY DEF IInv, TypeOK, RemovalWorkerStates
<1> QED
  BY <1>2, <1>3, <1>4

(***************************************************************************)
(* What is written: a version that keeps what the earlier ones promise,    *)
(* and never one after the object's end.                                   *)
(***************************************************************************)
ContactFollows(v) ==
    /\ v \in Version
    /\ Exists(Current)
    /\ \/ Exists(v) /\ v.finalizer /\ v.email \in Addresses
       \/ v = Absent /\ worker.step = "release" /\ UNCHANGED <<cgmLog, cgmAt>>
    /\ Exists(v) /\ Current.terminating => v.terminating
    /\ v.terminating /\ ~Current.terminating => Settled /\ UNCHANGED <<cgmLog, cgmAt>>

LEMMA NewConditionsType ==
    ASSUME IInv, worker # Idle
    PROVE  NewConditions \in Conditions
<1> DEFINE c == Reading.conditions
           g == Reading.generation
           p == Processed(Reading)
<1>1. c \in Conditions /\ g \in Nat
  BY ContactFacts DEF Version
<1>2. p \in Conditions
  <2>1. /\ [c EXCEPT !.resendReady = "ResendContactPending",
                     !.updated = "Created", !.updatedAt = g] \in Conditions
        /\ [c EXCEPT !.updated = "UpdatePending", !.updatedAt = g] \in Conditions
    <3> HIDE DEF c, g
    <3> QED
      BY <1>1 DEF Conditions
  <2> QED
    BY <1>1, <2>1 DEF Processed
<1> HIDE DEF p
<1>3. ASSUME NEW r \in {"True", "False"}
      PROVE  [p EXCEPT !.ready = r, !.readyAt = g] \in Conditions
  <2> HIDE DEF g
  <2> QED
    BY <1>1, <1>2 DEF Conditions
<1>4. NewConditions = [p EXCEPT
         !.ready = IF p.loopsReady /\ p.resendReady # "none" THEN "True" ELSE "False",
         !.readyAt = g]
  BY DEF NewConditions, VerifyContactReadyCondition, p
<1>5. (IF p.loopsReady /\ p.resendReady # "none" THEN "True" ELSE "False")
        \in {"True", "False"}
  OBVIOUS
<1> QED
  BY <1>3, <1>4, <1>5, Zenon

LEMMA WrittenContactFollows ==
    ASSUME IInv, NEW v, ContactWrites(v)
    PROVE  ContactFollows(v)
<1>1. CASE Exists(Current) /\ \E a \in Addresses :
               v = [Current EXCEPT !.generation = @ + 1, !.email = a]
  <2> DEFINE g == Current.generation + 1
  <2>1. PICK a \in Addresses : v = [Current EXCEPT !.generation = g, !.email = a]
    BY <1>1
  <2>2. Current \in Version /\ Current.finalizer /\ g \in Nat \ {0}
    BY <1>1, ContactFacts DEF Version
  <2> HIDE DEF g
  <2>3. /\ v \in Version /\ v.generation = g /\ v.email = a
        /\ v.finalizer /\ v.terminating = Current.terminating
    BY <2>1, <2>2 DEF Version
  <2>4. Exists(v)
    BY <2>2, <2>3 DEF Exists
  <2> QED
    BY <1>1, <2>2, <2>3, <2>4 DEF ContactFollows
<1>2. CASE /\ Exists(Current) /\ ~Current.terminating /\ Settled /\ UNCHANGED <<cgmLog, cgmAt>>
           /\ v = [Current EXCEPT !.generation = @ + 1, !.terminating = TRUE]
  <2> DEFINE g == Current.generation + 1
  <2>1. /\ Current \in Version /\ Current.finalizer /\ g \in Nat \ {0}
        /\ Current.email \in Addresses
        /\ v = [Current EXCEPT !.generation = g, !.terminating = TRUE]
    BY <1>2, ContactFacts DEF Version
  <2> HIDE DEF g
  <2>2. /\ v \in Version /\ v.generation = g
        /\ v.email = Current.email /\ v.finalizer /\ v.terminating
    BY <2>1 DEF Version
  <2>3. Exists(v)
    BY <2>1, <2>2 DEF Exists
  <2> QED
    BY <1>2, <2>1, <2>2, <2>3 DEF ContactFollows
<1>3. CASE /\ worker.step \in {"adopt", "release"} /\ Fresh(log, worker.read)
           /\ v = Finalized /\ UNCHANGED <<cgmLog, cgmAt>>
  <2>1. worker # Idle
    BY <1>3 DEF Idle
  <2>2. CASE worker.step = "release"
    BY <1>3, <2>1, <2>2, ContactFacts, AbsentAreTyped DEF ContactFollows, Finalized, Exists, Absent
  <2>3. CASE worker.step = "adopt"
    <3>1. v = [Reading EXCEPT !.finalizer = TRUE] /\ Reading = Current
      BY <1>3, <2>1, <2>3, ContactFacts DEF Finalized
    <3> QED
      BY <2>1, <3>1, ContactFacts DEF ContactFollows, Version, Exists
  <2> QED
    BY <1>3, <2>2, <2>3
<1>4. CASE worker.step = "patch" /\ Exists(Current) /\ v = Patched(Current)
  <2>1. worker # Idle
    BY <1>4 DEF Idle
  <2> DEFINE c == IF NewConditions = Reading.conditions THEN Current.conditions
                  ELSE NewConditions
             n == IF worker.id = Reading.providerID THEN Current.providerID
                  ELSE worker.id
  <2>2. Current \in Version /\ Current.finalizer /\ Current.email \in Addresses
    BY <1>4, ContactFacts
  <2>3. c \in Conditions /\ n \in Nat
    BY <2>1, <2>2, NewConditionsType, ContactFacts DEF Version
  <2>4. v = [Current EXCEPT !.conditions = c, !.providerID = n]
    BY <1>4 DEF Patched
  <2> HIDE DEF c, n
  <2>5. /\ v \in Version /\ v.generation = Current.generation /\ v.email = Current.email
        /\ v.finalizer = Current.finalizer /\ v.terminating = Current.terminating
    BY <2>2, <2>3, <2>4 DEF Version
  <2> QED
    BY <1>4, <2>2, <2>5 DEF ContactFollows, Exists
<1> QED
  BY <1>1, <1>2, <1>3, <1>4, ContactFacts DEF ContactWrites

GroupFollows(v) ==
    /\ v \in Group!Version
    /\ Group!Exists(Group!Current)
    /\ \/ Group!Exists(v) /\ v.finalizer /\ v.readyAt # 0
       \/ v = Group!Absent /\ groupWorker.step = "release" /\ UNCHANGED <<cgmLog, cgmAt>>
    /\ Group!Exists(v) /\ Group!Current.terminating => v.terminating
    /\ v.terminating /\ ~Group!Current.terminating => Settled /\ UNCHANGED <<cgmLog, cgmAt>>

LEMMA WrittenGroupFollows ==
    ASSUME IInv, NEW v, GroupWrites(v)
    PROVE  GroupFollows(v)
<1>1. CASE /\ Group!Exists(Group!Current) /\ ~Group!Current.terminating
           /\ Settled /\ UNCHANGED <<cgmLog, cgmAt>>
           /\ v = [Group!Current EXCEPT !.generation = @ + 1, !.terminating = TRUE]
  <2> DEFINE g == Group!Current.generation + 1
  <2>1. /\ Group!Current \in Group!Version /\ Group!Current.finalizer
        /\ g \in Nat \ {0} /\ Group!Current.readyAt # 0
        /\ v = [Group!Current EXCEPT !.generation = g, !.terminating = TRUE]
    BY <1>1, GroupFacts DEF Group!Version
  <2> HIDE DEF g
  <2>2. /\ v \in Group!Version /\ v.generation = g
        /\ v.finalizer /\ v.terminating /\ v.readyAt = Group!Current.readyAt
    BY <2>1 DEF Group!Version
  <2>3. Group!Exists(v)
    BY <2>1, <2>2 DEF Group!Exists
  <2> QED
    BY <1>1, <2>1, <2>2, <2>3 DEF GroupFollows
<1>2. CASE /\ Group!Writing /\ Fresh(groupLog, groupWorker.read)
           /\ v = Group!ToWrite(Group!Reading) /\ UNCHANGED <<cgmLog, cgmAt>>
  <2>1. groupWorker # Idle
    BY <1>2 DEF Idle, Group!Writing
  <2>2. CASE groupWorker.step = "release"
    BY <1>2, <2>1, <2>2, GroupFacts, AbsentAreTyped
    DEF GroupFollows, Group!ToWrite, Group!Exists, Group!Absent
  <2>3. CASE groupWorker.step = "status"
    <3>1. /\ Group!Reading = Group!Current
          /\ v = IF Group!Current.readyAt # Group!Current.generation
                 THEN [Group!Current EXCEPT !.updatedAt = Group!Current.generation]
                 ELSE Group!Current
      BY <1>2, <2>1, <2>3, GroupFacts DEF Group!ToWrite
    <3> QED
      BY <2>1, <3>1, GroupFacts DEF GroupFollows, Group!Version, Group!Exists
  <2> QED
    BY <1>2, <2>1, <2>2, <2>3, GroupFacts DEF Group!Writing
<1> QED
  BY <1>1, <1>2, GroupFacts DEF GroupWrites

CgmFollows(v) ==
    /\ v \in Membership
    /\ v.exists \/ v = NoMembership
    /\ \/ CurrentCgm.exists
       \/ /\ cgmLog = << >> /\ removalLog = << >> /\ (UsersWait => InUse /\ GroupInUse)
          /\ UNCHANGED <<log, groupLog, removalLog>>
    /\ CurrentCgm.terminating /\ v.exists => v.terminating
    /\ CurrentCgm.loopsReady /\ v.exists => v.loopsReady

LEMMA WrittenCgmFollows ==
    ASSUME IInv, NEW v, CgmWrites(v)
    PROVE  CgmFollows(v)
<1>1. CASE /\ cgmLog = << >> /\ removalLog = << >> /\ (UsersWait => InUse /\ GroupInUse)
           /\ v = [NoMembership EXCEPT !.exists = TRUE]
           /\ UNCHANGED <<log, groupLog, removalLog>>
  <2>1. v \in Membership /\ v.exists
    BY <1>1, AbsentAreTyped DEF Membership
  <2>2. ~CurrentCgm.terminating /\ ~CurrentCgm.loopsReady
    BY <1>1, CgmFacts DEF NoMembership
  <2> QED
    BY <1>1, <2>1, <2>2 DEF CgmFollows
<1>2. CASE /\ CurrentCgm.exists
           /\ v = IF CurrentCgm.finalizer THEN [CurrentCgm EXCEPT !.terminating = TRUE]
                  ELSE NoMembership
  BY <1>2, CgmFacts, AbsentAreTyped DEF CgmFollows, Membership
<1>3. CASE CurrentCgm.exists /\ v = [CurrentCgm EXCEPT !.loopsReady = TRUE]
  BY <1>3, CgmFacts DEF CgmFollows, Membership
<1>4. CASE /\ CachedCgm.exists /\ Fresh(cgmLog, cgmAt)
           /\ v = [CachedCgm EXCEPT !.updated = "UpdateRequested"]
  BY <1>4, CgmFacts DEF CgmFollows, Membership, Fresh
<1>5. CASE /\ CgmWriting /\ Fresh(cgmLog, cgmWorker.read)
           /\ v = CgmToWrite(CgmReading)
  <2>1. cgmWorker # Idle
    BY <1>5 DEF CgmWriting, Idle
  <2>2. CgmReading = CurrentCgm /\ CurrentCgm.exists /\ CurrentCgm \in Membership
    BY <1>5, <2>1, CgmFacts
  <2>3. v = NoMembership \/ v = [CurrentCgm EXCEPT !.finalizer = TRUE]
        \/ v = MembershipStatus(CurrentCgm)
    BY <1>5, <2>2 DEF CgmToWrite
  <2>4. CASE v = MembershipStatus(CurrentCgm)
    BY <2>2, <2>4 DEF MembershipStatus, VerifyMembershipReady, CgmFollows, Membership
  <2> QED
    BY <2>2, <2>3, <2>4, AbsentAreTyped DEF CgmFollows, Membership
<1> QED
  BY <1>1, <1>2, <1>3, <1>4, <1>5 DEF CgmWrites

(***************************************************************************)
(* What a step does to the Contact, the group, the membership and the      *)
(* removal: their logs grow by at most such a version.                     *)
(***************************************************************************)
LEMMA ContactKept ==
    ASSUME IInv, [Next]_vars
    PROVE  /\ log' \in Seq(Version) /\ log' # << >> /\ Len(log) <= Len(log')
           /\ \A i \in DOMAIN log : i \in DOMAIN log' /\ log'[i] = log[i]
           /\ (log' = log /\ Current' = Current) \/ ContactFollows(Current')
           /\ ~InUse => ~InUse'
           /\ \A i \in DOMAIN log' :
                /\ \/ Exists(log'[i]) /\ log'[i].finalizer /\ log'[i].email \in Addresses
                   \/ log'[i] = Absent /\ i = Len(log')
                /\ log'[i].terminating => ~InUse'
<1>1. log \in Seq(Version) /\ log # << >> /\ Len(log) \in DOMAIN log /\ Current = log[Len(log)]
  BY ContactFacts DEF IInv, TypeOK, History
<1>2. \A i \in DOMAIN log :
        /\ \/ Exists(log[i]) /\ log[i].finalizer /\ log[i].email \in Addresses
           \/ log[i] = Absent /\ i = Len(log)
        /\ log[i].terminating => ~InUse
  BY DEF IInv, History
<1>3. CASE UNCHANGED log
  <2>1. Current' = Current /\ InUse' = InUse
    BY <1>3 DEF InUse, Exists, Current, CurrentOf, VersionAt
  <2> QED
    BY <1>1, <1>2, <1>3, <2>1
<1>4. ASSUME NEW v, ContactWrites(v), log' = Publish(log, v)
      PROVE  /\ log' \in Seq(Version) /\ log' # << >> /\ Len(log) <= Len(log')
             /\ \A i \in DOMAIN log : i \in DOMAIN log' /\ log'[i] = log[i]
             /\ ContactFollows(Current')
             /\ ~InUse => ~InUse'
             /\ \A i \in DOMAIN log' :
                  /\ \/ Exists(log'[i]) /\ log'[i].finalizer /\ log'[i].email \in Addresses
                     \/ log'[i] = Absent /\ i = Len(log')
                  /\ log'[i].terminating => ~InUse'
  <2>1. ContactFollows(v)
    BY <1>4, WrittenContactFollows
  <2>2. v \in Version /\ Exists(Current)
    BY <2>1 DEF ContactFollows
  <2>3. log' \in Seq(Version) /\ Grows(log, log', v)
    BY <1>1, <1>4, <2>2, AbsentAreTyped, PublishFacts
  <2>4. Current' = v
    <3>1. CurrentOf(Publish(log, v), Absent) = v
      BY <1>1, <2>2, AbsentAreTyped, PublishFacts
    <3> QED
      BY <1>4, <3>1 DEF Current
  <2>5. InUse' <=> Exists(v) /\ ~v.terminating
    BY <2>4 DEF InUse, Exists
  <2>6. ~InUse => ~InUse'
    BY <2>1, <2>2, <2>5 DEF InUse, ContactFollows
  <2>7. \A i \in DOMAIN log : Exists(log[i])
    BY <1>1, <1>2, <2>2, AbsentAreTyped
  <2>8. ASSUME NEW i \in DOMAIN log'
        PROVE  /\ \/ Exists(log'[i]) /\ log'[i].finalizer /\ log'[i].email \in Addresses
                  \/ log'[i] = Absent /\ i = Len(log')
               /\ log'[i].terminating => ~InUse'
    <3>1. CASE i \in DOMAIN log
      BY <1>2, <2>3, <2>6, <2>7, <3>1, AbsentAreTyped DEF Grows
    <3>2. CASE i \notin DOMAIN log
      <4>1. log'[i] = v /\ i = Len(log')
        BY <2>3, <3>2 DEF Grows
      <4> QED
        BY <2>1, <2>5, <4>1 DEF ContactFollows
    <3> QED
      BY <3>1, <3>2
  <2> QED
    BY <2>1, <2>3, <2>4, <2>6, <2>8 DEF Grows
<1> QED
  BY <1>3, <1>4, EveryContactWrite

LEMMA GroupKept ==
    ASSUME IInv, [Next]_vars
    PROVE  /\ groupLog' \in Seq(Group!Version) /\ groupLog' # << >>
           /\ Len(groupLog) <= Len(groupLog')
           /\ \A i \in DOMAIN groupLog : i \in DOMAIN groupLog' /\ groupLog'[i] = groupLog[i]
           /\ \/ groupLog' = groupLog /\ Group!Current' = Group!Current
              \/ GroupFollows(Group!Current')
           /\ ~GroupInUse => ~GroupInUse'
           /\ \A i \in DOMAIN groupLog' :
                /\ \/ /\ Group!Exists(groupLog'[i]) /\ groupLog'[i].finalizer
                      /\ groupLog'[i].readyAt # 0
                   \/ groupLog'[i] = Group!Absent /\ i = Len(groupLog')
                /\ groupLog'[i].terminating => ~GroupInUse'
<1>1. /\ groupLog \in Seq(Group!Version) /\ groupLog # << >> /\ Len(groupLog) \in DOMAIN groupLog
      /\ Group!Current = groupLog[Len(groupLog)]
  BY GroupFacts DEF IInv, History
<1>2. \A i \in DOMAIN groupLog :
        /\ \/ Group!Exists(groupLog[i]) /\ groupLog[i].finalizer /\ groupLog[i].readyAt # 0
           \/ groupLog[i] = Group!Absent /\ i = Len(groupLog)
        /\ groupLog[i].terminating => ~GroupInUse
  BY DEF IInv, History
<1>3. CASE UNCHANGED groupLog
  <2>1. Group!Current' = Group!Current /\ GroupInUse' = GroupInUse
    BY <1>3 DEF GroupInUse, Group!Exists, Group!Current, Group!CurrentOf, Group!VersionAt
  <2> QED
    BY <1>1, <1>2, <1>3, <2>1
<1>4. ASSUME NEW v, GroupWrites(v), groupLog' = Publish(groupLog, v)
      PROVE  /\ groupLog' \in Seq(Group!Version) /\ groupLog' # << >>
             /\ Len(groupLog) <= Len(groupLog')
             /\ \A i \in DOMAIN groupLog : i \in DOMAIN groupLog' /\ groupLog'[i] = groupLog[i]
             /\ GroupFollows(Group!Current')
             /\ ~GroupInUse => ~GroupInUse'
             /\ \A i \in DOMAIN groupLog' :
                  /\ \/ /\ Group!Exists(groupLog'[i]) /\ groupLog'[i].finalizer
                        /\ groupLog'[i].readyAt # 0
                     \/ groupLog'[i] = Group!Absent /\ i = Len(groupLog')
                  /\ groupLog'[i].terminating => ~GroupInUse'
  <2>1. GroupFollows(v)
    BY <1>4, WrittenGroupFollows
  <2>2. v \in Group!Version /\ Group!Exists(Group!Current)
    BY <2>1 DEF GroupFollows
  <2>3. groupLog' \in Seq(Group!Version) /\ Grows(groupLog, groupLog', v)
    BY <1>1, <1>4, <2>2, AbsentAreTyped, PublishFacts
  <2>4. Group!Current' = v
    <3>1. CurrentOf(Publish(groupLog, v), Group!Absent) = v
      BY <1>1, <2>2, AbsentAreTyped, PublishFacts
    <3> QED
      BY <1>4, <3>1 DEF Group!Current, Group!CurrentOf, CurrentOf, Group!VersionAt, VersionAt
  <2>5. GroupInUse' <=> Group!Exists(v) /\ ~v.terminating
    BY <2>4 DEF GroupInUse, Group!Exists
  <2>6. ~GroupInUse => ~GroupInUse'
    BY <2>1, <2>2, <2>5 DEF GroupInUse, GroupFollows
  <2>7. \A i \in DOMAIN groupLog : Group!Exists(groupLog[i])
    BY <1>1, <1>2, <2>2, AbsentAreTyped
  <2>8. ASSUME NEW i \in DOMAIN groupLog'
        PROVE  /\ \/ /\ Group!Exists(groupLog'[i]) /\ groupLog'[i].finalizer
                     /\ groupLog'[i].readyAt # 0
                  \/ groupLog'[i] = Group!Absent /\ i = Len(groupLog')
               /\ groupLog'[i].terminating => ~GroupInUse'
    <3>1. CASE i \in DOMAIN groupLog
      BY <1>2, <2>3, <2>6, <2>7, <3>1, AbsentAreTyped DEF Grows
    <3>2. CASE i \notin DOMAIN groupLog
      <4>1. groupLog'[i] = v /\ i = Len(groupLog')
        BY <2>3, <3>2 DEF Grows
      <4> QED
        BY <2>1, <2>5, <4>1 DEF GroupFollows
    <3> QED
      BY <3>1, <3>2
  <2> QED
    BY <2>1, <2>3, <2>4, <2>6, <2>8 DEF Grows
<1> QED
  BY <1>3, <1>4, EveryGroupWrite

LEMMA CgmKept ==
    ASSUME IInv, [Next]_vars
    PROVE  /\ cgmLog' \in Seq(Membership) /\ Len(cgmLog) <= Len(cgmLog')
           /\ \A i \in DOMAIN cgmLog : i \in DOMAIN cgmLog' /\ cgmLog'[i] = cgmLog[i]
           /\ \/ cgmLog' = cgmLog /\ CurrentCgm' = CurrentCgm
              \/ Len(cgmLog') > Len(cgmLog) /\ cgmLog' # << >> /\ CgmFollows(CurrentCgm')
           /\ cgmLog # << >> => cgmLog' # << >>
           /\ \A i \in DOMAIN cgmLog' :
                cgmLog'[i].exists \/ (cgmLog'[i] = NoMembership /\ i = Len(cgmLog'))
<1>1. cgmLog \in Seq(Membership)
  BY DEF IInv, TypeOK
<1>2. \A i \in DOMAIN cgmLog :
        cgmLog[i].exists \/ (cgmLog[i] = NoMembership /\ i = Len(cgmLog))
  BY DEF IInv, History
<1>3. CASE UNCHANGED cgmLog
  <2>1. CurrentCgm' = CurrentCgm
    BY <1>3 DEF CurrentCgm, CurrentOf, VersionAt
  <2> QED
    BY <1>1, <1>2, <1>3, <2>1
<1>4. ASSUME NEW v, CgmWrites(v), cgmLog' = Publish(cgmLog, v)
      PROVE  /\ cgmLog' \in Seq(Membership) /\ Len(cgmLog) <= Len(cgmLog')
             /\ \A i \in DOMAIN cgmLog : i \in DOMAIN cgmLog' /\ cgmLog'[i] = cgmLog[i]
             /\ \/ cgmLog' = cgmLog /\ CurrentCgm' = CurrentCgm
                \/ Len(cgmLog') > Len(cgmLog) /\ CgmFollows(CurrentCgm')
             /\ cgmLog' # << >>
             /\ \A i \in DOMAIN cgmLog' :
                  cgmLog'[i].exists \/ (cgmLog'[i] = NoMembership /\ i = Len(cgmLog'))
  <2>1. CgmFollows(v)
    BY <1>4, WrittenCgmFollows
  <2>2. v \in Membership /\ (CurrentCgm.exists \/ cgmLog = << >>)
    BY <2>1 DEF CgmFollows
  <2>3. cgmLog' \in Seq(Membership) /\ Grows(cgmLog, cgmLog', v)
    BY <1>1, <1>4, <2>2, AbsentAreTyped, PublishFacts
  <2>4. CurrentCgm' = v
    <3>1. CurrentOf(Publish(cgmLog, v), NoMembership) = v
      BY <1>1, <2>2, AbsentAreTyped, PublishFacts
    <3> QED
      BY <1>4, <3>1 DEF CurrentCgm
  <2>5. \A i \in DOMAIN cgmLog : cgmLog[i].exists
    BY <1>1, <1>2, <2>2, CgmFacts, AbsentAreTyped
  <2>6. ASSUME NEW i \in DOMAIN cgmLog'
        PROVE  cgmLog'[i].exists \/ (cgmLog'[i] = NoMembership /\ i = Len(cgmLog'))
    <3>1. CASE i \in DOMAIN cgmLog
      BY <2>3, <2>5, <3>1 DEF Grows
    <3>2. CASE i \notin DOMAIN cgmLog
      <4>1. cgmLog'[i] = v /\ i = Len(cgmLog')
        BY <2>3, <3>2 DEF Grows
      <4> QED
        BY <2>1, <4>1 DEF CgmFollows
    <3> QED
      BY <3>1, <3>2
  <2>7. CASE cgmLog' = cgmLog
    BY <1>1, <1>2, <2>3, <2>7 DEF Grows, CurrentCgm
  <2>8. CASE Len(cgmLog') = Len(cgmLog) + 1
    BY <1>1, <2>1, <2>3, <2>4, <2>6, <2>8 DEF Grows
  <2> QED
    BY <2>3, <2>7, <2>8 DEF Grows
<1> QED
  BY <1>3, <1>4, EveryCgmWrite DEF IInv

LEMMA RemovalKept ==
    ASSUME IInv, [Next]_vars
    PROVE  /\ removalLog' \in Seq(Removal) /\ Len(removalLog) <= Len(removalLog')
           /\ \A i \in DOMAIN removalLog : i \in DOMAIN removalLog'
           /\ \/ removalLog' = removalLog /\ CurrentRemoval' = CurrentRemoval
              \/ RemovalWrites(CurrentRemoval')
           /\ removalLog' # << >> => cgmLog' # << >>
<1>1. removalLog \in Seq(Removal) /\ (removalLog # << >> => cgmLog # << >>)
  BY DEF IInv, TypeOK, History
<1>2. cgmLog # << >> => cgmLog' # << >>
  BY CgmKept
<1>3. CASE UNCHANGED removalLog
  <2>1. CurrentRemoval' = CurrentRemoval
    BY <1>3 DEF CurrentRemoval, CurrentOf, VersionAt
  <2> QED
    BY <1>1, <1>2, <1>3, <2>1
<1>4. ASSUME NEW v, RemovalWrites(v), removalLog' = Publish(removalLog, v)
      PROVE  /\ removalLog' \in Seq(Removal) /\ Len(removalLog) <= Len(removalLog')
             /\ \A i \in DOMAIN removalLog : i \in DOMAIN removalLog'
             /\ RemovalWrites(CurrentRemoval')
             /\ cgmLog' # << >>
  <2>1. v \in Removal
    <3>1. [NoRemoval EXCEPT !.exists = TRUE] \in Removal
      BY AbsentAreTyped DEF Removal
    <3>2. [exists |-> TRUE, ready |-> TRUE] \in Removal
      BY DEF Removal
    <3> QED
      BY <1>4, <3>1, <3>2, AbsentAreTyped, Zenon DEF RemovalWrites
  <2>2. removalLog' \in Seq(Removal) /\ Grows(removalLog, removalLog', v)
    BY <1>1, <1>4, <2>1, AbsentAreTyped, PublishFacts
  <2>3. CurrentRemoval' = v
    <3>1. CurrentOf(Publish(removalLog, v), NoRemoval) = v
      BY <1>1, <2>1, AbsentAreTyped, PublishFacts
    <3> QED
      BY <1>4, <3>1 DEF CurrentRemoval
  <2>4. cgmLog # << >>
    <3>1. CASE removalLog = << >> /\ CurrentCgm.exists
      BY <3>1, CgmFacts, AbsentAreTyped
    <3>2. CASE removalLog # << >>
      BY <1>1, <3>2
    <3>3. CASE CurrentRemoval.exists
      BY <1>1, <3>3, AbsentAreTyped, LogFacts DEF CurrentRemoval
    <3>4. CASE removalWorker.step = "status"
      BY <1>1, <3>4, RemovalFacts DEF Idle
    <3> QED
      BY <1>4, <3>1, <3>2, <3>3, <3>4 DEF RemovalWrites
  <2> QED
    BY <1>2, <1>4, <2>2, <2>3, <2>4 DEF Grows
<1> QED
  BY <1>3, <1>4, EveryRemovalWrite

(***************************************************************************)
(* What a step does to a cache, a work queue and a worker.                 *)
(***************************************************************************)
CachesFollow(at, to, len) == to = at \/ (at < len /\ to = at + 1) \/ to \in 0..len

ContactMoves ==
    \/ UNCHANGED worker
    \/ worker' = Idle
    \/ /\ Exists(Cached)
       /\ worker' = [step |-> FirstStep(Cached), read |-> ctrlAt, id |-> Cached.providerID]
    \/ \E to \in Steps, id \in {worker.id, ContactId(Reading.email)} :
         /\ worker' = [worker EXCEPT !.step = to, !.id = id]
         /\ worker.step \in {"create", "recreate", "ask", "replace"} =>
              to \in {"patch", "ask", "recreate"}
         /\ worker.step = "create" =>
              to = "patch" /\ id = ContactId(Reading.email) /\ StoreContact(Reading.email)
         /\ worker.step \in {"remove", "evict", "check"} => to \in {"evict", "check", "release"}
         /\ worker.step \in Steps \ {"adopt", "patch", "release"}
         /\ to = "release" => worker.step = "check" /\ ~CachedCgm.exists /\ UNCHANGED cgmLog

LEMMA EveryContactMove ==
    ASSUME TypeOK, [Next]_vars
    PROVE  /\ ContactMoves
           /\ CachesFollow(ctrlAt, ctrlAt', Len(log))
           /\ ~RelistLags => ctrlAt' \in {ctrlAt, ctrlAt + 1, Len(log)}
           /\ queued' \in BOOLEAN
<1>1. CASE Users \/ ReconcileGroup \/ ReconcileMembership \/ ReconcileRemoval \/ ObserveGroup
             \/ ObserveMemberships \/ UNCHANGED vars
  <2>1. UNCHANGED ctrlVars
    BY <1>1 DEF Users, CreateMembership, CreateRemoval, UserDeletesGroup, UserDeletesContact,
                UserDeletesMembership, LoopsReportsMembership, UsersEditContact,
                ReconcileGroup, ReconcileMembership, cgmOthers, ReconcileRemoval,
                removalOthers, ObserveGroup, ObserveMemberships, vars
  <2> QED
    BY <2>1 DEF TypeOK, ctrlVars, ContactMoves, CachesFollow
<1>2. CASE ReconcileContact
  <2>1. CASE StartReconcile
    BY <2>1 DEF StartReconcile, TypeOK, ContactMoves, CachesFollow
  <2>2. CASE CreateAtResend \/ DeleteAtResend
    BY <2>2 DEF CreateAtResend, DeleteAtResend, Proceed, TypeOK, ContactMoves,
                CachesFollow, Steps
  <2>3. CASE AskMemberships \/ EvictMemberships \/ (CheckMemberships /\ NobodyLeft)
    BY <2>3 DEF AskMemberships, EvictMemberships, CheckMemberships, NobodyLeft, Proceed,
                TypeOK, ContactMoves, CachesFollow, Steps
  <2>4. CASE AskRefused \/ WaitForMemberships \/ CallFails \/ UpdateFinalizerFails \/ PatchFails
    BY <2>4 DEF AskRefused, WaitForMemberships, CallFails, UpdateFinalizerFails,
                PatchFails, GiveUp, TypeOK, ContactMoves, CachesFollow
  <2>5. CASE UpdateFinalizer \/ PatchStatus
    BY <2>5 DEF UpdateFinalizer, PatchStatus, TypeOK, ContactMoves, CachesFollow
  <2> QED
    BY <1>2, <2>1, <2>2, <2>3, <2>4, <2>5
    DEF ReconcileContact, ContactAlone, ContactCalls, ContactCallFails
<1>3. CASE ObserveContact
  BY <1>3 DEF ObserveContact, Observe, TypeOK, ContactMoves, CachesFollow
<1>4. CASE RestartAll
  BY <1>4 DEF RestartAll, Restarted, Exists, ContactMoves, CachesFollow
<1>5. CASE ResyncAll
  BY <1>5 DEF ResyncAll, Exists, TypeOK, ContactMoves, CachesFollow
<1> QED
  BY <1>1, <1>2, <1>3, <1>4, <1>5 DEF Next

GroupMoves ==
    \/ UNCHANGED groupWorker
    \/ groupWorker' = Idle
    \/ /\ Group!Exists(Group!Cached)
       /\ groupWorker' = [step |-> Group!FirstStep(Group!Cached), read |-> groupAt,
                          id |-> Group!Cached.providerID]
    \/ \E to \in {"check", "get", "delete", "release"} :
         /\ groupWorker' = [groupWorker EXCEPT !.step = to, !.id = groupWorker.id]
         /\ groupWorker.step \in {"evict", "check", "get", "delete"}
         /\ to \in {"delete", "release"} => groupWorker.step \in {"get", "delete"}
         /\ to = "get" => groupWorker.step = "check" /\ ~CachedCgm.exists /\ UNCHANGED cgmLog

LEMMA EveryGroupMove ==
    ASSUME TypeOK, [Next]_vars
    PROVE  /\ GroupMoves
           /\ CachesFollow(groupAt, groupAt', Len(groupLog))
           /\ groupQueued' \in BOOLEAN
<1>1. CASE Users \/ ReconcileContact \/ ReconcileMembership \/ ReconcileRemoval
             \/ ObserveContact \/ ObserveMemberships \/ UNCHANGED vars
  <2>1. UNCHANGED <<groupAt, groupQueued, groupWorker>>
    BY <1>1 DEF Users, CreateMembership, CreateRemoval, UserDeletesGroup, Group!DeleteGroup,
                UserDeletesContact, UserDeletesMembership, LoopsReportsMembership,
                UsersEditContact, ReconcileContact, ReconcileMembership, cgmOthers,
                ReconcileRemoval, removalOthers, ObserveContact, ObserveMemberships,
                groupVars, vars
  <2> QED
    BY <2>1 DEF TypeOK, Group!TypeOK, GroupMoves, CachesFollow
<1>2. CASE ReconcileGroup
  <2>1. CASE Group!StartReconcile
    BY <2>1 DEF Group!StartReconcile, TypeOK, Group!TypeOK, GroupMoves, CachesFollow,
                Group!Idle, Idle
  <2>2. CASE Group!EvictMemberships \/ (Group!CheckMemberships /\ NobodyLeft)
    BY <2>2 DEF Group!EvictMemberships, Group!CheckMemberships, NobodyLeft, Group!Proceed,
                TypeOK, Group!TypeOK, GroupMoves, CachesFollow
  <2>3. CASE Group!GetContactGroup \/ Group!DeleteContactGroup
    BY <2>3 DEF Group!GetContactGroup, Group!DeleteContactGroup, Group!Proceed,
                TypeOK, Group!TypeOK, GroupMoves, CachesFollow
  <2>4. CASE GroupWaits \/ Group!CallFails \/ Group!UpdateFails
    BY <2>4 DEF GroupWaits, Group!CallFails, Group!UpdateFails, Group!GiveUp, TypeOK,
                Group!TypeOK, GroupMoves, CachesFollow, Group!Idle, Idle
  <2>5. CASE Group!StoreUpdate
    BY <2>5 DEF Group!StoreUpdate, TypeOK, Group!TypeOK, GroupMoves, CachesFollow,
                Group!Idle, Idle
  <2> QED
    BY <1>2, <2>1, <2>2, <2>3, <2>4, <2>5 DEF ReconcileGroup, GroupAlone, GroupCallFails
<1>3. CASE ObserveGroup
  BY <1>3 DEF ObserveGroup, Group!Observe, TypeOK, Group!TypeOK, GroupMoves, CachesFollow
<1>4. CASE RestartAll
  BY <1>4 DEF RestartAll, Group!Restarted, Group!Exists, Group!Idle, Idle, GroupMoves,
              CachesFollow
<1>5. CASE ResyncAll
  BY <1>5 DEF ResyncAll, Group!Exists, TypeOK, Group!TypeOK, GroupMoves, CachesFollow
<1> QED
  BY <1>1, <1>2, <1>3, <1>4, <1>5 DEF Next

LEMMA EveryDisturbance ==
    ASSUME TypeOK, [Next]_vars
    PROVE  spare' \in Nat
<1>1. spare \in Nat /\ (spare > 0 => spare - 1 \in Nat)
  BY DEF TypeOK, Group!TypeOK
<1>2. UNCHANGED spare \/ Disturb
  <2>1. CASE Users
    BY <2>1 DEF Users, CreateMembership, CreateRemoval, UserDeletesGroup, Group!DeleteGroup,
                UserDeletesContact, DeleteContact, UserDeletesMembership,
                LoopsReportsMembership, UsersEditContact, EditContact, worldVars
  <2>2. CASE ReconcileContact
    BY <2>2 DEF ReconcileContact, ContactAlone, StartReconcile, worldVars, CreateAtResend,
                DeleteAtResend, Proceed, ContactCalls, AskMemberships, AskRefused,
                EvictMemberships, CheckMemberships, WaitForMemberships, ContactCallFails,
                CallFails, UpdateFinalizer, UpdateFinalizerFails, PatchStatus, PatchFails
  <2>3. CASE ReconcileGroup
    BY <2>3 DEF ReconcileGroup, GroupAlone, GroupWaits, GroupCallFails,
                Group!StartReconcile, Group!GetContactGroup, Group!DeleteContactGroup,
                Group!EvictMemberships, Group!CheckMemberships, Group!Proceed,
                Group!CallFails, Group!StoreUpdate, Group!UpdateFails, Group!Disturb, Disturb
  <2>4. CASE ReconcileMembership
    BY <2>4 DEF ReconcileMembership, StartMembership, AddMember, AddRefused, TakeMember,
                CgmProceed, CgmCallFails, StoreMembership, StoreMembershipFails
  <2>5. CASE ReconcileRemoval
    BY <2>5 DEF ReconcileRemoval, StartRemoval, DeleteMemberships, DeleteMembershipsFails,
                RecordRemoval, RecordRemovalFails
  <2>6. CASE ObserveContact \/ ObserveGroup \/ ObserveMemberships \/ RestartAll
               \/ ResyncAll \/ UNCHANGED vars
    BY <2>6 DEF ObserveContact, Observe, ObserveGroup, Group!Observe, ObserveMemberships,
                RestartAll, ResyncAll, worldVars, vars
  <2> QED
    BY <2>1, <2>2, <2>3, <2>4, <2>5, <2>6 DEF Next
<1> QED
  BY <1>1, <1>2 DEF Disturb

(* The membership's queue is told apart too: a wake-up is never lost.      *)
CgmMoves ==
    \/ UNCHANGED <<cgmAt, cgmWorker>> /\ (cgmQueued => cgmQueued')
    \/ /\ cgmAt < Len(cgmLog) /\ cgmAt' = cgmAt + 1
       /\ cgmQueued' /\ UNCHANGED <<cgmLog, cgmWorker>>
    \/ /\ cgmAt' \in 0..Len(cgmLog) /\ (~RelistLags => cgmAt' = Len(cgmLog))
       /\ cgmQueued' = CachedCgm'.exists
       /\ cgmWorker' = Idle /\ UNCHANGED cgmLog
    \/ /\ cgmWorker = Idle
       /\ CachedCgm.exists /\ (CgmFirstStep(CachedCgm) # "adopt" => References)
       /\ cgmWorker' = [step |-> CgmFirstStep(CachedCgm), read |-> cgmAt,
                        contact |-> Cached.providerID]
       /\ UNCHANGED <<cgmAt, cgmLog, ctrlAt, log>>
    \/ ~CachedCgm.exists /\ cgmWorker' = Idle /\ UNCHANGED <<cgmAt, cgmLog>>
    \/ /\ \/ /\ cgmWorker.step = "add" /\ cgmWorker' = [cgmWorker EXCEPT !.step = "status"]
             /\ members' = members \cup {cgmWorker.contact}
          \/ /\ cgmWorker.step = "take" /\ cgmWorker' = [cgmWorker EXCEPT !.step = "release"]
             /\ members' = members \ {cgmWorker.contact}
       /\ UNCHANGED <<cgmAt, cgmLog, cgmQueued>>
    \/ cgmWorker' = Idle /\ cgmQueued' /\ UNCHANGED cgmAt
    \/ /\ CgmWriting
       /\ IF CgmNothingToWrite THEN UNCHANGED cgmLog ELSE CgmWrite
       /\ cgmWorker' = Idle /\ UNCHANGED <<cgmAt, cgmQueued>>

LEMMA EveryCgmMove ==
    ASSUME TypeOK, [Next]_vars
    PROVE  CgmMoves /\ cgmQueued' \in BOOLEAN
<1> USE DEF CgmMoves
<1>1. CASE \/ (Users \/ ReconcileRemoval) /\ UNCHANGED cgmVars
           \/ ReconcileContact \/ ReconcileGroup \/ ObserveGroup \/ UNCHANGED vars
  <2>1. UNCHANGED <<cgmAt, cgmWorker, cgmQueued>>
    BY <1>1 DEF Users, ReconcileContact, ReconcileGroup, ReconcileRemoval, removalOthers,
                ObserveGroup, cgmVars, cacheVars, vars
  <2> QED
    BY <2>1 DEF TypeOK
<1>2. CASE ObserveContact
  BY <1>2 DEF ObserveContact, ContactEvent, cacheVars, Exists, TypeOK
<1>3. CASE ReconcileMembership
  <2>1. UNCHANGED <<cgmAt, ctrlAt, log>>
    BY <1>3 DEF ReconcileMembership, cgmOthers, cacheVars, ctrlVars
  <2>2. CASE StartMembership
    BY <2>1, <2>2 DEF StartMembership
  <2>3. CASE AddMember \/ TakeMember
    BY <2>1, <2>3 DEF AddMember, TakeMember, CgmProceed, TypeOK
  <2>4. CASE AddRefused \/ CgmCallFails \/ StoreMembershipFails
    BY <2>1, <2>4 DEF AddRefused, CgmCallFails, StoreMembershipFails, CgmGiveUp
  <2>5. CASE StoreMembership
    BY <2>1, <2>5 DEF StoreMembership, TypeOK
  <2> QED
    BY <1>3, <2>2, <2>3, <2>4, <2>5 DEF ReconcileMembership
<1>4. CASE ObserveMemberships
  BY <1>4 DEF ObserveMemberships, ObserveMembership, ObserveRemoval, cgmVars, TypeOK
<1>5. CASE RestartAll
  <2>1. CachedCgm' \in Membership
    <3>1. cgmAt' \in 0..Len(cgmLog) /\ cgmLog' = cgmLog /\ cgmLog \in Seq(Membership)
      BY <1>5 DEF RestartAll, CgmRestarted, Stored, objectVars, TypeOK
    <3> QED
      BY <3>1, AbsentAreTyped DEF CachedCgm, CgmAt, VersionAt
  <2> QED
    BY <1>5, <2>1 DEF RestartAll, CgmRestarted, Stored, objectVars, Membership
<1>6. CASE ResyncAll
  <2>1. cgmQueued' \in BOOLEAN /\ (cgmQueued => cgmQueued')
    BY <1>6 DEF ResyncAll, TypeOK
  <2> QED
    BY <1>6, <2>1 DEF ResyncAll, cacheVars
<1> QED
  BY <1>1, <1>2, <1>3, <1>4, <1>5, <1>6 DEF Next

RemovalMoves ==
    \/ UNCHANGED removalWorker
    \/ removalWorker' = Idle
    \/ CachedRemoval.exists /\ removalWorker' = [step |-> "delete", read |-> removalAt]
    \/ /\ removalWorker.step = "delete" /\ DeleteListed
       /\ removalWorker' = [removalWorker EXCEPT !.step = "status"]

LEMMA EveryRemovalMove ==
    ASSUME TypeOK, [Next]_vars
    PROVE  /\ RemovalMoves
           /\ CachesFollow(removalAt, removalAt', Len(removalLog))
           /\ removalQueued' \in BOOLEAN
<1> USE DEF RemovalMoves, CachesFollow
<1>1. CASE \/ (Users \/ ReconcileMembership) /\ UNCHANGED removalVars
           \/ ReconcileContact \/ ReconcileGroup \/ ObserveContact \/ ObserveGroup
           \/ UNCHANGED vars
  <2>1. UNCHANGED <<removalAt, removalWorker, removalQueued>>
    BY <1>1 DEF Users, ReconcileContact, ReconcileGroup, ReconcileMembership, cgmOthers,
                ObserveContact, ObserveGroup, removalVars, cacheVars, vars
  <2> QED
    BY <2>1 DEF TypeOK
<1>2. CASE ReconcileRemoval
  <2>1. UNCHANGED removalAt
    BY <1>2 DEF ReconcileRemoval, removalOthers, cacheVars
  <2>2. CASE StartRemoval
    BY <2>1, <2>2 DEF StartRemoval
  <2>3. CASE DeleteMemberships
    BY <2>1, <2>3 DEF DeleteMemberships, TypeOK
  <2>4. CASE DeleteMembershipsFails \/ RecordRemovalFails
    BY <2>1, <2>4 DEF DeleteMembershipsFails, RecordRemovalFails, RemovalGiveUp
  <2>5. CASE RecordRemoval
    BY <2>1, <2>5 DEF RecordRemoval, TypeOK
  <2> QED
    BY <1>2, <2>2, <2>3, <2>4, <2>5 DEF ReconcileRemoval
<1>3. CASE ObserveMemberships
  BY <1>3 DEF ObserveMemberships, ObserveMembership, ObserveRemoval, removalVars, TypeOK
<1>4. CASE RestartAll
  <2>1. removalAt' \in 0..Len(removalLog) /\ removalLog' = removalLog
    BY <1>4 DEF RestartAll, RemovalRestarted, Stored, objectVars, TypeOK
  <2>2. CachedRemoval' \in Removal
    BY <2>1, AbsentAreTyped DEF TypeOK, CachedRemoval, RemovalAt, VersionAt
  <2> QED
    BY <1>4, <2>1, <2>2 DEF RestartAll, RemovalRestarted, Removal
<1>5. CASE ResyncAll
  <2>1. removalQueued' \in BOOLEAN
    BY <1>5 DEF ResyncAll, TypeOK
  <2> QED
    BY <1>5, <2>1 DEF ResyncAll, cacheVars
<1> QED
  BY <1>1, <1>2, <1>3, <1>4, <1>5 DEF Next

LEMMA EveryMember ==
    ASSUME [Next]_vars
    PROVE  \/ UNCHANGED members
           \/ /\ cgmWorker.step = "add" /\ CanAdd(cgmWorker.contact)
              /\ members' = members \cup {cgmWorker.contact}
              /\ UNCHANGED <<cgmAt, cgmLog, ctrlAt, log, contacts>>
           \/ /\ cgmWorker.step = "take" /\ members' = members \ {cgmWorker.contact}
              /\ UNCHANGED <<cgmAt, cgmLog, ctrlAt, log, contacts>>
<1>1. CASE ReconcileMembership
  <2>1. CASE StartMembership \/ AddRefused \/ StoreMembership \/ StoreMembershipFails
    BY <2>1 DEF StartMembership, AddRefused, StoreMembership, StoreMembershipFails
  <2>2. CASE AddMember \/ TakeMember \/ CgmCallFails
    BY <1>1, <2>2 DEF AddMember, TakeMember, CgmCallFails, CgmProceed, ReconcileMembership,
                      cgmOthers, ctrlVars, cacheVars
  <2> QED
    BY <1>1, <2>1, <2>2 DEF ReconcileMembership
<1>2. CASE Users \/ ReconcileContact \/ ReconcileGroup \/ ReconcileRemoval \/ ObserveContact
             \/ ObserveGroup \/ ObserveMemberships \/ RestartAll \/ ResyncAll \/ UNCHANGED vars
  <2>1. UNCHANGED members
    BY <1>2 DEF Users, ReconcileContact, ReconcileGroup, ReconcileRemoval, removalOthers,
                ObserveContact, ObserveGroup, ObserveMemberships, ObserveMembership,
                ObserveRemoval, RestartAll, ResyncAll, Stored, vars
  <2> QED
    BY <2>1
<1> QED
  BY <1>1, <1>2 DEF Next

(***************************************************************************)
(* What a worker holds after a step: it still reads a version in which the *)
(* object exists, and tears down only what is on its way out.              *)
(***************************************************************************)
LEMMA ContactWorkerKept ==
    ASSUME IInv, [Next]_vars
    PROVE  /\ worker' \in WorkerStates
           /\ worker' # Idle => worker'.read \in DOMAIN log /\ Exists(log[worker'.read])
           /\ worker'.step \in {"remove", "evict", "check", "release"} => ~InUse
           /\ worker'.step = "release" =>
                \/ worker.step = "release"
                \/ ~InUse /\ ~CachedCgm.exists /\ UNCHANGED cgmLog
<1>1. /\ worker \in WorkerStates
      /\ worker # Idle => worker.read \in DOMAIN log /\ Exists(log[worker.read])
      /\ worker.step \in {"remove", "evict", "check", "release"} => ~InUse
  BY ContactFacts DEF IInv, TypeOK, PositionsOK, InProgress
<1>2. CASE UNCHANGED worker
  BY <1>1, <1>2
<1>3. CASE worker' = Idle
  BY <1>3 DEF Idle, WorkerStates
<1>4. CASE /\ Exists(Cached)
           /\ worker' = [step |-> FirstStep(Cached), read |-> ctrlAt, id |-> Cached.providerID]
  <2>1. ctrlAt \in DOMAIN log /\ Cached = log[ctrlAt] /\ ctrlAt \in Nat
    <3>1. log \in Seq(Version) /\ ctrlAt \in Nat /\ ctrlAt <= Len(log)
      BY DEF IInv, TypeOK, PositionsOK
    <3> QED
      BY <1>4, <3>1, AbsentAreTyped DEF Cached, At, VersionAt
  <2>2. Cached.providerID \in Nat
    BY ContactFacts DEF Version
  <2>3. /\ FirstStep(Cached) \in Steps \ {"evict", "check", "release"}
        /\ FirstStep(Cached) = "remove" => Cached.terminating
    BY DEF FirstStep, Steps
  <2>4. Cached.terminating => ~InUse
    BY <2>1 DEF IInv, History
  <2>5. /\ worker'.step = FirstStep(Cached) /\ worker'.read = ctrlAt
        /\ worker' \in WorkerStates
    BY <1>4, <2>1, <2>2, <2>3 DEF WorkerStates
  <2> QED
    BY <1>4, <2>1, <2>3, <2>4, <2>5
<1>5. ASSUME NEW to \in Steps, NEW id \in {worker.id, ContactId(Reading.email)},
             worker' = [worker EXCEPT !.step = to, !.id = id],
             worker.step \in {"create", "recreate", "ask", "replace"} =>
               to \in {"patch", "ask", "recreate"},
             worker.step \in Steps \ {"adopt", "patch", "release"},
             to = "release" => worker.step = "check" /\ ~CachedCgm.exists /\ UNCHANGED cgmLog
      PROVE  /\ worker' \in WorkerStates
             /\ worker' # Idle => worker'.read \in DOMAIN log /\ Exists(log[worker'.read])
             /\ worker'.step \in {"remove", "evict", "check", "release"} => ~InUse
             /\ worker'.step = "release" => ~InUse /\ ~CachedCgm.exists /\ UNCHANGED cgmLog
  <2>1. worker # Idle
    BY <1>5 DEF Idle, Steps
  <2>2. id \in Nat
    <3>1. contacts \in Seq([email : Addresses, live : BOOLEAN])
      BY DEF IInv, TypeOK
    <3>2. ContactId(Reading.email) \in Nat
      BY <3>1 DEF ContactId, Live
    <3> QED
      BY <2>1, <3>2, ContactFacts
  <2>3. worker \in [step : Steps, read : Nat, id : Nat]
    BY <1>1, <2>1 DEF WorkerStates
  <2>4. worker' \in WorkerStates /\ worker'.step = to /\ worker'.read = worker.read
    BY <1>5, <2>2, <2>3 DEF WorkerStates
  <2>5. to \in {"remove", "evict", "check", "release"} =>
          worker.step \in {"remove", "evict", "check", "release"}
    BY <1>5 DEF Steps
  <2> QED
    BY <1>1, <1>5, <2>1, <2>4, <2>5
<1> QED
  BY <1>2, <1>3, <1>4, <1>5, EveryContactMove DEF IInv, ContactMoves

LEMMA GroupWorkerKept ==
    ASSUME IInv, [Next]_vars
    PROVE  /\ groupWorker' \in Group!WorkerStates
           /\ groupWorker' # Idle =>
                groupWorker'.read \in DOMAIN groupLog /\ Group!Exists(groupLog[groupWorker'.read])
           /\ groupWorker'.step \notin {"adopt", "create"}
           /\ groupWorker'.step \in {"evict", "check", "get", "delete", "release"} => ~GroupInUse
           /\ groupWorker'.step \in {"get", "delete", "release"} =>
                \/ groupWorker.step \in {"get", "delete", "release"}
                \/ ~GroupInUse /\ ~CachedCgm.exists /\ UNCHANGED cgmLog
<1> DEFINE GroupSteps == {"adopt", "create", "status", "evict", "check", "get", "delete", "release"}
<1>1. /\ groupWorker \in Group!WorkerStates
      /\ groupWorker # Idle =>
           groupWorker.read \in DOMAIN groupLog /\ Group!Exists(groupLog[groupWorker.read])
      /\ groupWorker.step \notin {"adopt", "create"}
      /\ groupWorker.step \in {"evict", "check", "get", "delete", "release"} => ~GroupInUse
  <2>1. groupWorker # Idle => groupWorker.read \in DOMAIN groupLog /\ Group!Exists(Group!Reading)
    BY DEF IInv, PositionsOK, InProgress
  <2>2. groupWorker.read \in DOMAIN groupLog => Group!Reading = groupLog[groupWorker.read]
    BY DEF IInv, TypeOK, Group!TypeOK, Group!Reading, Group!At, Group!VersionAt
  <2> QED
    BY <2>1, <2>2 DEF IInv, TypeOK, Group!TypeOK, InProgress
<1>2. CASE UNCHANGED groupWorker
  BY <1>1, <1>2
<1>3. CASE groupWorker' = Idle
  BY <1>3 DEF Idle, Group!Idle, Group!WorkerStates
<1>4. CASE /\ Group!Exists(Group!Cached)
           /\ groupWorker' = [step |-> Group!FirstStep(Group!Cached), read |-> groupAt,
                              id |-> Group!Cached.providerID]
  <2>1. groupAt \in DOMAIN groupLog /\ Group!Cached = groupLog[groupAt] /\ groupAt \in Nat
    <3>1. groupLog \in Seq(Group!Version) /\ groupAt \in Nat /\ groupAt <= Len(groupLog)
      BY DEF IInv, TypeOK, Group!TypeOK, PositionsOK
    <3> QED
      BY <1>4, <3>1, AbsentAreTyped DEF Group!Cached, Group!At, Group!VersionAt
  <2>2. Group!Cached.providerID \in Nat /\ Group!Cached.finalizer /\ Group!Cached.readyAt # 0
    BY <1>4, GroupFacts DEF Group!Version
  <2>3. /\ Group!FirstStep(Group!Cached) \in {"evict", "status"}
        /\ Group!FirstStep(Group!Cached) = "evict" => Group!Cached.terminating
    BY <2>2 DEF Group!FirstStep
  <2>4. Group!Cached.terminating => ~GroupInUse
    BY <2>1 DEF IInv, History
  <2>5. /\ groupWorker'.step = Group!FirstStep(Group!Cached) /\ groupWorker'.read = groupAt
        /\ groupWorker' \in Group!WorkerStates
    BY <1>4, <2>1, <2>2, <2>3 DEF Group!WorkerStates
  <2> QED
    BY <1>4, <2>1, <2>3, <2>4, <2>5
<1>5. ASSUME NEW to \in {"check", "get", "delete", "release"},
             groupWorker' = [groupWorker EXCEPT !.step = to, !.id = groupWorker.id],
             groupWorker.step \in {"evict", "check", "get", "delete"},
             to \in {"delete", "release"} => groupWorker.step \in {"get", "delete"},
             to = "get" => groupWorker.step = "check" /\ ~CachedCgm.exists /\ UNCHANGED cgmLog
      PROVE  /\ groupWorker' \in Group!WorkerStates
             /\ groupWorker' # Idle =>
                  groupWorker'.read \in DOMAIN groupLog /\ Group!Exists(groupLog[groupWorker'.read])
             /\ groupWorker'.step \notin {"adopt", "create"}
             /\ groupWorker'.step \in {"evict", "check", "get", "delete", "release"} => ~GroupInUse
             /\ groupWorker'.step \in {"get", "delete", "release"} =>
                  \/ groupWorker.step \in {"get", "delete", "release"}
                  \/ ~GroupInUse /\ ~CachedCgm.exists /\ UNCHANGED cgmLog
  <2>1. groupWorker # Idle
    BY <1>5 DEF Idle
  <2>2. groupWorker \in [step : GroupSteps, read : Nat, id : Nat]
    BY <1>1, <2>1 DEF Group!WorkerStates, Group!Idle, Idle
  <2>3. /\ groupWorker' \in Group!WorkerStates /\ groupWorker'.step = to
        /\ groupWorker'.read = groupWorker.read
    BY <1>5, <2>2 DEF Group!WorkerStates
  <2> QED
    BY <1>1, <1>5, <2>1, <2>3
<1> QED
  BY <1>2, <1>3, <1>4, <1>5, EveryGroupMove DEF IInv, GroupMoves

LEMMA CgmWorkerKept ==
    ASSUME IInv, [Next]_vars
    PROVE  /\ cgmAt' \in Nat /\ cgmAt' <= Len(cgmLog)
           /\ cgmAt > 0 /\ ~RelistLags => cgmAt' > 0
           /\ cgmWorker' \in CgmWorkerStates
           /\ cgmWorker' # Idle =>
                /\ cgmWorker'.read \in DOMAIN cgmLog /\ cgmLog[cgmWorker'.read].exists
                /\ ~cgmQueued' => cgmWorker'.read = cgmAt'
           /\ cgmWorker'.step \in {"adopt", "add", "status"} =>
                ~cgmLog[cgmWorker'.read].terminating
           /\ cgmWorker'.step = "adopt" => ~cgmLog[cgmWorker'.read].finalizer
<1>1. /\ cgmLog \in Seq(Membership) /\ cgmAt \in Nat /\ cgmAt <= Len(cgmLog)
      /\ cgmWorker \in CgmWorkerStates /\ Len(cgmLog) \in Nat
  BY DEF IInv, TypeOK, PositionsOK
<1>2. /\ cgmAt' \in Nat /\ cgmAt' <= Len(cgmLog)
      /\ cgmAt > 0 /\ ~RelistLags => cgmAt' > 0
  BY <1>1, EveryCgmMove DEF IInv, CgmMoves
<1>3. /\ cgmWorker # Idle =>
           /\ cgmWorker.read \in DOMAIN cgmLog /\ cgmLog[cgmWorker.read].exists
           /\ ~cgmQueued => cgmWorker.read = cgmAt
      /\ cgmWorker.step \in {"adopt", "add", "status"} => ~cgmLog[cgmWorker.read].terminating
      /\ cgmWorker.step = "adopt" => ~cgmLog[cgmWorker.read].finalizer
  <2>1. /\ cgmWorker # Idle => /\ cgmWorker.read \in DOMAIN cgmLog /\ CgmReading.exists
                               /\ ~cgmQueued => cgmWorker.read = cgmAt
        /\ cgmWorker.step \in {"adopt", "add", "status"} => ~CgmReading.terminating
        /\ cgmWorker.step = "adopt" => ~CgmReading.finalizer
    BY DEF IInv, PositionsOK, InProgress
  <2>2. cgmWorker # Idle => CgmReading = cgmLog[cgmWorker.read]
    BY <1>1, <2>1 DEF CgmReading, CgmAt, VersionAt
  <2>3. cgmWorker.step \in {"adopt", "add", "status"} => cgmWorker # Idle
    BY DEF Idle
  <2> QED
    BY <2>1, <2>2, <2>3
<1>4. CASE cgmWorker' = Idle
  BY <1>2, <1>4 DEF Idle, CgmWorkerStates
<1>5. CASE UNCHANGED cgmWorker /\ (UNCHANGED cgmAt \/ cgmQueued') /\ (cgmQueued => cgmQueued')
  BY <1>1, <1>2, <1>3, <1>5
<1>6. CASE /\ CachedCgm.exists /\ UNCHANGED cgmAt
           /\ cgmWorker' = [step |-> CgmFirstStep(CachedCgm), read |-> cgmAt,
                            contact |-> Cached.providerID]
  <2>1. cgmAt \in DOMAIN cgmLog /\ CachedCgm = cgmLog[cgmAt]
    BY <1>1, <1>6, AbsentAreTyped DEF CachedCgm, CgmAt, VersionAt
  <2>2. Cached.providerID \in Nat
    BY ContactFacts DEF Version
  <2>3. /\ CgmFirstStep(CachedCgm) \in {"take", "adopt", "add", "status"}
        /\ CgmFirstStep(CachedCgm) # "take" => ~CachedCgm.terminating
        /\ CgmFirstStep(CachedCgm) = "adopt" => ~CachedCgm.finalizer
    BY DEF CgmFirstStep
  <2>4. /\ cgmWorker'.step = CgmFirstStep(CachedCgm) /\ cgmWorker'.read = cgmAt
        /\ cgmWorker' \in CgmWorkerStates
    BY <1>1, <1>6, <2>2, <2>3 DEF CgmWorkerStates
  <2> QED
    BY <1>2, <1>6, <2>1, <2>3, <2>4
<1>7. ASSUME \/ cgmWorker.step = "add" /\ cgmWorker' = [cgmWorker EXCEPT !.step = "status"]
             \/ cgmWorker.step = "take" /\ cgmWorker' = [cgmWorker EXCEPT !.step = "release"],
             UNCHANGED <<cgmAt, cgmQueued>>
      PROVE  /\ cgmWorker' \in CgmWorkerStates
             /\ cgmWorker' # Idle =>
                  /\ cgmWorker'.read \in DOMAIN cgmLog /\ cgmLog[cgmWorker'.read].exists
                  /\ ~cgmQueued' => cgmWorker'.read = cgmAt'
             /\ cgmWorker'.step \in {"adopt", "add", "status"} =>
                  ~cgmLog[cgmWorker'.read].terminating
             /\ cgmWorker'.step = "adopt" => ~cgmLog[cgmWorker'.read].finalizer
  <2>1. cgmWorker # Idle
    BY <1>7 DEF Idle
  <2>2. cgmWorker \in [step : {"adopt", "add", "status", "take", "release"},
                       read : Nat, contact : Nat]
    BY <1>1, <2>1 DEF CgmWorkerStates
  <2>3. /\ cgmWorker' \in CgmWorkerStates /\ cgmWorker'.read = cgmWorker.read
        /\ \/ cgmWorker.step = "add" /\ cgmWorker'.step = "status"
           \/ cgmWorker'.step = "release"
    BY <1>7, <2>2 DEF CgmWorkerStates
  <2> QED
    BY <1>3, <1>7, <2>1, <2>3
<1> QED
  BY <1>2, <1>4, <1>5, <1>6, <1>7, EveryCgmMove DEF IInv, CgmMoves

LEMMA RemovalWorkerKept ==
    ASSUME IInv, [Next]_vars
    PROVE  /\ removalWorker' \in RemovalWorkerStates
           /\ removalWorker' # Idle => removalWorker'.read \in DOMAIN removalLog
           /\ removalWorker'.step = "status" =>
                \/ removalWorker.step = "status"
                \/ removalWorker.step = "delete" /\ DeleteListed
<1>1. /\ removalWorker \in RemovalWorkerStates /\ removalLog \in Seq(Removal)
      /\ removalWorker # Idle => removalWorker.read \in DOMAIN removalLog
      /\ removalAt \in Nat /\ removalAt <= Len(removalLog)
  BY DEF IInv, TypeOK, PositionsOK
<1>2. CASE UNCHANGED removalWorker
  BY <1>1, <1>2
<1>3. CASE removalWorker' = Idle
  BY <1>3 DEF Idle, RemovalWorkerStates
<1>4. CASE CachedRemoval.exists /\ removalWorker' = [step |-> "delete", read |-> removalAt]
  <2>1. removalAt \in DOMAIN removalLog
    BY <1>1, <1>4, AbsentAreTyped DEF CachedRemoval, RemovalAt, VersionAt
  <2> QED
    BY <1>1, <1>4, <2>1 DEF RemovalWorkerStates
<1>5. CASE /\ removalWorker.step = "delete" /\ DeleteListed
           /\ removalWorker' = [removalWorker EXCEPT !.step = "status"]
  <2>1. removalWorker # Idle
    BY <1>5 DEF Idle
  <2>2. removalWorker \in [step : {"delete", "status"}, read : Nat]
    BY <1>1, <2>1 DEF RemovalWorkerStates
  <2> QED
    BY <1>1, <1>5, <2>1, <2>2 DEF RemovalWorkerStates
<1> QED
  BY <1>2, <1>3, <1>4, <1>5, EveryRemovalMove DEF IInv, RemovalMoves

(***************************************************************************)
(* The steps of the invariant.                                             *)
(***************************************************************************)
Contact == [email : Addresses, live : BOOLEAN]

LEMMA StoreFacts ==
    ASSUME contacts \in Seq(Contact), NEW a \in Addresses, StoreContact(a)
    PROVE  contacts' \in Seq(Contact) /\ DOMAIN contacts \subseteq DOMAIN contacts'
<1> DEFINE c == [email |-> a, live |-> TRUE]
<1>1. c \in Contact
  BY DEF Contact
<1>2. contacts' = contacts \/ contacts' = Append(contacts, c)
  BY DEF StoreContact
<1> HIDE DEF c
<1>3. Len(contacts) \in Nat /\ DOMAIN contacts = 1..Len(contacts)
  OBVIOUS
<1>4. CASE contacts' = Append(contacts, c)
  <2>1. contacts' \in Seq(Contact) /\ DOMAIN contacts' = 1..(Len(contacts) + 1)
    BY <1>1, <1>4
  <2> QED
    BY <1>3, <2>1
<1> QED
  BY <1>2, <1>4

LEMMA RemoveFacts ==
    ASSUME contacts \in Seq(Contact), NEW n, RemoveContact(n)
    PROVE  contacts' \in Seq(Contact) /\ DOMAIN contacts \subseteq DOMAIN contacts'
<1>1. Len(contacts) \in Nat /\ DOMAIN contacts = 1..Len(contacts)
  OBVIOUS
<1> DEFINE F(m) == IF m = n THEN [contacts[m] EXCEPT !.live = FALSE] ELSE contacts[m]
<1>2. ASSUME NEW m \in DOMAIN contacts
      PROVE  F(m) \in Contact
  <2>1. contacts[m] \in Contact
    BY <1>1
  <2>2. [contacts[m] EXCEPT !.live = FALSE] \in Contact
    BY <2>1 DEF Contact
  <2> QED
    BY <2>1, <2>2
<1>3. contacts' = [m \in DOMAIN contacts |-> F(m)]
  BY DEF RemoveContact
<1> HIDE DEF F
<1>4. contacts' \in [1..Len(contacts) -> Contact] /\ DOMAIN contacts' = DOMAIN contacts
  BY <1>1, <1>2, <1>3, Zenon
<1> QED
  BY <1>1, <1>4

LEMMA ContactsStep ==
    ASSUME IInv, [Next]_vars
    PROVE  /\ contacts' \in Seq(Contact)
           /\ members' \subseteq DOMAIN contacts'
<1>1. contacts \in Seq(Contact) /\ members \subseteq DOMAIN contacts
  BY DEF IInv, TypeOK, Contact
<1>2. contacts' \in Seq(Contact) /\ DOMAIN contacts \subseteq DOMAIN contacts'
  <2>1. CASE UNCHANGED contacts
    BY <1>1, <2>1
  <2>2. CASE worker.step \in {"create", "recreate"} /\ StoreContact(Reading.email)
    <3>1. Reading.email \in Addresses
      BY <2>2, ContactFacts DEF Idle
    <3> QED
      BY <1>1, <2>2, <3>1, StoreFacts
  <2> QED
    BY <1>1, <2>1, <2>2, EveryCall, RemoveFacts
<1>3. members' \subseteq members \/ members' \subseteq DOMAIN contacts
  BY <1>1, EveryMember DEF CanAdd
<1> QED
  BY <1>1, <1>2, <1>3

LEMMA SegmentsStep ==
    ASSUME IInv, [Next]_vars
    PROVE  segments' \in Seq(BOOLEAN)
<1>1. segments \in Seq(BOOLEAN) /\ groupWorker.step # "create"
  BY DEF IInv, TypeOK, Group!TypeOK, InProgress
<1>2. CASE Group!RemoveSegment(groupWorker.id)
  <2>1. segments' = [n \in 1..Len(segments) |-> segments[n] /\ n # Group!SegmentToDelete(groupWorker.id)]
    BY <1>1, <1>2 DEF Group!RemoveSegment
  <2>2. \A n \in 1..Len(segments) :
          (segments[n] /\ n # Group!SegmentToDelete(groupWorker.id)) \in BOOLEAN
    OBVIOUS
  <2> QED
    BY <1>1, <2>1, <2>2
<1> QED
  BY <1>1, <1>2, EverySegment

LEMMA TypeStep ==
    ASSUME IInv, [Next]_vars
    PROVE  TypeOK'
<1>1. ctrlAt' \in Nat /\ groupAt' \in Nat /\ removalAt' \in Nat
  BY EveryContactMove, EveryGroupMove, EveryRemovalMove
  DEF CachesFollow, IInv, TypeOK, Group!TypeOK
<1>2. Group!TypeOK'
  BY <1>1, GroupKept, SegmentsStep, EveryDisturbance, EveryGroupMove, GroupWorkerKept
  DEF Group!TypeOK, IInv
<1> QED
  BY <1>1, <1>2, ContactKept, ContactsStep, EveryContactMove, ContactWorkerKept,
     CgmKept, CgmWorkerKept, EveryCgmMove, RemovalKept, EveryRemovalMove, RemovalWorkerKept
  DEF TypeOK, Contact, IInv

LEMMA PositionsStep ==
    ASSUME IInv, [Next]_vars
    PROVE  PositionsOK'
<1>1. /\ log \in Seq(Version) /\ groupLog \in Seq(Group!Version)
      /\ cgmLog \in Seq(Membership) /\ removalLog \in Seq(Removal)
      /\ log' \in Seq(Version) /\ groupLog' \in Seq(Group!Version)
      /\ cgmLog' \in Seq(Membership) /\ removalLog' \in Seq(Removal)
  BY TypeStep DEF IInv, TypeOK, Group!TypeOK
<1>2. /\ ctrlAt \in Nat /\ ctrlAt <= Len(log) /\ groupAt \in Nat /\ groupAt <= Len(groupLog)
      /\ removalAt \in Nat /\ removalAt <= Len(removalLog)
  BY DEF IInv, TypeOK, Group!TypeOK, PositionsOK
<1>3. /\ Len(log) <= Len(log') /\ Len(groupLog) <= Len(groupLog')
      /\ Len(cgmLog) <= Len(cgmLog') /\ Len(removalLog) <= Len(removalLog')
  BY ContactKept, GroupKept, CgmKept, RemovalKept
<1>4. ctrlAt' <= Len(log')
  BY <1>1, <1>2, <1>3, EveryContactMove DEF IInv, CachesFollow
<1>5. groupAt' <= Len(groupLog')
  BY <1>1, <1>2, <1>3, EveryGroupMove DEF IInv, CachesFollow
<1>6. removalAt' <= Len(removalLog')
  BY <1>1, <1>2, <1>3, EveryRemovalMove DEF IInv, CachesFollow
<1>7. cgmAt' <= Len(cgmLog')
  BY <1>1, <1>3, CgmWorkerKept
<1> QED
  BY <1>4, <1>5, <1>6, <1>7, ContactKept, GroupKept, CgmKept, RemovalKept,
     ContactWorkerKept, GroupWorkerKept, CgmWorkerKept, RemovalWorkerKept
  DEF PositionsOK

LEMMA HistoryStep ==
    ASSUME IInv, [Next]_vars
    PROVE  History'
  BY ContactKept, GroupKept, CgmKept, RemovalKept DEF History

LEMMA InProgressStep ==
    ASSUME IInv, [Next]_vars
    PROVE  InProgress'
<1>1. /\ log' \in Seq(Version) /\ groupLog' \in Seq(Group!Version) /\ cgmLog' \in Seq(Membership)
      /\ worker' # Idle => worker'.read \in DOMAIN log'
      /\ groupWorker' # Idle => groupWorker'.read \in DOMAIN groupLog'
      /\ cgmWorker' # Idle => cgmWorker'.read \in DOMAIN cgmLog'
  BY TypeStep, PositionsStep DEF TypeOK, Group!TypeOK, PositionsOK
<1>2. worker' # Idle => Reading' = log'[worker'.read]
  BY <1>1 DEF Reading, At, VersionAt
<1>3. groupWorker' # Idle => Group!Reading' = groupLog'[groupWorker'.read]
  BY <1>1 DEF Group!Reading, Group!At, Group!VersionAt
<1>4. cgmWorker' # Idle => CgmReading' = cgmLog'[cgmWorker'.read]
  BY <1>1 DEF CgmReading, CgmAt, VersionAt
<1>5. /\ worker' # Idle => Exists(Reading')
      /\ worker'.step \in {"remove", "evict", "check", "release"} => ~InUse'
  BY <1>2, ContactKept, ContactWorkerKept
<1>6. /\ groupWorker' # Idle => Group!Exists(Group!Reading')
      /\ groupWorker'.step \notin {"adopt", "create"}
      /\ groupWorker'.step \in {"evict", "check", "get", "delete", "release"} => ~GroupInUse'
  BY <1>3, GroupKept, GroupWorkerKept
<1>7. /\ cgmWorker' # Idle => CgmReading'.exists
      /\ cgmWorker'.step \in {"adopt", "add", "status"} => ~CgmReading'.terminating
      /\ cgmWorker'.step = "adopt" => ~CgmReading'.finalizer
  <2>1. cgmWorker'.step \in {"adopt", "add", "status"} => cgmWorker' # Idle
    BY DEF Idle
  <2> QED
    BY <1>4, <2>1, CgmKept, CgmWorkerKept
<1> QED
  BY <1>5, <1>6, <1>7 DEF InProgress, Exists, Group!Exists

(***************************************************************************)
(* A membership that is due is not forgotten: every give-up queues it      *)
(* again, and a reconciliation that ends well has left nothing to do in    *)
(* what it read, or the cache is behind what it wrote.                     *)
(***************************************************************************)
Due(v) == v.exists /\ (v.terminating \/ ~v.created \/ v.updated = "UpdateRequested")

LEMMA NothingLeftToDo ==
    ASSUME IInv, CgmWriting, CgmNothingToWrite
    PROVE  ~Due(CgmReading)
<1>1. cgmWorker # Idle
  BY DEF CgmWriting, Idle
<1>2. /\ CgmReading \in Membership /\ CgmReading.exists
      /\ CgmToWrite(CgmReading) = CgmReading
  BY <1>1, CgmFacts DEF CgmNothingToWrite
<1>3. CASE cgmWorker.step = "adopt"
  <2>1. ~CgmReading.finalizer /\ CgmReading = [CgmReading EXCEPT !.finalizer = TRUE]
    BY <1>2, <1>3 DEF CgmToWrite, IInv, InProgress
  <2> QED
    BY <1>2, <2>1 DEF Membership
<1>4. CASE cgmWorker.step = "release"
  BY <1>2, <1>4, AbsentAreTyped DEF CgmToWrite
<1>5. CASE cgmWorker.step = "status"
  <2>1. ~CgmReading.terminating /\ MembershipStatus(CgmReading) = CgmReading
    BY <1>2, <1>5 DEF CgmToWrite, IInv, InProgress
  <2>2. CgmReading.created
    BY <1>2, <2>1 DEF MembershipStatus, VerifyMembershipReady, Membership
  <2>3. CgmReading.updated # "UpdateRequested"
    BY <1>2, <2>1, <2>2 DEF MembershipStatus, VerifyMembershipReady, Membership
  <2> QED
    BY <2>1, <2>2, <2>3 DEF Due
<1> QED
  BY <1>3, <1>4, <1>5 DEF CgmWriting

LEMMA StrandedStep ==
    ASSUME IInv, [Next]_vars
    PROVE  NoMembershipStranded'
<1> DEFINE Goal == cgmQueued' \/ cgmWorker' # Idle \/ cgmAt' < Len(cgmLog')
<1> SUFFICES ASSUME Due(CurrentCgm')
             PROVE  Goal
  BY DEF NoMembershipStranded, Due
<1>1. /\ cgmLog \in Seq(Membership) /\ cgmLog' \in Seq(Membership)
      /\ cgmAt \in Nat /\ cgmAt <= Len(cgmLog) /\ cgmAt' \in Nat /\ cgmAt' <= Len(cgmLog)
      /\ Len(cgmLog) \in Nat /\ Len(cgmLog') \in Nat
  BY CgmKept, CgmWorkerKept DEF IInv, TypeOK, PositionsOK
<1>2. CASE Len(cgmLog') > Len(cgmLog)
  BY <1>1, <1>2
<1>3. CASE cgmLog' = cgmLog /\ CurrentCgm' = CurrentCgm
  <2>1. Due(CurrentCgm)
    BY <1>3 DEF Due
  <2>2. cgmAt = Len(cgmLog) => CachedCgm = CurrentCgm
    BY CgmFacts
  <2>3. CASE UNCHANGED <<cgmAt, cgmWorker>> /\ (cgmQueued => cgmQueued')
    BY <1>3, <2>1, <2>3 DEF IInv, NoMembershipStranded, Due
  <2>4. CASE /\ cgmAt' \in 0..Len(cgmLog)
             /\ cgmQueued' = CachedCgm'.exists
    <3>1. cgmAt' = Len(cgmLog) => CachedCgm' = CurrentCgm'
      BY <1>1, <1>3 DEF CachedCgm, CgmAt, VersionAt, CurrentCgm, CurrentOf
    <3> QED
      BY <1>1, <1>3, <2>4, <3>1 DEF Due
  <2>5. CASE cgmWorker' = [step |-> CgmFirstStep(CachedCgm), read |-> cgmAt,
                           contact |-> Cached.providerID]
    BY <2>5 DEF Idle, CgmFirstStep
  <2>6. CASE ~CachedCgm.exists /\ UNCHANGED cgmAt
    BY <1>1, <1>3, <2>1, <2>2, <2>6 DEF Due
  <2>7. CASE \/ cgmWorker.step = "add" /\ cgmWorker' = [cgmWorker EXCEPT !.step = "status"]
             \/ cgmWorker.step = "take" /\ cgmWorker' = [cgmWorker EXCEPT !.step = "release"]
    <3>1. cgmWorker # Idle
      BY <2>7 DEF Idle
    <3>2. cgmWorker \in [step : {"adopt", "add", "status", "take", "release"},
                         read : Nat, contact : Nat]
      BY <3>1 DEF IInv, TypeOK, CgmWorkerStates
    <3>3. cgmWorker'.step \in {"status", "release"}
      BY <2>7, <3>2
    <3> QED
      BY <3>3 DEF Idle
  <2>8. CASE /\ CgmWriting
             /\ IF CgmNothingToWrite THEN UNCHANGED cgmLog ELSE CgmWrite
             /\ cgmWorker' = Idle /\ UNCHANGED <<cgmAt, cgmQueued>>
    <3>1. cgmWorker # Idle
      BY <2>8 DEF CgmWriting, Idle
    <3>2. CASE CgmNothingToWrite
      <4>1. ~Due(CgmReading)
        BY <2>8, <3>2, NothingLeftToDo
      <4>2. ~cgmQueued /\ cgmAt = Len(cgmLog) => Fresh(cgmLog, cgmWorker.read)
        BY <3>1 DEF IInv, PositionsOK, Fresh
      <4>3. Fresh(cgmLog, cgmWorker.read) => CgmReading = CurrentCgm
        BY <3>1, CgmFacts
      <4> QED
        BY <1>1, <1>3, <2>1, <2>8, <4>1, <4>2, <4>3
    <3>3. CASE ~CgmNothingToWrite
      <4>1. /\ CgmReading = CurrentCgm /\ CgmToWrite(CgmReading) # CgmReading
            /\ cgmLog' = Publish(cgmLog, CgmToWrite(CgmReading))
        BY <2>8, <3>1, <3>3, CgmFacts DEF CgmWrite, CgmNothingToWrite
      <4>2. cgmLog # << >> => cgmLog[Len(cgmLog)] = CurrentCgm
        BY CgmFacts
      <4>3. cgmLog' = Append(cgmLog, CgmToWrite(CgmReading))
        BY <4>1, <4>2 DEF Publish
      <4> QED
        BY <1>1, <1>3, <4>3
    <3> QED
      BY <3>2, <3>3
  <2> QED
    BY <2>3, <2>4, <2>5, <2>6, <2>7, <2>8, EveryCgmMove DEF IInv, CgmMoves
<1> QED
  BY <1>2, <1>3, CgmKept

(***************************************************************************)
(* Nobody counts on the absence of a membership that is yet to come: once  *)
(* a membership was published, the manager has noticed it before anything  *)
(* it depends on may go; before that, nothing is deleted, and none is made *)
(* for what is being deleted.                                              *)
(***************************************************************************)
LEMMA Noticed ==
    ASSUME IInv, UsersWait, ~RelistLags, ~CachedCgm.exists,
           ~InUse \/ ~GroupInUse \/ removalLog # << >>
    PROVE  ~CurrentCgm.exists
  BY CgmFacts DEF IInv, Cleared

(* A membership that is gone does not come back, and one that is leaving   *)
(* does not stay.                                                          *)
LEMMA GoneForGood ==
    ASSUME IInv, [Next]_vars, UsersWait
    PROVE  /\ ~CurrentCgm.exists /\ (~InUse \/ ~GroupInUse \/ removalLog # << >>) =>
                ~CurrentCgm'.exists
           /\ removalLog # << >> /\ CurrentCgm.terminating =>
                ~CurrentCgm'.exists \/ CurrentCgm'.terminating
<1>1. CASE CurrentCgm' = CurrentCgm
  BY <1>1
<1>2. CASE CgmFollows(CurrentCgm')
  BY <1>2 DEF CgmFollows
<1> QED
  BY <1>1, <1>2, CgmKept

LEMMA NoticedStep ==
    ASSUME IInv, [Next]_vars, UsersWait, ~RelistLags
    PROVE  cgmLog' # << >> /\ (~InUse' \/ ~GroupInUse' \/ removalLog' # << >>) => cgmAt' > 0
<1> SUFFICES ASSUME cgmLog' # << >>, ~InUse' \/ ~GroupInUse' \/ removalLog' # << >>
             PROVE  cgmAt' > 0
  OBVIOUS
<1>1. cgmLog \in Seq(Membership) /\ cgmAt \in Nat /\ cgmAt <= Len(cgmLog)
  BY DEF IInv, TypeOK, PositionsOK
<1>2. CASE cgmLog = << >>
  <2>1. cgmLog' # cgmLog /\ ~CurrentCgm.exists
    BY <1>2, CgmFacts, AbsentAreTyped
  <2>2. InUse /\ GroupInUse /\ removalLog = << >> /\ UNCHANGED <<log, groupLog, removalLog>>
    BY <2>1, CgmKept DEF CgmFollows
  <2>3. InUse' = InUse /\ GroupInUse' = GroupInUse
    BY <2>2 DEF InUse, Exists, Current, CurrentOf, VersionAt, GroupInUse, Group!Exists,
                Group!Current, Group!CurrentOf, Group!VersionAt
  <2> QED
    BY <2>2, <2>3
<1>3. CASE cgmLog # << >> /\ cgmAt > 0
  BY <1>3, CgmWorkerKept
<1>4. CASE cgmLog # << >> /\ cgmAt = 0
  <2>1. InUse /\ GroupInUse /\ removalLog = << >>
    BY <1>4 DEF IInv, Cleared
  <2>2. Len(cgmLog) # 0
    BY <1>1, <1>4
  <2>3. ~Settled /\ cgmAt # Len(cgmLog)
    BY <1>4, <2>2 DEF Settled
  <2>4. worker.step # "release" /\ groupWorker.step # "release"
    BY <2>1 DEF IInv, InProgress
  <2>5. InUse'
    BY <2>1, <2>3, <2>4, ContactKept DEF InUse, ContactFollows, Exists
  <2>6. GroupInUse'
    BY <2>1, <2>3, <2>4, GroupKept DEF GroupInUse, GroupFollows, Group!Exists
  <2>7. removalLog' = << >>
    <3>1. removalWorker = Idle
      BY <2>1, RemovalFacts
    <3>2. CurrentRemoval = NoRemoval
      BY <2>1 DEF CurrentRemoval, CurrentOf, VersionAt
    <3> QED
      BY <2>1, <2>3, <3>1, <3>2, RemovalKept, AbsentAreTyped DEF RemovalWrites, Idle
  <2> QED
    BY <2>5, <2>6, <2>7
<1> QED
  BY <1>1, <1>2, <1>3, <1>4

(* A listed membership that is deleted is on its way out.                  *)
LEMMA DeletedIsLeaving ==
    ASSUME IInv, DeleteListed, CurrentCgm.exists, CachedCgm.exists
    PROVE  ~CurrentCgm'.exists \/ CurrentCgm'.terminating
<1> DEFINE v == IF CurrentCgm.finalizer THEN [CurrentCgm EXCEPT !.terminating = TRUE]
                ELSE NoMembership
<1>1. cgmLog' = Publish(cgmLog, v)
  BY DEF DeleteListed, DeleteMembership
<1>2. v \in Membership /\ (~v.exists \/ v.terminating)
  BY CgmFacts, AbsentAreTyped DEF Membership
<1> HIDE DEF v
<1>3. CurrentOf(Publish(cgmLog, v), NoMembership) = v
  BY <1>2, AbsentAreTyped, PublishFacts DEF IInv, TypeOK
<1>4. CurrentCgm' = v
  BY <1>1, <1>3 DEF CurrentCgm
<1> QED
  BY <1>2, <1>4

LEMMA ClearedStep ==
    ASSUME IInv, [Next]_vars, UsersWait, ~RelistLags
    PROVE  Cleared'
<1>1. Cleared
  BY DEF IInv
<1>2. worker'.step = "release" \/ ~Exists(Current') => ~CurrentCgm'.exists
  <2>1. CASE worker'.step = "release"
    <3>1. ~InUse /\ ~CurrentCgm.exists
      BY <1>1, <2>1, ContactWorkerKept, Noticed DEF Cleared
    <3> QED
      BY <3>1, GoneForGood
  <2>2. CASE ~Exists(Current')
    <3>1. CASE ~Exists(Current)
      BY <1>1, <3>1, GoneForGood DEF Cleared, InUse
    <3>2. CASE Exists(Current)
      <4>1. worker.step = "release"
        BY <2>2, <3>2, ContactKept DEF ContactFollows
      <4> QED
        BY <1>1, <4>1, GoneForGood DEF Cleared, IInv, InProgress
    <3> QED
      BY <3>1, <3>2
  <2> QED
    BY <2>1, <2>2
<1>3. groupWorker'.step \in {"get", "delete", "release"} \/ ~Group!Exists(Group!Current') =>
        ~CurrentCgm'.exists
  <2>1. CASE groupWorker'.step \in {"get", "delete", "release"}
    <3>1. ~GroupInUse /\ ~CurrentCgm.exists
      BY <1>1, <2>1, GroupWorkerKept, Noticed DEF Cleared, IInv, InProgress
    <3> QED
      BY <3>1, GoneForGood
  <2>2. CASE ~Group!Exists(Group!Current')
    <3>1. CASE ~Group!Exists(Group!Current)
      BY <1>1, <3>1, GoneForGood DEF Cleared, GroupInUse
    <3>2. CASE Group!Exists(Group!Current)
      <4>1. groupWorker.step = "release"
        BY <2>2, <3>2, GroupKept DEF GroupFollows
      <4> QED
        BY <1>1, <4>1, GoneForGood DEF Cleared, IInv, InProgress
    <3> QED
      BY <3>1, <3>2
  <2> QED
    BY <2>1, <2>2
<1>4. removalWorker'.step = "status" \/ CurrentRemoval'.ready =>
        ~CurrentCgm'.exists \/ CurrentCgm'.terminating
  <2>1. CASE removalWorker.step = "delete" /\ DeleteListed
    <3>1. removalLog # << >>
      BY <2>1, RemovalFacts DEF Idle
    <3>2. CASE CurrentCgm.exists
      <4>1. CachedCgm.exists
        BY <3>1, <3>2, Noticed
      <4> QED
        BY <2>1, <3>2, <4>1, DeletedIsLeaving
    <3>3. CASE ~CurrentCgm.exists
      BY <3>1, <3>3, GoneForGood
    <3> QED
      BY <3>2, <3>3
  <2>2. CASE removalWorker.step = "status" \/ CurrentRemoval.ready
    <3>1. removalLog # << >>
      BY <2>2, RemovalFacts, AbsentAreTyped, LogFacts
      DEF Idle, IInv, TypeOK, CurrentRemoval
    <3> QED
      BY <1>1, <2>2, <3>1, GoneForGood DEF Cleared
  <2>3. CurrentRemoval'.ready => removalWorker.step = "status" \/ CurrentRemoval.ready
    BY RemovalKept, AbsentAreTyped DEF RemovalWrites, NoRemoval
  <2> QED
    BY <2>1, <2>2, <2>3, RemovalWorkerKept
<1> QED
  BY <1>2, <1>3, <1>4, NoticedStep DEF Cleared, Exists, Group!Exists

LEMMA StartIsTyped ==
    /\ \A a \in Addresses : \A v \in {AdoptedContact(a), RecordedContact(a)} :
         v \in Version /\ Exists(v) /\ v.finalizer /\ v.email \in Addresses /\ ~v.terminating
    /\ \A g : g = [Group!Absent EXCEPT !.generation = 1, !.finalizer = TRUE,
                                        !.providerID = 1, !.readyAt = 1] =>
         g \in Group!Version /\ Group!Exists(g) /\ g.finalizer /\ g.readyAt # 0 /\ ~g.terminating
<1>1. ASSUME NEW a \in Addresses
      PROVE  LET v == AdoptedContact(a)
             IN  v \in Version /\ Exists(v) /\ v.finalizer /\ v.email \in Addresses /\ ~v.terminating
  <2> DEFINE v == AdoptedContact(a)
  <2>1. Absent \in Version /\ ~Absent.terminating
    BY AbsentAreTyped DEF Absent
  <2>2. v = [Absent EXCEPT !.generation = 1, !.email = a, !.finalizer = TRUE]
    BY DEF AdoptedContact
  <2> HIDE DEF v
  <2>3. /\ v \in Version /\ v.generation = 1 /\ v.finalizer = TRUE /\ v.email = a
        /\ v.terminating = Absent.terminating
    BY <2>1, <2>2 DEF Version
  <2>4. Exists(v)
    BY <2>3 DEF Exists
  <2> QED
    BY <2>1, <2>3, <2>4 DEF v
<1>2. ASSUME NEW a \in Addresses
      PROVE  LET v == RecordedContact(a)
             IN  v \in Version /\ Exists(v) /\ v.finalizer /\ v.email \in Addresses /\ ~v.terminating
  <2> DEFINE c == [NoConditions EXCEPT
           !.resendReady = "ResendContactPending", !.updated = "Created",
           !.updatedAt = 1, !.ready = "False", !.readyAt = 1]
  <2>1. c \in Conditions
    BY DEF NoConditions, Conditions
  <2> DEFINE v == RecordedContact(a)
             w == AdoptedContact(a)
  <2>2. v = [w EXCEPT !.providerID = 1, !.conditions = c]
    BY DEF RecordedContact
  <2>3. w \in Version /\ Exists(w) /\ w.finalizer /\ w.email \in Addresses /\ ~w.terminating
    BY <1>1
  <2> HIDE DEF c, v, w
  <2>4. /\ v \in Version /\ v.generation = w.generation /\ v.finalizer = w.finalizer
        /\ v.email = w.email /\ v.terminating = w.terminating
    BY <2>1, <2>2, <2>3 DEF Version
  <2>5. Exists(v)
    BY <2>3, <2>4 DEF Exists
  <2> QED
    BY <2>3, <2>4, <2>5 DEF v
<1>3. ASSUME NEW g, g = [Group!Absent EXCEPT !.generation = 1, !.finalizer = TRUE,
                                             !.providerID = 1, !.readyAt = 1]
      PROVE  g \in Group!Version /\ Group!Exists(g) /\ g.finalizer /\ g.readyAt # 0 /\ ~g.terminating
  <2>1. g = [generation |-> 1, terminating |-> FALSE, finalizer |-> TRUE,
             providerID |-> 1, readyAt |-> 1, updatedAt |-> 0]
    BY <1>3 DEF Group!Absent
  <2> QED
    BY <2>1 DEF Group!Version, Group!Exists
<1> QED
  BY <1>1, <1>2, <1>3

LEMMA InitHolds == Init => IInv
<1> SUFFICES ASSUME Init PROVE IInv
  OBVIOUS
<1> USE DEF Init, MembershipWorldInit, CgmInit, RemovalInit
<1>1. /\ \E a \in Addresses : log = <<RecordedContact(a)>> \/ log = <<AdoptedContact(a)>>
      /\ contacts \in Seq(Contact)
  <2>1. PICK a \in Addresses :
          \/ log = <<RecordedContact(a)>> /\ contacts = <<[email |-> a, live |-> TRUE]>>
          \/ log = <<AdoptedContact(a)>> /\ contacts = << >>
    OBVIOUS
  <2> DEFINE c == [email |-> a, live |-> TRUE]
  <2>2. c \in Contact
    BY DEF Contact
  <2> HIDE DEF c
  <2>3. <<c>> \in Seq(Contact) /\ << >> \in Seq(Contact)
    BY <2>2
  <2> QED
    BY <2>1, <2>3 DEF c
<1>4. PICK v \in Version : /\ log = <<v>> /\ Exists(v) /\ v.finalizer
                           /\ v.email \in Addresses /\ ~v.terminating
  BY <1>1, StartIsTyped
<1>5. /\ log \in Seq(Version) /\ Len(log) = 1 /\ DOMAIN log = {1} /\ log[1] = v
  BY <1>4
<1> DEFINE g == [Group!Absent EXCEPT !.generation = 1, !.finalizer = TRUE,
                                     !.providerID = 1, !.readyAt = 1]
<1>6. /\ g \in Group!Version /\ Group!Exists(g) /\ g.finalizer /\ g.readyAt # 0
      /\ ~g.terminating
  BY StartIsTyped
<1>7. groupLog = <<g>>
  OBVIOUS
<1> HIDE DEF g
<1>8. /\ groupLog \in Seq(Group!Version) /\ Len(groupLog) = 1 /\ DOMAIN groupLog = {1}
      /\ groupLog[1] = g
  BY <1>6, <1>7
<1>9. segments \in Seq(BOOLEAN) /\ cgmLog \in Seq(Membership) /\ removalLog \in Seq(Removal)
      /\ Len(cgmLog) = 0 /\ Len(removalLog) = 0 /\ DOMAIN cgmLog = {}
  OBVIOUS
<1>10. /\ CurrentCgm = NoMembership /\ CurrentRemoval = NoRemoval
       /\ Exists(Current) /\ Group!Exists(Group!Current)
  BY <1>4, <1>5, <1>6, <1>8, <1>9
  DEF CurrentCgm, CurrentRemoval, CurrentOf, VersionAt, Current, Group!Current,
      Group!CurrentOf, Group!VersionAt
<1>11. TypeOK
  BY <1>1, <1>5, <1>8, <1>9, ContactBoundsAreNats
  DEF TypeOK, Group!TypeOK, Contact, WorkerStates, Group!WorkerStates, CgmWorkerStates,
      RemovalWorkerStates, Idle, Group!Idle
<1>12. PositionsOK
  BY <1>5, <1>8, <1>9 DEF PositionsOK
<1>13. History
  BY <1>4, <1>5, <1>6, <1>8, <1>9 DEF History
<1>14. InProgress
  BY DEF InProgress, Idle
<1>15. NoMembershipStranded /\ Cleared
  BY <1>10, AbsentAreTyped DEF NoMembershipStranded, Cleared, Idle
<1> QED
  BY <1>11, <1>12, <1>13, <1>14, <1>15 DEF IInv

(***************************************************************************)
(* The invariant, and what it says of the four controllers together.       *)
(***************************************************************************)
LEMMA InvariantStep == IInv /\ [Next]_vars => IInv'
<1> SUFFICES ASSUME IInv, [Next]_vars PROVE IInv'
  OBVIOUS
<1> QED
  BY TypeStep, PositionsStep, HistoryStep, InProgressStep, StrandedStep, ClearedStep DEF IInv

(* In every reachable state: caches and workers stay within what was       *)
(* published, nothing is written after an object is gone, a teardown is of *)
(* an object that is on its way out.                                       *)
THEOREM MembershipInvariant == Spec => []IInv
  BY InitHolds, InvariantStep, PTL DEF Spec

(* Every state of the four controllers and their objects is typed.         *)
THEOREM MembershipTypeCorrect == Spec => []TypeOK
<1>1. IInv => TypeOK
  BY DEF IInv
<1> QED
  BY <1>1, MembershipInvariant, PTL

(* A membership that is not created, asked for again or being deleted is   *)
(* due for a reconciliation or in one: no error, conflict, lost answer or  *)
(* restart drops it from the work queue.                                   *)
THEOREM MembershipNeverStranded == Spec => []NoMembershipStranded
<1>1. IInv => NoMembershipStranded
  BY DEF IInv
<1> QED
  BY <1>1, MembershipInvariant, PTL

(* The status the membership controller and the Contact controller write   *)
(* never undoes the Loops provider's report, since both write against the  *)
(* version they read.                                                      *)
THEOREM LoopsReportSurvives == Spec => LoopsReportIsKept
<1>1. IInv /\ [Next]_vars =>
        [CurrentCgm.exists /\ CurrentCgm'.exists =>
           (CurrentCgm.loopsReady => CurrentCgm'.loopsReady)]_vars
  <2> SUFFICES ASSUME IInv, [Next]_vars, CurrentCgm'.exists, CurrentCgm.loopsReady
               PROVE  CurrentCgm'.loopsReady
    OBVIOUS
  <2> QED
    BY CgmKept DEF CgmFollows
<1> QED
  BY <1>1, MembershipInvariant, PTL DEF Spec, LoopsReportIsKept

(***************************************************************************)
(* Whoever goes on because the membership is gone, or because it deleted   *)
(* what was listed, is right for good, whatever has failed or restarted,   *)
(* unless the cache had yet to show the membership at all.                 *)
(***************************************************************************)
THEOREM GoneWhenLeft == Spec => GoesOnWithoutIt
<1> DEFINE left == cgmAt # 0 /\ CurrentCgm'.exists
           Right == /\ worker.step = "check" /\ worker'.step = "release" => ~left
                    /\ groupWorker.step = "check" /\ groupWorker'.step = "get" => ~left
                    /\ removalWorker.step = "delete" /\ removalWorker'.step = "status" =>
                         ~left \/ CurrentCgm'.terminating
<1>1. IInv /\ [Next]_vars => [Right]_vars
  <2> SUFFICES ASSUME IInv, [Next]_vars, cgmAt # 0, CurrentCgm'.exists
               PROVE  /\ ~(worker.step = "check" /\ worker'.step = "release")
                      /\ ~(groupWorker.step = "check" /\ groupWorker'.step = "get")
                      /\ removalWorker.step = "delete" /\ removalWorker'.step = "status" =>
                           CurrentCgm'.terminating
    OBVIOUS
  <2>1. cgmAt > 0 /\ cgmLog # << >>
    BY DEF IInv, TypeOK, PositionsOK
  <2>2. CurrentCgm.exists
    BY <2>1, CgmKept DEF CgmFollows
  <2>3. CachedCgm.exists
    BY <2>1, <2>2, CgmFacts
  <2> QED
    BY <2>2, <2>3, ContactWorkerKept, GroupWorkerKept, RemovalWorkerKept, DeletedIsLeaving
<1> QED
  BY <1>1, MembershipInvariant, PTL DEF Spec, GoesOnWithoutIt

============================================================================
