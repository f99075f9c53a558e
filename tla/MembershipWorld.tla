-------------------------- MODULE MembershipWorld --------------------------
(***************************************************************************)
(* What the controllers share where memberships are concerned: a Contact   *)
(* with its controller, a ContactGroup with its controller, one            *)
(* ContactGroupMembership of the two, one ContactGroupMembershipRemoval,   *)
(* the manager's cache of each kind, and who is a member at Resend.  The   *)
(* four controllers run in one process and read the same four caches.      *)
(***************************************************************************)
EXTENDS ContactController

CONSTANTS
    UserDeletes,   \* kinds of objects the users delete in this instance
    UserRemoves,   \* users create a removal in this instance
    UsersWait,     \* users see what they created in the manager's effects
    RelistLags     \* a restarted manager may read memberships of the past

ASSUME UserDeletesAreKinds ==
    UserDeletes \subseteq {"contact", "group", "membership"}
ASSUME MembershipFlagsAreBoolean ==
    UserRemoves \in BOOLEAN /\ UsersWait \in BOOLEAN /\ RelistLags \in BOOLEAN

VARIABLES
    groupLog, segments, groupAt, groupQueued, groupWorker,   \* see GroupSync
    cgmLog,      \* the published versions of the membership
    cgmAt,       \* the position of the manager's cache in cgmLog
    removalLog,  \* the published versions of the removal
    removalAt,   \* the position of the manager's cache in removalLog
    members      \* ids of the contacts that were added to the segment

groupVars == <<groupLog, segments, groupAt, groupQueued, groupWorker>>
objectVars == <<cgmLog, removalLog>>
cacheVars == <<cgmAt, removalAt>>

(* One generation and one segment: the group starts with its segment.      *)
Group == INSTANCE GroupSync WITH
    MaxGeneration <- 1, MaxSegments <- 1,
    log <- groupLog, ctrlAt <- groupAt, queued <- groupQueued, worker <- groupWorker

(***************************************************************************)
(* A membership as its readers look at it: created is the condition        *)
(* ResendContactGroupMembershipReady, updated the reason of Updated.       *)
(***************************************************************************)
Membership ==
    [exists : BOOLEAN, terminating : BOOLEAN, finalizer : BOOLEAN,
     created : BOOLEAN, updated : {"none", "UpdateRequested", "Updated"},
     loopsReady : BOOLEAN, ready : {"none", "True", "False"}]

NoMembership ==
    [exists |-> FALSE, terminating |-> FALSE, finalizer |-> FALSE,
     created |-> FALSE, updated |-> "none", loopsReady |-> FALSE, ready |-> "none"]

CgmAt(i) == VersionAt(cgmLog, i, NoMembership)
CurrentCgm == CurrentOf(cgmLog, NoMembership)
CachedCgm == CgmAt(cgmAt)

Removal == [exists : BOOLEAN, ready : BOOLEAN]
NoRemoval == [exists |-> FALSE, ready |-> FALSE]
RemovalAt(i) == VersionAt(removalLog, i, NoRemoval)
CurrentRemoval == CurrentOf(removalLog, NoRemoval)
CachedRemoval == RemovalAt(removalAt)

(* client.Delete sets no precondition: it marks whatever has the name, or  *)
(* removes it at once when no finalizer holds it.                          *)
DeleteMembership ==
    cgmLog' = IF CurrentCgm.exists
              THEN Publish(cgmLog, IF CurrentCgm.finalizer
                                   THEN [CurrentCgm EXCEPT !.terminating = TRUE]
                                   ELSE NoMembership)
              ELSE cgmLog

(* List, then Delete of every item: only what the cache shows is deleted.  *)
DeleteListed ==
    IF CachedCgm.exists THEN DeleteMembership ELSE UNCHANGED cgmLog

DeleteListedRemovals ==
    IF CachedRemoval.exists /\ CurrentRemoval.exists
    THEN removalLog' = Publish(removalLog, NoRemoval)
    ELSE UNCHANGED removalLog

(* Deleting a contact takes it out of every segment, deleting a segment    *)
(* empties it; ids are not used again.                                     *)
IsMember(n) ==
    /\ n \in members
    /\ n \in DOMAIN contacts /\ contacts[n].live
    /\ Group!AtResend(1)

(***************************************************************************)
(* The users.  A membership and a removal are created once.  When they     *)
(* wait, nothing is made for an object being deleted, and nothing is       *)
(* deleted or removed before the manager has noticed the membership.       *)
(***************************************************************************)
InUse == Exists(Current) /\ ~Current.terminating
GroupInUse == Group!Exists(Group!Current) /\ ~Group!Current.terminating
Settled == UsersWait => cgmAt = Len(cgmLog)

CreateMembership ==
    /\ cgmLog = << >>
    /\ UsersWait => InUse /\ GroupInUse
    /\ cgmLog' = Publish(cgmLog, [NoMembership EXCEPT !.exists = TRUE])
    /\ UNCHANGED <<worldVars, ctrlVars, groupVars, removalLog>>

UserDeletesContact ==
    /\ "contact" \in UserDeletes /\ Settled
    /\ DeleteContact
    /\ UNCHANGED <<ctrlVars, groupVars, objectVars>>

UserDeletesGroup ==
    /\ "group" \in UserDeletes /\ Settled
    /\ Group!DeleteGroup
    /\ UNCHANGED <<worldVars, ctrlVars, objectVars>>

UserDeletesMembership ==
    /\ "membership" \in UserDeletes
    /\ CurrentCgm.exists /\ ~CurrentCgm.terminating
    /\ DeleteMembership
    /\ UNCHANGED <<worldVars, ctrlVars, groupVars, removalLog>>

CreateRemoval ==
    /\ UserRemoves /\ Settled
    /\ removalLog = << >> /\ CurrentCgm.exists
    /\ removalLog' = Publish(removalLog, [NoRemoval EXCEPT !.exists = TRUE])
    /\ UNCHANGED <<worldVars, ctrlVars, groupVars, cgmLog>>

(* The Loops provider reports on the membership in the same status, once.  *)
LoopsReportsMembership ==
    /\ LoopsInstalled
    /\ CurrentCgm.exists
    /\ \A i \in DOMAIN cgmLog : ~cgmLog[i].loopsReady
    /\ cgmLog' = Publish(cgmLog, [CurrentCgm EXCEPT !.loopsReady = TRUE])
    /\ UNCHANGED <<worldVars, ctrlVars, groupVars, removalLog>>

UsersEditContact ==
    /\ \E a \in Addresses : EditContact(a)
    /\ UNCHANGED <<ctrlVars, groupVars, objectVars>>

Users ==
    /\ \/ CreateMembership \/ CreateRemoval
       \/ UsersEditContact
       \/ UserDeletesContact \/ UserDeletesGroup \/ UserDeletesMembership
       \/ LoopsReportsMembership
    /\ UNCHANGED <<cacheVars, members>>

(***************************************************************************)
(* The start: the group has its segment; the Contact has its finalizer,    *)
(* and is on record at Resend or about to be created there.                *)
(***************************************************************************)
AdoptedContact(a) ==
    [Absent EXCEPT !.generation = 1, !.email = a, !.finalizer = TRUE]

RecordedContact(a) ==
    [AdoptedContact(a) EXCEPT
       !.providerID = 1,
       !.conditions = [NoConditions EXCEPT
           !.resendReady = "ResendContactPending", !.updated = "Created",
           !.updatedAt = 1, !.ready = "False", !.readyAt = 1]]

MembershipWorldInit ==
    /\ \E a \in Addresses :
          \/ /\ log = <<RecordedContact(a)>>
             /\ contacts = <<[email |-> a, live |-> TRUE]>>
             /\ queued = FALSE
          \/ /\ log = <<AdoptedContact(a)>>
             /\ contacts = << >>
             /\ queued = TRUE
    /\ spare = MaxDisturbances /\ ctrlAt = 1 /\ worker = Idle
    /\ groupLog = <<[Group!Absent EXCEPT !.generation = 1, !.finalizer = TRUE,
                                         !.providerID = 1, !.readyAt = 1]>>
    /\ segments = <<TRUE>>
    /\ groupAt = 1 /\ groupQueued = FALSE /\ groupWorker = Idle
    /\ cgmLog = << >> /\ cgmAt = 0
    /\ removalLog = << >> /\ removalAt = 0
    /\ members = {}

============================================================================
