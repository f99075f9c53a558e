------------------------ MODULE MembershipController ------------------------
(***************************************************************************)
(* The ContactGroupMembership controller (internal/controller/             *)
(* contactgroupmembership_controller.go).  A reconciliation reads the      *)
(* membership, the Contact and the group from the caches, adds or removes  *)
(* the contact on record to or from the segment on record, and writes      *)
(* once; the write is refused when the membership has moved.               *)
(***************************************************************************)
EXTENDS MembershipWorld

VARIABLES
    cgmQueued,   \* the membership is in the work queue
    cgmWorker    \* the reconciliation in progress

cgmVars == <<cgmQueued, cgmWorker>>
cgmOwnVars == <<cgmLog, members, cgmQueued, cgmWorker>>
cgmOthers ==
    <<log, contacts, ctrlVars, groupVars, cacheVars, removalLog>>

CgmWorkerStates ==
    {Idle} \cup [step : {"adopt", "add", "status", "take", "release"},
                 read : Nat, contact : Nat]

CgmInit == cgmQueued = FALSE /\ cgmWorker = Idle

CgmReading == CgmAt(cgmWorker.read)

ObserveMembership ==
    /\ cgmAt < Len(cgmLog)
    /\ cgmAt' = cgmAt + 1
    /\ cgmQueued' = TRUE
    /\ UNCHANGED <<cgmLog, members, cgmWorker, removalAt>>

(* Watches(&Contact{}): an update of the Contact queues what the cache     *)
(* lists for it; its creation and its deletion do not.                     *)
ContactEvent ==
    cgmQueued' = (cgmQueued \/ (Exists(Cached) /\ Exists(Cached)' /\ CachedCgm.exists))

(***************************************************************************)
(* The decision: what Finalize does, then the switch in Reconcile.         *)
(***************************************************************************)
MutantCreatedOnce(v) ==
    IF v.terminating THEN "take"
    ELSE IF ~v.finalizer THEN "adopt"
    ELSE IF ~v.created THEN "add"
    ELSE "status"

MutantNoFinalizer(v) ==
    IF ~v.created \/ v.updated = "UpdateRequested" THEN "add" ELSE "status"

CgmFirstStep(v) ==
    IF v.terminating THEN "take"
    ELSE IF ~v.finalizer THEN "adopt"
    ELSE IF ~v.created \/ v.updated = "UpdateRequested" THEN "add"
    ELSE "status"

(* Without the Contact or the group in the cache Finalize and Reconcile    *)
(* return an error, which queues the membership again and again: no step.  *)
References == Exists(Cached) /\ Group!Exists(Group!Cached)

StartMembership ==
    /\ cgmWorker = Idle
    /\ cgmQueued
    /\ \/ /\ CachedCgm.exists
          /\ CgmFirstStep(CachedCgm) # "adopt" => References
          /\ cgmWorker' = [step |-> CgmFirstStep(CachedCgm), read |-> cgmAt,
                           contact |-> Cached.providerID]
       \/ /\ ~CachedCgm.exists
          /\ cgmWorker' = Idle
    /\ cgmQueued' = FALSE
    /\ UNCHANGED <<cgmLog, members, spare>>

CgmProceed(from, to) ==
    /\ cgmWorker.step = from
    /\ cgmWorker' = [cgmWorker EXCEPT !.step = to]
    /\ UNCHANGED <<cgmLog, cgmQueued, spare>>

MutantCgmGiveUp == cgmWorker' = Idle /\ UNCHANGED cgmQueued

CgmGiveUp == cgmWorker' = Idle /\ cgmQueued' = TRUE

(***************************************************************************)
(* CreateContactGroupMembershipIdempotent and its counterpart.  Resend     *)
(* cannot add a contact it does not have: an error like any other.  To     *)
(* take one out that is not there is NotFound, which Finalize accepts.     *)
(***************************************************************************)
MutantEmptyId(n) == Group!AtResend(1)

CanAdd(n) == n \in DOMAIN contacts /\ contacts[n].live /\ Group!AtResend(1)

AddMember ==
    /\ CgmProceed("add", "status")
    /\ CanAdd(cgmWorker.contact)
    /\ members' = members \cup {cgmWorker.contact}

AddRefused ==
    /\ cgmWorker.step = "add"
    /\ ~CanAdd(cgmWorker.contact)
    /\ CgmGiveUp
    /\ UNCHANGED <<cgmLog, members, spare>>

TakeMember ==
    /\ CgmProceed("take", "release")
    /\ members' = members \ {cgmWorker.contact}

CgmCallFails ==
    /\ cgmWorker.step \in {"add", "take"}
    /\ Disturb
    /\ \/ UNCHANGED members
       \/ cgmWorker.step = "add" /\ CanAdd(cgmWorker.contact)
            /\ members' = members \cup {cgmWorker.contact}
       \/ cgmWorker.step = "take" /\ members' = members \ {cgmWorker.contact}
    /\ CgmGiveUp
    /\ UNCHANGED cgmLog

(***************************************************************************)
(* The status: the outcome of the switch, then                             *)
(* verifyContactGroupMembershipReadyCondition.                             *)
(***************************************************************************)
VerifyMembershipReady(v) ==
    [v EXCEPT !.ready = IF v.loopsReady /\ v.created THEN "True" ELSE "False"]

MembershipStatus(v) ==
    VerifyMembershipReady(
        IF ~v.created THEN [v EXCEPT !.created = TRUE]
        ELSE IF v.updated = "UpdateRequested" THEN [v EXCEPT !.updated = "Updated"]
        ELSE v)

CgmToWrite(v) ==
    CASE cgmWorker.step = "adopt"   -> [v EXCEPT !.finalizer = TRUE]
      [] cgmWorker.step = "release" -> NoMembership
      [] OTHER -> MembershipStatus(v)

MutantCgmPatch == cgmLog' = Publish(cgmLog, CgmToWrite(CgmReading))

CgmWrite ==
    Fresh(cgmLog, cgmWorker.read) /\ cgmLog' = Publish(cgmLog, CgmToWrite(CgmReading))

CgmWriting == cgmWorker.step \in {"adopt", "status", "release"}
CgmNothingToWrite == CgmToWrite(CgmReading) = CgmReading

StoreMembership ==
    /\ CgmWriting
    /\ IF CgmNothingToWrite THEN UNCHANGED cgmLog ELSE CgmWrite
    /\ cgmWorker' = Idle
    /\ UNCHANGED <<cgmQueued, members, spare>>

StoreMembershipFails ==
    /\ CgmWriting
    /\ ~CgmNothingToWrite
    /\ \/ ~Fresh(cgmLog, cgmWorker.read) /\ UNCHANGED <<cgmLog, spare>>
       \/ Disturb /\ UNCHANGED cgmLog
       \/ Disturb /\ CgmWrite             \* stored, but the answer is lost
    /\ CgmGiveUp
    /\ UNCHANGED members

ReconcileMembership ==
    /\ \/ StartMembership
       \/ AddMember \/ AddRefused \/ TakeMember \/ CgmCallFails
       \/ StoreMembership \/ StoreMembershipFails
    /\ UNCHANGED cgmOthers

CgmRestarted ==
    /\ cgmAt' \in IF RelistLags THEN 0..Len(cgmLog) ELSE {Len(cgmLog)}
    /\ cgmQueued' = CachedCgm'.exists
    /\ cgmWorker' = Idle

============================================================================
