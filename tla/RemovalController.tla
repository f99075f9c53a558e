------------------------- MODULE RemovalController --------------------------
(***************************************************************************)
(* The ContactGroupMembershipRemoval controller (internal/controller/      *)
(* contactgroupmembershipremoval_controller.go): it deletes the membership *)
(* that the cache lists for the removal's Contact and group and reports    *)
(* the removal as Ready.                                                   *)
(***************************************************************************)
EXTENDS MembershipWorld

CONSTANT
    ContactIsUser   \* spec.subjectRef names a User: status.username is set

ASSUME ContactIsUserIsBoolean == ContactIsUser \in BOOLEAN

VARIABLES
    removalQueued,   \* the removal is in the work queue
    removalWorker    \* the reconciliation in progress

removalVars == <<removalQueued, removalWorker>>
removalOthers == <<log, contacts, ctrlVars, groupVars, cacheVars, members>>

RemovalWorkerStates == {Idle} \cup [step : {"delete", "status"}, read : Nat]

RemovalInit == removalQueued = FALSE /\ removalWorker = Idle

ObserveRemoval ==
    /\ removalAt < Len(removalLog)
    /\ removalAt' = removalAt + 1
    /\ removalQueued' = TRUE
    /\ UNCHANGED <<removalLog, removalWorker, cgmAt>>

(* A Ready removal is left alone, but only if a username was recorded.     *)
AlreadyReconciled(v) == ContactIsUser /\ v.ready

(* Without the Contact in the cache: an error, and again and again.        *)
StartRemoval ==
    /\ removalWorker = Idle
    /\ removalQueued
    /\ \/ /\ CachedRemoval.exists /\ ~AlreadyReconciled(CachedRemoval)
          /\ Exists(Cached)
          /\ removalWorker' = [step |-> "delete", read |-> removalAt]
       \/ /\ CachedRemoval.exists => AlreadyReconciled(CachedRemoval)
          /\ removalWorker' = Idle
    /\ removalQueued' = FALSE
    /\ UNCHANGED <<objectVars, spare>>

DeleteMemberships ==
    /\ removalWorker.step = "delete"
    /\ DeleteListed
    /\ removalWorker' = [removalWorker EXCEPT !.step = "status"]
    /\ UNCHANGED <<removalLog, removalQueued, spare>>

MutantErrorIgnored ==
    removalWorker' = [removalWorker EXCEPT !.step = "status"] /\ UNCHANGED removalQueued

MutantRemovalForgotten == removalWorker' = Idle /\ UNCHANGED removalQueued

RemovalGiveUp == removalWorker' = Idle /\ removalQueued' = TRUE

DeleteMembershipsFails ==
    /\ removalWorker.step = "delete"
    /\ Disturb
    /\ UNCHANGED cgmLog \/ DeleteListed
    /\ RemovalGiveUp
    /\ UNCHANGED removalLog

StoreReady ==
    /\ Fresh(removalLog, removalWorker.read)
    /\ removalLog' = Publish(removalLog, [exists |-> TRUE, ready |-> TRUE])

RecordRemoval ==
    /\ removalWorker.step = "status"
    /\ StoreReady
    /\ removalWorker' = Idle
    /\ UNCHANGED <<cgmLog, removalQueued, spare>>

RecordRemovalFails ==
    /\ removalWorker.step = "status"
    /\ \/ ~Fresh(removalLog, removalWorker.read) /\ UNCHANGED <<removalLog, spare>>
       \/ Disturb /\ UNCHANGED removalLog
       \/ Disturb /\ StoreReady             \* stored, but the answer is lost
    /\ RemovalGiveUp
    /\ UNCHANGED cgmLog

ReconcileRemoval ==
    /\ \/ StartRemoval
       \/ DeleteMemberships \/ DeleteMembershipsFails
       \/ RecordRemoval \/ RecordRemovalFails
    /\ UNCHANGED removalOthers

RemovalRestarted ==
    /\ removalAt' \in IF RelistLags THEN 0..Len(removalLog) ELSE {Len(removalLog)}
    /\ removalQueued' = CachedRemoval'.exists
    /\ removalWorker' = Idle

============================================================================
