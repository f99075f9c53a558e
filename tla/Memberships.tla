---------------------------- MODULE Memberships -----------------------------
(***************************************************************************)
(* The four controllers of the manager around one membership: the Contact  *)
(* controller replaces and deletes contacts and asks for the membership    *)
(* again, the ContactGroup controller deletes segments, and both keep      *)
(* their object until its memberships are gone; the membership controller  *)
(* needs both objects to clean up at Resend.                               *)
(***************************************************************************)
EXTENDS MembershipController, RemovalController

vars == <<worldVars, ctrlVars, groupVars, objectVars, cacheVars, members,
          cgmVars, removalVars>>

Init == MembershipWorldInit /\ CgmInit /\ RemovalInit

(***************************************************************************)
(* What the Contact controller's calls do to memberships.  An update lists *)
(* them and sets their Updated condition, by a Status().Update that is     *)
(* refused when a membership is not as listed.  Setting what is set        *)
(* already changes nothing and so publishes nothing.                       *)
(***************************************************************************)
MutantAskNobody == UNCHANGED objectVars

RequestUpdate ==
    /\ IF CachedCgm.exists
       THEN /\ Fresh(cgmLog, cgmAt)
            /\ cgmLog' = Publish(cgmLog, [CachedCgm EXCEPT !.updated = "UpdateRequested"])
       ELSE UNCHANGED cgmLog
    /\ UNCHANGED removalLog

AskRefused ==
    /\ worker.step = "ask"
    /\ CachedCgm.exists /\ ~Fresh(cgmLog, cgmAt)
    /\ GiveUp
    /\ UNCHANGED <<worldVars, objectVars>>

EvictListed == DeleteListed /\ UNCHANGED removalLog

(* The second List must come back empty.                                   *)
MutantNobodyLeft == DeleteListedRemovals /\ UNCHANGED cgmLog

NobodyLeft == ~CachedCgm.exists /\ DeleteListedRemovals /\ UNCHANGED cgmLog

WaitForMemberships ==
    /\ worker.step = "check"
    /\ CachedCgm.exists
    /\ GiveUp
    /\ UNCHANGED <<worldVars, objectVars>>

ContactCalls ==
    \/ AskMemberships /\ RequestUpdate
    \/ AskRefused
    \/ EvictMemberships /\ EvictListed
    \/ CheckMemberships /\ NobodyLeft
    \/ WaitForMemberships

ContactCallFails ==
    /\ CallFails
    /\ \/ UNCHANGED objectVars
       \/ worker.step = "ask" /\ RequestUpdate
       \/ worker.step = "evict" /\ EvictListed
       \/ worker.step = "check" /\ NobodyLeft

(* The rest of the Contact controller does nothing to memberships.         *)
ContactAlone ==
    /\ \/ StartReconcile
       \/ CreateAtResend \/ DeleteAtResend
       \/ UpdateFinalizer \/ UpdateFinalizerFails
       \/ PatchStatus \/ PatchFails
    /\ UNCHANGED objectVars

ReconcileContact ==
    /\ ContactAlone \/ ContactCalls \/ ContactCallFails
    /\ UNCHANGED <<groupVars, cacheVars, members, cgmVars, removalVars>>

ObserveContact ==
    /\ Observe
    /\ ContactEvent
    /\ UNCHANGED <<groupVars, objectVars, cacheVars, members, cgmWorker, removalVars>>

(***************************************************************************)
(* What the ContactGroup controller's calls do to them.                    *)
(***************************************************************************)
GroupWaits ==
    /\ groupWorker.step = "check"
    /\ CachedCgm.exists
    /\ Group!GiveUp
    /\ UNCHANGED <<groupLog, segments, spare, objectVars>>

GroupCallFails ==
    /\ Group!CallFails
    /\ \/ UNCHANGED objectVars
       \/ groupWorker.step = "evict" /\ EvictListed
       \/ groupWorker.step = "check" /\ NobodyLeft

GroupAlone ==
    /\ \/ Group!StartReconcile
       \/ Group!GetContactGroup \/ Group!DeleteContactGroup
       \/ Group!StoreUpdate \/ Group!UpdateFails
    /\ UNCHANGED objectVars

ReconcileGroup ==
    /\ \/ GroupAlone
       \/ Group!EvictMemberships /\ EvictListed
       \/ Group!CheckMemberships /\ NobodyLeft
       \/ GroupWaits
       \/ GroupCallFails
    /\ UNCHANGED <<log, contacts, ctrlVars, cacheVars, members, cgmVars, removalVars>>

ObserveGroup ==
    /\ Group!Observe
    /\ UNCHANGED <<log, contacts, ctrlVars, objectVars, cacheVars, members,
                   cgmVars, removalVars>>

(***************************************************************************)
(* The manager as a whole: its informers, its restarts and its resyncs.    *)
(***************************************************************************)
ObserveMemberships ==
    /\ \/ ObserveMembership /\ UNCHANGED <<removalLog, removalVars>>
       \/ ObserveRemoval /\ UNCHANGED <<cgmLog, members, cgmVars>>
    /\ UNCHANGED <<worldVars, ctrlVars, groupVars>>

Stored == <<log, contacts, groupLog, segments, objectVars, members>>

RestartAll ==
    /\ Disturb
    /\ UNCHANGED Stored
    /\ Restarted /\ Group!Restarted /\ CgmRestarted /\ RemovalRestarted
    /\ RelistLags \/ (ctrlAt' = Len(log) /\ groupAt' = Len(groupLog))

ResyncAll ==
    /\ Disturb
    /\ queued' = (queued \/ Exists(Cached))
    /\ groupQueued' = (groupQueued \/ Group!Exists(Group!Cached))
    /\ cgmQueued' = (cgmQueued \/ CachedCgm.exists)
    /\ removalQueued' = (removalQueued \/ CachedRemoval.exists)
    /\ UNCHANGED <<Stored, ctrlAt, worker, groupAt, groupWorker, cacheVars,
                   cgmWorker, removalWorker>>

Next ==
    \/ Users /\ UNCHANGED <<cgmVars, removalVars>>
    \/ ReconcileContact \/ ObserveContact
    \/ ReconcileGroup \/ ObserveGroup
    \/ ReconcileMembership /\ UNCHANGED removalVars
    \/ ReconcileRemoval /\ UNCHANGED cgmVars
    \/ ObserveMemberships
    \/ RestartAll \/ ResyncAll

Spec == Init /\ [][Next]_vars

(* Each informer delivers, each controller's worker takes what is queued   *)
(* and its calls return.                                                   *)
Fairness ==
    /\ WF_vars(ObserveContact) /\ WF_vars(ReconcileContact)
    /\ WF_vars(ObserveGroup) /\ WF_vars(ReconcileGroup)
    /\ WF_vars(ObserveMemberships)
    /\ WF_vars(ReconcileMembership /\ UNCHANGED removalVars)
    /\ WF_vars(ReconcileRemoval /\ UNCHANGED cgmVars)

FairSpec == Spec /\ Fairness

TypeOK ==
    /\ log \in Seq(Version)
    /\ contacts \in Seq([email : Addresses, live : BOOLEAN])
    /\ ctrlAt \in Nat /\ queued \in BOOLEAN /\ worker \in WorkerStates
    /\ Group!TypeOK
    /\ cgmLog \in Seq(Membership) /\ cgmAt \in Nat
    /\ cgmQueued \in BOOLEAN /\ cgmWorker \in CgmWorkerStates
    /\ removalLog \in Seq(Removal) /\ removalAt \in Nat
    /\ removalQueued \in BOOLEAN /\ removalWorker \in RemovalWorkerStates
    /\ members \subseteq DOMAIN contacts

(***************************************************************************)
(* A membership that claims to be created, and is not asked for again, is  *)
(* at Resend under the contact on record, also after the contact was       *)
(* replaced for an edit that kept its address.  A contact that is not at   *)
(* Resend (it is just being replaced or deleted) can be in no segment.     *)
(***************************************************************************)
ClaimsMember(v) == v.created /\ v.updated # "UpdateRequested" /\ ~v.terminating

ClaimedMembershipIsBacked ==
    ClaimsMember(CurrentCgm) /\ CanAdd(Current.providerID) =>
        IsMember(Current.providerID)

(***************************************************************************)
(* Once the membership object is gone, the contact is not in the segment   *)
(* any more, although an add may have been cut off before it was recorded. *)
(***************************************************************************)
NobodyLeftBehind ==
    cgmLog # << >> /\ ~CurrentCgm.exists => \A n \in members : ~IsMember(n)

(***************************************************************************)
(* "GroupMembership needs to be fully removed before deleting the contact" *)
(* (or the contact group): the finalizers let neither object go while the  *)
(* membership, whose own finalizer needs both, is there.                   *)
(***************************************************************************)
MembershipGoesFirst ==
    CurrentCgm.exists => Exists(Current) /\ Group!Exists(Group!Current)

(***************************************************************************)
(* "Contact Group Membership Removal completed": a removal reports so only *)
(* when the membership is gone or on its way out.                          *)
(***************************************************************************)
RemovedIsLeaving ==
    CurrentRemoval.ready /\ CurrentCgm.exists => CurrentCgm.terminating

(***************************************************************************)
(* A membership that is not created, is asked for again, or is being       *)
(* deleted is due to be reconciled or is being so, through every error,    *)
(* conflict and restart.                                                   *)
(***************************************************************************)
NoMembershipStranded ==
    /\ CurrentCgm.exists
    /\ CurrentCgm.terminating \/ ~CurrentCgm.created
         \/ CurrentCgm.updated = "UpdateRequested"
    => cgmQueued \/ cgmWorker # Idle \/ cgmAt < Len(cgmLog)

(***************************************************************************)
(* What the safety properties rest on.  PositionsOK: caches and readers    *)
(* stay within their logs.  History: the objects keep their finalizers,    *)
(* and nothing is written after an object is gone.  InProgress: what each  *)
(* worker read is as it acts on it, and a teardown is of an object that is *)
(* on its way out for good.  Cleared, which needs the two conditions it is *)
(* given in IInv: nobody counts on the absence of a membership that the    *)
(* manager has not seen yet.                                               *)
(***************************************************************************)
PositionsOK ==
    /\ ctrlAt <= Len(log) /\ groupAt <= Len(groupLog)
    /\ cgmAt <= Len(cgmLog) /\ removalAt <= Len(removalLog)
    /\ worker # Idle => worker.read \in DOMAIN log
    /\ groupWorker # Idle => groupWorker.read \in DOMAIN groupLog
    /\ cgmWorker # Idle => cgmWorker.read \in DOMAIN cgmLog
    /\ cgmWorker # Idle /\ ~cgmQueued => cgmWorker.read = cgmAt
    /\ removalWorker # Idle => removalWorker.read \in DOMAIN removalLog

History ==
    /\ log # << >> /\ groupLog # << >>
    /\ removalLog # << >> => cgmLog # << >>
    /\ \A i \in DOMAIN log :
        /\ \/ Exists(log[i]) /\ log[i].finalizer /\ log[i].email \in Addresses
           \/ log[i] = Absent /\ i = Len(log)
        /\ log[i].terminating => ~InUse
    /\ \A i \in DOMAIN groupLog :
        /\ \/ Group!Exists(groupLog[i]) /\ groupLog[i].finalizer /\ groupLog[i].readyAt # 0
           \/ groupLog[i] = Group!Absent /\ i = Len(groupLog)
        /\ groupLog[i].terminating => ~GroupInUse
    /\ \A i \in DOMAIN cgmLog :
        cgmLog[i].exists \/ (cgmLog[i] = NoMembership /\ i = Len(cgmLog))

InProgress ==
    /\ worker # Idle => Exists(Reading)
    /\ worker.step \in {"remove", "evict", "check", "release"} => ~InUse
    /\ groupWorker # Idle => Group!Exists(Group!Reading)
    /\ groupWorker.step \notin {"adopt", "create"}
    /\ groupWorker.step \in {"evict", "check", "get", "delete", "release"} => ~GroupInUse
    /\ cgmWorker # Idle => CgmReading.exists
    /\ cgmWorker.step \in {"adopt", "add", "status"} => ~CgmReading.terminating
    /\ cgmWorker.step = "adopt" => ~CgmReading.finalizer

Cleared ==
    /\ cgmLog # << >> /\ (~InUse \/ ~GroupInUse \/ removalLog # << >>) => cgmAt > 0
    /\ worker.step = "release" \/ ~Exists(Current) => ~CurrentCgm.exists
    /\ groupWorker.step \in {"get", "delete", "release"} \/ ~Group!Exists(Group!Current) =>
        ~CurrentCgm.exists
    /\ removalWorker.step = "status" \/ CurrentRemoval.ready =>
        ~CurrentCgm.exists \/ CurrentCgm.terminating

IInv ==
    /\ TypeOK /\ PositionsOK /\ History /\ InProgress /\ NoMembershipStranded
    /\ UsersWait /\ ~RelistLags => Cleared

(***************************************************************************)
(* The Loops provider's report on a membership survives, since both        *)
(* writers of its status here write against the version they read.         *)
(***************************************************************************)
LoopsReportIsKept ==
    [][CurrentCgm.exists /\ CurrentCgm'.exists =>
         (CurrentCgm.loopsReady => CurrentCgm'.loopsReady)]_vars

(***************************************************************************)
(* "Waiting for ContactGroupMembership deletions": a finalizer that stops  *)
(* waiting because a List shows no membership, and a removal that goes on  *)
(* after deleting what was listed, are right about it for good, unless the *)
(* cache they read had yet to show the membership at all.                  *)
(***************************************************************************)
GoesOnWithoutIt ==
    [][LET left == cgmAt # 0 /\ CurrentCgm'.exists
       IN  /\ worker.step = "check" /\ worker'.step = "release" => ~left
           /\ groupWorker.step = "check" /\ groupWorker'.step = "get" => ~left
           /\ removalWorker.step = "delete" /\ removalWorker'.step = "status" =>
                ~left \/ CurrentCgm'.terminating]_vars

(***************************************************************************)
(* Nobody waits for ever: in whatever order a Contact, its group and their *)
(* membership are deleted, each object that is being deleted ends up gone. *)
(***************************************************************************)
DeletionsComplete ==
    <>[]~(Current.terminating \/ Group!Current.terminating \/ CurrentCgm.terminating)

(* A removal takes effect: the membership it names ends up gone.           *)
RemovalTakesEffect == <>[](CurrentRemoval.exists => ~CurrentCgm.exists)

(***************************************************************************)
(* A membership that stays, of a Contact that stays on record at Resend,   *)
(* ends up there under the contact on record, for good.                    *)
(***************************************************************************)
EventuallyMember ==
    <>[](CurrentCgm.exists /\ ~CurrentCgm.terminating /\ CanAdd(Current.providerID) =>
           IsMember(Current.providerID))

============================================================================
