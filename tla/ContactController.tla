------------------------- MODULE ContactController -------------------------
(***************************************************************************)
(* The Contact controller (internal/controller/contact_controller.go).  A  *)
(* reconciliation reads the Contact from the cache, decides from that      *)
(* version alone, calls Resend once or twice, and writes once: an Update,  *)
(* which the API server refuses when the object moved, to add or remove    *)
(* the finalizer, and a merge Patch, which it never refuses, of the status.*)
(* A requeue after an error is immediate here: its delay only postpones.   *)
(***************************************************************************)
EXTENDS ContactWorld

VARIABLES
    ctrlAt,   \* the position of the manager's cache in log
    queued,   \* the Contact is in the work queue
    worker    \* the reconciliation in progress

ctrlVars == <<ctrlAt, queued, worker>>

Idle == [step |-> "idle"]
Steps == {"adopt", "create", "replace", "recreate", "ask", "patch",
          "remove", "evict", "check", "release"}
WorkerStates == {Idle} \cup [step : Steps, read : Nat, id : Nat]

Cached == At(ctrlAt)
Reading == At(worker.read)

CtrlInit == ctrlAt = 0 /\ queued = FALSE /\ worker = Idle

Observe ==
    /\ ctrlAt < Len(log)
    /\ ctrlAt' = ctrlAt + 1
    /\ queued' = TRUE
    /\ UNCHANGED worker
    /\ UNCHANGED worldVars

Resync ==
    /\ Exists(Cached)
    /\ ~queued
    /\ Disturb
    /\ queued' = TRUE
    /\ UNCHANGED <<ctrlAt, worker, log, contacts>>

(***************************************************************************)
(* What a reconciliation does with the version it read: Finalize adds the  *)
(* finalizer to a Contact that lacks it and tears down a terminating one;  *)
(* the switch in Reconcile tells a first creation from an update.          *)
(***************************************************************************)
MutantAlwaysCreates(v) ==
    IF v.terminating THEN "remove"
    ELSE IF ~v.finalizer THEN "adopt"
    ELSE IF v.conditions.resendReady = "none" THEN "create"
    ELSE "patch"

FirstStep(v) ==
    IF v.terminating THEN "remove"
    ELSE IF ~v.finalizer THEN "adopt"
    ELSE IF v.conditions.resendReady = "none" THEN "create"
    ELSE IF v.conditions.updated # "none" /\ v.conditions.updatedAt # v.generation
         THEN "replace"
    ELSE "patch"

StartReconcile ==
    /\ worker = Idle
    /\ queued
    /\ queued' = FALSE
    /\ worker' = IF Exists(Cached)
                 THEN [step |-> FirstStep(Cached), read |-> ctrlAt,
                       id |-> Cached.providerID]
                 ELSE Idle
    /\ UNCHANGED ctrlAt
    /\ UNCHANGED worldVars

(* The calls on the way: to Resend, then about the Contact's memberships,  *)
(* which are no state of this module; Memberships says what they do.       *)
Proceed(from, to, id) ==
    /\ worker.step = from
    /\ worker' = [worker EXCEPT !.step = to, !.id = id]
    /\ UNCHANGED <<ctrlAt, queued, log, spare>>

CreateAtResend ==
    \/ Proceed("create", "patch", ContactId(Reading.email)) /\ StoreContact(Reading.email)
    \/ Proceed("recreate", "ask", ContactId(Reading.email)) /\ StoreContact(Reading.email)

(* UpdateContactIdempotent begins by deleting the contact on record;       *)
(* Finalize by deleting it for good.                                       *)
MutantKeepsReplaced ==
    \/ Proceed("replace", "recreate", worker.id) /\ UNCHANGED contacts
    \/ Proceed("remove", "evict", worker.id) /\ RemoveContact(worker.id)

DeleteAtResend ==
    \/ Proceed("replace", "recreate", worker.id) /\ RemoveContact(worker.id)
    \/ Proceed("remove", "evict", worker.id) /\ RemoveContact(worker.id)

AskMemberships ==
    Proceed("ask", "patch", worker.id) /\ UNCHANGED contacts

(* Finalize deletes the memberships, and passes once the second List finds *)
(* none; it deletes the removals then.                                     *)
EvictMemberships ==
    Proceed("evict", "check", worker.id) /\ UNCHANGED contacts

CheckMemberships ==
    Proceed("check", "release", worker.id) /\ UNCHANGED contacts

(* Any of these calls fails, or its answer is lost after it was done.      *)
MutantGiveUpForGood ==
    worker' = Idle /\ UNCHANGED <<ctrlAt, queued>>

GiveUp ==
    /\ worker' = Idle
    /\ queued' = TRUE
    /\ UNCHANGED ctrlAt

CallFails ==
    /\ worker.step \in Steps \ {"adopt", "patch", "release"}
    /\ Disturb
    /\ \/ UNCHANGED contacts
       \/ worker.step \in {"create", "recreate"} /\ StoreContact(Reading.email)
       \/ worker.step \in {"replace", "remove"} /\ RemoveContact(worker.id)
    /\ GiveUp
    /\ UNCHANGED log

(***************************************************************************)
(* The Update after the finalizers ran: it adds the finalizer, or removes  *)
(* the last one and with it the object.                                    *)
(***************************************************************************)
Finalized == IF worker.step = "release" THEN Absent
             ELSE [Reading EXCEPT !.finalizer = TRUE]

MutantPatchFinalized == log' = Publish(log, Finalized)

StoreFinalized ==
    Fresh(log, worker.read) /\ log' = Publish(log, Finalized)

UpdateFinalizer ==
    /\ worker.step \in {"adopt", "release"}
    /\ StoreFinalized
    /\ worker' = Idle
    /\ UNCHANGED <<ctrlAt, queued, contacts, spare>>

UpdateFinalizerFails ==
    /\ worker.step \in {"adopt", "release"}
    /\ \/ ~Fresh(log, worker.read) /\ UNCHANGED <<log, spare>>
       \/ Disturb /\ UNCHANGED log
       \/ Disturb /\ StoreFinalized      \* stored, but the answer is lost
    /\ GiveUp
    /\ UNCHANGED contacts

(***************************************************************************)
(* The status, and verifyContactReadyCondition.                            *)
(***************************************************************************)
MutantObservesLatest(v) ==
    CASE FirstStep(v) = "create" ->
           [v.conditions EXCEPT !.resendReady = "ResendContactPending",
                                !.updated = "Created", !.updatedAt = Current.generation]
      [] FirstStep(v) = "replace" ->
           [v.conditions EXCEPT !.updated = "UpdatePending",
                                !.updatedAt = Current.generation]
      [] OTHER -> v.conditions

Processed(v) ==
    CASE FirstStep(v) = "create" ->
           [v.conditions EXCEPT !.resendReady = "ResendContactPending",
                                !.updated = "Created", !.updatedAt = v.generation]
      [] FirstStep(v) = "replace" ->
           [v.conditions EXCEPT !.updated = "UpdatePending", !.updatedAt = v.generation]
      [] OTHER -> v.conditions

VerifyContactReadyCondition(c, generation) ==
    [c EXCEPT !.ready = IF c.loopsReady /\ c.resendReady # "none" THEN "True" ELSE "False",
              !.readyAt = generation]

NewConditions ==
    VerifyContactReadyCondition(Processed(Reading), Reading.generation)

(* client.MergeFrom: the patch holds what differs from the version read,   *)
(* the list of conditions as a whole, and no resourceVersion.              *)
MutantIdNotRecorded(v) == [v EXCEPT !.conditions = NewConditions]

Patched(v) ==
    [v EXCEPT
       !.conditions = IF NewConditions = Reading.conditions THEN @ ELSE NewConditions,
       !.providerID = IF worker.id = Reading.providerID THEN @ ELSE worker.id]

StatusUnchanged ==
    NewConditions = Reading.conditions /\ worker.id = Reading.providerID

StorePatch == Exists(Current) /\ log' = Publish(log, Patched(Current))

PatchStatus ==
    /\ worker.step = "patch"
    /\ IF StatusUnchanged THEN UNCHANGED log ELSE StorePatch
    /\ worker' = Idle
    /\ UNCHANGED <<ctrlAt, queued, contacts, spare>>

PatchFails ==
    /\ worker.step = "patch"
    /\ ~StatusUnchanged
    /\ \/ ~Exists(Current) /\ UNCHANGED <<log, spare>>
       \/ Disturb /\ UNCHANGED log
       \/ Disturb /\ StorePatch          \* stored, but the answer is lost
    /\ GiveUp
    /\ UNCHANGED contacts

(* A new leader relists, perhaps from a replica that lags.                 *)
Restarted ==
    /\ ctrlAt' \in 0..Len(log)
    /\ queued' = Exists(At(ctrlAt'))
    /\ worker' = Idle

RestartManager == Disturb /\ Restarted /\ UNCHANGED <<log, contacts>>

ReconcileNext ==
    \/ StartReconcile
    \/ CreateAtResend \/ DeleteAtResend
    \/ AskMemberships \/ EvictMemberships \/ CheckMemberships
    \/ UpdateFinalizer \/ UpdateFinalizerFails
    \/ PatchStatus \/ PatchFails

CtrlNext == Observe \/ ReconcileNext \/ Resync \/ CallFails \/ RestartManager

============================================================================
