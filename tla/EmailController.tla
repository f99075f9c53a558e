--------------------------- MODULE EmailController ---------------------------
(***************************************************************************)
(* The Email controller (internal/controller/email_controller.go): its     *)
(* informer, its work queue and the one worker that reconciles.  A         *)
(* reconciliation is three steps that anything may interleave with: read   *)
(* the Email from the cache, call Resend, write the status.                *)
(***************************************************************************)
EXTENDS EmailWorld

CONSTANTS
    Priority,    \* Priority[e]: spec.priority
    Wait         \* the configured waits, by priority

ASSUME PriorityIsString == Priority \in [Emails -> STRING]
ASSUME WaitsAreConfigured == Wait \in [{"low", "normal", "high"} -> Nat]

VARIABLES
    ctrlAt,   \* the position of the manager's cache in log[e]
    queue,    \* Emails ready to be reconciled
    timer,    \* timer[e]: why e waits in the delaying queue, "none" if it does not
    worker    \* the reconciliation in progress

ctrlVars == <<ctrlAt, queue, timer, worker>>

Idle == [step |-> "idle"]
Timers == {"none", "backoff", "retry"}
WorkerStates ==
    {Idle}
    \cup [step : {"send"}, email : Emails, read : Nat]
    \cup [step : {"record"}, email : Emails, read : Nat, id : Nat]
    \cup [step : {"fail"}, email : Emails, read : Nat, text : Failures]

Cached(e) == At(e, ctrlAt[e])

CtrlInit ==
    /\ ctrlAt = [e \in Emails |-> 0]
    /\ queue = {}
    /\ timer = [e \in Emails |-> "none"]
    /\ worker = Idle

(***************************************************************************)
(* controller-runtime: For(&Email{}) without predicates enqueues on every  *)
(* watch event and on the periodic resync; AddAfter keeps one entry per    *)
(* Email, at the earlier of the two times.                                 *)
(***************************************************************************)
Observe(e) ==
    /\ ctrlAt[e] < Len(log[e])
    /\ ctrlAt' = [ctrlAt EXCEPT ![e] = @ + 1]
    /\ queue' = queue \cup {e}
    /\ UNCHANGED <<timer, worker>>
    /\ UNCHANGED worldVars

Resync(e) ==
    /\ Exists(Cached(e))
    /\ e \notin queue
    /\ Disturb
    /\ queue' = queue \cup {e}
    /\ UNCHANGED <<ctrlAt, timer, worker>>
    /\ UNCHANGED <<log, lastUid, messages, events>>

TimerFires(e) ==
    /\ timer[e] # "none"
    /\ timer' = [timer EXCEPT ![e] = "none"]
    /\ queue' = queue \cup {e}
    /\ UNCHANGED <<ctrlAt, worker>>
    /\ UNCHANGED worldVars

AddAfter(e, why) ==
    \E kept \in IF timer[e] = "none" THEN {why} ELSE {timer[e], why} :
        timer' = [timer EXCEPT ![e] = kept]

(* config.GetWaitTimeBeforeRetry: an unknown priority waits like normal.   *)
GetWaitTimeBeforeRetry(priority) ==
    IF priority \in DOMAIN Wait THEN Wait[priority] ELSE Wait["normal"]

(* Result{RequeueAfter: d}: a zero d is the empty result, no requeue.      *)
MutantNoRetry(e, wait) == UNCHANGED timer

RequeueAfter(e, wait) ==
    IF wait > 0 THEN AddAfter(e, "retry") ELSE UNCHANGED timer

(***************************************************************************)
(* Reconcile, up to the call of Send.                                      *)
(***************************************************************************)
MutantSentIsDelivered(v) == DeliveredStatus(v) = "True"

IsEmailAlreadySent(v) == v.providerID # 0 \/ DeliveredStatus(v) = "True"

Take(e) == worker = Idle /\ e \in queue /\ queue' = queue \ {e}

StartReconcile(e) ==
    /\ Take(e)
    /\ worker' = IF Exists(Cached(e)) /\ ~IsEmailAlreadySent(Cached(e))
                 THEN [step |-> "send", email |-> e, read |-> ctrlAt[e]]
                 ELSE Idle
    /\ UNCHANGED <<ctrlAt, timer>>
    /\ UNCHANGED worldVars

(* The template or the recipient cannot be read: an error, even if sent.   *)
LookupFails(e) ==
    /\ Take(e)
    /\ Exists(Cached(e))
    /\ Disturb
    /\ AddAfter(e, "backoff")
    /\ UNCHANGED <<ctrlAt, worker>>
    /\ UNCHANGED <<log, lastUid, messages, events>>

(***************************************************************************)
(* Service.Send and ResendEmailProvider.SendEmail.  The answer may be      *)
(* lost after Resend accepted; the code cannot tell that from a rejection. *)
(***************************************************************************)
Sending == At(worker.email, worker.read)

SendAccepted ==
    /\ worker.step = "send"
    /\ \E id \in AcceptedIds :
        /\ Accept(worker.email, Sending.uid, id)
        /\ worker' = [step |-> "record", email |-> worker.email,
                      read |-> worker.read, id |-> id]
    /\ UNCHANGED <<ctrlAt, queue, timer>>
    /\ UNCHANGED <<log, lastUid, events, spare>>

SendFails(text, accepted) ==
    /\ worker.step = "send"
    /\ Disturb
    /\ IF accepted
       THEN \E id \in AcceptedIds : Accept(worker.email, Sending.uid, id)
       ELSE UNCHANGED messages
    /\ worker' = [step |-> "fail", email |-> worker.email,
                  read |-> worker.read, text |-> text]
    /\ UNCHANGED <<ctrlAt, queue, timer>>
    /\ UNCHANGED <<log, lastUid, events>>

(***************************************************************************)
(* Reconcile after Send: updateEmailStatus and the result it returns.      *)
(***************************************************************************)
StatusToWrite ==
    IF worker.step = "record"
    THEN [Sending EXCEPT !.providerID = worker.id, !.delivered = "pending"]
    ELSE [Sending EXCEPT !.delivered = worker.text]

(* Read again before the write, on whatever is there by then.              *)
MutantRefetched ==
    LET e == worker.email
    IN  /\ Exists(Current(e))
        /\ log' = [log EXCEPT ![e] = Publish(@,
               IF worker.step = "record"
               THEN [Current(e) EXCEPT !.providerID = worker.id, !.delivered = "pending"]
               ELSE [Current(e) EXCEPT !.delivered = worker.text])]

UpdateEmailStatus ==
    /\ Fresh(log[worker.email], worker.read)
    /\ log' = [log EXCEPT ![worker.email] = Publish(@, StatusToWrite)]

RecordSent ==
    /\ worker.step = "record"
    /\ UpdateEmailStatus
    /\ worker' = Idle
    /\ UNCHANGED <<ctrlAt, queue, timer>>
    /\ UNCHANGED <<lastUid, messages, events, spare>>

RecordFailure ==
    /\ worker.step = "fail"
    /\ UpdateEmailStatus
    /\ worker' = Idle
    /\ RequeueAfter(worker.email, GetWaitTimeBeforeRetry(Priority[worker.email]))
    /\ UNCHANGED <<ctrlAt, queue>>
    /\ UNCHANGED <<lastUid, messages, events, spare>>

(* Conflict, NotFound or an API error: the rate limiter requeues.          *)
StatusUpdateFails ==
    /\ worker.step \in {"record", "fail"}
    /\ \/ ~Fresh(log[worker.email], worker.read) /\ UNCHANGED <<log, spare>>
       \/ Disturb /\ UNCHANGED log
       \/ Disturb /\ UpdateEmailStatus       \* stored, but the answer is lost
    /\ worker' = Idle
    /\ AddAfter(worker.email, "backoff")
    /\ UNCHANGED <<ctrlAt, queue>>
    /\ UNCHANGED <<lastUid, messages, events>>

(***************************************************************************)
(* The manager crashes, or hands its lease over: the new leader relists,   *)
(* from an API server replica that may lag, and enqueues all it finds.     *)
(***************************************************************************)
RestartManager ==
    /\ Disturb
    /\ \E at \in [Emails -> UNION {0..Len(log[e]) : e \in Emails}] :
        /\ \A e \in Emails : at[e] <= Len(log[e])
        /\ ctrlAt' = at
        /\ queue' = {e \in Emails : Exists(At(e, at[e]))}
    /\ timer' = [e \in Emails |-> "none"]
    /\ worker' = Idle
    /\ UNCHANGED <<log, lastUid, messages, events>>

InformerNext == \E e \in Emails : Observe(e)
QueueNext == \E e \in Emails : TimerFires(e)
ReconcileNext ==
    \/ \E e \in Emails : StartReconcile(e)
    \/ SendAccepted
    \/ RecordSent \/ RecordFailure \/ StatusUpdateFails
CtrlDisturbed ==
    \/ \E e \in Emails : Resync(e) \/ LookupFails(e)
    \/ \E text \in Failures, accepted \in BOOLEAN : SendFails(text, accepted)
    \/ RestartManager

CtrlNext == InformerNext \/ QueueNext \/ ReconcileNext \/ CtrlDisturbed

============================================================================
