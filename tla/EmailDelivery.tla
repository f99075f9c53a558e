---------------------------- MODULE EmailDelivery ----------------------------
(***************************************************************************)
(* The life of an Email: the controller hands it to Resend and records the *)
(* message's id; the webhook server, finding the Email by that id, records *)
(* what Resend reports.  Both write the same status from stale caches.     *)
(***************************************************************************)
EXTENDS EmailController, EmailWebhook

vars == <<worldVars, ctrlVars, hookVars>>

Init == WorldInit /\ CtrlInit /\ HookInit

Next ==
    \/ WorldNext /\ UNCHANGED <<ctrlVars, hookVars>>
    \/ CtrlNext /\ UNCHANGED hookVars
    \/ HookNext /\ UNCHANGED ctrlVars

Spec == Init /\ [][Next]_vars

(***************************************************************************)
(* Fairness: the informers deliver what was published, the queue's timers  *)
(* fire, the controller's worker goroutine takes every queued Email and    *)
(* every call it makes returns.  Nothing is assumed of the users, of       *)
(* Resend's reports, of faults or of the handlers.                         *)
(***************************************************************************)
Fairness ==
    /\ \A e \in Emails :
        /\ WF_vars(Observe(e) /\ UNCHANGED hookVars)
        /\ WF_vars(TimerFires(e) /\ UNCHANGED hookVars)
        /\ SF_vars(StartReconcile(e) /\ UNCHANGED hookVars)
    /\ WF_vars((SendAccepted \/ RecordSent \/ RecordFailure \/ StatusUpdateFails)
               /\ UNCHANGED hookVars)

FairSpec == Spec /\ Fairness

TypeOK ==
    /\ log \in [Emails -> Seq(Version)]
    /\ lastUid \in Nat
    /\ messages \in Seq(Message)
    /\ events \subseteq (DOMAIN messages) \X AllowedEvents
    /\ spare \in Nat
    /\ ctrlAt \in [Emails -> Nat]
    /\ queue \subseteq Emails
    /\ timer \in [Emails -> Timers]
    /\ worker \in WorkerStates
    /\ hookAt \in [Emails -> Nat]
    /\ handler \in [Handlers -> HandlerStates]
    /\ announced \subseteq Announcement
    /\ deliveries \in Nat

Versions(e) == DOMAIN log[e]

(***************************************************************************)
(* "In case of a failure updating the status, the email won't be sent      *)
(* again, and the return value from EmailProvider.Send will be the same    *)
(* one as the original one."  The code does not keep this: Resend accepts  *)
(* a message for every attempt that reaches it.                            *)
(***************************************************************************)
OneMessagePerEmail ==
    \A m, n \in DOMAIN messages : messages[m].uid = messages[n].uid => m = n

(***************************************************************************)
(* Of all the messages that retries, crashes and stale reads make Resend   *)
(* accept for one Email object, the first to be recorded stays the one on  *)
(* record: no later attempt, which has another id, replaces it, so reports *)
(* of the recorded message keep finding the Email.                         *)
(***************************************************************************)
RecordedIdIsKept ==
    \A e \in Emails : \A i, j \in Versions(e) :
        /\ i < j
        /\ log[e][i].providerID # 0
        /\ log[e][j].uid = log[e][i].uid
        => log[e][j].providerID = log[e][i].providerID

(***************************************************************************)
(* The providerID a controller wrote names a message that Resend accepted  *)
(* for that very object: never another Email's, nor that of an earlier     *)
(* Email of the same name which was deleted while Send was in progress.    *)
(***************************************************************************)
RecordedIdIsTheMessage ==
    \A e \in Emails : \A i \in Versions(e) :
        log[e][i].providerID # 0 =>
            /\ log[e][i].providerID \in DOMAIN messages
            /\ messages[log[e][i].providerID].email = e
            /\ messages[log[e][i].providerID].uid = log[e][i].uid

(***************************************************************************)
(* Event correlation, end to end: a status that a webhook wrote is one     *)
(* that Resend reported of the message the Email has on record.            *)
(***************************************************************************)
StatusIsResendsReport ==
    \A e \in Emails : \A i \in Versions(e) :
        log[e][i].delivered \in AllowedEvents =>
            <<log[e][i].providerID, log[e][i].delivered>> \in events

(***************************************************************************)
(* "We set this ONLY on the first successful send so that future webhook   *)
(* updates (Delivered / Failed) are not overwritten by subsequent          *)
(* reconciliations": once a webhook has set the status of an Email, every  *)
(* later status of the same object was set by a webhook and keeps the      *)
(* recorded message.                                                       *)
(***************************************************************************)
WebhookStatusNotOverwritten ==
    \A e \in Emails : \A i, j \in Versions(e) :
        /\ i < j
        /\ log[e][i].delivered \in AllowedEvents
        /\ log[e][j].uid = log[e][i].uid
        => /\ log[e][j].delivered \in AllowedEvents
           /\ log[e][j].providerID = log[e][i].providerID

(***************************************************************************)
(* A Kubernetes Event is only created for a status the Email really had,   *)
(* although it is created by a second call that may come much later.       *)
(***************************************************************************)
AnnouncedWasRecorded ==
    \A a \in announced : \E e \in Emails : \E i \in Versions(e) :
        log[e][i] = [uid |-> a.uid, providerID |-> a.msg, delivered |-> a.type]

(***************************************************************************)
(* No Email is forgotten: while one is not recorded as sent it is queued,  *)
(* waiting for a timer, being reconciled, or the manager has yet to see a  *)
(* version of it.  The retry after a failed Send rests on this, and it     *)
(* rests on every wait being positive.                                     *)
(***************************************************************************)
WaitsArePositive ==
    \A e \in Emails : GetWaitTimeBeforeRetry(Priority[e]) > 0

NoEmailStranded ==
    \A e \in Emails :
        Exists(Current(e)) /\ Current(e).providerID = 0 =>
            \/ e \in queue
            \/ timer[e] # "none"
            \/ worker # Idle /\ worker.email = e
            \/ ctrlAt[e] < Len(log[e])

(***************************************************************************)
(* What the safety properties rest on.  PositionsOK: caches and readers    *)
(* stay within the log.  Accounts: what a published version and an         *)
(* accepted message may look like.  InProgress: what the controller and    *)
(* the handlers have read is still true of the version they read.          *)
(***************************************************************************)
PositionsOK ==
    /\ \A e \in Emails : ctrlAt[e] <= Len(log[e]) /\ hookAt[e] <= Len(log[e])
    /\ worker # Idle => worker.read \in Versions(worker.email)
    /\ \A h \in Handlers : handler[h].step = "update" =>
            handler[h].read \in Versions(handler[h].email)

Accounts ==
    /\ \A e \in Emails : \A i \in Versions(e) :
        /\ log[e][i].uid <= lastUid
        /\ log[e][i].uid = 0 => log[e][i] = Absent
        /\ log[e][i].delivered \in AllowedEvents => log[e][i].providerID # 0
    /\ \A e, f \in Emails : \A i \in Versions(e), j \in Versions(f) :
        log[e][i].uid = log[f][j].uid /\ log[e][i].uid # 0 => e = f
    /\ \A n \in DOMAIN messages :
        /\ messages[n].uid # 0
        /\ \E i \in Versions(messages[n].email) :
             log[messages[n].email][i].uid = messages[n].uid

InProgress ==
    /\ worker # Idle => Exists(Sending) /\ Sending.providerID = 0
    /\ worker.step = "record" =>
        /\ worker.id \in DOMAIN messages
        /\ messages[worker.id].email = worker.email
        /\ messages[worker.id].uid = Sending.uid
    /\ \A h \in Handlers :
        /\ handler[h].step = "update" =>
            /\ Subject(h).providerID = handler[h].msg
            /\ handler[h].msg # 0
            /\ <<handler[h].msg, handler[h].type>> \in events
        /\ handler[h].step = "announce" =>
            \E e \in Emails : \E i \in Versions(e) :
                log[e][i] = [uid |-> handler[h].uid, providerID |-> handler[h].msg,
                             delivered |-> handler[h].type]

IInv ==
    /\ TypeOK /\ PositionsOK /\ Accounts /\ InProgress
    /\ RecordedIdIsTheMessage /\ RecordedIdIsKept /\ StatusIsResendsReport
    /\ WebhookStatusNotOverwritten /\ AnnouncedWasRecorded

(***************************************************************************)
(* The abstract account that all of this implements: what every name's     *)
(* current Email shows, and what Resend has accepted and reported.         *)
(***************************************************************************)
Ledger == INSTANCE EmailLedger WITH
    record <- [e \in Emails |-> Current(e)],
    uids <- 1..lastUid,
    sent <- [n \in DOMAIN messages |-> messages[n].uid],
    reports <- events

(***************************************************************************)
(* Every step the controller, the handlers, users, Resend and the faults   *)
(* take is a step of the ledger or changes nothing in it.                  *)
(***************************************************************************)
ImplementsLedger == Ledger!Spec

(***************************************************************************)
(* The configured delay is respected: Send is not called for an Email      *)
(* whose wait before the retry is still running ("The wait time before     *)
(* retrying a ... priority email").                                        *)
(***************************************************************************)
RetryWaitIsRespected ==
    [][\A e \in Emails :
        timer[e] = "retry" =>
            ~(/\ worker = Idle
              /\ worker'.step = "send"
              /\ worker'.email = e)]_vars

(***************************************************************************)
(* Every Email is eventually recorded as sent, unless it is deleted: the   *)
(* faults, conflicts and crashes that come in between only delay it.       *)
(***************************************************************************)
EventuallyRecorded ==
    \A e \in Emails :
        Exists(Current(e)) ~>
            ~Exists(Current(e)) \/ Current(e).providerID # 0

============================================================================
