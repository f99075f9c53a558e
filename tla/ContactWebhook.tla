--------------------------- MODULE ContactWebhook ---------------------------
(***************************************************************************)
(* The webhook server's contact handler (internal/webhook/                 *)
(* contact_webhook.go): it looks the Contact up by provider id in the      *)
(* server's own cache and turns the event into a condition.  Unlike the    *)
(* e-mail handler it answers 200 when it finds none.                       *)
(***************************************************************************)
EXTENDS ContactWorld

CONSTANTS
    Handlers,       \* concurrent requests
    ReportedEvents, \* event types Resend reports in this instance
    MaxDeliveries   \* bound: webhook calls Resend makes

ASSUME ReportedAreContactEvents == ReportedEvents \subseteq AllowedContactEvents
ASSUME MaxDeliveriesIsNat == MaxDeliveries \in Nat

VARIABLES
    hookAt,      \* the position of the webhook server's cache in log
    handler,     \* the request each handler serves
    reported,    \* <<contact, type>> pairs Resend has called the webhook with
    deliveries   \* webhook calls made so far

hookVars == <<hookAt, handler, reported, deliveries>>

Free == [step |-> "free"]
HandlerStates ==
    {Free} \cup [step : {"update"}, read : Nat, id : Nat, type : AllowedContactEvents]

HookInit ==
    /\ hookAt = 0
    /\ handler = [h \in Handlers |-> Free]
    /\ reported = {}
    /\ deliveries = 0

(* What Resend may report of contact n: a deletion once it has happened.   *)
Reports(n) ==
    {type \in ReportedEvents : type = "contact.deleted" => ~contacts[n].live}

(* client.MatchingFields{contactStatusProviderIDIndexKey: id}              *)
MutantIndexIgnored(at, id) == At(at).providerID # 0

IsContactWithProviderID(at, id) == At(at).providerID = id

Receive(h, n, type) ==
    /\ handler[h] = Free
    /\ deliveries < MaxDeliveries
    /\ deliveries' = deliveries + 1
    /\ reported' = reported \cup {<<n, type>>}
    /\ hookAt' \in hookAt..Len(log)
    /\ IF IsContactWithProviderID(hookAt', n)
       THEN handler' = [handler EXCEPT ![h] =
                [step |-> "update", read |-> hookAt', id |-> n, type |-> type]]
       ELSE UNCHANGED handler
    /\ UNCHANGED worldVars

(* The condition the event becomes: while an update waits for confirmation *)
(* every event confirms it.                                                *)
Confirmed(v, type) ==
    IF v.conditions.updated = "UpdatePending" \/ type = "contact.updated"
    THEN [v.conditions EXCEPT !.updated = "Updated", !.updatedAt = v.generation]
    ELSE IF type = "contact.created"
    THEN [v.conditions EXCEPT !.resendReady = "ResendContactCreated"]
    ELSE [v.conditions EXCEPT !.deleted = TRUE]

StoreCondition(h) ==
    LET v == At(handler[h].read)
    IN  /\ Fresh(log, handler[h].read)
        /\ log' = Publish(log, [v EXCEPT !.conditions = Confirmed(v, handler[h].type)])

Finish(h) == handler' = [handler EXCEPT ![h] = Free]

(* Status().Update, then the Kubernetes Event that nothing here reads.     *)
UpdateContact(h) ==
    /\ handler[h].step = "update"
    /\ StoreCondition(h)
    /\ Finish(h)
    /\ UNCHANGED <<hookAt, reported, deliveries, contacts, spare>>

(* 500: the list, the update (stored or not) or the Event failed.          *)
RequestFails(h) ==
    /\ handler[h].step = "update"
    /\ \/ ~Fresh(log, handler[h].read) /\ UNCHANGED <<log, spare>>
       \/ Disturb /\ UNCHANGED log
       \/ Disturb /\ StoreCondition(h)
    /\ Finish(h)
    /\ UNCHANGED <<hookAt, reported, deliveries, contacts>>

RestartWebhookServer ==
    /\ Disturb
    /\ hookAt' \in 0..Len(log)
    /\ handler' = [h \in Handlers |-> Free]
    /\ UNCHANGED <<reported, deliveries, log, contacts>>

HookNext ==
    \/ \E h \in Handlers, n \in DOMAIN contacts :
         \E type \in Reports(n) : Receive(h, n, type)
    \/ \E h \in Handlers : UpdateContact(h) \/ RequestFails(h)
    \/ RestartWebhookServer

============================================================================
