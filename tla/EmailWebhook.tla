---------------------------- MODULE EmailWebhook ----------------------------
(***************************************************************************)
(* The webhook server's e-mail handler (internal/webhook/email_webhook.go) *)
(* behind ServeHTTP: requests run concurrently, each looks its Email up by *)
(* provider id in the server's own cache, updates the status and creates a *)
(* Kubernetes Event.  Here every request is signed by Resend and carries   *)
(* an e-mail event Resend reported: the others never reach the handler.    *)
(***************************************************************************)
EXTENDS EmailWorld

CONSTANTS
    Handlers,       \* concurrent requests
    MaxDeliveries   \* bound: webhook calls Resend makes

ASSUME MaxDeliveriesIsNat == MaxDeliveries \in Nat

VARIABLES
    hookAt,      \* the position of the webhook server's cache in log[e]
    handler,     \* the request each handler serves, or its last answer
    announced,   \* the Kubernetes Events created
    deliveries   \* webhook calls made so far

hookVars == <<hookAt, handler, announced, deliveries>>

Answers == {0, 200, 404, 500}     \* 0: no answer was given
Answered(code) == [step |-> "free", code |-> code]
HandlerStates ==
    [step : {"free"}, code : Answers]
    \cup [step : {"update"}, email : Emails, read : Nat, msg : Nat, type : AllowedEvents]
    \cup [step : {"announce"}, uid : Nat, msg : Nat, type : AllowedEvents]
Announcement == [uid : Nat, msg : Nat, type : AllowedEvents]

Listed(e) == At(e, hookAt[e])

HookInit ==
    /\ hookAt = [e \in Emails |-> 0]
    /\ handler = [h \in Handlers |-> Answered(0)]
    /\ announced = {}
    /\ deliveries = 0

(***************************************************************************)
(* The server's cache follows the log.  Nothing happens when it advances,  *)
(* so it advances as far as it likes whenever it is read.                  *)
(***************************************************************************)
Positions == [Emails -> UNION {0..Len(log[e]) : e \in Emails}]
CacheMoves(at) == \A e \in Emails : at[e] \in hookAt[e]..Len(log[e])
CacheRelists(at) == \A e \in Emails : at[e] \in 0..Len(log[e])

(* client.MatchingFields{"status.providerID": id}, over the cache's index. *)
MutantAnySentEmail(at, id) == {e \in Emails : At(e, at[e]).providerID # 0}

EmailsWithProviderID(at, id) == {e \in Emails : At(e, at[e]).providerID = id}

(* Resend calls the webhook with what it has to report of message n: for   *)
(* the first time, or again, as it does until an answer of 200 arrives.    *)
(* Reports arrive in any order.                                            *)
Called(h, n, type) ==
    /\ handler[h].step = "free"
    /\ deliveries < MaxDeliveries
    /\ deliveries' = deliveries + 1
    /\ events' = events \cup {<<n, type>>}

Receive(h, n, type) ==
    /\ Called(h, n, type)
    /\ \E at \in Positions :
        /\ CacheMoves(at)
        /\ hookAt' = at
        /\ LET emails == EmailsWithProviderID(at, n)
           IN  \/ /\ emails = {}
                  /\ handler' = [handler EXCEPT ![h] = Answered(404)]
               \/ \E e \in emails :
                    handler' = [handler EXCEPT ![h] =
                        [step |-> "update", email |-> e, read |-> at[e],
                         msg |-> n, type |-> type]]
    /\ UNCHANGED announced
    /\ UNCHANGED <<log, lastUid, messages, spare>>

ListFails(h, n, type) ==
    /\ Called(h, n, type)
    /\ Disturb
    /\ handler' = [handler EXCEPT ![h] = Answered(500)]
    /\ UNCHANGED <<hookAt, announced>>
    /\ UNCHANGED <<log, lastUid, messages>>

(***************************************************************************)
(* The status update, on the Email as the cache had it.                    *)
(***************************************************************************)
Subject(h) == At(handler[h].email, handler[h].read)

StoreDelivered(h) ==
    LET e == handler[h].email
    IN  /\ Fresh(log[e], handler[h].read)
        /\ log' = [log EXCEPT ![e] =
                      Publish(@, [Subject(h) EXCEPT !.delivered = handler[h].type])]

MutantErrorIgnored(h) ==
    /\ handler[h].step = "update"
    /\ StoreDelivered(h) \/ UNCHANGED log
    /\ handler' = [handler EXCEPT ![h] =
           [step |-> "announce", uid |-> Subject(h).uid,
            msg |-> handler[h].msg, type |-> handler[h].type]]
    /\ UNCHANGED <<hookAt, announced, deliveries>>
    /\ UNCHANGED <<lastUid, messages, events, spare>>

UpdateDelivered(h) ==
    /\ handler[h].step = "update"
    /\ StoreDelivered(h)
    /\ handler' = [handler EXCEPT ![h] =
           [step |-> "announce", uid |-> Subject(h).uid,
            msg |-> handler[h].msg, type |-> handler[h].type]]
    /\ UNCHANGED <<hookAt, announced, deliveries>>
    /\ UNCHANGED <<lastUid, messages, events, spare>>

UpdateFails(h) ==
    /\ handler[h].step = "update"
    /\ \/ ~Fresh(log[handler[h].email], handler[h].read) /\ UNCHANGED <<log, spare>>
       \/ Disturb /\ UNCHANGED log
       \/ Disturb /\ StoreDelivered(h)       \* stored, but the answer is lost
    /\ handler' = [handler EXCEPT ![h] = Answered(500)]
    /\ UNCHANGED <<hookAt, announced, deliveries>>
    /\ UNCHANGED <<lastUid, messages, events>>

(***************************************************************************)
(* The Kubernetes Event that tells observers of the new status.            *)
(***************************************************************************)
EventOf(h) == [uid |-> handler[h].uid, msg |-> handler[h].msg, type |-> handler[h].type]

CreateEvent(h) ==
    /\ handler[h].step = "announce"
    /\ announced' = announced \cup {EventOf(h)}
    /\ handler' = [handler EXCEPT ![h] = Answered(200)]
    /\ UNCHANGED <<hookAt, deliveries>>
    /\ UNCHANGED worldVars

CreateEventFails(h) ==
    /\ handler[h].step = "announce"
    /\ Disturb
    /\ announced' \in {announced, announced \cup {EventOf(h)}}
    /\ handler' = [handler EXCEPT ![h] = Answered(500)]
    /\ UNCHANGED <<hookAt, deliveries>>
    /\ UNCHANGED <<log, lastUid, messages, events>>

RestartWebhookServer ==
    /\ Disturb
    /\ \E at \in Positions : CacheRelists(at) /\ hookAt' = at
    /\ handler' = [h \in Handlers |-> Answered(0)]
    /\ UNCHANGED <<announced, deliveries>>
    /\ UNCHANGED <<log, lastUid, messages, events>>

HookNext ==
    \/ \E h \in Handlers, n \in DOMAIN messages, type \in ReportedEvents :
         Receive(h, n, type) \/ ListFails(h, n, type)
    \/ \E h \in Handlers :
         \/ UpdateDelivered(h) \/ UpdateFails(h)
         \/ CreateEvent(h) \/ CreateEventFails(h)
    \/ RestartWebhookServer

============================================================================
