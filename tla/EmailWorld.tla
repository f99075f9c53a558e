----------------------------- MODULE EmailWorld -----------------------------
(***************************************************************************)
(* What the e-mail controller and the webhook server share: the Email      *)
(* objects on the API server, written also by their users, and Resend,     *)
(* which accepts messages and later reports on them.                       *)
(***************************************************************************)
EXTENDS KubeObjects, ResendEvents, FiniteSets

CONSTANTS
    Emails,          \* names of Email objects
    Failures,        \* texts a failed Send can put in the condition
    ReportedEvents,  \* event types Resend reports in this instance
    MaxUid,          \* bound: Email objects ever created
    MaxMessages,     \* bound: messages of one object that are told apart
    MaxDisturbances  \* bound: faults, restarts and resyncs

ASSUME ReportedAreAllowed == ReportedEvents \subseteq AllowedEvents
ASSUME FailuresAreTexts ==
    Failures \cap (AllowedEvents \cup {"none", "pending"}) = {}
ASSUME BoundsAreNats == {MaxUid, MaxMessages, MaxDisturbances} \subseteq Nat

VARIABLES
    log,        \* log[e]: the published versions of Email e
    lastUid,    \* the last metadata.uid given out
    messages,   \* Resend's accepted messages; a message's id is its position
    events,     \* <<message, type>> pairs Resend has called the webhook with
    spare       \* disturbances still allowed

worldVars == <<log, lastUid, messages, events, spare>>

(***************************************************************************)
(* An Email as the code looks at it.  uid 0 is a deleted object,           *)
(* providerID 0 the empty string.  `delivered' is the text of the          *)
(* Delivered condition, which names the writer that set it; "none" is no   *)
(* condition.                                                              *)
(***************************************************************************)
Texts == {"none", "pending"} \cup Failures \cup AllowedEvents
Version == [uid : Nat, providerID : Nat, delivered : Texts]
Absent == [uid |-> 0, providerID |-> 0, delivered |-> "none"]
Message == [email : Emails, uid : Nat]

Exists(v) == v.uid # 0
At(e, i) == VersionAt(log[e], i, Absent)
Current(e) == CurrentOf(log[e], Absent)

(* The status of the Delivered condition: the controller's texts stand for *)
(* Unknown and False, an event's for what GetEmailCondition says.          *)
DeliveredStatus(v) ==
    CASE v.delivered \in AllowedEvents -> GetEmailCondition(v.delivered).status
      [] v.delivered \in Failures      -> "False"
      [] OTHER                         -> "Unknown"

WorldInit ==
    /\ log = [e \in Emails |-> << >>]
    /\ lastUid = 0
    /\ messages = << >>
    /\ events = {}
    /\ spare = MaxDisturbances

Disturb == spare > 0 /\ spare' = spare - 1

(***************************************************************************)
(* The users of the API server.  An Email has no finalizer: deleting it    *)
(* removes it at once, and its name can be used again under a new uid.     *)
(***************************************************************************)
CreateEmail(e) ==
    /\ ~Exists(Current(e))
    /\ lastUid < MaxUid
    /\ lastUid' = lastUid + 1
    /\ log' = [log EXCEPT ![e] = Publish(@, [Absent EXCEPT !.uid = lastUid + 1])]
    /\ UNCHANGED <<messages, events, spare>>

DeleteEmail(e) ==
    /\ Exists(Current(e))
    /\ log' = [log EXCEPT ![e] = Publish(@, Absent)]
    /\ UNCHANGED <<lastUid, messages, events, spare>>

(***************************************************************************)
(* Resend takes each request for a message of its own.  SendEmail puts the *)
(* Email's uid into a header of the message, under the name of an          *)
(* idempotency key, but gives the request none, so that nothing tells      *)
(* Resend that a request repeats an earlier one.                           *)
(*                                                                         *)
(* The bound: past it, a message takes the place of one of the same object *)
(* that is on no record.                                                   *)
(***************************************************************************)
MessagesOf(uid) == {n \in DOMAIN messages : messages[n].uid = uid}
OnRecord(e, n) == \E i \in DOMAIN log[e] : log[e][i].providerID = n

Accept(e, uid, n) ==
    \/ /\ Cardinality(MessagesOf(uid)) < MaxMessages
       /\ n = Len(messages) + 1
       /\ messages' = Append(messages, [email |-> e, uid |-> uid])
    \/ /\ Cardinality(MessagesOf(uid)) >= MaxMessages
       /\ n \in MessagesOf(uid) /\ ~OnRecord(e, n)
       /\ UNCHANGED messages

AcceptedIds == 1..(Len(messages) + 1)

WorldNext == \E e \in Emails : CreateEmail(e) \/ DeleteEmail(e)

============================================================================
