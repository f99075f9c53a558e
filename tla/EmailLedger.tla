---------------------------- MODULE EmailLedger -----------------------------
(***************************************************************************)
(* What the e-mail provider promises to whoever looks at an Email and at   *)
(* Resend, without caches, queues, retries or handlers: an account of one  *)
(* record per name and of the messages that were accepted.  An object may  *)
(* be handed to Resend more than once, but its record shows one message,   *)
(* of its own, for good, and then only what Resend has reported of it.     *)
(***************************************************************************)
EXTENDS ResendEvents, Naturals

CONSTANTS
    Emails,     \* names
    Failures    \* texts of a failed attempt

VARIABLES
    record,     \* record[e]: the Email of that name, as anybody reads it
    uids,       \* the uids of all Emails there ever were
    sent,       \* sent[n]: the uid of the Email that message n was sent for
    reports     \* <<message, type>> pairs Resend has reported

vars == <<record, uids, sent, reports>>

Nothing == [uid |-> 0, providerID |-> 0, delivered |-> "none"]

Init ==
    /\ record = [e \in Emails |-> Nothing]
    /\ uids = {}
    /\ sent = << >>
    /\ reports = {}

Create(e) ==
    /\ record[e] = Nothing
    /\ record'[e].uid \notin uids \cup {0}
    /\ record' = [record EXCEPT ![e] = [Nothing EXCEPT !.uid = record'[e].uid]]
    /\ uids' = uids \cup {record'[e].uid}
    /\ UNCHANGED <<sent, reports>>

Delete(e) ==
    /\ record' = [record EXCEPT ![e] = Nothing]
    /\ UNCHANGED <<uids, sent, reports>>

(* A message is of an object that there is or was.                         *)
Send ==
    /\ \E n \in DOMAIN sent' \ DOMAIN sent :
        /\ sent' = [m \in DOMAIN sent \cup {n} |-> IF m = n THEN sent'[n] ELSE sent[m]]
        /\ sent'[n] \in uids
    /\ UNCHANGED <<record, uids, reports>>

Report(n, type) ==
    /\ n \in DOMAIN sent
    /\ reports' = reports \cup {<<n, type>>}
    /\ UNCHANGED <<record, uids, sent>>

(***************************************************************************)
(* What a record may come to show.  Until a message is on record: that an  *)
(* attempt failed, or the message; then what is reported of the message.   *)
(***************************************************************************)
Shows(e, v) ==
    \/ /\ record[e].providerID = 0
       /\ \/ v.delivered \in Failures /\ v.providerID = 0
          \/ /\ v.delivered = "pending"
             /\ v.providerID \in DOMAIN sent
             /\ sent[v.providerID] = record[e].uid
    \/ /\ record[e].providerID # 0
       /\ v.providerID = record[e].providerID
       /\ <<v.providerID, v.delivered>> \in reports

Show(e) ==
    /\ record[e] # Nothing
    /\ Shows(e, record'[e])
    /\ record'[e].uid = record[e].uid
    /\ record' = [record EXCEPT ![e] = record'[e]]
    /\ UNCHANGED <<uids, sent, reports>>

Next ==
    \/ \E e \in Emails : Create(e) \/ Delete(e) \/ Show(e)
    \/ Send
    \/ \E n \in DOMAIN sent, type \in AllowedEvents : Report(n, type)

Spec == Init /\ [][Next]_vars

============================================================================
