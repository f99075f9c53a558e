---------------------------- MODULE ContactWorld ----------------------------
(***************************************************************************)
(* What the contact controller and the webhook server share: one Contact   *)
(* object on the API server, which its users and the Loops provider write  *)
(* too, and the contacts Resend holds.  Contacts of different names meet   *)
(* nowhere in the code, so one is enough.                                  *)
(***************************************************************************)
EXTENDS KubeObjects, ResendEvents, FiniteSets

CONSTANTS
    Addresses,       \* what spec.email can be
    LoopsInstalled,  \* the Loops operator runs beside this one
    MaxGeneration,   \* bound: edits of the spec stop at this generation
    MaxDisturbances  \* bound: faults, restarts and resyncs

ASSUME ContactBoundsAreNats == MaxGeneration \in Nat /\ MaxDisturbances \in Nat
ASSUME LoopsInstalledIsBoolean == LoopsInstalled \in BOOLEAN
ASSUME NoneIsNoAddress == "none" \notin Addresses

VARIABLES
    log,        \* the published versions of the Contact
    contacts,   \* Resend's contacts; a contact's id is its position
    spare       \* disturbances still allowed

worldVars == <<log, contacts, spare>>

(***************************************************************************)
(* A Contact as the code looks at it.  Of a condition the model keeps what *)
(* some reader tells apart: the reason of ResendContactReady and Updated,  *)
(* the generation Updated and Ready were observed at, whether Deleted and  *)
(* LoopsContactReady are set, and the status of the aggregate Ready.       *)
(***************************************************************************)
Conditions ==
    [resendReady : {"none", "ResendContactPending", "ResendContactCreated"},
     updated : {"none", "Created", "UpdatePending", "Updated"}, updatedAt : Nat,
     deleted : BOOLEAN, loopsReady : BOOLEAN,
     ready : {"none", "True", "False"}, readyAt : Nat]

NoConditions ==
    [resendReady |-> "none", updated |-> "none", updatedAt |-> 0,
     deleted |-> FALSE, loopsReady |-> FALSE, ready |-> "none", readyAt |-> 0]

Version ==
    [generation : Nat, email : Addresses \cup {"none"}, terminating : BOOLEAN,
     finalizer : BOOLEAN, providerID : Nat, conditions : Conditions]

Absent ==
    [generation |-> 0, email |-> "none", terminating |-> FALSE,
     finalizer |-> FALSE, providerID |-> 0, conditions |-> NoConditions]

Exists(v) == v.generation # 0
At(i) == VersionAt(log, i, Absent)
Current == CurrentOf(log, Absent)

WorldInit == log = << >> /\ contacts = << >> /\ spare = MaxDisturbances

Disturb == spare > 0 /\ spare' = spare - 1

(***************************************************************************)
(* The users.  An edit may keep the address and change a name.  A deletion *)
(* waits for the finalizer, and counts as a change of the generation.      *)
(***************************************************************************)
CreateContact(a) ==
    /\ log = << >>
    /\ log' = Publish(log, [Absent EXCEPT !.generation = 1, !.email = a])
    /\ UNCHANGED <<contacts, spare>>

EditContact(a) ==
    /\ Exists(Current)
    /\ Current.generation < MaxGeneration
    /\ log' = Publish(log, [Current EXCEPT !.generation = @ + 1, !.email = a])
    /\ UNCHANGED <<contacts, spare>>

DeleteContact ==
    /\ Exists(Current)
    /\ ~Current.terminating
    /\ log' = Publish(log,
           IF Current.finalizer
           THEN [Current EXCEPT !.generation = @ + 1, !.terminating = TRUE]
           ELSE Absent)
    /\ UNCHANGED <<contacts, spare>>

(* The Loops provider, another operator, reports in the same status: once, *)
(* as a bound, since it would have to notice that its report was undone.   *)
LoopsReports ==
    /\ LoopsInstalled
    /\ Exists(Current)
    /\ \A i \in DOMAIN log : ~log[i].conditions.loopsReady
    /\ log' = Publish(log, [Current EXCEPT !.conditions.loopsReady = TRUE])
    /\ UNCHANGED <<contacts, spare>>

(***************************************************************************)
(* Resend knows a contact by its address: creating it again returns the    *)
(* id it has ("This is an idempotent operation").                          *)
(***************************************************************************)
Live(a) == {n \in DOMAIN contacts : contacts[n].live /\ contacts[n].email = a}

ContactId(a) ==
    IF Live(a) = {} THEN Len(contacts) + 1 ELSE CHOOSE n \in Live(a) : TRUE

StoreContact(a) ==
    contacts' = IF Live(a) = {}
                THEN Append(contacts, [email |-> a, live |-> TRUE])
                ELSE contacts

(* Deleting what is not there is NotFound, which both callers accept.      *)
RemoveContact(n) ==
    contacts' = [m \in DOMAIN contacts |->
                    IF m = n THEN [contacts[m] EXCEPT !.live = FALSE]
                    ELSE contacts[m]]

(* Resend holds the contact on record, with the address it should have.    *)
InSync(v) == v.providerID \in Live(v.email)

WorldNext ==
    \/ \E a \in Addresses : CreateContact(a) \/ EditContact(a)
    \/ DeleteContact
    \/ LoopsReports

============================================================================
