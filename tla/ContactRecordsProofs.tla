------------------------- MODULE ContactRecordsProofs -------------------------
(***************************************************************************)
(* What the record of a Contact and the contacts at Resend have to do with *)
(* each other, for every set of addresses and handlers, whatever fails:    *)
(* RecordsOK of ContactInvariants, and what follows without an edit.       *)
(***************************************************************************)
EXTENDS ContactInvariants, ContactSyncProofs

(***************************************************************************)
(* Resend's contacts: none changes its address, one is added only for the  *)
(* version being read and where there is none, and only the contact in the *)
(* worker's hands is deleted.                                              *)
(***************************************************************************)
ContactsChange ==
    /\ DOMAIN contacts \subseteq DOMAIN contacts'
    /\ \A n \in DOMAIN contacts :
         /\ contacts'[n].email = contacts[n].email
         /\ contacts'[n].live => contacts[n].live
         /\ contacts[n].live /\ ~contacts'[n].live =>
              worker.step \in {"replace", "remove"} /\ n = worker.id
    /\ \A m, n \in DOMAIN contacts' \ DOMAIN contacts : m = n
    /\ \A n \in DOMAIN contacts' \ DOMAIN contacts :
         /\ worker.step \in {"create", "recreate"}
         /\ contacts'[n].email = Reading.email
         /\ Live(Reading.email) = {}

LEMMA StoreChange ==
    ASSUME TypeOK, worker.step \in {"create", "recreate"}, Reading.email \in Addresses,
           StoreContact(Reading.email)
    PROVE  /\ ContactsChange
           /\ contacts'[ContactId(Reading.email)].live
           /\ contacts'[ContactId(Reading.email)].email = Reading.email
           /\ ContactId(Reading.email) \in DOMAIN contacts'
<1> DEFINE a == Reading.email
<1>1. /\ contacts \in Seq(Contact) /\ Len(contacts) \in Nat
      /\ DOMAIN contacts = 1..Len(contacts)
  BY DEF TypeOK, Contact
<1>2. CASE Live(a) = {}
  <2> DEFINE c == [email |-> a, live |-> TRUE]
  <2>1. contacts' = Append(contacts, c) /\ ContactId(a) = Len(contacts) + 1
    BY <1>2 DEF StoreContact, ContactId
  <2>2. c \in Contact /\ c.live /\ c.email = a
    BY DEF Contact
  <2> HIDE DEF c
  <2>3. /\ DOMAIN contacts' = 1..(Len(contacts) + 1)
        /\ \A n \in DOMAIN contacts : contacts'[n] = contacts[n]
        /\ contacts'[Len(contacts) + 1] = c
    BY <1>1, <2>1, <2>2
  <2>4. \A n \in DOMAIN contacts' \ DOMAIN contacts : n = Len(contacts) + 1
    BY <1>1, <2>3
  <2> QED
    BY <1>1, <1>2, <2>1, <2>2, <2>3, <2>4 DEF ContactsChange
<1>3. CASE Live(a) # {}
  <2>1. contacts' = contacts /\ ContactId(a) \in Live(a)
    BY <1>3 DEF StoreContact, ContactId
  <2> QED
    BY <2>1 DEF ContactsChange, Live
<1> QED
  BY <1>2, <1>3

LEMMA RemoveChange ==
    ASSUME TypeOK, worker.step \in {"replace", "remove"}, RemoveContact(worker.id)
    PROVE  /\ ContactsChange /\ DOMAIN contacts' = DOMAIN contacts
           /\ worker.id \in DOMAIN contacts => ~contacts'[worker.id].live
<1>0. contacts \in Seq(Contact)
  BY DEF TypeOK, Contact
<1> DEFINE F(m) == IF m = worker.id THEN [contacts[m] EXCEPT !.live = FALSE]
                   ELSE contacts[m]
<1>1. \A m \in DOMAIN contacts : /\ F(m).email = contacts[m].email
                                 /\ m # worker.id => F(m) = contacts[m]
                                 /\ m = worker.id => ~F(m).live
  <2> SUFFICES ASSUME NEW m \in DOMAIN contacts
               PROVE  /\ F(m).email = contacts[m].email
                      /\ m # worker.id => F(m) = contacts[m]
                      /\ m = worker.id => ~F(m).live
    OBVIOUS
  <2>1. contacts[m] \in Contact
    BY <1>0
  <2>2. /\ ~[contacts[m] EXCEPT !.live = FALSE].live
        /\ [contacts[m] EXCEPT !.live = FALSE].email = contacts[m].email
    BY <2>1 DEF Contact
  <2> QED
    BY <2>2
<1>2. contacts' = [m \in DOMAIN contacts |-> F(m)]
  BY DEF RemoveContact
<1> HIDE DEF F
<1>3. DOMAIN contacts' = DOMAIN contacts /\ \A m \in DOMAIN contacts : contacts'[m] = F(m)
  BY <1>2, Zenon
<1> QED
  BY <1>1, <1>3 DEF ContactsChange

LEMMA ContactsChanged ==
    ASSUME IInv, [Next]_vars
    PROVE  ContactsChange
<1>1. TypeOK
  BY DEF IInv
<1>2. CASE UNCHANGED contacts
  BY <1>2 DEF ContactsChange
<1>3. CASE worker.step \in {"create", "recreate"} /\ StoreContact(Reading.email)
  <2>1. worker # Idle
    BY <1>3 DEF Idle
  <2> QED
    BY <1>1, <1>3, <2>1, ReadingFacts, StoreChange
<1>4. CASE worker.step \in {"replace", "remove"} /\ RemoveContact(worker.id)
  BY <1>1, <1>4, RemoveChange
<1> QED
  BY <1>2, <1>3, <1>4, EveryCall

(* A live contact stays so unless the worker has it in hand to delete it.  *)
StaysLive(n, a) ==
    n \in DOMAIN contacts' /\ contacts'[n].live /\ contacts'[n].email = a

LEMMA LiveKept ==
    ASSUME IInv, [Next]_vars, NEW a, NEW n \in Live(a),
           worker.step \in {"replace", "remove"} => n # worker.id
    PROVE  StaysLive(n, a)
  BY ContactsChanged DEF ContactsChange, Live, StaysLive

LEMMA AddressesKept ==
    ASSUME IInv, OnePerAddress, [Next]_vars
    PROVE  OnePerAddress'
<1>1. ContactsChange
  BY ContactsChanged
<1> SUFFICES ASSUME NEW m \in DOMAIN contacts', NEW n \in DOMAIN contacts',
                    contacts'[m].live, contacts'[n].live,
                    contacts'[m].email = contacts'[n].email
             PROVE  m = n
  BY DEF OnePerAddress
<1>2. CASE m \in DOMAIN contacts /\ n \in DOMAIN contacts
  BY <1>1, <1>2 DEF ContactsChange, OnePerAddress
<1>3. CASE m \notin DOMAIN contacts /\ n \in DOMAIN contacts
  BY <1>1, <1>3 DEF ContactsChange, Live
<1>4. CASE m \in DOMAIN contacts /\ n \notin DOMAIN contacts
  BY <1>1, <1>4 DEF ContactsChange, Live
<1>5. CASE m \notin DOMAIN contacts /\ n \notin DOMAIN contacts
  BY <1>1, <1>5 DEF ContactsChange
<1> QED
  BY <1>2, <1>3, <1>4, <1>5


(***************************************************************************)
(* Who writes the Contact, by what a version keeps of the one before it.   *)
(***************************************************************************)
SameSpec(v) ==
    /\ Exists(Current)
    /\ v.generation = Current.generation
    /\ v.email = Current.email /\ v.terminating = Current.terminating

Begins(v) ==
    /\ log = << >> /\ v.generation = 1 /\ v.email \in Addresses /\ ~v.terminating
    /\ v.providerID = 0 /\ v.conditions = NoConditions

Respecifies(v) ==
    /\ Exists(Current)
    /\ v.generation = Current.generation + 1
    /\ v.providerID = Current.providerID /\ v.conditions = Current.conditions
    /\ \/ Current.generation < MaxGeneration /\ v.terminating = Current.terminating
       \/ v.email = Current.email /\ v.terminating /\ ~Current.terminating

Keeps(v) ==
    /\ SameSpec(v) /\ v.providerID = Current.providerID
    /\ v.conditions \in {Current.conditions, [Current.conditions EXCEPT !.loopsReady = TRUE]}

Patches(v) ==
    /\ SameSpec(v) /\ worker.step = "patch"
    /\ v.providerID = IF worker.id = Reading.providerID THEN Current.providerID
                      ELSE worker.id
    /\ v.conditions = IF NewConditions = Reading.conditions THEN Current.conditions
                      ELSE NewConditions

Answers(v) ==
    /\ SameSpec(v) /\ v.providerID = Current.providerID
    /\ \E h \in Handlers :
         /\ handler[h] # Free /\ At(handler[h].read) = Current
         /\ v.conditions = Confirmed(Current, handler[h].type)

Kinds(v) ==
    \/ Begins(v) \/ Respecifies(v) \/ v = Absent
    \/ Keeps(v) \/ Patches(v) \/ Answers(v)

LEMMA UserKinds ==
    ASSUME IInv, NEW v, UserWrites(v)
    PROVE  Kinds(v)
<1>1. Current \in Version
  BY CurrentFacts DEF IInv, TypeOK
<1>2. CASE log = << >> /\ \E a \in Addresses : v = [Absent EXCEPT !.generation = 1, !.email = a]
  BY <1>2 DEF Kinds, Begins, Absent
<1>3. ASSUME Exists(Current), Current.generation < MaxGeneration,
             NEW a \in Addresses, v = [Current EXCEPT !.generation = @ + 1, !.email = a]
      PROVE  Kinds(v)
  <2>1. /\ v.generation = Current.generation + 1 /\ v.providerID = Current.providerID
        /\ v.conditions = Current.conditions /\ v.terminating = Current.terminating
    BY <1>1, <1>3 DEF Version
  <2> QED
    BY <1>3, <2>1 DEF Kinds, Respecifies
<1>4. ASSUME Exists(Current), ~Current.terminating,
             v = [Current EXCEPT !.generation = @ + 1, !.terminating = TRUE]
      PROVE  Kinds(v)
  <2>1. /\ v.generation = Current.generation + 1 /\ v.providerID = Current.providerID
        /\ v.conditions = Current.conditions /\ v.terminating /\ v.email = Current.email
    BY <1>1, <1>4 DEF Version
  <2> QED
    BY <1>4, <2>1 DEF Kinds, Respecifies
<1>5. ASSUME Exists(Current), v = [Current EXCEPT !.conditions.loopsReady = TRUE]
      PROVE  Kinds(v)
  <2> DEFINE c == [Current.conditions EXCEPT !.loopsReady = TRUE]
  <2>1. v = [Current EXCEPT !.conditions = c]
    BY <1>5
  <2> HIDE DEF c
  <2>2. /\ v.generation = Current.generation /\ v.providerID = Current.providerID
        /\ v.conditions = c /\ v.terminating = Current.terminating /\ v.email = Current.email
    BY <1>1, <2>1 DEF Version
  <2> QED
    BY <1>5, <2>2 DEF Kinds, Keeps, SameSpec, c
<1> QED
  BY <1>2, <1>3, <1>4, <1>5 DEF UserWrites, Kinds

LEMMA PatchedFacts ==
    ASSUME IInv, Exists(Current), worker.step = "patch"
    PROVE  Patches(Patched(Current))
<1> DEFINE c == IF NewConditions = Reading.conditions THEN Current.conditions
                ELSE NewConditions
           n == IF worker.id = Reading.providerID THEN Current.providerID
                ELSE worker.id
           v == Patched(Current)
<1>1. Current \in Version
  BY CurrentFacts DEF IInv, TypeOK
<1>2. v = [Current EXCEPT !.conditions = c, !.providerID = n]
  BY DEF Patched
<1> HIDE DEF c, n, v
<1>3. /\ v.generation = Current.generation /\ v.providerID = n
      /\ v.conditions = c /\ v.terminating = Current.terminating /\ v.email = Current.email
  BY <1>1, <1>2 DEF Version
<1> QED
  BY <1>3 DEF Patches, SameSpec, c, n, v

LEMMA WorkerKinds ==
    ASSUME IInv, NEW v, WorkerWrites(v)
    PROVE  Kinds(v)
<1>1. Current \in Version
  BY CurrentFacts DEF IInv, TypeOK
<1>2. worker # Idle
  BY DEF WorkerWrites, Idle
<1>3. CASE worker.step = "adopt" /\ Fresh(log, worker.read)
  <2>1. Exists(Current) /\ v = [Current EXCEPT !.finalizer = TRUE]
    BY <1>2, <1>3, ReadingFacts DEF WorkerWrites, Finalized
  <2>2. /\ v.generation = Current.generation /\ v.providerID = Current.providerID
        /\ v.conditions = Current.conditions /\ v.terminating = Current.terminating
        /\ v.email = Current.email
    BY <1>1, <2>1 DEF Version
  <2> QED
    BY <2>1, <2>2 DEF Kinds, Keeps, SameSpec
<1>4. CASE worker.step = "release"
  BY <1>4 DEF WorkerWrites, Finalized, Kinds
<1>5. CASE worker.step = "patch" /\ Exists(Current) /\ v = Patched(Current)
  BY <1>5, PatchedFacts DEF Kinds
<1> QED
  BY <1>3, <1>4, <1>5 DEF WorkerWrites

LEMMA HandlerKinds ==
    ASSUME IInv, NEW h \in Handlers, NEW v, HandlerWrites(h, v)
    PROVE  Kinds(v)
<1>1. Current \in Version
  BY CurrentFacts DEF IInv, TypeOK
<1>2. handler[h] # Free /\ Fresh(log, handler[h].read)
  BY DEF HandlerWrites, Free
<1> DEFINE c == Confirmed(Current, handler[h].type)
<1>3. /\ Exists(Current) /\ At(handler[h].read) = Current
      /\ v = [Current EXCEPT !.conditions = c]
  BY <1>2, HandlerFacts DEF HandlerWrites
<1> HIDE DEF c
<1>4. /\ v.generation = Current.generation /\ v.providerID = Current.providerID
      /\ v.conditions = c /\ v.terminating = Current.terminating /\ v.email = Current.email
  BY <1>1, <1>3 DEF Version
<1> QED
  BY <1>2, <1>3, <1>4 DEF Kinds, Answers, SameSpec, c

LEMMA VersionStep ==
    ASSUME IInv, [Next]_vars
    PROVE  \/ UNCHANGED log
           \/ /\ UNCHANGED contacts
              /\ \E v \in Version : Follows(v) /\ Kinds(v) /\ log' = Append(log, v)
<1>1. log \in Seq(Version)
  BY DEF IInv, TypeOK
<1>2. ASSUME NEW v, Written(v)
      PROVE  UNCHANGED log \/ (Follows(v) /\ Kinds(v) /\ log' = Append(log, v))
  BY <1>1, <1>2, PublishFacts, UserFollows, WorkerFollows, HandlerFollows,
     UserKinds, WorkerKinds, HandlerKinds DEF Written
<1> QED
  BY <1>2, EveryWrite DEF Follows

(***************************************************************************)
(* The conditions a reconciliation leaves, by what it was about.           *)
(***************************************************************************)
LEMMA NewFacts ==
    ASSUME IInv, worker # Idle
    PROVE  /\ NewConditions.readyAt = Reading.generation
           /\ NewConditions.ready \in {"True", "False"}
           /\ NewConditions.ready = "True" => NewConditions.loopsReady
           /\ FirstStep(Reading) = "create" =>
                /\ NewConditions.resendReady = "ResendContactPending"
                /\ NewConditions.updated = "Created"
                /\ NewConditions.updatedAt = Reading.generation
           /\ FirstStep(Reading) = "replace" =>
                /\ NewConditions.resendReady = Reading.conditions.resendReady
                /\ NewConditions.updated = "UpdatePending"
                /\ NewConditions.updatedAt = Reading.generation
           /\ FirstStep(Reading) = "patch" =>
                /\ NewConditions.resendReady = Reading.conditions.resendReady
                /\ NewConditions.updated = Reading.conditions.updated
                /\ NewConditions.updatedAt = Reading.conditions.updatedAt
<1>1. Reading.conditions \in Conditions /\ Reading.generation \in Nat
  BY ReadingFacts DEF Version
<1> DEFINE c == Reading.conditions
           g == Reading.generation
           p == Processed(Reading)
<1>2. /\ p \in Conditions
      /\ FirstStep(Reading) = "create" =>
           /\ p.resendReady = "ResendContactPending"
           /\ p.updated = "Created" /\ p.updatedAt = g
      /\ FirstStep(Reading) = "replace" =>
           /\ p.resendReady = c.resendReady
           /\ p.updated = "UpdatePending" /\ p.updatedAt = g
      /\ FirstStep(Reading) = "patch" => p = c
  <2> DEFINE q == [c EXCEPT !.resendReady = "ResendContactPending",
                            !.updated = "Created", !.updatedAt = g]
             r == [c EXCEPT !.updated = "UpdatePending", !.updatedAt = g]
  <2>1. /\ q \in Conditions /\ q.resendReady = "ResendContactPending"
        /\ q.updated = "Created" /\ q.updatedAt = g
        /\ r \in Conditions /\ r.resendReady = c.resendReady
        /\ r.updated = "UpdatePending" /\ r.updatedAt = g
    <3>1. c \in Conditions /\ g \in Nat
      BY <1>1
    <3> HIDE DEF c, g
    <3> QED
      BY <3>1 DEF Conditions
  <2>2. p = IF FirstStep(Reading) = "create" THEN q
            ELSE IF FirstStep(Reading) = "replace" THEN r ELSE c
    BY DEF Processed
  <2> HIDE DEF p, q, r
  <2> QED
    BY <1>1, <2>1, <2>2
<1> HIDE DEF p
<1> DEFINE s == IF p.loopsReady /\ p.resendReady # "none" THEN "True" ELSE "False"
<1>3. NewConditions = [p EXCEPT !.ready = s, !.readyAt = g]
  BY DEF NewConditions, VerifyContactReadyCondition, p
<1>4. s \in {"True", "False"} /\ (s = "True" => p.loopsReady)
  BY <1>2 DEF Conditions
<1> HIDE DEF s
<1>5. /\ NewConditions.readyAt = g /\ NewConditions.ready = s
      /\ NewConditions.loopsReady = p.loopsReady
      /\ NewConditions.resendReady = p.resendReady
      /\ NewConditions.updated = p.updated /\ NewConditions.updatedAt = p.updatedAt
  BY <1>2, <1>3 DEF Conditions
<1> QED
  BY <1>2, <1>4, <1>5

LEMMA ConfirmedFacts ==
    ASSUME NEW v \in Version, NEW type
    PROVE  /\ Confirmed(v, type).ready = v.conditions.ready
           /\ Confirmed(v, type).readyAt = v.conditions.readyAt
           /\ Confirmed(v, type).loopsReady = v.conditions.loopsReady
           /\ v.conditions.resendReady # "none" => Confirmed(v, type).resendReady # "none"
           /\ \/ /\ Confirmed(v, type).updated = v.conditions.updated
                 /\ Confirmed(v, type).updatedAt = v.conditions.updatedAt
              \/ /\ v.conditions.updated = "UpdatePending" \/ type = "contact.updated"
                 /\ Confirmed(v, type).updated = "Updated"
                 /\ Confirmed(v, type).updatedAt = v.generation
<1> DEFINE c == v.conditions
           g == v.generation
           x == [c EXCEPT !.updated = "Updated", !.updatedAt = g]
           y == [c EXCEPT !.resendReady = "ResendContactCreated"]
           z == [c EXCEPT !.deleted = TRUE]
<1>1. c \in Conditions
  BY DEF Version
<1>2. /\ x.updated = "Updated" /\ x.updatedAt = g /\ x.resendReady = c.resendReady
      /\ x.ready = c.ready /\ x.readyAt = c.readyAt /\ x.loopsReady = c.loopsReady
      /\ y.updated = c.updated /\ y.updatedAt = c.updatedAt
      /\ y.resendReady = "ResendContactCreated"
      /\ y.ready = c.ready /\ y.readyAt = c.readyAt /\ y.loopsReady = c.loopsReady
      /\ z.updated = c.updated /\ z.updatedAt = c.updatedAt /\ z.resendReady = c.resendReady
      /\ z.ready = c.ready /\ z.readyAt = c.readyAt /\ z.loopsReady = c.loopsReady
  <2> HIDE DEF c, g
  <2> QED
    BY <1>1 DEF Conditions
<1>3. Confirmed(v, type) =
        IF c.updated = "UpdatePending" \/ type = "contact.updated" THEN x
        ELSE IF type = "contact.created" THEN y ELSE z
  BY DEF Confirmed
<1> HIDE DEF x, y, z
<1> QED
  BY <1>2, <1>3

LEMMA KeepsFacts ==
    ASSUME NEW v, Current \in Version, Keeps(v)
    PROVE  /\ v.conditions.ready = Current.conditions.ready
           /\ v.conditions.readyAt = Current.conditions.readyAt
           /\ v.conditions.resendReady = Current.conditions.resendReady
           /\ v.conditions.updated = Current.conditions.updated
           /\ v.conditions.updatedAt = Current.conditions.updatedAt
           /\ Current.conditions.loopsReady => v.conditions.loopsReady
<1> DEFINE c == Current.conditions
           d == [c EXCEPT !.loopsReady = TRUE]
<1>1. c \in Conditions
  BY DEF Version
<1>2. /\ d.ready = c.ready /\ d.readyAt = c.readyAt /\ d.resendReady = c.resendReady
      /\ d.updated = c.updated /\ d.updatedAt = c.updatedAt /\ d.loopsReady
  <2> HIDE DEF c
  <2> QED
    BY <1>1 DEF Conditions
<1>3. v.conditions \in {c, d}
  BY DEF Keeps
<1> HIDE DEF d
<1> QED
  BY <1>2, <1>3

(***************************************************************************)
(* Every record agrees with the ones before it, with itself, and with what *)
(* the worker and the handlers hold.                                       *)
(***************************************************************************)
LEMMA FirstStepFacts ==
    ASSUME NEW v \in Version, RecordAgrees(v)
    PROVE  /\ FirstStep(v) \in {"remove", "adopt", "create", "replace", "patch"}
           /\ FirstStep(v) = "remove" <=> v.terminating
           /\ FirstStep(v) = "create" => v.providerID = 0
           /\ FirstStep(v) = "replace" =>
                Recorded(v) /\ v.conditions.updatedAt # v.generation
           /\ FirstStep(v) = "patch" =>
                Recorded(v) /\ v.conditions.updatedAt = v.generation
  BY DEF FirstStep, RecordAgrees, Recorded, Unrecorded

LEMMA PrecedesTransitive ==
    ASSUME NEW u \in Version, NEW v \in Version, NEW w \in Version,
           Precedes(u, v), Precedes(v, w)
    PROVE  Precedes(u, w)
  BY ContactBoundsAreNats DEF Precedes, Version

LEMMA CurrentRecord ==
    ASSUME IInv, RecordsOK, Exists(Current)
    PROVE  /\ Current \in Version /\ Current.generation \in Nat \ {0}
           /\ RecordAgrees(Current)
           /\ \A i \in DOMAIN log : log[i] \in Version /\ Precedes(log[i], Current)
<1>1. log \in Seq(Version)
  BY DEF IInv, TypeOK
<1>2. /\ Current \in Version /\ Len(log) \in DOMAIN log /\ Current = log[Len(log)]
      /\ DOMAIN log = 1..Len(log)
  BY <1>1, CurrentFacts, CurrentKept
<1>3. \A i \in DOMAIN log : i <= Len(log)
  BY <1>1, <1>2
<1>4. Current.generation \in Nat \ {0}
  BY <1>2 DEF Version, Exists
<1> QED
  BY <1>1, <1>2, <1>3, <1>4 DEF RecordsOK, VersionsFollow

LEMMA ReadingRecord ==
    ASSUME IInv, RecordsOK, worker # Idle
    PROVE  /\ Reading \in Version /\ Reading.generation \in Nat \ {0}
           /\ worker.read \in DOMAIN log /\ Reading = log[worker.read]
           /\ RecordAgrees(Reading)
           /\ Exists(Current) => Precedes(Reading, Current)
<1>1. worker.read \in DOMAIN log /\ Reading = log[worker.read]
      /\ Reading \in Version /\ Exists(Reading)
  BY ReadingFacts
<1>2. Reading.generation \in Nat \ {0}
  BY <1>1 DEF Version, Exists
<1> QED
  BY <1>1, <1>2, CurrentRecord DEF RecordsOK

(* The patch of a reconciliation, by what that was about.                  *)
RecordsNew(v) ==
    /\ v.providerID = worker.id /\ worker.id \in Live(Reading.email)
    /\ v.conditions.resendReady # "none"
    /\ v.conditions.updatedAt = Reading.generation
    /\ v.conditions.readyAt = Reading.generation
    /\ v.conditions.ready = "True" => v.conditions.loopsReady
    /\ \/ /\ FirstStep(Reading) = "create" /\ Reading.providerID = 0
          /\ v.conditions.updated = "Created"
       \/ /\ FirstStep(Reading) = "replace" /\ Recorded(Reading)
          /\ Reading.conditions.updatedAt # Reading.generation
          /\ ~contacts[Reading.providerID].live
          /\ v.conditions.updated = "UpdatePending"

RecordsSame(v) ==
    /\ v.providerID = Current.providerID
    /\ FirstStep(Reading) = "patch" /\ Recorded(Reading)
    /\ Reading.conditions.updatedAt = Reading.generation
    /\ \/ v.conditions = Current.conditions
       \/ /\ v.conditions.resendReady # "none"
          /\ v.conditions.updated = Reading.conditions.updated
          /\ v.conditions.updatedAt = Reading.generation
          /\ v.conditions.readyAt = Reading.generation
          /\ v.conditions.ready = "True" => v.conditions.loopsReady

LEMMA PatchKinds ==
    ASSUME IInv, RecordsOK, NEW v, Patches(v)
    PROVE  worker # Idle /\ (RecordsNew(v) \/ RecordsSame(v))
<1>1. worker # Idle /\ worker.step = "patch"
  BY DEF Patches, Idle
<1>2. Reading \in Version /\ RecordAgrees(Reading) /\ Reading.generation \in Nat \ {0}
  BY <1>1, ReadingRecord
<1>3. FirstStep(Reading) \in {"create", "replace", "patch"}
  BY <1>1 DEF RecordsOK, InHand, Purpose
<1>4. CASE FirstStep(Reading) = "patch"
  <2>1. worker.id = Reading.providerID
    BY <1>1, <1>4 DEF RecordsOK, InHand, HoldsNew
  <2>2. Recorded(Reading) /\ Reading.conditions.updatedAt = Reading.generation
    BY <1>2, <1>4, FirstStepFacts
  <2>3. v.conditions = Current.conditions \/ v.conditions = NewConditions
    BY DEF Patches
  <2> QED
    BY <1>1, <1>4, <2>1, <2>2, <2>3, NewFacts DEF Patches, RecordsSame, Recorded
<1>5. CASE FirstStep(Reading) \in {"create", "replace"}
  <2>1. worker.id \in Live(Reading.email)
    BY <1>1, <1>5 DEF RecordsOK, InHand, HoldsNew
  <2>2. worker.id # 0 /\ contacts[worker.id].live
    BY <2>1 DEF Live, IInv, TypeOK
  <2>3. CASE FirstStep(Reading) = "create"
    <3>1. Reading.providerID = 0 /\ Reading.conditions.updated # "Created"
      BY <1>2, <2>3, FirstStepFacts DEF RecordAgrees, Unrecorded, Recorded
    <3>2. v.providerID = worker.id /\ v.conditions = NewConditions
      BY <1>1, <2>2, <2>3, <3>1, NewFacts DEF Patches
    <3> QED
      BY <1>1, <2>1, <2>3, <3>1, <3>2, NewFacts DEF RecordsNew
  <2>4. CASE FirstStep(Reading) = "replace"
    <3>1. Recorded(Reading) /\ Reading.conditions.updatedAt # Reading.generation
      BY <1>2, <2>4, FirstStepFacts
    <3>2. ~contacts[Reading.providerID].live
      BY <1>1, <2>4 DEF RecordsOK, InHand, HasReplaced
    <3>3. v.providerID = worker.id /\ v.conditions = NewConditions
      BY <1>1, <2>2, <2>4, <3>1, <3>2, NewFacts DEF Patches
    <3> QED
      BY <1>1, <2>1, <2>4, <3>1, <3>2, <3>3, NewFacts DEF RecordsNew, Recorded
  <2> QED
    BY <1>5, <2>3, <2>4
<1> QED
  BY <1>3, <1>4, <1>5

(* The condition a handler writes, on the record it was reported about.    *)
LEMMA AnswerFacts ==
    ASSUME IInv, RecordsOK, NEW v, Answers(v)
    PROVE  /\ Recorded(Current)
           /\ \E type \in AllowedContactEvents : <<v.providerID, type>> \in reported
           /\ v.conditions.resendReady # "none"
           /\ v.conditions.readyAt = Current.conditions.readyAt
           /\ v.conditions.ready = "True" => v.conditions.loopsReady
           /\ \/ /\ v.conditions.updated = Current.conditions.updated
                 /\ v.conditions.updatedAt = Current.conditions.updatedAt
              \/ /\ Current.conditions.updated = "UpdatePending"
                      \/ "contact.updated" \in ReportedEvents
                 /\ v.conditions.updated = "Updated"
                 /\ v.conditions.updatedAt = Current.generation
<1>1. Current \in Version /\ RecordAgrees(Current)
  BY CurrentRecord DEF Answers, SameSpec
<1>2. PICK h \in Handlers : /\ handler[h] # Free /\ At(handler[h].read) = Current
                            /\ v.conditions = Confirmed(Current, handler[h].type)
  BY DEF Answers
<1> DEFINE type == handler[h].type
<1>3. /\ type \in ReportedEvents /\ Current.providerID = handler[h].id
      /\ <<handler[h].id, type>> \in reported
  BY <1>2 DEF RecordsOK, RequestsReported
<1>4. Current.providerID # 0
  <2>1. handler[h].id \in DOMAIN contacts
    BY <1>3 DEF IInv, TypeOK
  <2> QED
    BY <1>3, <2>1 DEF IInv, TypeOK
<1>5. Recorded(Current)
  BY <1>1, <1>4 DEF RecordAgrees, Unrecorded
<1>6. type \in AllowedContactEvents /\ <<v.providerID, type>> \in reported
  BY <1>3, ReportedAreContactEvents DEF Answers
<1>7. v.conditions = Confirmed(Current, type)
  BY <1>2
<1> HIDE DEF type
<1> QED
  BY <1>1, <1>3, <1>5, <1>6, <1>7, ConfirmedFacts DEF Recorded

LEMMA CurrentPrecedes ==
    ASSUME IInv, RecordsOK, NEW v \in Version, Kinds(v), Exists(v), log # << >>
    PROVE  Exists(Current) /\ Precedes(Current, v)
<1>1. Exists(Current)
  BY AbsentIsVersion DEF Kinds, Begins, Respecifies, Keeps, Patches, Answers, SameSpec
<1>2. Current \in Version /\ RecordAgrees(Current) /\ Current.generation \in Nat \ {0}
  BY <1>1, CurrentRecord
<1>3. CASE Respecifies(v)
  BY <1>2, <1>3, ContactBoundsAreNats DEF Respecifies, Precedes
<1>4. CASE Keeps(v) \/ Answers(v)
  BY <1>2, <1>4 DEF Keeps, Answers, SameSpec, Precedes
<1>5. CASE Patches(v)
  <2>1. v.providerID # 0 \/ v.providerID = Current.providerID
    BY <1>5, PatchKinds DEF RecordsNew, RecordsSame, Live, IInv, TypeOK
  <2> QED
    BY <1>2, <1>5, <2>1 DEF Patches, SameSpec, Precedes
<1> QED
  BY <1>1, <1>3, <1>4, <1>5, AbsentIsVersion DEF Kinds, Begins

LEMMA VersionsStep ==
    ASSUME IInv, RecordsOK, [Next]_vars
    PROVE  VersionsFollow'
<1>1. log \in Seq(Version) /\ VersionsFollow
  BY DEF IInv, TypeOK, RecordsOK
<1>2. CASE UNCHANGED log
  BY <1>1, <1>2 DEF VersionsFollow, EditsSpec, Exists, Precedes
<1>3. ASSUME NEW v \in Version, Follows(v), Kinds(v), log' = Append(log, v)
      PROVE  VersionsFollow'
  <2>1. /\ Len(log) \in Nat
        /\ DOMAIN log = 1..Len(log) /\ DOMAIN log' = 1..(Len(log) + 1)
        /\ \A i \in DOMAIN log : log'[i] = log[i]
        /\ log'[Len(log) + 1] = v
    BY <1>1, <1>3, AppendFacts
  <2>2. \A i \in DOMAIN log' : i \in DOMAIN log \/ i = Len(log) + 1
    BY <2>1
  <2>3. ASSUME NEW i \in DOMAIN log', NEW j \in DOMAIN log', i <= j, Exists(log'[j])
        PROVE  Precedes(log'[i], log'[j])
    <3>1. CASE j \in DOMAIN log
      <4>1. i \in DOMAIN log
        BY <2>1, <2>3, <3>1
      <4> QED
        BY <1>1, <2>1, <2>3, <3>1, <4>1 DEF VersionsFollow
    <3>2. CASE j = Len(log) + 1 /\ i \in DOMAIN log
      <4>1. log # << >> /\ log'[j] = v /\ Exists(v) /\ log'[i] = log[i]
        BY <2>1, <2>3, <3>2
      <4>2. Exists(Current) /\ Precedes(Current, v)
        BY <1>3, <4>1, CurrentPrecedes
      <4>3. Current \in Version /\ log[i] \in Version /\ Precedes(log[i], Current)
        BY <3>2, <4>2, CurrentRecord
      <4> QED
        BY <1>3, <4>1, <4>2, <4>3, PrecedesTransitive
    <3>3. CASE j = Len(log) + 1 /\ i = j
      BY <1>3, <2>1, <3>3 DEF Precedes, Version
    <3> QED
      BY <2>1, <2>2, <2>3, <3>1, <3>2, <3>3
  <2>4. ASSUME NEW i \in DOMAIN log', i > 1,
               log'[i].generation > log'[i - 1].generation, ~log'[i].terminating
        PROVE  log'[i].providerID = log'[i - 1].providerID
    <3>1. i - 1 \in DOMAIN log /\ log'[i - 1] = log[i - 1]
      BY <2>1, <2>4
    <3>2. CASE i \in DOMAIN log
      BY <1>1, <2>1, <2>4, <3>1, <3>2 DEF VersionsFollow, EditsSpec
    <3>3. CASE i = Len(log) + 1
      <4>1. log'[i] = v /\ log[i - 1] = Current /\ log # << >>
        BY <1>1, <2>1, <3>1, <3>3, CurrentFacts
      <4>2. v.generation > Current.generation /\ Current \in Version
        BY <1>1, <2>4, <3>1, <4>1, CurrentFacts
      <4>3. v # Absent /\ v.generation # Current.generation
        <5>1. Current.generation \in Nat /\ v.generation \in Nat
          BY <4>2 DEF Version
        <5>2. v.generation # 0 /\ v.generation # Current.generation
          BY <4>2, <5>1
        <5> QED
          BY <5>2, AbsentIsVersion DEF Exists
      <4>4. Respecifies(v)
        BY <1>3, <4>1, <4>3 DEF Kinds, Begins, Keeps, Patches, Answers, SameSpec
      <4> QED
        BY <3>1, <4>1, <4>4 DEF Respecifies
    <3> QED
      BY <2>2, <2>4, <3>2, <3>3
  <2> QED
    BY <2>3, <2>4 DEF VersionsFollow, EditsSpec, Exists, Precedes
<1> QED
  BY <1>2, <1>3, VersionStep

LEMMA RecordStep ==
    ASSUME IInv, RecordsOK, NEW v \in Version, Kinds(v)
    PROVE  RecordAgrees(v)
<1>1. CASE Begins(v) \/ v = Absent
  BY <1>1, ContactBoundsAreNats
     DEF Begins, Absent, NoConditions, RecordAgrees, Unrecorded
<1>2. CASE SameSpec(v) \/ Respecifies(v)
  <2>1. /\ Current \in Version /\ RecordAgrees(Current) /\ Current.generation \in Nat \ {0}
        /\ Current.conditions.updatedAt \in Nat
    BY <1>2, CurrentRecord DEF SameSpec, Respecifies, Version, Conditions
  <2>2. CASE Respecifies(v)
    BY <2>1, <2>2, ContactBoundsAreNats
       DEF Respecifies, RecordAgrees, Recorded, Unrecorded
  <2>3. CASE Keeps(v)
    BY <2>1, <2>3, KeepsFacts DEF Keeps, SameSpec, RecordAgrees, Recorded, Unrecorded
  <2>4. CASE Answers(v)
    <3>1. Recorded(v)
      BY <2>1, <2>4, AnswerFacts DEF Answers, SameSpec, Recorded
    <3> QED
      BY <2>1, <2>4, <3>1 DEF Answers, SameSpec, RecordAgrees
  <2>5. CASE Patches(v)
    <3>1. worker # Idle /\ (RecordsNew(v) \/ RecordsSame(v)) /\ SameSpec(v)
      BY <2>5, PatchKinds DEF Patches
    <3>2. /\ Reading.generation \in Nat \ {0} /\ Precedes(Reading, Current)
          /\ Reading.conditions.updated # "none" \/ ~Recorded(Reading)
      BY <1>2, <3>1, ReadingRecord DEF SameSpec, Recorded
    <3>3. CASE RecordsNew(v)
      <4>1. v.providerID # 0 /\ contacts[v.providerID].email = Reading.email
        BY <3>3 DEF RecordsNew, Live, IInv, TypeOK
      <4>2. Recorded(v)
        BY <2>1, <3>1, <3>2, <3>3, <4>1 DEF RecordsNew, Recorded, SameSpec, Precedes
      <4>3. v.generation = 1 => Reading.email = Current.email
        BY <2>1, <3>1, <3>2 DEF SameSpec, Precedes
      <4> QED
        BY <2>1, <3>1, <4>1, <4>2, <4>3 DEF SameSpec, RecordAgrees
    <3>4. CASE RecordsSame(v)
      <4>1. Recorded(Current)
        BY <2>1, <3>2, <3>4 DEF RecordsSame, Recorded, RecordAgrees, Unrecorded, Precedes
      <4>2. Recorded(v)
        BY <2>1, <3>1, <3>2, <3>4, <4>1 DEF RecordsSame, Recorded, SameSpec, Precedes
      <4> QED
        BY <2>1, <3>1, <3>4, <4>2 DEF RecordsSame, SameSpec, RecordAgrees
    <3> QED
      BY <3>1, <3>3, <3>4
  <2> QED
    BY <1>2, <2>2, <2>3, <2>4, <2>5, <1>1 DEF Kinds, SameSpec, Begins, Exists
<1> QED
  BY <1>1, <1>2 DEF Kinds, Keeps, Patches, Answers

LEMMA AgreesStep ==
    ASSUME IInv, RecordsOK, [Next]_vars
    PROVE  (\A i \in DOMAIN log : RecordAgrees(log[i]))'
<1>1. log \in Seq(Version) /\ History
  BY DEF IInv, TypeOK
<1>2. \A i \in DOMAIN log : RecordAgrees(log[i])'
  <2> SUFFICES ASSUME NEW i \in DOMAIN log
               PROVE  RecordAgrees(log[i])'
    OBVIOUS
  <2>1. log'[i] = log[i] /\ RecordAgrees(log[i])
    BY LogKept DEF RecordsOK
  <2>2. log[i].providerID # 0 =>
          contacts'[log[i].providerID].email = contacts[log[i].providerID].email
    BY <1>1, ContactsChanged DEF History, ContactsChange
  <2> QED
    BY <2>1, <2>2 DEF RecordAgrees, Unrecorded, Recorded
<1>3. CASE UNCHANGED log
  BY <1>2, <1>3
<1>4. ASSUME UNCHANGED contacts, NEW v \in Version, Kinds(v), log' = Append(log, v)
      PROVE  (\A i \in DOMAIN log : RecordAgrees(log[i]))'
  <2>1. RecordAgrees(v)
    BY <1>4, RecordStep
  <2>2. RecordAgrees(v)'
    BY <1>4, <2>1 DEF RecordAgrees, Unrecorded, Recorded
  <2>3. /\ Len(log) \in Nat
        /\ DOMAIN log = 1..Len(log) /\ DOMAIN log' = 1..(Len(log) + 1)
        /\ log'[Len(log) + 1] = v
    BY <1>1, <1>4, AppendFacts
  <2>4. \A i \in DOMAIN log' : i \in DOMAIN log \/ i = Len(log) + 1
    BY <2>3
  <2> QED
    BY <1>2, <2>2, <2>3, <2>4
<1> QED
  BY <1>3, <1>4, VersionStep

LEMMA ReadingKept ==
    ASSUME IInv, [Next]_vars, worker # Idle, worker'.read = worker.read
    PROVE  Reading' = Reading /\ worker.read \in DOMAIN log
<1>1. worker.read \in DOMAIN log /\ Reading = log[worker.read] /\ log \in Seq(Version)
  BY ReadingFacts DEF IInv, TypeOK
<1>2. worker.read \in DOMAIN log' /\ log'[worker.read] = log[worker.read]
      /\ log' \in Seq(Version)
  BY <1>1, LogKept
<1>3. worker.read # 0
  BY <1>1
<1> QED
  BY <1>1, <1>2, <1>3 DEF Reading, At, VersionAt

WorkerSteps ==
    \/ worker' = Idle
    \/ StartReconcile
    \/ /\ worker' = worker /\ UNCHANGED contacts
       /\ queued' = TRUE \/ (queued' = queued /\ ctrlAt' = ctrlAt)
    \/ CreateAtResend \/ DeleteAtResend
    \/ AskMemberships \/ EvictMemberships \/ CheckMemberships

LEMMA EveryWorkerStep == [Next]_vars => WorkerSteps
<1> SUFFICES ASSUME [Next]_vars PROVE WorkerSteps
  OBVIOUS
<1>1. CASE WorldNext /\ UNCHANGED <<ctrlVars, hookVars>>
  BY <1>1 DEF WorldNext, CreateContact, EditContact, DeleteContact, LoopsReports,
              ctrlVars, WorkerSteps
<1>2. CASE HookNext /\ UNCHANGED ctrlVars
  BY <1>2 DEF HookNext, Receive, UpdateContact, RequestFails, RestartWebhookServer,
              ctrlVars, worldVars, WorkerSteps
<1>3. CASE UNCHANGED vars
  BY <1>3 DEF vars, ctrlVars, worldVars, WorkerSteps
<1>4. CASE CtrlNext
  <2>1. CASE Observe \/ Resync
    BY <2>1 DEF Observe, Resync, worldVars, WorkerSteps
  <2>2. CASE UpdateFinalizer \/ UpdateFinalizerFails \/ PatchStatus \/ PatchFails
               \/ CallFails \/ RestartManager
    BY <2>2 DEF UpdateFinalizer, UpdateFinalizerFails, PatchStatus, PatchFails, CallFails,
                RestartManager, Restarted, GiveUp, WorkerSteps
  <2> QED
    BY <1>4, <2>1, <2>2 DEF CtrlNext, ReconcileNext, WorkerSteps
<1> QED
  BY <1>1, <1>2, <1>3, <1>4 DEF Next

LEMMA InHandStep ==
    ASSUME IInv, RecordsOK, [Next]_vars
    PROVE  InHand'
<1>1. TypeOK /\ InHand /\ log' \in Seq(Version)
  BY LogKept DEF IInv, RecordsOK
<1> SUFFICES ASSUME worker' # Idle
             PROVE  /\ ~queued' => worker'.read = ctrlAt'
                    /\ FirstStep(Reading') \in Purpose(worker'.step)
                    /\ HoldsNew' => worker'.id \in Live(Reading.email)'
                    /\ ~HoldsNew' => worker'.id = Reading'.providerID
                    /\ HasReplaced' => ~contacts'[Reading'.providerID].live
  BY DEF InHand, HoldsNew, HasReplaced, Live, Purpose, FirstStep
<1>2. CASE worker' = worker /\ UNCHANGED contacts
             /\ (queued' = TRUE \/ (queued' = queued /\ ctrlAt' = ctrlAt))
  <2>1. Reading' = Reading /\ worker # Idle
    BY <1>2, ReadingKept
  <2> QED
    BY <1>1, <1>2, <2>1 DEF InHand, HoldsNew, HasReplaced, Live
<1>3. CASE StartReconcile
  <2>1. /\ ctrlAt \in DOMAIN log /\ ctrlAt' = ctrlAt /\ log' = log
        /\ worker' = [step |-> FirstStep(log[ctrlAt]), read |-> ctrlAt,
                      id |-> log[ctrlAt].providerID]
    BY <1>3, StartFacts DEF StartReconcile, worldVars
  <2>2. ctrlAt # 0
    BY <1>1, <2>1 DEF TypeOK
  <2>3. Reading' = log[ctrlAt]
    BY <2>1, <2>2 DEF Reading, At, VersionAt
  <2>4. /\ worker'.step = FirstStep(Reading') /\ worker'.id = Reading'.providerID
        /\ worker'.read = ctrlAt'
    BY <2>1, <2>3
  <2>5. FirstStep(Reading') \in {"remove", "adopt", "create", "replace", "patch"}
    BY DEF FirstStep
  <2> QED
    BY <2>4, <2>5 DEF HoldsNew, HasReplaced, Purpose
<1>4. CASE CreateAtResend
  <2>1. worker # Idle /\ worker.step \in {"create", "recreate"}
    BY <1>4 DEF CreateAtResend, Proceed, Idle
  <2>2. /\ Reading.email \in Addresses /\ StoreContact(Reading.email)
        /\ Reading.providerID \in {0} \cup DOMAIN contacts
    BY <1>4, <2>1, ReadingFacts DEF CreateAtResend, IInv, History
  <2>3. /\ contacts'[ContactId(Reading.email)].live
        /\ contacts'[ContactId(Reading.email)].email = Reading.email
        /\ ContactId(Reading.email) \in DOMAIN contacts' /\ ContactsChange
        /\ ContactId(Reading.email) \in Nat
    BY <1>1, <2>1, <2>2, StoreChange, StoreFacts
  <2>4. /\ worker'.id = ContactId(Reading.email) /\ worker'.read = worker.read
        /\ UNCHANGED <<queued, ctrlAt>>
        /\ \/ worker.step = "create" /\ worker'.step = "patch"
           \/ worker.step = "recreate" /\ worker'.step = "ask"
    BY <1>4, <2>3, ProceedFacts DEF CreateAtResend, Steps
  <2>5. Reading' = Reading
    BY <2>1, <2>4, ReadingKept
  <2>6. worker'.id \in Live(Reading.email)'
    BY <2>3, <2>4, <2>5 DEF Live
  <2>7. /\ ~queued => worker.read = ctrlAt
        /\ FirstStep(Reading) \in Purpose(worker.step)
        /\ worker.step = "recreate" => ~contacts[Reading.providerID].live
    BY <1>1, <2>1 DEF InHand, HasReplaced
  <2>8. CASE worker.step = "create"
    BY <2>4, <2>5, <2>6, <2>7, <2>8 DEF HoldsNew, HasReplaced, Purpose
  <2>9. CASE worker.step = "recreate"
    <3>1. FirstStep(Reading) = "replace" /\ worker'.step = "ask"
      BY <2>4, <2>7, <2>9 DEF Purpose
    <3>2. Reading.providerID # 0
      BY <2>1, <3>1, ReadingRecord, FirstStepFacts DEF Recorded
    <3>3. ~contacts'[Reading.providerID].live
      BY <2>2, <2>3, <2>7, <2>9, <3>2 DEF ContactsChange
    <3> QED
      BY <2>4, <2>5, <2>6, <2>7, <3>1, <3>3 DEF HoldsNew, HasReplaced, Purpose
  <2> QED
    BY <2>1, <2>8, <2>9
<1>5. CASE DeleteAtResend
  <2>1. worker # Idle /\ worker.step \in {"replace", "remove"} /\ RemoveContact(worker.id)
    BY <1>5 DEF DeleteAtResend, Proceed, Idle
  <2>2. worker.id \in Nat /\ worker.id \in {0} \cup DOMAIN contacts
    BY <2>1, ReadingFacts
  <2>3. worker.id \in DOMAIN contacts => ~contacts'[worker.id].live
    BY <1>1, <2>1, RemoveChange
  <2>4. /\ worker'.id = worker.id /\ worker'.read = worker.read
        /\ UNCHANGED <<queued, ctrlAt>>
        /\ \/ worker.step = "replace" /\ worker'.step = "recreate"
           \/ worker.step = "remove" /\ worker'.step = "evict"
    BY <1>5, <2>2, ProceedFacts DEF DeleteAtResend, Steps
  <2>5. Reading' = Reading
    BY <2>1, <2>4, ReadingKept
  <2>6. /\ ~queued => worker.read = ctrlAt
        /\ FirstStep(Reading) \in Purpose(worker.step)
        /\ worker.id = Reading.providerID
    BY <1>1, <2>1 DEF InHand, HoldsNew
  <2>7. worker.step = "replace" => worker.id \in DOMAIN contacts
    BY <2>1, <2>2, <2>6, ReadingRecord, FirstStepFacts DEF Recorded, Purpose
  <2> QED
    BY <2>3, <2>4, <2>5, <2>6, <2>7 DEF HoldsNew, HasReplaced, Purpose
<1>6. CASE AskMemberships \/ EvictMemberships \/ CheckMemberships
  <2>1. worker # Idle /\ worker.step \in {"ask", "evict", "check"} /\ contacts' = contacts
    BY <1>6 DEF AskMemberships, EvictMemberships, CheckMemberships, Proceed, Idle
  <2>2. worker.id \in Nat
    BY <2>1, ReadingFacts
  <2>3. /\ worker'.id = worker.id /\ worker'.read = worker.read
        /\ UNCHANGED <<queued, ctrlAt>>
        /\ <<worker.step, worker'.step>> \in
             {<<"ask", "patch">>, <<"evict", "check">>, <<"check", "release">>}
    BY <1>6, <2>2, ProceedFacts
       DEF AskMemberships, EvictMemberships, CheckMemberships, Steps
  <2>4. Reading' = Reading
    BY <2>1, <2>3, ReadingKept
  <2>5. /\ ~queued => worker.read = ctrlAt
        /\ FirstStep(Reading) \in Purpose(worker.step)
        /\ worker.step = "ask" => /\ worker.id \in Live(Reading.email)
                                  /\ ~contacts[Reading.providerID].live
        /\ worker.step # "ask" => worker.id = Reading.providerID
    BY <1>1, <2>1 DEF InHand, HoldsNew, HasReplaced
  <2>6. Live(Reading.email)' = Live(Reading.email)
    BY <2>1, <2>4 DEF Live
  <2>7. CASE worker.step = "ask"
    BY <2>1, <2>3, <2>4, <2>5, <2>6, <2>7 DEF HoldsNew, HasReplaced, Purpose
  <2>8. CASE worker.step \in {"evict", "check"}
    BY <2>1, <2>3, <2>4, <2>5, <2>8 DEF HoldsNew, HasReplaced, Purpose
  <2> QED
    BY <2>1, <2>7, <2>8
<1> QED
  BY <1>2, <1>3, <1>4, <1>5, <1>6, EveryWorkerStep DEF WorkerSteps

LEMMA RequestsStep ==
    ASSUME IInv, RequestsReported, [Next]_vars
    PROVE  RequestsReported'
<1>1. TypeOK /\ handler \in [Handlers -> HandlerStates] /\ log \in Seq(Version)
  BY DEF IInv, TypeOK
<1> SUFFICES ASSUME NEW h \in Handlers, handler'[h] # Free
             PROVE  /\ handler'[h].type \in ReportedEvents
                    /\ At(handler[h].read)'.providerID = handler'[h].id
                    /\ <<handler'[h].id, handler'[h].type>> \in reported'
  BY DEF RequestsReported
<1>2. CASE handler'[h] = handler[h] /\ reported \subseteq reported'
  <2>1. handler[h].read \in DOMAIN log
    BY <1>2, HandlerFacts
  <2>2. log'[handler[h].read] = log[handler[h].read] /\ handler[h].read # 0
    BY <2>1, LogKept
  <2>3. At(handler[h].read)' = At(handler[h].read)
    BY <1>2, <2>2 DEF At, VersionAt
  <2> QED
    BY <1>2, <2>3 DEF RequestsReported
<1>3. CASE UNCHANGED hookVars
  BY <1>2, <1>3 DEF hookVars
<1>4. ASSUME NEW g \in Handlers, NEW n \in DOMAIN contacts, NEW type \in Reports(n),
             Receive(g, n, type)
      PROVE  /\ handler'[h].type \in ReportedEvents
             /\ At(handler[h].read)'.providerID = handler'[h].id
             /\ <<handler'[h].id, handler'[h].type>> \in reported'
  <2> DEFINE r == [step |-> "update", read |-> hookAt', id |-> n, type |-> type]
  <2>1. /\ reported' = reported \cup {<<n, type>>} /\ log' = log
        /\ type \in ReportedEvents
        /\ \/ handler' = handler
           \/ handler' = [handler EXCEPT ![g] = r] /\ At(hookAt').providerID = n
    BY <1>4 DEF Receive, worldVars, Reports, IsContactWithProviderID
  <2>2. CASE handler'[h] = handler[h]
    BY <1>2, <2>1, <2>2
  <2>3. CASE g = h /\ handler' = [handler EXCEPT ![g] = r] /\ At(hookAt').providerID = n
    <3>1. /\ handler'[h].read = hookAt' /\ handler'[h].id = n /\ handler'[h].type = type
      BY <1>1, <2>3
    <3>2. At(handler[h].read)' = At(hookAt')
      BY <2>1, <3>1 DEF At, VersionAt
    <3> QED
      BY <2>1, <2>3, <3>1, <3>2
  <2> QED
    BY <1>1, <2>1, <2>2, <2>3
<1>5. ASSUME NEW g \in Handlers, UpdateContact(g) \/ RequestFails(g)
      PROVE  handler'[h] = handler[h] /\ reported \subseteq reported'
  <2>1. handler' = [handler EXCEPT ![g] = Free] /\ reported' = reported
    BY <1>5 DEF UpdateContact, RequestFails, Finish
  <2> QED
    BY <1>1, <2>1
<1>6. CASE RestartWebhookServer
  BY <1>6 DEF RestartWebhookServer
<1> QED
  BY <1>2, <1>3, <1>4, <1>5, <1>6 DEF Next, HookNext, vars, hookVars

LEMMA RecordsInit == Init => RecordsOK
  BY DEF Init, WorldInit, CtrlInit, HookInit, RecordsOK, VersionsFollow, EditsSpec,
         InHand, OnePerAddress, RequestsReported

LEMMA RecordsStep == IInv /\ RecordsOK /\ [Next]_vars => RecordsOK'
<1> SUFFICES ASSUME IInv, RecordsOK, [Next]_vars
             PROVE  RecordsOK'
  OBVIOUS
<1>1. VersionsFollow' /\ InHand' /\ (\A i \in DOMAIN log : RecordAgrees(log[i]))'
  BY VersionsStep, InHandStep, AgreesStep
<1>2. OnePerAddress' /\ RequestsReported'
  BY AddressesKept, RequestsStep DEF RecordsOK
<1> QED
  BY <1>1, <1>2 DEF RecordsOK

(***************************************************************************)
(* Whatever is edited, fails, restarts or lags: generation, address, id    *)
(* and conditions of a Contact's versions agree with each other and with   *)
(* what the worker and the webhook handlers have in hand, and Resend never *)
(* has two contacts of one address.                                        *)
(***************************************************************************)
THEOREM ContactRecordsAgree == Spec => []RecordsOK
  BY InvariantInit, InvariantStep, RecordsInit, RecordsStep, PTL DEF Spec

(***************************************************************************)
(* Without an edit.                                                        *)
(***************************************************************************)
LEMMA UneditedOnce ==
    ASSUME MaxGeneration <= 1, NEW v \in Version, RecordAgrees(v), Exists(v),
           ~v.terminating
    PROVE  v.generation = 1
  BY ContactBoundsAreNats DEF Version, RecordAgrees, Exists

LEMMA UneditedStays ==
    ASSUME MaxGeneration <= 1, IInv, RecordsOK, KeptUnedited, [Next]_vars,
           ~Current'.terminating, Current'.providerID # 0
    PROVE  InSync(Current)'
<1>1. log \in Seq(Version)
  BY DEF IInv, TypeOK
<1>2. ASSUME UNCHANGED log
      PROVE  InSync(Current)'
  <2>1. Current' = Current
    BY <1>2 DEF Current, CurrentOf, VersionAt
  <2>2. Current.providerID \in Live(Current.email) /\ Exists(Current)
    <3>1. Current # Absent
      BY <2>1, AbsentIsVersion
    <3> QED
      BY <1>1, <2>1, <3>1, CurrentFacts DEF KeptUnedited, InSync, IInv, History
  <2>3. CASE worker.step \in {"replace", "remove"}
    <3>1. worker # Idle
      BY <2>3 DEF Idle
    <3>2. /\ Reading \in Version /\ RecordAgrees(Reading) /\ Exists(Reading)
          /\ Precedes(Reading, Current)
      BY <2>2, <3>1, ReadingRecord, ReadingFacts
    <3>3. ~Reading.terminating /\ worker.step = "replace" /\ FirstStep(Reading) = "replace"
      BY <2>1, <2>3, <3>1, <3>2, FirstStepFacts DEF RecordsOK, InHand, Purpose, Precedes
    <3>4. Recorded(Reading) /\ Reading.conditions.updatedAt # Reading.generation
      BY <3>2, <3>3, FirstStepFacts
    <3>5. Reading.generation = 1
      BY <3>2, <3>3, UneditedOnce
    <3> QED
      BY <3>4, <3>5 DEF Recorded
  <2>4. CASE worker.step \notin {"replace", "remove"}
    <3>1. StaysLive(Current.providerID, Current.email)
      BY <2>2, <2>4, LiveKept
    <3> QED
      BY <2>1, <3>1 DEF InSync, Live, StaysLive
  <2> QED
    BY <2>3, <2>4
<1>3. ASSUME UNCHANGED contacts, NEW v \in Version, Kinds(v), log' = Append(log, v)
      PROVE  InSync(Current)'
  <2>1. Current' = v /\ v.providerID # 0 /\ ~v.terminating
    BY <1>1, <1>3, AppendFacts
  <2>2. RecordAgrees(v) /\ v # Absent /\ ~Begins(v)
    BY <1>3, <2>1, RecordStep, AbsentIsVersion DEF Begins
  <2>3. v.providerID \in Live(v.email)
    <3>1. CASE Respecifies(v)
      <4>1. Current.generation < MaxGeneration /\ Current.generation \in Nat \ {0}
        BY <2>1, <3>1, CurrentRecord DEF Respecifies
      <4> QED
        BY <4>1, ContactBoundsAreNats
    <3>2. CASE SameSpec(v) /\ v.providerID = Current.providerID
      BY <2>1, <3>2 DEF SameSpec, KeptUnedited, InSync
    <3>3. CASE SameSpec(v) /\ worker # Idle /\ RecordsNew(v)
      <4>1. /\ Reading \in Version /\ RecordAgrees(Reading) /\ Exists(Reading)
            /\ Precedes(Reading, Current)
            /\ Current \in Version /\ RecordAgrees(Current)
        BY <3>3, ReadingRecord, ReadingFacts, CurrentRecord DEF SameSpec
      <4>2. Reading.generation = 1 /\ Current.generation = 1
        BY <2>1, <3>3, <4>1, UneditedOnce DEF SameSpec, Precedes
      <4> QED
        BY <3>3, <4>1, <4>2 DEF SameSpec, Precedes, RecordsNew
    <3> QED
      BY <1>3, <2>2, <3>1, <3>2, <3>3, PatchKinds
         DEF Kinds, Keeps, Answers, Patches, RecordsSame
  <2> QED
    BY <1>3, <2>1, <2>3 DEF InSync, Live
<1> QED
  BY <1>2, <1>3, VersionStep

(* How the manager comes to rest.                                          *)
RestSteps ==
    \/ UNCHANGED <<ctrlAt, queued, worker>>
    \/ queued' = TRUE
    \/ worker = Idle /\ StartReconcile
    \/ worker # Idle /\ UNCHANGED <<ctrlAt, queued, contacts>>
         /\ (PatchStatus \/ UpdateFinalizer)
    \/ Restarted /\ UNCHANGED <<log, contacts>>

LEMMA EveryRest == IInv /\ [Next]_vars /\ worker' = Idle => RestSteps
<1> SUFFICES ASSUME IInv, [Next]_vars, worker' = Idle PROVE RestSteps
  OBVIOUS
<1>1. CASE WorldNext /\ UNCHANGED <<ctrlVars, hookVars>>
  BY <1>1 DEF ctrlVars, RestSteps
<1>2. CASE HookNext /\ UNCHANGED ctrlVars
  BY <1>2 DEF ctrlVars, RestSteps
<1>3. CASE UNCHANGED vars
  BY <1>3 DEF vars, ctrlVars, RestSteps
<1>4. CASE CtrlNext
  <2>1. CASE Observe \/ Resync \/ UpdateFinalizerFails \/ PatchFails \/ CallFails
    BY <2>1 DEF Observe, Resync, UpdateFinalizerFails, PatchFails, CallFails, GiveUp,
                RestSteps
  <2>2. CASE StartReconcile \/ RestartManager
    BY <2>2 DEF StartReconcile, RestartManager, RestSteps
  <2>3. CASE UpdateFinalizer \/ PatchStatus
    BY <2>3 DEF UpdateFinalizer, PatchStatus, Idle, RestSteps
  <2>4. CASE \/ CreateAtResend \/ DeleteAtResend
             \/ AskMemberships \/ EvictMemberships \/ CheckMemberships
    BY <2>4, CallFacts
  <2> QED
    BY <1>4, <2>1, <2>2, <2>3, <2>4 DEF CtrlNext, ReconcileNext
<1> QED
  BY <1>1, <1>2, <1>3, <1>4 DEF Next

LEMMA UneditedDue ==
    ASSUME MaxGeneration <= 1, IInv, RecordsOK, KeptUnedited, [Next]_vars
    PROVE  NoContactStranded'
<1>1. /\ log \in Seq(Version) /\ ctrlAt \in Nat /\ ctrlAt <= Len(log)
      /\ Len(log) \in Nat /\ Len(log') \in Nat /\ queued \in BOOLEAN
  BY LogKept DEF IInv, TypeOK, PositionsOK
<1>2. ctrlAt' \in Nat /\ ctrlAt' <= Len(log') /\ queued' \in BOOLEAN
  BY TypeStep, PositionsStep DEF TypeOK, PositionsOK
<1> SUFFICES ASSUME Exists(Current)', Current'.terminating \/ ~InSync(Current)',
                    ~queued', worker' = Idle, ~(ctrlAt < Len(log))'
             PROVE  FALSE
  BY Zenon DEF NoContactStranded
<1>3. RestSteps /\ ctrlAt' = Len(log')
  BY <1>1, <1>2, EveryRest
(* The last version was delivered, so the step did not write one.          *)
<1>4. UNCHANGED log
  <2>1. ASSUME NEW v \in Version, log' = Append(log, v)
        PROVE  FALSE
    <3>1. Len(log') = Len(log) + 1
      BY <1>1, <2>1, AppendFacts
    <3>2. ctrlAt' = ctrlAt \/ UNCHANGED log
      BY <1>3 DEF RestSteps, StartReconcile, worldVars
    <3> QED
      BY <1>1, <3>1, <3>2
  <2> QED
    BY <2>1, VersionStep
<1>5. Current' = Current /\ Exists(Current)
  BY <1>4 DEF Current, CurrentOf, VersionAt, Exists
<1>6. Current \in Version /\ RecordAgrees(Current)
  BY <1>5, CurrentRecord
<1>7. ctrlAt' = Len(log) /\ Len(log) # 0 /\ At(Len(log)) = Current
  BY <1>1, <1>3, <1>4, <1>5, CurrentFacts, AbsentIsVersion
     DEF At, Current, CurrentOf
<1>8. CASE UNCHANGED <<ctrlAt, queued, worker>>
  <2>1. ~Current.terminating /\ Current.providerID \in Live(Current.email)
    BY <1>1, <1>5, <1>7, <1>8 DEF KeptUnedited, NoContactStranded, InSync
  <2>2. StaysLive(Current.providerID, Current.email)
    BY <1>8, <2>1, LiveKept DEF Idle
  <2> QED
    BY <1>5, <2>1, <2>2 DEF InSync, Live, StaysLive
<1>9. CASE worker = Idle /\ StartReconcile
  BY <1>5, <1>7, <1>9 DEF StartReconcile, Cached, Idle
<1>10. CASE Restarted /\ UNCHANGED <<log, contacts>>
  <2>1. At(ctrlAt') = Current
    BY <1>7
  <2> QED
    BY <1>5, <1>10, <2>1, Zenon DEF Restarted
(* A reconciliation of the newest version that wrote nothing: its contact  *)
(* is on record, and so at Resend.                                         *)
<1>11. CASE worker # Idle /\ UNCHANGED <<ctrlAt, queued, contacts>>
               /\ (PatchStatus \/ UpdateFinalizer)
  <2>1. worker.read = ctrlAt
    BY <1>11 DEF RecordsOK, InHand
  <2>2. Reading = Current
    BY <1>7, <1>11, <2>1 DEF Reading
  <2>3. CASE PatchStatus
    <3>1. FirstStep(Current) \in {"create", "replace", "patch"} /\ worker.step = "patch"
      BY <1>11, <2>2, <2>3 DEF PatchStatus, RecordsOK, InHand, Purpose
    <3>2. ~Current.terminating
      BY <1>6, <3>1, FirstStepFacts
    <3>3. CASE FirstStep(Current) = "patch"
      <4>1. Current.providerID # 0
        BY <1>6, <3>3, FirstStepFacts DEF Recorded
      <4>2. Current.providerID \in Live(Current.email)
        BY <3>2, <4>1 DEF KeptUnedited, InSync
      <4> QED
        BY <1>5, <1>11, <3>2, <4>2 DEF InSync, Live
    <3>4. CASE FirstStep(Current) \in {"create", "replace"}
      <4>1. NewConditions # Reading.conditions
        BY <1>6, <1>11, <2>2, <3>4, FirstStepFacts, NewFacts
           DEF RecordAgrees, Recorded, Unrecorded
      <4>2. log' = Publish(log, Patched(Current))
        BY <2>3, <4>1 DEF PatchStatus, StatusUnchanged, StorePatch
      <4>3. Patched(Current).conditions = NewConditions
        BY <1>6, <4>1 DEF Patched, Version
      <4>4. Patched(Current) # Current
        BY <2>2, <4>1, <4>3
      <4>5. log' = Append(log, Patched(Current))
        BY <1>1, <1>7, <4>2, <4>4, CurrentFacts DEF Publish
      <4> QED
        BY <1>1, <1>4, <4>5
    <3> QED
      BY <3>1, <3>3, <3>4
  <2>4. CASE UpdateFinalizer
    <3>1. worker.step \in {"adopt", "release"} /\ log' = Publish(log, Finalized)
      BY <2>4 DEF UpdateFinalizer, StoreFinalized
    <3>2. Finalized = Current
      <4>1. log' = Append(log, Finalized) => FALSE
        BY <1>1, <1>4
      <4> QED
        BY <1>1, <1>7, <3>1, <4>1, CurrentFacts DEF Publish
    <3>3. worker.step = "adopt" /\ ~Current.finalizer
      BY <1>5, <1>11, <2>2, <3>1, <3>2, AbsentIsVersion
         DEF Finalized, RecordsOK, InHand, Purpose, FirstStep
    <3> QED
      BY <1>6, <2>2, <3>2, <3>3 DEF Finalized, Version
  <2> QED
    BY <1>11, <2>3, <2>4
<1> QED
  BY <1>3, <1>8, <1>9, <1>10, <1>11 DEF RestSteps

(***************************************************************************)
(* Unless the spec is edited, and whatever else fails, restarts or lags, a *)
(* contact that is on record stays at Resend, with the address the spec    *)
(* asks for, until the Contact is deleted.                                 *)
(***************************************************************************)
THEOREM UneditedContactKept ==
    ASSUME MaxGeneration <= 1
    PROVE  Spec => []KeptUnedited
<1>1. Init => KeptUnedited
  BY DEF Init, WorldInit, KeptUnedited, NoContactStranded, Current, CurrentOf, VersionAt,
         Absent, Exists
<1>2. IInv /\ RecordsOK /\ KeptUnedited /\ [Next]_vars => KeptUnedited'
  BY UneditedStays, UneditedDue DEF KeptUnedited
<1> QED
  BY <1>1, <1>2, ContactInvariant, ContactRecordsAgree, PTL DEF Spec

(***************************************************************************)
(* So no Contact then waits for its contact at Resend or for its finalizer *)
(* without a reconciliation due.                                           *)
(***************************************************************************)
THEOREM NoUneditedContactStranded ==
    ASSUME MaxGeneration <= 1
    PROVE  Spec => []NoContactStranded
<1>1. KeptUnedited => NoContactStranded
  BY DEF KeptUnedited
<1> QED
  BY <1>1, UneditedContactKept, PTL

(***************************************************************************)
(* Nor is a Contact then reported processed or Ready before Resend has it. *)
(***************************************************************************)
THEOREM UneditedContactBacked ==
    ASSUME MaxGeneration <= 1
    PROVE  Spec => [](ObservedWasProcessed /\ ReadyIsBacked)
<1>1. ASSUME IInv, RecordsOK, KeptUnedited, Exists(Current), ~Current.terminating,
             \/ Current.conditions.updatedAt = Current.generation
             \/ Current.conditions.ready = "True"
      PROVE  InSync(Current) /\ (Current.conditions.ready = "True" =>
                                   Current.conditions.loopsReady)
  <2>1. RecordAgrees(Current)
    BY <1>1, CurrentRecord
  <2>2. Recorded(Current)
    BY <1>1, <2>1 DEF RecordAgrees, Unrecorded, Exists
  <2> QED
    BY <1>1, <2>2 DEF Recorded, KeptUnedited
<1>2. IInv /\ RecordsOK /\ KeptUnedited => ObservedWasProcessed /\ ReadyIsBacked
  BY <1>1 DEF ObservedWasProcessed, ReadyIsBacked
<1> QED
  BY <1>2, ContactInvariant, ContactRecordsAgree, UneditedContactKept, PTL
============================================================================
