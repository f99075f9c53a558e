-------------------------- MODULE ContactSyncProofs --------------------------
(***************************************************************************)
(* What ContactSync guarantees for every set of addresses and handlers and *)
(* every bound, with or without the Loops provider.                        *)
(***************************************************************************)
EXTENDS ContactSync, TLAPS

(***************************************************************************)
(* Versions, and the log after a write.                                    *)
(***************************************************************************)
LEMMA AbsentIsVersion ==
    /\ Absent \in Version /\ ~Exists(Absent)
    /\ Absent.providerID = 0 /\ ~Absent.finalizer
<1>1. NoConditions \in Conditions
  BY DEF NoConditions, Conditions
<1> QED
  BY <1>1 DEF Absent, Version, Exists

LEMMA PublishFacts ==
    ASSUME NEW l \in Seq(Version), NEW v
    PROVE  \/ Publish(l, v) = l
           \/ Publish(l, v) = Append(l, v)
  BY DEF Publish

LEMMA AtFacts ==
    ASSUME log \in Seq(Version), NEW i \in 0..Len(log)
    PROVE  /\ At(i) \in Version
           /\ i \in DOMAIN log => At(i) = log[i]
           /\ i = Len(log) => At(i) = Current
           /\ i = 0 => At(i) = Absent
  BY AbsentIsVersion DEF At, Current, CurrentOf, VersionAt

LEMMA CurrentFacts ==
    ASSUME log \in Seq(Version)
    PROVE  /\ Current \in Version
           /\ log # << >> => Len(log) \in DOMAIN log /\ Current = log[Len(log)]
           /\ log = << >> => Current = Absent /\ Len(log) = 0
           /\ Len(log) \in Nat /\ DOMAIN log = 1..Len(log)
  BY AbsentIsVersion DEF Current, CurrentOf, VersionAt

LEMMA AppendFacts ==
    ASSUME log \in Seq(Version), NEW v \in Version, log' = Append(log, v)
    PROVE  /\ log' \in Seq(Version)
           /\ Len(log) \in Nat /\ Len(log') = Len(log) + 1
           /\ DOMAIN log = 1..Len(log) /\ DOMAIN log' = 1..(Len(log) + 1)
           /\ \A i \in DOMAIN log : log'[i] = log[i]
           /\ log'[Len(log) + 1] = v
           /\ Current' = v
  BY DEF Current, CurrentOf, VersionAt

(***************************************************************************)
(* Who writes the Contact: its users and the Loops provider, the worker,   *)
(* and a handler.                                                          *)
(***************************************************************************)
UserWrites(v) ==
    \/ log = << >> /\ \E a \in Addresses : v = [Absent EXCEPT !.generation = 1, !.email = a]
    \/ /\ Exists(Current) /\ Current.generation < MaxGeneration
       /\ \E a \in Addresses : v = [Current EXCEPT !.generation = @ + 1, !.email = a]
    \/ /\ Exists(Current) /\ ~Current.terminating /\ Current.finalizer
       /\ v = [Current EXCEPT !.generation = @ + 1, !.terminating = TRUE]
    \/ Exists(Current) /\ ~Current.finalizer /\ v = Absent
    \/ Exists(Current) /\ v = [Current EXCEPT !.conditions.loopsReady = TRUE]

WorkerWrites(v) ==
    \/ worker.step \in {"adopt", "release"} /\ Fresh(log, worker.read) /\ v = Finalized
    \/ worker.step = "patch" /\ Exists(Current) /\ v = Patched(Current)

HandlerWrites(h, v) ==
    /\ handler[h].step = "update"
    /\ Fresh(log, handler[h].read)
    /\ v = [At(handler[h].read) EXCEPT
              !.conditions = Confirmed(At(handler[h].read), handler[h].type)]

Written(v) ==
    /\ UserWrites(v) \/ WorkerWrites(v) \/ \E h \in Handlers : HandlerWrites(h, v)
    /\ log' = Publish(log, v)

LEMMA EveryWrite ==
    [Next]_vars =>
        \/ UNCHANGED log
        \/ UNCHANGED contacts /\ \E v : Written(v)
<1> SUFFICES ASSUME [Next]_vars
             PROVE  UNCHANGED log \/ (UNCHANGED contacts /\ \E v : Written(v))
  OBVIOUS
<1>1. CASE WorldNext
  BY <1>1 DEF WorldNext, CreateContact, EditContact, DeleteContact, LoopsReports,
              Written, UserWrites
<1>2. CASE CtrlNext
  <2>1. CASE Observe \/ Resync \/ RestartManager \/ CallFails \/ StartReconcile
    BY <2>1 DEF Observe, Resync, RestartManager, CallFails, StartReconcile, worldVars
  <2>2. CASE CreateAtResend \/ DeleteAtResend \/ AskMemberships
               \/ EvictMemberships \/ CheckMemberships
    BY <2>2 DEF CreateAtResend, DeleteAtResend, AskMemberships, EvictMemberships,
                CheckMemberships, Proceed
  <2>3. CASE UpdateFinalizer \/ UpdateFinalizerFails
    BY <2>3 DEF UpdateFinalizer, UpdateFinalizerFails, StoreFinalized, Written,
                WorkerWrites
  <2>4. CASE PatchStatus \/ PatchFails
    BY <2>4 DEF PatchStatus, PatchFails, StorePatch, Written, WorkerWrites
  <2> QED
    BY <1>2, <2>1, <2>2, <2>3, <2>4 DEF CtrlNext, ReconcileNext
<1>3. CASE HookNext
  <2>1. CASE \E h \in Handlers, n \in DOMAIN contacts :
               \E type \in Reports(n) : Receive(h, n, type)
    BY <2>1 DEF Receive, worldVars
  <2>2. CASE \E h \in Handlers : UpdateContact(h) \/ RequestFails(h)
    BY <2>2 DEF UpdateContact, RequestFails, StoreCondition, Written, HandlerWrites
  <2>3. CASE RestartWebhookServer
    BY <2>3 DEF RestartWebhookServer
  <2> QED
    BY <1>3, <2>1, <2>2, <2>3 DEF HookNext
<1>4. CASE UNCHANGED vars
  BY <1>4 DEF vars, worldVars
<1> QED
  BY <1>1, <1>2, <1>3, <1>4 DEF Next

(* Who changes what Resend holds: the worker, in four of its steps.        *)
LEMMA EveryCall ==
    [Next]_vars =>
        \/ UNCHANGED contacts
        \/ worker.step \in {"create", "recreate"} /\ StoreContact(Reading.email)
        \/ worker.step \in {"replace", "remove"} /\ RemoveContact(worker.id)
<1> SUFFICES ASSUME [Next]_vars
             PROVE  \/ UNCHANGED contacts
                    \/ worker.step \in {"create", "recreate"} /\ StoreContact(Reading.email)
                    \/ worker.step \in {"replace", "remove"} /\ RemoveContact(worker.id)
  OBVIOUS
<1>1. CASE WorldNext \/ HookNext \/ UNCHANGED vars
  BY <1>1 DEF WorldNext, CreateContact, EditContact, DeleteContact, LoopsReports,
              HookNext, Receive, UpdateContact, RequestFails, RestartWebhookServer,
              vars, worldVars
<1>2. CASE Observe \/ Resync \/ RestartManager \/ StartReconcile
  BY <1>2 DEF Observe, Resync, RestartManager, StartReconcile, worldVars
<1>3. CASE AskMemberships \/ EvictMemberships \/ CheckMemberships
             \/ UpdateFinalizer \/ UpdateFinalizerFails \/ PatchStatus \/ PatchFails
  BY <1>3 DEF AskMemberships, EvictMemberships, CheckMemberships, UpdateFinalizer,
              UpdateFinalizerFails, PatchStatus, PatchFails
<1>4. CASE CreateAtResend \/ DeleteAtResend
  BY <1>4 DEF CreateAtResend, DeleteAtResend, Proceed
<1>5. CASE CallFails
  BY <1>5 DEF CallFails
<1> QED
  BY <1>1, <1>2, <1>3, <1>4, <1>5 DEF Next, CtrlNext, ReconcileNext

(***************************************************************************)
(* What the worker and a handler have read.                                *)
(***************************************************************************)
LEMMA ReadingFacts ==
    ASSUME IInv, worker # Idle
    PROVE  /\ worker.read \in DOMAIN log /\ Reading = log[worker.read]
           /\ Reading \in Version /\ Exists(Reading)
           /\ Reading.email \in Addresses
           /\ worker.step \in Steps /\ worker.id \in Nat
           /\ worker.id \in {0} \cup DOMAIN contacts
           /\ Fresh(log, worker.read) => Reading = Current
<1>1. log \in Seq(Version) /\ worker.read \in DOMAIN log
  BY DEF IInv, TypeOK, PositionsOK
<1>2. worker.read \in 0..Len(log) /\ DOMAIN log = 1..Len(log)
  BY <1>1
<1>3. Reading = log[worker.read] /\ Reading \in Version
      /\ (Fresh(log, worker.read) => Reading = Current)
  BY <1>1, <1>2, AtFacts DEF Reading, Fresh
<1>4. Exists(Reading) /\ worker.id \in {0} \cup DOMAIN contacts
  BY DEF IInv, InProgress
<1>5. Reading.email \in Addresses
  BY <1>1, <1>3, <1>4, AbsentIsVersion DEF IInv, History
<1>6. worker.step \in Steps /\ worker.id \in Nat
  BY DEF IInv, TypeOK, WorkerStates
<1> QED
  BY <1>1, <1>3, <1>4, <1>5, <1>6

LEMMA HandlerFacts ==
    ASSUME IInv, NEW h \in Handlers, handler[h] # Free
    PROVE  /\ handler[h].read \in DOMAIN log
           /\ At(handler[h].read) \in Version /\ Exists(At(handler[h].read))
           /\ handler[h].type \in AllowedContactEvents
           /\ Fresh(log, handler[h].read) => At(handler[h].read) = Current
<1>1. log \in Seq(Version) /\ handler[h].read \in DOMAIN log
  BY DEF IInv, TypeOK, PositionsOK
<1>2. handler[h].read \in 0..Len(log)
  BY <1>1
<1>3. handler[h].type \in AllowedContactEvents
  BY DEF IInv, TypeOK, HandlerStates
<1> QED
  BY <1>1, <1>2, <1>3, AtFacts DEF IInv, InProgress, Fresh

(***************************************************************************)
(* What is written is a version that keeps what the earlier ones promise:  *)
(* an id is recorded under the finalizer, the finalizer goes only with the *)
(* object, and the object only once its contact is deleted.                *)
(***************************************************************************)
Follows(v) ==
    /\ v \in Version
    /\ log # << >> => Exists(Current)
    /\ (Exists(v) /\ v.email \in Addresses) \/ v = Absent
    /\ v.providerID \in {0} \cup DOMAIN contacts
    /\ v.providerID # 0 => v.finalizer
    /\ Exists(v) /\ Current.finalizer => v.finalizer
    /\ v = Absent /\ Current.providerID # 0 => ~contacts[Current.providerID].live

LEMMA CurrentKept ==
    ASSUME IInv, Exists(Current)
    PROVE  /\ log # << >> /\ Current \in Version /\ Current.email \in Addresses
           /\ Current.providerID \in {0} \cup DOMAIN contacts
           /\ Current.providerID # 0 => Current.finalizer
<1>1. log \in Seq(Version)
  BY DEF IInv, TypeOK
<1>2. log # << >> /\ Current \in Version /\ Len(log) \in DOMAIN log /\ Current = log[Len(log)]
  BY <1>1, CurrentFacts, AbsentIsVersion
<1> QED
  BY <1>2, AbsentIsVersion DEF IInv, History

(* A change of anything but address, finalizer and id follows.             *)
LEMMA FollowsIfKept ==
    ASSUME IInv, Exists(Current), NEW v \in Version, Exists(v),
           v.email \in Addresses, v.finalizer = Current.finalizer,
           v.providerID = Current.providerID
    PROVE  Follows(v)
<1>1. v # Absent
  BY AbsentIsVersion
<1> QED
  BY <1>1, CurrentKept DEF Follows

LEMMA UserFollows ==
    ASSUME IInv, NEW v, UserWrites(v)
    PROVE  Follows(v)
<1>1. log \in Seq(Version)
  BY DEF IInv, TypeOK
<1>2. ASSUME log = << >>, NEW a \in Addresses,
             v = [Absent EXCEPT !.generation = 1, !.email = a]
      PROVE  Follows(v)
  <2>1. /\ v \in Version /\ v.generation = 1 /\ v.email = a
        /\ v.providerID = 0 /\ v.finalizer = FALSE
    BY <1>2, AbsentIsVersion DEF Absent, Version
  <2>2. Current = Absent
    BY <1>1, <1>2, CurrentFacts
  <2>3. Exists(v) /\ v # Absent
    <3>1. v.generation # 0
      BY <2>1
    <3> QED
      BY <3>1, AbsentIsVersion, Zenon DEF Exists
  <2>4. /\ v \in Version /\ v.email \in Addresses
        /\ v.providerID \in {0} /\ v.providerID = 0
    BY <2>1
  <2> QED
    BY <1>2, <2>2, <2>3, <2>4, AbsentIsVersion, Zenon DEF Follows
<1>3. ASSUME Exists(Current)
      PROVE  Current \in Version /\ Current.generation + 1 \in Nat \ {0}
             /\ Current.email \in Addresses
  BY <1>3, CurrentKept DEF Version
<1>4. ASSUME Exists(Current), NEW a \in Addresses,
             v = [Current EXCEPT !.generation = @ + 1, !.email = a]
      PROVE  Follows(v)
  <2> DEFINE g == Current.generation + 1
  <2>1. g \in Nat \ {0} /\ Current \in Version
    BY <1>3, <1>4
  <2>2. v = [Current EXCEPT !.generation = g, !.email = a]
    BY <1>4
  <2> HIDE DEF g
  <2>3. /\ v \in Version /\ v.generation = g /\ v.email = a
        /\ v.finalizer = Current.finalizer /\ v.providerID = Current.providerID
    BY <2>1, <2>2 DEF Version
  <2> QED
    BY <1>4, <2>1, <2>3, FollowsIfKept DEF Exists
<1>5. ASSUME Exists(Current), v = [Current EXCEPT !.generation = @ + 1, !.terminating = TRUE]
      PROVE  Follows(v)
  <2> DEFINE g == Current.generation + 1
  <2>1. g \in Nat \ {0} /\ Current \in Version
    BY <1>3, <1>5
  <2>2. v = [Current EXCEPT !.generation = g, !.terminating = TRUE]
    BY <1>5
  <2> HIDE DEF g
  <2>3. /\ v \in Version /\ v.generation = g /\ v.email = Current.email
        /\ v.finalizer = Current.finalizer /\ v.providerID = Current.providerID
    BY <2>1, <2>2 DEF Version
  <2> QED
    BY <1>3, <1>5, <2>1, <2>3, FollowsIfKept DEF Exists
<1>6. CASE Exists(Current) /\ ~Current.finalizer /\ v = Absent
  BY <1>6, AbsentIsVersion, CurrentKept DEF Follows
<1>7. ASSUME Exists(Current), v = [Current EXCEPT !.conditions.loopsReady = TRUE]
      PROVE  Follows(v)
  <2> DEFINE c == [Current.conditions EXCEPT !.loopsReady = TRUE]
  <2>1. Current \in Version /\ c \in Conditions
    BY <1>3, <1>7 DEF Version, Conditions
  <2>2. v = [Current EXCEPT !.conditions = c]
    BY <1>7
  <2> HIDE DEF c
  <2>3. /\ v \in Version /\ v.generation = Current.generation
        /\ v.email = Current.email /\ v.finalizer = Current.finalizer
        /\ v.providerID = Current.providerID
    BY <2>1, <2>2 DEF Version
  <2> QED
    BY <1>3, <1>7, <2>3, FollowsIfKept DEF Exists
<1> QED
  BY <1>2, <1>4, <1>5, <1>6, <1>7 DEF UserWrites

LEMMA NewConditionsType ==
    ASSUME IInv, worker # Idle
    PROVE  NewConditions \in Conditions
<1>1. Reading.conditions \in Conditions /\ Reading.generation \in Nat
  BY ReadingFacts DEF Version
<1> DEFINE p == Processed(Reading)
<1>2. p \in Conditions
  <2> DEFINE c == Reading.conditions
             g == Reading.generation
  <2>1. /\ [c EXCEPT !.resendReady = "ResendContactPending",
                     !.updated = "Created", !.updatedAt = g] \in Conditions
        /\ [c EXCEPT !.updated = "UpdatePending", !.updatedAt = g] \in Conditions
        /\ c \in Conditions
    <3>1. c \in Conditions /\ g \in Nat
      BY <1>1
    <3> HIDE DEF c, g
    <3> QED
      BY <3>1 DEF Conditions
  <2> QED
    BY <2>1 DEF Processed
<1> HIDE DEF p
<1>3. ASSUME NEW r \in {"True", "False"}, NEW g \in Nat
      PROVE  [p EXCEPT !.ready = r, !.readyAt = g] \in Conditions
  BY <1>2 DEF Conditions
<1>4. NewConditions = [p EXCEPT
         !.ready = IF p.loopsReady /\ p.resendReady # "none" THEN "True" ELSE "False",
         !.readyAt = Reading.generation]
  BY DEF NewConditions, VerifyContactReadyCondition, p
<1>5. (IF p.loopsReady /\ p.resendReady # "none" THEN "True" ELSE "False")
        \in {"True", "False"}
  OBVIOUS
<1> QED
  BY <1>1, <1>3, <1>4, <1>5, Zenon

LEMMA WorkerFollows ==
    ASSUME IInv, NEW v, WorkerWrites(v)
    PROVE  Follows(v)
<1>1. log \in Seq(Version) /\ worker # Idle
  BY DEF IInv, TypeOK, WorkerWrites, Idle
<1>2. CASE worker.step = "adopt" /\ Fresh(log, worker.read)
  <2>1. Exists(Current) /\ v = [Current EXCEPT !.finalizer = TRUE]
    BY <1>1, <1>2, ReadingFacts DEF WorkerWrites, Finalized
  <2>2. /\ Current \in Version /\ Current.email \in Addresses
        /\ Current.providerID \in {0} \cup DOMAIN contacts
    BY <2>1, CurrentKept
  <2>3. /\ v \in Version /\ v.generation = Current.generation /\ v.email = Current.email
        /\ v.finalizer = TRUE /\ v.providerID = Current.providerID
    BY <2>1, <2>2 DEF Version
  <2> QED
    BY <2>1, <2>2, <2>3, AbsentIsVersion DEF Follows, Exists
<1>3. CASE worker.step = "release" /\ Fresh(log, worker.read)
  <2>1. v = Absent /\ Exists(Current) /\ Reading = Current
    BY <1>1, <1>3, ReadingFacts DEF WorkerWrites, Finalized
  <2>2. Current.providerID # 0 => ~contacts[Current.providerID].live
    BY <1>1, <1>3, <2>1 DEF IInv, InProgress
  <2> QED
    BY <2>1, <2>2, AbsentIsVersion DEF Follows
<1>4. CASE worker.step = "patch" /\ Exists(Current) /\ v = Patched(Current)
  <2> DEFINE c == IF NewConditions = Reading.conditions THEN Current.conditions
                  ELSE NewConditions
             n == IF worker.id = Reading.providerID THEN Current.providerID
                  ELSE worker.id
  <2>1. /\ Current \in Version /\ Current.email \in Addresses /\ log # << >>
        /\ Current.providerID \in {0} \cup DOMAIN contacts
    BY <1>4, CurrentKept
  <2>2. c \in Conditions
    BY <1>1, <2>1, NewConditionsType DEF Version
  <2>3. n \in Nat /\ n \in {0} \cup DOMAIN contacts
    BY <1>1, <2>1, ReadingFacts DEF Version
  <2>4. v = [Current EXCEPT !.conditions = c, !.providerID = n]
    BY <1>4 DEF Patched
  <2> HIDE DEF c, n
  <2>5. /\ v \in Version /\ v.generation = Current.generation /\ v.email = Current.email
        /\ v.finalizer = Current.finalizer /\ v.providerID = n
    BY <2>1, <2>2, <2>3, <2>4 DEF Version
  <2>6. Current.finalizer
    <3>1. Reading.finalizer /\ worker.read \in DOMAIN log /\ Reading = log[worker.read]
      BY <1>1, <1>4, ReadingFacts DEF IInv, InProgress
    <3>2. Len(log) \in DOMAIN log /\ Current = log[Len(log)] /\ worker.read \in 1..Len(log)
      BY <1>1, <2>1, <3>1, CurrentFacts
    <3> QED
      BY <1>4, <3>1, <3>2 DEF IInv, History
  <2> QED
    BY <1>4, <2>1, <2>3, <2>5, <2>6, AbsentIsVersion DEF Follows, Exists
<1> QED
  BY <1>2, <1>3, <1>4 DEF WorkerWrites

LEMMA HandlerFollows ==
    ASSUME IInv, NEW h \in Handlers, NEW v, HandlerWrites(h, v)
    PROVE  Follows(v)
<1>1. handler[h] # Free /\ Fresh(log, handler[h].read)
  BY DEF HandlerWrites, Free
<1> DEFINE c == Confirmed(Current, handler[h].type)
<1>2. Exists(Current) /\ v = [Current EXCEPT !.conditions = c]
  BY <1>1, HandlerFacts DEF HandlerWrites
<1>3. Current \in Version /\ Current.email \in Addresses
  BY <1>2, CurrentKept
<1>4. c \in Conditions
  <2> DEFINE b == Current.conditions
             g == Current.generation
  <2>1. /\ [b EXCEPT !.updated = "Updated", !.updatedAt = g] \in Conditions
        /\ [b EXCEPT !.resendReady = "ResendContactCreated"] \in Conditions
        /\ [b EXCEPT !.deleted = TRUE] \in Conditions
    <3>1. b \in Conditions /\ g \in Nat
      BY <1>3 DEF Version
    <3> HIDE DEF b, g
    <3> QED
      BY <3>1 DEF Conditions
  <2> QED
    BY <2>1 DEF Confirmed
<1> HIDE DEF c
<1>5. /\ v \in Version /\ v.generation = Current.generation /\ v.email = Current.email
      /\ v.finalizer = Current.finalizer /\ v.providerID = Current.providerID
  BY <1>2, <1>3, <1>4 DEF Version
<1> QED
  BY <1>2, <1>3, <1>5, FollowsIfKept DEF Exists

LEMMA LogStep ==
    ASSUME IInv, [Next]_vars
    PROVE  \/ UNCHANGED log
           \/ UNCHANGED contacts /\ \E v : Follows(v) /\ log' = Append(log, v)
<1>1. log \in Seq(Version)
  BY DEF IInv, TypeOK
<1>2. ASSUME NEW v, Written(v)
      PROVE  UNCHANGED log \/ (Follows(v) /\ log' = Append(log, v))
  BY <1>1, <1>2, PublishFacts, UserFollows, WorkerFollows, HandlerFollows DEF Written
<1> QED
  BY <1>2, EveryWrite

(***************************************************************************)
(* Resend's contacts: none changes its id, and none that was deleted comes *)
(* back.                                                                   *)
(***************************************************************************)
Contact == [email : Addresses, live : BOOLEAN]

ContactsGrow ==
    /\ contacts' \in Seq(Contact)
    /\ DOMAIN contacts \subseteq DOMAIN contacts'
    /\ \A n \in DOMAIN contacts : ~contacts[n].live => ~contacts'[n].live

LEMMA StoreFacts ==
    ASSUME TypeOK, NEW a \in Addresses, StoreContact(a)
    PROVE  /\ ContactsGrow
           /\ ContactId(a) \in Nat /\ ContactId(a) \in DOMAIN contacts'
<1>1. /\ contacts \in Seq(Contact) /\ Len(contacts) \in Nat
      /\ DOMAIN contacts = 1..Len(contacts)
  BY DEF TypeOK, Contact
<1>2. CASE Live(a) = {}
  <2> DEFINE c == [email |-> a, live |-> TRUE]
  <2>1. contacts' = Append(contacts, c) /\ ContactId(a) = Len(contacts) + 1
    BY <1>2 DEF StoreContact, ContactId
  <2>2. c \in Contact
    BY DEF Contact
  <2> HIDE DEF c
  <2>3. /\ contacts' \in Seq(Contact) /\ DOMAIN contacts' = 1..(Len(contacts) + 1)
        /\ \A n \in DOMAIN contacts : contacts'[n] = contacts[n]
    BY <1>1, <2>1, <2>2
  <2> QED
    BY <1>1, <2>1, <2>3 DEF ContactsGrow
<1>3. CASE Live(a) # {}
  <2>1. contacts' = contacts /\ ContactId(a) \in Live(a)
    BY <1>3 DEF StoreContact, ContactId
  <2>2. ContactId(a) \in DOMAIN contacts
    BY <2>1 DEF Live
  <2> QED
    BY <1>1, <2>1, <2>2 DEF ContactsGrow
<1> QED
  BY <1>2, <1>3

LEMMA RemoveFacts ==
    ASSUME TypeOK, NEW n, RemoveContact(n)
    PROVE  /\ ContactsGrow
           /\ n \in DOMAIN contacts => ~contacts'[n].live
<1>1. /\ contacts \in Seq(Contact) /\ Len(contacts) \in Nat
      /\ DOMAIN contacts = 1..Len(contacts)
  BY DEF TypeOK, Contact
<1> DEFINE F(m) == IF m = n THEN [contacts[m] EXCEPT !.live = FALSE] ELSE contacts[m]
<1>2. \A m \in DOMAIN contacts :
        /\ F(m) \in Contact
        /\ ~contacts[m].live => ~F(m).live
        /\ m = n => ~F(m).live
  <2> SUFFICES ASSUME NEW m \in DOMAIN contacts
               PROVE  /\ F(m) \in Contact
                      /\ ~contacts[m].live => ~F(m).live
                      /\ m = n => ~F(m).live
    OBVIOUS
  <2>1. contacts[m] \in Contact
    BY <1>1
  <2>2. /\ [contacts[m] EXCEPT !.live = FALSE] \in Contact
        /\ ~[contacts[m] EXCEPT !.live = FALSE].live
    BY <2>1 DEF Contact
  <2> QED
    BY <2>1, <2>2
<1>3. contacts' = [m \in DOMAIN contacts |-> F(m)]
  BY DEF RemoveContact
<1> HIDE DEF F
<1>4. DOMAIN contacts' = DOMAIN contacts /\ \A m \in DOMAIN contacts : contacts'[m] = F(m)
  BY <1>3, Zenon
<1>5. contacts' \in [1..Len(contacts) -> Contact]
  BY <1>1, <1>2, <1>3, Zenon
<1>6. contacts' \in Seq(Contact)
  BY <1>1, <1>5
<1> QED
  BY <1>2, <1>4, <1>6, Zenon DEF ContactsGrow

LEMMA ContactsStep ==
    ASSUME IInv, [Next]_vars
    PROVE  ContactsGrow
<1>1. TypeOK
  BY DEF IInv
<1>2. CASE UNCHANGED contacts
  BY <1>1, <1>2 DEF TypeOK, ContactsGrow, Contact
<1>3. CASE worker.step \in {"create", "recreate"} /\ StoreContact(Reading.email)
  <2>1. worker # Idle
    BY <1>3 DEF Idle
  <2> QED
    BY <1>1, <1>3, <2>1, ReadingFacts, StoreFacts
<1>4. CASE worker.step \in {"replace", "remove"} /\ RemoveContact(worker.id)
  BY <1>1, <1>4, RemoveFacts
<1> QED
  BY <1>2, <1>3, <1>4, EveryCall

(***************************************************************************)
(* The worker, step by step.                                               *)
(***************************************************************************)
LEMMA ProceedFacts ==
    ASSUME IInv, NEW from \in Steps, NEW to \in Steps, NEW id \in Nat,
           Proceed(from, to, id)
    PROVE  /\ worker # Idle /\ worker' # Idle /\ worker' \in WorkerStates
           /\ worker.step = from /\ worker'.step = to /\ worker'.id = id
           /\ worker'.read = worker.read
           /\ UNCHANGED <<ctrlAt, queued, log, spare>>
<1>1. worker # Idle /\ worker.step = from
  BY DEF Proceed, Idle, Steps
<1>2. worker \in [step : Steps, read : Nat, id : Nat]
  BY <1>1 DEF IInv, TypeOK, WorkerStates
<1>3. worker' = [worker EXCEPT !.step = to, !.id = id]
  BY DEF Proceed
<1>4. /\ worker' \in [step : Steps, read : Nat, id : Nat]
      /\ worker'.step = to /\ worker'.id = id /\ worker'.read = worker.read
  BY <1>2, <1>3
<1> QED
  BY <1>1, <1>4 DEF Proceed, WorkerStates, Idle, Steps

(* The calls: what each leaves in the worker's hands.                      *)
LEMMA CallFacts ==
    ASSUME IInv,
           \/ CreateAtResend \/ DeleteAtResend
           \/ AskMemberships \/ EvictMemberships \/ CheckMemberships
    PROVE  /\ worker # Idle /\ worker' # Idle /\ worker' \in WorkerStates
           /\ worker'.read = worker.read
           /\ UNCHANGED <<ctrlAt, queued, log, spare>>
           /\ worker'.id \in {0} \cup DOMAIN contacts'
           /\ \/ /\ worker.step \in {"create", "replace", "recreate", "ask"}
                 /\ worker'.step \in {"recreate", "ask", "patch"}
              \/ /\ <<worker.step, worker'.step>> \in
                      {<<"remove", "evict">>, <<"evict", "check">>, <<"check", "release">>}
                 /\ worker'.id = worker.id
                 /\ worker.step # "remove" => UNCHANGED contacts
                 /\ worker.step = "remove" /\ worker.id # 0 => ~contacts'[worker.id].live
<1>1. TypeOK
  BY DEF IInv
<1>2. worker # Idle => /\ worker.id \in Nat /\ worker.id \in {0} \cup DOMAIN contacts
                       /\ Reading.email \in Addresses
  BY ReadingFacts
<1>3. ASSUME ~(worker.step = "idle")
      PROVE  worker # Idle
  BY <1>3 DEF Idle
<1>4. CASE CreateAtResend
  <2>1. worker # Idle
    BY <1>3, <1>4 DEF CreateAtResend, Proceed
  <2>2. /\ ContactId(Reading.email) \in Nat /\ ContactId(Reading.email) \in DOMAIN contacts'
    BY <1>1, <1>2, <1>4, <2>1, StoreFacts DEF CreateAtResend
  <2> QED
    BY <1>4, <2>1, <2>2, ProceedFacts DEF CreateAtResend, Steps
<1>5. CASE DeleteAtResend
  <2>1. worker # Idle
    BY <1>3, <1>5 DEF DeleteAtResend, Proceed
  <2>2. ContactsGrow /\ (worker.id \in DOMAIN contacts => ~contacts'[worker.id].live)
    BY <1>1, <1>5, RemoveFacts DEF DeleteAtResend
  <2>3. worker.id \in {0} \cup DOMAIN contacts'
    BY <1>2, <2>1, <2>2 DEF ContactsGrow
  <2> QED
    BY <1>2, <1>5, <2>1, <2>2, <2>3, ProceedFacts DEF DeleteAtResend, Steps
<1>6. CASE AskMemberships \/ EvictMemberships \/ CheckMemberships
  <2>1. worker # Idle
    BY <1>3, <1>6 DEF AskMemberships, EvictMemberships, CheckMemberships, Proceed
  <2> QED
    BY <1>2, <1>6, <2>1, ProceedFacts
       DEF AskMemberships, EvictMemberships, CheckMemberships, Steps
<1> QED
  BY <1>4, <1>5, <1>6

LEMMA StartFacts ==
    ASSUME IInv, StartReconcile
    PROVE  /\ worker' \in WorkerStates
           /\ worker' # Idle =>
                /\ ctrlAt \in DOMAIN log /\ Exists(log[ctrlAt])
                /\ worker' = [step |-> FirstStep(log[ctrlAt]), read |-> ctrlAt,
                              id |-> log[ctrlAt].providerID]
<1>1. log \in Seq(Version) /\ ctrlAt \in Nat /\ ctrlAt <= Len(log)
  BY DEF IInv, TypeOK, PositionsOK
<1>2. Cached \in Version /\ (ctrlAt \in DOMAIN log => Cached = log[ctrlAt])
      /\ (ctrlAt = 0 => Cached = Absent)
  BY <1>1, AtFacts DEF Cached
<1>3. Exists(Cached) => ctrlAt \in DOMAIN log
  BY <1>1, <1>2, AbsentIsVersion
<1>4. FirstStep(Cached) \in Steps
  BY DEF FirstStep, Steps
<1>5. Cached.providerID \in Nat
  BY <1>2 DEF Version
<1>6. [step |-> FirstStep(Cached), read |-> ctrlAt, id |-> Cached.providerID] \in WorkerStates
  BY <1>1, <1>4, <1>5 DEF WorkerStates
<1>7. Idle \in WorkerStates
  BY DEF WorkerStates
<1> QED
  BY <1>2, <1>3, <1>6, <1>7 DEF StartReconcile

(* What happens to the manager's variables.                                *)
ManagerSteps ==
    \/ StartReconcile
    \/ /\ CreateAtResend \/ DeleteAtResend
            \/ AskMemberships \/ EvictMemberships \/ CheckMemberships
       /\ spare' = spare
    \/ /\ spare' = spare \/ Disturb
       /\ \/ worker' = worker /\ ctrlAt' = ctrlAt
          \/ worker' = worker /\ ctrlAt < Len(log) /\ ctrlAt' = ctrlAt + 1
          \/ worker' = Idle /\ ctrlAt' = ctrlAt
          \/ worker' = Idle /\ ctrlAt' \in 0..Len(log)
       /\ queued' \in {queued, TRUE, Exists(At(ctrlAt'))}
       /\ worker' # Idle => UNCHANGED contacts

LEMMA EveryManagerStep == [Next]_vars => ManagerSteps
<1> SUFFICES ASSUME [Next]_vars PROVE ManagerSteps
  OBVIOUS
<1>1. CASE WorldNext /\ UNCHANGED <<ctrlVars, hookVars>>
  BY <1>1 DEF WorldNext, CreateContact, EditContact, DeleteContact, LoopsReports,
              ctrlVars, ManagerSteps
<1>2. CASE HookNext /\ UNCHANGED ctrlVars
  BY <1>2 DEF HookNext, Receive, UpdateContact, RequestFails, RestartWebhookServer,
              ctrlVars, worldVars, ManagerSteps
<1>3. CASE UNCHANGED vars
  BY <1>3 DEF vars, ctrlVars, worldVars, ManagerSteps
<1>4. CASE CtrlNext
  <2>1. CASE Observe \/ Resync
    BY <2>1 DEF Observe, Resync, worldVars, ManagerSteps
  <2>2. CASE UpdateFinalizer \/ UpdateFinalizerFails \/ PatchStatus \/ PatchFails \/ CallFails
    BY <2>2 DEF UpdateFinalizer, UpdateFinalizerFails, PatchStatus, PatchFails, CallFails,
                GiveUp, ManagerSteps
  <2>3. CASE RestartManager
    BY <2>3 DEF RestartManager, Restarted, ManagerSteps
  <2>4. CASE \/ CreateAtResend \/ DeleteAtResend
             \/ AskMemberships \/ EvictMemberships \/ CheckMemberships
    BY <2>4 DEF CreateAtResend, DeleteAtResend, AskMemberships, EvictMemberships,
                CheckMemberships, Proceed, ManagerSteps
  <2> QED
    BY <1>4, <2>1, <2>2, <2>3, <2>4 DEF CtrlNext, ReconcileNext, ManagerSteps
<1> QED
  BY <1>1, <1>2, <1>3, <1>4 DEF Next

(* What happens to the webhook server's variables.                         *)
Received(h) ==
    \E n \in DOMAIN contacts, type \in AllowedContactEvents :
        /\ handler' = [handler EXCEPT ![h] =
               [step |-> "update", read |-> hookAt', id |-> n, type |-> type]]
        /\ At(hookAt').providerID = n

ServerSteps ==
    /\ hookAt' = hookAt \/ hookAt' \in 0..Len(log)
    /\ deliveries' \in {deliveries, deliveries + 1}
    /\ \/ reported' = reported
       \/ \E n \in DOMAIN contacts, type \in AllowedContactEvents :
            reported' = reported \cup {<<n, type>>}
    /\ \/ handler' = handler
       \/ handler' = [h \in Handlers |-> Free]
       \/ \E h \in Handlers : handler' = [handler EXCEPT ![h] = Free]
       \/ \E h \in Handlers : Received(h) /\ hookAt' \in 0..Len(log) /\ UNCHANGED log

LEMMA EveryServerStep == TypeOK /\ [Next]_vars => ServerSteps
<1> SUFFICES ASSUME TypeOK, [Next]_vars PROVE ServerSteps
  OBVIOUS
<1>1. CASE UNCHANGED hookVars
  BY <1>1 DEF hookVars, ServerSteps
<1>2. ASSUME NEW h \in Handlers, NEW n \in DOMAIN contacts, NEW type \in Reports(n),
             Receive(h, n, type)
      PROVE  ServerSteps
  <2>1. type \in AllowedContactEvents
    BY ReportedAreContactEvents DEF Reports
  <2>2. hookAt' \in hookAt..Len(log) /\ UNCHANGED log
    BY <1>2 DEF Receive, worldVars
  <2>3. hookAt' \in 0..Len(log)
    BY <2>2 DEF TypeOK
  <2>4. deliveries' = deliveries + 1 /\ reported' = reported \cup {<<n, type>>}
    BY <1>2 DEF Receive
  <2>5. CASE IsContactWithProviderID(hookAt', n)
    <3>1. Received(h)
      BY <1>2, <2>1, <2>5 DEF Receive, Received, IsContactWithProviderID
    <3> QED
      BY <2>1, <2>2, <2>3, <2>4, <3>1 DEF ServerSteps
  <2>6. CASE ~IsContactWithProviderID(hookAt', n)
    <3>1. handler' = handler
      BY <1>2, <2>6 DEF Receive
    <3> QED
      BY <2>1, <2>2, <2>3, <2>4, <3>1 DEF ServerSteps
  <2> QED
    BY <2>5, <2>6
<1>3. ASSUME NEW h \in Handlers, UpdateContact(h) \/ RequestFails(h)
      PROVE  ServerSteps
  BY <1>3 DEF UpdateContact, RequestFails, Finish, ServerSteps
<1>4. CASE RestartWebhookServer
  BY <1>4 DEF RestartWebhookServer, ServerSteps
<1>5. CASE HookNext
  BY <1>2, <1>3, <1>4, <1>5 DEF HookNext
<1> QED
  BY <1>1, <1>5 DEF Next, vars, hookVars

(***************************************************************************)
(* The invariant, one conjunct at a time.                                  *)
(***************************************************************************)
LEMMA LogKept ==
    ASSUME IInv, [Next]_vars
    PROVE  /\ log' \in Seq(Version) /\ Len(log) \in Nat /\ Len(log') \in Nat
           /\ DOMAIN log = 1..Len(log) /\ DOMAIN log' = 1..Len(log')
           /\ Len(log) <= Len(log')
           /\ \A i \in DOMAIN log : log'[i] = log[i]
<1>1. log \in Seq(Version)
  BY DEF IInv, TypeOK
<1>2. CASE UNCHANGED log
  BY <1>1, <1>2
<1>3. ASSUME NEW v, Follows(v), log' = Append(log, v)
      PROVE  /\ log' \in Seq(Version) /\ Len(log) \in Nat /\ Len(log') \in Nat
             /\ DOMAIN log = 1..Len(log) /\ DOMAIN log' = 1..Len(log')
             /\ Len(log) <= Len(log')
             /\ \A i \in DOMAIN log : log'[i] = log[i]
  BY <1>1, <1>3, AppendFacts DEF Follows
<1> QED
  BY <1>2, <1>3, LogStep

LEMMA TypeStep ==
    ASSUME IInv, [Next]_vars
    PROVE  TypeOK'
<1>1. TypeOK
  BY DEF IInv
<1>2. log' \in Seq(Version) /\ Len(log) \in Nat
  BY LogKept
<1>3. contacts' \in Seq([email : Addresses, live : BOOLEAN])
  BY ContactsStep DEF ContactsGrow, Contact
<1>4. spare' \in Nat /\ ctrlAt' \in Nat /\ queued' \in BOOLEAN /\ worker' \in WorkerStates
  <2>1. /\ spare \in Nat /\ ctrlAt \in Nat /\ queued \in BOOLEAN /\ worker \in WorkerStates
        /\ Idle \in WorkerStates /\ Exists(At(ctrlAt')) \in BOOLEAN
    BY <1>1 DEF TypeOK, WorkerStates, Exists
  <2>2. CASE StartReconcile
    BY <2>1, <2>2, StartFacts DEF StartReconcile, worldVars
  <2>3. CASE CreateAtResend \/ DeleteAtResend
               \/ AskMemberships \/ EvictMemberships \/ CheckMemberships
    BY <2>1, <2>3, CallFacts
  <2>4. ASSUME spare' = spare \/ Disturb,
               \/ worker' = worker /\ ctrlAt' = ctrlAt
               \/ worker' = worker /\ ctrlAt < Len(log) /\ ctrlAt' = ctrlAt + 1
               \/ worker' = Idle /\ ctrlAt' = ctrlAt
               \/ worker' = Idle /\ ctrlAt' \in 0..Len(log),
               queued' \in {queued, TRUE, Exists(At(ctrlAt'))}
        PROVE  spare' \in Nat /\ ctrlAt' \in Nat /\ queued' \in BOOLEAN
               /\ worker' \in WorkerStates
    <3>1. spare' \in Nat
      BY <2>1, <2>4 DEF Disturb
    <3>2. ctrlAt' \in Nat
      BY <1>2, <2>1, <2>4
    <3>3. worker' \in WorkerStates
      BY <2>1, <2>4, Zenon
    <3>4. queued' \in BOOLEAN
      BY <2>1, <2>4, Zenon
    <3> QED
      BY <3>1, <3>2, <3>3, <3>4
  <2> QED
    BY <2>2, <2>3, <2>4, EveryManagerStep DEF ManagerSteps
<1>5. hookAt' \in Nat /\ deliveries' \in Nat
  BY <1>1, <1>2, EveryServerStep DEF ServerSteps, TypeOK
<1>6. handler' \in [Handlers -> HandlerStates]
  <2>1. handler \in [Handlers -> HandlerStates] /\ Free \in HandlerStates
    BY <1>1 DEF TypeOK, HandlerStates
  <2>2. ASSUME NEW h \in Handlers, Received(h), hookAt' \in 0..Len(log)
        PROVE  handler' \in [Handlers -> HandlerStates]
    <3>1. PICK n \in DOMAIN contacts, type \in AllowedContactEvents :
            handler' = [handler EXCEPT ![h] =
               [step |-> "update", read |-> hookAt', id |-> n, type |-> type]]
      BY <2>2 DEF Received
    <3>2. n \in Nat
      BY <1>1 DEF TypeOK
    <3>3. [step |-> "update", read |-> hookAt', id |-> n, type |-> type] \in HandlerStates
      BY <2>2, <3>2 DEF HandlerStates
    <3> QED
      BY <2>1, <3>1, <3>3, Zenon
  <2>3. ASSUME \/ handler' = handler
               \/ handler' = [h \in Handlers |-> Free]
               \/ \E h \in Handlers : handler' = [handler EXCEPT ![h] = Free]
        PROVE  handler' \in [Handlers -> HandlerStates]
    BY <2>1, <2>3, Zenon
  <2> QED
    BY <1>1, <2>2, <2>3, EveryServerStep DEF ServerSteps
<1>7. reported' \subseteq (DOMAIN contacts') \X AllowedContactEvents
  <2>1. reported \subseteq (DOMAIN contacts') \X AllowedContactEvents
        /\ DOMAIN contacts \subseteq DOMAIN contacts'
    BY <1>1, ContactsStep DEF TypeOK, ContactsGrow
  <2> QED
    BY <1>1, <2>1, EveryServerStep DEF ServerSteps
<1> QED
  BY <1>2, <1>3, <1>4, <1>5, <1>6, <1>7 DEF TypeOK

LEMMA PositionsStep ==
    ASSUME IInv, [Next]_vars
    PROVE  PositionsOK'
<1>1. /\ Len(log) \in Nat /\ Len(log') \in Nat /\ Len(log) <= Len(log')
      /\ DOMAIN log \subseteq DOMAIN log'
  BY LogKept
<1>2. /\ ctrlAt \in Nat /\ hookAt \in Nat /\ ctrlAt <= Len(log) /\ hookAt <= Len(log)
      /\ worker # Idle => worker.read \in DOMAIN log
      /\ \A h \in Handlers : handler[h] # Free => handler[h].read \in DOMAIN log
  BY DEF IInv, TypeOK, PositionsOK
<1>3. ctrlAt' <= Len(log') /\ (worker' # Idle => worker'.read \in DOMAIN log')
  <2>1. CASE StartReconcile
    <3>1. ctrlAt' = ctrlAt
      BY <2>1 DEF StartReconcile
    <3>2. worker' # Idle => worker'.read \in DOMAIN log
      BY <2>1, StartFacts
    <3> QED
      BY <1>1, <1>2, <3>1, <3>2
  <2>2. CASE CreateAtResend \/ DeleteAtResend
               \/ AskMemberships \/ EvictMemberships \/ CheckMemberships
    BY <1>1, <1>2, <2>2, CallFacts
  <2>3. ASSUME \/ worker' = worker /\ ctrlAt' = ctrlAt
               \/ worker' = worker /\ ctrlAt < Len(log) /\ ctrlAt' = ctrlAt + 1
               \/ worker' = Idle /\ ctrlAt' = ctrlAt
               \/ worker' = Idle /\ ctrlAt' \in 0..Len(log)
        PROVE  ctrlAt' <= Len(log') /\ (worker' # Idle => worker'.read \in DOMAIN log')
    BY <1>1, <1>2, <2>3
  <2> QED
    BY <2>1, <2>2, <2>3, EveryManagerStep DEF ManagerSteps
<1>4. hookAt' <= Len(log')
  BY <1>1, <1>2, EveryServerStep DEF ServerSteps, IInv
<1>5. ASSUME NEW h \in Handlers, handler'[h] # Free
      PROVE  handler'[h].read \in DOMAIN log'
  <2>1. handler \in [Handlers -> HandlerStates] /\ TypeOK
    BY DEF IInv, TypeOK
  <2>2. CASE handler'[h] = handler[h]
    BY <1>1, <1>2, <1>5, <2>2
  <2>3. CASE \E g \in Handlers : Received(g) /\ hookAt' \in 0..Len(log) /\ UNCHANGED log
    <3>1. PICK g \in Handlers : Received(g) /\ hookAt' \in 0..Len(log) /\ UNCHANGED log
      BY <2>3
    <3>2. CASE g # h
      BY <2>1, <2>2, <3>1, <3>2 DEF Received
    <3>3. CASE g = h
      <4>1. handler'[h].read = hookAt' /\ At(hookAt').providerID \in DOMAIN contacts
        BY <2>1, <3>1, <3>3 DEF Received
      <4>2. At(hookAt').providerID # 0
        BY <4>1 DEF IInv, TypeOK
      <4>3. hookAt' # 0
        BY <4>2, AbsentIsVersion DEF At, VersionAt
      <4>4. hookAt' \in 1..Len(log)
        BY <3>1, <4>3
      <4> QED
        BY <1>1, <4>1, <4>4, LogKept
    <3> QED
      BY <3>2, <3>3
  <2>4. ASSUME \/ handler' = handler
               \/ handler' = [g \in Handlers |-> Free]
               \/ \E g \in Handlers : handler' = [handler EXCEPT ![g] = Free]
        PROVE  handler'[h] = handler[h]
    BY <1>5, <2>1, <2>4
  <2> QED
    BY <2>1, <2>2, <2>3, <2>4, EveryServerStep DEF ServerSteps
<1> QED
  BY <1>3, <1>4, <1>5 DEF PositionsOK

LEMMA HistoryStep ==
    ASSUME IInv, [Next]_vars
    PROVE  History'
<1>1. log \in Seq(Version) /\ History
  BY DEF IInv, TypeOK
<1>2. DOMAIN contacts \subseteq DOMAIN contacts'
  BY ContactsStep DEF ContactsGrow
<1>3. CASE UNCHANGED log
  BY <1>1, <1>2, <1>3 DEF History, Exists
<1>4. ASSUME NEW v, Follows(v), log' = Append(log, v)
      PROVE  History'
  <2>1. /\ Len(log) \in Nat /\ Len(log') = Len(log) + 1
        /\ DOMAIN log = 1..Len(log) /\ DOMAIN log' = 1..(Len(log) + 1)
        /\ \A i \in DOMAIN log : log'[i] = log[i]
        /\ log'[Len(log) + 1] = v
    BY <1>1, <1>4, AppendFacts DEF Follows
  <2>2. \A i \in DOMAIN log : Exists(log[i]) /\ log[i].email \in Addresses
    <3> SUFFICES ASSUME NEW i \in DOMAIN log
                 PROVE  Exists(log[i]) /\ log[i].email \in Addresses
      OBVIOUS
    <3>1. log # << >> /\ Exists(Current)
      BY <1>4, <2>1 DEF Follows
    <3>2. log[Len(log)] # Absent
      BY <1>1, <3>1, CurrentFacts, AbsentIsVersion
    <3> QED
      BY <1>1, <3>2 DEF History
  <2>3. \A i \in DOMAIN log' : i \in DOMAIN log \/ i = Len(log) + 1
    BY <2>1
  <2>4. ASSUME NEW i \in DOMAIN log'
        PROVE  /\ \/ Exists(log'[i]) /\ log'[i].email \in Addresses
                  \/ i = Len(log') /\ log'[i] = Absent
               /\ log'[i].providerID \in {0} \cup DOMAIN contacts'
               /\ log'[i].providerID # 0 => log'[i].finalizer
    <3>1. CASE i \in DOMAIN log
      BY <1>1, <1>2, <2>1, <2>2, <3>1 DEF History
    <3>2. CASE i = Len(log) + 1
      BY <1>2, <1>4, <2>1, <3>2 DEF Follows
    <3> QED
      BY <2>3, <2>4, <3>1, <3>2
  <2>5. ASSUME NEW i \in DOMAIN log', NEW j \in DOMAIN log',
               i < j, log'[i].finalizer, Exists(log'[j])
        PROVE  log'[j].finalizer
    <3>1. i \in DOMAIN log /\ log'[i] = log[i]
      BY <2>1, <2>5
    <3>2. CASE j \in DOMAIN log
      BY <1>1, <2>1, <2>5, <3>1, <3>2 DEF History
    <3>3. CASE j = Len(log) + 1
      <4>1. log # << >> /\ Len(log) \in DOMAIN log /\ Current = log[Len(log)]
            /\ Exists(Current) /\ i <= Len(log)
        BY <1>1, <1>4, <2>1, <3>1, CurrentFacts DEF Follows
      <4>2. Current.finalizer
        BY <1>1, <2>5, <3>1, <4>1 DEF History
      <4> QED
        BY <1>4, <2>1, <2>5, <3>3, <4>2 DEF Follows
    <3> QED
      BY <2>3, <2>5, <3>2, <3>3
  <2> QED
    BY <2>4, <2>5 DEF History, Exists
<1> QED
  BY <1>3, <1>4, LogStep

LEMMA InProgressStep ==
    ASSUME IInv, [Next]_vars
    PROVE  InProgress'
<1>1. InProgress /\ TypeOK /\ TypeOK' /\ log' \in Seq(Version)
  BY TypeStep DEF IInv, TypeOK
<1>2. /\ \A i \in DOMAIN log : log'[i] = log[i]
      /\ DOMAIN log \subseteq DOMAIN log'
  BY LogKept
<1>3. ContactsGrow
  BY ContactsStep
<1>4. ASSUME worker' # Idle
      PROVE  /\ Exists(Reading') /\ worker'.id \in {0} \cup DOMAIN contacts'
             /\ worker'.step \in {"create", "replace", "recreate", "ask", "patch"} =>
                  Reading'.finalizer
             /\ worker'.step \in {"remove", "evict", "check", "release"} =>
                  worker'.id = Reading'.providerID
             /\ worker'.step \in {"evict", "check", "release"} /\ worker'.id # 0 =>
                  ~contacts'[worker'.id].live
  <2>1. worker'.read \in DOMAIN log'
    BY <1>4, PositionsStep DEF PositionsOK
  <2>2. Reading' = log'[worker'.read]
    BY <1>1, <2>1 DEF Reading, At, VersionAt
  <2>3. ASSUME worker # Idle, worker'.read = worker.read
        PROVE  Reading' = Reading
    BY <1>2, <2>2, <2>3, ReadingFacts
  <2>4. CASE worker' = worker /\ UNCHANGED contacts
    <3>1. worker # Idle /\ Reading' = Reading
      BY <1>4, <2>3, <2>4
    <3> QED
      BY <1>1, <2>4, <3>1 DEF InProgress
  <2>5. CASE StartReconcile
    <3>1. /\ ctrlAt \in DOMAIN log /\ Exists(log[ctrlAt])
          /\ worker' = [step |-> FirstStep(log[ctrlAt]), read |-> ctrlAt,
                        id |-> log[ctrlAt].providerID]
      BY <1>4, <2>5, StartFacts
    <3>2. Reading' = log[ctrlAt]
      BY <1>2, <2>2, <3>1
    <3>3. worker'.step = FirstStep(Reading') /\ worker'.id = Reading'.providerID
          /\ Exists(Reading')
      BY <3>1, <3>2
    <3>4. worker'.id \in {0} \cup DOMAIN contacts'
      BY <1>3, <3>1 DEF ContactsGrow, IInv, History
    <3> QED
      BY <3>3, <3>4 DEF FirstStep
  <2>6. CASE \/ CreateAtResend \/ DeleteAtResend
             \/ AskMemberships \/ EvictMemberships \/ CheckMemberships
    <3>1. /\ worker # Idle /\ worker'.id \in {0} \cup DOMAIN contacts'
          /\ \/ /\ worker.step \in {"create", "replace", "recreate", "ask"}
                /\ worker'.step \in {"recreate", "ask", "patch"}
             \/ /\ <<worker.step, worker'.step>> \in
                     {<<"remove", "evict">>, <<"evict", "check">>, <<"check", "release">>}
                /\ worker'.id = worker.id
                /\ worker.step # "remove" => UNCHANGED contacts
                /\ worker.step = "remove" /\ worker.id # 0 => ~contacts'[worker.id].live
      BY <2>6, CallFacts
    <3>2. Reading' = Reading /\ Exists(Reading)
      BY <2>3, <2>6, <3>1, CallFacts, ReadingFacts
    <3>3. CASE /\ worker.step \in {"create", "replace", "recreate", "ask"}
               /\ worker'.step \in {"recreate", "ask", "patch"}
      BY <1>1, <3>1, <3>2, <3>3 DEF InProgress
    <3>4. CASE /\ <<worker.step, worker'.step>> \in
                    {<<"remove", "evict">>, <<"evict", "check">>, <<"check", "release">>}
               /\ worker'.id = worker.id
               /\ worker.step # "remove" => UNCHANGED contacts
               /\ worker.step = "remove" /\ worker.id # 0 => ~contacts'[worker.id].live
      BY <1>1, <3>1, <3>2, <3>4 DEF InProgress
    <3> QED
      BY <3>1, <3>3, <3>4
  <2> QED
    BY <1>4, <2>4, <2>5, <2>6, EveryManagerStep DEF ManagerSteps
<1>5. ASSUME NEW h \in Handlers, handler'[h] # Free
      PROVE  Exists(At(handler[h].read))'
  <2>1. handler'[h].read \in DOMAIN log'
    BY <1>5, PositionsStep DEF PositionsOK
  <2>2. At(handler[h].read)' = log'[handler'[h].read]
    BY <1>1, <2>1 DEF At, VersionAt
  <2>3. CASE handler'[h] = handler[h]
    <3>1. handler[h].read \in DOMAIN log /\ Exists(At(handler[h].read))
      BY <1>5, <2>3, HandlerFacts
    <3>2. At(handler[h].read) = log[handler[h].read]
      BY <1>1, <3>1 DEF At, VersionAt, TypeOK
    <3> QED
      BY <1>2, <2>2, <2>3, <3>1, <3>2
  <2>4. CASE \E g \in Handlers : Received(g) /\ hookAt' \in 0..Len(log) /\ UNCHANGED log
    <3>1. PICK g \in Handlers : Received(g) /\ hookAt' \in 0..Len(log) /\ UNCHANGED log
      BY <2>4
    <3>2. CASE g # h
      BY <1>1, <2>3, <3>1, <3>2 DEF Received, TypeOK
    <3>3. CASE g = h
      <4>1. handler'[h].read = hookAt' /\ At(hookAt').providerID \in DOMAIN contacts
        BY <1>1, <3>1, <3>3 DEF Received, TypeOK
      <4>2. At(hookAt').providerID # 0
        BY <1>1, <4>1 DEF TypeOK
      <4>3. hookAt' \in DOMAIN log /\ At(hookAt') = log[hookAt']
        BY <1>1, <2>1, <3>1, <4>1 DEF At, VersionAt
      <4> QED
        BY <2>2, <3>1, <4>1, <4>2, <4>3, AbsentIsVersion DEF IInv, History
    <3> QED
      BY <3>2, <3>3
  <2>5. ASSUME \/ handler' = handler
               \/ handler' = [g \in Handlers |-> Free]
               \/ \E g \in Handlers : handler' = [handler EXCEPT ![g] = Free]
        PROVE  handler'[h] = handler[h]
    BY <1>1, <1>5, <2>5 DEF TypeOK
  <2> QED
    BY <1>1, <2>3, <2>4, <2>5, EveryServerStep DEF ServerSteps
<1>6. CASE worker' = Idle
  BY <1>5, <1>6 DEF InProgress, Idle, Exists
<1> QED
  BY <1>4, <1>5, <1>6 DEF InProgress, Exists

LEMMA GoneStep ==
    ASSUME IInv, [Next]_vars
    PROVE  GoneFromResend'
<1>1. log \in Seq(Version) /\ GoneFromResend /\ History
  BY DEF IInv, TypeOK
<1>2. ContactsGrow
  BY ContactsStep
<1> SUFFICES ASSUME NEW i \in DOMAIN log', i > 1, log'[i] = Absent,
                    log'[i - 1].providerID # 0
             PROVE  ~contacts'[log'[i - 1].providerID].live
  BY DEF GoneFromResend
<1>3. /\ i - 1 \in DOMAIN log /\ log'[i - 1] = log[i - 1]
      /\ log[i - 1].providerID \in DOMAIN contacts
  <2>1. i - 1 \in DOMAIN log /\ log'[i - 1] = log[i - 1]
    BY <1>1, LogStep, AppendFacts DEF Follows
  <2> QED
    BY <1>1, <2>1 DEF History
<1>4. CASE i \in DOMAIN log
  <2>1. log[i] = Absent /\ ~contacts[log[i - 1].providerID].live
    BY <1>1, <1>3, <1>4, LogKept DEF GoneFromResend
  <2> QED
    BY <1>2, <1>3, <2>1 DEF ContactsGrow
<1>5. CASE i \notin DOMAIN log
  <2>1. PICK v : UNCHANGED contacts /\ Follows(v) /\ log' = Append(log, v)
    BY <1>5, LogStep
  <2>2. i = Len(log) + 1 /\ v = Absent /\ log[i - 1] = Current
    BY <1>1, <1>3, <1>5, <2>1, AppendFacts, CurrentFacts DEF Follows
  <2> QED
    BY <1>3, <2>1, <2>2 DEF Follows
<1> QED
  BY <1>4, <1>5

LEMMA InvariantInit == Init => IInv
<1> SUFFICES ASSUME Init
             PROVE  IInv
  OBVIOUS
<1>1. /\ log = << >> /\ contacts = << >> /\ spare = MaxDisturbances
      /\ ctrlAt = 0 /\ queued = FALSE /\ worker = Idle
      /\ hookAt = 0 /\ handler = [h \in Handlers |-> Free] /\ reported = {} /\ deliveries = 0
  BY DEF Init, WorldInit, CtrlInit, HookInit
<1>2. log \in Seq(Version) /\ DOMAIN log = {} /\ Len(log) = 0
      /\ contacts \in Seq([email : Addresses, live : BOOLEAN])
  BY <1>1
<1>3. TypeOK
  BY <1>1, <1>2, ContactBoundsAreNats DEF TypeOK, WorkerStates, HandlerStates
<1>4. PositionsOK /\ InProgress
  BY <1>1, <1>2 DEF PositionsOK, InProgress, Idle
<1>5. History /\ GoneFromResend
  BY <1>2 DEF History, GoneFromResend
<1> QED
  BY <1>3, <1>4, <1>5 DEF IInv

LEMMA InvariantStep == IInv /\ [Next]_vars => IInv'
  BY TypeStep, PositionsStep, HistoryStep, InProgressStep, GoneStep DEF IInv

(***************************************************************************)
(* The inductive invariant: what a reconciliation of a Contact may rely on *)
(* at whatever point it, the webhook server or the Loops provider wrote.   *)
(***************************************************************************)
THEOREM ContactInvariant == Spec => []IInv
  BY InvariantInit, InvariantStep, PTL DEF Spec

(***************************************************************************)
(* Type correctness of the Contact controller's and the webhook server's   *)
(* state.                                                                  *)
(***************************************************************************)
THEOREM ContactTypeCorrect == Spec => []TypeOK
<1>1. IInv => TypeOK
  BY DEF IInv
<1> QED
  BY <1>1, ContactInvariant, PTL

(***************************************************************************)
(* Whatever fails, restarts or lags, a Contact object disappears only once *)
(* the contact on its record is deleted at Resend.                         *)
(***************************************************************************)
THEOREM ContactGoneFromResend == Spec => []GoneFromResend
<1>1. IInv => GoneFromResend
  BY DEF IInv
<1> QED
  BY <1>1, ContactInvariant, PTL

==============================================================================
