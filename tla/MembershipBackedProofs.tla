----------------------- MODULE MembershipBackedProofs ------------------------
(***************************************************************************)
(* The membership of a Contact that is never edited, with caches that do   *)
(* not go back: at Resend while it says so, and not once it is gone,       *)
(* whatever the users delete, in whatever order, and whatever fails.       *)
(***************************************************************************)
EXTENDS MembershipInvariants, MembershipsProofs

NeverEdited == MaxGeneration <= 1 /\ ~RelistLags

(***************************************************************************)
(* The Contact: what its readers see.                                      *)
(***************************************************************************)
LEMMA ContactView ==
    ASSUME IInv, UneditedContact
    PROVE  /\ log \in Seq(Version) /\ Len(log) \in Nat /\ DOMAIN log = 1..Len(log)
           /\ Len(log) \in DOMAIN log /\ Current = log[Len(log)]
           /\ ctrlAt \in DOMAIN log /\ Cached = log[ctrlAt]
           /\ \A i \in DOMAIN log : ~Exists(log[i]) => i = Len(log)
           /\ Exists(Cached) => OfFirstGeneration(Cached)
           /\ worker # Idle =>
                /\ worker.read \in DOMAIN log /\ Reading = log[worker.read]
                /\ OfFirstGeneration(Reading)
                /\ Reading.terminating /\ Exists(Cached) => Cached.terminating
<1>1. /\ log \in Seq(Version) /\ Len(log) \in Nat /\ DOMAIN log = 1..Len(log)
      /\ ctrlAt \in DOMAIN log
  BY DEF IInv, TypeOK, PositionsOK, UneditedContact, ContactInHand
<1>2. Cached = log[ctrlAt]
  BY <1>1 DEF Cached, At, VersionAt
<1>3. /\ Len(log) \in DOMAIN log /\ Current = log[Len(log)]
      /\ worker # Idle => Reading = log[worker.read] /\ Exists(Reading)
  BY ContactFacts
<1>4. worker # Idle => worker.read \in DOMAIN log /\ worker.read <= ctrlAt
  BY DEF IInv, PositionsOK, UneditedContact, ContactInHand
<1>5. \A i \in DOMAIN log : ~Exists(log[i]) => i = Len(log)
  BY DEF IInv, History
<1> QED
  BY <1>1, <1>2, <1>3, <1>4, <1>5 DEF UneditedContact, FirstVersions

LEMMA MembersAreOne ==
    ASSUME IInv, UneditedContact
    PROVE  members \subseteq {1}
<1>1. /\ contacts \in Seq([email : Addresses, live : BOOLEAN]) /\ members \subseteq DOMAIN contacts
      /\ Len(contacts) <= 1
  BY DEF IInv, TypeOK, UneditedContact, OneContact
<1>2. DOMAIN contacts = 1..Len(contacts) /\ Len(contacts) \in Nat
  BY <1>1
<1> QED
  BY <1>1, <1>2

(* The cache goes forward, so what it showed of the record and of a        *)
(* deletion it shows until the Contact is gone.                            *)
LEMMA CacheAdvances ==
    ASSUME NeverEdited, IInv, UneditedContact, [Next]_vars
    PROVE  /\ ctrlAt' \in DOMAIN log /\ ctrlAt <= ctrlAt' /\ Cached' = log[ctrlAt']
           /\ Exists(Cached') =>
                /\ Exists(Cached)
                /\ Cached.terminating => Cached'.terminating
                /\ Cached.providerID # 0 => Cached'.providerID # 0
<1>1. ctrlAt' \in {ctrlAt, ctrlAt + 1, Len(log)} /\ CachesFollow(ctrlAt, ctrlAt', Len(log))
  BY EveryContactMove DEF NeverEdited, IInv
<1>2. ctrlAt' \in DOMAIN log /\ ctrlAt <= ctrlAt'
  BY <1>1, ContactView DEF CachesFollow
<1>3. Cached' = log[ctrlAt']
  <2>1. /\ log' \in Seq(Version) /\ ctrlAt' \in DOMAIN log' /\ log'[ctrlAt'] = log[ctrlAt']
    BY <1>2, ContactKept
  <2> QED
    BY <1>2, <2>1, ContactView DEF Cached, At, VersionAt
<1>4. Exists(log[ctrlAt']) =>
        /\ Exists(log[ctrlAt])
        /\ log[ctrlAt].terminating => log[ctrlAt'].terminating
        /\ log[ctrlAt].providerID # 0 => log[ctrlAt'].providerID # 0
  BY <1>2, ContactView DEF UneditedContact, FirstVersions
<1> QED
  BY <1>2, <1>3, <1>4, ContactView DEF Exists

(***************************************************************************)
(* Resend holds at most contact 1, of the Contact's address; it is deleted *)
(* by a reconciliation that has read the Contact's deletion.               *)
(***************************************************************************)
LEMMA ContactsMove ==
    ASSUME IInv, UneditedContact, [Next]_vars
    PROVE  /\ Len(contacts') <= 1
           /\ contacts # << >> => contacts' # << >>
           /\ contacts' # << >> => contacts'[1].email = log[1].email
           /\ contacts' # << >> /\ ~contacts'[1].live =>
                (contacts # << >> /\ ~contacts[1].live) \/ worker.step = "remove"
           /\ worker.step = "create" /\ StoreContact(Reading.email) =>
                contacts' # << >> /\ ContactId(Reading.email) = 1
<1>1. /\ contacts \in Seq(Contact) /\ Len(contacts) \in Nat /\ Len(contacts) <= 1
      /\ contacts # << >> => contacts[1].email = log[1].email
      /\ contacts # << >> => Len(contacts) = 1
  <2>1. contacts \in Seq(Contact)
    BY DEF IInv, TypeOK, Contact
  <2> DEFINE n == Len(contacts)
  <2>2. n \in Nat /\ (contacts # << >> => n # 0)
    BY <2>1
  <2>3. n <= 1 /\ (contacts # << >> => contacts[1].email = log[1].email)
    BY DEF UneditedContact, OneContact
  <2> HIDE DEF n
  <2>4. contacts # << >> => n = 1
    BY <2>2, <2>3
  <2> QED
    BY <2>1, <2>2, <2>3, <2>4 DEF n
<1>2. worker.step \notin {"recreate", "replace"}
  BY DEF UneditedContact, ContactInHand, Idle
<1>3. CASE worker.step = "create" /\ StoreContact(Reading.email)
  <2> DEFINE a == Reading.email
             c == [email |-> a, live |-> TRUE]
  <2>1. /\ a = log[1].email
        /\ contacts # << >> => contacts[1].live
    BY <1>3, ContactView DEF UneditedContact, ContactInHand, OneContact, OfFirstGeneration, Idle
  <2>2. CASE contacts = << >>
    <3>1. Live(a) = {} /\ ContactId(a) = 1 /\ contacts' = Append(contacts, c)
      BY <1>3, <2>2 DEF Live, ContactId, StoreContact
    <3>2. c.email = a /\ c.live
      OBVIOUS
    <3> HIDE DEF c
    <3>3. Len(contacts') = 1 /\ contacts'[1] = c /\ contacts' # << >>
      BY <2>2, <3>1
    <3> QED
      BY <1>3, <2>1, <2>2, <3>1, <3>2, <3>3
  <2>3. CASE contacts # << >>
    <3>1. DOMAIN contacts = {1}
      BY <1>1, <2>3
    <3>2. Live(a) = {1}
      BY <1>1, <2>1, <2>3, <3>1 DEF Live
    <3>3. ContactId(a) = 1 /\ contacts' = contacts
      BY <1>3, <3>2 DEF ContactId, StoreContact
    <3> QED
      BY <1>1, <1>3, <2>1, <2>3, <3>3
  <2> QED
    BY <2>2, <2>3
<1>4. CASE worker.step = "remove" /\ RemoveContact(worker.id)
  <2> DEFINE F(m) == IF m = worker.id THEN [contacts[m] EXCEPT !.live = FALSE]
                     ELSE contacts[m]
  <2>1. contacts' = [m \in DOMAIN contacts |-> F(m)]
    BY <1>4 DEF RemoveContact
  <2>2. contacts # << >> => F(1).email = contacts[1].email
    <3> SUFFICES ASSUME contacts # << >> PROVE F(1).email = contacts[1].email
      OBVIOUS
    <3>1. contacts[1] \in Contact
      BY <1>1
    <3> QED
      BY <3>1 DEF Contact
  <2> HIDE DEF F
  <2>3. contacts' \in Seq(Contact) /\ DOMAIN contacts' = DOMAIN contacts
    BY <1>1, <1>4, <2>1, RemoveFacts
  <2>4. Len(contacts') = Len(contacts)
    BY <1>1, <2>3
  <2>5. contacts # << >> => contacts'[1] = F(1)
    BY <1>1, <2>1
  <2> QED
    BY <1>1, <1>4, <2>2, <2>3, <2>4, <2>5
<1>5. CASE UNCHANGED contacts /\ ~(worker.step = "create" /\ StoreContact(Reading.email))
  BY <1>1, <1>5
<1> QED
  BY <1>2, <1>3, <1>4, <1>5, EveryCall

(***************************************************************************)
(* What is written of the Contact keeps what the readers count on.         *)
(***************************************************************************)
LEMMA NewConditionsRecorded ==
    ASSUME IInv, UneditedContact, worker.step = "patch"
    PROVE  /\ NewConditions.resendReady # "none" /\ NewConditions.updatedAt = 1
           /\ Reading.providerID = 0 => NewConditions # Reading.conditions
<1>1. /\ worker # Idle /\ Reading \in Version /\ Reading.finalizer
      /\ OfFirstGeneration(Reading)
  BY ContactFacts, ContactView DEF Idle
<1>2. ~Reading.terminating /\ Reading.generation = 1
  BY <1>1 DEF UneditedContact, ContactInHand, OfFirstGeneration
<1> DEFINE r == Reading.conditions
           p == Processed(Reading)
<1>3. r \in Conditions
  BY <1>1 DEF Version
<1>4. /\ p \in Conditions /\ p.resendReady # "none" /\ p.updatedAt = 1
      /\ Reading.providerID = 0 => r.resendReady = "none"
  <2>1. CASE Reading.providerID = 0 /\ r.resendReady = "none"
    <3>1. FirstStep(Reading) = "create"
      BY <1>1, <1>2, <2>1 DEF FirstStep
    <3>2. p = [r EXCEPT !.resendReady = "ResendContactPending",
                        !.updated = "Created", !.updatedAt = 1]
      BY <1>2, <3>1 DEF Processed
    <3> HIDE DEF p, r
    <3>3. p \in Conditions /\ p.resendReady = "ResendContactPending" /\ p.updatedAt = 1
      BY <1>3, <3>2 DEF Conditions
    <3> QED
      BY <2>1, <3>3 DEF r
  <2>2. CASE Reading.providerID = 1 /\ r.resendReady # "none" /\ r.updatedAt = 1
    <3>1. FirstStep(Reading) = "patch"
      BY <1>1, <1>2, <2>2 DEF FirstStep
    <3> QED
      BY <1>3, <2>2, <3>1 DEF Processed
  <2> QED
    BY <1>1, <2>1, <2>2 DEF OfFirstGeneration
<1>5. /\ NewConditions.resendReady = p.resendReady
      /\ NewConditions.updatedAt = p.updatedAt
  <2> DEFINE ready == IF p.loopsReady /\ p.resendReady # "none" THEN "True" ELSE "False"
  <2>1. NewConditions = [p EXCEPT !.ready = ready, !.readyAt = Reading.generation]
    BY DEF NewConditions, VerifyContactReadyCondition
  <2> HIDE DEF p, ready
  <2> QED
    BY <1>4, <2>1 DEF Conditions
<1> QED
  BY <1>4, <1>5

Follows(u, v) ==
    /\ u.terminating => v.terminating
    /\ u.providerID # 0 => v.providerID # 0

LEMMA WrittenContactIsUnedited ==
    ASSUME NeverEdited, IInv, UneditedContact, NEW v, ContactWrites(v), Exists(v)
    PROVE  OfFirstGeneration(v) /\ Follows(Current, v) /\ Exists(Current)
<1>0. Exists(Current)
  BY WrittenContactFollows DEF ContactFollows
<1>1. Current \in Version /\ OfFirstGeneration(Current)
  BY <1>0, ContactView DEF UneditedContact, FirstVersions
<1>2. ~(Current.generation < MaxGeneration)
  BY <1>0, <1>1, ContactBoundsAreNats DEF NeverEdited, Exists, Version
<1>3. CASE v = [Current EXCEPT !.generation = @ + 1, !.terminating = TRUE]
  BY <1>0, <1>1, <1>3 DEF Version, OfFirstGeneration, Follows
<1>4. CASE v = Absent
  BY <1>4, AbsentAreTyped
<1>5. CASE worker.step \in {"adopt", "release"} /\ v = Finalized
  <2>1. worker.step = "release"
    BY <1>5 DEF UneditedContact, ContactInHand, Idle
  <2> QED
    BY <1>5, <2>1, AbsentAreTyped DEF Finalized
<1>6. CASE worker.step = "patch" /\ v = Patched(Current)
  <2>1. /\ worker.id = 1 /\ contacts # << >> /\ OfFirstGeneration(Reading)
        /\ Reading.providerID # 0 => Current.providerID # 0
    <3>1. worker # Idle
      BY <1>6 DEF Idle
    <3> QED
      BY <1>0, <1>6, <3>1, ContactView DEF UneditedContact, ContactInHand, FirstVersions
  <2>2. /\ NewConditions.resendReady # "none" /\ NewConditions.updatedAt = 1
        /\ Reading.providerID = 0 => NewConditions # Reading.conditions
    BY <1>6, NewConditionsRecorded
  <2> DEFINE c == IF NewConditions = Reading.conditions THEN Current.conditions
                  ELSE NewConditions
             id == IF worker.id = Reading.providerID THEN Current.providerID ELSE worker.id
  <2>3. v = [Current EXCEPT !.conditions = c, !.providerID = id]
    BY <1>6 DEF Patched
  <2>4. id = 1 /\ c.resendReady # "none" /\ c.updatedAt = 1
    BY <1>1, <2>1, <2>2 DEF OfFirstGeneration
  <2> HIDE DEF c, id
  <2>5. /\ v.email = Current.email /\ v.terminating = Current.terminating
        /\ v.generation = Current.generation /\ v.conditions = c /\ v.providerID = id
    BY <1>1, <2>3 DEF Version
  <2> QED
    BY <1>0, <1>1, <2>1, <2>4, <2>5 DEF OfFirstGeneration, Follows
<1> QED
  BY <1>2, <1>3, <1>4, <1>5, <1>6 DEF ContactWrites

LEMMA ContactLogGrows ==
    ASSUME IInv, [Next]_vars
    PROVE  \/ UNCHANGED log
           \/ \E v : ContactWrites(v) /\ Grows(log, log', v)
<1>1. ASSUME NEW v, ContactWrites(v), log' = Publish(log, v)
      PROVE  Grows(log, log', v)
  <2>1. v \in Version /\ log \in Seq(Version)
    BY <1>1, WrittenContactFollows DEF ContactFollows, IInv, TypeOK
  <2> QED
    BY <1>1, <2>1, AbsentAreTyped, PublishFacts
<1> QED
  BY <1>1, EveryContactWrite

LEMMA FirstVersionsStep ==
    ASSUME NeverEdited, IInv, UneditedContact, [Next]_vars
    PROVE  FirstVersions'
<1>1. /\ contacts # << >> => contacts' # << >>
      /\ log'[1] = log[1]
  BY ContactsMove, ContactKept, ContactView
<1>2. /\ \A i \in DOMAIN log : Exists(log[i]) => OfFirstGeneration(log[i])
      /\ \A i, j \in DOMAIN log : i <= j /\ Exists(log[j]) => Follows(log[i], log[j])
  BY DEF UneditedContact, FirstVersions, Follows
<1>3. CASE UNCHANGED log
  BY <1>1, <1>2, <1>3 DEF FirstVersions, OfFirstGeneration, Follows, Exists
<1>4. ASSUME NEW v, ContactWrites(v), Grows(log, log', v)
      PROVE  FirstVersions'
  <2>1. Exists(v) => OfFirstGeneration(v) /\ Follows(Current, v) /\ Exists(Current)
    BY <1>4, WrittenContactIsUnedited
  <2>2. /\ \A i \in DOMAIN log : i \in DOMAIN log' /\ log'[i] = log[i]
        /\ \A i \in DOMAIN log' : i \in DOMAIN log \/ (i = Len(log') /\ log'[i] = v)
        /\ Len(log) \in DOMAIN log /\ Current = log[Len(log)] /\ DOMAIN log = 1..Len(log)
        /\ Len(log) \in Nat
    BY <1>4, ContactView DEF Grows
  <2>3. ASSUME NEW i \in DOMAIN log', Exists(log'[i])
        PROVE  OfFirstGeneration(log'[i])
    BY <1>2, <2>1, <2>2, <2>3
  <2>4. ASSUME NEW i \in DOMAIN log', NEW j \in DOMAIN log', i <= j, Exists(log'[j])
        PROVE  Follows(log'[i], log'[j])
    <3>1. CASE j \in DOMAIN log
      <4>1. i \in DOMAIN log
        <5>1. log' \in Seq(Version)
          BY ContactKept
        <5> QED
          BY <2>2, <2>4, <3>1, <5>1
      <4> QED
        BY <1>2, <2>2, <2>4, <3>1, <4>1
    <3>2. CASE j \notin DOMAIN log /\ i \in DOMAIN log
      <4>1. Exists(v) /\ log'[j] = v /\ log'[i] = log[i] /\ i <= Len(log)
        BY <2>2, <2>4, <3>2
      <4>2. Follows(log[i], Current)
        BY <1>2, <2>1, <2>2, <3>2, <4>1
      <4> QED
        BY <2>1, <4>1, <4>2 DEF Follows
    <3>3. CASE j \notin DOMAIN log /\ i \notin DOMAIN log
      BY <2>2, <3>3 DEF Follows
    <3> QED
      BY <3>1, <3>2, <3>3
  <2>5. ASSUME NEW i \in DOMAIN log', OfFirstGeneration(log'[i])
        PROVE  /\ log'[i].email = log'[1].email
               /\ ~log'[i].terminating => log'[i].generation = 1
               /\ \/ log'[i].providerID = 0 /\ log'[i].conditions.resendReady = "none"
                  \/ /\ log'[i].providerID = 1 /\ contacts' # << >>
                     /\ log'[i].conditions.resendReady # "none"
                     /\ log'[i].conditions.updatedAt = 1
    BY <1>1, <2>5 DEF OfFirstGeneration
  <2> QED
    BY <2>3, <2>4, <2>5 DEF FirstVersions, OfFirstGeneration, Follows, Exists
<1> QED
  BY <1>3, <1>4, ContactLogGrows

(* The worker goes on with the version it read, or takes the cached one.   *)
GoesOn ==
    /\ worker # Idle /\ worker'.read = worker.read
    /\ \/ worker' = worker
       \/ /\ worker.step = "create" /\ StoreContact(Reading.email)
          /\ worker'.step = "patch" /\ worker'.id = ContactId(Reading.email)
       \/ /\ worker.step \in {"remove", "evict", "check"}
          /\ worker'.step \in {"evict", "check", "release"}

LEMMA WorkerMoves ==
    ASSUME NeverEdited, IInv, UneditedContact, [Next]_vars, worker' # Idle
    PROVE  /\ worker'.read <= ctrlAt'
           /\ Reading' = log[worker'.read] /\ worker'.read \in DOMAIN log
           /\ \/ GoesOn /\ Reading' = Reading
              \/ /\ Exists(Cached) /\ Reading' = Cached
                 /\ worker'.step = FirstStep(Cached) /\ worker'.id = Cached.providerID
<1>1. /\ worker'.read \in DOMAIN log
      /\ log' \in Seq(Version) /\ \A i \in DOMAIN log : i \in DOMAIN log' /\ log'[i] = log[i]
  BY ContactWorkerKept, ContactKept
<1>2. Reading' = log[worker'.read]
  <2>1. worker'.read # 0 /\ log'[worker'.read] = log[worker'.read]
    BY <1>1, ContactView
  <2> QED
    BY <2>1 DEF Reading, At, VersionAt
<1>3. ctrlAt <= ctrlAt' /\ ctrlAt \in Nat /\ ctrlAt' \in Nat
  BY CacheAdvances, ContactView
<1>4. CASE /\ Exists(Cached)
           /\ worker' = [step |-> FirstStep(Cached), read |-> ctrlAt, id |-> Cached.providerID]
  <2>1. worker'.read = ctrlAt /\ worker'.step = FirstStep(Cached) /\ worker'.id = Cached.providerID
    BY <1>4
  <2> QED
    BY <1>1, <1>2, <1>3, <1>4, <2>1, ContactView
<1>5. CASE GoesOn
  <2>1. worker.read \in DOMAIN log /\ worker.read <= ctrlAt /\ Reading = log[worker.read]
    BY <1>5, ContactView DEF GoesOn, UneditedContact, ContactInHand
  <2> QED
    BY <1>1, <1>2, <1>3, <1>5, <2>1, ContactView DEF GoesOn
<1>6. CASE UNCHANGED worker
  BY <1>5, <1>6 DEF GoesOn
<1>7. ASSUME NEW to \in Steps, NEW id \in {worker.id, ContactId(Reading.email)},
             worker' = [worker EXCEPT !.step = to, !.id = id],
             worker.step = "create" =>
               to = "patch" /\ id = ContactId(Reading.email) /\ StoreContact(Reading.email),
             worker.step \in {"remove", "evict", "check"} => to \in {"evict", "check", "release"},
             worker.step \in Steps \ {"adopt", "patch", "release"}
      PROVE  GoesOn
  <2>1. worker # Idle
    BY <1>7 DEF Idle, Steps
  <2>2. worker \in [step : Steps, read : Nat, id : Nat]
    BY <2>1 DEF IInv, TypeOK, WorkerStates
  <2>3. worker'.step = to /\ worker'.read = worker.read /\ worker'.id = id
    BY <1>7, <2>2
  <2>4. worker.step \in {"create", "remove", "evict", "check"}
    BY <1>7, <2>1 DEF UneditedContact, ContactInHand
  <2> QED
    BY <1>7, <2>1, <2>3, <2>4 DEF GoesOn
<1> QED
  BY <1>4, <1>5, <1>6, <1>7, EveryContactMove DEF IInv, ContactMoves

LEMMA OneContactStep ==
    ASSUME NeverEdited, IInv, UneditedContact, [Next]_vars
    PROVE  OneContact'
<1>1. /\ Len(contacts') <= 1
      /\ contacts' # << >> => contacts'[1].email = log'[1].email
  BY ContactsMove, ContactKept, ContactView
<1>2. ASSUME contacts' # << >>, ~contacts'[1].live
      PROVE  /\ Exists(Cached') => Cached'.terminating
             /\ worker' # Idle => Reading'.terminating
  <2>1. /\ Exists(Cached) => Cached.terminating
        /\ worker # Idle => Reading.terminating
    <3>1. CASE contacts # << >> /\ ~contacts[1].live
      BY <3>1 DEF UneditedContact, OneContact
    <3>2. CASE worker.step = "remove"
      BY <3>2, ContactView DEF UneditedContact, ContactInHand, Idle
    <3> QED
      BY <1>2, <3>1, <3>2, ContactsMove
  <2> QED
    BY <2>1, CacheAdvances, WorkerMoves DEF GoesOn
<1> QED
  BY <1>1, <1>2 DEF OneContact, Exists

LEMMA ContactInHandStep ==
    ASSUME NeverEdited, IInv, UneditedContact, [Next]_vars
    PROVE  ContactInHand'
<1>1. ctrlAt' > 0
  BY CacheAdvances, ContactView
<1>2. ASSUME worker' # Idle
      PROVE  \/ worker'.step = "create" /\ ~Reading'.terminating /\ Reading'.providerID = 0
             \/ worker'.step = "patch" /\ ~Reading'.terminating
                  /\ worker'.id = 1 /\ contacts' # << >>
             \/ worker'.step \in {"remove", "evict", "check", "release"}
                  /\ Reading'.terminating
  <2>1. CASE GoesOn /\ Reading' = Reading
    BY <2>1, ContactsMove DEF GoesOn, UneditedContact, ContactInHand
  <2>2. CASE /\ Exists(Cached) /\ Reading' = Cached
             /\ worker'.step = FirstStep(Cached) /\ worker'.id = Cached.providerID
    <3>1. OfFirstGeneration(Cached) /\ Cached.finalizer
      BY <2>2, ContactView DEF IInv, History, Exists, Absent
    <3>2. contacts # << >> => contacts' # << >>
      BY ContactsMove
    <3>3. CASE Cached.terminating
      BY <2>2, <3>3 DEF FirstStep
    <3>4. CASE ~Cached.terminating /\ Cached.providerID = 0
      BY <2>2, <3>1, <3>4 DEF FirstStep, OfFirstGeneration
    <3>5. CASE ~Cached.terminating /\ Cached.providerID = 1
      BY <2>2, <3>1, <3>2, <3>5 DEF FirstStep, OfFirstGeneration
    <3> QED
      BY <3>1, <3>3, <3>4, <3>5 DEF OfFirstGeneration
  <2> QED
    BY <1>2, <2>1, <2>2, WorkerMoves
<1> QED
  BY <1>1, <1>2, WorkerMoves DEF ContactInHand

LEMMA UneditedContactStep ==
    ASSUME NeverEdited, IInv, UneditedContact, [Next]_vars
    PROVE  UneditedContact'
  BY FirstVersionsStep, OneContactStep, ContactInHandStep DEF UneditedContact

(***************************************************************************)
(* The membership: what its readers see.                                   *)
(***************************************************************************)
LEMMA CgmView ==
    ASSUME IInv, CgmFollow
    PROVE  /\ cgmLog \in Seq(Membership) /\ Len(cgmLog) \in Nat
           /\ DOMAIN cgmLog = 1..Len(cgmLog) /\ cgmAt \in Nat /\ cgmAt <= Len(cgmLog)
           /\ cgmAt > 0 => cgmAt \in DOMAIN cgmLog /\ CachedCgm = cgmLog[cgmAt]
           /\ CachedCgm.exists => cgmAt > 0
           /\ CurrentCgm.exists => Len(cgmLog) \in DOMAIN cgmLog /\ CurrentCgm = cgmLog[Len(cgmLog)]
           /\ \A i \in DOMAIN cgmLog :
                /\ ~cgmLog[i].exists => cgmLog[i] = NoMembership /\ i = Len(cgmLog)
                /\ CurrentCgm.exists =>
                     /\ cgmLog[i].terminating => CurrentCgm.terminating
                     /\ cgmLog[i].finalizer => CurrentCgm.finalizer
           /\ cgmWorker # Idle =>
                /\ cgmWorker.read \in DOMAIN cgmLog /\ CgmReading = cgmLog[cgmWorker.read]
                /\ CgmReading.exists
                /\ Fresh(cgmLog, cgmWorker.read) => CgmReading = CurrentCgm
<1>1. cgmLog \in Seq(Membership) /\ cgmAt \in Nat /\ cgmAt <= Len(cgmLog)
  BY DEF IInv, TypeOK, PositionsOK
<1>2. /\ cgmAt > 0 => CachedCgm = cgmLog[cgmAt]
      /\ cgmAt = 0 => CachedCgm = NoMembership
  BY <1>1 DEF CachedCgm, CgmAt, VersionAt
<1>3. cgmLog # << >> => Len(cgmLog) \in DOMAIN cgmLog /\ CurrentCgm = cgmLog[Len(cgmLog)]
  BY CgmFacts
<1>4. cgmLog = << >> => ~CurrentCgm.exists
  BY CgmFacts, AbsentAreTyped
<1>5. cgmWorker # Idle =>
        /\ cgmWorker.read \in DOMAIN cgmLog /\ CgmReading = cgmLog[cgmWorker.read]
        /\ CgmReading.exists
        /\ Fresh(cgmLog, cgmWorker.read) => CgmReading = CurrentCgm
  <2>1. cgmWorker # Idle => cgmWorker.read \in DOMAIN cgmLog
    BY DEF IInv, PositionsOK
  <2>2. cgmWorker # Idle => cgmWorker.read # 0
    BY <1>1, <2>1
  <2> QED
    BY <2>1, <2>2, CgmFacts DEF CgmReading, CgmAt, VersionAt
<1>6. \A i \in DOMAIN cgmLog : ~cgmLog[i].exists => cgmLog[i] = NoMembership /\ i = Len(cgmLog)
  BY DEF IInv, History
<1>7. Len(cgmLog) \in Nat /\ DOMAIN cgmLog = 1..Len(cgmLog)
  BY <1>1
<1>8. ASSUME CurrentCgm.exists, NEW i \in DOMAIN cgmLog
      PROVE  /\ cgmLog[i].terminating => CurrentCgm.terminating
             /\ cgmLog[i].finalizer => CurrentCgm.finalizer
  <2>1. Len(cgmLog) \in DOMAIN cgmLog /\ CurrentCgm = cgmLog[Len(cgmLog)] /\ i <= Len(cgmLog)
    BY <1>3, <1>4, <1>7, <1>8
  <2> QED
    BY <1>8, <2>1 DEF CgmFollow
<1> QED
  BY <1>1, <1>2, <1>3, <1>4, <1>5, <1>6, <1>7, <1>8, AbsentAreTyped

(* The cache of memberships goes forward too.                              *)
LEMMA CgmCacheAdvances ==
    ASSUME NeverEdited, IInv, CgmFollow, [Next]_vars
    PROVE  /\ cgmAt <= cgmAt' /\ cgmAt' \in Nat
           /\ cgmAt > 0 /\ CachedCgm'.exists =>
                CachedCgm.exists /\ (CachedCgm.terminating => CachedCgm'.terminating)
<1>1. cgmAt <= cgmAt' /\ cgmAt' \in Nat /\ cgmAt' <= Len(cgmLog)
  <2>1. cgmAt' \in Nat /\ cgmAt' <= Len(cgmLog)
    BY CgmWorkerKept
  <2> QED
    BY <2>1, CgmView, EveryCgmMove DEF IInv, CgmMoves, NeverEdited
<1>2. ASSUME cgmAt > 0, CachedCgm'.exists
      PROVE  CachedCgm.exists /\ (CachedCgm.terminating => CachedCgm'.terminating)
  <2>1. cgmAt' \in DOMAIN cgmLog /\ cgmAt \in DOMAIN cgmLog /\ CachedCgm = cgmLog[cgmAt]
    BY <1>1, <1>2, CgmView
  <2>2. CachedCgm' = cgmLog[cgmAt']
    <3>1. cgmLog'[cgmAt'] = cgmLog[cgmAt'] /\ cgmAt' # 0
      BY <1>1, <1>2, <2>1, CgmKept, CgmView
    <3> QED
      BY <3>1 DEF CachedCgm, CgmAt, VersionAt
  <2>3. cgmLog[cgmAt'].exists => cgmLog[cgmAt].exists
    BY <1>1, <2>1, CgmView
  <2> QED
    BY <1>1, <1>2, <2>1, <2>2, <2>3 DEF CgmFollow
<1> QED
  BY <1>1, <1>2

LEMMA CgmLogGrows ==
    ASSUME IInv, [Next]_vars
    PROVE  \/ cgmLog' = cgmLog /\ CurrentCgm' = CurrentCgm
           \/ \E v : /\ CgmWrites(v) /\ Grows(cgmLog, cgmLog', v)
                     /\ CurrentCgm' = v /\ UNCHANGED members
<1>1. CASE UNCHANGED cgmLog
  BY <1>1 DEF CurrentCgm, CurrentOf, VersionAt
<1>2. ASSUME NEW v, CgmWrites(v), cgmLog' = Publish(cgmLog, v), cgmLog' # cgmLog
      PROVE  /\ Grows(cgmLog, cgmLog', v)
             /\ CurrentCgm' = v /\ UNCHANGED members
  <2>1. v \in Membership /\ cgmLog \in Seq(Membership)
    BY <1>2, WrittenCgmFollows DEF CgmFollows, IInv, TypeOK
  <2>2. /\ CurrentOf(Publish(cgmLog, v), NoMembership) = v
        /\ Grows(cgmLog, cgmLog', v)
    BY <1>2, <2>1, AbsentAreTyped, PublishFacts
  <2> QED
    BY <1>2, <2>2, EveryMember DEF CurrentCgm
<1> QED
  BY <1>1, <1>2, EveryCgmWrite DEF IInv

(***************************************************************************)
(* What is written of the membership: it is recorded as created by the     *)
(* worker that has added the contact, and goes at once without a finalizer *)
(* or in the end by the worker that has taken the contact out.             *)
(***************************************************************************)
LEMMA WrittenCgmKeeps ==
    ASSUME IInv, BackedUnedited, NEW v, CgmWrites(v)
    PROVE  /\ CurrentCgm.exists \/ cgmLog = << >>
           /\ v.exists /\ CurrentCgm.exists =>
                /\ CurrentCgm.terminating => v.terminating
                /\ CurrentCgm.finalizer => v.finalizer
           /\ v.created => (CurrentCgm.exists /\ CurrentCgm.created) \/ cgmWorker.step = "status"
           /\ ~v.exists =>
                /\ CurrentCgm.exists /\ ~v.finalizer
                /\ ~CurrentCgm.finalizer \/ cgmWorker.step = "release"
<1>0. NoMembership.created = FALSE /\ NoMembership.finalizer = FALSE
  BY DEF NoMembership
<1>1. CASE cgmLog = << >> /\ v = [NoMembership EXCEPT !.exists = TRUE]
  <2>1. v.exists /\ ~v.created /\ ~CurrentCgm.exists
    BY <1>0, <1>1, CgmFacts, AbsentAreTyped DEF Membership
  <2> QED
    BY <1>1, <2>1
<1>2. CASE /\ CurrentCgm.exists
           /\ v = IF CurrentCgm.finalizer THEN [CurrentCgm EXCEPT !.terminating = TRUE]
                  ELSE NoMembership
  BY <1>0, <1>2, CgmFacts, AbsentAreTyped DEF Membership
<1>3. CASE CurrentCgm.exists /\ v = [CurrentCgm EXCEPT !.loopsReady = TRUE]
  BY <1>3, CgmFacts DEF Membership
<1>4. CASE /\ CachedCgm.exists /\ Fresh(cgmLog, cgmAt)
           /\ v = [CachedCgm EXCEPT !.updated = "UpdateRequested"]
  BY <1>4, CgmFacts DEF Membership, Fresh
<1>5. CASE /\ CgmWriting /\ Fresh(cgmLog, cgmWorker.read)
           /\ v = CgmToWrite(CgmReading)
  <2>1. cgmWorker # Idle
    BY <1>5 DEF CgmWriting, Idle
  <2>2. CgmReading = CurrentCgm /\ CurrentCgm.exists /\ CurrentCgm \in Membership
    BY <1>5, <2>1, CgmFacts
  <2>3. CASE cgmWorker.step = "adopt"
    <3>1. v = [CurrentCgm EXCEPT !.finalizer = TRUE]
      BY <1>5, <2>2, <2>3 DEF CgmToWrite
    <3> QED
      BY <2>2, <3>1 DEF Membership
  <2>4. CASE cgmWorker.step = "release"
    BY <1>0, <1>5, <2>2, <2>4, AbsentAreTyped DEF CgmToWrite
  <2>5. CASE cgmWorker.step = "status"
    <3>1. v = MembershipStatus(CurrentCgm)
      BY <1>5, <2>2, <2>5 DEF CgmToWrite
    <3>2. /\ v.exists = CurrentCgm.exists /\ v.terminating = CurrentCgm.terminating
          /\ v.finalizer = CurrentCgm.finalizer
      BY <2>2, <3>1 DEF MembershipStatus, VerifyMembershipReady, Membership
    <3> QED
      BY <2>2, <2>5, <3>2
  <2> QED
    BY <1>5, <2>3, <2>4, <2>5 DEF CgmWriting
<1> QED
  BY <1>1, <1>2, <1>3, <1>4, <1>5 DEF CgmWrites

CgmKeeps(u, v) ==
    /\ u.terminating => v.terminating
    /\ u.finalizer => v.finalizer

LEMMA CgmFollowStep ==
    ASSUME IInv, BackedUnedited, [Next]_vars
    PROVE  CgmFollow'
<1>1. CgmFollow /\ \A i, j \in DOMAIN cgmLog :
        i <= j /\ cgmLog[j].exists => CgmKeeps(cgmLog[i], cgmLog[j])
  BY DEF BackedUnedited, CgmFollow, CgmKeeps
<1>2. CASE cgmLog' = cgmLog
  BY <1>1, <1>2 DEF CgmFollow
<1>3. ASSUME NEW v, CgmWrites(v), Grows(cgmLog, cgmLog', v)
      PROVE  CgmFollow'
  <2>1. /\ CurrentCgm.exists \/ cgmLog = << >>
        /\ v.exists /\ CurrentCgm.exists => CgmKeeps(CurrentCgm, v)
    BY <1>3, WrittenCgmKeeps DEF CgmKeeps
  <2>2. /\ \A i \in DOMAIN cgmLog : i \in DOMAIN cgmLog' /\ cgmLog'[i] = cgmLog[i]
        /\ \A i \in DOMAIN cgmLog' : i \in DOMAIN cgmLog \/ (i = Len(cgmLog') /\ cgmLog'[i] = v)
        /\ DOMAIN cgmLog = 1..Len(cgmLog) /\ Len(cgmLog) \in Nat
        /\ DOMAIN cgmLog' = 1..Len(cgmLog')
        /\ cgmLog = << >> => DOMAIN cgmLog = {}
    <3>1. cgmLog' \in Seq(Membership)
      BY CgmKept
    <3> QED
      BY <1>1, <1>3, <3>1, CgmView DEF Grows
  <2>3. ASSUME NEW i \in DOMAIN cgmLog', NEW j \in DOMAIN cgmLog', i <= j, cgmLog'[j].exists
        PROVE  CgmKeeps(cgmLog'[i], cgmLog'[j])
    <3>1. CASE j \in DOMAIN cgmLog
      <4>1. i \in DOMAIN cgmLog
        BY <2>2, <2>3, <3>1
      <4> QED
        BY <1>1, <2>2, <2>3, <3>1, <4>1
    <3>2. CASE j \notin DOMAIN cgmLog /\ i \in DOMAIN cgmLog
      <4>1. cgmLog'[j] = v /\ v.exists /\ cgmLog'[i] = cgmLog[i] /\ CurrentCgm.exists
        BY <2>1, <2>2, <2>3, <3>2
      <4>2. CgmKeeps(cgmLog[i], CurrentCgm)
        BY <1>1, <3>2, <4>1, CgmView DEF CgmKeeps
      <4> QED
        BY <2>1, <4>1, <4>2 DEF CgmKeeps
    <3>3. CASE j \notin DOMAIN cgmLog /\ i \notin DOMAIN cgmLog
      BY <2>2, <3>3 DEF CgmKeeps
    <3> QED
      BY <3>1, <3>2, <3>3
  <2> QED
    BY <2>3 DEF CgmFollow, CgmKeeps
<1> QED
  BY <1>2, <1>3, CgmLogGrows

(***************************************************************************)
(* The membership's worker.                                                *)
(***************************************************************************)
StartsCgm ==
    /\ cgmWorker = Idle /\ UNCHANGED <<ctrlAt, log, cgmAt, cgmLog, members>>
    /\ CachedCgm.exists /\ (CgmFirstStep(CachedCgm) # "adopt" => References)
    /\ CgmReading' = CachedCgm
    /\ cgmWorker'.step = CgmFirstStep(CachedCgm) /\ cgmWorker'.contact = Cached.providerID

CallsForCgm ==
    /\ cgmWorker # Idle /\ CgmReading' = CgmReading
    /\ cgmWorker'.contact = cgmWorker.contact
    /\ \/ /\ cgmWorker.step = "add" /\ cgmWorker'.step = "status"
          /\ members' = members \cup {cgmWorker.contact}
       \/ /\ cgmWorker.step = "take" /\ cgmWorker'.step = "release"
          /\ members' = members \ {cgmWorker.contact}

LEMMA CgmWorkerMoves ==
    ASSUME NeverEdited, IInv, BackedUnedited, [Next]_vars, cgmWorker' # Idle
    PROVE  /\ cgmWorker'.read <= cgmAt'
           /\ \/ UNCHANGED cgmWorker /\ CgmReading' = CgmReading
              \/ StartsCgm
              \/ CallsForCgm
<1>0. CgmFollow
  BY DEF BackedUnedited
<1>1. cgmWorker'.read \in DOMAIN cgmLog
  BY CgmWorkerKept
<1>2. CgmReading' = cgmLog[cgmWorker'.read]
  <2>1. cgmWorker'.read # 0 /\ cgmLog'[cgmWorker'.read] = cgmLog[cgmWorker'.read]
    BY <1>0, <1>1, CgmKept, CgmView
  <2> QED
    BY <2>1 DEF CgmReading, CgmAt, VersionAt
<1>3. cgmAt <= cgmAt' /\ cgmAt \in Nat /\ cgmAt' \in Nat
  BY <1>0, CgmCacheAdvances, CgmView
<1>4. cgmWorker # Idle =>
        cgmWorker.read <= cgmAt /\ cgmWorker.read \in Nat /\ CgmReading = cgmLog[cgmWorker.read]
  BY <1>0, CgmView DEF BackedUnedited, CgmInHand
<1>5. CASE UNCHANGED cgmWorker
  BY <1>1, <1>2, <1>3, <1>4, <1>5
<1>6. CASE /\ cgmWorker = Idle
           /\ CachedCgm.exists /\ (CgmFirstStep(CachedCgm) # "adopt" => References)
           /\ cgmWorker' = [step |-> CgmFirstStep(CachedCgm), read |-> cgmAt,
                            contact |-> Cached.providerID]
           /\ UNCHANGED <<cgmAt, cgmLog, ctrlAt, log>>
  <2>1. /\ cgmWorker'.read = cgmAt /\ cgmWorker'.step = CgmFirstStep(CachedCgm)
        /\ cgmWorker'.contact = Cached.providerID
    BY <1>6
  <2>2. UNCHANGED members
    BY <1>6, EveryMember DEF Idle
  <2>3. CgmReading' = CachedCgm
    BY <1>0, <1>2, <1>6, <2>1, CgmView
  <2> QED
    BY <1>3, <1>6, <2>1, <2>2, <2>3 DEF StartsCgm
<1>7. CASE \/ /\ cgmWorker.step = "add" /\ cgmWorker' = [cgmWorker EXCEPT !.step = "status"]
              /\ members' = members \cup {cgmWorker.contact}
           \/ /\ cgmWorker.step = "take" /\ cgmWorker' = [cgmWorker EXCEPT !.step = "release"]
              /\ members' = members \ {cgmWorker.contact}
  <2>1. cgmWorker # Idle
    BY <1>7 DEF Idle
  <2>2. cgmWorker \in [step : {"adopt", "add", "status", "take", "release"},
                       read : Nat, contact : Nat]
    BY <2>1 DEF IInv, TypeOK, CgmWorkerStates
  <2>3. /\ cgmWorker'.read = cgmWorker.read /\ cgmWorker'.contact = cgmWorker.contact
        /\ cgmWorker.step = "add" => cgmWorker'.step = "status"
        /\ cgmWorker.step = "take" => cgmWorker'.step = "release"
    BY <1>7, <2>2
  <2>4. CgmReading' = CgmReading
    BY <1>2, <1>4, <2>1, <2>3
  <2> QED
    BY <1>3, <1>4, <1>7, <2>1, <2>3, <2>4 DEF CallsForCgm
<1> QED
  BY <1>5, <1>6, <1>7, EveryCgmMove DEF IInv, CgmMoves

LEMMA NobodyAddsStep ==
    ASSUME NeverEdited, IInv, BackedUnedited, [Next]_vars, NobodyAdds
    PROVE  NobodyAdds'
<1>1. cgmAt' > 0 /\ (CachedCgm'.exists => CachedCgm'.terminating)
  BY CgmCacheAdvances, CgmView DEF NobodyAdds, BackedUnedited
<1>2. cgmWorker'.step \notin {"adopt", "add", "status"}
  <2>1. CASE cgmWorker' = Idle
    BY <2>1 DEF Idle
  <2>2. CASE StartsCgm
    BY <2>2 DEF StartsCgm, CgmFirstStep, NobodyAdds
  <2>3. CASE CallsForCgm
    BY <2>3 DEF CallsForCgm, NobodyAdds
  <2>4. CASE UNCHANGED cgmWorker
    BY <2>4 DEF NobodyAdds
  <2> QED
    BY <2>1, <2>2, <2>3, <2>4, CgmWorkerMoves
<1> QED
  BY <1>1, <1>2 DEF NobodyAdds

(* A worker that takes the contact out, or has, is the last.               *)
LEMMA LeavingIsSeen ==
    ASSUME IInv, BackedUnedited, cgmWorker.step \in {"take", "release"}
    PROVE  NobodyAdds
<1>1. cgmWorker # Idle
  BY DEF Idle
<1>2. /\ cgmWorker.read <= cgmAt /\ CgmReading.terminating
      /\ cgmWorker.read \in DOMAIN cgmLog /\ CgmReading = cgmLog[cgmWorker.read]
  BY <1>1, CgmView DEF BackedUnedited, CgmInHand
<1>3. cgmAt > 0
  BY <1>2, CgmView DEF BackedUnedited
<1>4. CachedCgm.exists => CachedCgm.terminating
  <2>1. cgmAt \in DOMAIN cgmLog /\ CachedCgm = cgmLog[cgmAt]
    BY <1>3, CgmView DEF BackedUnedited
  <2> QED
    BY <1>2, <2>1 DEF BackedUnedited, CgmFollow
<1> QED
  BY <1>3, <1>4 DEF NobodyAdds

(* Whoever has a finalizer to go by still finds it on the object.          *)
LEMMA FinalizerIsThere ==
    ASSUME IInv, BackedUnedited, cgmWorker.step = "add"
    PROVE  CurrentCgm.finalizer
<1>1. cgmWorker # Idle
  BY DEF Idle
<1>2. /\ CgmReading.finalizer /\ cgmWorker.read \in DOMAIN cgmLog
      /\ CgmReading = cgmLog[cgmWorker.read]
  BY <1>1, CgmView DEF BackedUnedited, CgmInHand
<1>3. CurrentCgm.exists
  <2>1. cgmLog # << >>
    BY <1>2, CgmView DEF BackedUnedited
  <2> QED
    BY <1>2, <2>1 DEF BackedUnedited, TakenInTheEnd, NobodyAdds
<1> QED
  BY <1>2, <1>3, CgmView DEF BackedUnedited

LEMMA MembersMove ==
    ASSUME IInv, BackedUnedited, [Next]_vars
    PROVE  \/ UNCHANGED members
           \/ /\ cgmWorker.step = "add" /\ cgmWorker.contact = 1 /\ members' # {}
              /\ UNCHANGED <<cgmAt, cgmLog, ctrlAt, log>>
           \/ /\ cgmWorker.step = "take" /\ members' = {}
              /\ UNCHANGED <<cgmAt, cgmLog, ctrlAt, log>>
<1>1. members \subseteq {1} /\ members' \subseteq DOMAIN contacts'
  BY MembersAreOne, ContactsStep DEF BackedUnedited
<1>2. CASE /\ cgmWorker.step = "add" /\ CanAdd(cgmWorker.contact)
           /\ members' = members \cup {cgmWorker.contact}
           /\ UNCHANGED <<cgmAt, cgmLog, ctrlAt, log, contacts>>
  <2>1. /\ contacts \in Seq(Contact) /\ cgmWorker.contact \in DOMAIN contacts
        /\ Len(contacts) <= 1
    BY <1>2 DEF CanAdd, IInv, TypeOK, Contact, BackedUnedited, UneditedContact, OneContact
  <2>2. DOMAIN contacts = 1..Len(contacts) /\ Len(contacts) \in Nat
    BY <2>1
  <2>3. cgmWorker.contact = 1
    BY <2>1, <2>2
  <2> QED
    BY <1>2, <2>3
<1>3. CASE /\ cgmWorker.step = "take" /\ members' = members \ {cgmWorker.contact}
           /\ UNCHANGED <<cgmAt, cgmLog, ctrlAt, log, contacts>>
  <2>1. cgmWorker # Idle
    BY <1>3 DEF Idle
  <2>2. members = {} \/ cgmWorker.contact = 1
    BY <1>3, <2>1 DEF BackedUnedited, CgmInHand
  <2> QED
    BY <1>1, <1>3, <2>2
<1> QED
  BY <1>2, <1>3, EveryMember

LEMMA CgmInHandStep ==
    ASSUME NeverEdited, IInv, BackedUnedited, [Next]_vars
    PROVE  CgmInHand'
<1> SUFFICES ASSUME cgmWorker' # Idle
             PROVE  /\ cgmWorker'.read <= cgmAt'
                    /\ cgmWorker'.contact # 0 /\ Exists(Cached') => Cached'.providerID # 0
                    /\ cgmWorker'.step \in {"add", "status"} => CgmReading'.finalizer
                    /\ cgmWorker'.step = "status" => members' # {}
                    /\ cgmWorker'.step \in {"take", "release"} => CgmReading'.terminating
                    /\ cgmWorker'.step = "take" /\ members' # {} => cgmWorker'.contact = 1
                    /\ cgmWorker'.step = "release" => members' = {}
  BY DEF CgmInHand, Exists
<1>1. cgmWorker'.read <= cgmAt'
  BY CgmWorkerMoves
<1>2. Exists(Cached') => Exists(Cached) /\ (Cached.providerID # 0 => Cached'.providerID # 0)
  BY CacheAdvances DEF BackedUnedited
<1>3. CASE UNCHANGED cgmWorker /\ CgmReading' = CgmReading
  <2>1. /\ cgmWorker # Idle
        /\ cgmWorker.contact # 0 /\ Exists(Cached) => Cached.providerID # 0
        /\ cgmWorker.step \in {"add", "status"} => CgmReading.finalizer
        /\ cgmWorker.step = "status" => members # {}
        /\ cgmWorker.step \in {"take", "release"} => CgmReading.terminating
        /\ cgmWorker.step = "take" /\ members # {} => cgmWorker.contact = 1
        /\ cgmWorker.step = "release" => members = {}
    BY <1>3 DEF BackedUnedited, CgmInHand
  <2> QED
    BY <1>1, <1>2, <1>3, <2>1, MembersMove
<1>4. CASE StartsCgm
  <2>1. Cached' = Cached
    BY <1>4 DEF StartsCgm, Cached, At, VersionAt
  <2>2. /\ cgmWorker'.step = CgmFirstStep(CachedCgm) /\ cgmWorker'.contact = Cached.providerID
        /\ CgmReading' = CachedCgm /\ UNCHANGED members /\ CachedCgm.exists
        /\ CgmFirstStep(CachedCgm) # "adopt" => Exists(Cached)
    BY <1>4 DEF StartsCgm, References
  <2>3. /\ CgmFirstStep(CachedCgm) \in {"adopt", "add", "status", "take"}
        /\ CgmFirstStep(CachedCgm) \in {"add", "status"} =>
             CachedCgm.finalizer /\ ~CachedCgm.terminating
        /\ CgmFirstStep(CachedCgm) = "status" => CachedCgm.created
        /\ CgmFirstStep(CachedCgm) = "take" => CachedCgm.terminating
    BY DEF CgmFirstStep
  <2>4. CgmFirstStep(CachedCgm) = "status" => members # {}
    <3>1. cgmAt \in DOMAIN cgmLog /\ CachedCgm = cgmLog[cgmAt]
      BY <2>2, CgmView DEF BackedUnedited
    <3> QED
      BY <2>2, <2>3, <3>1 DEF BackedUnedited, TakenInTheEnd, NobodyAdds
  <2>5. CgmFirstStep(CachedCgm) = "take" /\ members # {} => Cached.providerID = 1
    <3>1. Exists(Cached) /\ members # {} => Cached.providerID # 0
      BY DEF BackedUnedited, TakenInTheEnd
    <3>2. Exists(Cached) => Cached.providerID \in {0, 1}
      BY ContactView DEF BackedUnedited, OfFirstGeneration
    <3> QED
      BY <2>2, <3>1, <3>2
  <2> QED
    BY <1>1, <2>1, <2>2, <2>3, <2>4, <2>5
<1>5. CASE CallsForCgm
  <2>1. /\ cgmWorker.contact # 0 /\ Exists(Cached) => Cached.providerID # 0
        /\ cgmWorker.step \in {"add", "status"} => CgmReading.finalizer
        /\ cgmWorker.step \in {"take", "release"} => CgmReading.terminating
        /\ cgmWorker.step = "take" /\ members # {} => cgmWorker.contact = 1
    BY <1>5 DEF CallsForCgm, BackedUnedited, CgmInHand
  <2>2. members \subseteq {1}
    BY MembersAreOne DEF BackedUnedited
  <2> QED
    BY <1>1, <1>2, <1>5, <2>1, <2>2 DEF CallsForCgm
<1> QED
  BY <1>3, <1>4, <1>5, CgmWorkerMoves

LEMMA TakenInTheEndStep ==
    ASSUME NeverEdited, IInv, BackedUnedited, [Next]_vars
    PROVE  TakenInTheEnd'
<1>1. /\ members # {} => CurrentCgm.finalizer
      /\ members # {} /\ Exists(Cached) => Cached.providerID # 0
      /\ \A i \in DOMAIN cgmLog : cgmLog[i].created => members # {} \/ NobodyAdds
      /\ cgmLog # << >> /\ ~CurrentCgm.exists =>
           NobodyAdds \/ \A i \in DOMAIN cgmLog : ~cgmLog[i].finalizer
  BY DEF BackedUnedited, TakenInTheEnd
<1>2. members # {} /\ members' = {} => NobodyAdds
  BY MembersMove, LeavingIsSeen
<1>3. members' # {} /\ Exists(Cached') => Cached'.providerID # 0
  <2>1. members # {} \/ cgmWorker.step = "add" => (Exists(Cached) => Cached.providerID # 0)
           \/ UNCHANGED members
    BY <1>1, MembersMove DEF BackedUnedited, CgmInHand, Idle
  <2> QED
    BY <1>1, <2>1, CacheAdvances, MembersMove DEF BackedUnedited, CgmInHand, Idle
<1>4. CASE cgmLog' = cgmLog /\ CurrentCgm' = CurrentCgm
  <2>1. members' # {} => CurrentCgm'.finalizer
    BY <1>1, <1>4, MembersMove, FinalizerIsThere
  <2> QED
    BY <1>1, <1>2, <1>3, <1>4, <2>1, NobodyAddsStep DEF TakenInTheEnd, Exists
<1>5. ASSUME NEW v, CgmWrites(v), Grows(cgmLog, cgmLog', v), CurrentCgm' = v, UNCHANGED members
      PROVE  TakenInTheEnd'
  <2>1. /\ CurrentCgm.exists \/ cgmLog = << >>
        /\ v.exists /\ CurrentCgm.exists => (CurrentCgm.finalizer => v.finalizer)
        /\ v.created => (CurrentCgm.exists /\ CurrentCgm.created) \/ cgmWorker.step = "status"
        /\ ~v.exists =>
             /\ CurrentCgm.exists /\ ~v.finalizer
             /\ ~CurrentCgm.finalizer \/ cgmWorker.step = "release"
    BY <1>5, WrittenCgmKeeps
  <2>2. /\ \A i \in DOMAIN cgmLog' :
             \/ i \in DOMAIN cgmLog /\ cgmLog'[i] = cgmLog[i]
             \/ cgmLog'[i] = v
    BY <1>5 DEF Grows
  <2>3. cgmLog = << >> => ~CurrentCgm.finalizer
    BY CgmFacts DEF NoMembership
  <2>4. cgmWorker.step = "release" => members = {} /\ NobodyAdds
    BY LeavingIsSeen DEF BackedUnedited, CgmInHand, Idle
  <2>5. members' # {} => CurrentCgm'.finalizer
    BY <1>1, <1>5, <2>1, <2>3, <2>4
  <2>6. v.created => members # {} \/ NobodyAdds
    <3>1. CurrentCgm.exists /\ CurrentCgm.created => members # {} \/ NobodyAdds
      BY <1>1, CgmView DEF BackedUnedited
    <3>2. cgmWorker.step = "status" => members # {}
      BY DEF BackedUnedited, CgmInHand, Idle
    <3> QED
      BY <2>1, <3>1, <3>2
  <2>7. ~v.exists => NobodyAdds' \/ \A i \in DOMAIN cgmLog' : ~cgmLog'[i].finalizer
    <3>1. CASE ~v.exists /\ cgmWorker.step = "release"
      BY <2>4, <3>1, NobodyAddsStep
    <3>2. CASE ~v.exists /\ ~CurrentCgm.finalizer
      <4>1. \A i \in DOMAIN cgmLog : ~cgmLog[i].finalizer
        BY <2>1, <3>2, CgmView DEF BackedUnedited
      <4> QED
        BY <2>1, <2>2, <3>2, <4>1
    <3> QED
      BY <2>1, <3>1, <3>2
  <2> QED
    BY <1>1, <1>3, <1>5, <2>2, <2>5, <2>6, <2>7, NobodyAddsStep DEF TakenInTheEnd, Exists
<1> QED
  BY <1>4, <1>5, CgmLogGrows

(***************************************************************************)
(* The start, and the invariant.                                           *)
(***************************************************************************)
LEMMA BackedAtStart == Init => BackedUnedited
<1> SUFFICES ASSUME Init PROVE BackedUnedited
  OBVIOUS
<1> USE DEF Init, MembershipWorldInit, CgmInit, RemovalInit
<1>1. PICK a \in Addresses :
        \/ log = <<RecordedContact(a)>> /\ contacts = <<[email |-> a, live |-> TRUE]>>
        \/ log = <<AdoptedContact(a)>> /\ contacts = << >>
  OBVIOUS
<1>2. /\ DOMAIN log = {1} /\ Len(log) = 1
      /\ log[1].email = a /\ log[1].generation = 1 /\ ~log[1].terminating
      /\ \/ /\ log[1].providerID = 0 /\ log[1].conditions.resendReady = "none"
            /\ contacts = << >>
         \/ /\ log[1].providerID = 1 /\ log[1].conditions.resendReady # "none"
            /\ log[1].conditions.updatedAt = 1
            /\ contacts = <<[email |-> a, live |-> TRUE]>>
  <2> DEFINE w == AdoptedContact(a)
             v == RecordedContact(a)
             c == [NoConditions EXCEPT
           !.resendReady = "ResendContactPending", !.updated = "Created",
           !.updatedAt = 1, !.ready = "False", !.readyAt = 1]
  <2>1. /\ Absent \in Version /\ ~Absent.terminating
        /\ Absent.providerID = 0 /\ Absent.conditions = NoConditions
    BY AbsentAreTyped DEF Absent
  <2>2. NoConditions.resendReady = "none"
    BY DEF NoConditions
  <2>3. c \in Conditions /\ c.resendReady # "none" /\ c.updatedAt = 1
    BY DEF NoConditions, Conditions
  <2>4. w = [Absent EXCEPT !.generation = 1, !.email = a, !.finalizer = TRUE]
    BY DEF AdoptedContact
  <2>5. v = [w EXCEPT !.providerID = 1, !.conditions = c]
    BY DEF RecordedContact
  <2>6. \/ log = <<v>> /\ contacts = <<[email |-> a, live |-> TRUE]>>
        \/ log = <<w>> /\ contacts = << >>
    BY <1>1
  <2> HIDE DEF c, v, w
  <2>7. /\ w \in Version /\ w.email = a /\ w.generation = 1
        /\ w.terminating = Absent.terminating
        /\ w.providerID = 0 /\ w.conditions = NoConditions
    BY <2>1, <2>4 DEF Version
  <2>8. /\ v.email = w.email /\ v.generation = w.generation
        /\ v.terminating = w.terminating
        /\ v.providerID = 1 /\ v.conditions = c
    BY <2>5, <2>7 DEF Version
  <2>9. CASE log = <<w>> /\ contacts = << >>
    <3>1. log[1] = w /\ DOMAIN log = {1} /\ Len(log) = 1
      BY <2>9
    <3> QED
      BY <2>1, <2>2, <2>7, <2>9, <3>1
  <2>10. CASE log = <<v>> /\ contacts = <<[email |-> a, live |-> TRUE]>>
    <3>1. log[1] = v /\ DOMAIN log = {1} /\ Len(log) = 1
      BY <2>10
    <3> QED
      BY <2>1, <2>3, <2>7, <2>8, <2>10, <3>1
  <2> QED
    BY <2>6, <2>9, <2>10
<1>3. /\ Len(contacts) <= 1
      /\ contacts # << >> => contacts[1].email = a /\ contacts[1].live
  <2> DEFINE c == [email |-> a, live |-> TRUE]
  <2>1. c.email = a /\ c.live
    OBVIOUS
  <2>2. contacts = << >> \/ contacts = <<c>>
    BY <1>1
  <2> HIDE DEF c
  <2>3. CASE contacts = << >>
    BY <2>3
  <2>4. CASE contacts = <<c>>
    <3>1. contacts[1] = c /\ Len(contacts) = 1
      BY <2>4
    <3> QED
      BY <2>1, <3>1
  <2> QED
    BY <2>2, <2>3, <2>4
<1>4. contacts = << >> \/ contacts # << >>
  OBVIOUS
<1>5. FirstVersions
  <2>1. OfFirstGeneration(log[1])
    <3>1. <<[email |-> a, live |-> TRUE]>> # << >>
      OBVIOUS
    <3> QED
      BY <1>2, <3>1 DEF OfFirstGeneration
  <2> QED
    BY <1>2, <2>1 DEF FirstVersions
<1>6. OneContact /\ ContactInHand
  BY <1>2, <1>3 DEF OneContact, ContactInHand
<1>7. cgmLog = << >> /\ DOMAIN cgmLog = {} /\ members = {} /\ cgmWorker = Idle
  OBVIOUS
<1> QED
  BY <1>5, <1>6, <1>7
  DEF BackedUnedited, UneditedContact, CgmFollow, CgmInHand, TakenInTheEnd

LEMMA BackedStep ==
    ASSUME NeverEdited, IInv, BackedUnedited, [Next]_vars
    PROVE  BackedUnedited'
<1>1. UneditedContact'
  BY UneditedContactStep DEF BackedUnedited
<1> QED
  BY <1>1, CgmFollowStep, CgmInHandStep, TakenInTheEndStep DEF BackedUnedited

(* A Contact that is never edited is created at Resend as one contact, its *)
(* membership's worker adds and takes out that contact, and takes it out   *)
(* only once it has read the membership's deletion: what is in the segment *)
(* agrees with what the object says, at every step of the four             *)
(* controllers, their users, faults and restarts.                          *)
THEOREM UneditedMembershipAgrees ==
    ASSUME NeverEdited
    PROVE  Spec => []BackedUnedited
<1>1. IInv /\ BackedUnedited /\ [Next]_vars => BackedUnedited'
  BY BackedStep
<1> QED
  BY <1>1, BackedAtStart, MembershipInvariant, PTL DEF Spec

(* The membership of a Contact that is never edited is at Resend from when *)
(* ReconcileMembership says that it was created until its deletion.        *)
THEOREM UneditedMembershipBacked ==
    ASSUME NeverEdited
    PROVE  Spec => []ClaimedMembershipIsBacked
<1>1. IInv /\ BackedUnedited => ClaimedMembershipIsBacked
  <2> SUFFICES ASSUME IInv, BackedUnedited, ClaimsMember(CurrentCgm),
                      CanAdd(Current.providerID)
               PROVE  IsMember(Current.providerID)
    BY DEF ClaimedMembershipIsBacked
  <2>1. CurrentCgm.created /\ ~CurrentCgm.terminating /\ CurrentCgm.exists
    BY CgmFacts DEF ClaimsMember, NoMembership
  <2>2. ~NobodyAdds
    <3> SUFFICES ASSUME NobodyAdds PROVE FALSE
      OBVIOUS
    <3>1. cgmAt \in DOMAIN cgmLog /\ CachedCgm = cgmLog[cgmAt]
      BY CgmView DEF NobodyAdds, BackedUnedited
    <3>2. CachedCgm.terminating \/ CachedCgm = CurrentCgm
      BY <3>1, <2>1, CgmView DEF NobodyAdds, BackedUnedited
    <3> QED
      BY <2>1, <3>1, <3>2, CgmView DEF NobodyAdds, BackedUnedited
  <2>3. members # {}
    BY <2>1, <2>2, CgmView DEF BackedUnedited, TakenInTheEnd
  <2>4. Current.providerID = 1
    <3>1. contacts \in Seq(Contact) /\ Current.providerID \in DOMAIN contacts /\ Len(contacts) <= 1
      BY DEF CanAdd, IInv, TypeOK, Contact, BackedUnedited, UneditedContact, OneContact
    <3>2. DOMAIN contacts = 1..Len(contacts) /\ Len(contacts) \in Nat
      BY <3>1
    <3> QED
      BY <3>1, <3>2
  <2>5. members \subseteq {1}
    BY MembersAreOne DEF BackedUnedited
  <2> QED
    BY <2>3, <2>4, <2>5 DEF IsMember, CanAdd
<1> QED
  BY <1>1, UneditedMembershipAgrees, MembershipInvariant, PTL

(* Once the membership of such a Contact is gone, by its finalizer or at   *)
(* once, nobody is left in the segment, and no call that was under way     *)
(* puts anybody back.                                                      *)
THEOREM UneditedMembershipTakenOut ==
    ASSUME NeverEdited
    PROVE  Spec => []NobodyLeftBehind
<1>1. IInv /\ BackedUnedited => NobodyLeftBehind
  <2> SUFFICES ASSUME IInv, BackedUnedited, ~CurrentCgm.exists PROVE members = {}
    BY DEF NobodyLeftBehind
  <2>1. ~CurrentCgm.finalizer
    BY CgmFacts DEF NoMembership
  <2> QED
    BY <2>1 DEF BackedUnedited, TakenInTheEnd
<1> QED
  BY <1>1, UneditedMembershipAgrees, MembershipInvariant, PTL

============================================================================
