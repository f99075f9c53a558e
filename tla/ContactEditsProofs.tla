-------------------------- MODULE ContactEditsProofs --------------------------
(***************************************************************************)
(* What a Contact's promises are worth once its spec is edited, for every  *)
(* set of addresses and handlers, whatever fails, restarts or lags: the    *)
(* contact that was on record (ReplacedForGood, after one edit), the one   *)
(* that is put there, and what a webhook request writes beside it.         *)
(***************************************************************************)
EXTENDS ContactRecordsProofs

(***************************************************************************)
(* The contact that was on record when the spec was edited.                *)
(***************************************************************************)
LEMMA EditFacts ==
    ASSUME MaxGeneration <= 2, IInv, RecordsOK, NEW i \in DOMAIN log, EditsSpec(i)
    PROVE  /\ i - 1 \in DOMAIN log /\ log[i].generation = 2
           /\ log[i].providerID = log[i - 1].providerID
           /\ \A j \in DOMAIN log : Exists(log[j]) =>
                /\ j < i => log[j].generation = 1
                /\ j >= i => log[j].generation >= 2
           /\ log[i].providerID # 0 =>
                \A j \in DOMAIN log : Exists(log[j]) /\ j < i =>
                    contacts[log[i].providerID].email = log[j].email
<1>1. /\ log \in Seq(Version) /\ DOMAIN log = 1..Len(log) /\ Len(log) \in Nat
      /\ \A j \in DOMAIN log : log[j] \in Version /\ log[j].generation \in Nat
  <2>1. log \in Seq(Version)
    BY DEF IInv, TypeOK
  <2>2. \A j \in DOMAIN log : log[j] \in Version
    BY <2>1
  <2> QED
    BY <2>1, <2>2 DEF Version
<1>2. /\ i - 1 \in DOMAIN log /\ log[i].generation > log[i - 1].generation
      /\ ~log[i].terminating /\ i - 1 < i
  BY <1>1 DEF EditsSpec
<1>3. Exists(log[i - 1]) /\ log[i - 1].generation > 0
  <2>1. i - 1 # Len(log)
    BY <1>1, <1>2
  <2> QED
    BY <1>1, <1>2, <2>1 DEF IInv, History, Exists
<1>4. log[i].generation = 2 /\ log[i - 1].generation = 1
  BY <1>1, <1>2, <1>3, ContactBoundsAreNats DEF RecordsOK, RecordAgrees
<1>5. log[i].providerID = log[i - 1].providerID
  BY DEF RecordsOK, VersionsFollow
<1>6. ASSUME NEW j \in DOMAIN log, Exists(log[j])
      PROVE  /\ j < i => log[j].generation = 1 /\ log[j].email = log[i - 1].email
             /\ j >= i => log[j].generation >= 2
  <2>1. CASE j < i
    <3>1. j <= i - 1
      BY <1>1, <2>1
    <3>2. Precedes(log[j], log[i - 1]) /\ log[j].generation # 0
      BY <1>2, <1>3, <1>6, <3>1 DEF RecordsOK, VersionsFollow, Exists
    <3> QED
      BY <1>1, <1>4, <2>1, <3>2 DEF Precedes
  <2>2. CASE j >= i
    BY <1>1, <1>4, <1>6, <2>2 DEF RecordsOK, VersionsFollow, Precedes
  <2> QED
    BY <1>1, <2>1, <2>2
<1>7. log[i].providerID # 0 => contacts[log[i].providerID].email = log[i - 1].email
  BY <1>2, <1>4, <1>5 DEF RecordsOK, RecordAgrees
<1> QED
  BY <1>2, <1>4, <1>5, <1>6, <1>7

LEMMA ReplacedStep ==
    ASSUME MaxGeneration <= 2, IInv, RecordsOK, ReplacedForGood, [Next]_vars
    PROVE  ReplacedForGood'
<1>1. /\ log \in Seq(Version) /\ DOMAIN log = 1..Len(log) /\ Len(log) \in Nat
      /\ \A i \in DOMAIN log : log[i].providerID \in {0} \cup DOMAIN contacts
  BY DEF IInv, TypeOK, History
<1>2. ContactsChange
  BY ContactsChanged
<1>3. CASE UNCHANGED log
  BY <1>1, <1>2, <1>3 DEF ReplacedForGood, EditsSpec, Exists, ContactsChange
<1>4. ASSUME UNCHANGED contacts, NEW v \in Version, Follows(v), Kinds(v),
             log' = Append(log, v)
      PROVE  ReplacedForGood'
  <2>1. /\ DOMAIN log' = 1..(Len(log) + 1)
        /\ \A i \in DOMAIN log : log'[i] = log[i]
        /\ log'[Len(log) + 1] = v
    BY <1>1, <1>4, AppendFacts
  <2> SUFFICES ASSUME NEW i \in DOMAIN log', NEW j \in DOMAIN log', i > 1,
                      log'[i].generation > log'[i - 1].generation, ~log'[i].terminating,
                      i <= j, Exists(log'[j]),
                      log'[i].providerID \notin {0, log'[j].providerID}
               PROVE  ~contacts[log'[i].providerID].live
    BY <1>4 DEF ReplacedForGood, EditsSpec, Exists
  <2>2. i - 1 \in DOMAIN log /\ i # j
    BY <1>1, <2>1
  <2>3. i \in DOMAIN log /\ EditsSpec(i) /\ log'[i] = log[i]
    BY <1>1, <2>1, <2>2 DEF EditsSpec
  <2>4. CASE j \in DOMAIN log
    BY <2>1, <2>3, <2>4 DEF ReplacedForGood, Exists
  <2>5. CASE j = Len(log) + 1
    <3> DEFINE n == log[i].providerID
    <3>1. /\ Exists(v) /\ log # << >> /\ n \notin {0, v.providerID} /\ n \in DOMAIN contacts
          /\ log'[i].providerID = n
      BY <1>1, <2>1, <2>3, <2>5
    <3>2. Exists(Current) /\ Current = log[Len(log)] /\ Len(log) \in DOMAIN log
          /\ i <= Len(log)
      BY <1>1, <1>4, <2>3, <3>1, CurrentFacts DEF Follows
    <3>3. Current.providerID # n => ~contacts[n].live
      BY <2>3, <3>1, <3>2 DEF ReplacedForGood
    <3>4. CASE v.providerID = Current.providerID
      BY <3>1, <3>3, <3>4
    <3>5. CASE worker # Idle /\ RecordsNew(v)
      <4>1. /\ worker.read \in DOMAIN log /\ Reading = log[worker.read]
            /\ Exists(Reading) /\ RecordAgrees(Reading) /\ Reading.generation \in Nat
        BY <3>5, ReadingFacts, ReadingRecord
      <4>2. CASE worker.read >= i
        <5>1. Precedes(log[i], Reading)
          BY <2>3, <4>1, <4>2 DEF RecordsOK, VersionsFollow
        <5>2. Reading.providerID # 0
          BY <3>1, <5>1 DEF Precedes
        <5>3. ~contacts[Reading.providerID].live
          BY <3>5, <5>2 DEF RecordsNew
        <5>4. Reading.providerID # n => ~contacts[n].live
          BY <2>3, <3>1, <4>1, <4>2 DEF ReplacedForGood
        <5> QED
          BY <3>1, <5>3, <5>4
      <4>3. CASE worker.read < i
        <5>1. contacts[n].email = Reading.email
          BY <2>3, <3>1, <4>1, <4>3, EditFacts
        <5>2. /\ v.providerID \in DOMAIN contacts /\ contacts[v.providerID].live
              /\ contacts[v.providerID].email = Reading.email
          BY <3>5 DEF RecordsNew, Live
        <5>3. contacts[n].live => n = v.providerID
          BY <3>1, <5>1, <5>2 DEF RecordsOK, OnePerAddress
        <5> QED
          BY <3>1, <5>3
      <4> QED
        BY <1>1, <2>3, <4>1, <4>2, <4>3
    <3> QED
      BY <1>4, <3>1, <3>4, <3>5, AbsentIsVersion, PatchKinds
         DEF Kinds, Begins, Respecifies, Keeps, Patches, Answers, RecordsSame
  <2> QED
    BY <1>1, <2>1, <2>4, <2>5
<1> QED
  BY <1>3, <1>4, VersionStep

(***************************************************************************)
(* When the spec is edited once, whatever fails, restarts or lags, and     *)
(* however late either provider reports: the contact that was on record is *)
(* deleted at Resend before another one is recorded.                       *)
(***************************************************************************)
THEOREM EditedContactReplaced ==
    ASSUME MaxGeneration <= 2
    PROVE  Spec => []ReplacedForGood
<1>1. Init => ReplacedForGood
  BY DEF Init, WorldInit, ReplacedForGood
<1>2. IInv /\ RecordsOK /\ ReplacedForGood /\ [Next]_vars => ReplacedForGood'
  BY ReplacedStep
<1> QED
  BY <1>1, <1>2, ContactInvariant, ContactRecordsAgree, PTL DEF Spec

(***************************************************************************)
(* So it is not at Resend any more once another one is on record, or the   *)
(* Contact is gone: an edit leaves no contact behind.                      *)
(***************************************************************************)
THEOREM ReplacedContactGone ==
    ASSUME MaxGeneration <= 2
    PROVE  Spec => []ReplacedIsGone
<1>1. IInv /\ RecordsOK /\ ReplacedForGood => ReplacedIsGone
  <2> SUFFICES ASSUME IInv, RecordsOK, ReplacedForGood,
                      NEW i \in DOMAIN log, EditsSpec(i),
                      log[i].providerID \notin {0, Current.providerID}
               PROVE  ~contacts[log[i].providerID].live
    BY DEF ReplacedIsGone
  <2>1. /\ log \in Seq(Version) /\ DOMAIN log = 1..Len(log) /\ Len(log) \in Nat
        /\ Current = log[Len(log)] /\ Len(log) \in DOMAIN log /\ i <= Len(log)
    BY CurrentFacts DEF IInv, TypeOK
  <2>2. CASE Exists(Current)
    BY <2>1, <2>2 DEF ReplacedForGood
  <2>3. CASE ~Exists(Current)
    <3>1. log[Len(log)] = Absent
      BY <2>1, <2>3 DEF IInv, History
    <3>2. i # Len(log)
      BY <2>1, <3>1, AbsentIsVersion
    <3>3. /\ Len(log) - 1 \in DOMAIN log /\ i <= Len(log) - 1 /\ Len(log) > 1
          /\ Exists(log[Len(log) - 1])
      <4>1. i \in Nat /\ i > 1 /\ i <= Len(log) /\ i # Len(log)
        BY <2>1, <3>2 DEF EditsSpec
      <4>2. Len(log) - 1 \in 1..Len(log) /\ i <= Len(log) - 1 /\ Len(log) > 1
            /\ Len(log) - 1 # Len(log)
        <5> DEFINE m == Len(log)
        <5>1. m \in Nat /\ i \in Nat /\ i > 1 /\ i <= m /\ i # m
          BY <2>1, <4>1
        <5> HIDE DEF m
        <5>2. m - 1 \in 1..m /\ i <= m - 1 /\ m > 1 /\ m - 1 # m
          BY <5>1
        <5> QED
          BY <5>2 DEF m
      <4>3. \A k \in 1..Len(log) : k # Len(log) => Exists(log[k])
        BY <2>1 DEF IInv, History
      <4> QED
        BY <2>1, <4>2, <4>3
    <3> DEFINE l == log[Len(log) - 1]
    <3>4. l.providerID # log[i].providerID => ~contacts[log[i].providerID].live
      BY <3>3 DEF ReplacedForGood
    <3>5. l.providerID # 0 => ~contacts[l.providerID].live
      BY <2>1, <3>1, <3>3 DEF IInv, GoneFromResend
    <3> QED
      BY <3>4, <3>5
  <2> QED
    BY <2>2, <2>3
<1> QED
  BY <1>1, ContactInvariant, ContactRecordsAgree, EditedContactReplaced, PTL

(***************************************************************************)
(* An id is recorded by a patch, and the worker that patches holds a       *)
(* contact of the address it read, whatever was written since.             *)
(***************************************************************************)
LEMMA RecordedStep ==
    ASSUME IInv, RecordsOK, [Next]_vars,
           Exists(Current'), Current'.providerID # Current.providerID
    PROVE  /\ contacts[Current'.providerID].live
           /\ \E i \in DOMAIN log :
                /\ log[i].generation = Current'.conditions.updatedAt
                /\ log[i].email = contacts[Current'.providerID].email
<1>1. log \in Seq(Version)
  BY DEF IInv, TypeOK
<1>2. log' # log
  BY DEF Current
<1>3. PICK v \in Version : Follows(v) /\ Kinds(v) /\ log' = Append(log, v)
  BY <1>2, VersionStep
<1>4. Current' = v
  BY <1>1, <1>3, AppendFacts
<1>5. log = << >> => Current.providerID = 0
  BY <1>1, CurrentFacts DEF Absent
<1>6. v # Absent
  BY <1>4 DEF Exists, Absent
<1>7. Patches(v)
  BY <1>3, <1>4, <1>5, <1>6 DEF Kinds, Begins, Respecifies, Keeps, Answers
<1>8. worker # Idle /\ RecordsNew(v)
  BY <1>4, <1>7, PatchKinds DEF RecordsSame
<1>9. worker.read \in DOMAIN log /\ Reading = log[worker.read]
  BY <1>8, ReadingRecord
<1> QED
  BY <1>4, <1>8, <1>9 DEF RecordsNew, Live

(***************************************************************************)
(* Whatever is edited, fails, restarts or lags: an id is put on record     *)
(* only while Resend has a contact under it, of the address that the       *)
(* generation it is recorded for asked for.                                *)
(***************************************************************************)
THEOREM RecordedThere == Spec => RecordedWhenThere
<1>1. IInv /\ RecordsOK /\ [Next]_vars =>
        [Exists(Current') /\ Current'.providerID # Current.providerID =>
          /\ contacts[Current'.providerID].live
          /\ \E i \in DOMAIN log :
               /\ log[i].generation = Current'.conditions.updatedAt
               /\ log[i].email = contacts[Current'.providerID].email]_vars
  BY RecordedStep
<1> QED
  BY <1>1, ContactInvariant, ContactRecordsAgree, PTL DEF Spec, RecordedWhenThere

(***************************************************************************)
(* A request that writes was looked up by the id that is still on record.  *)
(***************************************************************************)
LEMMA ReportedStep ==
    ASSUME IInv, RecordsOK, [Next]_vars, log' # log, handler' # handler
    PROVE  \E type \in AllowedContactEvents : <<Current.providerID, type>> \in reported
<1>1. HookNext
  BY DEF Next, hookVars, vars
<1>2. ~(\E h \in Handlers, n \in DOMAIN contacts : \E type \in Reports(n) : Receive(h, n, type))
        /\ ~RestartWebhookServer
  BY DEF Receive, RestartWebhookServer, worldVars
<1>3. PICK h \in Handlers : UpdateContact(h) \/ RequestFails(h)
  BY <1>1, <1>2 DEF HookNext
<1>4. handler[h] # Free /\ Fresh(log, handler[h].read)
  BY <1>3 DEF UpdateContact, RequestFails, StoreCondition, Free
<1>5. At(handler[h].read) = Current /\ handler[h].type \in AllowedContactEvents
  BY <1>4, HandlerFacts
<1>6. /\ At(handler[h].read).providerID = handler[h].id
      /\ <<handler[h].id, handler[h].type>> \in reported
  BY <1>4 DEF RecordsOK, RequestsReported
<1> QED
  BY <1>5, <1>6

(***************************************************************************)
(* Whatever is edited, fails, restarts or lags: what a request writes      *)
(* rests on a report of the contact on record at that moment.              *)
(***************************************************************************)
THEOREM ConfirmationsReported == Spec => ConfirmsWhatWasReported
<1>1. IInv /\ RecordsOK /\ [Next]_vars =>
        [log' # log /\ handler' # handler =>
          \E type \in AllowedContactEvents :
              <<Current.providerID, type>> \in reported]_vars
  BY ReportedStep
<1> QED
  BY <1>1, ContactInvariant, ContactRecordsAgree, PTL DEF Spec, ConfirmsWhatWasReported

============================================================================
