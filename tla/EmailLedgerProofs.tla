------------------------- MODULE EmailLedgerProofs --------------------------
(***************************************************************************)
(* The e-mail provider implements the abstract ledger: every initial state *)
(* is one of the ledger's, and every step is a step of it or leaves it as  *)
(* it is.  The invariant of EmailDeliveryProofs says of what a process has *)
(* read, and writes back later, that it is still true.                     *)
(***************************************************************************)
EXTENDS EmailDeliveryProofs

Record == [e \in Emails |-> Current(e)]
Sent == [n \in DOMAIN messages |-> messages[n].uid]

(* No step touches two of the ledger's accounts.                           *)
Reported ==
    /\ \E n \in DOMAIN messages, type \in AllowedEvents : events' = events \cup {<<n, type>>}
    /\ UNCHANGED <<log, lastUid, messages>>

OneAccount ==
    \/ UNCHANGED <<messages, events>>
    \/ Sends /\ UNCHANGED <<lastUid, events>>
    \/ Reported

LEMMA OneAccountAtATime == [Next]_vars => OneAccount
<1> SUFFICES ASSUME [Next]_vars PROVE OneAccount
  OBVIOUS
<1>1. CASE WorldNext
  BY <1>1 DEF WorldNext, CreateEmail, DeleteEmail, OneAccount
<1>2. CASE CtrlNext
  <2>1. CASE InformerNext \/ QueueNext
    BY <2>1 DEF InformerNext, QueueNext, Observe, TimerFires, worldVars, OneAccount
  <2>2. CASE ReconcileNext
    BY <2>2 DEF ReconcileNext, StartReconcile, SendAccepted, RecordSent,
                RecordFailure, StatusUpdateFails, worldVars, Sends, SendsAs, OneAccount
  <2>3. CASE CtrlDisturbed
    BY <2>3 DEF CtrlDisturbed, Resync, LookupFails, SendFails, RestartManager,
                Sends, SendsAs, OneAccount
  <2>4. QED
    BY <1>2, <2>1, <2>2, <2>3 DEF CtrlNext
<1>3. CASE HookNext
  <2>1. ASSUME NEW h \in Handlers, NEW n \in DOMAIN messages, NEW type \in ReportedEvents,
               Receive(h, n, type) \/ ListFails(h, n, type)
        PROVE  Reported
    BY <2>1, ReportedAreAllowed DEF Receive, ListFails, Called, Reported
  <2>2. ASSUME NEW h \in Handlers,
               UpdateDelivered(h) \/ UpdateFails(h) \/ CreateEvent(h) \/ CreateEventFails(h)
        PROVE  UNCHANGED <<messages, events>>
    BY <2>2 DEF UpdateDelivered, UpdateFails, CreateEvent, CreateEventFails, worldVars
  <2>3. CASE RestartWebhookServer
    BY <2>3 DEF RestartWebhookServer, OneAccount
  <2>4. QED
    BY <1>3, <2>1, <2>2, <2>3 DEF HookNext, OneAccount
<1>4. CASE UNCHANGED vars
  BY <1>4 DEF vars, worldVars, OneAccount
<1>5. QED
  BY <1>1, <1>2, <1>3, <1>4 DEF Next

(* A uid is only given out to a name that nobody has.                      *)
LEMMA NewUid ==
    [Next]_vars => UNCHANGED lastUid \/ \E e \in Emails : CreateEmail(e)
<1> SUFFICES ASSUME [Next]_vars
             PROVE  UNCHANGED lastUid \/ \E e \in Emails : CreateEmail(e)
  OBVIOUS
<1>1. CASE WorldNext
  BY <1>1 DEF WorldNext, DeleteEmail
<1>2. CASE CtrlNext
  BY <1>2 DEF CtrlNext, InformerNext, QueueNext, ReconcileNext, CtrlDisturbed,
              Observe, TimerFires, StartReconcile, SendAccepted, RecordSent,
              RecordFailure, StatusUpdateFails, Resync, LookupFails, SendFails,
              RestartManager, worldVars
<1>3. CASE HookNext
  BY <1>3 DEF HookNext, Receive, ListFails, UpdateDelivered, UpdateFails,
              CreateEvent, CreateEventFails, RestartWebhookServer, worldVars
<1>4. CASE UNCHANGED vars
  BY <1>4 DEF vars, worldVars
<1>5. QED
  BY <1>1, <1>2, <1>3, <1>4 DEF Next

(***************************************************************************)
(* The record of a name is the last version of its log.                    *)
(***************************************************************************)
LEMMA RecordFacts ==
    ASSUME IInv, NEW e \in Emails
    PROVE  /\ Current(e) = Absent \/ (/\ Len(log[e]) \in DOMAIN log[e]
                                      /\ Current(e) = log[e][Len(log[e])])
           /\ ~Exists(Current(e)) => Current(e) = Absent
           /\ Current(e) \in Version
<1>1. log[e] \in Seq(Version)
  BY DEF IInv, TypeOK
<1>2. CASE Len(log[e]) = 0
  BY <1>2, AbsentIsVersion DEF Current, CurrentOf, VersionAt
<1>3. CASE Len(log[e]) # 0
  <2>1. Len(log[e]) \in DOMAIN log[e] /\ Current(e) = log[e][Len(log[e])]
    BY <1>1, <1>3 DEF Current, CurrentOf, VersionAt
  <2>2. ~Exists(Current(e)) => Current(e) = Absent
    BY <2>1 DEF IInv, Accounts, Versions, Exists
  <2>3. QED
    BY <1>1, <2>1, <2>2
<1>4. QED
  BY <1>2, <1>3

(* A step replaces at most one record, by a version it published.          *)
LEMMA RecordStep ==
    ASSUME IInv, [Next]_vars
    PROVE  \/ \A e \in Emails : Current(e)' = Current(e)
           \/ \E e \in Emails :
                /\ NewVersion(e, Current(e)')
                /\ log'[e] # log[e]
                /\ \A f \in Emails : f # e => Current(f)' = Current(f)
<1>1. CASE log' = log
  BY <1>1 DEF Current
<1>2. ASSUME NEW e \in Emails, log'[e] # log[e]
      PROVE  /\ NewVersion(e, Current(e)')
             /\ \A f \in Emails : f # e => Current(f)' = Current(f)
  <2> DEFINE i == Len(log'[e])
  <2>1. /\ log[e] \in Seq(Version) /\ log'[e] \in Seq(Version)
        /\ Len(log[e]) <= Len(log'[e])
        /\ \A j \in DOMAIN log[e] : j \in DOMAIN log'[e] /\ log'[e][j] = log[e][j]
    BY LogStep DEF IInv, LogGrows, TypeOK
  <2>2. Len(log[e]) # i
    BY <1>2, <2>1
  <2>3. i \in DOMAIN log'[e] /\ i \notin DOMAIN log[e] /\ i # 0
    BY <2>1, <2>2
  <2>4. Current(e)' = log'[e][i]
    BY <2>3 DEF Current, CurrentOf, VersionAt
  <2>5. /\ \A f \in Emails : f # e => log'[f] = log[f]
        /\ NewVersion(e, log'[e][i])
    BY <2>3, Published DEF IInv
  <2>6. \A f \in Emails : f # e => Current(f)' = Current(f)
    BY <2>5 DEF Current
  <2>7. QED
    BY <2>4, <2>5, <2>6
<1>3. CASE \A e \in Emails : log'[e] = log[e]
  BY <1>3 DEF Current
<1>4. QED
  BY <1>2, <1>3

(***************************************************************************)
(* Each kind of new version is something a record may come to show.        *)
(***************************************************************************)
LEMMA NoRecordIsAbsent == Ledger!Nothing = Absent
  BY DEF Ledger!Nothing, Absent

LEMMA CreatesRecord ==
    ASSUME IInv, [Next]_vars, NEW e \in Emails, FreshEmail(Current(e)'), log'[e] # log[e],
           \A f \in Emails : f # e => Current(f)' = Current(f),
           Current(e)' \in Version
    PROVE  /\ Current(e) = Absent
           /\ Current(e)' = [Absent EXCEPT !.uid = lastUid + 1]
           /\ lastUid' = lastUid + 1
<1>1. lastUid' = lastUid + 1 /\ lastUid \in Nat
  BY DEF FreshEmail, IInv, TypeOK
<1>2. PICK f \in Emails : CreateEmail(f)
  BY <1>1, NewUid
<1>3. f = e
  BY <1>2 DEF CreateEmail
<1>4. Current(e) = Absent
  BY <1>2, <1>3, RecordFacts DEF CreateEmail
<1>5. Current(e)' = [Absent EXCEPT !.uid = lastUid + 1]
  BY DEF FreshEmail, Absent, Version
<1>6. QED
  BY <1>1, <1>4, <1>5

(* What the worker read is current when its write is accepted.             *)
LEMMA SendingIsCurrent ==
    ASSUME IInv, worker # Idle, NEW e \in Emails, worker.email = e, worker.read = Len(log[e])
    PROVE  Current(e) = Sending /\ Current(e).uid # 0 /\ Current(e).providerID = 0
<1>1. /\ worker.read \in DOMAIN log[worker.email]
      /\ Sending = log[worker.email][worker.read]
      /\ Sending.uid # 0 /\ Sending.providerID = 0
  BY SendingFacts DEF IInv
<1>2. log[e] \in Seq(Version)
  BY DEF IInv, TypeOK
<1>3. QED
  BY <1>1, <1>2 DEF Current, CurrentOf, VersionAt

LEMMA SubjectIsCurrent ==
    ASSUME IInv, NEW h \in Handlers, NEW e \in Emails, handler[h].step = "update",
           handler[h].email = e, handler[h].read = Len(log[e])
    PROVE  /\ Current(e) = Subject(h) /\ Current(e).uid # 0 /\ Current(e).providerID # 0
           /\ <<Current(e).providerID, handler[h].type>> \in events
<1>1. /\ handler[h].read \in DOMAIN log[e]
      /\ Subject(h) = log[e][handler[h].read]
      /\ Subject(h).uid # 0 /\ Subject(h).providerID # 0
      /\ Subject(h).providerID = handler[h].msg
      /\ <<handler[h].msg, handler[h].type>> \in events
  BY SubjectFacts DEF IInv
<1>2. log[e] \in Seq(Version)
  BY DEF IInv, TypeOK
<1>3. QED
  BY <1>1, <1>2 DEF Current, CurrentOf, VersionAt

(* The three writes to a status that exists, in the ledger's terms.        *)
LEMMA ShowsRecord ==
    ASSUME IInv, NEW e \in Emails, NEW v,
           \/ SentRecorded(e, v)
           \/ FailureRecorded(e, v)
           \/ \E h \in Handlers : ReportRecorded(h, e, v)
    PROVE  /\ Current(e) # Absent
           /\ v.uid = Current(e).uid
           /\ Ledger!Shows(e, v)
<1> DEFINE rec == [f \in Emails |-> Current(f)]
<1>0. rec[e] = Current(e) /\ Absent.uid = 0 /\ DOMAIN Sent = DOMAIN messages
  BY DEF Absent, Sent
<1>1. CASE SentRecorded(e, v)
  <2>1. worker # Idle /\ worker.step = "record"
    BY <1>1 DEF SentRecorded, Idle
  <2>2. Current(e) = Sending /\ Current(e).uid # 0 /\ Current(e).providerID = 0
    BY <1>1, <2>1, SendingIsCurrent DEF SentRecorded
  <2>3. worker.id \in DOMAIN messages /\ messages[worker.id].uid = Sending.uid
    BY <2>1 DEF IInv, InProgress
  <2>4. Sent[worker.id] = Sending.uid
    BY <2>3 DEF Sent
  <2>5. v.uid = Sending.uid /\ v.providerID = worker.id /\ v.delivered = "pending"
    BY <1>1 DEF SentRecorded
  <2>6. QED
    BY <1>0, <2>2, <2>3, <2>4, <2>5 DEF Ledger!Shows, Sent
<1>2. CASE FailureRecorded(e, v)
  <2>1. worker # Idle
    BY <1>2 DEF FailureRecorded, Idle
  <2>2. Current(e) = Sending /\ Current(e).uid # 0 /\ Current(e).providerID = 0
    BY <1>2, <2>1, SendingIsCurrent DEF FailureRecorded
  <2>3. v.uid = Sending.uid /\ v.providerID = 0 /\ v.delivered \in Failures
    BY <1>2, <2>2 DEF FailureRecorded
  <2>4. QED
    BY <1>0, <2>2, <2>3 DEF Ledger!Shows
<1>3. ASSUME NEW h \in Handlers, ReportRecorded(h, e, v)
      PROVE  /\ Current(e) # Absent
             /\ v.uid = Current(e).uid
             /\ Ledger!Shows(e, v)
  <2>1. /\ Current(e) = Subject(h) /\ Current(e).uid # 0 /\ Current(e).providerID # 0
        /\ <<Current(e).providerID, handler[h].type>> \in events
    BY <1>3, SubjectIsCurrent DEF ReportRecorded
  <2>2. /\ v.uid = Subject(h).uid /\ v.providerID = Subject(h).providerID
        /\ v.delivered = handler[h].type
    BY <1>3 DEF ReportRecorded
  <2>3. QED
    BY <1>0, <2>1, <2>2 DEF Ledger!Shows
<1>4. QED
  BY <1>1, <1>2, <1>3

(***************************************************************************)
(* The steps of the ledger.                                                *)
(***************************************************************************)
LEMMA SameRecords ==
    ASSUME IInv, [Next]_vars, \A e \in Emails : Current(e)' = Current(e)
    PROVE  UNCHANGED lastUid
<1> SUFFICES ASSUME NEW e \in Emails, CreateEmail(e) PROVE FALSE
  BY NewUid
<1> DEFINE v == [Absent EXCEPT !.uid = lastUid + 1]
<1>1. v \in Version /\ v.uid # 0
  BY WrittenType DEF IInv, TypeOK, Absent
<1>2. log'[e] = Publish(log[e], v) /\ ~Exists(Current(e)) /\ log[e] \in Seq(Version)
  BY <1>1, StoreFacts DEF CreateEmail, Stores, IInv, TypeOK
<1>3. log'[e] # << >> /\ log'[e][Len(log'[e])] = v
  <2> HIDE DEF v
  <2>1. Publish(log[e], v) # << >> /\ Publish(log[e], v)[Len(Publish(log[e], v))] = v
    BY <1>1, <1>2, PublishFacts
  <2>2. QED
    BY <1>2, <2>1
<1>4. log'[e] \in Seq(Version)
  BY LogStep DEF IInv, LogGrows
<1>5. Current(e)' = v
  BY <1>3, <1>4 DEF Current, CurrentOf, VersionAt
<1>6. QED
  BY <1>1, <1>2, <1>5 DEF Exists

LEMMA RecordsChange ==
    ASSUME IInv, [Next]_vars, UNCHANGED <<messages, events>>
    PROVE  Ledger!Next \/ UNCHANGED Ledger!vars
<1> DEFINE rec == [f \in Emails |-> Current(f)]
<1>0. /\ \A f \in Emails : rec[f] = Current(f) /\ rec'[f] = Current(f)'
      /\ Sent' = Sent
  BY DEF Sent
<1>1. CASE \A e \in Emails : Current(e)' = Current(e)
  <2>1. rec' = rec
    BY <1>1
  <2>2. lastUid' = lastUid
    BY <1>1, SameRecords
  <2>3. QED
    BY <1>0, <2>1, <2>2 DEF Ledger!vars, Sent
<1>2. ASSUME NEW e \in Emails, NewVersion(e, Current(e)'), log'[e] # log[e],
             \A f \in Emails : f # e => Current(f)' = Current(f)
      PROVE  Ledger!Next
  <2>1. rec' = [rec EXCEPT ![e] = Current(e)']
    BY <1>2
  <2>2. CASE FreshEmail(Current(e)')
    <3>1. /\ Current(e) = Absent /\ lastUid' = lastUid + 1
          /\ Current(e)' = [Absent EXCEPT !.uid = lastUid + 1]
      BY <1>2, <2>2, CreatesRecord DEF NewVersion
    <3>2. lastUid \in Nat /\ Current(e)'.uid = lastUid + 1
      BY <3>1 DEF IInv, TypeOK, Absent
    <3>3. 1..lastUid' = (1..lastUid) \cup {Current(e)'.uid}
      BY <3>1, <3>2
    <3>4. Current(e)'.uid \notin (1..lastUid) \cup {0}
      BY <3>2
    <3>5. Ledger!Create(e)
      BY <1>0, <2>1, <3>1, <3>2, <3>3, <3>4, NoRecordIsAbsent DEF Ledger!Create, Sent
    <3>6. QED
      BY <3>5 DEF Ledger!Next
  <2>3. CASE lastUid' = lastUid /\ Current(e)' = Absent
    <3>1. Ledger!Delete(e)
      BY <1>0, <2>1, <2>3, NoRecordIsAbsent DEF Ledger!Delete, Sent
    <3>2. QED
      BY <3>1 DEF Ledger!Next
  <2>4. CASE /\ lastUid' = lastUid
             /\ \/ SentRecorded(e, Current(e)')
                \/ FailureRecorded(e, Current(e)')
                \/ \E h \in Handlers : ReportRecorded(h, e, Current(e)')
    <3>1. /\ Current(e) # Absent
          /\ Current(e)'.uid = Current(e).uid
          /\ Ledger!Shows(e, Current(e)')
      BY <2>4, ShowsRecord
    <3>2. Ledger!Show(e)
      BY <1>0, <2>1, <2>4, <3>1, NoRecordIsAbsent DEF Ledger!Show, Sent
    <3>3. QED
      BY <3>2 DEF Ledger!Next
  <2>5. QED
    BY <1>2, <2>2, <2>3, <2>4 DEF NewVersion
<1>3. QED
  BY <1>1, <1>2, RecordStep

(* Resend takes a message of an object that there is or was.               *)
LEMMA MessagesChange ==
    ASSUME IInv, [Next]_vars, Sends, UNCHANGED <<lastUid, events>>
    PROVE  Ledger!Next \/ UNCHANGED Ledger!vars
<1> DEFINE rec == [f \in Emails |-> Current(f)]
<1>0. rec' = rec
  BY DEF Sends, Current
<1>1. /\ messages \in Seq(Message) /\ messages' \in Seq(Message)
      /\ \A n \in DOMAIN messages : n \in DOMAIN messages' /\ messages'[n] = messages[n]
  BY MessageStep DEF MessagesGrow, IInv, TypeOK
<1>2. CASE DOMAIN messages' = DOMAIN messages
  <2>1. Sent' = Sent
    BY <1>1, <1>2 DEF Sent
  <2>2. QED
    BY <1>0, <2>1 DEF Ledger!vars, Sent
<1>3. CASE DOMAIN messages' # DOMAIN messages
  <2>1. PICK n \in DOMAIN messages' : n \notin DOMAIN messages
    BY <1>1, <1>3
  <2>2. /\ worker # Idle /\ n = Len(messages) + 1
        /\ messages'[n].uid = Sending.uid
        /\ \A m \in DOMAIN messages' : m \in DOMAIN messages \/ m = n
    BY <2>1, SentMessage DEF IInv
  <2>3. DOMAIN messages' = DOMAIN messages \cup {n}
    BY <1>1, <2>1, <2>2
  <2>4. Sending.uid \in 1..lastUid
    <3>1. /\ worker.email \in Emails /\ worker.read \in Versions(worker.email)
          /\ Sending = log[worker.email][worker.read]
          /\ Sending \in Version /\ Sending.uid # 0
      BY <2>2, SendingFacts DEF IInv, Versions
    <3>2. Sending.uid <= lastUid
      BY <3>1 DEF IInv, Accounts
    <3>3. QED
      BY <3>1, <3>2 DEF Version, IInv, TypeOK
  <2> DEFINE snt == [m \in DOMAIN messages |-> messages[m].uid]
  <2>5. /\ DOMAIN snt = DOMAIN messages /\ DOMAIN snt' = DOMAIN messages'
        /\ \A m \in DOMAIN messages : snt[m] = messages[m].uid
        /\ \A m \in DOMAIN messages' : snt'[m] = messages'[m].uid
    OBVIOUS
  <2>6. snt' = [m \in DOMAIN snt \cup {n} |-> IF m = n THEN snt'[n] ELSE snt[m]]
    BY <1>1, <2>1, <2>3
  <2>7. snt'[n] \in 1..lastUid
    BY <2>1, <2>2, <2>4
  <2>8. Ledger!Send
    BY <1>0, <2>1, <2>3, <2>5, <2>6, <2>7 DEF Ledger!Send
  <2>9. QED
    BY <2>8 DEF Ledger!Next
<1>4. QED
  BY <1>2, <1>3

LEMMA LedgerStep ==
    ASSUME IInv, [Next]_vars
    PROVE  Ledger!Next \/ UNCHANGED Ledger!vars
<1>0. DOMAIN Sent = DOMAIN messages
  BY DEF Sent
<1>1. CASE UNCHANGED <<messages, events>>
  BY <1>1, RecordsChange
<1>2. CASE Sends /\ UNCHANGED <<lastUid, events>>
  BY <1>2, MessagesChange
<1>3. CASE Reported
  <2>1. PICK n \in DOMAIN messages, type \in AllowedEvents :
          events' = events \cup {<<n, type>>}
    BY <1>3 DEF Reported
  <2>2. Ledger!Report(n, type)
    BY <1>0, <1>3, <2>1 DEF Reported, Current, Ledger!Report, Sent
  <2>3. Ledger!AllowedEvents = AllowedEvents
    BY DEF Ledger!AllowedEvents, AllowedEvents
  <2>4. QED
    BY <1>0, <2>1, <2>2, <2>3 DEF Ledger!Next, Sent
<1>4. QED
  BY <1>1, <1>2, <1>3, OneAccountAtATime DEF OneAccount

LEMMA LedgerInit == Init => Ledger!Init
<1> SUFFICES ASSUME Init PROVE Ledger!Init
  OBVIOUS
<1>1. \A e \in Emails : Current(e) = Absent
  BY DEF Init, WorldInit, Current, CurrentOf, VersionAt
<1>2. 1..lastUid = {} /\ Sent = << >> /\ events = {}
  BY DEF Init, WorldInit, Sent
<1>3. QED
  BY <1>1, <1>2, NoRecordIsAbsent DEF Ledger!Init, Sent

(***************************************************************************)
(* The detailed provider implements the abstract ledger, for any number of *)
(* Emails and handlers: whatever the caches lag, the queue retries or the  *)
(* faults repeat, its users see what the ledger allows.                    *)
(***************************************************************************)
THEOREM Refinement == Spec => ImplementsLedger
<1>1. IInv /\ [Next]_vars => [Ledger!Next]_(Ledger!vars)
  BY LedgerStep
<1>2. QED
  BY <1>1, LedgerInit, Invariant, PTL DEF Spec, ImplementsLedger, Ledger!Spec

============================================================================
