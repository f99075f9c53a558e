------------------------- MODULE EmailDeliveryProofs -------------------------
(***************************************************************************)
(* What EmailDelivery guarantees for every set of Emails and handlers and  *)
(* every bound.                                                            *)
(***************************************************************************)
EXTENDS EmailDelivery, TLAPS

USE DEF Versions

(***************************************************************************)
(* Facts about versions and the log.                                       *)
(***************************************************************************)
LEMMA AbsentIsVersion == Absent \in Version
  BY DEF Absent, Version, Texts

(* Publishing v keeps what was published and ends with v.                  *)
LEMMA PublishFacts ==
    ASSUME NEW l \in Seq(Version), NEW v \in Version
    PROVE  /\ Publish(l, v) \in Seq(Version)
           /\ Publish(l, v) # << >>
           /\ Publish(l, v)[Len(Publish(l, v))] = v
           /\ Len(Publish(l, v)) \in {Len(l), Len(l) + 1}
           /\ \A i \in DOMAIN l : i \in DOMAIN Publish(l, v) /\ Publish(l, v)[i] = l[i]
           /\ \A i \in DOMAIN Publish(l, v) :
                i \in DOMAIN l \/ (i = Len(l) + 1 /\ Publish(l, v)[i] = v)
  BY DEF Publish

(* A reader at any position within the log finds a version.                *)
LEMMA AtType ==
    ASSUME log \in [Emails -> Seq(Version)], NEW e \in Emails,
           NEW i \in 0..Len(log[e])
    PROVE  At(e, i) \in Version
  BY AbsentIsVersion DEF At, VersionAt

LEMMA AtVersion ==
    ASSUME log \in [Emails -> Seq(Version)], NEW e \in Emails,
           NEW i \in DOMAIN log[e]
    PROVE  At(e, i) = log[e][i] /\ At(e, i) \in Version
  BY DEF At, VersionAt

(***************************************************************************)
(* Every write to the API server, whoever makes it.                        *)
(***************************************************************************)
Stores(e, v) == log' = [log EXCEPT ![e] = Publish(@, v)]

Created(e) ==
    /\ Stores(e, [Absent EXCEPT !.uid = lastUid + 1])
    /\ lastUid' = lastUid + 1
Deleted(e) == Stores(e, Absent) /\ UNCHANGED lastUid
CtrlWrites ==
    /\ worker.step \in {"record", "fail"}
    /\ Fresh(log[worker.email], worker.read)
    /\ Stores(worker.email, StatusToWrite)
    /\ UNCHANGED lastUid
HookWrites(h) ==
    /\ handler[h].step = "update"
    /\ Fresh(log[handler[h].email], handler[h].read)
    /\ Stores(handler[h].email, [Subject(h) EXCEPT !.delivered = handler[h].type])
    /\ UNCHANGED lastUid

LogWritten ==
    \/ UNCHANGED <<log, lastUid>>
    \/ \E e \in Emails : Created(e) \/ Deleted(e)
    \/ CtrlWrites
    \/ \E h \in Handlers : HookWrites(h)

LEMMA EveryWrite == [Next]_vars => LogWritten
<1> SUFFICES ASSUME [Next]_vars PROVE LogWritten
  OBVIOUS
<1>1. CASE WorldNext
  BY <1>1 DEF WorldNext, CreateEmail, DeleteEmail, LogWritten,
              Created, Deleted, Stores
<1>2. CASE CtrlNext
  <2>1. CASE InformerNext \/ QueueNext
    BY <2>1 DEF InformerNext, QueueNext, Observe, TimerFires, worldVars, LogWritten
  <2>2. CASE ReconcileNext
    BY <2>2 DEF ReconcileNext, StartReconcile, SendAccepted, RecordSent,
                RecordFailure, StatusUpdateFails, UpdateEmailStatus, worldVars,
                LogWritten, CtrlWrites, Stores
  <2>3. CASE CtrlDisturbed
    BY <2>3 DEF CtrlDisturbed, Resync, LookupFails, SendFails, RestartManager,
                LogWritten
  <2>4. QED
    BY <1>2, <2>1, <2>2, <2>3 DEF CtrlNext
<1>3. CASE HookNext
  BY <1>3 DEF HookNext, Receive, ListFails, UpdateDelivered, UpdateFails,
              CreateEvent, CreateEventFails, RestartWebhookServer, StoreDelivered,
              worldVars, LogWritten, HookWrites, Stores
<1>4. CASE UNCHANGED vars
  BY <1>4 DEF vars, worldVars, LogWritten
<1>5. QED
  BY <1>1, <1>2, <1>3, <1>4 DEF Next

(* What is written is a version.                                           *)
LEMMA WrittenType ==
    ASSUME TypeOK, PositionsOK
    PROVE  /\ [Absent EXCEPT !.uid = lastUid + 1] \in Version
           /\ worker # Idle => Sending \in Version
           /\ worker.step \in {"record", "fail"} => StatusToWrite \in Version
           /\ \A h \in Handlers : handler[h].step = "update" =>
                /\ Subject(h) \in Version
                /\ [Subject(h) EXCEPT !.delivered = handler[h].type] \in Version
<1>1. [Absent EXCEPT !.uid = lastUid + 1] \in Version
  BY DEF Absent, Version, Texts, TypeOK
<1>2. ASSUME worker # Idle PROVE Sending \in Version
  BY <1>2, AtVersion DEF TypeOK, PositionsOK, WorkerStates, Sending
<1>3. ASSUME worker.step \in {"record", "fail"} PROVE StatusToWrite \in Version
  <2>1. worker # Idle /\ Sending \in Version
    BY <1>2, <1>3 DEF Idle
  <2>2. CASE worker.step = "record"
    <3>1. worker.id \in Nat
      BY <2>2 DEF TypeOK, WorkerStates, Idle
    <3>2. QED
      BY <2>1, <2>2, <3>1 DEF StatusToWrite, Version, Texts
  <2>3. CASE worker.step = "fail"
    <3>1. worker.text \in Failures
      BY <2>3 DEF TypeOK, WorkerStates, Idle
    <3>2. QED
      BY <2>1, <2>3, <3>1 DEF StatusToWrite, Version, Texts
  <2>4. QED
    BY <1>3, <2>2, <2>3
<1>4. ASSUME NEW h \in Handlers, handler[h].step = "update"
      PROVE  /\ Subject(h) \in Version
             /\ [Subject(h) EXCEPT !.delivered = handler[h].type] \in Version
  <2>1. handler[h].email \in Emails /\ handler[h].type \in AllowedEvents
    BY <1>4 DEF TypeOK, HandlerStates
  <2>2. Subject(h) \in Version
    BY <1>4, <2>1, AtVersion DEF TypeOK, PositionsOK, Subject
  <2>3. QED
    BY <2>1, <2>2 DEF Version, Texts
<1>5. QED
  BY <1>1, <1>2, <1>3, <1>4

(* Storing at e leaves the other logs alone.                               *)
LEMMA StoreFacts ==
    ASSUME log \in [Emails -> Seq(Version)],
           NEW e \in Emails, NEW v \in Version, Stores(e, v)
    PROVE  /\ log' \in [Emails -> Seq(Version)]
           /\ \A f \in Emails : f # e => log'[f] = log[f]
           /\ log'[e] = Publish(log[e], v)
  BY PublishFacts DEF Stores

(* The log only grows, and a new version is one that was written.          *)
LogGrows ==
    /\ log' \in [Emails -> Seq(Version)]
    /\ \A e \in Emails :
        /\ Len(log[e]) <= Len(log'[e])
        /\ \A i \in DOMAIN log[e] : i \in DOMAIN log'[e] /\ log'[e][i] = log[e][i]

LEMMA LogStep ==
    ASSUME TypeOK, PositionsOK, [Next]_vars
    PROVE  LogGrows
<1>1. ASSUME NEW e \in Emails, NEW v \in Version, Stores(e, v)
      PROVE  LogGrows
  <2>1. log \in [Emails -> Seq(Version)] /\ log[e] \in Seq(Version)
    BY DEF TypeOK
  <2>2. /\ log' \in [Emails -> Seq(Version)]
        /\ \A f \in Emails : f # e => log'[f] = log[f]
        /\ log'[e] = Publish(log[e], v)
    BY <1>1, <2>1, StoreFacts
  <2>3. /\ Len(log[e]) <= Len(log'[e])
        /\ \A i \in DOMAIN log[e] : i \in DOMAIN log'[e] /\ log'[e][i] = log[e][i]
    <3>1. /\ Len(Publish(log[e], v)) \in {Len(log[e]), Len(log[e]) + 1}
          /\ \A i \in DOMAIN log[e] :
               i \in DOMAIN Publish(log[e], v) /\ Publish(log[e], v)[i] = log[e][i]
      BY <2>1, PublishFacts
    <3>2. Len(log[e]) \in Nat
      BY <2>1
    <3>3. QED
      BY <2>2, <3>1, <3>2
  <2>4. \A f \in Emails : Len(log[f]) \in Nat
    BY <2>1
  <2>5. QED
    BY <2>2, <2>3, <2>4 DEF LogGrows
<1>2. CASE UNCHANGED <<log, lastUid>>
  BY <1>2 DEF LogGrows, TypeOK
<1>3. CASE \E e \in Emails : Created(e) \/ Deleted(e)
  BY <1>1, <1>3, WrittenType, AbsentIsVersion DEF Created, Deleted
<1>4. CASE CtrlWrites
  <2>1. worker.email \in Emails
    BY <1>4 DEF CtrlWrites, TypeOK, WorkerStates, Idle
  <2>2. QED
    BY <1>1, <1>4, <2>1, WrittenType DEF CtrlWrites
<1>5. CASE \E h \in Handlers : HookWrites(h)
  <2>1. PICK h \in Handlers : HookWrites(h)
    BY <1>5
  <2>2. handler[h].email \in Emails
    BY <2>1 DEF HookWrites, TypeOK, HandlerStates
  <2>3. QED
    BY <1>1, <2>1, <2>2, WrittenType DEF HookWrites
<1>6. QED
  BY <1>2, <1>3, <1>4, <1>5, EveryWrite DEF LogWritten

(***************************************************************************)
(* Every message Resend accepts.                                           *)
(***************************************************************************)
LEMMA AcceptFacts ==
    ASSUME messages \in Seq(Message), NEW e \in Emails, NEW uid \in Nat,
           NEW id \in AcceptedIds, Accept(e, uid, id)
    PROVE  /\ messages' \in Seq(Message)
           /\ \A n \in DOMAIN messages : n \in DOMAIN messages' /\ messages'[n] = messages[n]
           /\ \A n \in DOMAIN messages' : n \in DOMAIN messages
                \/ /\ n = Len(messages) + 1
                   /\ messages'[n].email = e
                   /\ messages'[n].uid = uid
           /\ id \in DOMAIN messages'
           /\ messages'[id].uid = uid
<1>1. CASE messages' = Append(messages, [email |-> e, uid |-> uid])
           /\ id = Len(messages) + 1
  <2>1. [email |-> e, uid |-> uid] \in Message
    BY DEF Message
  <2>2. QED
    BY <1>1, <2>1
<1>2. CASE UNCHANGED messages /\ id \in MessagesOf(uid)
  BY <1>2 DEF MessagesOf
<1>3. QED
  BY <1>1, <1>2 DEF Accept

SendsAs(id) == Accept(worker.email, Sending.uid, id)

Sends ==
    /\ worker.step = "send"
    /\ \E id \in AcceptedIds : SendsAs(id)
    /\ UNCHANGED log

LEMMA EverySend == [Next]_vars => UNCHANGED messages \/ Sends
<1> SUFFICES ASSUME [Next]_vars PROVE UNCHANGED messages \/ Sends
  OBVIOUS
<1>1. CASE WorldNext
  BY <1>1 DEF WorldNext, CreateEmail, DeleteEmail
<1>2. CASE CtrlNext
  <2>1. CASE InformerNext \/ QueueNext
    BY <2>1 DEF InformerNext, QueueNext, Observe, TimerFires, worldVars
  <2>2. CASE ReconcileNext
    BY <2>2 DEF ReconcileNext, StartReconcile, SendAccepted, RecordSent,
                RecordFailure, StatusUpdateFails, worldVars, Sends, SendsAs
  <2>3. CASE CtrlDisturbed
    BY <2>3 DEF CtrlDisturbed, Resync, LookupFails, SendFails, RestartManager,
                Sends, SendsAs
  <2>4. QED
    BY <1>2, <2>1, <2>2, <2>3 DEF CtrlNext
<1>3. CASE HookNext
  BY <1>3 DEF HookNext, Receive, ListFails, UpdateDelivered, UpdateFails,
              CreateEvent, CreateEventFails, RestartWebhookServer, worldVars
<1>4. CASE UNCHANGED vars
  BY <1>4 DEF vars, worldVars
<1>5. QED
  BY <1>1, <1>2, <1>3, <1>4 DEF Next

(* Messages are never forgotten or changed, and are well formed.           *)
MessagesGrow ==
    /\ messages' \in Seq(Message)
    /\ \A n \in DOMAIN messages : n \in DOMAIN messages' /\ messages'[n] = messages[n]

LEMMA SendingType ==
    ASSUME TypeOK, PositionsOK, worker # Idle
    PROVE  /\ worker.email \in Emails
           /\ Sending \in Version
           /\ Sending = log[worker.email][worker.read]
           /\ Sending.uid \in Nat
<1>1. worker.email \in Emails /\ worker.read \in Versions(worker.email)
  BY DEF TypeOK, PositionsOK, WorkerStates
<1>2. Sending \in Version /\ Sending = log[worker.email][worker.read]
  BY <1>1, AtVersion DEF TypeOK, Sending
<1>3. QED
  BY <1>1, <1>2 DEF Version

LEMMA MessageStep ==
    ASSUME TypeOK, PositionsOK, [Next]_vars
    PROVE  MessagesGrow
<1>1. CASE UNCHANGED messages
  BY <1>1 DEF TypeOK, MessagesGrow
<1>2. CASE Sends
  <2>1. worker # Idle
    BY <1>2 DEF Sends, Idle
  <2>2. PICK id \in AcceptedIds : Accept(worker.email, Sending.uid, id)
    BY <1>2 DEF Sends, SendsAs
  <2>3. QED
    BY <2>1, <2>2, SendingType, AcceptFacts DEF TypeOK, MessagesGrow
<1>3. QED
  BY <1>1, <1>2, EverySend

(***************************************************************************)
(* Types.                                                                  *)
(***************************************************************************)
LEMMA WorldTypes ==
    ASSUME TypeOK, PositionsOK, [Next]_vars
    PROVE  /\ lastUid' \in Nat
           /\ spare' \in Nat
           /\ events' \subseteq (DOMAIN messages') \X AllowedEvents
<1>0. DOMAIN messages \subseteq DOMAIN messages'
  BY MessageStep DEF MessagesGrow
<1>1. lastUid' \in Nat
  <2>1. lastUid' = lastUid \/ lastUid' = lastUid + 1
    BY EveryWrite DEF LogWritten, Created, Deleted, CtrlWrites, HookWrites
  <2>2. QED
    BY <2>1 DEF TypeOK
<1>2. CASE UNCHANGED events /\ (Disturb \/ UNCHANGED spare)
  BY <1>0, <1>1, <1>2 DEF TypeOK, Disturb
<1>3. CASE WorldNext
  BY <1>0, <1>1, <1>2, <1>3 DEF WorldNext, CreateEmail, DeleteEmail, Disturb, TypeOK
<1>4. CASE CtrlNext
  <2>1. CASE InformerNext \/ QueueNext
    BY <1>2, <2>1 DEF InformerNext, QueueNext, Observe, TimerFires, worldVars
  <2>2. CASE ReconcileNext
    BY <1>2, <2>2 DEF ReconcileNext, StartReconcile, SendAccepted, RecordSent,
                RecordFailure, StatusUpdateFails, worldVars
  <2>3. CASE CtrlDisturbed
    BY <1>2, <2>3 DEF CtrlDisturbed, Resync, LookupFails, SendFails, RestartManager
  <2>4. QED
    BY <1>4, <2>1, <2>2, <2>3 DEF CtrlNext
<1>5. CASE HookNext
  <2>1. CASE \E h \in Handlers, n \in DOMAIN messages, type \in ReportedEvents :
                Receive(h, n, type) \/ ListFails(h, n, type)
    <3>1. PICK h \in Handlers, n \in DOMAIN messages, type \in ReportedEvents :
                Receive(h, n, type) \/ ListFails(h, n, type)
      BY <2>1
    <3>2. <<n, type>> \in (DOMAIN messages') \X AllowedEvents
      BY <1>0, ReportedAreAllowed
    <3>3. events' = events \cup {<<n, type>>}
      BY <3>1 DEF Receive, ListFails, Called
    <3>4. spare' \in Nat
      BY <3>1 DEF Receive, ListFails, Disturb, TypeOK
    <3>5. QED
      BY <1>0, <1>1, <3>2, <3>3, <3>4 DEF TypeOK
  <2>2. CASE \E h \in Handlers : \/ UpdateDelivered(h) \/ UpdateFails(h)
                                 \/ CreateEvent(h) \/ CreateEventFails(h)
    BY <1>2, <2>2 DEF UpdateDelivered, UpdateFails, CreateEvent, CreateEventFails, worldVars
  <2>3. CASE RestartWebhookServer
    BY <1>2, <2>3 DEF RestartWebhookServer
  <2>4. QED
    BY <1>5, <2>1, <2>2, <2>3 DEF HookNext
<1>6. CASE UNCHANGED vars
  BY <1>2, <1>6 DEF vars, worldVars
<1>7. QED
  BY <1>3, <1>4, <1>5, <1>6 DEF Next

CtrlOK ==
    /\ ctrlAt \in [Emails -> Nat]
    /\ queue \subseteq Emails
    /\ timer \in [Emails -> Timers]
    /\ worker \in WorkerStates
    /\ \A e \in Emails : ctrlAt[e] <= Len(log[e])
    /\ worker # Idle => worker.read \in Versions(worker.email)

(* A timer that is set or cleared is still a timer.                        *)
LEMMA TimerType ==
    ASSUME timer \in [Emails -> Timers], NEW e \in Emails,
           NEW why \in {"backoff", "retry"}
    PROVE  /\ AddAfter(e, why) => timer' \in [Emails -> Timers]
           /\ timer' = [timer EXCEPT ![e] = "none"] => timer' \in [Emails -> Timers]
  BY DEF AddAfter, Timers

LEMMA CtrlTypes ==
    ASSUME TypeOK, PositionsOK, [Next]_vars
    PROVE  CtrlOK'
<1>1. /\ \A e \in Emails : Len(log[e]) \in Nat /\ Len(log'[e]) \in Nat
      /\ \A e \in Emails : Len(log[e]) <= Len(log'[e])
      /\ \A e \in Emails : DOMAIN log[e] \subseteq DOMAIN log'[e]
  BY LogStep DEF LogGrows, TypeOK
<1>2. \A e \in Emails : ctrlAt[e] <= Len(log'[e])
  BY <1>1 DEF TypeOK, PositionsOK
<1>3. worker # Idle => worker.email \in Emails /\ worker.read \in DOMAIN log'[worker.email]
  <2>1. worker # Idle => worker.email \in Emails
    BY DEF TypeOK, WorkerStates
  <2>2. worker # Idle => worker.read \in Versions(worker.email)
    BY DEF PositionsOK
  <2>3. QED
    BY <1>1, <2>1, <2>2
<1>4. Idle \in WorkerStates
  BY DEF WorkerStates
<1>5. CASE UNCHANGED ctrlVars
  BY <1>2, <1>3, <1>5 DEF ctrlVars, CtrlOK, TypeOK
<1>6. CASE CtrlNext
  <2>1. ASSUME NEW e \in Emails, Observe(e) PROVE CtrlOK'
    <3>1. ctrlAt' \in [Emails -> Nat] /\ \A f \in Emails : ctrlAt'[f] <= Len(log'[f])
      BY <2>1, <1>1, <1>2 DEF Observe, worldVars, TypeOK
    <3>2. QED
      BY <2>1, <3>1, <1>3 DEF Observe, CtrlOK, TypeOK
  <2>2. ASSUME NEW e \in Emails, TimerFires(e) PROVE CtrlOK'
    BY <2>2, <1>2, <1>3, TimerType DEF TimerFires, CtrlOK, TypeOK
  <2>3. ASSUME NEW e \in Emails, StartReconcile(e) PROVE CtrlOK'
    <3>1. CASE worker' = Idle
      BY <2>3, <3>1, <1>2, <1>4 DEF StartReconcile, Take, CtrlOK, TypeOK
    <3>2. CASE worker' = [step |-> "send", email |-> e, read |-> ctrlAt[e]]
               /\ Exists(Cached(e))
      <4>1. ctrlAt[e] # 0
        BY <3>2 DEF Exists, Cached, At, VersionAt, Absent
      <4>2. ctrlAt[e] \in Versions(e)'
        BY <4>1, <1>1, <1>2, LogStep DEF LogGrows, TypeOK
      <4>3. worker' \in WorkerStates
        BY <3>2 DEF WorkerStates, TypeOK
      <4>4. worker'.email = e /\ worker'.read = ctrlAt[e]
        BY <3>2
      <4>5. QED
        BY <2>3, <1>2, <4>2, <4>3, <4>4 DEF StartReconcile, Take, CtrlOK, TypeOK
    <3>3. QED
      BY <2>3, <3>1, <3>2 DEF StartReconcile
  <2>4. CASE SendAccepted
    <3>1. worker # Idle
      BY <2>4 DEF SendAccepted, Idle
    <3>2. PICK id \in AcceptedIds :
              worker' = [step |-> "record", email |-> worker.email,
                         read |-> worker.read, id |-> id]
      BY <2>4 DEF SendAccepted
    <3>3. id \in Nat
      BY DEF AcceptedIds, TypeOK
    <3>4. worker.read \in Nat
      BY <3>1 DEF TypeOK, WorkerStates
    <3>5. worker' \in WorkerStates
      BY <1>3, <3>1, <3>2, <3>3, <3>4 DEF WorkerStates
    <3>6. worker'.email = worker.email /\ worker'.read = worker.read
      BY <3>2
    <3>7. QED
      BY <2>4, <1>2, <1>3, <3>1, <3>5, <3>6 DEF SendAccepted, CtrlOK, TypeOK
  <2>5. ASSUME NEW text \in Failures, NEW accepted \in BOOLEAN, SendFails(text, accepted)
        PROVE CtrlOK'
    <3>1. worker # Idle
      BY <2>5 DEF SendFails, Idle
    <3>2. worker' = [step |-> "fail", email |-> worker.email,
                     read |-> worker.read, text |-> text]
      BY <2>5 DEF SendFails
    <3>3. worker.read \in Nat
      BY <3>1 DEF TypeOK, WorkerStates
    <3>4. worker' \in WorkerStates
      BY <1>3, <3>1, <3>2, <3>3 DEF WorkerStates
    <3>5. worker'.email = worker.email /\ worker'.read = worker.read
      BY <3>2
    <3>6. QED
      BY <2>5, <1>2, <1>3, <3>1, <3>4, <3>5 DEF SendFails, CtrlOK, TypeOK
  <2>6. CASE RecordSent
    BY <2>6, <1>2, <1>4 DEF RecordSent, CtrlOK, TypeOK
  <2>7. CASE RecordFailure
    <3>1. worker.email \in Emails
      BY <1>3, <2>7 DEF RecordFailure, Idle
    <3>2. timer' \in [Emails -> Timers]
      BY <2>7, <3>1, TimerType DEF RecordFailure, RequeueAfter, TypeOK
    <3>3. QED
      BY <2>7, <3>2, <1>2, <1>4 DEF RecordFailure, CtrlOK, TypeOK
  <2>8. CASE StatusUpdateFails
    <3>1. worker.email \in Emails
      BY <1>3, <2>8 DEF StatusUpdateFails, Idle
    <3>2. timer' \in [Emails -> Timers]
      BY <2>8, <3>1, TimerType DEF StatusUpdateFails, TypeOK
    <3>3. QED
      BY <2>8, <3>2, <1>2, <1>4 DEF StatusUpdateFails, CtrlOK, TypeOK
  <2>9. ASSUME NEW e \in Emails, Resync(e) \/ LookupFails(e) PROVE CtrlOK'
    <3>1. timer' \in [Emails -> Timers]
      BY <2>9, TimerType DEF Resync, LookupFails, TypeOK
    <3>2. QED
      BY <2>9, <3>1, <1>2, <1>3 DEF Resync, LookupFails, Take, CtrlOK, TypeOK
  <2>10. CASE RestartManager
    <3>1. PICK at \in [Emails -> UNION {0..Len(log[e]) : e \in Emails}] :
            /\ \A e \in Emails : at[e] <= Len(log[e])
            /\ ctrlAt' = at
            /\ queue' = {e \in Emails : Exists(At(e, at[e]))}
      BY <2>10 DEF RestartManager
    <3>2. ctrlAt' \in [Emails -> Nat] /\ \A e \in Emails : ctrlAt'[e] <= Len(log'[e])
      BY <2>10, <3>1, <1>1 DEF RestartManager
    <3>3. timer' \in [Emails -> Timers]
      BY <2>10 DEF RestartManager, Timers
    <3>4. QED
      BY <2>10, <3>1, <3>2, <3>3, <1>4 DEF RestartManager, CtrlOK
  <2>11. QED
    BY <1>6, <2>1, <2>2, <2>3, <2>4, <2>5, <2>6, <2>7, <2>8, <2>9, <2>10
       DEF CtrlNext, InformerNext, QueueNext, ReconcileNext, CtrlDisturbed
<1>7. QED
  BY <1>5, <1>6 DEF Next, vars

HookOK ==
    /\ hookAt \in [Emails -> Nat]
    /\ handler \in [Handlers -> HandlerStates]
    /\ announced \subseteq Announcement
    /\ deliveries \in Nat
    /\ \A e \in Emails : hookAt[e] <= Len(log[e])
    /\ \A h \in Handlers : handler[h].step = "update" =>
            handler[h].read \in Versions(handler[h].email)

LEMMA AnsweredType ==
    \A code \in Answers : Answered(code) \in HandlerStates /\ Answered(code).step = "free"
  BY DEF Answered, HandlerStates

(* The other handlers' requests stay as good as they were.                 *)
LEMMA HandlerReplaced ==
    ASSUME TypeOK, PositionsOK, LogGrows, NEW h \in Handlers, NEW s \in HandlerStates,
           handler' = [handler EXCEPT ![h] = s],
           s.step = "update" => s.read \in DOMAIN log'[s.email]
    PROVE  /\ handler' \in [Handlers -> HandlerStates]
           /\ \A k \in Handlers : handler'[k].step = "update" =>
                handler'[k].read \in DOMAIN log'[handler'[k].email]
<1>1. handler' \in [Handlers -> HandlerStates]
  BY DEF TypeOK
<1>2. ASSUME NEW k \in Handlers, handler'[k].step = "update"
      PROVE  handler'[k].read \in DOMAIN log'[handler'[k].email]
  <2>1. CASE k = h
    BY <1>2, <2>1 DEF TypeOK
  <2>2. CASE k # h
    <3>1. handler'[k] = handler[k] /\ handler[k].email \in Emails
      BY <1>2, <2>2 DEF TypeOK, HandlerStates
    <3>2. handler[k].read \in DOMAIN log[handler[k].email]
      BY <1>2, <3>1 DEF PositionsOK
    <3>3. QED
      BY <3>1, <3>2 DEF LogGrows
  <2>3. QED
    BY <2>1, <2>2
<1>3. QED
  BY <1>1, <1>2

LEMMA HookTypes ==
    ASSUME TypeOK, PositionsOK, [Next]_vars
    PROVE  HookOK'
<1>1. /\ LogGrows
      /\ \A e \in Emails : Len(log[e]) \in Nat /\ Len(log'[e]) \in Nat
      /\ \A e \in Emails : Len(log[e]) <= Len(log'[e])
      /\ \A e \in Emails : DOMAIN log[e] \subseteq DOMAIN log'[e]
  BY LogStep DEF LogGrows, TypeOK
<1>2. \A e \in Emails : hookAt[e] <= Len(log'[e])
  BY <1>1 DEF TypeOK, PositionsOK
<1>3. ASSUME NEW h \in Handlers, handler[h].step = "update"
      PROVE  handler[h].email \in Emails /\ handler[h].read \in DOMAIN log'[handler[h].email]
  <2>1. handler[h].email \in Emails
    BY <1>3 DEF TypeOK, HandlerStates
  <2>2. handler[h].read \in DOMAIN log[handler[h].email]
    BY <1>3 DEF PositionsOK
  <2>3. QED
    BY <1>1, <2>1, <2>2
<1>4. CASE UNCHANGED hookVars
  BY <1>2, <1>3, <1>4 DEF hookVars, HookOK, TypeOK
<1>5. ASSUME NEW h \in Handlers, NEW code \in Answers,
             handler' = [handler EXCEPT ![h] = Answered(code)],
             UNCHANGED hookAt, announced' \subseteq Announcement, deliveries' \in Nat
      PROVE  HookOK'
  <2>1. /\ handler' \in [Handlers -> HandlerStates]
        /\ \A k \in Handlers : handler'[k].step = "update" =>
             handler'[k].read \in DOMAIN log'[handler'[k].email]
    BY <1>1, <1>5, AnsweredType, HandlerReplaced
  <2>2. QED
    BY <1>2, <1>5, <2>1 DEF HookOK, TypeOK
<1>6. 200 \in Answers /\ 404 \in Answers /\ 500 \in Answers
  BY DEF Answers
<1>7. CASE HookNext
  <2>1. ASSUME NEW h \in Handlers, NEW n \in DOMAIN messages, NEW type \in ReportedEvents,
               Receive(h, n, type)
        PROVE HookOK'
    <3>1. PICK at \in Positions :
            /\ CacheMoves(at)
            /\ hookAt' = at
            /\ \/ handler' = [handler EXCEPT ![h] = Answered(404)]
               \/ \E e \in EmailsWithProviderID(at, n) :
                    handler' = [handler EXCEPT ![h] =
                        [step |-> "update", email |-> e, read |-> at[e],
                         msg |-> n, type |-> type]]
      BY <2>1 DEF Receive
    <3>2. deliveries' \in Nat
      BY <2>1 DEF Receive, Called, TypeOK
    <3>3. announced' = announced /\ UNCHANGED log
      BY <2>1 DEF Receive
    <3>4. \A e \in Emails : at[e] \in Nat /\ at[e] <= Len(log[e])
      BY <3>1, <1>1 DEF CacheMoves, TypeOK
    <3>5. hookAt' \in [Emails -> Nat]
      BY <3>1, <3>4 DEF Positions
    <3>6. n \in Nat /\ type \in AllowedEvents
      BY ReportedAreAllowed DEF TypeOK
    <3>7. /\ handler' \in [Handlers -> HandlerStates]
          /\ \A k \in Handlers : handler'[k].step = "update" =>
               handler'[k].read \in DOMAIN log'[handler'[k].email]
      <4>1. CASE handler' = [handler EXCEPT ![h] = Answered(404)]
        <5>1. Answered(404) \in HandlerStates /\ Answered(404).step # "update"
          BY <1>6, AnsweredType
        <5>2. QED
          BY <4>1, <5>1, <1>1, HandlerReplaced
      <4>2. ASSUME NEW e \in EmailsWithProviderID(at, n),
                   handler' = [handler EXCEPT ![h] =
                        [step |-> "update", email |-> e, read |-> at[e],
                         msg |-> n, type |-> type]]
            PROVE /\ handler' \in [Handlers -> HandlerStates]
                  /\ \A k \in Handlers : handler'[k].step = "update" =>
                       handler'[k].read \in DOMAIN log'[handler'[k].email]
        <5> DEFINE s == [step |-> "update", email |-> e, read |-> at[e],
                         msg |-> n, type |-> type]
        <5>1. e \in Emails /\ At(e, at[e]).providerID = n
          BY DEF EmailsWithProviderID
        <5>2. at[e] # 0
          <6>1. n # 0
            BY DEF TypeOK
          <6>2. QED
            BY <5>1, <6>1 DEF At, VersionAt, Absent
        <5>3. at[e] \in DOMAIN log[e]
          BY <5>1, <5>2, <3>4 DEF TypeOK
        <5>4. s \in HandlerStates
          BY <5>1, <3>4, <3>6 DEF HandlerStates
        <5>5. s.step = "update" => s.read \in DOMAIN log'[s.email]
          BY <5>1, <5>3, <1>1
        <5>6. handler' = [handler EXCEPT ![h] = s]
          BY <4>2
        <5> HIDE DEF s
        <5>7. QED
          BY <5>4, <5>5, <5>6, <1>1, HandlerReplaced
      <4>3. QED
        BY <3>1, <4>1, <4>2
    <3>8. \A e \in Emails : hookAt'[e] <= Len(log'[e])
      BY <3>1, <3>3, <3>4
    <3>9. QED
      BY <3>2, <3>3, <3>5, <3>7, <3>8 DEF HookOK, TypeOK
  <2>2. ASSUME NEW h \in Handlers, NEW n \in DOMAIN messages, NEW type \in ReportedEvents,
               ListFails(h, n, type)
        PROVE HookOK'
    <3>1. deliveries' \in Nat
      BY <2>2 DEF ListFails, Called, TypeOK
    <3>2. QED
      BY <2>2, <3>1, <1>5, <1>6 DEF ListFails, TypeOK
  <2>3. ASSUME NEW h \in Handlers, UpdateDelivered(h) PROVE HookOK'
    <3> DEFINE s == [step |-> "announce", uid |-> Subject(h).uid,
                     msg |-> handler[h].msg, type |-> handler[h].type]
    <3>1. Subject(h) \in Version
      BY <2>3, WrittenType DEF UpdateDelivered
    <3>2. handler[h].msg \in Nat /\ handler[h].type \in AllowedEvents
      BY <2>3 DEF UpdateDelivered, TypeOK, HandlerStates
    <3>3. s \in HandlerStates /\ s.step # "update"
      BY <3>1, <3>2 DEF HandlerStates, Version
    <3>4. handler' = [handler EXCEPT ![h] = s]
      BY <2>3 DEF UpdateDelivered
    <3> HIDE DEF s
    <3>5. /\ handler' \in [Handlers -> HandlerStates]
          /\ \A k \in Handlers : handler'[k].step = "update" =>
               handler'[k].read \in DOMAIN log'[handler'[k].email]
      BY <3>3, <3>4, <1>1, HandlerReplaced
    <3>6. UNCHANGED <<hookAt, announced, deliveries>>
      BY <2>3 DEF UpdateDelivered
    <3>7. QED
      BY <3>5, <3>6, <1>2 DEF HookOK, TypeOK
  <2>4. ASSUME NEW h \in Handlers, UpdateFails(h) PROVE HookOK'
    BY <2>4, <1>5, <1>6 DEF UpdateFails, TypeOK
  <2>5. ASSUME NEW h \in Handlers, CreateEvent(h) \/ CreateEventFails(h) PROVE HookOK'
    <3>1. handler[h] \in [step : {"announce"}, uid : Nat, msg : Nat, type : AllowedEvents]
      BY <2>5 DEF CreateEvent, CreateEventFails, TypeOK, HandlerStates
    <3>2. EventOf(h) \in Announcement
      BY <3>1 DEF EventOf, Announcement
    <3>3. announced' \subseteq Announcement /\ UNCHANGED <<hookAt, deliveries>>
      BY <2>5, <3>2 DEF CreateEvent, CreateEventFails, TypeOK
    <3>4. \/ handler' = [handler EXCEPT ![h] = Answered(200)]
          \/ handler' = [handler EXCEPT ![h] = Answered(500)]
      BY <2>5 DEF CreateEvent, CreateEventFails
    <3>5. deliveries' \in Nat
      BY <3>3 DEF TypeOK
    <3>6. QED
      BY <3>3, <3>4, <3>5, <1>5, <1>6
  <2>6. CASE RestartWebhookServer
    <3>1. PICK at \in Positions : CacheRelists(at) /\ hookAt' = at
      BY <2>6 DEF RestartWebhookServer
    <3>2. \A e \in Emails : at[e] \in Nat /\ at[e] <= Len(log[e])
      BY <3>1, <1>1 DEF CacheRelists
    <3>3. hookAt' \in [Emails -> Nat] /\ \A e \in Emails : hookAt'[e] <= Len(log'[e])
      BY <2>6, <3>1, <3>2 DEF RestartWebhookServer, Positions
    <3>4. handler' \in [Handlers -> HandlerStates] /\ \A h \in Handlers : handler'[h].step = "free"
      BY <2>6, AnsweredType DEF RestartWebhookServer, Answers
    <3>5. QED
      BY <2>6, <3>3, <3>4 DEF RestartWebhookServer, HookOK, TypeOK
  <2>7. QED
    BY <1>7, <2>1, <2>2, <2>3, <2>4, <2>5, <2>6 DEF HookNext
<1>8. QED
  BY <1>4, <1>7 DEF Next, vars

LEMMA TypeStep ==
    TypeOK /\ PositionsOK /\ [Next]_vars => TypeOK' /\ PositionsOK'
<1> SUFFICES ASSUME TypeOK, PositionsOK, [Next]_vars
             PROVE  TypeOK' /\ PositionsOK'
  OBVIOUS
<1>1. CtrlOK' /\ HookOK'
  BY CtrlTypes, HookTypes
<1>2. log' \in [Emails -> Seq(Version)] /\ messages' \in Seq(Message)
  BY LogStep, MessageStep DEF LogGrows, MessagesGrow
<1>3. QED
  BY <1>1, <1>2, WorldTypes DEF CtrlOK, HookOK, TypeOK, PositionsOK

LEMMA TypeInit == Init => TypeOK /\ PositionsOK
<1> SUFFICES ASSUME Init PROVE TypeOK /\ PositionsOK
  OBVIOUS
<1>1. \A e \in Emails : log[e] = << >> /\ ctrlAt[e] = 0 /\ hookAt[e] = 0
  BY DEF Init, WorldInit, CtrlInit, HookInit
<1>2. Answered(0) \in HandlerStates /\ Answered(0).step = "free"
  BY AnsweredType DEF Answers
<1>3. PositionsOK
  BY <1>1, <1>2 DEF PositionsOK, Init, CtrlInit, HookInit
<1>4. QED
  BY <1>1, <1>2, <1>3, BoundsAreNats
     DEF Init, WorldInit, CtrlInit, HookInit, TypeOK, Timers, WorkerStates

(***************************************************************************)
(* Every variable keeps its type, whatever is lost, restarted or stale.    *)
(***************************************************************************)
THEOREM TypeCorrect == Spec => []TypeOK
<1>1. Spec => [](TypeOK /\ PositionsOK)
  BY TypeInit, TypeStep, PTL DEF Spec
<1>2. QED
  BY <1>1, PTL

(***************************************************************************)
(* What a version published by this step can be.                           *)
(***************************************************************************)
FreshEmail(v) ==
    /\ lastUid' = lastUid + 1
    /\ v.uid = lastUid + 1 /\ v.providerID = 0 /\ v.delivered = "none"

SentRecorded(e, v) ==
    /\ worker.step = "record" /\ worker.email = e /\ worker.read = Len(log[e])
    /\ v.uid = Sending.uid /\ v.providerID = worker.id /\ v.delivered = "pending"

FailureRecorded(e, v) ==
    /\ worker.step = "fail" /\ worker.email = e /\ worker.read = Len(log[e])
    /\ v.uid = Sending.uid /\ v.providerID = Sending.providerID
    /\ v.delivered \in Failures

ReportRecorded(h, e, v) ==
    /\ handler[h].step = "update" /\ handler[h].email = e
    /\ handler[h].read = Len(log[e])
    /\ v.uid = Subject(h).uid /\ v.providerID = Subject(h).providerID
    /\ v.delivered = handler[h].type

NewVersion(e, v) ==
    /\ v \in Version
    /\ \/ FreshEmail(v)
       \/ /\ lastUid' = lastUid
          /\ \/ v = Absent
             \/ SentRecorded(e, v)
             \/ FailureRecorded(e, v)
             \/ \E h \in Handlers : ReportRecorded(h, e, v)

LEMMA Published ==
    ASSUME TypeOK, PositionsOK, [Next]_vars,
           NEW e \in Emails, NEW i \in DOMAIN log'[e], i \notin DOMAIN log[e]
    PROVE  /\ i = Len(log[e]) + 1
           /\ \A f \in Emails : f # e => log'[f] = log[f]
           /\ NewVersion(e, log'[e][i])
<1>1. ASSUME NEW f \in Emails, NEW v \in Version, Stores(f, v)
      PROVE  /\ f = e
             /\ i = Len(log[e]) + 1
             /\ log'[e][i] = v
             /\ \A g \in Emails : g # e => log'[g] = log[g]
  <2>1. /\ \A g \in Emails : g # f => log'[g] = log[g]
        /\ log'[f] = Publish(log[f], v)
    BY <1>1, StoreFacts DEF TypeOK
  <2>2. f = e
    BY <2>1
  <2>3. log[e] \in Seq(Version)
    BY DEF TypeOK
  <2>4. i \in DOMAIN log[e] \/ (i = Len(log[e]) + 1 /\ Publish(log[e], v)[i] = v)
    <3>1. i \in DOMAIN Publish(log[e], v)
      BY <2>1, <2>2
    <3>2. \A j \in DOMAIN Publish(log[e], v) :
            j \in DOMAIN log[e] \/ (j = Len(log[e]) + 1 /\ Publish(log[e], v)[j] = v)
      BY <2>3, PublishFacts
    <3>3. QED
      BY <3>1, <3>2
  <2>5. QED
    BY <2>1, <2>2, <2>4
<1>2. CASE \E f \in Emails : Created(f)
  <2>1. PICK f \in Emails : Created(f)
    BY <1>2
  <2> DEFINE v == [Absent EXCEPT !.uid = lastUid + 1]
  <2>2. v \in Version
    BY WrittenType
  <2>3. v.uid = lastUid + 1 /\ v.providerID = 0 /\ v.delivered = "none"
    BY DEF Absent
  <2>4. Stores(f, v) /\ lastUid' = lastUid + 1
    BY <2>1 DEF Created
  <2> HIDE DEF v
  <2>5. QED
    BY <1>1, <2>2, <2>3, <2>4 DEF NewVersion, FreshEmail
<1>3. CASE \E f \in Emails : Deleted(f)
  BY <1>1, <1>3, AbsentIsVersion DEF Deleted, NewVersion
<1>4. CASE CtrlWrites
  <2>1. worker # Idle /\ worker.step \in {"record", "fail"}
    BY <1>4 DEF CtrlWrites, Idle
  <2>2. worker.email \in Emails /\ Sending \in Version /\ StatusToWrite \in Version
    BY <2>1, SendingType, WrittenType
  <2>3. Stores(worker.email, StatusToWrite) /\ lastUid' = lastUid
    BY <1>4 DEF CtrlWrites
  <2>4. worker.read = Len(log[worker.email])
    BY <1>4 DEF CtrlWrites, Fresh
  <2>5. worker.email = e /\ log'[e][i] = StatusToWrite
    BY <1>1, <2>2, <2>3
  <2>6. CASE worker.step = "record"
    <3>1. /\ StatusToWrite.uid = Sending.uid
          /\ StatusToWrite.providerID = worker.id
          /\ StatusToWrite.delivered = "pending"
      BY <2>2, <2>6 DEF StatusToWrite, Version
    <3>2. QED
      BY <1>1, <2>2, <2>3, <2>4, <2>5, <2>6, <3>1 DEF NewVersion, SentRecorded
  <2>7. CASE worker.step = "fail"
    <3>1. worker.text \in Failures
      BY <2>1, <2>7 DEF TypeOK, WorkerStates
    <3>2. /\ StatusToWrite.uid = Sending.uid
          /\ StatusToWrite.providerID = Sending.providerID
          /\ StatusToWrite.delivered = worker.text
      BY <2>2, <2>7 DEF StatusToWrite, Version
    <3>3. QED
      BY <1>1, <2>2, <2>3, <2>4, <2>5, <2>7, <3>1, <3>2 DEF NewVersion, FailureRecorded
  <2>8. QED
    BY <2>1, <2>6, <2>7
<1>5. CASE \E h \in Handlers : HookWrites(h)
  <2>1. PICK h \in Handlers : HookWrites(h)
    BY <1>5
  <2> DEFINE v == [Subject(h) EXCEPT !.delivered = handler[h].type]
  <2>2. handler[h].step = "update" /\ handler[h].email \in Emails
    BY <2>1 DEF HookWrites, TypeOK, HandlerStates
  <2>3. Subject(h) \in Version /\ v \in Version
    BY <2>2, WrittenType
  <2>4. /\ v.uid = Subject(h).uid
        /\ v.providerID = Subject(h).providerID
        /\ v.delivered = handler[h].type
    BY <2>3 DEF Version
  <2>5. /\ Stores(handler[h].email, v)
        /\ lastUid' = lastUid
        /\ handler[h].read = Len(log[handler[h].email])
    BY <2>1 DEF HookWrites, Fresh
  <2> HIDE DEF v
  <2>6. QED
    BY <1>1, <2>2, <2>3, <2>4, <2>5 DEF NewVersion, ReportRecorded
<1>6. CASE UNCHANGED <<log, lastUid>>
  BY <1>6
<1>7. QED
  BY <1>2, <1>3, <1>4, <1>5, <1>6, EveryWrite DEF LogWritten

(***************************************************************************)
(* The inductive invariant.                                                *)
(***************************************************************************)
LEMMA TextsDiffer ==
    /\ "none" \notin AllowedEvents /\ "pending" \notin AllowedEvents
    /\ \A text \in Failures : text \notin AllowedEvents
  BY FailuresAreTexts DEF AllowedEvents

(* What a handler read is an earlier version of a live, sent Email.        *)
LEMMA SubjectFacts ==
    ASSUME TypeOK, PositionsOK, Accounts, InProgress,
           NEW h \in Handlers, handler[h].step = "update"
    PROVE  /\ handler[h].email \in Emails
           /\ handler[h].read \in DOMAIN log[handler[h].email]
           /\ Subject(h) = log[handler[h].email][handler[h].read]
           /\ Subject(h) \in Version
           /\ Subject(h).providerID = handler[h].msg
           /\ Subject(h).providerID # 0
           /\ Subject(h).uid # 0
           /\ handler[h].type \in AllowedEvents
           /\ <<handler[h].msg, handler[h].type>> \in events
<1>1. handler[h].email \in Emails /\ handler[h].type \in AllowedEvents
  BY DEF TypeOK, HandlerStates
<1>2. handler[h].read \in DOMAIN log[handler[h].email]
  BY DEF PositionsOK
<1>3. Subject(h) = log[handler[h].email][handler[h].read] /\ Subject(h) \in Version
  BY <1>1, <1>2, AtVersion DEF TypeOK, Subject
<1>4. /\ Subject(h).providerID = handler[h].msg /\ handler[h].msg # 0
      /\ <<handler[h].msg, handler[h].type>> \in events
  BY DEF InProgress
<1>5. Subject(h).uid # 0
  BY <1>1, <1>2, <1>3, <1>4 DEF Accounts, Absent
<1>6. QED
  BY <1>1, <1>2, <1>3, <1>4, <1>5

(* What the worker read is an earlier version of a live, unsent Email.     *)
LEMMA SendingFacts ==
    ASSUME TypeOK, PositionsOK, InProgress, worker # Idle
    PROVE  /\ worker.email \in Emails
           /\ worker.read \in DOMAIN log[worker.email]
           /\ Sending = log[worker.email][worker.read]
           /\ Sending \in Version
           /\ Sending.uid # 0
           /\ Sending.providerID = 0
  BY SendingType DEF PositionsOK, InProgress, Exists

(* A step gives a version the uid of an earlier one, a new one, or none.   *)
LEMMA UidOrigin ==
    ASSUME TypeOK, PositionsOK, Accounts, InProgress, [Next]_vars,
           NEW e \in Emails, NEW i \in DOMAIN log'[e]
    PROVE  \/ log'[e][i].uid = 0
           \/ /\ i \notin DOMAIN log[e]
              /\ log'[e][i].uid = lastUid + 1 /\ lastUid' = lastUid + 1
           \/ \E j \in DOMAIN log[e] : log'[e][i].uid = log[e][j].uid
<1>1. CASE i \in DOMAIN log[e]
  BY <1>1, LogStep DEF LogGrows
<1>2. CASE i \notin DOMAIN log[e]
  <2> DEFINE v == log'[e][i]
  <2>1. NewVersion(e, v)
    BY <1>2, Published
  <2>2. CASE FreshEmail(v) \/ v = Absent
    BY <2>2, <1>2 DEF FreshEmail, Absent
  <2>3. CASE SentRecorded(e, v) \/ FailureRecorded(e, v)
    <3>1. worker # Idle /\ worker.email = e /\ v.uid = Sending.uid
      BY <2>3 DEF SentRecorded, FailureRecorded, Idle
    <3>2. QED
      BY <3>1, SendingFacts
  <2>4. CASE \E h \in Handlers : ReportRecorded(h, e, v)
    BY <2>4, SubjectFacts DEF ReportRecorded
  <2>5. QED
    BY <2>1, <2>2, <2>3, <2>4 DEF NewVersion
<1>3. QED
  BY <1>1, <1>2

LEMMA LastUidGrows ==
    ASSUME TypeOK, [Next]_vars
    PROVE  lastUid' \in Nat /\ lastUid <= lastUid'
<1>1. lastUid' = lastUid \/ lastUid' = lastUid + 1
  BY EveryWrite DEF LogWritten, Created, Deleted, CtrlWrites, HookWrites
<1>2. QED
  BY <1>1 DEF TypeOK

(* The message Resend holds after the worker's call.                       *)
LEMMA SentMessage ==
    ASSUME TypeOK, PositionsOK, InProgress, Sends
    PROVE  /\ worker # Idle
           /\ \A n \in DOMAIN messages' : n \in DOMAIN messages
                \/ /\ n = Len(messages) + 1
                   /\ messages'[n].email = worker.email
                   /\ messages'[n].uid = Sending.uid
           /\ \A id \in AcceptedIds : SendsAs(id) =>
                id \in DOMAIN messages' /\ messages'[id].uid = Sending.uid
<1>1. worker # Idle
  BY DEF Sends, Idle
<1>2. worker.email \in Emails /\ Sending.uid \in Nat /\ messages \in Seq(Message)
  BY <1>1, SendingType DEF TypeOK
<1>3. \E id \in AcceptedIds : Accept(worker.email, Sending.uid, id)
  BY DEF Sends, SendsAs
<1>4. \A n \in DOMAIN messages' : n \in DOMAIN messages
                \/ /\ n = Len(messages) + 1
                   /\ messages'[n].email = worker.email
                   /\ messages'[n].uid = Sending.uid
  BY <1>2, <1>3, AcceptFacts
<1>5. \A id \in AcceptedIds : SendsAs(id) =>
        id \in DOMAIN messages' /\ messages'[id].uid = Sending.uid
  BY <1>2, AcceptFacts DEF SendsAs
<1>6. QED
  BY <1>1, <1>4, <1>5

LEMMA AccountsStep ==
    ASSUME TypeOK, PositionsOK, Accounts, InProgress, [Next]_vars
    PROVE  Accounts'
<1>0. /\ \A e \in Emails : \A i \in DOMAIN log[e] :
           i \in DOMAIN log'[e] /\ log'[e][i] = log[e][i]
      /\ \A e \in Emails : \A i \in DOMAIN log[e] :
           log[e][i].uid \in Nat /\ log[e][i].uid <= lastUid
  <2>1. ASSUME NEW e \in Emails, NEW i \in DOMAIN log[e]
        PROVE  log[e][i].uid \in Nat /\ log[e][i].uid <= lastUid
    <3>1. log[e][i] \in Version
      BY AtVersion DEF TypeOK
    <3>2. QED
      BY <3>1 DEF Accounts, Version
  <2>2. QED
    BY <2>1, LogStep DEF LogGrows
<1>1. ASSUME NEW e \in Emails, NEW i \in DOMAIN log'[e]
      PROVE  log'[e][i].uid <= lastUid'
  <2>1. lastUid' \in Nat /\ lastUid \in Nat /\ lastUid <= lastUid'
    BY LastUidGrows DEF TypeOK
  <2>2. \A j \in DOMAIN log[e] : log[e][j].uid \in Nat /\ log[e][j].uid <= lastUid
    BY <1>0
  <2>3. QED
    BY <2>1, <2>2, UidOrigin
<1>2. ASSUME NEW e \in Emails, NEW i \in DOMAIN log'[e]
      PROVE  /\ log'[e][i].uid = 0 => log'[e][i] = Absent
             /\ log'[e][i].delivered \in AllowedEvents => log'[e][i].providerID # 0
  <2>1. CASE i \in DOMAIN log[e]
    BY <2>1, <1>0 DEF Accounts
  <2>2. CASE i \notin DOMAIN log[e]
    <3> DEFINE v == log'[e][i]
    <3>1. NewVersion(e, v)
      BY <2>2, Published
    <3>2. CASE FreshEmail(v)
      BY <3>2, TextsDiffer DEF FreshEmail, TypeOK
    <3>3. CASE v = Absent
      BY <3>3, TextsDiffer DEF Absent
    <3>4. CASE SentRecorded(e, v) \/ FailureRecorded(e, v)
      <4>1. worker # Idle /\ v.uid = Sending.uid
        BY <3>4 DEF SentRecorded, FailureRecorded, Idle
      <4>2. v.delivered \notin AllowedEvents
        BY <3>4, TextsDiffer DEF SentRecorded, FailureRecorded
      <4>3. QED
        BY <4>1, <4>2, SendingFacts
    <3>5. CASE \E h \in Handlers : ReportRecorded(h, e, v)
      BY <3>5, SubjectFacts DEF ReportRecorded
    <3>6. QED
      BY <3>1, <3>2, <3>3, <3>4, <3>5 DEF NewVersion
  <2>3. QED
    BY <2>1, <2>2
<1>3. ASSUME NEW e \in Emails, NEW f \in Emails,
             NEW i \in DOMAIN log'[e], NEW j \in DOMAIN log'[f],
             log'[e][i].uid = log'[f][j].uid, log'[e][i].uid # 0
      PROVE  e = f
  <2>1. \A g \in Emails : \A k \in DOMAIN log[g] :
            log[g][k].uid \in Nat /\ log[g][k].uid <= lastUid
    BY <1>0
  <2>2. lastUid \in Nat
    BY DEF TypeOK
  <2>3. CASE log'[e][i].uid = lastUid + 1
    <3>1. \A g \in Emails : \A k \in DOMAIN log'[g] :
            log'[g][k].uid = lastUid + 1 => k \notin DOMAIN log[g]
      BY <2>1, <2>2, <1>0
    <3>2. i \notin DOMAIN log[e] /\ j \notin DOMAIN log[f]
      BY <1>3, <2>3, <3>1
    <3>3. QED
      BY <1>3, <3>2, Published
  <2>4. CASE log'[e][i].uid # lastUid + 1
    <3>1. PICK k \in DOMAIN log[e] : log'[e][i].uid = log[e][k].uid
      BY <1>3, <2>4, UidOrigin
    <3>2. PICK l \in DOMAIN log[f] : log'[f][j].uid = log[f][l].uid
      BY <1>3, <2>4, UidOrigin
    <3>3. log[e][k].uid = log[f][l].uid /\ log[e][k].uid # 0
      BY <1>3, <3>1, <3>2
    <3>4. QED
      BY <3>3 DEF Accounts
  <2>5. QED
    BY <2>3, <2>4
<1>4. ASSUME NEW n \in DOMAIN messages'
      PROVE  /\ messages'[n].uid # 0
             /\ \E i \in DOMAIN log'[messages'[n].email] :
                  log'[messages'[n].email][i].uid = messages'[n].uid
  <2>1. CASE n \in DOMAIN messages
    <3>1. messages'[n] = messages[n]
      BY <2>1, MessageStep DEF MessagesGrow
    <3>2. messages[n] \in Message
      BY <2>1 DEF TypeOK
    <3>3. messages[n].email \in Emails
      BY <3>2 DEF Message
    <3>4. PICK i \in DOMAIN log[messages[n].email] :
              log[messages[n].email][i].uid = messages[n].uid
      BY <2>1 DEF Accounts
    <3>5. QED
      BY <2>1, <1>0, <3>1, <3>3, <3>4 DEF Accounts
  <2>2. CASE n \notin DOMAIN messages
    <3>1. Sends /\ worker # Idle
      BY <2>2, EverySend DEF Sends, Idle
    <3>4. /\ Sending.uid # 0 /\ worker.email \in Emails
          /\ worker.read \in DOMAIN log[worker.email]
          /\ Sending = log[worker.email][worker.read]
      BY <3>1, SendingFacts
    <3>5. messages'[n].email = worker.email /\ messages'[n].uid = Sending.uid
      BY <2>2, <3>1, SentMessage
    <3>6. /\ worker.read \in DOMAIN log'[worker.email]
          /\ log'[worker.email][worker.read] = Sending
      BY <1>0, <3>4
    <3>7. QED
      BY <3>4, <3>5, <3>6
  <2>3. QED
    BY <2>1, <2>2
<1>5. QED
  BY <1>1, <1>2, <1>3, <1>4 DEF Accounts

(***************************************************************************)
(* How the worker and a handler move on.                                   *)
(***************************************************************************)
WorkerMoves ==
    \/ worker' = worker
    \/ worker' = Idle
    \/ /\ worker'.step = "send" /\ UNCHANGED log
       /\ worker'.email \in Emails /\ worker'.read = ctrlAt[worker'.email]
       /\ Exists(Cached(worker'.email)) /\ ~IsEmailAlreadySent(Cached(worker'.email))
    \/ /\ Sends
       /\ worker'.step = "record"
       /\ worker'.id \in AcceptedIds /\ SendsAs(worker'.id)
       /\ worker'.email = worker.email /\ worker'.read = worker.read
    \/ /\ worker.step = "send" /\ worker'.step = "fail"
       /\ worker'.email = worker.email /\ worker'.read = worker.read

LEMMA WorkerStep ==
    ASSUME TypeOK, PositionsOK, [Next]_vars
    PROVE  WorkerMoves
<1>1. CASE WorldNext /\ UNCHANGED ctrlVars
  BY <1>1 DEF ctrlVars, WorkerMoves
<1>2. CASE CtrlNext
  <2>1. CASE InformerNext \/ QueueNext
    BY <2>1 DEF InformerNext, QueueNext, Observe, TimerFires, WorkerMoves
  <2>2. ASSUME NEW e \in Emails, StartReconcile(e) PROVE WorkerMoves
    BY <2>2 DEF StartReconcile, worldVars, WorkerMoves
  <2>3. CASE SendAccepted
    <3>1. PICK id \in AcceptedIds :
              /\ SendsAs(id)
              /\ worker' = [step |-> "record", email |-> worker.email,
                            read |-> worker.read, id |-> id]
      BY <2>3 DEF SendAccepted, SendsAs
    <3>2. Sends
      BY <2>3, <3>1 DEF SendAccepted, Sends
    <3>3. QED
      BY <3>1, <3>2 DEF WorkerMoves
  <2>4. CASE RecordSent \/ RecordFailure \/ StatusUpdateFails
    BY <2>4 DEF RecordSent, RecordFailure, StatusUpdateFails, WorkerMoves
  <2>5. CASE CtrlDisturbed
    BY <2>5 DEF CtrlDisturbed, Resync, LookupFails, SendFails, RestartManager, WorkerMoves
  <2>6. QED
    BY <1>2, <2>1, <2>2, <2>3, <2>4, <2>5 DEF CtrlNext, ReconcileNext
<1>3. CASE HookNext /\ UNCHANGED ctrlVars
  BY <1>3 DEF ctrlVars, WorkerMoves
<1>4. CASE UNCHANGED vars
  BY <1>4 DEF vars, ctrlVars, WorkerMoves
<1>5. QED
  BY <1>1, <1>2, <1>3, <1>4 DEF Next

HandlerMoves(k) ==
    \/ handler'[k] = handler[k]
    \/ handler'[k].step = "free"
    \/ /\ handler'[k].step = "update" /\ UNCHANGED log
       /\ handler'[k].email \in Emails
       /\ handler'[k].read \in 0..Len(log[handler'[k].email])
       /\ At(handler'[k].email, handler'[k].read).providerID = handler'[k].msg
       /\ handler'[k].msg \in DOMAIN messages
       /\ <<handler'[k].msg, handler'[k].type>> \in events'
    \/ /\ HookWrites(k)
       /\ handler'[k].step = "announce" /\ handler'[k].uid = Subject(k).uid
       /\ handler'[k].msg = handler[k].msg /\ handler'[k].type = handler[k].type

LEMMA HandlerStep ==
    ASSUME TypeOK, PositionsOK, [Next]_vars, NEW k \in Handlers
    PROVE  HandlerMoves(k)
<1>1. CASE UNCHANGED hookVars
  BY <1>1 DEF hookVars, HandlerMoves
<1>2. CASE HookNext
  <2>1. ASSUME NEW h \in Handlers, NEW code \in Answers,
               handler' = [handler EXCEPT ![h] = Answered(code)]
        PROVE  HandlerMoves(k)
    BY <2>1, AnsweredType DEF TypeOK, HandlerMoves
  <2>2. 200 \in Answers /\ 404 \in Answers /\ 500 \in Answers /\ 0 \in Answers
    BY DEF Answers
  <2>3. ASSUME NEW h \in Handlers, NEW n \in DOMAIN messages, NEW type \in ReportedEvents,
               Receive(h, n, type)
        PROVE HandlerMoves(k)
    <3>1. PICK at \in Positions :
            /\ CacheMoves(at)
            /\ \/ handler' = [handler EXCEPT ![h] = Answered(404)]
               \/ \E e \in EmailsWithProviderID(at, n) :
                    handler' = [handler EXCEPT ![h] =
                        [step |-> "update", email |-> e, read |-> at[e],
                         msg |-> n, type |-> type]]
      BY <2>3 DEF Receive
    <3>2. ASSUME NEW e \in EmailsWithProviderID(at, n),
                 handler' = [handler EXCEPT ![h] =
                        [step |-> "update", email |-> e, read |-> at[e],
                         msg |-> n, type |-> type]]
          PROVE  HandlerMoves(k)
      <4>1. CASE k # h
        BY <3>2, <4>1 DEF TypeOK, HandlerMoves
      <4>2. CASE k = h
        <5>1. handler'[k] = [step |-> "update", email |-> e, read |-> at[e],
                             msg |-> n, type |-> type]
          BY <3>2, <4>2 DEF TypeOK
        <5>2. e \in Emails /\ At(e, at[e]).providerID = n
          BY DEF EmailsWithProviderID
        <5>3. at[e] \in 0..Len(log[e])
          BY <3>1, <5>2 DEF CacheMoves, TypeOK
        <5>4. <<n, type>> \in events' /\ UNCHANGED log
          BY <2>3 DEF Receive, Called
        <5>5. QED
          BY <5>1, <5>2, <5>3, <5>4 DEF HandlerMoves
      <4>3. QED
        BY <4>1, <4>2
    <3>3. QED
      BY <3>1, <3>2, <2>1, <2>2
  <2>4. ASSUME NEW h \in Handlers, NEW n \in DOMAIN messages, NEW type \in ReportedEvents,
               ListFails(h, n, type)
        PROVE HandlerMoves(k)
    BY <2>4, <2>1, <2>2 DEF ListFails
  <2>5. ASSUME NEW h \in Handlers, UpdateDelivered(h) PROVE HandlerMoves(k)
    <3>1. handler' = [handler EXCEPT ![h] =
             [step |-> "announce", uid |-> Subject(h).uid,
              msg |-> handler[h].msg, type |-> handler[h].type]]
      BY <2>5 DEF UpdateDelivered
    <3>2. HookWrites(h)
      BY <2>5 DEF UpdateDelivered, StoreDelivered, HookWrites, Stores
    <3>3. CASE k # h
      BY <3>1, <3>3 DEF TypeOK, HandlerMoves
    <3>4. CASE k = h
      <4>1. handler'[k] = [step |-> "announce", uid |-> Subject(h).uid,
                           msg |-> handler[h].msg, type |-> handler[h].type]
        BY <3>1, <3>4 DEF TypeOK
      <4>2. QED
        BY <3>2, <3>4, <4>1 DEF HandlerMoves
    <3>5. QED
      BY <3>3, <3>4
  <2>6. ASSUME NEW h \in Handlers, UpdateFails(h) \/ CreateEvent(h) \/ CreateEventFails(h)
        PROVE HandlerMoves(k)
    BY <2>6, <2>1, <2>2 DEF UpdateFails, CreateEvent, CreateEventFails
  <2>7. CASE RestartWebhookServer
    BY <2>7, <2>2, AnsweredType DEF RestartWebhookServer, HandlerMoves
  <2>8. QED
    BY <1>2, <2>3, <2>4, <2>5, <2>6, <2>7 DEF HookNext
<1>3. QED
  BY <1>1, <1>2 DEF Next, vars

LEMMA EventsGrow == [Next]_vars => events \subseteq events'
<1> SUFFICES ASSUME [Next]_vars PROVE events \subseteq events'
  OBVIOUS
<1>1. CASE WorldNext
  BY <1>1 DEF WorldNext, CreateEmail, DeleteEmail
<1>2. CASE CtrlNext
  BY <1>2 DEF CtrlNext, InformerNext, QueueNext, ReconcileNext, CtrlDisturbed,
              Observe, TimerFires, StartReconcile, SendAccepted, RecordSent,
              RecordFailure, StatusUpdateFails, Resync, LookupFails, SendFails,
              RestartManager, worldVars
<1>3. CASE HookNext
  BY <1>3 DEF HookNext, Receive, ListFails, Called, UpdateDelivered, UpdateFails,
              CreateEvent, CreateEventFails, RestartWebhookServer, worldVars
<1>4. CASE UNCHANGED vars
  BY <1>4 DEF vars, worldVars
<1>5. QED
  BY <1>1, <1>2, <1>3, <1>4 DEF Next

(* The message the worker is given the id of is its own.                   *)
LEMMA OwnMessage ==
    ASSUME TypeOK, PositionsOK, Accounts, InProgress, [Next]_vars, Sends,
           NEW id \in AcceptedIds, SendsAs(id)
    PROVE  /\ id \in DOMAIN messages'
           /\ messages'[id].email = worker.email
           /\ messages'[id].uid = Sending.uid
<1>1. worker # Idle /\ id \in DOMAIN messages'
  BY SentMessage
<1>2. messages'[id].uid = Sending.uid
  BY SentMessage
<1>3. /\ worker.email \in Emails /\ worker.read \in DOMAIN log[worker.email]
      /\ Sending = log[worker.email][worker.read] /\ Sending.uid # 0
  BY <1>1, SendingFacts
<1>4. CASE id \in DOMAIN messages
  <2>1. messages'[id] = messages[id] /\ messages[id] \in Message
    BY <1>4, MessageStep DEF MessagesGrow, TypeOK
  <2>2. messages[id].email \in Emails /\ messages[id].uid = Sending.uid
    BY <1>2, <2>1 DEF Message
  <2>3. PICK i \in DOMAIN log[messages[id].email] :
            log[messages[id].email][i].uid = messages[id].uid
    BY <1>4 DEF Accounts
  <2>4. log[messages[id].email][i].uid = log[worker.email][worker.read].uid
    BY <1>3, <2>2, <2>3
  <2>5. messages[id].email = worker.email
    BY <1>3, <2>2, <2>3, <2>4 DEF Accounts
  <2>6. QED
    BY <1>1, <1>2, <2>1, <2>5
<1>5. CASE id \notin DOMAIN messages
  BY <1>1, <1>2, <1>5, SentMessage
<1>6. QED
  BY <1>4, <1>5

WorkInProgress ==
    /\ worker # Idle => Exists(Sending) /\ Sending.providerID = 0
    /\ worker.step = "record" =>
        /\ worker.id \in DOMAIN messages
        /\ messages[worker.id].email = worker.email
        /\ messages[worker.id].uid = Sending.uid

LEMMA WorkInProgressStep ==
    ASSUME TypeOK, PositionsOK, Accounts, InProgress, [Next]_vars
    PROVE  WorkInProgress'
<1>0. /\ \A e \in Emails : \A i \in DOMAIN log[e] :
           i \in DOMAIN log'[e] /\ log'[e][i] = log[e][i]
      /\ \A e \in Emails : \A i \in DOMAIN log[e] : i # 0
  BY LogStep DEF LogGrows, TypeOK
<1>1. ASSUME worker # Idle, worker'.email = worker.email, worker'.read = worker.read
      PROVE  Sending' = Sending
  <2>1. /\ worker.email \in Emails /\ worker.read \in DOMAIN log[worker.email]
        /\ Sending = log[worker.email][worker.read]
    BY <1>1, SendingFacts
  <2>2. QED
    BY <1>0, <1>1, <2>1 DEF Sending, At, VersionAt
<1>2. CASE worker' = Idle
  BY <1>2 DEF WorkInProgress, Idle
<1>3. CASE worker' = worker /\ worker # Idle
  <2>1. Sending' = Sending /\ Exists(Sending) /\ Sending.providerID = 0
    BY <1>1, <1>3 DEF InProgress
  <2>2. ASSUME worker.step = "record"
        PROVE  /\ worker.id \in DOMAIN messages'
               /\ messages'[worker.id] = messages[worker.id]
    BY <2>2, MessageStep DEF InProgress, MessagesGrow
  <2>3. QED
    BY <1>3, <2>1, <2>2 DEF InProgress, WorkInProgress, Exists
<1>4. CASE /\ worker'.step = "send" /\ UNCHANGED log
           /\ worker'.email \in Emails /\ worker'.read = ctrlAt[worker'.email]
           /\ Exists(Cached(worker'.email)) /\ ~IsEmailAlreadySent(Cached(worker'.email))
  BY <1>4 DEF WorkInProgress, Sending, Cached, At, Exists, IsEmailAlreadySent
<1>5. CASE /\ Sends
           /\ worker'.step = "record"
           /\ worker'.id \in AcceptedIds /\ SendsAs(worker'.id)
           /\ worker'.email = worker.email /\ worker'.read = worker.read
  <2>1. worker # Idle
    BY <1>5 DEF Sends, Idle
  <2>2. Sending' = Sending /\ Sending.uid # 0 /\ Sending.providerID = 0
    BY <1>1, <1>5, <2>1, SendingFacts
  <2>3. \A id \in AcceptedIds : SendsAs(id) =>
            /\ id \in DOMAIN messages'
            /\ messages'[id].email = worker.email
            /\ messages'[id].uid = Sending.uid
    BY <1>5, OwnMessage
  <2>4. QED
    BY <1>5, <2>2, <2>3 DEF WorkInProgress, Exists
<1>6. CASE /\ worker.step = "send" /\ worker'.step = "fail"
           /\ worker'.email = worker.email /\ worker'.read = worker.read
  <2>1. worker # Idle
    BY <1>6 DEF Idle
  <2>2. Sending' = Sending /\ Sending.uid # 0 /\ Sending.providerID = 0
    BY <1>1, <1>6, <2>1, SendingFacts
  <2>3. QED
    BY <1>6, <2>2 DEF WorkInProgress, Exists
<1>7. QED
  BY <1>2, <1>3, <1>4, <1>5, <1>6, WorkerStep DEF WorkerMoves

RequestsInProgress ==
    \A h \in Handlers :
        /\ handler[h].step = "update" =>
            /\ Subject(h).providerID = handler[h].msg
            /\ handler[h].msg # 0
            /\ <<handler[h].msg, handler[h].type>> \in events
        /\ handler[h].step = "announce" =>
            \E e \in Emails : \E i \in Versions(e) :
                log[e][i] = [uid |-> handler[h].uid, providerID |-> handler[h].msg,
                             delivered |-> handler[h].type]

LEMMA HookWritesVersion ==
    ASSUME TypeOK, PositionsOK, Accounts, InProgress, NEW h \in Handlers, HookWrites(h)
    PROVE  \E i \in DOMAIN log'[handler[h].email] :
             log'[handler[h].email][i] =
                [uid |-> Subject(h).uid, providerID |-> handler[h].msg,
                 delivered |-> handler[h].type]
<1> DEFINE e == handler[h].email
           v == [Subject(h) EXCEPT !.delivered = handler[h].type]
<1>1. handler[h].step = "update"
  BY DEF HookWrites
<1>2. e \in Emails /\ Subject(h) \in Version /\ Subject(h).providerID = handler[h].msg
  BY <1>1, SubjectFacts
<1>3. v \in Version
  BY <1>1, WrittenType
<1>4. v = [uid |-> Subject(h).uid, providerID |-> handler[h].msg,
           delivered |-> handler[h].type]
  BY <1>2 DEF Version
<1>5. Stores(e, v) /\ log[e] \in Seq(Version)
  BY <1>2 DEF HookWrites, TypeOK
<1> HIDE DEF e, v
<1>6. log'[e] = Publish(log[e], v)
  BY <1>2, <1>3, <1>5, StoreFacts DEF TypeOK
<1>7. /\ Publish(log[e], v) \in Seq(Version) /\ Publish(log[e], v) # << >>
      /\ Publish(log[e], v)[Len(Publish(log[e], v))] = v
  BY <1>3, <1>5, PublishFacts
<1>8. Len(Publish(log[e], v)) \in DOMAIN Publish(log[e], v)
  BY <1>7
<1>9. QED
  BY <1>4, <1>6, <1>7, <1>8 DEF e

LEMMA RequestsInProgressStep ==
    ASSUME TypeOK, PositionsOK, Accounts, InProgress, [Next]_vars
    PROVE  RequestsInProgress'
<1>0. \A e \in Emails : \A i \in DOMAIN log[e] :
           i # 0 /\ i \in DOMAIN log'[e] /\ log'[e][i] = log[e][i]
  BY LogStep DEF LogGrows, TypeOK
<1> SUFFICES ASSUME NEW h \in Handlers
             PROVE  /\ handler'[h].step = "update" =>
                        /\ Subject(h)'.providerID = handler'[h].msg
                        /\ handler'[h].msg # 0
                        /\ <<handler'[h].msg, handler'[h].type>> \in events'
                    /\ handler'[h].step = "announce" =>
                        \E e \in Emails : \E i \in DOMAIN log'[e] :
                            log'[e][i] = [uid |-> handler'[h].uid,
                                          providerID |-> handler'[h].msg,
                                          delivered |-> handler'[h].type]
  BY DEF RequestsInProgress
<1>1. CASE handler'[h] = handler[h] /\ handler[h].step = "update"
  <2>1. /\ handler[h].email \in Emails /\ handler[h].read \in DOMAIN log[handler[h].email]
        /\ Subject(h) = log[handler[h].email][handler[h].read]
    BY <1>1, SubjectFacts
  <2>2. Subject(h)' = Subject(h)
    BY <1>0, <1>1, <2>1 DEF Subject, At, VersionAt
  <2>3. QED
    BY <1>1, <2>2, EventsGrow DEF InProgress
<1>2. CASE handler'[h] = handler[h] /\ handler[h].step = "announce"
  <2>1. PICK e \in Emails : \E i \in DOMAIN log[e] :
            log[e][i] = [uid |-> handler[h].uid, providerID |-> handler[h].msg,
                         delivered |-> handler[h].type]
    BY <1>2 DEF InProgress
  <2>2. PICK i \in DOMAIN log[e] :
            log[e][i] = [uid |-> handler[h].uid, providerID |-> handler[h].msg,
                         delivered |-> handler[h].type]
    BY <2>1
  <2>3. i \in DOMAIN log'[e] /\ log'[e][i] = log[e][i]
    BY <1>0
  <2>4. QED
    BY <1>2, <2>2, <2>3
<1>3. CASE /\ handler'[h].step = "update" /\ UNCHANGED log
           /\ handler'[h].email \in Emails
           /\ handler'[h].read \in 0..Len(log[handler'[h].email])
           /\ At(handler'[h].email, handler'[h].read).providerID = handler'[h].msg
           /\ handler'[h].msg \in DOMAIN messages
           /\ <<handler'[h].msg, handler'[h].type>> \in events'
  <2>1. handler'[h].msg # 0
    BY <1>3 DEF TypeOK
  <2>2. QED
    BY <1>3, <2>1 DEF Subject, At
<1>4. CASE /\ HookWrites(h)
           /\ handler'[h].step = "announce" /\ handler'[h].uid = Subject(h).uid
           /\ handler'[h].msg = handler[h].msg /\ handler'[h].type = handler[h].type
  <2>1. handler[h].email \in Emails
    BY <1>4, SubjectFacts DEF HookWrites
  <2>2. QED
    BY <1>4, <2>1, HookWritesVersion
<1>5. CASE handler'[h].step = "free"
  BY <1>5
<1>6. HandlerMoves(h) /\ handler[h] \in HandlerStates
  BY HandlerStep DEF TypeOK
<1>7. handler[h].step \in {"free", "update", "announce"}
  BY <1>6 DEF HandlerStates
<1>8. QED
  BY <1>1, <1>2, <1>3, <1>4, <1>5, <1>6, <1>7 DEF HandlerMoves

(***************************************************************************)
(* The safety properties.                                                  *)
(***************************************************************************)
LEMMA RecordedIdStep ==
    ASSUME TypeOK, PositionsOK, Accounts, InProgress, RecordedIdIsTheMessage, [Next]_vars
    PROVE  RecordedIdIsTheMessage'
<1>0. \A n \in DOMAIN messages : n \in DOMAIN messages' /\ messages'[n] = messages[n]
  BY MessageStep DEF MessagesGrow
<1>1. ASSUME NEW e \in Emails, NEW i \in DOMAIN log'[e], log'[e][i].providerID # 0
      PROVE  /\ log'[e][i].providerID \in DOMAIN messages'
             /\ messages'[log'[e][i].providerID].email = e
             /\ messages'[log'[e][i].providerID].uid = log'[e][i].uid
  <2>1. CASE i \in DOMAIN log[e]
    <3>1. log'[e][i] = log[e][i]
      BY <2>1, LogStep DEF LogGrows
    <3>2. QED
      BY <1>0, <1>1, <2>1, <3>1 DEF RecordedIdIsTheMessage
  <2>2. CASE i \notin DOMAIN log[e]
    <3> DEFINE v == log'[e][i]
    <3>1. NewVersion(e, v)
      BY <2>2, Published
    <3>2. CASE FreshEmail(v) \/ v = Absent
      BY <1>1, <3>2 DEF FreshEmail, Absent
    <3>3. CASE SentRecorded(e, v)
      BY <1>0, <3>3 DEF SentRecorded, InProgress
    <3>4. CASE FailureRecorded(e, v)
      <4>1. worker # Idle
        BY <3>4 DEF FailureRecorded, Idle
      <4>2. v.providerID = 0
        BY <3>4, <4>1, SendingFacts DEF FailureRecorded
      <4>3. QED
        BY <1>1, <4>2
    <3>5. ASSUME NEW h \in Handlers, ReportRecorded(h, e, v)
          PROVE  /\ v.providerID \in DOMAIN messages'
                 /\ messages'[v.providerID].email = e
                 /\ messages'[v.providerID].uid = v.uid
      <4>1. /\ handler[h].email = e /\ handler[h].read \in DOMAIN log[e]
            /\ Subject(h) = log[e][handler[h].read]
            /\ Subject(h).providerID # 0
        BY <3>5, SubjectFacts DEF ReportRecorded
      <4>2. /\ Subject(h).providerID \in DOMAIN messages
            /\ messages[Subject(h).providerID].email = e
            /\ messages[Subject(h).providerID].uid = Subject(h).uid
        BY <4>1 DEF RecordedIdIsTheMessage
      <4>3. QED
        BY <1>0, <3>5, <4>2 DEF ReportRecorded
    <3>6. QED
      BY <3>1, <3>2, <3>3, <3>4, <3>5 DEF NewVersion
  <2>3. QED
    BY <2>1, <2>2
<1>2. QED
  BY <1>1 DEF RecordedIdIsTheMessage

LEMMA ReportStep ==
    ASSUME TypeOK, PositionsOK, Accounts, InProgress, StatusIsResendsReport, [Next]_vars
    PROVE  StatusIsResendsReport'
<1>1. ASSUME NEW e \in Emails, NEW i \in DOMAIN log'[e],
             log'[e][i].delivered \in AllowedEvents
      PROVE  <<log'[e][i].providerID, log'[e][i].delivered>> \in events'
  <2>1. CASE i \in DOMAIN log[e]
    <3>1. log'[e][i] = log[e][i]
      BY <2>1, LogStep DEF LogGrows
    <3>2. QED
      BY <1>1, <2>1, <3>1, EventsGrow DEF StatusIsResendsReport
  <2>2. CASE i \notin DOMAIN log[e]
    <3> DEFINE v == log'[e][i]
    <3>1. NewVersion(e, v)
      BY <2>2, Published
    <3>2. v.delivered \in AllowedEvents
      BY <1>1
    <3>3. ~(FreshEmail(v) \/ v = Absent \/ SentRecorded(e, v) \/ FailureRecorded(e, v))
      BY <3>2, TextsDiffer DEF FreshEmail, Absent, SentRecorded, FailureRecorded
    <3>4. PICK h \in Handlers : ReportRecorded(h, e, v)
      BY <3>1, <3>3 DEF NewVersion
    <3>5. QED
      BY <3>4, SubjectFacts, EventsGrow DEF ReportRecorded
  <2>3. QED
    BY <2>1, <2>2
<1>2. QED
  BY <1>1 DEF StatusIsResendsReport

LEMMA RecordedIdKeptStep ==
    ASSUME TypeOK, PositionsOK, Accounts, InProgress, RecordedIdIsKept, [Next]_vars
    PROVE  RecordedIdIsKept'
<1>0. /\ \A e \in Emails : \A i \in DOMAIN log[e] :
           i \in DOMAIN log'[e] /\ log'[e][i] = log[e][i]
      /\ \A e \in Emails : log[e] \in Seq(Version) /\ log'[e] \in Seq(Version)
  BY LogStep DEF LogGrows, TypeOK
<1>1. ASSUME NEW e \in Emails, NEW i \in DOMAIN log'[e], NEW j \in DOMAIN log'[e],
             i < j, log'[e][i].providerID # 0,
             log'[e][j].uid = log'[e][i].uid
      PROVE  log'[e][j].providerID = log'[e][i].providerID
  <2>1. CASE j \in DOMAIN log[e]
    <3>1. i \in DOMAIN log[e]
      BY <1>0, <1>1, <2>1
    <3>2. log'[e][i] = log[e][i] /\ log'[e][j] = log[e][j]
      BY <1>0, <2>1, <3>1
    <3>3. QED
      BY <1>1, <2>1, <3>1, <3>2 DEF RecordedIdIsKept
  <2>2. CASE j \notin DOMAIN log[e]
    <3> DEFINE v == log'[e][j]
    <3>1. NewVersion(e, v) /\ j = Len(log[e]) + 1
      BY <2>2, Published
    <3>2. i \in DOMAIN log[e] /\ i <= Len(log[e])
      BY <1>0, <1>1, <3>1
    <3>3. log'[e][i] = log[e][i]
      BY <1>0, <3>2
    <3>4. log[e][i].providerID # 0 /\ log[e][i].uid # 0 /\ log[e][i].uid <= lastUid
      BY <1>1, <3>2, <3>3 DEF Accounts, Absent
    <3>5. v.uid = log[e][i].uid
      BY <1>1, <3>3
    (* The version the write was based on is the last one.                 *)
    <3>6. ASSUME Len(log[e]) \in DOMAIN log[e], v.uid = log[e][Len(log[e])].uid
          PROVE  log[e][Len(log[e])].providerID = log[e][i].providerID
      <4>1. CASE i = Len(log[e])
        BY <1>1, <3>3, <4>1
      <4>2. CASE i < Len(log[e])
        BY <1>1, <3>2, <3>3, <3>5, <3>6, <4>2 DEF RecordedIdIsKept
      <4>3. Len(log[e]) \in Nat
        BY <1>0
      <4>4. QED
        BY <3>2, <4>1, <4>2, <4>3
    <3>7. ~FreshEmail(v) /\ v # Absent
      <4>1. lastUid \in Nat
        BY DEF TypeOK
      <4>2. QED
        BY <3>4, <3>5, <4>1 DEF FreshEmail, Absent
    <3>8. ~(SentRecorded(e, v) \/ FailureRecorded(e, v))
      <4> SUFFICES ASSUME SentRecorded(e, v) \/ FailureRecorded(e, v) PROVE FALSE
        OBVIOUS
      <4>1. /\ worker # Idle /\ worker.email = e /\ worker.read = Len(log[e])
            /\ v.uid = Sending.uid
        BY DEF SentRecorded, FailureRecorded, Idle
      <4>2. /\ Len(log[e]) \in DOMAIN log[e]
            /\ Sending = log[e][Len(log[e])] /\ Sending.providerID = 0
        BY <4>1, SendingFacts
      <4>3. QED
        BY <3>4, <3>6, <4>1, <4>2
    <3>9. PICK h \in Handlers : ReportRecorded(h, e, v)
      BY <3>1, <3>7, <3>8 DEF NewVersion
    <3>10. /\ Len(log[e]) \in DOMAIN log[e] /\ Subject(h) = log[e][Len(log[e])]
           /\ v.uid = Subject(h).uid /\ v.providerID = Subject(h).providerID
      BY <3>9, SubjectFacts DEF ReportRecorded
    <3>11. QED
      BY <3>3, <3>6, <3>10
  <2>3. QED
    BY <2>1, <2>2
<1>2. QED
  BY <1>1 DEF RecordedIdIsKept

LEMMA NotOverwrittenStep ==
    ASSUME TypeOK, PositionsOK, Accounts, InProgress, WebhookStatusNotOverwritten,
           [Next]_vars
    PROVE  WebhookStatusNotOverwritten'
<1>0. /\ \A e \in Emails : \A i \in DOMAIN log[e] :
           i \in DOMAIN log'[e] /\ log'[e][i] = log[e][i]
      /\ \A e \in Emails : log[e] \in Seq(Version) /\ log'[e] \in Seq(Version)
  BY LogStep DEF LogGrows, TypeOK
<1>1. ASSUME NEW e \in Emails, NEW i \in DOMAIN log'[e], NEW j \in DOMAIN log'[e],
             i < j, log'[e][i].delivered \in AllowedEvents,
             log'[e][j].uid = log'[e][i].uid
      PROVE  /\ log'[e][j].delivered \in AllowedEvents
             /\ log'[e][j].providerID = log'[e][i].providerID
  <2>1. CASE j \in DOMAIN log[e]
    <3>1. i \in DOMAIN log[e]
      BY <1>0, <1>1, <2>1
    <3>2. log'[e][i] = log[e][i] /\ log'[e][j] = log[e][j]
      BY <1>0, <2>1, <3>1
    <3>3. QED
      BY <1>1, <2>1, <3>1, <3>2 DEF WebhookStatusNotOverwritten
  <2>2. CASE j \notin DOMAIN log[e]
    <3> DEFINE v == log'[e][j]
    <3>1. NewVersion(e, v) /\ j = Len(log[e]) + 1
      BY <2>2, Published
    <3>2. i \in DOMAIN log[e] /\ i <= Len(log[e])
      BY <1>0, <1>1, <3>1
    <3>3. log'[e][i] = log[e][i]
      BY <1>0, <3>2
    <3>4. log[e][i].providerID # 0 /\ log[e][i].uid # 0 /\ log[e][i].uid <= lastUid
      BY <1>1, <3>2, <3>3, TextsDiffer DEF Accounts, Absent
    <3>5. v.uid = log[e][i].uid
      BY <1>1, <3>3
    (* The version the write was based on is the last one.                 *)
    <3>6. ASSUME Len(log[e]) \in DOMAIN log[e], v.uid = log[e][Len(log[e])].uid
          PROVE  /\ log[e][Len(log[e])].delivered \in AllowedEvents
                 /\ log[e][Len(log[e])].providerID = log[e][i].providerID
      <4>1. CASE i = Len(log[e])
        BY <1>1, <3>3, <4>1
      <4>2. CASE i < Len(log[e])
        BY <1>1, <3>2, <3>3, <3>5, <3>6, <4>2 DEF WebhookStatusNotOverwritten
      <4>3. Len(log[e]) \in Nat
        BY <1>0
      <4>4. QED
        BY <3>2, <4>1, <4>2, <4>3
    <3>7. ~FreshEmail(v) /\ v # Absent
      <4>1. lastUid \in Nat
        BY DEF TypeOK
      <4>2. QED
        BY <3>4, <3>5, <4>1 DEF FreshEmail, Absent
    <3>8. ~(SentRecorded(e, v) \/ FailureRecorded(e, v))
      <4> SUFFICES ASSUME SentRecorded(e, v) \/ FailureRecorded(e, v) PROVE FALSE
        OBVIOUS
      <4>1. /\ worker # Idle /\ worker.email = e /\ worker.read = Len(log[e])
            /\ v.uid = Sending.uid
        BY DEF SentRecorded, FailureRecorded, Idle
      <4>2. /\ Len(log[e]) \in DOMAIN log[e]
            /\ Sending = log[e][Len(log[e])] /\ Sending.providerID = 0
        BY <4>1, SendingFacts
      <4>3. QED
        BY <3>4, <3>6, <4>1, <4>2
    <3>9. PICK h \in Handlers : ReportRecorded(h, e, v)
      BY <3>1, <3>7, <3>8 DEF NewVersion
    <3>10. /\ Len(log[e]) \in DOMAIN log[e] /\ Subject(h) = log[e][Len(log[e])]
           /\ handler[h].type \in AllowedEvents
           /\ v.uid = Subject(h).uid /\ v.providerID = Subject(h).providerID
           /\ v.delivered = handler[h].type
      BY <3>9, SubjectFacts DEF ReportRecorded
    <3>11. QED
      BY <3>3, <3>6, <3>10
  <2>3. QED
    BY <2>1, <2>2
<1>2. QED
  BY <1>1 DEF WebhookStatusNotOverwritten

LEMMA AnnouncedStep ==
    ASSUME TypeOK, PositionsOK, InProgress, AnnouncedWasRecorded, [Next]_vars
    PROVE  AnnouncedWasRecorded'
<1>1. ASSUME NEW a \in announced'
      PROVE  a \in announced
               \/ \E h \in Handlers : handler[h].step = "announce" /\ a = EventOf(h)
  <2>1. CASE UNCHANGED hookVars
    BY <2>1, <1>1 DEF hookVars
  <2>2. CASE HookNext
    BY <2>2, <1>1 DEF HookNext, Receive, ListFails, UpdateDelivered, UpdateFails,
                      CreateEvent, CreateEventFails, RestartWebhookServer
  <2>3. QED
    BY <2>1, <2>2 DEF Next, vars
<1>2. ASSUME NEW a \in announced'
      PROVE  \E e \in Emails : \E i \in DOMAIN log[e] :
                log[e][i] = [uid |-> a.uid, providerID |-> a.msg, delivered |-> a.type]
  <2>1. CASE a \in announced
    BY <2>1 DEF AnnouncedWasRecorded
  <2>2. ASSUME NEW h \in Handlers, handler[h].step = "announce", a = EventOf(h)
        PROVE  \E e \in Emails : \E i \in DOMAIN log[e] :
                log[e][i] = [uid |-> a.uid, providerID |-> a.msg, delivered |-> a.type]
    <3>1. a.uid = handler[h].uid /\ a.msg = handler[h].msg /\ a.type = handler[h].type
      BY <2>2 DEF EventOf
    <3>2. QED
      BY <2>2, <3>1 DEF InProgress
  <2>3. QED
    BY <1>1, <2>1, <2>2
<1>3. \A e \in Emails : \A i \in DOMAIN log[e] :
           i \in DOMAIN log'[e] /\ log'[e][i] = log[e][i]
  BY LogStep DEF LogGrows
<1>4. ASSUME NEW a \in announced'
      PROVE  \E e \in Emails : \E i \in DOMAIN log'[e] :
                log'[e][i] = [uid |-> a.uid, providerID |-> a.msg, delivered |-> a.type]
  <2>1. PICK e \in Emails : \E i \in DOMAIN log[e] :
                log[e][i] = [uid |-> a.uid, providerID |-> a.msg, delivered |-> a.type]
    BY <1>2
  <2>2. QED
    BY <1>3, <2>1
<1>5. QED
  BY <1>4 DEF AnnouncedWasRecorded

LEMMA InvariantInit == Init => IInv
<1> SUFFICES ASSUME Init PROVE IInv
  OBVIOUS
<1>1. TypeOK /\ PositionsOK
  BY TypeInit
<1>2. /\ \A e \in Emails : DOMAIN log[e] = {}
      /\ DOMAIN messages = {} /\ announced = {} /\ worker = Idle
      /\ \A h \in Handlers : handler[h].step = "free"
  BY DEF Init, WorldInit, CtrlInit, HookInit, Answered
<1>3. Accounts /\ InProgress
  BY <1>2 DEF Accounts, InProgress, Idle
<1>4. /\ RecordedIdIsTheMessage /\ RecordedIdIsKept /\ StatusIsResendsReport
      /\ WebhookStatusNotOverwritten /\ AnnouncedWasRecorded
  BY <1>2 DEF RecordedIdIsTheMessage, RecordedIdIsKept, StatusIsResendsReport,
              WebhookStatusNotOverwritten, AnnouncedWasRecorded
<1>5. QED
  BY <1>1, <1>3, <1>4 DEF IInv

LEMMA InvariantStep == IInv /\ [Next]_vars => IInv'
<1> SUFFICES ASSUME IInv, [Next]_vars PROVE IInv'
  OBVIOUS
<1> USE DEF IInv
<1>1. TypeOK' /\ PositionsOK'
  BY TypeStep
<1>2. Accounts'
  BY AccountsStep
<1>3. InProgress'
  BY WorkInProgressStep, RequestsInProgressStep
     DEF InProgress, WorkInProgress, RequestsInProgress
<1>4. RecordedIdIsTheMessage' /\ RecordedIdIsKept' /\ StatusIsResendsReport'
  BY RecordedIdStep, RecordedIdKeptStep, ReportStep
<1>5. WebhookStatusNotOverwritten' /\ AnnouncedWasRecorded'
  BY NotOverwrittenStep, AnnouncedStep
<1>6. QED
  BY <1>1, <1>2, <1>3, <1>4, <1>5

THEOREM Invariant == Spec => []IInv
  BY InvariantInit, InvariantStep, PTL DEF Spec

(***************************************************************************)
(* Of the messages Resend accepts for one Email object, the first that is  *)
(* recorded stays on record.                                               *)
(***************************************************************************)
THEOREM RecordKept == Spec => []RecordedIdIsKept
<1>1. IInv => RecordedIdIsKept
  BY DEF IInv
<1>2. QED
  BY <1>1, Invariant, PTL

(***************************************************************************)
(* A recorded providerID names a message accepted for that very object.    *)
(***************************************************************************)
THEOREM Recorded == Spec => []RecordedIdIsTheMessage
<1>1. IInv => RecordedIdIsTheMessage
  BY DEF IInv
<1>2. QED
  BY <1>1, Invariant, PTL

(***************************************************************************)
(* A webhook status is what Resend reported of the recorded message.       *)
(***************************************************************************)
THEOREM Correlated == Spec => []StatusIsResendsReport
<1>1. IInv => StatusIsResendsReport
  BY DEF IInv
<1>2. QED
  BY <1>1, Invariant, PTL

(***************************************************************************)
(* The controller never overwrites the status a webhook has set.           *)
(***************************************************************************)
THEOREM NotOverwritten == Spec => []WebhookStatusNotOverwritten
<1>1. IInv => WebhookStatusNotOverwritten
  BY DEF IInv
<1>2. QED
  BY <1>1, Invariant, PTL

(***************************************************************************)
(* A Kubernetes Event is only created for a status the Email had.          *)
(***************************************************************************)
THEOREM Announced == Spec => []AnnouncedWasRecorded
<1>1. IInv => AnnouncedWasRecorded
  BY DEF IInv
<1>2. QED
  BY <1>1, Invariant, PTL

(***************************************************************************)
(* An Email that is not yet recorded as sent is never forgotten, provided  *)
(* that every configured wait is positive.                                 *)
(***************************************************************************)
Pending(e) ==
    \/ e \in queue
    \/ timer[e] # "none"
    \/ worker # Idle /\ worker.email = e
    \/ ctrlAt[e] < Len(log[e])

(* A write that is not a no-op leaves the manager something to see.        *)
LEMMA ChangeIsUnseen ==
    ASSUME IInv, [Next]_vars, UNCHANGED ctrlAt, NEW e \in Emails, log'[e] # log[e]
    PROVE  ctrlAt'[e] < Len(log'[e])
<1>1. /\ log[e] \in Seq(Version) /\ log'[e] \in Seq(Version)
      /\ Len(log[e]) <= Len(log'[e])
      /\ \A i \in DOMAIN log[e] : i \in DOMAIN log'[e] /\ log'[e][i] = log[e][i]
  BY LogStep DEF IInv, LogGrows, TypeOK
<1>2. Len(log[e]) # Len(log'[e])
  BY <1>1
<1>3. ctrlAt[e] <= Len(log[e]) /\ ctrlAt[e] \in Nat
  BY DEF IInv, PositionsOK, TypeOK
<1>4. QED
  BY <1>1, <1>2, <1>3

(* What is current is unsent exactly if it has no providerID.              *)
LEMMA CurrentFacts ==
    ASSUME IInv, NEW e \in Emails, Exists(Current(e)), Current(e).providerID = 0
    PROVE  /\ At(e, Len(log[e])) = Current(e)
           /\ ~IsEmailAlreadySent(Current(e))
<1>1. At(e, Len(log[e])) = Current(e)
  BY DEF At, Current, CurrentOf
<1>2. Len(log[e]) \in DOMAIN log[e] /\ Current(e) = log[e][Len(log[e])]
  <2>1. log[e] \in Seq(Version)
    BY DEF IInv, TypeOK
  <2>2. Len(log[e]) # 0
    BY DEF Current, CurrentOf, VersionAt, Exists, Absent
  <2>3. QED
    BY <2>1, <2>2 DEF Current, CurrentOf, VersionAt
<1>3. Current(e).delivered \notin AllowedEvents
  BY <1>2 DEF IInv, Accounts
<1>4. DeliveredStatus(Current(e)) # "True"
  BY <1>3 DEF DeliveredStatus
<1>5. QED
  BY <1>1, <1>4 DEF IsEmailAlreadySent

LEMMA TimerSet ==
    ASSUME TypeOK, NEW e \in Emails, NEW why \in {"backoff", "retry"}, AddAfter(e, why)
    PROVE  /\ timer'[e] # "none"
           /\ \A f \in Emails : f # e => timer'[f] = timer[f]
  BY DEF AddAfter, TypeOK

LEMMA StrandedStep ==
    ASSUME WaitsArePositive, IInv, IInv', NoEmailStranded, [Next]_vars
    PROVE  NoEmailStranded'
<1> SUFFICES ASSUME NEW e \in Emails, Exists(Current(e))', (Current(e).providerID = 0)'
             PROVE  Pending(e)'
  BY DEF NoEmailStranded, Pending
<1> USE DEF IInv
<1>1. CASE UNCHANGED ctrlAt /\ log'[e] # log[e]
  BY <1>1, ChangeIsUnseen DEF Pending
<1>2. ASSUME log'[e] = log[e]
      PROVE  /\ Exists(Current(e)) /\ Current(e).providerID = 0
             /\ Pending(e)
             /\ At(e, Len(log[e])) = Current(e)
             /\ ~IsEmailAlreadySent(Current(e))
  <2>1. Exists(Current(e)) /\ Current(e).providerID = 0
    BY <1>2 DEF Exists, Current
  <2>2. QED
    BY <2>1, CurrentFacts DEF NoEmailStranded, Pending
<1>3. CASE UNCHANGED ctrlVars
  <2>1. CASE log'[e] = log[e]
    BY <1>2, <1>3, <2>1 DEF Pending, ctrlVars
  <2>2. QED
    BY <1>1, <1>3, <2>1 DEF ctrlVars
<1>4. CASE CtrlNext
  <2>1. ASSUME NEW f \in Emails, Observe(f) PROVE Pending(e)'
    <3>1. log'[e] = log[e]
      BY <2>1 DEF Observe, worldVars
    <3>2. CASE f = e
      BY <2>1, <3>2 DEF Observe, Pending
    <3>3. CASE f # e
      BY <1>2, <2>1, <3>1, <3>3 DEF Observe, Pending, TypeOK
    <3>4. QED
      BY <3>2, <3>3
  <2>2. ASSUME NEW f \in Emails, TimerFires(f) PROVE Pending(e)'
    <3>1. log'[e] = log[e]
      BY <2>2 DEF TimerFires, worldVars
    <3>2. CASE f = e
      BY <2>2, <3>2 DEF TimerFires, Pending
    <3>3. CASE f # e
      BY <1>2, <2>2, <3>1, <3>3 DEF TimerFires, Pending, TypeOK
    <3>4. QED
      BY <3>2, <3>3
  <2>3. ASSUME NEW f \in Emails, StartReconcile(f) PROVE Pending(e)'
    <3>1. log'[e] = log[e]
      BY <2>3 DEF StartReconcile, worldVars
    <3>2. CASE f # e
      BY <1>2, <2>3, <3>1, <3>2 DEF StartReconcile, Take, Pending
    <3>3. CASE f = e /\ ctrlAt[e] = Len(log[e])
      <4>1. Cached(e) = Current(e)
        BY <1>2, <3>1, <3>3 DEF Cached
      <4>2. worker' = [step |-> "send", email |-> e, read |-> ctrlAt[e]]
        BY <1>2, <2>3, <3>1, <3>3, <4>1 DEF StartReconcile
      <4>3. worker' # Idle /\ worker'.email = e
        BY <4>2 DEF Idle
      <4>4. QED
        BY <4>3 DEF Pending, Idle
    <3>4. CASE ctrlAt[e] # Len(log[e])
      <4>1. ctrlAt[e] < Len(log[e])
        BY <3>4 DEF PositionsOK, TypeOK
      <4>2. QED
        BY <2>3, <3>1, <4>1 DEF StartReconcile, Pending
    <3>5. QED
      BY <3>2, <3>3, <3>4
  <2>4. CASE SendAccepted \/ \E text \in Failures, accepted \in BOOLEAN :
                                SendFails(text, accepted)
    <3>1. log'[e] = log[e] /\ UNCHANGED <<ctrlAt, queue, timer>>
      BY <2>4 DEF SendAccepted, SendFails
    <3>2. worker' # Idle /\ worker'.email = worker.email
      BY <2>4 DEF SendAccepted, SendFails, Idle
    <3>3. QED
      BY <1>2, <3>1, <3>2 DEF Pending, Idle
  <2>5. CASE RecordSent
    <3>1. UNCHANGED <<ctrlAt, queue, timer>>
      BY <2>5 DEF RecordSent
    <3>2. CASE log'[e] = log[e]
      <4>1. worker # Idle
        BY <2>5 DEF RecordSent, Idle
      <4>2. worker.email # e
        <5> SUFFICES ASSUME worker.email = e PROVE FALSE
          OBVIOUS
        <5>1. Stores(e, StatusToWrite) /\ StatusToWrite \in Version
          BY <2>5, WrittenType DEF RecordSent, UpdateEmailStatus, Stores
        <5>2. log'[e] = Publish(log[e], StatusToWrite)
          BY <5>1, StoreFacts DEF TypeOK
        <5>3. log[e] \in Seq(Version)
          BY DEF TypeOK
        <5>4. log[e][Len(log[e])] = StatusToWrite /\ log[e] # << >>
          <6> HIDE DEF IInv
          <6>1. Publish(log[e], StatusToWrite) # << >>
            BY <5>1, <5>3, PublishFacts
          <6>2. Publish(log[e], StatusToWrite)
                    [Len(Publish(log[e], StatusToWrite))] = StatusToWrite
            BY <5>1, <5>3, PublishFacts
          <6>3. Publish(log[e], StatusToWrite) = log[e]
            BY <3>2, <5>2
          <6>4. QED
            BY <6>1, <6>2, <6>3
        <5>5. StatusToWrite.providerID = worker.id
          <6>1. Sending \in Version
            BY <4>1, SendingFacts
          <6>2. worker.step = "record"
            BY <2>5 DEF RecordSent
          <6>3. QED
            BY <6>1, <6>2 DEF StatusToWrite, Version
        <5>6. worker.id # 0
          <6>1. worker.id \in DOMAIN messages /\ messages \in Seq(Message)
            BY <2>5 DEF RecordSent, InProgress, TypeOK
          <6>2. QED
            BY <6>1
        <5>7. Current(e).providerID # 0
          BY <5>3, <5>4, <5>5, <5>6 DEF Current, CurrentOf, VersionAt
        <5>8. QED
          BY <1>2, <3>2, <5>7
      <4>3. QED
        BY <1>2, <3>1, <3>2, <4>2 DEF Pending
    <3>3. QED
      BY <1>1, <3>1, <3>2
  <2>6. CASE RecordFailure
    <3>1. UNCHANGED <<ctrlAt, queue>>
      BY <2>6 DEF RecordFailure
    <3>2. worker # Idle
      BY <2>6 DEF RecordFailure, Idle
    <3>3. worker.email \in Emails
      BY <3>2, SendingFacts
    <3>4. AddAfter(worker.email, "retry")
      BY <2>6, <3>3 DEF RecordFailure, RequeueAfter, WaitsArePositive
    <3>5. /\ timer'[worker.email] # "none"
          /\ \A f \in Emails : f # worker.email => timer'[f] = timer[f]
      BY <3>3, <3>4, TimerSet
    <3>6. CASE log'[e] = log[e]
      BY <1>2, <3>1, <3>5, <3>6 DEF Pending
    <3>7. QED
      BY <1>1, <3>1, <3>6
  <2>7. CASE StatusUpdateFails
    <3>1. UNCHANGED <<ctrlAt, queue>> /\ AddAfter(worker.email, "backoff")
      BY <2>7 DEF StatusUpdateFails
    <3>2. worker # Idle
      BY <2>7 DEF StatusUpdateFails, Idle
    <3>3. worker.email \in Emails
      BY <3>2, SendingFacts
    <3>4. /\ timer'[worker.email] # "none"
          /\ \A f \in Emails : f # worker.email => timer'[f] = timer[f]
      BY <3>1, <3>3, TimerSet
    <3>5. CASE log'[e] = log[e]
      BY <1>2, <3>1, <3>4, <3>5 DEF Pending
    <3>6. QED
      BY <1>1, <3>1, <3>5
  <2>8. ASSUME NEW f \in Emails, Resync(f) PROVE Pending(e)'
    BY <1>2, <2>8 DEF Resync, Pending
  <2>9. ASSUME NEW f \in Emails, LookupFails(f) PROVE Pending(e)'
    <3>1. log'[e] = log[e]
      BY <2>9 DEF LookupFails
    <3>2. /\ timer'[f] # "none"
          /\ \A g \in Emails : g # f => timer'[g] = timer[g]
      BY <2>9, TimerSet DEF LookupFails
    <3>3. QED
      BY <1>2, <2>9, <3>1, <3>2 DEF LookupFails, Take, Pending
  <2>10. CASE RestartManager
    <3>1. PICK at \in [Emails -> UNION {0..Len(log[f]) : f \in Emails}] :
            /\ \A f \in Emails : at[f] <= Len(log[f])
            /\ ctrlAt' = at
            /\ queue' = {f \in Emails : Exists(At(f, at[f]))}
      BY <2>10 DEF RestartManager
    <3>2. log' = log
      BY <2>10 DEF RestartManager
    <3>3. CASE at[e] = Len(log[e])
      <4>1. Exists(At(e, at[e]))
        BY <1>2, <3>2, <3>3
      <4>2. QED
        BY <3>1, <4>1 DEF Pending
    <3>4. CASE at[e] # Len(log[e])
      <4>1. at[e] \in Nat /\ Len(log[e]) \in Nat
        BY <3>1 DEF TypeOK
      <4>2. at[e] < Len(log[e])
        BY <3>1, <3>4, <4>1
      <4>3. QED
        BY <3>1, <3>2, <4>2 DEF Pending
    <3>5. QED
      BY <3>3, <3>4
  <2>11. QED
    BY <1>4, <2>1, <2>2, <2>3, <2>4, <2>5, <2>6, <2>7, <2>8, <2>9, <2>10
       DEF CtrlNext, InformerNext, QueueNext, ReconcileNext, CtrlDisturbed
<1>5. QED
  BY <1>3, <1>4 DEF Next, vars

THEOREM NeverStranded ==
    ASSUME WaitsArePositive
    PROVE  Spec => []NoEmailStranded
<1>1. Init => NoEmailStranded
  BY DEF Init, WorldInit, NoEmailStranded, Current, CurrentOf, VersionAt, Exists, Absent
<1>2. IInv /\ IInv' /\ NoEmailStranded /\ [Next]_vars => NoEmailStranded'
  BY StrandedStep
<1>3. QED
  BY <1>1, <1>2, Invariant, PTL DEF Spec

============================================================================
