# email-provider-resend in TLA+

This directory holds a formal model of the Resend e-mail provider: TLA+
modules translated from the Go code, TLC configurations that check them on
small instances, and proofs that TLAPS checks for every value of the
constants. Paths are relative to the repository's root.

## The system

Two processes share nothing but the Kubernetes API server and Resend's HTTP
API.

The **manager** (`cmd/manager.go`) runs five controllers. Each reconciles one
kind of object: it reads the object from an informer cache, which may be
behind the API server, calls Resend through `emailprovider.Service`, and
writes back a status. It has one worker goroutine per controller and, with
leader election, one active replica.

The **webhook server** (`cmd/webhook.go`) receives Resend's calls about
messages and contacts. Each HTTP request is a goroutine. A request finds the
object by the provider id in its status, in the server's own cache, and
writes the status as well.

Neither process keeps any state of its own that survives a restart: what is
to be remembered must be in a status, in Resend, or in the work queue and
caches that a restart empties. Most hard behaviours follow from that.

| Component | State | Operations | Meets |
| --- | --- | --- | --- |
| Email controller (`internal/controller/email_controller.go`) | `Email.status`: providerID, Delivered condition; work queue, delayed requeues | `Reconcile`, `updateEmailStatus` | Resend's send call, the e-mail webhook in the same status |
| E-mail webhook handler (`internal/webhook/email_webhook.go`) | none but its cache | look up by providerID, write Delivered, create a Kubernetes Event | the controller's writes, other requests |
| Contact controller (`contact_controller.go`) | `Contact.status`: providerID, ResendContactReady, Updated, Ready; finalizer | create, replace (delete and create), finalize; ask memberships to be created again | contact webhook and the Loops operator in the same status, memberships |
| Contact webhook handler (`contact_webhook.go`) | none but its cache | turn an event into ResendContactReady, Updated or Deleted | the controller's writes |
| ContactGroup controller (`contactgroup_controller.go`) | `ContactGroup.status`: providerID, Ready, Updated; finalizer | create a segment, record an edit, finalize | memberships |
| ContactGroupMembership controller (`contactgroupmembership_controller.go`) | status with ids of contact and segment; finalizer | create or re-create the membership at Resend, delete it | Contact and ContactGroup statuses, their finalizers, removals |
| ContactGroupMembershipRemoval controller (`contactgroupmembershipremoval_controller.go`) | a Ready condition | delete the membership object | the membership's finalizer |
| Webhook gateway (`internal/webhook/http.go`) | signature key per endpoint, field indexes | check the signature, parse, hand to the endpoint's handler | Resend |
| Provider service and client (`internal/emailprovider`) | none | send, with the uid in a header of the message; create, delete, replace contacts; segments; memberships | Resend |
| Configuration, templates, commands | none | validate flags, render text, wire the above | |

### What makes it hard

- **Stale reads.** A reconciliation decides from a cache that may not hold the
  controller's own last write, let alone another writer's.
- **Two remote systems, no transaction.** A crash, a conflict or a lost answer
  between the call of Resend and the status write leaves Resend ahead of the
  record. Contacts are found again by their address; segments have nothing;
  e-mails have an idempotency key that does not reach the request (see
  email_sent_twice below).
- **Several writers of one status.** `Update` with a resourceVersion is refused
  when the object has moved; the contact controller's merge patch carries none
  and never is.
- **Reports in any order.** Resend calls the webhook when it likes, again until
  it is answered 200, possibly before the id is recorded, after the object is
  gone, or about a contact that was replaced.
- **Liveness by returning errors.** No component polls; what is to be done again
  depends on an error return, a `RequeueAfter`, or a watch event.

### What would make each part correct

- *Email*: one message per object however often it is retried (the code does
  not keep this); the recorded id is that of a message of the object and stays
  on record; a webhook's status is Resend's report and is not
  overwritten by the controller; no Email is forgotten; every Email that stays
  is eventually recorded as sent.
- *Contact*: the address at Resend ends up the one in the spec; an edit is not
  mistaken for a processed one; a confirmation is about the contact on record;
  Ready is true only when both providers have the contact; deletion removes
  what was recorded and completes.
- *ContactGroup*: a live group keeps its segment, a deleted one leaves none it
  had recorded; deletion completes.
- *Membership and removal*: a membership that claims to be created exists at
  Resend for the current contact; nobody stays in a segment after the
  membership is gone; a Ready removal means the membership is leaving; no
  circular wait between finalizers.
- *Gateway*: only signed events reach a handler, and every request is answered.

## The modules

    KubeObjects    what the API server and client-go promise
    ResendEvents   the event types and what an e-mail event becomes
    EmailLedger    abstract: what anybody may observe of Emails and messages
    EmailWorld     API users + Resend, for Emails
      EmailController, EmailWebhook
        EmailDelivery           composition, properties, refinement mapping
          MCEmailDelivery       instances for TLC
          EmailDeliveryProofs   proofs
            EmailLedgerProofs   EmailDelivery implements EmailLedger
    ContactWorld   API users + Loops + Resend, for a Contact
      ContactController, ContactWebhook
        ContactSync             composition, properties
          ContactInvariants     the inductive invariants of the proofs about
                                records and edits
          MCContactSync         instances for TLC
          ContactSyncProofs     proofs: what holds of any run
            ContactRecordsProofs    records; no edit, any faults
              ContactEditsProofs    one edit
    GroupSync      a ContactGroup, its controller and its segments
      GroupSyncProofs           proofs
    MembershipWorld   ContactController + an instance of GroupSync, users,
                      memberships, removals, who is in a segment
      MembershipController, RemovalController
        Memberships             composition of the five, properties
          MembershipInvariants  the inductive invariant about an unedited Contact
          MCMemberships         instances for TLC
          MembershipsProofs     proofs: what holds of any run
            MembershipBackedProofs  the membership of an unedited Contact

**Objects and caches.** `log` is the sequence of versions an object was
published with; the resourceVersion is a position in it. A cache is a position
too, which only `Observe` advances in the manager, one version and one enqueue
at a time. The webhook server does nothing when its cache advances, so it
advances as far as it likes when a request reads it. A write that changes
nothing publishes nothing (`Publish`), as on the real server: this decides
whether a failed send that fails the same way again is followed by a watch
event. `Fresh` is optimistic concurrency. Deleted is a version like any other
(uid or generation 0).

**The worker.** `worker` holds what the goroutine carries from one remote call
to the next: which version it read and which id it was given. Every remote
call is one step, so that everything else can happen between two of them. The
decisions in between are taken with the call they lead to, since they read
only the version already in hand.

**Faults.** Each use of `Disturb` takes one of `MaxDisturbances`: a call that
fails, a call that was done but whose answer is lost, a crash of a process, a
periodic resync. Conflicts, stale reads and lagging caches are free.

### EmailController

| In the model | In `email_controller.go` |
| --- | --- |
| `Observe`, `Resync`, `TimerFires`, `AddAfter` | `For(&Email{})`, controller-runtime's queue and delaying queue |
| `StartReconcile`, `IsEmailAlreadySent` | `Reconcile` to the call of Send, `isEmailAlreadySent` |
| `LookupFails` | template or recipient cannot be read |
| `SendAccepted`, `SendFails` | `EmailProvider.Send`; rendering errors are failures of Send; each accepted call is a message with an id of its own (`Accept`) |
| `RecordSent` | first success: providerID and Delivered=Unknown |
| `RecordFailure`, `RequeueAfter` | Delivered=False and `RequeueAfter` by priority |
| `StatusUpdateFails` | the error returns of `updateEmailStatus` |

The text of the Delivered condition is kept, since it decides whether a write
changes anything; `DeliveredStatus` computes the status from it.

### EmailWebhook

`Receive` is the lookup by index (404 when none is found), `UpdateDelivered`
the status update, `CreateEvent` the Kubernetes Event that follows, and
`ListFails`, `UpdateFails`, `CreateEventFails` the three 500 answers. Requests
of several handlers interleave at each of those calls.

### ContactController and ContactWebhook

`FirstStep` is the whole decision of a reconciliation: adopt (add the
finalizer), create, replace, only refresh the status, or remove. `CreateAtResend`
and `DeleteAtResend` are the calls of `CreateContactIdempotent`,
`UpdateContactIdempotent` (delete, then create) and the finalizer.
`AskMemberships`, `EvictMemberships` and `CheckMemberships` are the calls about the
Contact's memberships; they change nothing in this module, and `Memberships`
says what they do there. `Processed` and `VerifyContactReadyCondition` make
the new conditions, and `Patched` applies the merge patch: the list of
conditions is replaced as a whole when it differs from the version read, the
provider id only when it changed.

`Confirmed` is the switch of the webhook handler. A report whose id is found in
no Contact is *settled* (answered 200) without effect.

Of each condition the model keeps what some reader distinguishes, see
`Conditions` in `ContactWorld`.

### GroupSync

One module, since nothing but the controller writes. `FirstStep` is again the
decision; `CreateContactGroup`, `GetContactGroup` and `DeleteContactGroup` are the
calls of Resend, `EvictMemberships` and `CheckMemberships` those about memberships;
`ToWrite` is what the single write stores, by `Update` for the finalizer
and `Status().Update` otherwise. After an edit the code sets the Updated
condition and never moves the generation of Ready (`contactgroup_controller.go:214-223`);
so does `ToWrite`.

### Memberships

The four objects of a membership have four caches in one process, and four
controllers act on them. `MembershipWorld` extends `ContactController` and takes
`GroupSync` as an instance (`Group`), both unchanged, so that what is proved and
checked of them alone stays what they do here. The composition adds a second
conjunct to each of their calls about memberships:

| In the model | In the code |
| --- | --- |
| `AskMemberships /\ RequestUpdate`, `AskRefused` | `contact_controller.go:249-273`: list the memberships, `Status().Update` each with UpdateRequested; a conflict fails the whole update |
| `EvictMemberships /\ EvictListed` | both finalizers: list and delete the memberships |
| `CheckMemberships /\ NobodyLeft`, `WaitForMemberships`, `GroupWaits` | the second list, which must be empty; then the removals are deleted |
| `ContactEvent` | the membership controller's watch on Contacts, for update events only |
| `CgmFirstStep` | finalize, adopt, create, create again, or only refresh the status |
| `References` | the `Get`s of the Contact and the group, whose failure is retried for good |
| `AddMember`, `AddRefused`, `TakeMember` | `CreateContactGroupMembershipIdempotent`, `DeleteContactGroupMembershipIdempotent` |
| `CgmToWrite`, `CgmWrite` | the one write, by `Update` or `Status().Update`, both with a resourceVersion |
| `AlreadyReconciled`, `DeleteMemberships`, `RecordRemoval` | the removal controller |
| `RestartAll`, `ResyncAll` | the whole manager starts again or resyncs |

Every list and delete of one loop is one step: there is one membership and one
removal. `IsMember` is what Resend would answer; deleting a contact or a segment
ends a membership (`contactgroupmembership_controller.go:204`), which is why no
step of the model removes it from `members` then.

Two things the code does are left out because nothing reads them:
`status.username` of a membership (set before `oldStatus` is copied, lines
164-169, so it is stored only along with another change) and its providerID.
The contact webhook is not part of this composition: it writes conditions of
the Contact that no membership step reads.

### EmailLedger

The abstract specification knows neither caches nor queues nor retries: a
record per name, the messages Resend has accepted, and what it has reported. An
object may be handed over any number of times (`Send`), which is all the code
ensures. A record may come to show a failure or a message of its own while it has
none, and from then on only that message and what was reported of it (`Shows`).
`EmailDelivery` maps its state to the ledger's in
`Ledger == INSTANCE EmailLedger WITH ...`: the record is the stored object, what
happens in caches, queue, timers and handlers is a stutter.

## What the runs check

All runs set `CHECK_DEADLOCK FALSE`: once the objects are handled and the users
rest, the system rightly has nothing to do.

| Run | Instance | Shows |
| --- | --- | --- |
| email_faults | one name used for two objects, 2 faults, 1 webhook call, fairness | `RecordedIdIsKept`, `WebhookStatusNotOverwritten`, `NoEmailStranded`, `EventuallyRecorded`, the inductive invariant `IInv`, and the refinement `ImplementsLedger` |
| email_two | two names, two handlers, two kinds of report, 2 calls, no faults | `RecordedIdIsTheMessage`, `StatusIsResendsReport`, `AnnouncedWasRecorded` |
| contact_edits | two generations, Loops writes too, 1 webhook call, no faults, fairness | `ObservedWasProcessed`, `ReplacedIsGone`, `ConfirmsWhatWasReported`, `RecordedWhenThere`, `EventuallyInSync` |
| contact_faults | one generation, 2 faults, 1 webhook call (contact.updated included) or the Loops provider's report, fairness | `NoContactStranded`, `ReadyIsBacked`, `GoneFromResend`, `DeletionCompletes`, the inductive invariants `IInv` and `RecordsOK` |
| group_sync | two generations, 3 faults, fairness | `TypeOK`, `ReadyGroupHasItsSegment`, `RecordedSegmentsAreCleanedUp`, `NoGroupStranded`, `DeletionCompletes`, `IInv` |
| membership_sync | two generations of the Contact, Loops reports on the membership, 1 fault, fairness | `ClaimedMembershipIsBacked`, `NoMembershipStranded`, `LoopsReportIsKept`, `EventuallyMember` |
| membership_teardown | Contact, group and membership deleted in any order, or the membership removed while the Contact is deleted, 1 fault, fairness | `TypeOK`, `NobodyLeftBehind`, `MembershipGoesFirst`, `RemovedIsLeaving`, `GoesOnWithoutIt`, `DeletionsComplete`, `RemovalTakesEffect`, the inductive invariants `IInv` and `BackedUnedited` |

Every property of these runs has a mutant: a plausible mistake in one
definition (`Mutant...`, stated just before it) that makes TLC find the
property violated.

The other runs have one property each, taken from a comment, a test or a
document, which the code does not keep:

| Run | What happens |
| --- | --- |
| email_sent_twice | Resend accepts a message, the status update that records it fails, and the retry sends a second one. `resend_provider.go:39-41` sets the key as a header of the message; the request carries none. |
| email_retry_wait | The status write of a failed send is a watch event of the very Email, which is sent again at once instead of after the configured wait. |
| contact_lost_edit | A confirmation arriving after a further edit sets `ObservedGeneration` to a generation nobody processed: the edit never reaches Resend. |
| membership_lost | A second edit asks again for a membership whose first re-creation is under way. Setting a condition that is set publishes nothing, and the first answer clears it: the membership claims to be there, the contact is in no segment. |
| membership_orphaned | A Contact is deleted before the manager's cache shows its membership. The finalizer finds nothing to wait for; the membership's finalizer then needs a Contact that is gone. |

### Where the passing runs stop

The passing contact runs keep edits and faults apart: contact_edits has the
edit, contact_faults the faults. Inside those limits the properties hold; across
them the code breaks some of them, which can be seen by changing one line of a
configuration:

- `ContactFaults.cfg` with `MaxGeneration = 2` violates `NoContactStranded`. A
  reconciliation that reads a version older than the controller's last status
  write repeats `UpdateContactIdempotent`; it deletes the live contact, the
  creation that follows fails, and the retry finds the generation already
  recorded (`contact_controller.go:228`), so nothing is tried again.
- `ContactEdits.cfg` with `MaxGeneration = 3` violates `ObservedWasProcessed`: this
  is contact_lost_edit. With `"contact.updated"` among the reported events one edit
  is enough, since that report records the generation it finds even when no update
  is pending (`contact_webhook.go:79-88`). Resend sends it when a contact is changed
  in place, which this operator never does, so that contact_edits leaves it out;
  `ReplacedIsGone`, `ConfirmsWhatWasReported` and `RecordedWhenThere` hold with it.
- `ReadyIsBacked` is about an unedited Contact: with an edit and a fault a
  Contact can be Ready for the current generation without a contact at Resend, by
  the same failing second call.
- A confirmation can come to stand beside the id of a contact it was not
  reported of. What a request writes is about the contact on record at that moment
  (`ConfirmsWhatWasReported`, checked and proved without conditions). But a later
  patch of the controller, from a version read before (the manager was restarted
  and relists from a replica that lags, or `contact.updated` confirms early),
  stores the old list of conditions beside a new id. No property forbids that.
- `ReplacedIsGone` is about an edit of a contact on record. An edit that comes
  before the first id is recorded can leave a contact behind: the controller
  creates one for the old address and records it over the edit; it then reads
  the edited version, which has no id yet, takes it for a first creation
  (`contact_controller.go:198`), and records a second contact over the first.
  Nothing deletes the first. The property asked of every id ever recorded
  fails at once, and as it stands it fails with `MaxGeneration = 3`.
- `MembershipSync.cfg` with `Addresses = {a1, a2}` violates
  `ClaimedMembershipIsBacked` for the same reason, without a fault: the membership
  was made for the first contact, and nobody asks for it again.
  `NobodyLeftBehind` then fails in `MembershipTeardown.cfg` with two generations and
  both addresses: the first contact stays in the segment.
- `MembershipSync.cfg` with `MaxGeneration = 3` violates
  `ClaimedMembershipIsBacked`: this is membership_lost.
- `MembershipTeardown.cfg` with `UsersWait = FALSE` violates
  `MembershipGoesFirst` (membership_orphaned) and `RemovedIsLeaving`: a removal
  that is created right after its membership finds none in the cache and
  reports "Contact Group Membership Removal completed"
  (`contactgroupmembershipremoval_controller.go:113`).
- `RelistLags = TRUE` in the membership runs, a restarted manager that lists
  from a replica which lags, violates `ClaimedMembershipIsBacked` and
  `NobodyLeftBehind`.
- `EmailFaults.cfg` with `Wait <- WaitZeroHigh` violates `NoEmailStranded`. A wait
  of 0 passes the check in `emailcontroller_config.go:32`, whose message says
  "must be greater than 0"; `RequeueAfter: 0` asks for nothing, and a second
  failure with the same text is no watch event. The theorem `NeverStranded`
  therefore assumes positive waits.

Three disagreements between the code and what it says about itself have no run:

- `contact_webhook.go:91` promises "Confirm previously pending update instead of
  marking deleted." UpdatePending is stored only after the delete and the
  create (`contact_controller.go:228-280`), so the report of that delete can find
  the condition not pending and mark a live Contact as deleted.
- `contact_controller.go:281-282` expects `errors.IsConflict`, "Conflict patching
  contact status; requeuing". The merge patch carries no resourceVersion, is
  never refused, and replaces the whole list of conditions: what the Loops
  provider set on the Contact meanwhile is gone. (The membership controller
  updates instead, where `LoopsReportIsKept` holds.)
- `utils.go:10` says "we need to use a deterministic name for the contact group"
  and `contactgroup_controller_test.go:61` "ListContactGroups returns empty,
  triggering CreateContactGroup". Nothing lists: when the status write after
  `CreateContactGroup` conflicts with an edit, the retry creates a second
  segment and the first is never removed. `GetContactGroupByDisplayName` is
  called by nothing.

Two more observations have no property. A report about a contact whose id is
not recorded yet is answered 200 (`contact_webhook.go:36-38`), so Resend does not
repeat it and the Contact stays pending; the e-mail handler answers 404. And
the comment at `email_controller.go:113` calls the name of the Email its
idempotency key, which is the uid (`service.go:81`).

### Bounds

Each bound is a constant named in its module and guards one action, so that a
bound only shortens behaviours.

- `MaxUid`: two objects of one name are enough for a deletion and a new creation
  to fall into every point of a send.
- `MaxMessages`: the messages of one object that are told apart. Past it a message
  takes the place of one of the same object that no version records. At most one
  message of an object is ever on record (`RecordedIdIsKept`), so that 2 always
  leave one: the recorded message and the latest attempt. email_two has 1, since
  without faults nothing that was sent is sent again: a name is reconciled a second
  time only for a later version, and until the first success only a failure
  publishes one.
- `MaxDisturbances`: two faults let a crash follow a lost answer or a failed
  write, three let both come first. Two Emails need none: their work meets
  nowhere but in the queue and in the index, and email_faults has the faults.
  The membership runs have one fault for four controllers.
- `MaxDeliveries`: two calls are the smallest race; reports being repeated adds
  nothing the second call does not have. `FairSpec` runs have one.
- `MaxGeneration`: the second generation is an edit, which may come before,
  during or after the first creation; the third, an edit during an update, is
  where contact_lost_edit and membership_lost are found.
- `UserDeletes`, `UserRemoves`: what the users do in an instance. `UsersWait`: users
  delete or remove what a membership belongs to only after the manager's cache
  has shown the membership, and create it only for objects in use. It is a
  hypothesis about users that the code needs, as the violations without it
  show. `RelistLags`: whether a restarted manager may see memberships of the past.
- One address in the membership runs, so that an edit changes something else of
  the spec. An edit of a contact on record gives it a new id either way. Only
  an edit during the first creation needs a new address to make a second
  contact; what that does to memberships is told above.
- `OneRequest`, an action constraint of membership_teardown: the membership is
  either taken away by a removal or deleted itself or with its group, not both; the
  Contact may be deleted in either case. `LoopsOrWebhook`, one of contact_faults:
  beside the controller and the faults either the webhook or the Loops provider
  writes the status; contact_edits has both. What either leaves out are choices of
  users, of Resend or of the Loops provider, none of whom is under fairness, so no
  behaviour is cut short. The combinations left out are covered by the theorems for
  every safety property of those runs but `MembershipGoesFirst` and
  `RemovedIsLeaving`.
- The group of the membership runs starts with its segment and is not edited;
  group_sync has that. The Contact starts either recorded or about to be
  created at Resend. `ContactIsUser` is TRUE: with FALSE a Ready removal is done
  again at every event, which only deletes more.
- `MaxSegments`: segments are created without limit while conflicts last, so
  past the bound the new one takes the place of one that no version records.
  At most one is ever recorded (`RecordedSegmentsAreCleanedUp` says so), which
  makes 3 enough.
- The Loops provider reports once. What it would do about a report that was
  undone is not in this repository.
- `Addresses`: two, or one where nothing is edited (contact_faults); an edit
  changes the address or keeps it. In contact_edits the
  Contact begins with the first (`FirstAddress`, an action constraint): addresses
  are interchangeable, so the other behaviours are these renamed. Unlike symmetry
  this is sound with liveness, since the choice it takes away is the user's, who
  is under no fairness.
- Handlers are interchangeable, and `HandlerSymmetry` is used in the runs
  without a liveness property that have two of them.

### Fairness

`FairSpec` assumes weak fairness of the informer's delivery and of the worker's
steps: watch connections are re-established by client-go, a goroutine that is
running is scheduled, and every call has a timeout and returns. A step can be
a failure, but each failure that is not a conflict takes a disturbance, of
which there are finitely many: the assumption that faults end. With several
Emails the queue takes each of them in turn, hence strong fairness of
`StartReconcile(e)`. Among memberships, each controller's worker and each
informer has its own. Nothing is assumed of users, of Resend's reports, of the
Loops operator or of webhook requests, and no proof or liveness property
depends on a restart.

## What is proved

### Emails

`EmailDeliveryProofs` proves, for any sets of Emails, handlers, failure texts and
reported events, any priorities and waits, and any bounds:

| Theorem | Says |
| --- | --- |
| `TypeCorrect` | `Spec => []TypeOK` |
| `Invariant` | `Spec => []IInv` |
| `RecordKept` | `Spec => []RecordedIdIsKept` |
| `Recorded` | `Spec => []RecordedIdIsTheMessage` |
| `Correlated` | `Spec => []StatusIsResendsReport` |
| `NotOverwritten` | `Spec => []WebhookStatusNotOverwritten` |
| `Announced` | `Spec => []AnnouncedWasRecorded` |
| `NeverStranded` | if every wait is positive, `Spec => []NoEmailStranded` |

The assumptions are those stated in the modules: the bounds are natural
numbers, the reported events are event types of the code, failure texts are
none of the reserved ones, waits are natural numbers. `NeverStranded` needs that
waits are positive; the hypothesis cannot be
dropped (`EmailFaults.cfg` with a zero wait fails).

**Why the invariant is larger than the properties.** None of the properties is
inductive. `WebhookStatusNotOverwritten` speaks of published versions, but what
could break it is a controller holding an old version: one needs that the
version read still had no provider id (`InProgress`), that a write succeeds only
on the last version (`Fresh`), and that a status written by a webhook always has
a provider id (`Accounts`). `RecordedIdIsKept` needs the same of the ids:
messages of one object are many, and what keeps the second off the record is that
the worker holding it read a version without an id. `RecordedIdIsTheMessage` needs in turn that
the id in the worker's hand belongs to the object it read, which holds because
uids are never given out twice (`Accounts` again, with `lastUid`).
`StatusIsResendsReport` needs the same of the request a handler serves. `IInv` is
the conjunction, and is also checked by TLC in `email_faults`.

**How the proof is laid out.** Instead of one case per action for each
conjunct, three lemmas first say who changes what: `EveryWrite` (an `Email` is
written by a user, the controller or a webhook, and how), `EverySend` (Resend's
messages) and `WorkerStep`/`HandlerStep` (what is in progress). `LogStep` and
`MessageStep` derive that logs and messages only grow. Each conjunct then has a
lemma of its own (`AccountsStep`, `OneMessageStep`, ...) that splits on those
cases, and `InvariantStep` combines them. `NeverStranded` is a second induction
on top of the first: its step goes through the actions, since each is a
different reason for an Email to be still under way.

### The ledger

`EmailLedgerProofs` proves `Refinement`, `Spec => ImplementsLedger`, under the same
assumptions: the initial state maps to the ledger's, and every step to a step
of the ledger or a stutter. It stands on the invariant above. A write by the
controller is a `Show` because the version it read had no id and is the stored
one, and the id in its hand is a message of that uid; a write by a handler is
one because the id it looked up is the record's and Resend has reported the
event. A `Send` is of an object there is or was, since the worker sends for a version
it has read.

### Contacts

`ContactSyncProofs` proves, for any addresses, handlers, reported events and any
bounds, so with edits and faults and reports together:

| Theorem | Says |
| --- | --- |
| `ContactTypeCorrect` | `Spec => []TypeOK` |
| `ContactInvariant` | `Spec => []IInv` |
| `ContactGoneFromResend` | `Spec => []GoneFromResend` |

from `ContactBoundsAreNats`, `MaxDeliveriesIsNat` and `ReportedAreContactEvents`.
What threatens `GoneFromResend` is a patch: it is never refused, so the id on
record may change under a finalizer that is about to let the object go. `IInv`
says why it does not: the Update that removes the finalizer is refused unless the
version is the one read (`Fresh`), that version's id is the worker's
(`InProgress`), a contact once deleted stays deleted, and an id is on record only
under the finalizer (`History`), so that an object without one had nothing to
remove. `EveryWrite` and `EveryCall` say who changes what; each conjunct has its
step.

These hold of any run. The other properties hold only inside limits, told in
"Where the passing runs stop", and the limits are hypotheses of their theorems.
They stand on `RecordsOK` of `ContactInvariants`, which needs none:

| Theorem | Hypothesis | Says |
| --- | --- | --- |
| `ContactRecordsAgree` | none | `Spec => []RecordsOK` |
| `UneditedContactKept` | no edit | `Spec => []KeptUnedited` |
| `NoUneditedContactStranded` | no edit | `Spec => []NoContactStranded` |
| `UneditedContactBacked` | no edit | `Spec => [](ObservedWasProcessed /\ ReadyIsBacked)` |
| `EditedContactReplaced` | one edit at most | `Spec => []ReplacedForGood` |
| `ReplacedContactGone` | one edit at most | `Spec => []ReplacedIsGone` |
| `RecordedThere` | none | `Spec => RecordedWhenThere` |
| `ConfirmationsReported` | none | `Spec => ConfirmsWhatWasReported` |

A Contact is created with generation 1 and each edit takes the next, up to
`MaxGeneration`: no edit is `MaxGeneration <= 1`, one at most is `MaxGeneration <= 2`.
The deletion is not counted. All else is free: the sets of addresses, handlers and
reported events, how far caches are behind, when reports come and how often, what
Loops writes, and every fault and restart. `NoContactStranded` and `ReadyIsBacked`
fail with an edit and a fault, `ReplacedIsGone` with a second edit, so that the
hypotheses are where the code stops keeping its promises.

**`RecordsOK`** says what id, conditions, generation and address of one version have
to do with each other, what the worker holds for the version it read (`InHand`)
and that an address has one contact at Resend. Then without an edit (`KeptUnedited`)
the worker deletes nothing before a deletion: that would take a version whose
generation differs from the one its conditions were recorded for.

**`ReplacedForGood`**: the contact that is replaced is deleted before the new one is
created, and a deleted contact never comes back, as a new creation gets a new
id. An id other than that of the edit is therefore on record only if the worker
that recorded it had deleted the other one, or created its own while the edited
version had no id.

**`RecordedThere`**: the id is patched in by the worker that created the contact,
and between the creation and the patch nobody deletes at Resend but that same
worker (`InHand`). The generation the patch records comes from the version it read,
whose address the contact has. **`ConfirmationsReported`**: a request's write is
refused unless the version is the one it looked up (`Fresh`), and what it looked up
was reported (`RequestsReported`).

### ContactGroups

`GroupSyncProofs` proves, for any bounds, all that `group_sync` checks except
liveness:

| Theorem | Says |
| --- | --- |
| `GroupTypeCorrect` | `Spec => []TypeOK` |
| `GroupInvariant` | `Spec => []IInv` |
| `SegmentKept` | `Spec => []ReadyGroupHasItsSegment` |
| `SegmentCleanedUp` | `Spec => []RecordedSegmentsAreCleanedUp` |
| `GroupNeverStranded` | `Spec => []NoGroupStranded` |

The one assumption is `GroupBoundsAreNats`. The properties are about the object
and Resend, and what threatens them is a worker that acts on an old version, so
`IInv` adds what a worker has in hand: it deletes only an id that the version it
read, being deleted, has on record, and deletion is final (`RecordKept`); it
records only a segment that it has just created; it takes the finalizer off only
after the segment was gone (`InProgress`). `NoGroupStranded` needs that a worker
that ends without a write had read the last version the cache delivered or the
group is queued again (`PositionsOK`). `EveryWrite` and `EverySegment` say who
changes what, `Follows` what any write looks like, and each conjunct has its
step on top of those.

### Memberships

`MembershipsProofs` proves, for any addresses, bounds, kinds of objects the users
delete and any faults, edits and lag of caches:

| Theorem | Says |
| --- | --- |
| `MembershipTypeCorrect` | `Spec => []TypeOK` |
| `MembershipInvariant` | `Spec => []IInv` |
| `MembershipNeverStranded` | `Spec => []NoMembershipStranded` |
| `LoopsReportSurvives` | `Spec => LoopsReportIsKept` |
| `GoneWhenLeft` | `Spec => GoesOnWithoutIt` |

from the named assumptions of the modules and no other. `MembershipGoesFirst` and
`RemovedIsLeaving` have no theorem: they need that users wait and that the cache
does not go back, which nothing in the code ensures; under those hypotheses they
are `Cleared`, the last part of `IInv`, and the run checks them.

`NoMembershipStranded` is inductive once it is known (`PositionsOK`) that a
membership in the worker's hand is the last version its cache delivered, unless
it is queued again: a reconciliation that ends without a write then either had
nothing left to do or is behind a version still to be delivered.

`GoneWhenLeft` rests on what an empty list means. The finalizers and the removal
controller decide from a cache that no membership is there. By `History` a version
that does not exist is the last of its log, so that an empty list from a cache that
has noticed the membership at all (`cgmAt > 0`) means that it is gone for good. A
removal that finds the membership deletes what its cache shows (`DeletedIsLeaving`),
hence it is at least being deleted when the removal goes on.

One lemma per variable says who writes it (`EveryCgmWrite`, `EveryRemovalWrite`,
`EveryContactWrite`, `EveryGroupWrite`, `EverySegment`, `EveryCall`) and, on top of
it, what any such write looks like (`CgmKept`, ...) and what any step does to a
worker (`CgmWorkerKept`, ...). Each conjunct of `IInv` then has one step lemma,
which splits on those and not on the actions.

### The membership of a Contact that is not edited

`MembershipBackedProofs` proves, if `NeverEdited` (`MaxGeneration <= 1` and not
`RelistLags`), for any addresses, any faults and restarts, users who wait or do
not, whatever they delete or remove and in whatever order:

| Theorem | Says |
| --- | --- |
| `UneditedMembershipAgrees` | `Spec => []BackedUnedited` |
| `UneditedMembershipBacked` | `Spec => []ClaimedMembershipIsBacked` |
| `UneditedMembershipTakenOut` | `Spec => []NobodyLeftBehind` |

Neither property says who may still act. `ClaimedMembershipIsBacked` could be
broken by a worker that takes the contact out while the object says it is a
member, `NobodyLeftBehind` by one that adds it for a version from before the
deletion. `BackedUnedited` in `MembershipInvariants` excludes both: the membership's
only worker takes a contact out only after it has read the deletion, and its
cache, which only goes forward, then never shows an undeleted version again
(`NobodyAdds`); so once somebody was added and the object records it, the contact
is in or nobody adds any more (`TakenInTheEnd`). That the worker takes out the
contact it added, although it holds the id from when it began (`CgmInHand`), needs
that there is one id only: an unedited Contact is created once, since a repeated
creation finds the contact by its address, and contact 1 is deleted only when
nobody can create again (`UneditedContact`).

Both hypotheses are needed. With `RelistLags` both properties fail, and with an edit
of two addresses both fail: "Where the passing runs stop" tells the stories.
Between them lies an instance that is only checked: one edit that keeps the
address, as in membership_sync, where the contact is replaced and the membership
asked for again.

### Only model-checked

- Liveness (`EventuallyRecorded`, `EventuallyInSync`, `DeletionCompletes`,
  `EventuallyMember`, `DeletionsComplete`, `RemovalTakesEffect`) is out of the
  prover's reach.
- `ClaimedMembershipIsBacked` with one edit that keeps the address
  (membership_sync).
- `ObservedWasProcessed` of an edited Contact (contact_edits; of an unedited one
  `UneditedContactBacked` says it under any faults).
- `MembershipGoesFirst` and `RemovedIsLeaving`, under `UsersWait` and without
  `RelistLags` (membership_teardown).
- Every other property of the runs is stated by a theorem, whose hypotheses the
  run's instance satisfies.

## What is taken as given

- Resend takes every request to send as a new message, as it must while the
  request carries no idempotency key (`resend_provider.go:30-43`).
- Resend knows a contact by its address: creating it again returns its id, as
  the comments on `CreateContactIdempotent` say. Deleting an unknown or empty
  id is NotFound, and so is getting one (`GetContactGroup` before the deletion of a
  segment, `contactgroup_controller.go:123-133`).
- Resend calls a webhook again until it is answered 200.
- The API server orders the versions of an object; a cache may be late, never
  wrong. A restarted process may first see an older version than before.
- A requeue after an error is immediate for Contacts and groups: the delay only
  postpones. For Emails the delay is a state (`timer`), since the configured wait
  is what `RetryWaitIsRespected` is about.
- One Contact, one ContactGroup, one membership and one removal: objects of
  different names meet nowhere else in the code of those controllers. A name is
  not used again after deletion in these modules; with finalizers a second
  object differs only in its uid.
- The objects carry no finalizer but those of this repository. A Contact held by
  another one would, once its own is off, fall through the finalizers of
  `contact_controller.go:172-189` into the switch and be created at Resend again;
  the same goes for the other two kinds.
- A reconciliation of a membership reads the caches of the membership, the Contact
  and the group in one step (`StartMembership`), although the code reads them one
  after the other. The decision depends on each version by itself.
- Resend refuses to add a contact it does not have to a segment, as any error;
  taking out one that is not there is NotFound.

## What is not modelled

- **Webhook gateway**: signature check by svix and JSON parsing. One request is
  handled in sequence and leaves no state, so a model would have nothing that
  several steps could break. `EmailWebhook` and `ContactWebhook` start where the
  handler is called with a parsed event. An event of one endpoint's kind posted
  to the other leaves the handler's event pointer nil; the panic is recovered
  and answered 500 (`http.go:103-108`), at every retry.
- **ListContactGroups, GetContactGroupByDisplayName**: called by nothing.
- **Templates, configuration strings, commands, metrics, TLS, the mock
  provider, deployment manifests**: no state and no order of events.
- Within the modelled parts: logging, messages of conditions, the Kubernetes
  Event of the contact handler (its failure is a 500 after the write), and
  the additional `Get` by which the webhook's client reads from its cache.

## Plan

Done: the modules above, and the theorems above.

Left: `ClaimedMembershipIsBacked` as a theorem with one edit that keeps the
address; several memberships of one Contact, to see the loops of
`contact_controller.go:258` and `:103` stop halfway; an abstract specification of a
Contact, as `EmailLedger` is one of Emails.
