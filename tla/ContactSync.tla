----------------------------- MODULE ContactSync -----------------------------
(***************************************************************************)
(* A Contact kept in step with Resend: the controller creates, replaces    *)
(* and deletes Resend's contact, the webhook server confirms, and the      *)
(* Loops provider reports beside them in the same status.                  *)
(***************************************************************************)
EXTENDS ContactController, ContactWebhook

vars == <<worldVars, ctrlVars, hookVars>>

Init == WorldInit /\ CtrlInit /\ HookInit

Next ==
    \/ WorldNext /\ UNCHANGED <<ctrlVars, hookVars>>
    \/ CtrlNext /\ UNCHANGED hookVars
    \/ HookNext /\ UNCHANGED ctrlVars

Spec == Init /\ [][Next]_vars

(* The informer delivers, the worker takes what is queued and its calls    *)
(* return.  Nothing is assumed of users, Resend's reports, Loops or faults.*)
Fairness ==
    /\ WF_vars(Observe /\ UNCHANGED hookVars)
    /\ WF_vars(ReconcileNext /\ UNCHANGED hookVars)

FairSpec == Spec /\ Fairness

TypeOK ==
    /\ log \in Seq(Version)
    /\ contacts \in Seq([email : Addresses, live : BOOLEAN])
    /\ spare \in Nat
    /\ ctrlAt \in Nat
    /\ queued \in BOOLEAN
    /\ worker \in WorkerStates
    /\ hookAt \in Nat
    /\ handler \in [Handlers -> HandlerStates]
    /\ reported \subseteq (DOMAIN contacts) \X AllowedContactEvents
    /\ deliveries \in Nat

(***************************************************************************)
(* No Contact is left behind: while Resend does not hold, under the id on  *)
(* record, a contact with the address the spec asks for, or while the      *)
(* Contact waits for its finalizer, a reconciliation is due or under way.  *)
(***************************************************************************)
NoContactStranded ==
    Exists(Current) /\ (Current.terminating \/ ~InSync(Current)) =>
        queued \/ worker # Idle \/ ctrlAt < Len(log)

(***************************************************************************)
(* The finalizer lets the object go only when the contact it has on record *)
(* is deleted at Resend, even if the id was recorded after the finalizer   *)
(* had read the object.                                                    *)
(***************************************************************************)
GoneFromResend ==
    \A i \in DOMAIN log :
        i > 1 /\ log[i] = Absent /\ log[i - 1].providerID # 0 =>
            ~contacts[log[i - 1].providerID].live

(***************************************************************************)
(* What that rests on.  PositionsOK: caches and readers stay within the    *)
(* log.  History: a Contact gets an id only under its finalizer, which is  *)
(* never taken off but with the object, and nothing is written after that. *)
(* InProgress: what the worker and the handlers read is as they act on it, *)
(* and once a teardown has called Resend its contact is gone for good.     *)
(***************************************************************************)
PositionsOK ==
    /\ ctrlAt <= Len(log) /\ hookAt <= Len(log)
    /\ worker # Idle => worker.read \in DOMAIN log
    /\ \A h \in Handlers : handler[h] # Free => handler[h].read \in DOMAIN log

History ==
    /\ \A i \in DOMAIN log :
        /\ \/ Exists(log[i]) /\ log[i].email \in Addresses
           \/ i = Len(log) /\ log[i] = Absent
        /\ log[i].providerID \in {0} \cup DOMAIN contacts
        /\ log[i].providerID # 0 => log[i].finalizer
    /\ \A i, j \in DOMAIN log :
        i < j /\ log[i].finalizer /\ Exists(log[j]) => log[j].finalizer

InProgress ==
    /\ worker # Idle => Exists(Reading) /\ worker.id \in {0} \cup DOMAIN contacts
    /\ worker.step \in {"create", "replace", "recreate", "ask", "patch"} =>
        Reading.finalizer
    /\ worker.step \in {"remove", "evict", "check", "release"} =>
        worker.id = Reading.providerID
    /\ worker.step \in {"evict", "check", "release"} /\ worker.id # 0 =>
        ~contacts[worker.id].live
    /\ \A h \in Handlers : handler[h] # Free => Exists(At(handler[h].read))

IInv == TypeOK /\ PositionsOK /\ History /\ InProgress /\ GoneFromResend

(***************************************************************************)
(* What a webhook request writes about a Contact, be it the confirmation   *)
(* of an update, rests on a report of the contact that is on record at the *)
(* moment of the write, not of one that was replaced since the lookup.     *)
(***************************************************************************)
ConfirmsWhatWasReported ==
    [][log' # log /\ handler' # handler =>
          \E type \in AllowedContactEvents :
              <<Current.providerID, type>> \in reported]_vars

(***************************************************************************)
(* An id is put on record only while Resend has a contact under it, of the *)
(* address that the generation it is recorded for asked for, although the  *)
(* spec may have been edited since that address was read and the patch     *)
(* carries no resourceVersion.                                             *)
(***************************************************************************)
RecordedWhenThere ==
    [][Exists(Current') /\ Current'.providerID # Current.providerID =>
          /\ contacts[Current'.providerID].live
          /\ \E i \in DOMAIN log :
               /\ log[i].generation = Current'.conditions.updatedAt
               /\ log[i].email = contacts[Current'.providerID].email]_vars

(***************************************************************************)
(* A Contact that is not edited is Ready only when the other provider has  *)
(* reported it and Resend holds its address under the id on record,        *)
(* whichever of the processes writing its status fail, restart or lag.     *)
(* (With an edit and a fault in one life it can be Ready without: README.) *)
(***************************************************************************)
ReadyIsBacked ==
    Exists(Current) /\ ~Current.terminating /\ worker = Idle
      /\ Current.conditions.ready = "True"
      /\ Current.conditions.readyAt = Current.generation
    => Current.conditions.loopsReady /\ InSync(Current)

(***************************************************************************)
(* "Generation changed since we last processed the object": a generation   *)
(* the Updated condition has observed is one the controller processed, so  *)
(* that Resend was given its address.                                      *)
(***************************************************************************)
ObservedWasProcessed ==
    Exists(Current) /\ ~Current.terminating /\ worker = Idle
      /\ Current.conditions.updatedAt = Current.generation
    => InSync(Current)

(***************************************************************************)
(* "It deletes the existing contact and creates a new one": the contact on *)
(* record when the spec was edited is not at Resend any more once another  *)
(* one is on record, however far behind the controller's cache is.         *)
(***************************************************************************)
EditsSpec(i) ==
    i > 1 /\ log[i].generation > log[i - 1].generation /\ ~log[i].terminating

ReplacedIsGone ==
    \A i \in DOMAIN log :
        EditsSpec(i) /\ log[i].providerID \notin {0, Current.providerID} =>
            ~contacts[log[i].providerID].live

(***************************************************************************)
(* Once the users rest, Resend ends up holding the address the spec asks   *)
(* for, for good; a deleted Contact ends up gone.                          *)
(***************************************************************************)
EventuallyInSync ==
    <>[](Exists(Current) /\ ~Current.terminating => InSync(Current))

DeletionCompletes == Current.terminating ~> ~Exists(Current)

============================================================================
