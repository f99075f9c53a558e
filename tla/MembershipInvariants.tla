------------------------ MODULE MembershipInvariants ------------------------
(***************************************************************************)
(* What it rests on that a membership is at Resend while it says so and is *)
(* not once it is gone: of a Contact that is never edited                  *)
(* (MaxGeneration <= 1), with caches that do not go back (~RelistLags).    *)
(***************************************************************************)
EXTENDS Memberships

(***************************************************************************)
(* The Contact.  FirstVersions: whatever is on record is contact 1,        *)
(* recorded for the first generation, and neither the record nor a         *)
(* deletion is undone.  OneContact: Resend is never asked for another, and *)
(* contact 1 is taken away only when nobody acts for it any more.          *)
(* ContactInHand: what the worker is about.                                *)
(***************************************************************************)
OfFirstGeneration(v) ==
    /\ v.email = log[1].email
    /\ ~v.terminating => v.generation = 1
    /\ \/ v.providerID = 0 /\ v.conditions.resendReady = "none"
       \/ /\ v.providerID = 1 /\ contacts # << >>
          /\ v.conditions.resendReady # "none" /\ v.conditions.updatedAt = 1

FirstVersions ==
    /\ \A i \in DOMAIN log : Exists(log[i]) => OfFirstGeneration(log[i])
    /\ \A i, j \in DOMAIN log : i <= j /\ Exists(log[j]) =>
         /\ log[i].terminating => log[j].terminating
         /\ log[i].providerID # 0 => log[j].providerID # 0

OneContact ==
    /\ Len(contacts) <= 1
    /\ contacts # << >> => contacts[1].email = log[1].email
    /\ contacts # << >> /\ ~contacts[1].live =>
         /\ Exists(Cached) => Cached.terminating
         /\ worker # Idle => Reading.terminating

ContactInHand ==
    /\ ctrlAt > 0
    /\ worker # Idle =>
         /\ worker.read <= ctrlAt
         /\ \/ worker.step = "create" /\ ~Reading.terminating /\ Reading.providerID = 0
            \/ worker.step = "patch" /\ ~Reading.terminating
                 /\ worker.id = 1 /\ contacts # << >>
            \/ worker.step \in {"remove", "evict", "check", "release"}
                 /\ Reading.terminating

UneditedContact == FirstVersions /\ OneContact /\ ContactInHand

(***************************************************************************)
(* The membership.  CgmFollow: its finalizer and its deletion are not      *)
(* undone.  CgmInHand: what the worker is about; it takes out the contact  *)
(* that was added, and a status follows a contact that is in.              *)
(* TakenInTheEnd: the contact is taken out only when nobody adds it any    *)
(* more, and before the object goes.                                       *)
(***************************************************************************)
CgmFollow ==
    \A i, j \in DOMAIN cgmLog : i <= j /\ cgmLog[j].exists =>
        /\ cgmLog[i].terminating => cgmLog[j].terminating
        /\ cgmLog[i].finalizer => cgmLog[j].finalizer

CgmInHand ==
    cgmWorker # Idle =>
        /\ cgmWorker.read <= cgmAt
        /\ cgmWorker.contact # 0 /\ Exists(Cached) => Cached.providerID # 0
        /\ cgmWorker.step \in {"add", "status"} => CgmReading.finalizer
        /\ cgmWorker.step = "status" => members # {}
        /\ cgmWorker.step \in {"take", "release"} => CgmReading.terminating
        /\ cgmWorker.step = "take" /\ members # {} => cgmWorker.contact = 1
        /\ cgmWorker.step = "release" => members = {}

NobodyAdds ==
    /\ cgmAt > 0 /\ (CachedCgm.exists => CachedCgm.terminating)
    /\ cgmWorker.step \notin {"adopt", "add", "status"}

TakenInTheEnd ==
    /\ members # {} => CurrentCgm.finalizer
    /\ members # {} /\ Exists(Cached) => Cached.providerID # 0
    /\ \A i \in DOMAIN cgmLog : cgmLog[i].created => members # {} \/ NobodyAdds
    /\ cgmLog # << >> /\ ~CurrentCgm.exists =>
         NobodyAdds \/ \A i \in DOMAIN cgmLog : ~cgmLog[i].finalizer

BackedUnedited ==
    UneditedContact /\ CgmFollow /\ CgmInHand /\ TakenInTheEnd

============================================================================
