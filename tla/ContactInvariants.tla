-------------------------- MODULE ContactInvariants --------------------------
(***************************************************************************)
(* What the promises of ContactSync rest on: the inductive invariants of   *)
(* its proofs, each with what it assumes of edits, in a module of their    *)
(* own so that TLC checks them too.                                        *)
(***************************************************************************)
EXTENDS ContactSync

(***************************************************************************)
(* Whatever is edited, fails or lags.                                      *)
(*                                                                         *)
(* VersionsFollow: a Contact's generation only grows and decides address   *)
(* and deletion, an id once recorded is never taken off, and no edit       *)
(* touches it.  RecordAgrees: the id and the conditions are recorded       *)
(* together, and a record of the first generation names its address.       *)
(***************************************************************************)
Precedes(u, v) ==
    /\ u.generation <= v.generation
    /\ u.generation = v.generation => u.email = v.email /\ u.terminating = v.terminating
    /\ u.generation >= MaxGeneration => u.email = v.email
    /\ u.terminating => v.terminating
    /\ u.providerID # 0 => v.providerID # 0

VersionsFollow ==
    /\ \A i, j \in DOMAIN log : i <= j /\ Exists(log[j]) => Precedes(log[i], log[j])
    /\ \A i \in DOMAIN log : EditsSpec(i) => log[i].providerID = log[i - 1].providerID

Unrecorded(v) ==
    /\ v.providerID = 0
    /\ v.conditions.resendReady = "none" /\ v.conditions.updated = "none"
    /\ v.conditions.updatedAt = 0
    /\ v.conditions.ready = "none" /\ v.conditions.readyAt = 0

Recorded(v) ==
    /\ v.providerID # 0
    /\ v.conditions.resendReady # "none" /\ v.conditions.updated # "none"
    /\ v.conditions.updatedAt \in 1..v.generation
    /\ v.conditions.ready = "True" => v.conditions.loopsReady

RecordAgrees(v) ==
    /\ Unrecorded(v) \/ Recorded(v)
    /\ v.terminating => v.generation > 1
    /\ v.generation > 1 /\ ~v.terminating => v.generation <= MaxGeneration
    /\ v.generation = 1 /\ v.providerID # 0 => contacts[v.providerID].email = v.email

(***************************************************************************)
(* InHand: what the worker is about and which contact it holds for it, and *)
(* that it read the newest version delivered unless it is to run again.    *)
(* OnePerAddress: Resend has at most one contact of an address.            *)
(* RequestsReported: what a handler writes was reported of the contact on  *)
(* the version it read.                                                    *)
(***************************************************************************)
Purpose(step) ==
    CASE step \in {"adopt", "create", "replace"} -> {step}
      [] step \in {"recreate", "ask"} -> {"replace"}
      [] step = "patch" -> {"create", "replace", "patch"}
      [] OTHER -> {"remove"}

HoldsNew ==
    \/ worker.step = "ask"
    \/ worker.step = "patch" /\ FirstStep(Reading) # "patch"

HasReplaced ==
    \/ worker.step \in {"recreate", "ask"}
    \/ worker.step = "patch" /\ FirstStep(Reading) = "replace"

InHand ==
    worker # Idle =>
        /\ ~queued => worker.read = ctrlAt
        /\ FirstStep(Reading) \in Purpose(worker.step)
        /\ HoldsNew => worker.id \in Live(Reading.email)
        /\ ~HoldsNew => worker.id = Reading.providerID
        /\ HasReplaced => ~contacts[Reading.providerID].live

OnePerAddress ==
    \A m, n \in DOMAIN contacts :
        contacts[m].live /\ contacts[n].live /\ contacts[m].email = contacts[n].email =>
            m = n

RequestsReported ==
    \A h \in Handlers : handler[h] # Free =>
        /\ handler[h].type \in ReportedEvents
        /\ At(handler[h].read).providerID = handler[h].id
        /\ <<handler[h].id, handler[h].type>> \in reported

RecordsOK ==
    /\ VersionsFollow /\ InHand /\ OnePerAddress /\ RequestsReported
    /\ \A i \in DOMAIN log : RecordAgrees(log[i])

(***************************************************************************)
(* Without an edit (MaxGeneration <= 1), whatever fails: a contact that is *)
(* on record is at Resend until the Contact is deleted, and nobody rests   *)
(* before there is one.                                                    *)
(***************************************************************************)
KeptUnedited ==
    /\ NoContactStranded
    /\ ~Current.terminating /\ Current.providerID # 0 => InSync(Current)

(***************************************************************************)
(* With at most one edit (MaxGeneration <= 2), whatever fails: the contact *)
(* that was on record is deleted before any version records another.       *)
(***************************************************************************)
ReplacedForGood ==
    \A i, j \in DOMAIN log :
        EditsSpec(i) /\ i <= j /\ Exists(log[j])
          /\ log[i].providerID \notin {0, log[j].providerID} =>
            ~contacts[log[i].providerID].live

============================================================================
