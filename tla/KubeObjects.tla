---------------------------- MODULE KubeObjects ----------------------------
(***************************************************************************)
(* The contract of the Kubernetes API server as the controllers and the    *)
(* webhook server use it through controller-runtime's client.  None of     *)
(* this code is in the repository.                                         *)
(*                                                                         *)
(* An object is the sequence of versions published under its name: its     *)
(* resourceVersion is a position in that sequence.  A watching cache holds *)
(* a position too and advances one version at a time, so what a process    *)
(* reads is some earlier version; position 0 is "no such object yet".      *)
(*                                                                         *)
(* A definition whose name begins with Mutant, here and in the other       *)
(* modules, is a plausible mistake: it is used by no other definition, and *)
(* put in place of the one after it it makes a checked property fail.      *)
(***************************************************************************)
EXTENDS Naturals, Sequences

(* The content a reader at position i of log finds.                        *)
VersionAt(log, i, absent) == IF i = 0 THEN absent ELSE log[i]

(* The stored object: its last published version.                          *)
CurrentOf(log, absent) == VersionAt(log, Len(log), absent)

(* Storing v.  A write that changes nothing leaves the resourceVersion     *)
(* alone and produces no watch event.                                      *)
Publish(log, v) ==
    IF log # << >> /\ log[Len(log)] = v THEN log ELSE Append(log, v)

(* Update and Status().Update carry the resourceVersion that was read: the *)
(* server refuses them with Conflict (or NotFound) once the object moved.  *)
Fresh(log, read) == read = Len(log)

============================================================================
