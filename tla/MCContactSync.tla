---------------------------- MODULE MCContactSync ----------------------------
(* Small instances of ContactSync for TLC.                                 *)
EXTENDS ContactInvariants, TLC

CONSTANTS a1, a2, h1, h2

HandlerSymmetry == Permutations(Handlers)

(* Addresses are interchangeable, so that a Contact may as well begin with *)
(* a1: every other behaviour is one of these with the two renamed.  What   *)
(* is left out is a choice of the user's, of whom no fairness is asked.    *)
FirstAddress == log = << >> /\ log' # << >> => log'[1].email = a1

(* Beside the controller and its faults either the webhook server or the  *)
(* Loops provider writes the status: neither has to, and contact_edits has *)
(* both.                                                                   *)
LoopsOrWebhook ==
    deliveries' > 0 => \A i \in DOMAIN log' : ~log'[i].conditions.loopsReady

============================================================================
