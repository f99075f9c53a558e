--------------------------- MODULE MCMemberships ----------------------------
(* Small instances of Memberships for TLC.                                 *)
EXTENDS MembershipInvariants

CONSTANTS a1, a2

(* Users who let a removal take the membership away delete neither it nor  *)
(* the group themselves.  The Contact they may delete in either case.      *)
OneRequest ==
    /\ removalLog # << >> =>
         ~(UserDeletesGroup \/ UserDeletesMembership) \/ removalWorker' # removalWorker
    /\ removalLog = << >> /\ removalLog' # << >> =>
         GroupInUse /\ ~CurrentCgm.terminating

============================================================================
