--------------------------- MODULE MCEmailDelivery ---------------------------
(* Small instances of EmailDelivery for TLC.                               *)
EXTENDS EmailDelivery, TLC

CONSTANTS e1, e2, h1, h2

(* Two priorities the configuration knows and one it does not.             *)
PriorityLowAndUnknown == e1 :> "low" @@ e2 :> "urgent"
PriorityHigh == e1 :> "high"

WaitDefaults == [low |-> 30, normal |-> 10, high |-> 1]
WaitNormalOnly == [low |-> 0, normal |-> 10, high |-> 0]
WaitZeroHigh == [low |-> 30, normal |-> 10, high |-> 0]

HandlerSymmetry == Permutations(Handlers)

============================================================================
