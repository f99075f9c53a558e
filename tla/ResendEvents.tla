---------------------------- MODULE ResendEvents ----------------------------
(***************************************************************************)
(* The vocabulary of Resend's webhook events (internal/resend) and the     *)
(* condition each e-mail event stands for.                                 *)
(***************************************************************************)

(* emailevent.go: allowedEvents and the three lists GetEmailCondition uses.*)
AllowedEvents ==
    {"email.sent", "email.delivered", "email.delivery_delayed",
     "email.complained", "email.bounced", "email.opened", "email.clicked",
     "email.failed", "email.scheduled"}

SuccessfulDeliveredEvents ==
    {"email.delivered", "email.opened", "email.clicked", "email.complained"}

FailedDeliveredEvents == {"email.bounced", "email.failed"}

NormalDeliveredEvents ==
    {"email.delivered", "email.opened", "email.clicked", "email.scheduled",
     "email.sent"}

(* contactevent.go                                                         *)
AllowedContactEvents == {"contact.created", "contact.updated", "contact.deleted"}

(* GetEmailCondition: status and reason of the Delivered condition, and    *)
(* the type of the Kubernetes Event.  A failing event overrides a          *)
(* successful one; everything else leaves delivery pending.                *)
GetEmailCondition(type) ==
    LET outcome == CASE type \in FailedDeliveredEvents ->
                          [status |-> "False", reason |-> "DeliveryFailed"]
                     [] type \in SuccessfulDeliveredEvents \ FailedDeliveredEvents ->
                          [status |-> "True", reason |-> "Delivered"]
                     [] OTHER -> [status |-> "Unknown", reason |-> "DeliveryPending"]
    IN  [status |-> outcome.status, reason |-> outcome.reason,
         coreEventType |-> IF type \in NormalDeliveredEvents
                           THEN "Normal" ELSE "Warning"]

============================================================================
