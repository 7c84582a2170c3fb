--------------------------- MODULE RepairStatuses ----------------------------
(***************************************************************************)
(* domain/status-transitions.ts: the statuses of a repair order and the    *)
(* transitions between them.                                               *)
(***************************************************************************)

NoStatus == "null"     \* previousStatus of the first history row

ALLOWED_TRANSITIONS ==
  [PENDING          |-> {"DIAGNOSED", "CANCELLED"},
   DIAGNOSED        |-> {"WAITING_APPROVAL", "APPROVED", "CANCELLED"},
   WAITING_APPROVAL |-> {"APPROVED", "CANCELLED"},
   APPROVED         |-> {"IN_PROGRESS", "CANCELLED"},
   IN_PROGRESS      |-> {"WAITING_PARTS", "COMPLETED", "CANCELLED"},
   WAITING_PARTS    |-> {"IN_PROGRESS", "CANCELLED"},
   COMPLETED        |-> {"DELIVERED"},
   DELIVERED        |-> {},
   CANCELLED        |-> {}]

RepairStatus == DOMAIN ALLOWED_TRANSITIONS

IsTransitionAllowed(from, to) == to \in ALLOWED_TRANSITIONS[from]

TERMINAL_STATUSES == {"DELIVERED", "CANCELLED"}

IsTerminal(status) == status \in TERMINAL_STATUSES
==============================================================================
