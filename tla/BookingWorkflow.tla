----------------------------- MODULE BookingWorkflow -----------------------------
(***************************************************************************)
(* The workflow of a BookingAttempt: src/src/domain/workflow/workflow.ts.  *)
(***************************************************************************)

terminalStates == {"CONFIRMED", "FAILED", "EXPIRED", "ABORTED"}

\* The state that follows when nothing goes wrong.
Onward ==
    [WAITING |-> "AVAILABLE", AVAILABLE |-> "CARTING", CARTING |-> "CART_HELD",
     CART_HELD |-> "PAYMENT_REQUESTED", PAYMENT_REQUESTED |-> "PAYMENT_AUTHORIZED",
     PAYMENT_AUTHORIZED |-> "CARD_ACQUIRED", CARD_ACQUIRED |-> "CHECKOUT",
     CHECKOUT |-> "CONFIRMED"]

WorkflowStates == DOMAIN Onward \cup {"PAUSED"} \cup terminalStates

\* Every live state may pause or end; only AVAILABLE goes back, and what was
\* paused starts again from WAITING.
allowedTransitions(state) ==
    CASE state \in terminalStates -> {}
      [] state = "PAUSED" -> {"WAITING", "FAILED", "EXPIRED", "ABORTED"}
      [] OTHER -> {Onward[state], "PAUSED", "FAILED", "EXPIRED", "ABORTED"}
                  \cup (IF state = "AVAILABLE" THEN {"WAITING"} ELSE {})

transitionWorkflow(current, requested) ==
    IF current = requested THEN "idempotent"
    ELSE IF requested \in allowedTransitions(current) THEN "transitioned"
    ELSE "rejected"

=============================================================================
