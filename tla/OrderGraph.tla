----------------------------- MODULE OrderGraph -----------------------------
(***************************************************************************)
(* The order state machine of packages/core/src/orders.ts and the rules    *)
(* the operator surfaces derive from it.                                   *)
(***************************************************************************)

Statuses == {"PENDING", "PAID", "DELIVERING", "DELIVERED", "FAILED", "EXPIRED", "REFUNDED"}

\* ALLOWED_TRANSITIONS
AllowedTransitions ==
  [PENDING    |-> {"PAID", "EXPIRED", "FAILED"},
   PAID       |-> {"DELIVERING", "FAILED", "REFUNDED"},
   DELIVERING |-> {"DELIVERED", "FAILED", "REFUNDED"},
   DELIVERED  |-> {"REFUNDED"},
   FAILED     |-> {"REFUNDED"},
   EXPIRED    |-> {},
   REFUNDED   |-> {}]

\* assertTransition does not throw.
Allowed(from, to) == to \in AllowedTransitions[from]

\* The statuses markPaid() takes for a payment it has already recorded.
PaidAlready == {"PAID", "DELIVERING", "DELIVERED"}

\* The statuses deliver(), deliverManualOrder() and the settlement act on.
InFlight == {"PAID", "DELIVERING"}

\* canRefundOrder, and refundOrder's own check.
CanRefund(st) == Allowed(st, "REFUNDED")

\* canRedeliverOrder: REDELIVERABLE_STATUSES, and a payload from some source.
CanRedeliver(st, hasPayload) == st \in InFlight \cup {"DELIVERED"} /\ hasPayload

\* canManualDeliverOrder
CanManualDeliver(st, hasPayload) == st \in InFlight /\ ~hasPayload
=============================================================================
