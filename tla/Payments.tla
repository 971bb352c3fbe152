------------------------------ MODULE Payments ------------------------------
(***************************************************************************)
(* CryptoBot and Telegram Stars: the payment rows that checkouts and       *)
(* top-ups create (apps/bot/src/domain/payments.ts), and their settlement  *)
(* by whoever hears of the money: CryptoBot's webhook, the Stars update,   *)
(* and the payments-poll job, the fallback for a webhook that was missed.  *)
(*                                                                         *)
(* A handler is a webhook call, an update or a sweep of the poll; any of   *)
(* them may run at once, more than once for one payment, and die.  One     *)
(* order is for sale; what the steps of markPaid() and expireOrder() are   *)
(* is the matter of module Fulfillment, here they are atomic.              *)
(***************************************************************************)
EXTENDS Naturals, FiniteSets

CONSTANTS Payments, Handlers,
          Rail,        \* "crypto" or "stars"
          ForOrder,    \* payments of the order; the others are top-ups
          IssueBound,  \* invoices that are asked for
          SlipBound,   \* deaths and errors of handlers
          NoPayment

\* What the constants are assumed to be.
Constants ==
  /\ Rail \in [Payments -> {"crypto", "stars"}]
  /\ ForOrder \subseteq Payments
  /\ {NoPayment, "balance"} \cap Payments = {} /\ NoPayment # "balance"
  /\ IssueBound \in Nat /\ SlipBound \in Nat

VARIABLES
  pays,       \* Payment.status; "none" before it is asked for, "wanted" before it is created
  invoices,   \* at CryptoBot or Telegram: "other" is paid with another amount
  purchase,   \* Order.status
  buyer,      \* the payment whose handler made the order PAID, or "balance"
  credited,   \* ledger rows of top-ups
  anomalies,  \* AuditLog rows: <<payment, why>>
  called,     \* payments whose webhook or update has begun once
  acked,      \* ... has been answered for good
  hand,       \* where a handler stands
  slips       \* deaths and errors so far

vars == <<pays, invoices, purchase, buyer, credited, anomalies, called, acked, hand, slips>>

Statuses == {"none", "wanted", "PENDING", "UNDERPAID", "PAID", "EXPIRED"}
Closed == {"EXPIRED", "FAILED"}
\* The reported amount is compared where the code compares it; it never changes.
InFull(p) == invoices[p] = "paid"

IdleHand == [at |-> "idle", pay |-> NoPayment, seen |-> "none", todo |-> {}]

TypeOK ==
  /\ pays \in [Payments -> Statuses]
  /\ invoices \in [Payments -> {"none", "active", "approved", "paid", "other", "expired"}]
  /\ purchase \in {"PENDING", "PAID", "DELIVERED"} \cup Closed
  /\ buyer \in Payments \cup {NoPayment, "balance"}
  /\ credited \subseteq Payments /\ anomalies \subseteq (Payments \X {"closed", "amount"})
  /\ acked \subseteq called /\ called \subseteq Payments
  /\ hand \in [Handlers -> [at : {"idle", "settle", "topup", "stars", "order", "ack",
                                  "poll", "closed", "audit"},
                            pay : Payments \cup {NoPayment}, seen : Statuses,
                            todo : SUBSET Payments]]
  /\ slips \in 0 .. SlipBound

Init ==
  /\ pays = [p \in Payments |-> "none"] /\ invoices = [p \in Payments |-> "none"]
  /\ purchase = "PENDING" /\ buyer = NoPayment
  /\ credited = {} /\ anomalies = {} /\ called = {} /\ acked = {}
  /\ hand = [h \in Handlers |-> IdleHand] /\ slips = 0

-----------------------------------------------------------------------------
(* Checkout, the provider, and the other things that happen to the order.  *)

\* createInvoice() looks for an open payment of the order on the rail ...
FindOpen(p) ==
  /\ pays[p] = "none" /\ Cardinality({q \in Payments : pays[q] # "none"}) < IssueBound
  /\ p \in ForOrder => /\ purchase = "PENDING"
                       /\ \A q \in ForOrder : Rail[q] = Rail[p] => pays[q] # "PENDING"
  /\ pays' = [pays EXCEPT ![p] = "wanted"]
  /\ UNCHANGED <<invoices, purchase, buyer, credited, anomalies, called, acked, hand, slips>>

\* ... and creates the invoice and its row when it has found none.
CreateInvoice(p) ==
  /\ pays[p] = "wanted"
  /\ pays' = [pays EXCEPT ![p] = "PENDING"] /\ invoices' = [invoices EXCEPT ![p] = "active"]
  /\ UNCHANGED <<purchase, buyer, credited, anomalies, called, acked, hand, slips>>

\* pre_checkout_query: the last word before Telegram charges.
PreCheckout(p) ==
  /\ Rail[p] = "stars" /\ invoices[p] = "active"
  /\ IF p \in ForOrder THEN purchase = "PENDING" /\ pays[p] = "PENDING" ELSE pays[p] # "PAID"
  /\ invoices' = [invoices EXCEPT ![p] = "approved"]
  /\ UNCHANGED <<pays, purchase, buyer, credited, anomalies, called, acked, hand, slips>>

\* The customer pays; CryptoBot takes another amount too, or closes the invoice.
Charge(p) ==
  /\ \/ Rail[p] = "stars" /\ invoices[p] = "approved" /\ invoices' = [invoices EXCEPT ![p] = "paid"]
     \/ /\ Rail[p] = "crypto" /\ invoices[p] = "active"
        /\ \E i \in {"paid", "other", "expired"} : invoices' = [invoices EXCEPT ![p] = i]
  /\ UNCHANGED <<pays, purchase, buyer, credited, anomalies, called, acked, hand, slips>>

BalanceBuys ==
  /\ purchase = "PENDING" /\ purchase' = "PAID" /\ buyer' = "balance"
  /\ UNCHANGED <<pays, invoices, credited, anomalies, called, acked, hand, slips>>

ExpireOrder ==
  /\ purchase = "PENDING" /\ purchase' = "EXPIRED"
  /\ UNCHANGED <<pays, invoices, buyer, credited, anomalies, called, acked, hand, slips>>

\* The delivery succeeds, or fails and refunds.
Fulfil ==
  /\ purchase = "PAID" /\ purchase' \in {"DELIVERED", "FAILED"}
  /\ UNCHANGED <<pays, invoices, buyer, credited, anomalies, called, acked, hand, slips>>

-----------------------------------------------------------------------------
(* What the webhook and the Stars update do.                               *)

At(h, label) == hand[h].at = label
pay(h) == hand[h].pay
Goto(h, label) == hand' = [hand EXCEPT ![h].at = label]
Row(p, status) == pays' = [pays EXCEPT ![p] = status]

\* Variant: a credit that does not claim the row.
CreditUnclaimed(p) == credited' = credited \cup {p} /\ UNCHANGED pays

\* A settled top-up: the claim of its row and the credit are one transaction.
Credit(p) == Row(p, "PAID") /\ credited' = credited \cup {p}
NoCredit == UNCHANGED <<pays, credited>>

\* The webhook of a paid invoice that has no idempotency record reads the row.
Webhook(h, p) ==
  /\ At(h, "idle") /\ Rail[p] = "crypto" /\ invoices[p] \in {"paid", "other"} /\ p \notin acked
  /\ called' = called \cup {p}
  /\ hand' = [hand EXCEPT ![h] = [IdleHand EXCEPT !.at = IF p \in ForOrder THEN "settle" ELSE "topup",
                                                 !.pay = p, !.seen = pays[p]]]
  /\ UNCHANGED <<pays, invoices, purchase, buyer, credited, anomalies, acked, slips>>

\* Variant: status "paid" is enough.
AmountIgnored(p) == TRUE

\* The reported amount against Payment.amountUsdt6.
AmountMatches(p) == InFull(p)

settleOrderPayment(h) ==
  LET p == pay(h) IN
  /\ At(h, "settle")
  /\ \/ hand[h].seen = "PAID" /\ Goto(h, "order") /\ UNCHANGED pays
     \/ hand[h].seen = "EXPIRED" /\ Goto(h, "ack") /\ UNCHANGED pays
     \/ /\ hand[h].seen \in {"PENDING", "UNDERPAID"} /\ ~AmountMatches(p)
        /\ Row(p, "UNDERPAID") /\ Goto(h, "ack")
     \* A compare-and-set; whoever was first, the row is PAID.
     \/ /\ hand[h].seen \in {"PENDING", "UNDERPAID"} /\ AmountMatches(p)
        /\ Row(p, "PAID") /\ Goto(h, "order")
  /\ UNCHANGED <<invoices, purchase, buyer, credited, anomalies, called, acked, slips>>

\* markOrderPaidAndDeliver(): an order already paid is left alone; the error of
\* a closed one is caught.
markOrderPaid(h) ==
  /\ At(h, "order") /\ Goto(h, "ack")
  /\ IF purchase = "PENDING" THEN purchase' = "PAID" /\ buyer' = pay(h)
                             ELSE UNCHANGED <<purchase, buyer>>
  /\ UNCHANGED <<pays, invoices, credited, anomalies, called, acked, slips>>

settleCryptoBotTopup(h) ==
  LET p == pay(h) IN
  /\ At(h, "topup") /\ Goto(h, "ack")
  /\ \/ hand[h].seen \in {"PAID", "EXPIRED"} /\ NoCredit
     \/ /\ hand[h].seen \in {"PENDING", "UNDERPAID"} /\ ~InFull(p)
        /\ Row(p, "UNDERPAID") /\ UNCHANGED credited
     \/ /\ hand[h].seen \in {"PENDING", "UNDERPAID"} /\ InFull(p)
        /\ IF pays[p] # "PAID" THEN Credit(p) ELSE NoCredit
  /\ UNCHANGED <<invoices, purchase, buyer, anomalies, called, acked, slips>>

\* The idempotency record of the webhook; an update that is not delivered again.
Acknowledge(h) ==
  /\ At(h, "ack")
  /\ acked' = acked \cup {pay(h)} /\ hand' = [hand EXCEPT ![h] = IdleHand]
  /\ UNCHANGED <<pays, invoices, purchase, buyer, credited, anomalies, called, slips>>

SuccessfulPayment(h, p) ==
  /\ At(h, "idle") /\ Rail[p] = "stars" /\ InFull(p) /\ p \notin acked
  /\ called' = called \cup {p}
  /\ hand' = [hand EXCEPT ![h] = [IdleHand EXCEPT !.at = "stars", !.pay = p]]
  /\ UNCHANGED <<pays, invoices, purchase, buyer, credited, anomalies, acked, slips>>

\* settleStarsTopup() and settleStarsPayment(): guarded by the status of the row.
settleStars(h) ==
  LET p == pay(h) IN
  /\ At(h, "stars")
  /\ IF p \in ForOrder
     THEN Row(p, "PAID") /\ Goto(h, "order") /\ UNCHANGED credited
     ELSE (IF pays[p] = "PENDING" THEN Credit(p) ELSE NoCredit) /\ Goto(h, "ack")
  /\ UNCHANGED <<invoices, purchase, buyer, anomalies, called, acked, slips>>

-----------------------------------------------------------------------------
(* payments-poll: every row that was PENDING, against the provider.        *)

\* Variant: only payments of orders that wait for money.
PolledOpen(p) == Rail[p] = "crypto" /\ pays[p] = "PENDING" /\ (p \in ForOrder => purchase = "PENDING")

PolledRow(p) == Rail[p] = "crypto" /\ pays[p] = "PENDING"

\* What the provider has nothing to say of is left out at once.
pollBegin(h) ==
  /\ At(h, "idle")
  /\ hand' = [hand EXCEPT ![h] = [IdleHand EXCEPT !.at = "poll", !.todo =
       {p \in Payments : PolledRow(p) /\ invoices[p] \in {"paid", "other", "expired"}}]]
  /\ UNCHANGED <<pays, invoices, purchase, buyer, credited, anomalies, called, acked, slips>>

Polled(h, p) == At(h, "poll") /\ p \in hand[h].todo
Step(h, p, label) == hand' = [hand EXCEPT ![h] = [hand[h] EXCEPT !.at = label, !.todo = @ \ {p},
                               !.pay = IF label = "poll" THEN NoPayment ELSE p]]

\* Without a condition: the row as it was read was PENDING.
pollExpired(h, p) ==
  /\ Polled(h, p) /\ invoices[p] = "expired"
  /\ Row(p, "EXPIRED") /\ Step(h, p, "poll")
  /\ UNCHANGED <<invoices, purchase, buyer, credited, anomalies, called, acked, slips>>

\* The claim of the row, and then, not in one transaction, the AuditLog row.
markAmountMismatch(h, p) ==
  /\ Polled(h, p) /\ invoices[p] = "other"
  /\ IF pays[p] = "PENDING" THEN Row(p, "UNDERPAID") /\ Step(h, p, "audit")
                            ELSE UNCHANGED pays /\ Step(h, p, "poll")
  /\ UNCHANGED <<invoices, purchase, buyer, credited, anomalies, called, acked, slips>>

auditMismatch(h) ==
  /\ At(h, "audit")
  /\ anomalies' = anomalies \cup {<<pay(h), "amount">>} /\ Step(h, pay(h), "poll")
  /\ UNCHANGED <<pays, invoices, purchase, buyer, credited, called, acked, slips>>

settleMissedTopup(h, p) ==
  /\ Polled(h, p) /\ InFull(p) /\ p \notin ForOrder /\ Step(h, p, "poll")
  /\ IF pays[p] = "PENDING" THEN Credit(p) ELSE NoCredit
  /\ UNCHANGED <<invoices, purchase, buyer, anomalies, called, acked, slips>>

\* A compare-and-set of the order; the row follows it without a condition.
settlePaidInvoice(h, p) ==
  /\ Polled(h, p) /\ InFull(p) /\ p \in ForOrder
  /\ \/ /\ purchase = "PENDING" /\ purchase' = "PAID" /\ buyer' = p
        /\ Row(p, "PAID") /\ Step(h, p, "poll")
     \/ purchase \in Closed /\ Step(h, p, "closed") /\ UNCHANGED <<pays, purchase, buyer>>
     \/ purchase \in {"PAID", "DELIVERED"} /\ Step(h, p, "poll") /\ UNCHANGED <<pays, purchase, buyer>>
  /\ UNCHANGED <<invoices, credited, anomalies, called, acked, slips>>

\* Variant: the row is updated by id.
StillPendingAny(p) == TRUE

\* The compare-and-set of the row.
StillPending(p) == pays[p] = "PENDING"

\* The money of a closed order is flagged for a human, once.
resolveMismatchedPaidInvoice(h) ==
  /\ At(h, "closed") /\ Step(h, pay(h), "poll")
  /\ IF StillPending(pay(h))
     THEN Row(pay(h), "PAID") /\ anomalies' = anomalies \cup {<<pay(h), "closed">>}
     ELSE UNCHANGED <<pays, anomalies>>
  /\ UNCHANGED <<invoices, purchase, buyer, credited, called, acked, slips>>

pollEnd(h) ==
  /\ At(h, "poll") /\ hand[h].todo = {}
  /\ hand' = [hand EXCEPT ![h] = IdleHand]
  /\ UNCHANGED <<pays, invoices, purchase, buyer, credited, anomalies, called, acked, slips>>

\* A handler dies, or fails: CryptoBot calls again, the poll comes again; the
\* Stars handler catches the error, and Telegram does not.
Slip(h) ==
  /\ ~At(h, "idle") /\ slips < SlipBound /\ slips' = slips + 1
  /\ hand' = [hand EXCEPT ![h] = IdleHand]
  /\ \/ UNCHANGED acked
     \/ pay(h) \in called /\ Rail[pay(h)] = "stars" /\ acked' = acked \cup {pay(h)}
  /\ UNCHANGED <<pays, invoices, purchase, buyer, credited, anomalies, called>>

-----------------------------------------------------------------------------
Work(h) ==
  \/ settleOrderPayment(h) \/ markOrderPaid(h) \/ settleCryptoBotTopup(h) \/ Acknowledge(h)
  \/ settleStars(h) \/ auditMismatch(h) \/ resolveMismatchedPaidInvoice(h) \/ pollEnd(h)
  \/ \E p \in Payments : pollExpired(h, p) \/ markAmountMismatch(h, p)
                         \/ settleMissedTopup(h, p) \/ settlePaidInvoice(h, p)

Next ==
  \/ \E p \in Payments : FindOpen(p) \/ CreateInvoice(p) \/ PreCheckout(p) \/ Charge(p)
  \/ BalanceBuys \/ ExpireOrder \/ Fulfil
  \/ \E h \in Handlers : Work(h) \/ pollBegin(h) \/ Slip(h)
                         \/ \E p \in Payments : Webhook(h, p) \/ SuccessfulPayment(h, p)

Spec == Init /\ [][Next]_vars

-----------------------------------------------------------------------------
(* What the settlement promises.                                           *)

\* Goods are sold for a payment in full, and its row says PAID: whoever of
\* webhook, update and poll was first (settleOrderPayment, settlePaidInvoice).
BuyerHasPaid == buyer \in Payments => InFull(buyer) /\ pays[buyer] = "PAID"

\* A top-up is credited if and only if its row is PAID, and that only for money
\* that came in full (settleCryptoBotTopup, settleMissedTopup, settleStarsTopup).
TopupsAreExact == \A p \in Payments \ ForOrder :
  /\ p \in credited <=> pays[p] = "PAID"
  /\ p \in credited => InFull(p)

\* "Money with no live purchase" is flagged for a human only when it is: a
\* payment that bought the order is never flagged, however late a sweep looks.
FlagMeansNoPurchase == \A p \in Payments : <<p, "closed">> \in anomalies => buyer # p

\* The poll makes good for a webhook that never came: money in full buys the
\* order, is credited or flagged, unless other money has bought the order.
Answered(p) ==
  IF p \in ForOrder THEN buyer = p \/ <<p, "closed">> \in anomalies ELSE p \in credited
MissedWebhookIsMadeGood == \A p \in Payments :
  Rail[p] = "crypto" /\ InFull(p) ~> p \in called \/ Answered(p) \/ buyer \notin {NoPayment, p}

\* A paid invoice whose order is closed is recorded for a human: no payment is
\* answered for good with neither goods, credit nor flag to show for it.
ClosedPaymentIsFlagged == \A p \in acked :
  InFull(p) /\ purchase \in Closed /\ buyer = NoPayment => Answered(p)

=============================================================================
