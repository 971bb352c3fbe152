--------------------------- MODULE Payments_proofs ---------------------------
(***************************************************************************)
(* What CryptoBot and Stars payments promise, for any payments and any     *)
(* number of webhooks, updates and sweeps, however they overlap and die.   *)
(***************************************************************************)
EXTENDS Payments, TLAPS

\* What a handler relies on, though it has read it some statements ago: a row that
\* was PAID still is, money that came is there, a closed order stays closed.
Good(h) ==
  /\ hand[h].at \notin {"idle", "poll"} => pay(h) \in Payments
  /\ hand[h].at \in {"settle", "topup", "stars", "order", "ack"} => pay(h) \in called
  /\ At(h, "settle") => pay(h) \in ForOrder
  /\ At(h, "topup") => pay(h) \notin ForOrder
  /\ hand[h].at \in {"settle", "topup"} /\ hand[h].seen = "PAID" => pays[pay(h)] = "PAID"
  /\ At(h, "stars") => InFull(pay(h))
  /\ At(h, "order") => pays[pay(h)] = "PAID"
  /\ At(h, "closed") => pay(h) \in ForOrder /\ InFull(pay(h)) /\ purchase \in Closed

\* What the committed rows say of each other.
Books ==
  /\ \A p \in Payments : pays[p] = "PAID" => InFull(p)
  /\ \A p \in Payments : pays[p] \in {"none", "wanted"} => invoices[p] = "none"
  /\ purchase = "PENDING" => buyer = NoPayment
  /\ \A p \in Payments : <<p, "closed">> \in anomalies => purchase \in Closed
  /\ BuyerHasPaid /\ TopupsAreExact /\ FlagMeansNoPurchase

IInv == TypeOK /\ Books /\ \A h \in Handlers : Good(h)

\* What no step takes back.
Keeps ==
  /\ \A p \in Payments : (pays[p] = "PAID" => pays'[p] = "PAID") /\ (InFull(p) => InFull(p)')
  /\ purchase \in Closed => purchase' = purchase
  /\ called \subseteq called'

LEMMA Frame ==
  ASSUME TypeOK, Keeps, NEW h \in Handlers, Good(h), hand'[h] = hand[h]
  PROVE  Good(h)'
  BY DEF TypeOK, Keeps, Good, At, pay, InFull, Closed

LEMMA Initially == ASSUME Constants PROVE Init => IInv
  BY DEF Constants, Init, IInv, TypeOK, Statuses, Closed, Books, BuyerHasPaid, TopupsAreExact,
         FlagMeansNoPurchase, Good, At, pay, InFull, IdleHand

\* A step of the checkout, the customer, or something else that moves the order.
LEMMA Elsewhere ==
  ASSUME Constants, IInv, UNCHANGED hand,
         \/ \E p \in Payments : FindOpen(p) \/ CreateInvoice(p) \/ PreCheckout(p) \/ Charge(p)
         \/ BalanceBuys \/ ExpireOrder \/ Fulfil
  PROVE  IInv'
<1>1. TypeOK' /\ Books' /\ Keeps
  <2> USE DEF IInv, TypeOK, Books, BuyerHasPaid, TopupsAreExact, FlagMeansNoPurchase, Keeps, InFull,
              Statuses, Closed, Constants
  <2>1. ASSUME NEW p \in Payments, FindOpen(p) PROVE TypeOK' /\ Books' /\ Keeps
    BY <2>1 DEF FindOpen
  <2>2. ASSUME NEW p \in Payments, CreateInvoice(p) PROVE TypeOK' /\ Books' /\ Keeps
    BY <2>2 DEF CreateInvoice
  <2>3. ASSUME NEW p \in Payments, PreCheckout(p) PROVE TypeOK' /\ Books' /\ Keeps
    BY <2>3 DEF PreCheckout
  <2>4. ASSUME NEW p \in Payments, Charge(p) PROVE TypeOK' /\ Books' /\ Keeps
    BY <2>4 DEF Charge
  <2>5. CASE BalanceBuys
    BY <2>5 DEF BalanceBuys
  <2>6. CASE ExpireOrder
    BY <2>6 DEF ExpireOrder
  <2>7. CASE Fulfil
    BY <2>7 DEF Fulfil
  <2> QED
    BY <2>1, <2>2, <2>3, <2>4, <2>5, <2>6, <2>7
<1>2. \A h \in Handlers : Good(h)'
  BY <1>1, Frame DEF IInv
<1> QED
  BY <1>1, <1>2 DEF IInv

\* The poll's move from one row to the next changes its own hand only.
LEMMA StepOfPoll ==
  ASSUME TypeOK, NEW h \in Handlers, NEW p \in Payments, NEW label \in {"poll", "closed", "audit"},
         Step(h, p, label)
  PROVE  /\ hand' \in [Handlers -> [at : {"idle", "settle", "topup", "stars", "order", "ack",
                                          "poll", "closed", "audit"},
                                    pay : Payments \cup {NoPayment}, seen : Statuses,
                                    todo : SUBSET Payments]]
         /\ hand'[h].at = label /\ (label # "poll" => hand'[h].pay = p)
         /\ \A g \in Handlers \ {h} : hand'[g] = hand[g]
<1> DEFINE new == [hand[h] EXCEPT !.at = label, !.todo = hand[h].todo \ {p},
                                  !.pay = IF label = "poll" THEN NoPayment ELSE p]
<1>1. hand' = [hand EXCEPT ![h] = new]
  BY DEF Step
<1>2. /\ new \in [at : {"idle", "settle", "topup", "stars", "order", "ack", "poll", "closed", "audit"},
                  pay : Payments \cup {NoPayment}, seen : Statuses, todo : SUBSET Payments]
      /\ new.at = label /\ (label # "poll" => new.pay = p)
  BY DEF TypeOK
<1> QED
  BY <1>1, <1>2 DEF TypeOK

\* A step of one handler owes what it relies on itself, and the rows.
LEMMA HandlerStep ==
  ASSUME Constants, IInv, NEW h \in Handlers,
         \/ Work(h) \/ pollBegin(h) \/ Slip(h)
         \/ \E p \in Payments : Webhook(h, p) \/ SuccessfulPayment(h, p)
  PROVE  TypeOK' /\ Books' /\ Keeps /\ Good(h)' /\ \A g \in Handlers \ {h} : hand'[g] = hand[g]
<1> DEFINE Goal == TypeOK' /\ Books' /\ Keeps /\ Good(h)' /\ \A g \in Handlers \ {h} : hand'[g] = hand[g]
<1>0. Good(h)
  BY DEF IInv
<1> USE <1>0 DEF IInv, TypeOK, Books, BuyerHasPaid, TopupsAreExact, FlagMeansNoPurchase, Keeps, InFull,
            Statuses, Closed, Constants, Good, At, pay
<1>1. ASSUME NEW p \in Payments, Webhook(h, p) PROVE Goal
  BY <1>1 DEF Webhook, IdleHand
<1>2. ASSUME NEW p \in Payments, SuccessfulPayment(h, p) PROVE Goal
  BY <1>2 DEF SuccessfulPayment, IdleHand
<1>3. CASE settleOrderPayment(h)
  BY <1>3 DEF settleOrderPayment, AmountMatches, Goto, Row
<1>4. CASE markOrderPaid(h)
  BY <1>4 DEF markOrderPaid, Goto
<1>5. CASE settleCryptoBotTopup(h)
  BY <1>5 DEF settleCryptoBotTopup, Goto, Row, Credit, NoCredit
<1>6. CASE Acknowledge(h)
  BY <1>6 DEF Acknowledge, IdleHand
<1>7. CASE settleStars(h)
  BY <1>7 DEF settleStars, Goto, Row, Credit, NoCredit
<1>8. CASE pollBegin(h)
  BY <1>8 DEF pollBegin, IdleHand
<1>9. ASSUME NEW p \in Payments, pollExpired(h, p) PROVE Goal
  BY <1>9, StepOfPoll DEF pollExpired, Polled, Row
<1>10. ASSUME NEW p \in Payments, markAmountMismatch(h, p) PROVE Goal
  BY <1>10, StepOfPoll DEF markAmountMismatch, Polled, Row
<1>11. CASE auditMismatch(h)
  BY <1>11, StepOfPoll DEF auditMismatch
<1>12. ASSUME NEW p \in Payments, settleMissedTopup(h, p) PROVE Goal
  BY <1>12, StepOfPoll DEF settleMissedTopup, Polled, Row, Credit, NoCredit
<1>13. ASSUME NEW p \in Payments, settlePaidInvoice(h, p) PROVE Goal
  BY <1>13, StepOfPoll DEF settlePaidInvoice, Polled, Row
<1>14. CASE resolveMismatchedPaidInvoice(h)
  <2> DEFINE p == pay(h)
  <2>1. p \in ForOrder /\ p \in Payments /\ InFull(p) /\ purchase \in Closed
    BY <1>14 DEF resolveMismatchedPaidInvoice
  <2>2. Step(h, p, "poll") /\ UNCHANGED <<invoices, purchase, buyer, credited, called, acked, slips>>
    BY <1>14 DEF resolveMismatchedPaidInvoice
  <2>3. CASE ~StillPending(p)
    <3>1. UNCHANGED <<pays, anomalies>>
      BY <1>14, <2>3 DEF resolveMismatchedPaidInvoice
    <3> QED
      BY <2>1, <2>2, <3>1, StepOfPoll
  <2>4. CASE StillPending(p)
    <3>1. pays' = [pays EXCEPT ![p] = "PAID"] /\ anomalies' = anomalies \cup {<<p, "closed">>}
      BY <1>14, <2>4 DEF resolveMismatchedPaidInvoice, Row
    <3>2. buyer # p
      BY <2>1, <2>4 DEF StillPending
    <3>3. TypeOK'
      BY <2>1, <2>2, <3>1, StepOfPoll
    <3>4. \A q \in Payments : <<q, "closed">> \in anomalies' => q = p \/ <<q, "closed">> \in anomalies
      BY <3>1
    <3>5. Books'
      BY <2>1, <2>2, <3>1, <3>2, <3>4
    <3> QED
      BY <2>1, <2>2, <3>1, <3>3, <3>5, StepOfPoll
  <2> QED
    BY <2>3, <2>4
<1>15. CASE pollEnd(h)
  BY <1>15 DEF pollEnd, IdleHand
<1>16. CASE Slip(h)
  BY <1>16 DEF Slip, IdleHand
<1> QED
  BY <1>1, <1>2, <1>3, <1>4, <1>5, <1>6, <1>7, <1>8, <1>9, <1>10, <1>11, <1>12, <1>13, <1>14, <1>15, <1>16
  DEF Work

-----------------------------------------------------------------------------
\* One step of anybody.
LEMMA Inductive == ASSUME Constants PROVE IInv /\ [Next]_vars => IInv'
<1> SUFFICES ASSUME IInv, [Next]_vars PROVE IInv'
  OBVIOUS
<1>1. CASE UNCHANGED vars
  BY <1>1 DEF vars, IInv, TypeOK, Books, BuyerHasPaid, TopupsAreExact, FlagMeansNoPurchase, InFull,
              Good, At, pay
<1>2. CASE \/ \E p \in Payments : FindOpen(p) \/ CreateInvoice(p) \/ PreCheckout(p) \/ Charge(p)
          \/ BalanceBuys \/ ExpireOrder \/ Fulfil
  <2>1. UNCHANGED hand
    BY <1>2 DEF FindOpen, CreateInvoice, PreCheckout, Charge, BalanceBuys, ExpireOrder, Fulfil
  <2> QED
    BY <1>2, <2>1, Elsewhere
<1>3. ASSUME NEW h \in Handlers,
             \/ Work(h) \/ pollBegin(h) \/ Slip(h)
             \/ \E p \in Payments : Webhook(h, p) \/ SuccessfulPayment(h, p)
      PROVE  IInv'
  <2>1. TypeOK' /\ Books' /\ Keeps /\ Good(h)' /\ \A g \in Handlers \ {h} : hand'[g] = hand[g]
    BY <1>3, HandlerStep
  <2>2. ASSUME NEW g \in Handlers \ {h} PROVE Good(g)'
    BY <2>1, Frame DEF IInv
  <2> QED
    BY <2>1, <2>2 DEF IInv
<1> QED
  BY <1>1, <1>2, <1>3 DEF Next

\* Every behaviour keeps the invariant.
THEOREM InductiveInvariant == ASSUME Constants PROVE Spec => []IInv
<1>1. Init => IInv
  BY Initially
<1>2. IInv /\ [Next]_vars => IInv'
  BY Inductive
<1> QED
  BY <1>1, <1>2, PTL DEF Spec

\* The types of the rows and of what handlers have read.
THEOREM TypeCorrect == ASSUME Constants PROVE Spec => []TypeOK
<1>1. IInv => TypeOK
  BY DEF IInv
<1> QED
  BY <1>1, InductiveInvariant, PTL

\* Goods are sold for a payment in full whose row says PAID, whoever of webhook,
\* update and poll was first (settleOrderPayment, settlePaidInvoice).
THEOREM SoldForMoney == ASSUME Constants PROVE Spec => []BuyerHasPaid
<1>1. IInv => BuyerHasPaid
  BY DEF IInv, Books
<1> QED
  BY <1>1, InductiveInvariant, PTL

\* A top-up is credited if and only if its row is PAID, for money in full
\* (settleCryptoBotTopup, settleMissedTopup, settleStarsTopup).
THEOREM CreditedExactly == ASSUME Constants PROVE Spec => []TopupsAreExact
<1>1. IInv => TopupsAreExact
  BY DEF IInv, Books
<1> QED
  BY <1>1, InductiveInvariant, PTL

\* No payment that bought the order is flagged as money without a purchase
\* (resolveMismatchedPaidInvoice).
THEOREM FlagsAreRight == ASSUME Constants PROVE Spec => []FlagMeansNoPurchase
<1>1. IInv => FlagMeansNoPurchase
  BY DEF IInv, Books
<1> QED
  BY <1>1, InductiveInvariant, PTL

=============================================================================
