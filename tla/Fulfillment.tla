----------------------------- MODULE Fulfillment -----------------------------
(***************************************************************************)
(* One order's life, statement by statement: payment, delivery, settlement *)
(* of a failed delivery, expiry, refund, manual delivery and re-delivery   *)
(* (packages/core/src/{orders,delivery,fulfillment,manual-delivery}.ts and *)
(* the callers in apps/bot, apps/worker and apps/admin).                   *)
(*                                                                         *)
(* Transactions run at READ COMMITTED.  Every mutator of orders.ts reads   *)
(* the order without locking it, checks the transition against what it     *)
(* read, and then updates the row by id: the read and the update are       *)
(* separate steps here, and an update waits for another transaction's      *)
(* uncommitted update of the row but not for anything it decided on.       *)
(*                                                                         *)
(* A ledger call is one step: module Ledger shows that a call is atomic    *)
(* once it has the user's lock, which is held until the transaction ends.  *)
(***************************************************************************)
EXTENDS OrderGraph, Naturals, FiniteSets

CONSTANTS Procs,      \* handlers of the bot, jobs of the worker, admin actions
          Orders,
          Users,
          Buyer,      \* the user an order belongs to
          Items,      \* stock items of the one plan
          Texts,      \* minted codes, supplier payloads, operator-typed payloads
          Catalogues, \* the possible terms of the orders
          Attempts,   \* EXTERNAL_ATTEMPTS
          Faults,     \* whether processes die and statements fail
          None

\* STOCK_POOL (and UNIQUE_CODE without a template), UNIQUE_CODE with one,
\* EXTERNAL_API, MANUAL_FALLBACK.
Kinds == {"pool", "code", "external", "manual"}
\* Paid from the balance, through a provider's invoice, or nothing to pay.
Rails == {"balance", "invoice", "free"}
Terms == [kind : Kinds, rail : Rails]

ASSUME BuyerAssumption == Buyer \in [Orders -> Users]
ASSUME CataloguesAssumption == Catalogues \subseteq [Orders -> Terms]
ASSUME AttemptsAssumption == Attempts \in Nat \ {0}
ASSUME FaultsAssumption == Faults \in BOOLEAN
ASSUME NoneAssumption == None \notin Orders \cup Items \cup Texts \cup Statuses \cup Procs
ASSUME GoodsAssumption == Items \cap Texts = {}

VARIABLES
  terms,    \* what is sold and how it is paid
  status,   \* Order.status
  paidAt,   \* Order.paidAt is set
  payload,  \* Order.deliveredPayloadEnc
  owner,    \* StockItem.orderId: AVAILABLE when None, SOLD otherwise
  ledger,   \* ledger keys booked for the order
  pc,       \* next statement of a process
  job,      \* what the process does, for which order, with which payload
  tries,    \* failed attempts at the supplier
  tx        \* writes and locks of its open transaction

rows == <<status, paidAt, payload, owner, ledger>>
vars == <<terms, rows, pc, job, tries, tx>>

Goods == Items \cup Texts
\* purchase:<id>, delivery-failed-refund:<id> and refund:<id>
LedgerKeys == {"purchase", "autoRefund", "refund"}
Refunds == {"autoRefund", "refund"}

Ops == {"none", "pay", "fulfil", "settle", "expire", "refund", "manual", "redeliver"}
NoJob == [op |-> "none", order |-> None, good |-> None]
NoTx == [status |-> None, paid |-> FALSE, good |-> None, item |-> None,
         bound |-> FALSE, keys |-> {}, locked |-> FALSE]

Jobs == [op : Ops, order : Orders \cup {None}, good : Goods \cup {None}]
Transactions ==
  [status : Statuses \cup {None}, paid : BOOLEAN, good : Goods \cup {None},
   item : Items \cup {None}, bound : BOOLEAN, keys : SUBSET LedgerKeys, locked : BOOLEAN]

Labels == {"idle", "debit", "markPaid", "setPaid", "commit", "read", "markDelivering",
           "setDelivering", "dispatch", "findItem", "claimItem", "bindItem", "supplier",
           "markDelivered", "setDelivered", "settle", "markFailed", "setFailed",
           "creditBack", "markExpired", "setExpired", "markRefunded", "sumRefunds",
           "creditRefund", "setRefunded", "readManual"}

TypeOK ==
  /\ terms \in Catalogues
  /\ status \in [Orders -> Statuses]
  /\ paidAt \in [Orders -> BOOLEAN]
  /\ payload \in [Orders -> Goods \cup {None}]
  /\ owner \in [Items -> Orders \cup {None}]
  /\ ledger \in [Orders -> SUBSET LedgerKeys]
  /\ pc \in [Procs -> Labels]
  /\ job \in [Procs -> Jobs]
  /\ tries \in [Procs -> 0 .. Attempts]
  /\ tx \in [Procs -> Transactions]

Init ==
  /\ terms \in Catalogues
  /\ status = [o \in Orders |-> "PENDING"]
  /\ paidAt = [o \in Orders |-> FALSE]
  /\ payload = [o \in Orders |-> None]
  /\ owner = [i \in Items |-> None]
  /\ ledger = [o \in Orders |-> {}]
  /\ pc = [p \in Procs |-> "idle"]
  /\ job = [p \in Procs |-> NoJob]
  /\ tries = [p \in Procs |-> 0]
  /\ tx = [p \in Procs |-> NoTx]

-----------------------------------------------------------------------------
(* Statements and transactions.                                            *)

order(p) == job[p].order
kind(p) == terms[order(p)].kind
rail(p) == terms[order(p)].rail

\* The process is in deliverFromExternalApi, whose try catches every error.
Supplied(p) ==
  /\ job[p].op = "fulfil" /\ kind(p) = "external"
  /\ pc[p] \in {"supplier", "markDelivered", "setDelivered"}

\* markDelivered() runs in a transaction, but for minted and supplied goods.
InTransaction(p) == job[p].op # "fulfil" \/ kind(p) = "pool"

At(p, label) == pc[p] = label
Goto(p, label) == pc' = [pc EXCEPT ![p] = label]

\* A read inside a transaction sees the transaction's own update.
Seen(p) == IF tx[p].status # None THEN tx[p].status ELSE status[order(p)]

\* No other transaction has an uncommitted update of the order row.
RowFree(p) == \A q \in Procs \ {p} : order(q) = order(p) => tx[q].status = None

\* Nobody else holds the advisory lock of the order's buyer.
BuyerFree(p) ==
  \A q \in Procs \ {p} : tx[q].locked => Buyer[order(q)] # Buyer[order(p)]

\* The handler returns or gives up; an open transaction is discarded.
Leave(p) ==
  /\ Goto(p, "idle")
  /\ job' = [job EXCEPT ![p] = NoJob]
  /\ tries' = [tries EXCEPT ![p] = 0]
  /\ tx' = [tx EXCEPT ![p] = NoTx]
  /\ UNCHANGED <<terms, rows>>

\* deliver() throws an error that is not an OrderStateError: fulfillOrder()
\* goes on to settleFailedDelivery().
DeliveryFails(p) ==
  /\ Goto(p, "settle")
  /\ job' = [job EXCEPT ![p] = [op |-> "settle", order |-> order(p), good |-> None]]
  /\ tries' = [tries EXCEPT ![p] = 0]
  /\ tx' = [tx EXCEPT ![p] = NoTx]
  /\ UNCHANGED <<terms, rows>>

\* A statement that only reads, or whose result only decides what comes next.
Proceed(p, label) ==
  /\ Goto(p, label)
  /\ UNCHANGED <<terms, rows, job, tries, tx>>

\* Variant: assertTransition left out.
CheckForgotten(p, to, label) == Proceed(p, label)

\* order.findUnique, assertTransition: go on to the update, or throw.
Check(p, to, label) ==
  IF Allowed(Seen(p), to) THEN Proceed(p, label) ELSE Leave(p)

\* order.update inside a transaction.
Write(p, st, label) ==
  /\ RowFree(p)
  /\ tx' = [tx EXCEPT ![p].status = st]
  /\ Goto(p, label)
  /\ UNCHANGED <<terms, rows, job, tries>>

\* credit() and debit(): books the key unless it is booked already.
Book(p, key, label) ==
  /\ BuyerFree(p)
  /\ tx' = [tx EXCEPT ![p].locked = TRUE,
                      ![p].keys = IF key \in ledger[order(p)] THEN @ ELSE @ \cup {key}]
  /\ Goto(p, label)
  /\ UNCHANGED <<terms, rows, job, tries>>

\* What follows a transaction: delivery a payment, and the settlement the
\* fail-and-refund of an exhausted supplier, whose error is still to be thrown.
AfterCommit(p) ==
  CASE job[p].op = "pay" -> [label |-> "read", job |-> [job[p] EXCEPT !.op = "fulfil"]]
    [] job[p].op = "fulfil" /\ tx[p].status = "FAILED" ->
         [label |-> "settle", job |-> [job[p] EXCEPT !.op = "settle"]]
    [] OTHER -> [label |-> "idle", job |-> NoJob]

Commit(p) ==
  LET o == order(p)
      t == tx[p]
  IN  /\ At(p, "commit")
      /\ status' = IF t.status # None THEN [status EXCEPT ![o] = t.status] ELSE status
      /\ paidAt' = [paidAt EXCEPT ![o] = @ \/ t.paid]
      /\ payload' = IF t.good # None THEN [payload EXCEPT ![o] = t.good] ELSE payload
      /\ owner' = IF t.bound THEN [owner EXCEPT ![t.item] = o] ELSE owner
      /\ ledger' = [ledger EXCEPT ![o] = @ \cup t.keys]
      /\ tx' = [tx EXCEPT ![p] = NoTx]
      /\ job' = [job EXCEPT ![p] = AfterCommit(p).job]
      /\ tries' = [tries EXCEPT ![p] = 0]
      /\ Goto(p, AfterCommit(p).label)
      /\ UNCHANGED terms

\* The process dies: an open transaction rolls back, what has committed stays.
Crash(p) == Faults /\ ~At(p, "idle") /\ Leave(p)

\* A statement fails: a lost connection, a timeout, a deadlock Postgres breaks.
\* The transaction rolls back and the handler throws, which only fulfillOrder()
\* answers; for every other handler it is the same as dying.
StatementFails(p) ==
  Faults /\ job[p].op = "fulfil" /\ ~Supplied(p) /\ DeliveryFails(p)

\* A handler starts.
Start(p, o, op, good, label) ==
  /\ At(p, "idle")
  /\ job' = [job EXCEPT ![p] = [op |-> op, order |-> o, good |-> good]]
  /\ Goto(p, label)
  /\ UNCHANGED <<terms, rows, tries, tx>>

-----------------------------------------------------------------------------
(* Payment: payOrderFromBalance and markOrderPaidAndDeliver.               *)

\* A button press or a provider's (repeated) confirmation, at any time.
Pay(p, o) == Start(p, o, "pay", None, IF terms[o].rail = "balance" THEN "debit" ELSE "markPaid")

\* Variant: the debit has a transaction of its own, before markPaid's.
DebitPurchaseApart(p) ==
  /\ At(p, "debit")
  /\ ledger' = [ledger EXCEPT ![order(p)] = @ \cup {"purchase"}]
  /\ Goto(p, "markPaid")
  /\ UNCHANGED <<terms, status, paidAt, payload, owner, job, tries, tx>>

DebitPurchase(p) == At(p, "debit") /\ Book(p, "purchase", "markPaid")

\* InsufficientBalanceError
DebitRefused(p) ==
  /\ At(p, "debit")
  /\ BuyerFree(p)
  /\ "purchase" \notin ledger[order(p)]
  /\ Leave(p)

\* Variant: any status but PENDING counts as paid already.
MarkPaidLenient(p) ==
  /\ At(p, "markPaid")
  /\ Proceed(p, IF Seen(p) = "PENDING" THEN "setPaid" ELSE "commit")

MarkPaid(p) ==
  /\ At(p, "markPaid")
  /\ IF Seen(p) \in PaidAlready THEN Proceed(p, "commit") ELSE Check(p, "PAID", "setPaid")

SetPaid(p) ==
  /\ At(p, "setPaid")
  /\ RowFree(p)
  /\ tx' = [tx EXCEPT ![p].status = "PAID", ![p].paid = TRUE]
  /\ Goto(p, "commit")
  /\ UNCHANGED <<terms, rows, job, tries>>

-----------------------------------------------------------------------------
(* Delivery: fulfillOrder around deliver().                                *)

\* A delivery job, its retry, or the reconciler's: only for orders once paid.
Fulfil(p, o) == paidAt[o] /\ Start(p, o, "fulfil", None, "read")

\* The gate of deliver(): DELIVERED returns the stored payload, anything not in
\* flight is an OrderStateError, which is re-thrown without a settlement.
ReadOrder(p) ==
  /\ At(p, "read")
  /\ IF status[order(p)] \in InFlight THEN Proceed(p, "markDelivering") ELSE Leave(p)

\* markDelivering: on its own in deliver(), inside the operators' transactions.
MarkDelivering(p) ==
  LET next == IF job[p].op = "fulfil" THEN "dispatch" ELSE "markDelivered"
  IN  /\ At(p, "markDelivering")
      /\ IF Seen(p) = "DELIVERING" THEN Proceed(p, next)
                                   ELSE Check(p, "DELIVERING", "setDelivering")

SetDelivering(p) ==
  /\ At(p, "setDelivering")
  /\ IF job[p].op = "fulfil"
     THEN /\ RowFree(p)
          /\ status' = [status EXCEPT ![order(p)] = "DELIVERING"]
          /\ Goto(p, "dispatch")
          /\ UNCHANGED <<terms, paidAt, payload, owner, ledger, job, tries, tx>>
     ELSE Write(p, "DELIVERING", "markDelivered")

\* The payload the next markDelivered() is called with.
Hold(p, good, label) ==
  /\ job' = [job EXCEPT ![p].good = good]
  /\ Goto(p, label)
  /\ UNCHANGED <<terms, rows, tries, tx>>

\* deliver()'s dispatch on the delivery type; MANUAL_FALLBACK stays DELIVERING.
Dispatch(p) ==
  /\ At(p, "dispatch")
  /\ \/ kind(p) = "pool" /\ Proceed(p, "findItem")
     \/ kind(p) = "code" /\ \E t \in Texts : Hold(p, t, "markDelivered")
     \/ kind(p) = "external" /\ Proceed(p, "supplier")
     \/ kind(p) = "manual" /\ Leave(p)

\* markDelivered(): the read and the check.
MarkDelivered(p) ==
  /\ At(p, "markDelivered")
  /\ ~(Supplied(p) /\ ~Allowed(Seen(p), "DELIVERED"))
  /\ Check(p, "DELIVERED", "setDelivered")

\* Variant: the status is written without the payload.
SetDeliveredBare(p) ==
  /\ At(p, "setDelivered")
  /\ RowFree(p)
  /\ status' = [status EXCEPT ![order(p)] = "DELIVERED"]
  /\ Goto(p, "idle")
  /\ job' = [job EXCEPT ![p] = NoJob]
  /\ tx' = [tx EXCEPT ![p] = NoTx]
  /\ UNCHANGED <<terms, paidAt, payload, owner, ledger, tries>>

\* ... and the update, in the caller's transaction or on its own.
SetDelivered(p) ==
  /\ At(p, "setDelivered")
  /\ RowFree(p)
  /\ IF InTransaction(p)
     THEN /\ tx' = [tx EXCEPT ![p].status = "DELIVERED", ![p].good = job[p].good]
          /\ Goto(p, "commit")
          /\ UNCHANGED <<terms, rows, job, tries>>
     ELSE /\ status' = [status EXCEPT ![order(p)] = "DELIVERED"]
          /\ payload' = [payload EXCEPT ![order(p)] = job[p].good]
          /\ Goto(p, "idle")
          /\ job' = [job EXCEPT ![p] = NoJob]
          /\ tries' = [tries EXCEPT ![p] = 0]
          /\ UNCHANGED <<terms, paidAt, owner, ledger, tx>>

-----------------------------------------------------------------------------
(* deliverFromPool                                                         *)

\* stockItem.findFirst: an item SOLD to this order by a run that was cut short.
FindItem(p) ==
  /\ At(p, "findItem")
  /\ IF \E i \in Items : owner[i] = order(p)
     THEN \E i \in Items : owner[i] = order(p) /\ Hold(p, i, "markDelivered")
     ELSE Proceed(p, "claimItem")

\* Variant: a plain SELECT of an AVAILABLE item.
ClaimableUnlocked(i) == owner[i] = None

\* AVAILABLE, and not locked by another claim.
Claimable(i) == owner[i] = None /\ \A q \in Procs : tx[q].item # i

\* SELECT ... FOR UPDATE SKIP LOCKED LIMIT 1; none is a StockUnavailableError.
ClaimItem(p) ==
  /\ At(p, "claimItem")
  /\ \/ \E i \in Items :
          /\ Claimable(i)
          /\ tx' = [tx EXCEPT ![p].item = i]
          /\ Goto(p, "bindItem")
          /\ UNCHANGED <<terms, rows, job, tries>>
     \/ (\A i \in Items : ~Claimable(i)) /\ DeliveryFails(p)

\* Variant: the item is sold in a transaction of its own, as the worker once did.
BindItemApart(p) ==
  /\ At(p, "bindItem")
  /\ owner' = [owner EXCEPT ![tx[p].item] = order(p)]
  /\ job' = [job EXCEPT ![p].good = tx[p].item]
  /\ Goto(p, "markDelivered")
  /\ UNCHANGED <<terms, status, paidAt, payload, ledger, tries, tx>>

\* stockItem.update: the unique index on orderId makes a second item of the same
\* order wait for the first one's transaction, and fail once it has committed.
BindItem(p) ==
  /\ At(p, "bindItem")
  /\ \A q \in Procs \ {p} : tx[q].bound => order(q) # order(p)
  /\ IF \E i \in Items : owner[i] = order(p)
     THEN DeliveryFails(p)
     ELSE /\ tx' = [tx EXCEPT ![p].bound = TRUE]
          /\ job' = [job EXCEPT ![p].good = tx[p].item]
          /\ Goto(p, "markDelivered")
          /\ UNCHANGED <<terms, rows, tries>>

-----------------------------------------------------------------------------
(* deliverFromExternalApi                                                  *)

SupplierAnswers(p) ==
  /\ At(p, "supplier")
  /\ \E t \in Texts : Hold(p, t, "markDelivered")

\* Variant: one attempt too many.
SupplierFailsOffByOne(p) ==
  /\ Supplied(p)
  /\ tries' = [tries EXCEPT ![p] = @ + 1]
  /\ job' = [job EXCEPT ![p].good = None]
  /\ Goto(p, IF tries[p] = Attempts THEN "markFailed" ELSE "supplier")
  /\ UNCHANGED <<terms, rows, tx>>

\* No answer, an error, an empty payload, or markDelivered() throwing: one
\* attempt less, and failAndRefund() after the last.
SupplierFails(p) ==
  /\ Supplied(p)
  /\ tries' = [tries EXCEPT ![p] = @ + 1]
  /\ job' = [job EXCEPT ![p].good = None]
  /\ Goto(p, IF tries[p] + 1 = Attempts THEN "markFailed" ELSE "supplier")
  /\ UNCHANGED <<terms, rows, tx>>

\* No supplier is configured.
SupplierMissing(p) == At(p, "supplier") /\ tries[p] = 0 /\ Proceed(p, "markFailed")

\* The breaker, shared with the other orders of the product, is open.
BreakerOpen(p) == At(p, "supplier") /\ tries[p] = 0 /\ DeliveryFails(p)

-----------------------------------------------------------------------------
(* settleFailedDelivery, and failAndRefund, which starts at markFailed.    *)

Settle(p) ==
  /\ At(p, "settle")
  /\ IF status[order(p)] \in InFlight THEN Proceed(p, "markFailed") ELSE Leave(p)

MarkFailed(p) == At(p, "markFailed") /\ Check(p, "FAILED", "setFailed")

\* Variant: markFailed alone, which "does NOT refund".
SetFailedOnly(p) == At(p, "setFailed") /\ Write(p, "FAILED", "commit")

SetFailed(p) ==
  /\ At(p, "setFailed")
  /\ Write(p, "FAILED", IF rail(p) = "free" THEN "commit" ELSE "creditBack")

CreditBack(p) == At(p, "creditBack") /\ Book(p, "autoRefund", "commit")

-----------------------------------------------------------------------------
(* expirePendingOrders                                                     *)

\* The scan finds the order PENDING and past its deadline.
Expire(p, o) == status[o] = "PENDING" /\ Start(p, o, "expire", None, "markExpired")

MarkExpired(p) == At(p, "markExpired") /\ Check(p, "EXPIRED", "setExpired")

SetExpired(p) == At(p, "setExpired") /\ Write(p, "EXPIRED", "commit")

-----------------------------------------------------------------------------
(* Refunds: the Mini App route gates on earlier refunds, the admin panel on *)
(* canRefundOrder.                                                          *)

Refund(p, o) ==
  /\ \/ status[o] # "REFUNDED" /\ ledger[o] \cap Refunds = {}
     \/ CanRefund(status[o])
  /\ Start(p, o, "refund", None, "markRefunded")

\* Variant: the route's own gate is trusted.
MarkRefundedUnchecked(p) == At(p, "markRefunded") /\ Proceed(p, "sumRefunds")

MarkRefunded(p) == At(p, "markRefunded") /\ Check(p, "REFUNDED", "sumRefunds")

\* Variant: gated on refundOrder's own ledger key.
SumRefundsByKey(p) ==
  /\ At(p, "sumRefunds")
  /\ IF rail(p) = "free" \/ "refund" \in ledger[order(p)]
     THEN Proceed(p, "setRefunded")
     ELSE Proceed(p, "creditRefund")

\* priorRefund, and the zero-amount order that has nothing to give back.
SumRefunds(p) ==
  /\ At(p, "sumRefunds")
  /\ IF rail(p) = "free" \/ ledger[order(p)] \cap Refunds # {}
     THEN Proceed(p, "setRefunded")
     ELSE Proceed(p, "creditRefund")

CreditRefund(p) == At(p, "creditRefund") /\ Book(p, "refund", "setRefunded")

\* Variant: a refund takes the goods back, SOLD or not.
SetRefundedTakingBack(p) ==
  /\ At(p, "setRefunded")
  /\ RowFree(p)
  /\ tx' = [tx EXCEPT ![p].status = "REFUNDED"]
  /\ owner' = [i \in Items |-> IF owner[i] = order(p) THEN None ELSE owner[i]]
  /\ payload' = [payload EXCEPT ![order(p)] = None]
  /\ Goto(p, "commit")
  /\ UNCHANGED <<terms, status, paidAt, ledger, job, tries>>

SetRefunded(p) == At(p, "setRefunded") /\ Write(p, "REFUNDED", "commit")

-----------------------------------------------------------------------------
(* Operators: deliverManualOrder behind canManualDeliverOrder, and          *)
(* redeliverOrderAction behind canRedeliverOrder.                           *)

HasPayload(o) == payload[o] # None \/ \E i \in Items : owner[i] = o

Manual(p, o) ==
  /\ CanManualDeliver(status[o], HasPayload(o))
  /\ Start(p, o, "manual", None, "readManual")

\* An order DELIVERED meanwhile is left as it is.
ReadManual(p) ==
  /\ At(p, "readManual")
  /\ IF status[order(p)] \in InFlight
     THEN \E t \in Texts : Hold(p, t, "markDelivering")
     ELSE Leave(p)

Redeliver(p, o) ==
  /\ CanRedeliver(status[o], HasPayload(o))
  /\ \E g \in Goods :
       /\ IF payload[o] # None THEN g = payload[o] ELSE g \in Items /\ owner[g] = o
       /\ Start(p, o, "redeliver", g, "markDelivering")

-----------------------------------------------------------------------------
Begin(p, o) ==
  \/ Pay(p, o) \/ Fulfil(p, o) \/ Expire(p, o) \/ Refund(p, o)
  \/ Manual(p, o) \/ Redeliver(p, o)

PaymentStep(p) == DebitPurchase(p) \/ DebitRefused(p) \/ MarkPaid(p) \/ SetPaid(p)
DeliveryStep(p) ==
  \/ ReadOrder(p) \/ MarkDelivering(p) \/ SetDelivering(p) \/ Dispatch(p)
  \/ MarkDelivered(p) \/ SetDelivered(p) \/ StatementFails(p)
PoolStep(p) == FindItem(p) \/ ClaimItem(p) \/ BindItem(p)
SupplierStep(p) ==
  \/ SupplierAnswers(p) \/ SupplierFails(p) \/ SupplierMissing(p) \/ BreakerOpen(p)
SettleStep(p) == Settle(p) \/ MarkFailed(p) \/ SetFailed(p) \/ CreditBack(p)
ExpiryStep(p) == MarkExpired(p) \/ SetExpired(p)
RefundStep(p) == MarkRefunded(p) \/ SumRefunds(p) \/ CreditRefund(p) \/ SetRefunded(p)

Next ==
  \E p \in Procs :
    \/ \E o \in Orders : Begin(p, o)
    \/ PaymentStep(p) \/ DeliveryStep(p) \/ PoolStep(p) \/ SupplierStep(p)
    \/ SettleStep(p) \/ ExpiryStep(p) \/ RefundStep(p) \/ ReadManual(p)
    \/ Commit(p) \/ Crash(p)

Spec == Init /\ [][Next]_vars

-----------------------------------------------------------------------------
(* What holds however handlers overlap, fail and are repeated.             *)

Charged(o) == "purchase" \in ledger[o] \/ (terms[o].rail = "invoice" /\ paidAt[o])
Refunded(o) == ledger[o] \cap Refunds # {}

\* A credential goes to one buyer: SKIP LOCKED, the unique index and the reuse
\* of an item already sold to the order keep any two orders' goods apart, and an
\* order never burns a second item.
OneBuyerPerCredential ==
  /\ \A o1, o2 \in Orders : payload[o1] = payload[o2] /\ payload[o1] \in Items => o1 = o2
  /\ \A i, j \in Items : owner[i] = owner[j] /\ owner[i] # None => i = j

\* A burned item is never lost: the order it was sold to carries a payload, so
\* the buyer (or an operator) can still be shown what was consumed for them.
BurnedItemIsStored == \A i \in Items : owner[i] # None => payload[owner[i]] # None

\* Sold stays sold: no refund, failure or crash puts a credential that may have
\* been seen back on sale or moves it to another order.
SoldIsForever == [][\A i \in Items : owner[i] # None => owner'[i] = owner[i]]_vars

\* Money leaves the balance if and only if the order becomes paid.
ChargedIffPaid ==
  \A o \in Orders : terms[o].rail = "balance" => (paidAt[o] <=> "purchase" \in ledger[o])

\* Nothing is given away or paid back for an order nobody paid.
NothingForUnpaid == \A o \in Orders : ~paidAt[o] => payload[o] = None /\ ~Refunded(o)

\* FAILED and REFUNDED are where the buyer has the money back.
FailedMeansRefunded ==
  \A o \in Orders : status[o] \in {"FAILED", "REFUNDED"} /\ Charged(o) => Refunded(o)

\* An order shown as delivered has something to show.
DeliveredHasPayload == \A o \in Orders : status[o] = "DELIVERED" => payload[o] # None

-----------------------------------------------------------------------------
(* What holds when no two handlers work on one order at the same time,     *)
(* whatever fails or dies between two statements and whatever is repeated. *)

Serial == \A p, q \in Procs : p # q /\ order(p) = order(q) => order(p) = None
SerialSpec == Init /\ [][Next /\ Serial']_vars

\* The order's money comes back at most once: the automatic refund of a failed
\* delivery and an operator's refund have different ledger keys, and only
\* refundOrder's sum keeps them apart.
RefundedAtMostOnce == \A o \in Orders : Cardinality(ledger[o] \cap Refunds) <= 1

\* "Every one of these must reach the same conclusion": an order whose delivery
\* was settled with the money back has neither handed out goods nor burned any.
GoodsOrMoneyBack == \A o \in Orders : "autoRefund" \in ledger[o] => ~HasPayload(o)

\* Losing the race against a payment is harmless for expiry: an order that took
\* the buyer's money is never left EXPIRED (or PENDING), where nothing delivers
\* it and nothing can refund it.
ChargedIsNotExpired == \A o \in Orders : Charged(o) => status[o] \notin {"PENDING", "EXPIRED"}

\* Every committed change of status is an edge of the graph, or the two edges of
\* an operator's delivery of a PAID order: an update never acts on a status
\* other than the one its check read.
StatusFollowsGraph ==
  [][\A o \in Orders :
       \/ status'[o] = status[o]
       \/ Allowed(status[o], status'[o])
       \/ status[o] = "PAID" /\ status'[o] = "DELIVERED"]_vars

\* What the buyer was given is never replaced: not by a retry, a second minted
\* code, or an operator's payload.
PayloadIsFinal == [][\A o \in Orders : payload[o] # None => payload'[o] = payload[o]]_vars
=============================================================================
