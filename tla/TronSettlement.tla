--------------------------- MODULE TronSettlement ---------------------------
(***************************************************************************)
(* The USDT-TRC20 rail: every customer pays into one wallet, sweeps of     *)
(* apps/worker/src/queues/chain-scan.worker.ts read the wallet, match a    *)
(* transfer to an invoice by its amount (lib/tron-match.ts) and settle it. *)
(*                                                                         *)
(* A sweep works on what it read at its start, and sweeps may overlap: of  *)
(* one deployment and the next, or of two workers.  Every settlement is    *)
(* one transaction that starts with a compare-and-set and is one step      *)
(* here; between two statements outside a transaction anything may happen. *)
(***************************************************************************)
EXTENDS Integers, FiniteSets, FiniteSetsExt

CONSTANTS Sweeps,         \* sweeps that may overlap
          Transfers,      \* numbers, in the order of their blocks
          Amounts,        \* what a transfer may carry
          Invoices,       \* TRON payments the bot has issued
          Orders,
          OrderOf,        \* the order of an invoice; NoOrder for a top-up
          Ask,            \* the tagged amount of an invoice
          CentsToUsdt6,   \* smallest units in a cent
          TagUnit,        \* smallest units in a step of the tag
          OpeningBalance, \* of the customer, in cents
          SpendBound,     \* purchases on other orders, of one cent each
          FaultBound,     \* deaths and errors of sweeps
          NoOrder

ASSUME TransfersAssumption == Transfers \subseteq Nat \ {0} /\ IsFiniteSet(Transfers)
ASSUME AmountsAssumption == Amounts \subseteq Nat \ {0}
ASSUME OrderOfAssumption == OrderOf \in [Invoices -> Orders \cup {NoOrder}]
ASSUME NoOrderAssumption == NoOrder \notin Orders
ASSUME UnitsAssumption == CentsToUsdt6 \in Nat \ {0} /\ TagUnit \in Nat \ {0}
ASSUME BoundsAssumption == OpeningBalance \in Nat /\ SpendBound \in Nat /\ FaultBound \in Nat
ASSUME RowIdsAssumption == Invoices # {} /\ IsFiniteSet(Invoices) /\ Invoices \cap Transfers = {}

usdt6ToUsdCents(a) == a \div CentsToUsdt6
tronTagOfAmountUsdt6(a) == (a % CentsToUsdt6) \div TagUnit
\* Division rounded up, as the remainder of a purchase is.
wholeCentsUp(a) == (a + CentsToUsdt6 - 1) \div CentsToUsdt6

\* allocateTronTag() hands one tag to one open invoice, and createTronPayment()
\* one open invoice to one order.
ASSUME AskAssumption ==
  /\ Ask \in [Invoices -> Nat]
  /\ \A i \in Invoices : tronTagOfAmountUsdt6(Ask[i]) # 0
  /\ \A i, j \in Invoices : i # j =>
       /\ tronTagOfAmountUsdt6(Ask[i]) # tronTagOfAmountUsdt6(Ask[j])
       /\ OrderOf[i] = OrderOf[j] => OrderOf[i] = NoOrder

VARIABLES
  sent,     \* value of a transfer, 0 while it is not in the wallet
  status,   \* Order.status
  payer,    \* Order.externalId: the transfer that paid it, or FromBalance
  lapsed,   \* orders whose expiresAt has passed
  aged,     \* rows older than TAG_HOLD_MS
  rows,     \* Payment rows: the invoices, and one more for some transfers
  booked,   \* ledger rows of the rail, one per idempotency key
  balance,  \* of the customer, in cents
  flags,    \* AuditLog rows about a transfer
  told,     \* the remainder the customer was last asked for on an invoice
  answers,  \* transfers that carry the remainder asked for on an invoice of an open order
  jobs,     \* orders with a delivery job
  sweep,    \* what a sweep has read and where it stands
  spends,   \* purchases on other orders so far
  faults    \* faults so far

shop == <<status, payer, lapsed, aged, rows, booked, balance, flags, jobs, told>>
vars == <<sent, answers, shop, sweep, spends, faults>>

RowIds == Invoices \cup Transfers
NoTransfer == 0
FromBalance == -1
Cents(a) == usdt6ToUsdCents(a)

RowStatuses == {"absent", "PENDING", "CONFIRMING", "UNDERPAID", "PAID", "EXPIRED"}
Rows == [status : RowStatuses, tx : Transfers \cup {NoTransfer}, amount : Nat, inv : Invoices]
\* tron-late, tron-overpaid, tron-underpaid, topup credit; reclaim debits.
Keys == {"late", "overpaid", "underpaid", "topup", "reclaim"}
Entries == [key : Keys, row : RowIds, cents : Nat]
Flags == [tx : Transfers, why : {"unmatched", "doublePaid"}, by : Sweeps]
Labels == {"idle", "load", "next", "reread", "paid", "prior", "complete",
           "under", "late", "doublePaid", "topup", "enqueue"}
\* todo: transfers left, tx and row: the one being settled, ask: what was asked
\* for it, eff: what it counts for; the rest: as read.
SweepStates == [pc : Labels, todo : SUBSET Transfers, tx : Transfers \cup {NoTransfer},
                row : RowIds \cup {NoTransfer}, ask : Nat, eff : Nat,
                known : [RowIds -> Rows], flagged : SUBSET Transfers,
                cands : SUBSET [row : RowIds, amount : Nat, tx : Transfers \cup {NoTransfer},
                                status : RowStatuses],
                closed : SUBSET Orders, aged : SUBSET RowIds]

NoRow == [status |-> "absent", tx |-> NoTransfer, amount |-> 0,
          inv |-> CHOOSE i \in Invoices : TRUE]
IdleSweep == [pc |-> "idle", todo |-> {}, tx |-> NoTransfer, row |-> NoTransfer, ask |-> 0,
              eff |-> 0, known |-> [r \in RowIds |-> NoRow],
              flagged |-> {}, cands |-> {}, closed |-> {}, aged |-> {}]

TypeOK ==
  /\ sent \in [Transfers -> Amounts \cup {0}]
  /\ status \in [Orders -> {"PENDING", "PAID", "EXPIRED"}]
  /\ payer \in [Orders -> Transfers \cup {NoTransfer, FromBalance}]
  /\ lapsed \subseteq Orders /\ aged \subseteq RowIds
  /\ rows \in [RowIds -> Rows]
  /\ booked \subseteq Entries
  /\ balance \in Nat
  /\ flags \subseteq Flags
  /\ told \in [Invoices -> Nat] /\ answers \subseteq Transfers \X Invoices
  /\ jobs \subseteq Orders
  /\ sweep \in [Sweeps -> SweepStates]
  /\ spends \in 0 .. SpendBound /\ faults \in 0 .. FaultBound

Init ==
  /\ sent = [t \in Transfers |-> 0]
  /\ status = [o \in Orders |-> "PENDING"]
  /\ payer = [o \in Orders |-> NoTransfer]
  /\ lapsed = {} /\ aged = {}
  /\ rows = [r \in RowIds |->
               IF r \in Invoices
               THEN [status |-> "PENDING", tx |-> NoTransfer, amount |-> Ask[r], inv |-> r]
               ELSE NoRow]
  /\ booked = {}
  /\ balance = OpeningBalance
  /\ flags = {}
  /\ told = [i \in Invoices |-> 0] /\ answers = {}
  /\ jobs = {}
  /\ sweep = [s \in Sweeps |-> IdleSweep]
  /\ spends = 0 /\ faults = 0

orderOf(r) == OrderOf[rows[r].inv]

-----------------------------------------------------------------------------
(* The customer, the clock, and the other rails.                           *)

\* Invoices a remainder was asked for on, while there is something to pay with it.
AskedOn(a) == {i \in Invoices :
  told[i] = a /\ i \notin aged /\ OrderOf[i] \in Orders \ lapsed /\ status[OrderOf[i]] = "PENDING"}

\* Any amount: the ask, less, more, a remainder, without the tag.
Send(t) ==
  /\ sent[t] = 0 /\ \A u \in Transfers : u < t => sent[u] # 0
  /\ \E a \in Amounts :
       /\ sent' = [sent EXCEPT ![t] = a]
       /\ answers' = answers \cup ({t} \X AskedOn(a))
  /\ UNCHANGED <<shop, sweep, spends, faults>>

\* payOrderFromBalance (module Fulfillment has its statements).
PayFromBalance(o) ==
  /\ status[o] = "PENDING"
  /\ \E i \in Invoices :
       /\ OrderOf[i] = o /\ balance >= Cents(Ask[i])
       /\ balance' = balance - Cents(Ask[i])
  /\ status' = [status EXCEPT ![o] = "PAID"]
  /\ payer' = [payer EXCEPT ![o] = FromBalance]
  /\ jobs' = jobs \cup {o}
  /\ UNCHANGED <<sent, lapsed, aged, rows, booked, flags, sweep, spends, faults, told, answers>>

\* A cent of the balance goes to another order.
SpendElsewhere ==
  /\ spends < SpendBound /\ balance > 0
  /\ balance' = balance - 1 /\ spends' = spends + 1
  /\ UNCHANGED <<sent, status, payer, lapsed, aged, rows, booked, flags, jobs, sweep, faults, told, answers>>

Lapse(o) ==
  /\ o \notin lapsed /\ lapsed' = lapsed \cup {o}
  /\ UNCHANGED <<sent, status, payer, aged, rows, booked, balance, flags, jobs, sweep, spends, faults, told, answers>>

\* expireOrder, of the orders-expire job.
Expire(o) ==
  /\ o \in lapsed /\ status[o] = "PENDING"
  /\ status' = [status EXCEPT ![o] = "EXPIRED"]
  /\ UNCHANGED <<sent, payer, lapsed, aged, rows, booked, balance, flags, jobs, sweep, spends, faults, told, answers>>

\* An invoice is a candidate for 50 minutes, its older order is open for 20.
Age(r) ==
  /\ r \notin aged /\ rows[r].status # "absent"
  /\ orderOf(r) \in Orders => orderOf(r) \in lapsed
  /\ r \in Transfers => rows[r].inv \in aged
  /\ aged' = aged \cup {r}
  /\ UNCHANGED <<sent, status, payer, lapsed, rows, booked, balance, flags, jobs, sweep, spends, faults, told, answers>>

-----------------------------------------------------------------------------
(* A sweep: what it reads, and its loop over the transfers.                *)

At(s, label) == sweep[s].pc = label
Goto(s, label) == sweep' = [sweep EXCEPT ![s].pc = label]
\* What a sweep has read is forgotten once it is not looked at again.
Rest(w) == IF w.todo # {} THEN w
           ELSE [w EXCEPT !.known = IdleSweep.known, !.flagged = {}, !.cands = {}, !.closed = {}]
\* The loop goes on to the transfers that are left.
Continue(s, todo) ==
  sweep' = [sweep EXCEPT ![s] = Rest([@ EXCEPT !.pc = "next", !.todo = todo, !.tx = NoTransfer,
                                               !.row = NoTransfer, !.ask = 0, !.eff = 0])]
NextTransfer(s) == Continue(s, sweep[s].todo)

\* expireStaleInvoices, the transfers of the wallet, the rows and the flags they have.
Begin(s) ==
  /\ At(s, "idle")
  /\ LET stale(r) == r \in aged /\ rows[r].status = "PENDING" /\ rows[r].tx = NoTransfer
         now == [r \in RowIds |-> IF stale(r) THEN [rows[r] EXCEPT !.status = "EXPIRED"] ELSE rows[r]]
     IN  /\ rows' = now
         /\ sweep' = [sweep EXCEPT ![s] =
              [IdleSweep EXCEPT !.pc = "load",
                 !.todo = {t \in Transfers : sent[t] # 0},
                 !.known = [r \in RowIds |-> IF now[r].tx # NoTransfer THEN now[r] ELSE NoRow],
                 !.flagged = {f.tx : f \in flags},
                 \* The orders orderIsClosed() holds of in this sweep: closed already, or by the clock.
                 !.closed = lapsed \cup {o \in Orders : status[o] # "PENDING"},
                 !.aged = aged]]
  /\ UNCHANGED <<sent, status, payer, lapsed, aged, booked, balance, flags, jobs, spends, faults, told, answers>>

OrderIsClosed(s, o) == o \in Orders /\ (o \in sweep[s].closed \/ status[o] # "PENDING")

\* The status a candidate shows: EXPIRED when its order is closed.
toCandidate(s, r) ==
  [row |-> r, amount |-> rows[r].amount, tx |-> rows[r].tx,
   status |-> IF rows[r].status = "PENDING" /\ OrderIsClosed(s, orderOf(r))
              THEN "EXPIRED" ELSE rows[r].status]

\* A row for a second transfer is younger than its invoice.
LoadCandidates(s) ==
  /\ At(s, "load")
  /\ sweep' = [sweep EXCEPT ![s].pc = "next",
       ![s].aged = {},
       ![s].cands = {toCandidate(s, r) : r \in
          {r \in RowIds \ sweep[s].aged : rows[r].status \in {"PENDING", "CONFIRMING", "UNDERPAID", "EXPIRED"}}}]
  /\ UNCHANGED <<sent, answers, shop, spends, faults>>

\* Oldest first.
Current(s, t) == At(s, "next") /\ t \in sweep[s].todo /\ t = Min(sweep[s].todo)

canTakeTransfer(c) == c.tx = NoTransfer \/ c.status = "UNDERPAID"

\* Candidates of one amount are rows of one order, so that the newest live one
\* and any live one are the same to what follows.
pickBest(C) == LET live == {c \in C : c.status # "EXPIRED"} IN IF live # {} THEN live ELSE C

\* The invoices a transfer may be taken for; none when it is unmatched.
matchTransfer(C, a) ==
  LET able == {c \in C : canTakeTransfer(c)}
      exact == {c \in able : c.amount = a}
      byTag == {c \in able : tronTagOfAmountUsdt6(c.amount) = tronTagOfAmountUsdt6(a)}
  IN  IF exact # {} THEN pickBest(exact)
      ELSE IF tronTagOfAmountUsdt6(a) # 0 /\ Cardinality(byTag) = 1 THEN byTag ELSE {}

Recorded(s, t) == \E c \in sweep[s].cands : c.tx = t

\* The row of a transfer as it was when the sweep began.
Known(s, t) == {r \in RowIds : sweep[s].known[r].tx = t}

\* Variant: every transfer with a row has been dealt with.
UnsettledNever(r) == FALSE

\* A row that was bound, by a sweep that went no further.
Unsettled(r) == r.status = "CONFIRMING"

\* Flagged, settled, or bound between the sweep's first and second read.
Skip(s, t) ==
  /\ Current(s, t)
  /\ \/ t \in sweep[s].flagged
     \/ \E r \in Known(s, t) : ~Unsettled(sweep[s].known[r])
     \/ Known(s, t) = {} /\ Recorded(s, t)
  /\ Continue(s, sweep[s].todo \ {t})
  /\ UNCHANGED <<sent, answers, shop, spends, faults>>

\* settle() decides on the row as it was read; priorUnderpaidCents() is a read
\* of its own.
Route(r, closed, ask, a) ==
  IF OrderOf[r.inv] = NoOrder THEN "topup"
  ELSE IF closed THEN "late"
  ELSE IF a >= ask THEN "paid" ELSE "prior"

\* Variant: the row's own amount, which for a second transfer is its value.
expectedForOwn(s, r) == {r.amount}

\* expectedFor(): the ask of the order's oldest row that is still a candidate.
expectedFor(s, r) ==
  LET same == {c \in sweep[s].cands : rows[c.row].inv = r.inv}
      first == {c \in same : c.row \in Invoices}
  IN  IF OrderOf[r.inv] = NoOrder \/ same = {} THEN {r.amount}
      ELSE {c.amount : c \in IF first # {} THEN first ELSE same}

\* Bound by a sweep that died before it settled.
Resume(s, t) ==
  /\ Current(s, t) /\ t \notin sweep[s].flagged
  /\ \E r \in Known(s, t) :
       LET row == sweep[s].known[r] IN
       /\ Unsettled(row)
       /\ \E ask \in expectedFor(s, row) :
            sweep' = [sweep EXCEPT ![s] = Rest([sweep[s] EXCEPT !.todo = @ \ {t}, !.tx = t,
                        !.row = r, !.ask = ask,
                        !.pc = Route(row, OrderOf[row.inv] \in sweep[s].closed, ask, sent[t])])]
  /\ UNCHANGED <<sent, answers, shop, spends, faults>>

Fresh(s, t) ==
  /\ Current(s, t) /\ t \notin sweep[s].flagged
  /\ Known(s, t) = {} /\ ~Recorded(s, t)

flagUnmatched(s, t) ==
  /\ Fresh(s, t) /\ matchTransfer(sweep[s].cands, sent[t]) = {}
  /\ flags' = flags \cup {[tx |-> t, why |-> "unmatched", by |-> s]}
  /\ Continue(s, sweep[s].todo \ {t})
  /\ UNCHANGED <<sent, status, payer, lapsed, aged, rows, booked, balance, jobs, told, answers, spends, faults>>

\* The in-memory candidate carries the transfer from now on.
Take(s, t, c, r, label) ==
  sweep' = [sweep EXCEPT ![s].todo = @ \ {t}, ![s].tx = t, ![s].row = r,
              ![s].ask = c.amount, ![s].pc = label,
              ![s].cands = (@ \ {c}) \cup {[c EXCEPT !.tx = t]}]

\* Variant: the invoice is updated by id, only the key of txHash is unique.
FreeByKey(c, t) == \A r \in RowIds : rows[r].tx # t

\* The compare-and-set of txHash, and its unique key.
Free(c, t) == rows[c.row].tx = NoTransfer /\ \A r \in RowIds : rows[r].tx # t

\* bindTransfer() on a fresh invoice, which a parallel sweep may have won; then
\* the transfer waits for the next sweep.
Bind(s, t) ==
  /\ Fresh(s, t)
  /\ \E c \in matchTransfer(sweep[s].cands, sent[t]) :
       /\ c.tx = NoTransfer
       /\ IF Free(c, t)
          THEN /\ rows' = [rows EXCEPT ![c.row].tx = t, ![c.row].status = "CONFIRMING"]
               /\ Take(s, t, c, c.row, "reread")
          ELSE /\ Continue(s, sweep[s].todo \ {t})
               /\ UNCHANGED rows
  /\ UNCHANGED <<sent, status, payer, lapsed, aged, booked, balance, flags, jobs, spends, faults, told, answers>>

\* ... and on an underpaid one: a row of its own for the transfer, or the row a
\* parallel sweep has made (the unique key of provider and txHash).
BindAnother(s, t) ==
  /\ Fresh(s, t)
  /\ \E c \in matchTransfer(sweep[s].cands, sent[t]) :
       /\ c.tx # NoTransfer
       /\ LET bound == {r \in RowIds : rows[r].tx = t} IN
          IF bound = {}
          THEN /\ rows' = [rows EXCEPT ![t] = [status |-> "CONFIRMING", tx |-> t,
                             amount |-> sent[t], inv |-> rows[c.row].inv]]
               /\ Take(s, t, c, t, "reread")
          ELSE \E r \in bound : Take(s, t, c, r, "reread") /\ UNCHANGED rows
  /\ UNCHANGED <<sent, status, payer, lapsed, aged, booked, balance, flags, jobs, spends, faults, told, answers>>

\* The row is read back with its order; a parallel sweep may have settled it.
Reread(s) ==
  LET w == sweep[s]
      r == rows[w.row]
  IN  /\ At(s, "reread")
      /\ IF r.status = "CONFIRMING"
         THEN sweep' = [sweep EXCEPT ![s] = Rest([@ EXCEPT
                !.pc = Route(r, OrderIsClosed(s, OrderOf[r.inv]), w.ask, sent[w.tx])])]
         ELSE NextTransfer(s)
      /\ UNCHANGED <<sent, answers, shop, spends, faults>>

-----------------------------------------------------------------------------
(* Settlement: one transaction each.                                       *)

\* What the sweep is settling: its transfer, row, order and value.
tx(s) == sweep[s].tx
row(s) == sweep[s].row
theOrder(s) == orderOf(row(s))
received(s) == sent[tx(s)]

\* Variant: claimPayment() updates by id.
ClaimableAny(s) == TRUE

\* claimPayment(): CONFIRMING -> st, or a StaleSettlementError that rolls back.
Claimable(s) == rows[row(s)].status = "CONFIRMING"
claimPayment(s, st, a) == [rows EXCEPT ![row(s)].status = st, ![row(s)].amount = a]
Stale(s) == NextTransfer(s) /\ UNCHANGED <<sent, answers, shop, spends, faults>>
Closed(s) == Goto(s, "late") /\ UNCHANGED <<sent, answers, shop, spends, faults>>

Booked(key, r) == \E e \in booked : e.key = key /\ e.row = r
\* credit() of module Ledger; nothing is credited for less than a cent.
credit(s, key, cents) ==
  IF cents = 0 \/ Booked(key, row(s)) THEN UNCHANGED <<booked, balance>>
  ELSE /\ booked' = booked \cup {[key |-> key, row |-> row(s), cents |-> cents]}
       /\ balance' = balance + cents

settlePaid(s) ==
  /\ status' = [status EXCEPT ![theOrder(s)] = "PAID"]
  /\ payer' = [payer EXCEPT ![theOrder(s)] = tx(s)]
  /\ Goto(s, "enqueue")
  /\ UNCHANGED <<sent, lapsed, aged, flags, jobs, told, answers, spends, faults>>

\* The transfer covers the ask: it buys the order, and the surplus is credited.
settleOrderPaid(s) ==
  /\ At(s, "paid")
  /\ \/ status[theOrder(s)] # "PENDING" /\ Closed(s)
     \/ status[theOrder(s)] = "PENDING" /\ ~Claimable(s) /\ Stale(s)
     \/ /\ status[theOrder(s)] = "PENDING" /\ Claimable(s)
        /\ rows' = claimPayment(s, "PAID", received(s))
        /\ credit(s, "overpaid", Cents(received(s) - sweep[s].ask))
        /\ settlePaid(s)

\* Credits of the order's rows that are UNDERPAID.
shortRows(o) == {r \in RowIds : rows[r].status = "UNDERPAID" /\ orderOf(r) = o}
priorUnderpaidCents(o) ==
  LET cents(e) == e.cents
  IN  MapThenSumSet(cents, {e \in booked : e.key # "reclaim" /\ e.row \in shortRows(o)})

priorRead(s) ==
  LET eff == received(s) + priorUnderpaidCents(theOrder(s)) * CentsToUsdt6
  IN  /\ At(s, "prior")
      /\ sweep' = [sweep EXCEPT ![s].eff = eff,
                     ![s].pc = IF eff >= sweep[s].ask THEN "complete" ELSE "under"]
      /\ UNCHANGED <<sent, answers, shop, spends, faults>>

\* Variant: ask and transfer are rounded before they are subtracted.
neededRounded(s) == wholeCentsUp(sweep[s].ask) - Cents(received(s))

\* What the balance must add to the transfer, in cents.
needed(s) == wholeCentsUp(sweep[s].ask - received(s))

\* The debit's check; its InsufficientBalanceError rolls the settlement back.
Affords(s) == balance >= needed(s)

\* With the credits of earlier short payments the transfer covers the ask; it is
\* one more short payment when the customer has spent them.
settleOrderCompleted(s) ==
  /\ At(s, "complete")
  /\ \/ status[theOrder(s)] # "PENDING" /\ Closed(s)
     \/ status[theOrder(s)] = "PENDING" /\ ~Claimable(s) /\ Stale(s)
     \/ /\ status[theOrder(s)] = "PENDING" /\ Claimable(s) /\ ~Affords(s)
        /\ sweep' = [sweep EXCEPT ![s].pc = "under", ![s].eff = received(s)]
        /\ UNCHANGED <<sent, answers, shop, spends, faults>>
     \/ /\ status[theOrder(s)] = "PENDING" /\ Claimable(s) /\ Affords(s)
        /\ booked' = booked \cup {[key |-> "reclaim", row |-> row(s), cents |-> needed(s)]}
        /\ balance' = balance - needed(s)
        /\ rows' = [r \in RowIds |->
             IF r \in shortRows(theOrder(s)) THEN [rows[r] EXCEPT !.status = "PAID"]
                                              ELSE claimPayment(s, "PAID", received(s))[r]]
        /\ settlePaid(s)

\* Variant: the remainder without the tag.
untaggedRemainder(ask, eff) == wholeCentsUp(ask - eff) * CentsToUsdt6

\* The remainder in whole cents, with the tag of the invoice.
taggedRemainder(ask, eff) ==
  wholeCentsUp(ask - eff) * CentsToUsdt6 + tronTagOfAmountUsdt6(ask) * TagUnit

\* The invoice keeps the amount it asked for, and with it its tag.
settleUnderpaid(s) ==
  /\ At(s, "under")
  /\ \/ ~Claimable(s) /\ Stale(s)
     \/ /\ Claimable(s)
        /\ rows' = claimPayment(s, "UNDERPAID", sweep[s].ask)
        /\ credit(s, "underpaid", Cents(received(s)))
        /\ told' = [told EXCEPT ![rows[row(s)].inv] = taggedRemainder(sweep[s].ask, sweep[s].eff)]
        /\ NextTransfer(s)
        /\ UNCHANGED <<sent, answers, status, payer, lapsed, aged, flags, jobs, spends, faults>>

settleLate(s) ==
  /\ At(s, "late")
  /\ \/ ~Claimable(s) /\ Stale(s)
     \/ /\ Claimable(s)
        /\ rows' = claimPayment(s, "PAID", received(s))
        /\ credit(s, "late", Cents(received(s)))
        /\ Goto(s, "doublePaid")
        /\ UNCHANGED <<sent, answers, status, payer, lapsed, aged, flags, jobs, told, spends, faults>>

\* ... and, when the order was paid on another rail, an operator is told.
flagDoublePaid(s) ==
  /\ At(s, "doublePaid")
  /\ flags' = IF status[theOrder(s)] = "PAID"
              THEN flags \cup {[tx |-> tx(s), why |-> "doublePaid", by |-> s]} ELSE flags
  /\ NextTransfer(s)
  /\ UNCHANGED <<sent, answers, status, payer, lapsed, aged, rows, booked, balance, jobs, told, spends, faults>>

settleTopup(s) ==
  /\ At(s, "topup")
  /\ \/ ~Claimable(s) /\ Stale(s)
     \/ /\ Claimable(s)
        /\ rows' = claimPayment(s, "PAID", received(s))
        /\ credit(s, "topup", Cents(received(s)))
        /\ NextTransfer(s)
        /\ UNCHANGED <<sent, answers, status, payer, lapsed, aged, flags, jobs, told, spends, faults>>

enqueueDelivery(s) ==
  /\ At(s, "enqueue")
  /\ jobs' = jobs \cup {theOrder(s)}
  /\ NextTransfer(s)
  /\ UNCHANGED <<sent, answers, status, payer, lapsed, aged, rows, booked, balance, flags, told, spends, faults>>

\* reconcileUndeliveredOrders(), the end of a sweep: a job for orders that have
\* been PAID for longer than two minutes.
PaidOrders == {o \in Orders : status[o] = "PAID"}
Finish(s, old) ==
  /\ At(s, "next") /\ sweep[s].todo = {}
  /\ jobs' = jobs \cup old
  /\ sweep' = [sweep EXCEPT ![s] = IdleSweep]
  /\ UNCHANGED <<sent, answers, status, payer, lapsed, aged, rows, booked, balance, flags, told, spends, faults>>

\* An error in one transfer is logged and the loop goes on; a worker that dies
\* or a database that is gone ends the sweep.
TransferFails(s) ==
  /\ ~At(s, "idle") /\ ~At(s, "load") /\ ~At(s, "next")
  /\ faults < FaultBound /\ faults' = faults + 1
  /\ NextTransfer(s)
  /\ UNCHANGED <<sent, answers, shop, spends>>

SweepDies(s) ==
  /\ ~At(s, "idle")
  /\ faults < FaultBound /\ faults' = faults + 1
  /\ sweep' = [sweep EXCEPT ![s] = IdleSweep]
  /\ UNCHANGED <<sent, answers, shop, spends>>

-----------------------------------------------------------------------------
Work(s) ==
  \/ Begin(s) \/ LoadCandidates(s)
  \/ \E t \in Transfers : Skip(s, t) \/ Resume(s, t) \/ flagUnmatched(s, t)
                          \/ Bind(s, t) \/ BindAnother(s, t)
  \/ Reread(s) \/ settleOrderPaid(s) \/ priorRead(s) \/ settleOrderCompleted(s)
  \/ settleUnderpaid(s) \/ settleLate(s) \/ flagDoublePaid(s) \/ settleTopup(s)
  \/ enqueueDelivery(s) \/ \E old \in SUBSET PaidOrders : Finish(s, old)

Next ==
  \/ \E t \in Transfers : Send(t)
  \/ \E o \in Orders : PayFromBalance(o) \/ Lapse(o) \/ Expire(o)
  \/ SpendElsewhere
  \/ \E r \in RowIds : Age(r)
  \/ \E s \in Sweeps : Work(s) \/ TransferFails(s) \/ SweepDies(s)

Spec == Init /\ [][Next]_vars

-----------------------------------------------------------------------------
(* What the rail promises.                                                 *)

RowOf(t) == {r \in RowIds : rows[r].tx = t}
Bought(t) == {o \in Orders : payer[o] = t}
Credits(t) == {e \in booked : e.row \in RowOf(t) /\ e.key # "reclaim"}
Settled(t) == \E r \in RowOf(t) : rows[r].status \in {"UNDERPAID", "PAID"}
Flagged(t) == \E f \in flags : f.tx = t /\ f.why = "unmatched"

\* However sweeps overlap, die and repeat each other: a transfer has one row,
\* moves no money before that row is settled, and then either buys one order,
\* with at most its surplus credited, or is credited in full, once.
OneOutcomePerTransfer == \A t \in Transfers :
  /\ Cardinality(RowOf(t)) <= 1 /\ Cardinality(Bought(t)) <= 1
  /\ Settled(t) \/ (Bought(t) = {} /\ Credits(t) = {})
  /\ Settled(t) => LET credited == {<<e.key, e.cents>> : e \in Credits(t)} IN
       IF Bought(t) # {}
       THEN credited \subseteq {<<"overpaid", Cents(sent[t] - a)>> : a \in {Ask[i] : i \in Invoices}}
       ELSE /\ Cardinality(credited) = (IF Cents(sent[t]) > 0 THEN 1 ELSE 0)
            /\ \A c \in credited : c[2] = Cents(sent[t])

ReclaimedFor(o) == {e \in booked : e.key = "reclaim" /\ orderOf(e.row) = o}
ShortCredits(o) == {e \in booked : e.key = "underpaid" /\ orderOf(e.row) = o}
CentsOf(E) == LET cents(e) == e.cents IN MapThenSumSet(cents, E)

\* Goods are never had for less than was asked: the transfer that paid an order,
\* with what was taken back from the balance for it, covers the invoice
\* (settleOrderPaid, settleOrderCompleted and the ask that expectedFor recovers).
BoughtIsCovered == \A o \in Orders, i \in Invoices :
  OrderOf[i] = o /\ payer[o] \in Transfers =>
    sent[payer[o]] + CentsOf(ReclaimedFor(o)) * CentsToUsdt6 >= Ask[i]

\* What is taken back for an order was credited for that order before, in spite
\* of the rounding up of the remainder and of a sum read outside the transaction.
ReclaimIsBacked == \A o \in Orders :
  CentsOf(ReclaimedFor(o)) <= CentsOf(ShortCredits(o))

\* A row keeps the transfer it was bound to, and what is settled stays settled.
SettledIsFinal ==
  [][\A r \in RowIds :
       /\ rows[r].tx # NoTransfer => rows'[r].tx = rows[r].tx
       /\ rows[r].status = "PAID" => rows'[r].status = "PAID"
       /\ rows[r].status = "UNDERPAID" => rows'[r].status \in {"UNDERPAID", "PAID"}]_vars

\* "Either settled or flagged for a human, instead of silently never being
\* looked at": whatever sweep dies where.  And the order it has bought gets its
\* delivery job, though the sweep may die before it enqueues the job.
EveryTransferIsSettled ==
  /\ \A t \in Transfers : sent[t] # 0 ~> Settled(t) \/ Flagged(t)
  /\ \A o \in Orders : status[o] = "PAID" ~> o \in jobs

\* The remainder a customer is asked for, sent while the order is open and seen
\* while the invoice still holds its tag, "lands on this order rather than in
\* the unmatched pile" (taggedRemainder) - unless another transfer has paid the
\* order meanwhile, or it is short payment number three: two UNDERPAID rows of
\* an order make its tag ambiguous.  A parallel sweep may flag it and be wrong:
\* its candidates are younger than its rows.
RemainderIsRecognised == \A answer \in answers :
  LET t == answer[1]  i == answer[2]  o == OrderOf[i] IN
  Flagged(t) /\ RowOf(t) = {} =>
    i \in aged \/ payer[o] \in Transfers \/ Cardinality(shortRows(o)) > 1

=============================================================================
