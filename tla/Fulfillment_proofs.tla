------------------------- MODULE Fulfillment_proofs -------------------------
(***************************************************************************)
(* What holds of orders, money and goods for every number of processes,    *)
(* orders, items and payloads, however handlers overlap and fail.          *)
(*                                                                         *)
(* The status of an order proves little: updates are decided on stale      *)
(* reads.  What only ever grows does not go stale: paidAt stays set, a     *)
(* booked key stays booked, a sold item stays with its order.  The         *)
(* invariant says of each handler, by the statement it is at, which of     *)
(* these it has seen and what its open transaction adds to them (Good);    *)
(* the rows another handler commits cannot take any of it away (Frame).    *)
(*                                                                         *)
(* The last part is about SerialSpec, where handlers of one order take     *)
(* turns: there a status that was read does not go stale either, and       *)
(* Fresh and Settled say what follows from it.                             *)
(***************************************************************************)
EXTENDS Fulfillment, FiniteSetTheorems, TLAPS

\* Which operation a statement belongs to.
Placed(p) ==
  /\ pc[p] = "idle" => job[p] = NoJob /\ tx[p] = NoTx
  /\ pc[p] # "idle" => order(p) \in Orders
  /\ pc[p] \in {"debit", "markPaid", "setPaid"} => job[p].op = "pay"
  /\ pc[p] \in {"read", "dispatch", "findItem", "claimItem", "bindItem", "supplier"} =>
       job[p].op = "fulfil"
  /\ pc[p] \in {"markDelivering", "setDelivering", "markDelivered", "setDelivered"} =>
       job[p].op \in {"fulfil", "manual", "redeliver"}
  /\ pc[p] = "settle" => job[p].op = "settle"
  /\ pc[p] \in {"markFailed", "setFailed", "creditBack"} => job[p].op \in {"fulfil", "settle"}
  /\ pc[p] \in {"markExpired", "setExpired"} => job[p].op = "expire"
  /\ pc[p] \in {"markRefunded", "sumRefunds", "creditRefund", "setRefunded"} =>
       job[p].op = "refund"
  /\ pc[p] = "readManual" => job[p].op = "manual"

\* The handler has seen the order paid.
PastPayment(p) ==
  \/ job[p].op \in {"fulfil", "settle", "manual", "redeliver"}
  \/ pc[p] \in {"sumRefunds", "creditRefund", "setRefunded"}
  \/ job[p].op = "refund" /\ pc[p] = "commit"

PaidFirst(p) == PastPayment(p) => paidAt[order(p)]

\* Ledger keys the handler can rely on.
Booked(p) == ledger[order(p)] \cup tx[p].keys

\* A payment that reaches its commit has the debit and the PAID order, or has
\* found the order paid.
PaymentCovered(p) ==
  /\ tx[p].paid <=> tx[p].status = "PAID"
  /\ tx[p].paid => job[p].op = "pay" /\ pc[p] = "commit"
  /\ pc[p] = "debit" => rail(p) = "balance"
  /\ "purchase" \in tx[p].keys => job[p].op = "pay" /\ rail(p) = "balance"
  /\ job[p].op = "pay" /\ pc[p] # "debit" /\ rail(p) = "balance" => "purchase" \in Booked(p)
  /\ job[p].op = "pay" /\ pc[p] = "commit" => tx[p].paid \/ paidAt[order(p)]

\* The money is back, or about to be with the commit.
BackCovered(p) == rail(p) = "free" \/ Booked(p) \cap Refunds # {}

\* FAILED and REFUNDED are written beside a refund, and only for paid orders.
RefundCovered(p) ==
  /\ tx[p].status \in {"DELIVERING", "DELIVERED", "FAILED", "REFUNDED"} => PastPayment(p)
  /\ tx[p].keys \cap Refunds # {} => PastPayment(p)
  /\ tx[p].status = "FAILED" /\ pc[p] # "creditBack" => BackCovered(p)
  /\ tx[p].status = "REFUNDED" \/ pc[p] = "setRefunded" => BackCovered(p)

\* DELIVERED is written together with what the handler holds.
Holding(p) ==
  /\ pc[p] \in {"markDelivered", "setDelivered"} => job[p].good \in Goods
  /\ pc[p] \in {"markDelivering", "setDelivering"} /\ job[p].op # "fulfil" => job[p].good \in Goods
  /\ tx[p].status = "DELIVERED" => tx[p].good # None
  /\ tx[p].good # None =>
       tx[p].status = "DELIVERED" /\ pc[p] = "commit" /\ tx[p].good = job[p].good

\* A claimed item is nobody's, and the handler holds no item but its order's.
ItemHeld(p) ==
  /\ pc[p] \in {"findItem", "claimItem", "bindItem"} => kind(p) = "pool"
  /\ pc[p] = "bindItem" => tx[p].item # None
  /\ tx[p].item # None => owner[tx[p].item] = None
  /\ job[p].good \in Items => owner[job[p].good] = order(p) \/ tx[p].bound
  /\ tx[p].bound =>
       /\ tx[p].item # None /\ job[p].good = tx[p].item
       /\ job[p].op = "fulfil" /\ kind(p) = "pool"
       /\ pc[p] \in {"markDelivered", "setDelivered", "commit"}
       /\ pc[p] = "commit" => tx[p].good # None
       /\ \A i \in Items : owner[i] # order(p)

\* deliver() opens a transaction for the pool's claim only.
Unopened(p) ==
  /\ job[p].op = "fulfil" /\ pc[p] \in {"read", "markDelivering", "setDelivering", "dispatch",
                                       "findItem", "claimItem", "supplier"} => tx[p] = NoTx
  /\ job[p].op = "fulfil" /\ kind(p) # "pool" /\ pc[p] \in {"markDelivered", "setDelivered"} =>
       tx[p] = NoTx

Good(p) ==
  /\ Placed(p) /\ PaidFirst(p) /\ PaymentCovered(p) /\ RefundCovered(p)
  /\ Holding(p) /\ ItemHeld(p) /\ Unopened(p)

\* Two transactions never hold one item, or bind two items to one order.
Apart ==
  \A p, q \in Procs : p # q =>
    /\ tx[p].item # None => tx[q].item # tx[p].item
    /\ tx[p].bound /\ tx[q].bound => order(p) # order(q)

\* An order past PENDING that has not merely expired has been paid.
StatusPaid == \A o \in Orders : status[o] \notin {"PENDING", "EXPIRED"} => paidAt[o]

\* Only a balance purchase is debited.
OnlyBalanceDebited == \A o \in Orders : "purchase" \in ledger[o] => terms[o].rail = "balance"

\* A credential on an order is the item sold to it.
PayloadOwned == \A o \in Orders : payload[o] \in Items => owner[payload[o]] = o

MoneyInv ==
  StatusPaid /\ OnlyBalanceDebited /\ ChargedIffPaid /\ NothingForUnpaid /\ FailedMeansRefunded

GoodsInv ==
  DeliveredHasPayload /\ BurnedItemIsStored /\ PayloadOwned /\ OneBuyerPerCredential

\* The supplier is asked again only while attempts are left.
TriesLeft ==
  \A p \in Procs :
    pc[p] \notin {"markFailed", "setFailed", "creditBack", "commit"} => tries[p] < Attempts

IInv == TypeOK /\ (\A p \in Procs : Good(p)) /\ Apart /\ MoneyInv /\ GoodsInv

-----------------------------------------------------------------------------
(* What the building blocks of the actions do to the handler's own state.  *)

\* A step of somebody else.
Same(q) == pc'[q] = pc[q] /\ job'[q] = job[q] /\ tx'[q] = tx[q]

\* A step that commits nothing and moves only the handler itself.
LocalStep(p) ==
  /\ TypeOK'
  /\ UNCHANGED <<terms, status, paidAt, payload, owner, ledger>>
  /\ \A q \in Procs \ {p} : Same(q)

\* Leave() ends the handler and drops its transaction; nothing is committed.
LEMMA LeaveIs ==
  ASSUME TypeOK, NEW p \in Procs, Leave(p)
  PROVE  LocalStep(p) /\ pc'[p] = "idle" /\ job'[p] = NoJob /\ tx'[p] = NoTx
<1>1. NoJob \in Jobs /\ NoTx \in Transactions /\ 0 \in 0 .. Attempts /\ "idle" \in Labels
  BY AttemptsAssumption DEF NoJob, NoTx, Jobs, Transactions, Ops, Labels
<1> QED BY <1>1 DEF Leave, Goto, LocalStep, TypeOK, Same, rows

\* The error fulfillOrder() catches: on to the settlement, without a transaction.
LEMMA DeliveryFailsIs ==
  ASSUME TypeOK, NEW p \in Procs, DeliveryFails(p)
  PROVE  /\ LocalStep(p) /\ pc'[p] = "settle" /\ tx'[p] = NoTx
         /\ job'[p] = [op |-> "settle", order |-> order(p), good |-> None]
<1>1. NoTx \in Transactions /\ 0 \in 0 .. Attempts /\ "settle" \in Labels
  BY AttemptsAssumption DEF NoTx, Transactions, Labels
<1>2. [op |-> "settle", order |-> order(p), good |-> None] \in Jobs
  BY DEF TypeOK, Jobs, Ops, order
<1> QED BY <1>1, <1>2 DEF DeliveryFails, Goto, LocalStep, TypeOK, Same, rows

\* A read moves the handler to its next statement.
LEMMA ProceedIs ==
  ASSUME TypeOK, NEW p \in Procs, NEW label \in Labels, Proceed(p, label)
  PROVE  LocalStep(p) /\ pc'[p] = label /\ job'[p] = job[p] /\ tx'[p] = tx[p]
<1> QED BY DEF Proceed, Goto, LocalStep, TypeOK, Same, rows

\* A handler starts from idle, with its operation, order and payload.
LEMMA StartIs ==
  ASSUME TypeOK, NEW p \in Procs, NEW o \in Orders, NEW op \in Ops, NEW good \in Goods \cup {None},
         NEW label \in Labels, Start(p, o, op, good, label)
  PROVE  /\ LocalStep(p) /\ pc[p] = "idle" /\ pc'[p] = label /\ tx'[p] = tx[p]
         /\ job'[p] = [op |-> op, order |-> o, good |-> good]
<1>1. [op |-> op, order |-> o, good |-> good] \in Jobs
  BY DEF Jobs
<1> QED BY <1>1 DEF Start, At, Goto, LocalStep, TypeOK, Same, rows

\* The handler takes a payload in hand.
LEMMA HoldIs ==
  ASSUME TypeOK, NEW p \in Procs, NEW good \in Goods, NEW label \in Labels, Hold(p, good, label)
  PROVE  /\ LocalStep(p) /\ pc'[p] = label /\ tx'[p] = tx[p]
         /\ job'[p] = [op |-> job[p].op, order |-> order(p), good |-> good]
<1>1. [job[p] EXCEPT !.good = good] = [op |-> job[p].op, order |-> order(p), good |-> good]
  BY DEF TypeOK, Jobs, order
<1>2. [op |-> job[p].op, order |-> order(p), good |-> good] \in Jobs
  BY DEF TypeOK, Jobs, order
<1>3. job' = [job EXCEPT ![p] = [op |-> job[p].op, order |-> order(p), good |-> good]]
  BY <1>1 DEF Hold
<1> QED BY <1>2, <1>3 DEF Hold, Goto, LocalStep, TypeOK, Same, rows

\* order.update in a transaction changes the uncommitted status.
LEMMA WriteIs ==
  ASSUME TypeOK, NEW p \in Procs, NEW st \in Statuses, NEW label \in Labels, Write(p, st, label)
  PROVE  /\ LocalStep(p) /\ pc'[p] = label /\ job'[p] = job[p]
         /\ tx'[p] = [tx[p] EXCEPT !.status = st]
<1>1. [tx[p] EXCEPT !.status = st] \in Transactions
  BY DEF TypeOK, Transactions
<1>2. tx' = [tx EXCEPT ![p] = [tx[p] EXCEPT !.status = st]]
  BY DEF Write
<1> QED BY <1>1, <1>2 DEF Write, Goto, LocalStep, TypeOK, Same, rows

\* A ledger call leaves its key booked, before or in this transaction.
LEMMA BookIs ==
  ASSUME TypeOK, NEW p \in Procs, NEW key \in LedgerKeys, NEW label \in Labels, Book(p, key, label)
  PROVE  /\ LocalStep(p) /\ pc'[p] = label /\ job'[p] = job[p]
         /\ \E keys \in SUBSET LedgerKeys :
              /\ tx'[p] = [tx[p] EXCEPT !.locked = TRUE, !.keys = keys]
              /\ tx[p].keys \subseteq keys /\ keys \subseteq tx[p].keys \cup {key}
              /\ key \in ledger[order(p)] \cup keys
<1> DEFINE keys == IF key \in ledger[order(p)] THEN tx[p].keys ELSE tx[p].keys \cup {key}
           t == [tx[p] EXCEPT !.locked = TRUE, !.keys = keys]
<1>1. keys \in SUBSET LedgerKeys
  BY DEF TypeOK, Transactions
<1>2. t \in Transactions
  BY <1>1 DEF TypeOK, Transactions
<1>3. tx' = [tx EXCEPT ![p] = t]
  BY DEF Book
<1>4. LocalStep(p) /\ pc'[p] = label /\ job'[p] = job[p] /\ tx'[p] = t
  BY <1>2, <1>3 DEF Book, Goto, LocalStep, TypeOK, Same, rows
<1> HIDE DEF t
<1>5. /\ tx[p].keys \subseteq keys /\ keys \subseteq tx[p].keys \cup {key}
      /\ key \in ledger[order(p)] \cup keys
  OBVIOUS
<1> HIDE DEF keys
<1> QED BY <1>1, <1>4, <1>5 DEF t

-----------------------------------------------------------------------------
(* Handlers that commit nothing.                                           *)

\* The facts about a handler survive a step of another one that takes nothing
\* of what only grows: paidAt, booked keys, sold items.
LEMMA Frame ==
  ASSUME TypeOK, NEW q \in Procs, Good(q), Same(q), UNCHANGED terms,
         \A o \in Orders : paidAt[o] => paidAt'[o],
         \A o \in Orders : ledger[o] \subseteq ledger'[o],
         \A i \in Items : owner[i] # None => owner'[i] = owner[i],
         tx[q].item # None => owner'[tx[q].item] = None,
         tx[q].bound => \A i \in Items : owner'[i] # order(q)
  PROVE  Good(q)'
<1>1. order(q)' = order(q) /\ kind(q)' = kind(q) /\ rail(q)' = rail(q)
  BY DEF Same, order, kind, rail
<1>2. Placed(q)' /\ (PastPayment(q)' <=> PastPayment(q))
  BY <1>1 DEF Same, Good, Placed, PastPayment
<1>3. pc[q] = "idle" => tx[q] = NoTx /\ job[q] = NoJob
  BY DEF Good, Placed
<1>4. pc[q] # "idle" => order(q) \in Orders /\ Booked(q) \subseteq Booked(q)'
  BY <1>1 DEF Good, Placed, Booked, Same
<1>5. PaidFirst(q)'
  <2>1. PastPayment(q) => pc[q] # "idle"
    BY <1>3 DEF PastPayment, NoJob
  <2> QED BY <1>1, <1>2, <1>4, <2>1 DEF Good, PaidFirst
<1>6. PaymentCovered(q)'
  BY <1>1, <1>3, <1>4, <1>5 DEF Good, PaidFirst, PaymentCovered, Same, NoJob, NoTx
<1>7. RefundCovered(q)'
  <2>1. BackCovered(q) /\ pc[q] # "idle" => BackCovered(q)'
    BY <1>1, <1>4 DEF BackCovered
  <2>2. tx[q].status \in {"FAILED", "REFUNDED"} \/ pc[q] = "setRefunded" => pc[q] # "idle"
    BY <1>3, NoneAssumption DEF NoTx, Statuses
  <2> QED BY <1>2, <2>1, <2>2 DEF Good, RefundCovered, Same
<1>8. Holding(q)'
  BY DEF Good, Holding, Same
<1>9. ItemHeld(q)'
  <2>1. job[q].good \in Items => owner'[job[q].good] = order(q) \/ tx[q].bound
    <3> SUFFICES ASSUME job[q].good \in Items, ~tx[q].bound PROVE owner'[job[q].good] = order(q)
      OBVIOUS
    <3>1. pc[q] # "idle"
      BY <1>3, NoneAssumption DEF NoJob
    <3> QED BY <1>4, <3>1, NoneAssumption DEF Good, ItemHeld
  <2> QED BY <1>1, <2>1 DEF Good, ItemHeld, Same
<1>10. Unopened(q)'
  BY <1>1 DEF Good, Unopened, Same
<1> QED BY <1>2, <1>5, <1>6, <1>7, <1>8, <1>9, <1>10 DEF Good

\* A local step owes the invariant only what it does to its own handler.
LEMMA LocalKeeps ==
  ASSUME IInv, NEW p \in Procs, LocalStep(p), Good(p)', Apart'
  PROVE  IInv'
<1>1. ASSUME NEW q \in Procs \ {p} PROVE Good(q)'
  <2>1. TypeOK /\ Good(q) /\ Same(q)
    BY <1>1 DEF IInv, LocalStep
  <2> QED BY <2>1, Frame DEF LocalStep, Good, ItemHeld
<1>2. MoneyInv'
  BY DEF IInv, LocalStep, MoneyInv, StatusPaid, OnlyBalanceDebited, ChargedIffPaid,
     NothingForUnpaid, FailedMeansRefunded, Charged, Refunded
<1>3. GoodsInv'
  BY DEF IInv, LocalStep, GoodsInv, DeliveredHasPayload, BurnedItemIsStored, PayloadOwned,
     OneBuyerPerCredential
<1> QED BY <1>1, <1>2, <1>3 DEF IInv, LocalStep

\* Most steps claim no item and bind none.
LEMMA StaysApart ==
  ASSUME IInv, NEW p \in Procs, LocalStep(p),
         tx'[p].item \in {None, tx[p].item},
         tx'[p].bound => tx[p].bound /\ job'[p].order = order(p)
  PROVE  Apart'
<1> SUFFICES ASSUME NEW q \in Procs, NEW r \in Procs, q # r
             PROVE  /\ tx'[q].item # None => tx'[r].item # tx'[q].item
                    /\ tx'[q].bound /\ tx'[r].bound => job'[q].order # job'[r].order
  BY DEF Apart, order
<1>1. /\ tx[q].item # None => tx[r].item # tx[q].item
      /\ tx[q].bound /\ tx[r].bound => job[q].order # job[r].order
  BY DEF IInv, Apart, order
<1>2. \A s \in {q, r} :
        /\ tx'[s].item \in {None, tx[s].item}
        /\ tx'[s].bound => tx[s].bound /\ job'[s].order = job[s].order
  BY DEF LocalStep, Same, order
<1> QED BY <1>1, <1>2

\* A local step that claims and binds nothing owes only its handler's facts.
LEMMA Moves ==
  ASSUME IInv, NEW p \in Procs, LocalStep(p), Good(p)',
         tx'[p].item \in {None, tx[p].item},
         tx'[p].bound => tx[p].bound /\ job'[p].order = order(p)
  PROVE  IInv'
<1> QED BY StaysApart, LocalKeeps

\* Giving up is always safe: the handler then claims nothing.
LEMMA LeaveKeeps ==
  ASSUME IInv, NEW p \in Procs, Leave(p)
  PROVE  IInv'
<1>1. LocalStep(p) /\ pc'[p] = "idle" /\ job'[p] = NoJob /\ tx'[p] = NoTx
  BY LeaveIs DEF IInv
<1>2. Good(p)'
  BY <1>1, NoneAssumption DEF NoJob, NoTx, Good, Placed, PaidFirst, PastPayment, PaymentCovered,
     RefundCovered, Holding, ItemHeld, Unopened, Statuses
<1> QED BY <1>1, <1>2, Moves DEF NoTx

\* A delivery that throws goes on to the settlement, its transaction discarded.
LEMMA DeliveryFailsKeeps ==
  ASSUME IInv, NEW p \in Procs, job[p].op = "fulfil", DeliveryFails(p)
  PROVE  IInv'
<1>1. /\ LocalStep(p) /\ pc'[p] = "settle" /\ tx'[p] = NoTx
      /\ job'[p] = [op |-> "settle", order |-> order(p), good |-> None]
  BY DeliveryFailsIs DEF IInv
<1>2. order(p) \in Orders /\ paidAt[order(p)]
  BY DEF IInv, Good, Placed, PaidFirst, PastPayment, NoJob
<1>3. Good(p)'
  BY <1>1, <1>2, NoneAssumption DEF LocalStep, NoTx, Good, Placed, PaidFirst, PastPayment,
     PaymentCovered, RefundCovered, Holding, ItemHeld, Unopened, Statuses, order
<1> QED BY <1>1, <1>3, Moves DEF NoTx

\* The handler is at another statement, and nothing else has changed.
Moved(p, label) == LocalStep(p) /\ pc'[p] = label /\ job'[p] = job[p] /\ tx'[p] = tx[p]

\* A read keeps what the handler held and only moves it on.
LEMMA ProceedKeeps ==
  ASSUME IInv, NEW p \in Procs, NEW label \in Labels, Proceed(p, label),
         Good(p) /\ Moved(p, label) => Good(p)'
  PROVE  IInv'
<1>1. LocalStep(p) /\ pc'[p] = label /\ job'[p] = job[p] /\ tx'[p] = tx[p]
  BY ProceedIs DEF IInv
<1> QED BY <1>1, Moves DEF IInv, order, Moved

\* A check of a transition either moves the handler on or ends it.
LEMMA CheckKeeps ==
  ASSUME IInv, NEW p \in Procs, NEW to \in Statuses, NEW label \in Labels, Check(p, to, label),
         Good(p) /\ Moved(p, label) => Good(p)'
  PROVE  IInv'
<1>1. CASE Allowed(Seen(p), to)
  BY <1>1, ProceedKeeps DEF Check
<1>2. CASE ~Allowed(Seen(p), to)
  BY <1>2, LeaveKeeps DEF Check
<1> QED BY <1>1, <1>2

\* The transaction has written the status, and nothing else has changed.
Wrote(p, st, label) ==
  /\ LocalStep(p) /\ pc'[p] = label /\ job'[p] = job[p]
  /\ tx'[p].status = st /\ tx'[p].paid = tx[p].paid /\ tx'[p].good = tx[p].good
  /\ tx'[p].item = tx[p].item /\ tx'[p].bound = tx[p].bound /\ tx'[p].keys = tx[p].keys

\* An update in a transaction owes what it says of the status.
LEMMA WriteKeeps ==
  ASSUME IInv, NEW p \in Procs, NEW st \in Statuses, NEW label \in Labels, Write(p, st, label),
         Good(p) /\ Wrote(p, st, label) => Good(p)'
  PROVE  IInv'
<1>1. /\ LocalStep(p) /\ pc'[p] = label /\ job'[p] = job[p]
      /\ tx'[p] = [tx[p] EXCEPT !.status = st]
  BY WriteIs DEF IInv
<1>2. Wrote(p, st, label)
  BY <1>1 DEF Wrote, IInv, TypeOK, Transactions
<1> QED BY <1>1, <1>2, Moves DEF IInv, order, Wrote

\* The key is booked, now or before, and nothing else has changed.
Entered(p, key, label) ==
  /\ LocalStep(p) /\ pc'[p] = label /\ job'[p] = job[p]
  /\ tx'[p].status = tx[p].status /\ tx'[p].paid = tx[p].paid /\ tx'[p].good = tx[p].good
  /\ tx'[p].item = tx[p].item /\ tx'[p].bound = tx[p].bound
  /\ tx[p].keys \subseteq tx'[p].keys /\ tx'[p].keys \subseteq tx[p].keys \cup {key}
  /\ key \in ledger[order(p)] \cup tx'[p].keys

\* A ledger call owes what it says of the keys.
LEMMA BookKeeps ==
  ASSUME IInv, NEW p \in Procs, NEW key \in LedgerKeys, NEW label \in Labels, Book(p, key, label),
         Good(p) /\ Entered(p, key, label) => Good(p)'
  PROVE  IInv'
<1>1. PICK keys \in SUBSET LedgerKeys :
        /\ LocalStep(p) /\ pc'[p] = label /\ job'[p] = job[p]
        /\ tx'[p] = [tx[p] EXCEPT !.locked = TRUE, !.keys = keys]
        /\ tx[p].keys \subseteq keys /\ keys \subseteq tx[p].keys \cup {key}
        /\ key \in ledger[order(p)] \cup keys
  BY BookIs DEF IInv
<1>2. Entered(p, key, label)
  BY <1>1 DEF Entered, IInv, TypeOK, Transactions
<1> QED BY <1>1, <1>2, Moves DEF IInv, order, Entered

\* The handler has something in its hands, and nothing else has changed.
Held(p, good, label) ==
  /\ LocalStep(p) /\ pc'[p] = label /\ tx'[p] = tx[p]
  /\ job'[p] = [op |-> job[p].op, order |-> order(p), good |-> good]

\* Taking a payload in hand owes what it says of the payload.
LEMMA HoldKeeps ==
  ASSUME IInv, NEW p \in Procs, NEW good \in Goods, NEW label \in Labels, Hold(p, good, label),
         Good(p) /\ Held(p, good, label) => Good(p)'
  PROVE  IInv'
<1>1. Held(p, good, label)
  BY HoldIs DEF IInv, Held
<1> QED BY <1>1, Moves DEF IInv, Held

\* The committed status a handler that has written none acts on.
LEMMA SeenPaid ==
  ASSUME IInv, NEW p \in Procs, pc[p] \in {"markPaid", "markRefunded"},
         Seen(p) \in {"PAID", "DELIVERING", "DELIVERED", "FAILED", "REFUNDED"}
  PROVE  paidAt[order(p)]
<1>1. tx[p].status \notin {"PAID", "DELIVERING", "DELIVERED", "FAILED", "REFUNDED"}
  BY DEF IInv, Good, PaymentCovered, RefundCovered, PastPayment, Placed
<1>2. order(p) \in Orders
  BY DEF IInv, Good, Placed
<1> QED BY <1>1, <1>2 DEF Seen, IInv, MoneyInv, StatusPaid

\* canRefundOrder: only an order that was paid can be refunded.
LEMMA RefundableIsPaid ==
  ASSUME NEW from \in Statuses, Allowed(from, "REFUNDED")
  PROVE  from \in {"PAID", "DELIVERING", "DELIVERED", "FAILED", "REFUNDED"}
<1> QED BY DEF Allowed, AllowedTransitions, Statuses

\* What a handler reads is a status.
LEMMA SeenStatus ==
  ASSUME TypeOK, NEW p \in Procs, order(p) \in Orders
  PROVE  Seen(p) \in Statuses
<1> QED BY DEF TypeOK, Transactions, Seen

-----------------------------------------------------------------------------
(* Payment                                                                 *)

\* debit() takes a balance payment to markPaid() with its key booked.
LEMMA DebitPurchaseKeeps ==
  ASSUME IInv, NEW p \in Procs, DebitPurchase(p)
  PROVE  IInv'
<1>1. Book(p, "purchase", "markPaid") /\ pc[p] = "debit"
  BY DEF DebitPurchase, At
<1>2. "purchase" \in LedgerKeys /\ "markPaid" \in Labels
  BY DEF LedgerKeys, Labels
<1>3. Good(p) /\ Entered(p, "purchase", "markPaid") => Good(p)'
  BY <1>1 DEF Entered, LocalStep, Good, Placed, PaidFirst, PastPayment, PaymentCovered,
     RefundCovered, BackCovered, Booked, Refunds, Holding, ItemHeld, Unopened, order, rail, kind
<1> QED BY <1>1, <1>2, <1>3, BookKeeps

\* markPaid() takes an order for paid only if it is, whatever is stale.
LEMMA MarkPaidKeeps ==
  ASSUME IInv, NEW p \in Procs, MarkPaid(p)
  PROVE  IInv'
<1>1. pc[p] = "markPaid" /\ {"commit", "setPaid"} \subseteq Labels
  BY DEF MarkPaid, At, Labels
<1>2. CASE Seen(p) \in PaidAlready
  <2>1. paidAt[order(p)] /\ Proceed(p, "commit")
    BY <1>1, <1>2, SeenPaid DEF PaidAlready, MarkPaid
  <2> QED BY <1>1, <2>1, ProceedKeeps DEF Moved, LocalStep, Good, Placed, PaidFirst, PastPayment,
       PaymentCovered, RefundCovered, BackCovered, Booked, Holding, ItemHeld, Unopened, order,
       rail, kind
<1>3. CASE Seen(p) \notin PaidAlready
  <2>1. Check(p, "PAID", "setPaid")
    BY <1>3 DEF MarkPaid
  <2>2. "PAID" \in Statuses
    BY DEF Statuses
  <2>3. Good(p) /\ Moved(p, "setPaid") => Good(p)'
    BY <1>1 DEF Moved, LocalStep, Good, Placed, PaidFirst, PastPayment, PaymentCovered,
       RefundCovered, BackCovered, Booked, Holding, ItemHeld, Unopened, order, rail, kind
  <2> QED BY <1>1, <2>1, <2>2, <2>3, CheckKeeps
<1> QED BY <1>2, <1>3

\* The PAID update sets paidAt with it.
LEMMA SetPaidKeeps ==
  ASSUME IInv, NEW p \in Procs, SetPaid(p)
  PROVE  IInv'
<1> DEFINE t == [tx[p] EXCEPT !.status = "PAID", !.paid = TRUE]
<1>1. t \in Transactions /\ tx' = [tx EXCEPT ![p] = t]
  BY DEF SetPaid, IInv, TypeOK, Transactions, Statuses
<1>2. /\ t.status = "PAID" /\ t.paid /\ t.good = tx[p].good
      /\ t.item = tx[p].item /\ t.bound = tx[p].bound /\ t.keys = tx[p].keys
  BY DEF IInv, TypeOK, Transactions
<1> HIDE DEF t
<1>3. LocalStep(p) /\ pc[p] = "setPaid" /\ pc'[p] = "commit" /\ job'[p] = job[p] /\ tx'[p] = t
  BY <1>1 DEF SetPaid, At, Goto, LocalStep, TypeOK, Same, rows, IInv, Labels
<1>4. Good(p)'
  BY <1>2, <1>3 DEF IInv, LocalStep, Good, Placed, PaidFirst, PastPayment, PaymentCovered,
     RefundCovered, BackCovered, Booked, Refunds, Holding, ItemHeld, Unopened, order, rail, kind
<1> QED BY <1>2, <1>3, <1>4, Moves DEF order

\* payOrderFromBalance and markOrderPaidAndDeliver, statement by statement.
LEMMA PaymentKeeps ==
  ASSUME IInv, NEW p \in Procs, PaymentStep(p)
  PROVE  IInv'
<1> QED BY DebitPurchaseKeeps, MarkPaidKeeps, SetPaidKeeps, LeaveKeeps DEF PaymentStep,
     DebitRefused

-----------------------------------------------------------------------------
(* Delivery up to the markDelivered() update.                              *)

\* deliver()'s gate: no transaction is open, nothing is held.
LEMMA ReadOrderKeeps ==
  ASSUME IInv, NEW p \in Procs, ReadOrder(p)
  PROVE  IInv'
<1>1. CASE Proceed(p, "markDelivering")
  BY <1>1, ProceedKeeps DEF Moved, ReadOrder, At, Labels, LocalStep, Good, Placed, PaidFirst,
     PastPayment, PaymentCovered, RefundCovered, BackCovered, Booked, Holding, ItemHeld, Unopened,
     order, rail, kind
<1>2. CASE Leave(p)
  BY <1>2, LeaveKeeps
<1> QED BY <1>1, <1>2 DEF ReadOrder

\* markDelivering()'s read and check.
LEMMA MarkDeliveringKeeps ==
  ASSUME IInv, NEW p \in Procs, MarkDelivering(p)
  PROVE  IInv'
<1> DEFINE next == IF job[p].op = "fulfil" THEN "dispatch" ELSE "markDelivered"
<1>1. pc[p] = "markDelivering" /\ next \in Labels /\ "setDelivering" \in Labels /\ "DELIVERING" \in Statuses
  BY DEF MarkDelivering, At, Labels, Statuses
<1>2. CASE Proceed(p, next)
  BY <1>1, <1>2, ProceedKeeps DEF Moved, LocalStep, Good, Placed, PaidFirst, PastPayment,
     PaymentCovered, RefundCovered, BackCovered, Booked, Holding, ItemHeld, Unopened, order, rail,
     kind
<1>3. CASE Check(p, "DELIVERING", "setDelivering")
  <2>1. Good(p) /\ Moved(p, "setDelivering") => Good(p)'
    BY <1>1 DEF Moved, LocalStep, Good, Placed, PaidFirst, PastPayment, PaymentCovered,
       RefundCovered, BackCovered, Booked, Holding, ItemHeld, Unopened, order, rail, kind
  <2> QED BY <1>1, <1>3, <2>1, CheckKeeps
<1> QED BY <1>2, <1>3 DEF MarkDelivering

\* deliver()'s dispatch: minted codes are no stock items.
LEMMA DispatchKeeps ==
  ASSUME IInv, NEW p \in Procs, Dispatch(p)
  PROVE  IInv'
<1>1. pc[p] = "dispatch" /\ {"findItem", "markDelivered", "supplier"} \subseteq Labels /\ Good(p)
  BY DEF Dispatch, At, Labels, IInv
<1>2. CASE kind(p) = "pool" /\ Proceed(p, "findItem")
  BY <1>1, <1>2, ProceedKeeps DEF Moved, LocalStep, Good, Placed, PaidFirst, PastPayment,
     PaymentCovered, RefundCovered, BackCovered, Booked, Holding, ItemHeld, Unopened, order, rail,
     kind
<1>3. ASSUME NEW g \in Texts, Hold(p, g, "markDelivered") PROVE IInv'
  <2>1. g \in Goods /\ g \notin Items /\ ~tx[p].bound
    BY <1>1, GoodsAssumption DEF Goods, Good, ItemHeld
  <2>2. Good(p) /\ Held(p, g, "markDelivered") => Good(p)'
    BY <1>1, <2>1 DEF Held, LocalStep, Good, Placed, PaidFirst, PastPayment, PaymentCovered,
       RefundCovered, BackCovered, Booked, Holding, ItemHeld, Unopened, order, rail, kind
  <2> QED BY <1>1, <1>3, <2>1, <2>2, HoldKeeps
<1>4. CASE Proceed(p, "supplier")
  BY <1>1, <1>4, ProceedKeeps DEF Moved, LocalStep, Good, Placed, PaidFirst, PastPayment,
     PaymentCovered, RefundCovered, BackCovered, Booked, Holding, ItemHeld, Unopened, order, rail,
     kind
<1>5. CASE Leave(p)
  BY <1>5, LeaveKeeps
<1> QED BY <1>2, <1>3, <1>4, <1>5 DEF Dispatch

\* markDelivered()'s read and check, with the payload in hand.
LEMMA MarkDeliveredKeeps ==
  ASSUME IInv, NEW p \in Procs, MarkDelivered(p)
  PROVE  IInv'
<1>1. /\ pc[p] = "markDelivered" /\ "setDelivered" \in Labels /\ "DELIVERED" \in Statuses
      /\ Check(p, "DELIVERED", "setDelivered")
  BY DEF MarkDelivered, At, Labels, Statuses
<1>2. Good(p) /\ Moved(p, "setDelivered") => Good(p)'
  BY <1>1 DEF Moved, LocalStep, Good, Placed, PaidFirst, PastPayment, PaymentCovered,
     RefundCovered, BackCovered, Booked, Holding, ItemHeld, Unopened, order, rail, kind
<1> QED BY <1>1, <1>2, CheckKeeps

\* markDelivered()'s update in the caller's transaction.
LEMMA SetDeliveredInTransactionKeeps ==
  ASSUME IInv, NEW p \in Procs, SetDelivered(p), InTransaction(p)
  PROVE  IInv'
<1> DEFINE t == [tx[p] EXCEPT !.status = "DELIVERED", !.good = job[p].good]
<1>1. Good(p) /\ job[p].good \in Goods /\ pc[p] = "setDelivered"
  BY DEF SetDelivered, At, IInv, Good, Holding
<1>2. t \in Transactions /\ tx' = [tx EXCEPT ![p] = t]
  <2>1. t \in Transactions
    BY <1>1 DEF IInv, TypeOK, Transactions, Statuses
  <2>2. tx' = [tx EXCEPT ![p].status = "DELIVERED", ![p].good = job[p].good]
    BY DEF SetDelivered
  <2> QED BY <2>1, <2>2
<1>3. /\ t.status = "DELIVERED" /\ t.paid = tx[p].paid /\ t.good = job[p].good
      /\ t.item = tx[p].item /\ t.bound = tx[p].bound /\ t.keys = tx[p].keys
  BY DEF IInv, TypeOK, Transactions
<1> HIDE DEF t
<1>4. LocalStep(p) /\ pc'[p] = "commit" /\ job'[p] = job[p] /\ tx'[p] = t
  BY <1>2 DEF SetDelivered, Goto, LocalStep, TypeOK, Same, rows, IInv, Labels
<1>5. job[p].good # None
  BY <1>1, NoneAssumption DEF Goods
<1>6. Good(p)'
  BY <1>1, <1>3, <1>4, <1>5 DEF LocalStep, Good, Placed, PaidFirst, PastPayment, PaymentCovered,
     RefundCovered, BackCovered, Booked, Refunds, Holding, ItemHeld, Unopened, order, rail, kind
<1> QED BY <1>3, <1>4, <1>6, Moves DEF order

\* A failing statement of a delivery discards its transaction.
LEMMA StatementFailsKeeps ==
  ASSUME IInv, NEW p \in Procs, StatementFails(p)
  PROVE  IInv'
<1> QED BY DeliveryFailsKeeps DEF StatementFails

-----------------------------------------------------------------------------
(* The pool                                                                *)

\* Reusing an item: it is sold to the order already.
LEMMA FindItemKeeps ==
  ASSUME IInv, NEW p \in Procs, FindItem(p)
  PROVE  IInv'
<1>1. pc[p] = "findItem" /\ {"markDelivered", "claimItem"} \subseteq Labels /\ Good(p)
  BY DEF FindItem, At, Labels, IInv
<1>2. ASSUME NEW i \in Items, owner[i] = order(p), Hold(p, i, "markDelivered") PROVE IInv'
  <2>1. i \in Goods /\ ~tx[p].bound
    BY <1>1 DEF Goods, Good, ItemHeld
  <2>2. Good(p) /\ Held(p, i, "markDelivered") => Good(p)'
    BY <1>1, <1>2, <2>1 DEF Held, LocalStep, Good, Placed, PaidFirst, PastPayment, PaymentCovered,
       RefundCovered, BackCovered, Booked, Refunds, Holding, ItemHeld, Unopened, order, rail, kind
  <2> QED BY <1>1, <1>2, <2>1, <2>2, HoldKeeps
<1>3. CASE Proceed(p, "claimItem")
  <2>1. Good(p) /\ Moved(p, "claimItem") => Good(p)'
    BY <1>1 DEF Moved, LocalStep, Good, Placed, PaidFirst, PastPayment, PaymentCovered,
       RefundCovered, BackCovered, Booked, Refunds, Holding, ItemHeld, Unopened, order, rail, kind
  <2> QED BY <1>1, <1>3, <2>1, ProceedKeeps
<1> QED BY <1>2, <1>3 DEF FindItem

\* SKIP LOCKED: nobody else has the item that is claimed.
LEMMA ClaimItemKeeps ==
  ASSUME IInv, NEW p \in Procs, ClaimItem(p)
  PROVE  IInv'
<1>1. pc[p] = "claimItem" /\ Good(p) /\ job[p].op = "fulfil" /\ ~tx[p].bound
  BY DEF ClaimItem, At, IInv, Good, Placed, ItemHeld
<1>2. ASSUME NEW i \in Items, Claimable(i), tx' = [tx EXCEPT ![p].item = i], Goto(p, "bindItem"),
             UNCHANGED <<terms, rows, job, tries>>
      PROVE  IInv'
  <2> DEFINE t == [tx[p] EXCEPT !.item = i]
  <2>1. t \in Transactions /\ tx' = [tx EXCEPT ![p] = t]
    BY <1>2 DEF IInv, TypeOK, Transactions
  <2>2. /\ t.status = tx[p].status /\ t.paid = tx[p].paid /\ t.good = tx[p].good
        /\ t.item = i /\ t.bound = tx[p].bound /\ t.keys = tx[p].keys
    BY DEF IInv, TypeOK, Transactions
  <2> HIDE DEF t
  <2>3. LocalStep(p) /\ pc'[p] = "bindItem" /\ job'[p] = job[p] /\ tx'[p] = t
    BY <1>2, <2>1 DEF Goto, LocalStep, TypeOK, Same, rows, IInv, Labels
  <2>4. i # None /\ owner[i] = None
    BY <1>2, NoneAssumption DEF Claimable
  <2>5. Good(p)'
    BY <1>1, <2>2, <2>3, <2>4 DEF LocalStep, Good, Placed, PaidFirst, PastPayment, PaymentCovered,
       RefundCovered, BackCovered, Booked, Refunds, Holding, ItemHeld, Unopened, order, rail, kind
  <2>6. Apart'
    <3>1. \A q \in Procs \ {p} : tx'[q] = tx[q] /\ tx[q].item # i /\ order(q)' = order(q)
      BY <1>2, <2>3 DEF LocalStep, Same, Claimable, order
    <3> QED BY <1>1, <2>2, <2>3, <3>1 DEF Apart, IInv, order
  <2> QED BY <2>3, <2>5, <2>6, LocalKeeps
<1>3. CASE DeliveryFails(p)
  BY <1>1, <1>3, DeliveryFailsKeeps
<1> QED BY <1>2, <1>3 DEF ClaimItem

\* The unique index: nobody else binds an item to the order.
LEMMA BindItemKeeps ==
  ASSUME IInv, NEW p \in Procs, BindItem(p)
  PROVE  IInv'
<1>1. /\ pc[p] = "bindItem" /\ Good(p) /\ job[p].op = "fulfil" /\ kind(p) = "pool" /\ ~tx[p].bound
      /\ tx[p].item \in Items
  BY DEF BindItem, At, IInv, Good, Placed, ItemHeld, TypeOK, Transactions
<1>2. CASE \E i \in Items : owner[i] = order(p)
  BY <1>1, <1>2, DeliveryFailsKeeps DEF BindItem
<1>3. CASE ~\E i \in Items : owner[i] = order(p)
  <2> DEFINE t == [tx[p] EXCEPT !.bound = TRUE]
             j == [job[p] EXCEPT !.good = tx[p].item]
  <2>1. /\ t \in Transactions /\ tx' = [tx EXCEPT ![p] = t]
        /\ j \in Jobs /\ job' = [job EXCEPT ![p] = j]
    <3>1. tx' = [tx EXCEPT ![p].bound = TRUE] /\ job' = [job EXCEPT ![p].good = tx[p].item]
      BY <1>3 DEF BindItem
    <3>2. t \in Transactions
      BY DEF IInv, TypeOK, Transactions
    <3>3. j \in Jobs
      BY <1>1 DEF IInv, TypeOK, Jobs, Goods
    <3> QED BY <3>1, <3>2, <3>3
  <2>2. /\ t.status = tx[p].status /\ t.paid = tx[p].paid /\ t.good = tx[p].good
        /\ t.item = tx[p].item /\ t.bound /\ t.keys = tx[p].keys
        /\ j.op = job[p].op /\ j.order = job[p].order /\ j.good = tx[p].item
    BY DEF IInv, TypeOK, Transactions, Jobs
  <2> HIDE DEF t, j
  <2>3. LocalStep(p) /\ pc'[p] = "markDelivered" /\ job'[p] = j /\ tx'[p] = t
    BY <1>3, <2>1 DEF BindItem, Goto, LocalStep, TypeOK, Same, rows, IInv, Labels
  <2>4. tx[p].item # None /\ tx[p].item \in Goods
    BY <1>1, NoneAssumption DEF Goods
  <2>5. Good(p)'
    BY <1>1, <1>3, <2>2, <2>3, <2>4 DEF LocalStep, Good, Placed, PaidFirst, PastPayment,
       PaymentCovered, RefundCovered, BackCovered, Booked, Refunds, Holding, ItemHeld, Unopened,
       order, rail, kind
  <2>6. Apart'
    <3>1. \A q \in Procs \ {p} : tx'[q] = tx[q] /\ order(q)' = order(q)
      BY <2>3 DEF LocalStep, Same, order
    <3>2. order(p)' = order(p) /\ \A q \in Procs \ {p} : tx[q].bound => order(q) # order(p)
      BY <2>2, <2>3 DEF BindItem, order
    <3> QED BY <2>2, <2>3, <3>1, <3>2 DEF Apart, IInv
  <2> QED BY <2>3, <2>5, <2>6, LocalKeeps
<1> QED BY <1>2, <1>3

\* deliverFromPool, statement by statement.
LEMMA PoolKeeps ==
  ASSUME IInv, NEW p \in Procs, PoolStep(p)
  PROVE  IInv'
<1> QED BY FindItemKeeps, ClaimItemKeeps, BindItemKeeps DEF PoolStep

-----------------------------------------------------------------------------
(* The supplier                                                            *)

\* The supplier's payload is no stock item.
LEMMA SupplierAnswersKeeps ==
  ASSUME IInv, NEW p \in Procs, SupplierAnswers(p)
  PROVE  IInv'
<1>1. pc[p] = "supplier" /\ "markDelivered" \in Labels /\ Good(p)
  BY DEF SupplierAnswers, At, Labels, IInv
<1>2. ASSUME NEW g \in Texts, Hold(p, g, "markDelivered") PROVE IInv'
  <2>1. g \in Goods /\ g \notin Items /\ ~tx[p].bound
    BY <1>1, GoodsAssumption DEF Goods, Good, ItemHeld
  <2>2. Good(p) /\ Held(p, g, "markDelivered") => Good(p)'
    BY <1>1, <2>1 DEF Held, LocalStep, Good, Placed, PaidFirst, PastPayment, PaymentCovered,
       RefundCovered, BackCovered, Booked, Refunds, Holding, ItemHeld, Unopened, order, rail, kind
  <2> QED BY <1>1, <1>2, <2>1, <2>2, HoldKeeps
<1> QED BY <1>2 DEF SupplierAnswers

\* No answer counts whatever the handler held: it holds nothing then.
LEMMA SupplierFailsKeeps ==
  ASSUME IInv, TriesLeft, NEW p \in Procs, SupplierFails(p)
  PROVE  IInv'
<1> DEFINE label == IF tries[p] + 1 = Attempts THEN "markFailed" ELSE "supplier"
           j == [job[p] EXCEPT !.good = None]
<1>1. Supplied(p) /\ Good(p) /\ job[p].op = "fulfil" /\ kind(p) = "external"
  BY DEF SupplierFails, Supplied, IInv
<1>2. /\ job' = [job EXCEPT ![p] = j] /\ j \in Jobs
      /\ j.op = job[p].op /\ j.order = job[p].order /\ j.good = None
  BY DEF SupplierFails, IInv, TypeOK, Jobs
<1>3. label \in {"markFailed", "supplier"}
  OBVIOUS
<1>4. tries' \in [Procs -> 0 .. Attempts]
  <2>1. tries[p] \in 0 .. Attempts /\ tries[p] + 1 \in 0 .. Attempts
    BY <1>1, AttemptsAssumption DEF IInv, TypeOK, TriesLeft, Supplied
  <2> QED BY <2>1 DEF SupplierFails, IInv, TypeOK
<1> HIDE DEF label, j
<1>5. pc' = [pc EXCEPT ![p] = label] /\ UNCHANGED <<terms, rows, tx>>
  BY DEF SupplierFails, Goto, label
<1>6. LocalStep(p) /\ pc'[p] = label /\ job'[p] = j /\ tx'[p] = tx[p]
  BY <1>2, <1>3, <1>4, <1>5 DEF LocalStep, TypeOK, Same, rows, IInv, Labels
<1>7. ~tx[p].bound /\ tx[p].good = None /\ order(p) \in Orders /\ None \notin Items
  BY <1>1, NoneAssumption DEF Supplied, Good, Placed, Holding, ItemHeld, Unopened
<1>8. Good(p)'
  BY <1>1, <1>2, <1>3, <1>6, <1>7 DEF Supplied, LocalStep, Good, Placed, PaidFirst, PastPayment,
     PaymentCovered, RefundCovered, BackCovered, Booked, Refunds, Holding, ItemHeld, Unopened,
     order, rail, kind
<1> QED BY <1>6, <1>7, <1>8, Moves

\* deliverFromExternalApi, statement by statement.
LEMMA SupplierKeeps ==
  ASSUME IInv, TriesLeft, NEW p \in Procs, SupplierStep(p)
  PROVE  IInv'
<1>1. CASE SupplierMissing(p)
  <2>1. pc[p] = "supplier" /\ "markFailed" \in Labels /\ Proceed(p, "markFailed")
    BY <1>1 DEF SupplierMissing, At, Labels
  <2>2. Good(p) /\ Moved(p, "markFailed") => Good(p)'
    BY <2>1 DEF Moved, LocalStep, Good, Placed, PaidFirst, PastPayment, PaymentCovered,
       RefundCovered, BackCovered, Booked, Refunds, Holding, ItemHeld, Unopened, order, rail, kind
  <2> QED BY <2>1, <2>2, ProceedKeeps
<1>2. CASE BreakerOpen(p)
  <2>1. job[p].op = "fulfil" /\ DeliveryFails(p)
    BY <1>2 DEF BreakerOpen, At, IInv, Good, Placed
  <2> QED BY <2>1, DeliveryFailsKeeps
<1> QED BY <1>1, <1>2, SupplierAnswersKeeps, SupplierFailsKeeps DEF SupplierStep

-----------------------------------------------------------------------------
(* Settlement, expiry and refunds.                                         *)

\* settleFailedDelivery()'s gate.
LEMMA SettleKeeps ==
  ASSUME IInv, NEW p \in Procs, Settle(p)
  PROVE  IInv'
<1>1. pc[p] = "settle" /\ "markFailed" \in Labels
  BY DEF Settle, At, Labels
<1>2. CASE Proceed(p, "markFailed")
  <2>1. Good(p) /\ Moved(p, "markFailed") => Good(p)'
    BY <1>1 DEF Moved, LocalStep, Good, Placed, PaidFirst, PastPayment, PaymentCovered,
       RefundCovered, BackCovered, Booked, Refunds, Holding, ItemHeld, Unopened, order, rail, kind
  <2> QED BY <1>1, <1>2, <2>1, ProceedKeeps
<1> QED BY <1>2, LeaveKeeps DEF Settle

\* markFailed()'s read and check.
LEMMA MarkFailedKeeps ==
  ASSUME IInv, NEW p \in Procs, MarkFailed(p)
  PROVE  IInv'
<1>1. /\ pc[p] = "markFailed" /\ "setFailed" \in Labels /\ "FAILED" \in Statuses
      /\ Check(p, "FAILED", "setFailed")
  BY DEF MarkFailed, At, Labels, Statuses
<1>2. Good(p) /\ Moved(p, "setFailed") => Good(p)'
  BY <1>1 DEF Moved, LocalStep, Good, Placed, PaidFirst, PastPayment, PaymentCovered,
     RefundCovered, BackCovered, Booked, Refunds, Holding, ItemHeld, Unopened, order, rail, kind
<1> QED BY <1>1, <1>2, CheckKeeps

\* FAILED is written with the refund still to come, unless nothing was charged.
LEMMA SetFailedKeeps ==
  ASSUME IInv, NEW p \in Procs, SetFailed(p)
  PROVE  IInv'
<1> DEFINE label == IF rail(p) = "free" THEN "commit" ELSE "creditBack"
<1>1. /\ pc[p] = "setFailed" /\ label \in Labels /\ "FAILED" \in Statuses
      /\ Write(p, "FAILED", label)
  BY DEF SetFailed, At, Labels, Statuses
<1>2. /\ label \in {"commit", "creditBack"} /\ (label = "commit" => rail(p) = "free")
      /\ order(p) \in Orders /\ Good(p)
  BY <1>1 DEF IInv, Good, Placed
<1> HIDE DEF label
<1>3. Wrote(p, "FAILED", label) => Good(p)'
  BY <1>1, <1>2 DEF Wrote, LocalStep, Good, Placed, PaidFirst, PastPayment, PaymentCovered,
     RefundCovered, BackCovered, Booked, Refunds, Holding, ItemHeld, Unopened, order, rail, kind
<1> QED BY <1>1, <1>3, WriteKeeps

\* The refund of a failed delivery, in the transaction that fails it.
LEMMA CreditBackKeeps ==
  ASSUME IInv, NEW p \in Procs, CreditBack(p)
  PROVE  IInv'
<1>1. /\ pc[p] = "creditBack" /\ "autoRefund" \in LedgerKeys /\ "commit" \in Labels
      /\ Book(p, "autoRefund", "commit")
  BY DEF CreditBack, At, LedgerKeys, Labels
<1>2. Good(p) /\ Entered(p, "autoRefund", "commit") => Good(p)'
  BY <1>1 DEF Entered, LocalStep, Good, Placed, PaidFirst, PastPayment, PaymentCovered,
     RefundCovered, BackCovered, Booked, Refunds, Holding, ItemHeld, Unopened, order, rail, kind
<1> QED BY <1>1, <1>2, BookKeeps

\* settleFailedDelivery() and failAndRefund(), statement by statement.
LEMMA SettlementKeeps ==
  ASSUME IInv, NEW p \in Procs, SettleStep(p)
  PROVE  IInv'
<1> QED BY SettleKeeps, MarkFailedKeeps, SetFailedKeeps, CreditBackKeeps DEF SettleStep

\* EXPIRED claims nothing about money or goods.
LEMMA ExpiryKeeps ==
  ASSUME IInv, NEW p \in Procs, ExpiryStep(p)
  PROVE  IInv'
<1>1. "EXPIRED" \in Statuses /\ {"setExpired", "commit"} \subseteq Labels
  BY DEF Statuses, Labels
<1>2. CASE MarkExpired(p)
  <2>1. pc[p] = "markExpired" /\ Check(p, "EXPIRED", "setExpired")
    BY <1>2 DEF MarkExpired, At
  <2>2. Good(p) /\ Moved(p, "setExpired") => Good(p)'
    BY <2>1 DEF Moved, LocalStep, Good, Placed, PaidFirst, PastPayment, PaymentCovered,
       RefundCovered, BackCovered, Booked, Refunds, Holding, ItemHeld, Unopened, order, rail, kind
  <2> QED BY <1>1, <2>1, <2>2, CheckKeeps
<1>3. CASE SetExpired(p)
  <2>1. pc[p] = "setExpired" /\ Write(p, "EXPIRED", "commit")
    BY <1>3 DEF SetExpired, At
  <2>2. Good(p) /\ Wrote(p, "EXPIRED", "commit") => Good(p)'
    BY <2>1 DEF Wrote, LocalStep, Good, Placed, PaidFirst, PastPayment, PaymentCovered,
       RefundCovered, BackCovered, Booked, Refunds, Holding, ItemHeld, Unopened, order, rail, kind
  <2> QED BY <1>1, <2>1, <2>2, WriteKeeps
<1> QED BY <1>2, <1>3 DEF ExpiryStep

\* The check of the transition is what tells a refund that the order was paid.
LEMMA MarkRefundedKeeps ==
  ASSUME IInv, NEW p \in Procs, MarkRefunded(p)
  PROVE  IInv'
<1>1. pc[p] = "markRefunded" /\ "sumRefunds" \in Labels /\ order(p) \in Orders
  BY DEF MarkRefunded, At, Labels, IInv, Good, Placed
<1>2. CASE Allowed(Seen(p), "REFUNDED")
  <2>1. Proceed(p, "sumRefunds")
    BY <1>2 DEF MarkRefunded, Check
  <2>2. paidAt[order(p)]
    BY <1>1, <1>2, SeenStatus, RefundableIsPaid, SeenPaid DEF IInv
  <2>3. Good(p) /\ Moved(p, "sumRefunds") => Good(p)'
    BY <1>1, <2>2 DEF Moved, LocalStep, Good, Placed, PaidFirst, PastPayment, PaymentCovered,
       RefundCovered, BackCovered, Booked, Refunds, Holding, ItemHeld, Unopened, order, rail, kind
  <2> QED BY <1>1, <2>1, <2>3, ProceedKeeps
<1>3. CASE ~Allowed(Seen(p), "REFUNDED")
  BY <1>3, LeaveKeeps DEF MarkRefunded, Check
<1> QED BY <1>2, <1>3

\* A refund is skipped only when nothing is owed or it has been booked.
LEMMA SumRefundsKeeps ==
  ASSUME IInv, NEW p \in Procs, SumRefunds(p)
  PROVE  IInv'
<1>1. pc[p] = "sumRefunds" /\ {"setRefunded", "creditRefund"} \subseteq Labels
  BY DEF SumRefunds, At, Labels
<1>2. CASE rail(p) = "free" \/ ledger[order(p)] \cap Refunds # {}
  <2>1. BackCovered(p) /\ Proceed(p, "setRefunded")
    BY <1>2 DEF BackCovered, Booked, SumRefunds
  <2>2. Good(p) /\ Moved(p, "setRefunded") => Good(p)'
    BY <1>1, <2>1 DEF Moved, LocalStep, Good, Placed, PaidFirst, PastPayment, PaymentCovered,
       RefundCovered, BackCovered, Booked, Refunds, Holding, ItemHeld, Unopened, order, rail, kind
  <2> QED BY <1>1, <2>1, <2>2, ProceedKeeps
<1>3. CASE ~(rail(p) = "free" \/ ledger[order(p)] \cap Refunds # {})
  <2>1. Proceed(p, "creditRefund")
    BY <1>3 DEF SumRefunds
  <2>2. Good(p) /\ Moved(p, "creditRefund") => Good(p)'
    BY <1>1 DEF Moved, LocalStep, Good, Placed, PaidFirst, PastPayment, PaymentCovered,
       RefundCovered, BackCovered, Booked, Refunds, Holding, ItemHeld, Unopened, order, rail, kind
  <2> QED BY <1>1, <2>1, <2>2, ProceedKeeps
<1> QED BY <1>2, <1>3

\* refundOrder(), statement by statement.
LEMMA RefundKeeps ==
  ASSUME IInv, NEW p \in Procs, RefundStep(p)
  PROVE  IInv'
<1>1. "REFUNDED" \in Statuses /\ {"setRefunded", "commit"} \subseteq Labels /\ "refund" \in LedgerKeys
  BY DEF Statuses, Labels, LedgerKeys
<1>2. CASE CreditRefund(p)
  <2>1. pc[p] = "creditRefund" /\ Book(p, "refund", "setRefunded")
    BY <1>2 DEF CreditRefund, At
  <2>2. Good(p) /\ Entered(p, "refund", "setRefunded") => Good(p)'
    BY <2>1 DEF Entered, LocalStep, Good, Placed, PaidFirst, PastPayment, PaymentCovered,
       RefundCovered, BackCovered, Booked, Refunds, Holding, ItemHeld, Unopened, order, rail, kind
  <2> QED BY <1>1, <2>1, <2>2, BookKeeps
<1>3. CASE SetRefunded(p)
  <2>1. pc[p] = "setRefunded" /\ Write(p, "REFUNDED", "commit")
    BY <1>3 DEF SetRefunded, At
  <2>2. Good(p) /\ Wrote(p, "REFUNDED", "commit") => Good(p)'
    BY <2>1 DEF Wrote, LocalStep, Good, Placed, PaidFirst, PastPayment, PaymentCovered,
       RefundCovered, BackCovered, Booked, Refunds, Holding, ItemHeld, Unopened, order, rail, kind
  <2> QED BY <1>1, <2>1, <2>2, WriteKeeps
<1> QED BY <1>2, <1>3, MarkRefundedKeeps, SumRefundsKeeps DEF RefundStep

-----------------------------------------------------------------------------
(* Operators, and the start of a handler.                                  *)

\* An operator's payload is no stock item.
LEMMA ReadManualKeeps ==
  ASSUME IInv, NEW p \in Procs, ReadManual(p)
  PROVE  IInv'
<1>1. pc[p] = "readManual" /\ "markDelivering" \in Labels /\ Good(p)
  BY DEF ReadManual, At, Labels, IInv
<1>2. ASSUME NEW g \in Texts, Hold(p, g, "markDelivering") PROVE IInv'
  <2>1. g \in Goods /\ g \notin Items /\ ~tx[p].bound
    BY <1>1, GoodsAssumption DEF Goods, Good, ItemHeld
  <2>2. Good(p) /\ Held(p, g, "markDelivering") => Good(p)'
    BY <1>1, <2>1 DEF Held, LocalStep, Good, Placed, PaidFirst, PastPayment, PaymentCovered,
       RefundCovered, BackCovered, Booked, Refunds, Holding, ItemHeld, Unopened, order, rail, kind
  <2> QED BY <1>1, <1>2, <2>1, <2>2, HoldKeeps
<1> QED BY <1>2, LeaveKeeps DEF ReadManual

\* What a handler has been given when it starts, and what its caller has checked.
Briefed(o, op, good, label) ==
  \/ op = "pay" /\ label = "debit" /\ good = None /\ terms[o].rail = "balance"
  \/ op = "pay" /\ label = "markPaid" /\ good = None /\ terms[o].rail # "balance"
  \/ op = "fulfil" /\ label = "read" /\ good = None /\ paidAt[o]
  \/ op = "expire" /\ label = "markExpired" /\ good = None
  \/ op = "refund" /\ label = "markRefunded" /\ good = None
  \/ op = "manual" /\ label = "readManual" /\ good = None /\ paidAt[o]
  \/ /\ op = "redeliver" /\ label = "markDelivering" /\ good \in Goods /\ paidAt[o]
     /\ good \in Items => owner[good] = o

\* A handler starts from idle, so without a transaction.
LEMMA StartKeeps ==
  ASSUME IInv, NEW p \in Procs, NEW o \in Orders, NEW op \in Ops, NEW good \in Goods \cup {None},
         NEW label \in Labels, Start(p, o, op, good, label), Briefed(o, op, good, label)
  PROVE  IInv'
<1>1. /\ LocalStep(p) /\ pc[p] = "idle" /\ pc'[p] = label /\ tx'[p] = tx[p]
      /\ job'[p] = [op |-> op, order |-> o, good |-> good]
  BY StartIs DEF IInv
<1>2. tx[p] = NoTx
  BY <1>1 DEF IInv, Good, Placed
<1>3. Good(p)'
  BY <1>1, <1>2, NoneAssumption DEF Briefed, LocalStep, NoTx, Good, Placed, PaidFirst,
     PastPayment, PaymentCovered, RefundCovered, Holding, ItemHeld, Unopened, Statuses, order,
     rail, kind
<1> QED BY <1>1, <1>2, <1>3, Moves DEF NoTx

\* Every caller has checked what its handler relies on.
LEMMA BeginKeeps ==
  ASSUME IInv, NEW p \in Procs, NEW o \in Orders, Begin(p, o)
  PROVE  IInv'
<1>1. /\ {"pay", "fulfil", "expire", "refund", "manual", "redeliver"} \subseteq Ops
      /\ {"debit", "markPaid", "read", "markExpired", "markRefunded", "readManual",
          "markDelivering"} \subseteq Labels
  BY DEF Ops, Labels
<1>2. status[o] \in {"PAID", "DELIVERING", "DELIVERED"} => paidAt[o]
  BY DEF IInv, MoneyInv, StatusPaid
<1>3. CASE Pay(p, o)
  <2> DEFINE label == IF terms[o].rail = "balance" THEN "debit" ELSE "markPaid"
  <2>1. label \in Labels /\ Start(p, o, "pay", None, label) /\ Briefed(o, "pay", None, label)
    BY <1>1, <1>3 DEF Pay, Briefed
  <2> QED BY <1>1, <2>1, StartKeeps
<1>4. CASE Fulfil(p, o)
  <2>1. Start(p, o, "fulfil", None, "read") /\ Briefed(o, "fulfil", None, "read")
    BY <1>4 DEF Fulfil, Briefed
  <2> QED BY <1>1, <2>1, StartKeeps
<1>5. CASE Expire(p, o)
  <2>1. Start(p, o, "expire", None, "markExpired") /\ Briefed(o, "expire", None, "markExpired")
    BY <1>5 DEF Expire, Briefed
  <2> QED BY <1>1, <2>1, StartKeeps
<1>6. CASE Refund(p, o)
  <2>1. Start(p, o, "refund", None, "markRefunded") /\ Briefed(o, "refund", None, "markRefunded")
    BY <1>6 DEF Refund, Briefed
  <2> QED BY <1>1, <2>1, StartKeeps
<1>7. CASE Manual(p, o)
  <2>1. Start(p, o, "manual", None, "readManual") /\ Briefed(o, "manual", None, "readManual")
    BY <1>2, <1>7 DEF Briefed, Manual, CanManualDeliver, InFlight
  <2> QED BY <1>1, <2>1, StartKeeps
<1>8. CASE Redeliver(p, o)
  <2>1. PICK g \in Goods :
          /\ IF payload[o] # None THEN g = payload[o] ELSE g \in Items /\ owner[g] = o
          /\ Start(p, o, "redeliver", g, "markDelivering")
    BY <1>8 DEF Redeliver
  <2>2. Briefed(o, "redeliver", g, "markDelivering")
    BY <1>2, <1>8, <2>1 DEF Briefed, Redeliver, CanRedeliver, InFlight, IInv, GoodsInv,
       PayloadOwned
  <2> QED BY <1>1, <2>1, <2>2, StartKeeps
<1> QED BY <1>3, <1>4, <1>5, <1>6, <1>7, <1>8 DEF Begin

\* A process may die between any two statements.
LEMMA CrashKeeps ==
  ASSUME IInv, NEW p \in Procs, Crash(p)
  PROVE  IInv'
<1> QED BY LeaveKeeps DEF Crash

-----------------------------------------------------------------------------
(* The steps that change what everybody reads.                             *)

\* Rows that sell nothing, unpay nothing and unbook nothing leave the others be.
LEMMA OthersKeep ==
  ASSUME IInv, NEW p \in Procs, TypeOK', UNCHANGED <<terms, paidAt, owner, ledger>>,
         \A q \in Procs \ {p} : Same(q)
  PROVE  \A q \in Procs \ {p} : Good(q)'
<1> SUFFICES ASSUME NEW q \in Procs \ {p} PROVE Good(q)'
  OBVIOUS
<1>1. Good(q) /\ TypeOK /\ Same(q)
  BY DEF IInv
<1> QED BY <1>1, Frame DEF Good, ItemHeld

\* markDelivering(), outside a transaction in deliver().
LEMMA SetDeliveringKeeps ==
  ASSUME IInv, NEW p \in Procs, SetDelivering(p)
  PROVE  IInv'
<1>1. /\ pc[p] = "setDelivering" /\ Good(p) /\ order(p) \in Orders /\ paidAt[order(p)]
      /\ {"dispatch", "markDelivered"} \subseteq Labels /\ "DELIVERING" \in Statuses
  BY DEF SetDelivering, At, IInv, Good, Placed, PaidFirst, PastPayment, Labels, Statuses
<1>2. CASE job[p].op = "fulfil"
  <2>1. /\ status' = [status EXCEPT ![order(p)] = "DELIVERING"]
        /\ pc' = [pc EXCEPT ![p] = "dispatch"]
        /\ UNCHANGED <<terms, paidAt, payload, owner, ledger, job, tries, tx>>
    BY <1>2 DEF SetDelivering, Goto
  <2>2. TypeOK' /\ \A q \in Procs \ {p} : Same(q)
    BY <1>1, <2>1 DEF IInv, TypeOK, Same
  <2>3. Good(p)'
    BY <1>1, <1>2, <2>1 DEF IInv, TypeOK, LocalStep, Good, Placed, PaidFirst, PastPayment,
       PaymentCovered, RefundCovered, BackCovered, Booked, Refunds, Holding, ItemHeld, Unopened,
       order, rail, kind
  <2>4. Apart'
    BY <2>1 DEF IInv, Apart, order
  <2>5. MoneyInv'
    BY <1>1, <2>1 DEF IInv, TypeOK, MoneyInv, StatusPaid, OnlyBalanceDebited, ChargedIffPaid,
       NothingForUnpaid, FailedMeansRefunded, Charged, Refunded
  <2>6. GoodsInv'
    BY <1>1, <2>1 DEF IInv, TypeOK, GoodsInv, DeliveredHasPayload, BurnedItemIsStored,
       PayloadOwned, OneBuyerPerCredential
  <2> QED BY <2>1, <2>2, <2>3, <2>4, <2>5, <2>6, OthersKeep DEF IInv
<1>3. CASE job[p].op # "fulfil"
  <2>1. Write(p, "DELIVERING", "markDelivered")
    BY <1>3 DEF SetDelivering
  <2>2. Good(p) /\ Wrote(p, "DELIVERING", "markDelivered") => Good(p)'
    BY <1>1, <1>3 DEF Wrote, LocalStep, Good, Placed, PaidFirst, PastPayment, PaymentCovered,
       RefundCovered, BackCovered, Booked, Refunds, Holding, ItemHeld, Unopened, order, rail, kind
  <2> QED BY <1>1, <2>1, <2>2, WriteKeeps
<1> QED BY <1>2, <1>3

\* markDelivered() on its own, for minted and supplied goods: the status and the
\* payload are one update.
LEMMA SetDeliveredAloneKeeps ==
  ASSUME IInv, NEW p \in Procs, SetDelivered(p), ~InTransaction(p)
  PROVE  IInv'
<1>1. /\ pc[p] = "setDelivered" /\ Good(p) /\ order(p) \in Orders /\ paidAt[order(p)]
      /\ job[p].good \in Goods /\ job[p].op = "fulfil" /\ kind(p) # "pool"
  BY DEF SetDelivered, At, InTransaction, IInv, Good, Placed, PaidFirst, PastPayment, Holding
<1>2. /\ status' = [status EXCEPT ![order(p)] = "DELIVERED"]
      /\ payload' = [payload EXCEPT ![order(p)] = job[p].good]
      /\ pc' = [pc EXCEPT ![p] = "idle"] /\ job' = [job EXCEPT ![p] = NoJob]
      /\ tries' = [tries EXCEPT ![p] = 0]
      /\ UNCHANGED <<terms, paidAt, owner, ledger, tx>>
  BY DEF SetDelivered, Goto
<1>3. job[p].good \in Items => owner[job[p].good] = order(p)
  BY <1>1 DEF Good, ItemHeld
<1>4. job[p].good # None /\ None \notin Items /\ None \notin Statuses
  BY <1>1, NoneAssumption DEF Goods
<1>5. TypeOK' /\ \A q \in Procs \ {p} : Same(q)
  <2>1. NoJob \in Jobs /\ "idle" \in Labels /\ "DELIVERED" \in Statuses /\ 0 \in 0 .. Attempts
    BY AttemptsAssumption DEF NoJob, Jobs, Ops, Labels, Statuses
  <2> QED BY <1>1, <1>2, <2>1 DEF IInv, TypeOK, Same
<1>6. Good(p)'
  <2>1. tx[p] = NoTx
    BY <1>1 DEF Good, Unopened
  <2> QED BY <1>2, <1>4, <2>1 DEF IInv, TypeOK, NoJob, NoTx, Statuses, LocalStep, Good, Placed,
       PaidFirst, PastPayment, PaymentCovered, RefundCovered, BackCovered, Booked, Refunds,
       Holding, ItemHeld, Unopened, order, rail, kind
<1>7. Apart'
  <2>1. ~tx[p].bound
    BY <1>1 DEF Good, ItemHeld
  <2> QED BY <1>2, <2>1 DEF IInv, TypeOK, Apart, order
<1>8. MoneyInv'
  BY <1>1, <1>2 DEF IInv, TypeOK, MoneyInv, StatusPaid, OnlyBalanceDebited, ChargedIffPaid,
     NothingForUnpaid, FailedMeansRefunded, Charged, Refunded
<1>9. GoodsInv'
  <2>1. DeliveredHasPayload' /\ BurnedItemIsStored'
    BY <1>1, <1>2, <1>4 DEF IInv, TypeOK, GoodsInv, DeliveredHasPayload, BurnedItemIsStored
  <2>2. PayloadOwned'
    BY <1>1, <1>2, <1>3 DEF IInv, TypeOK, GoodsInv, PayloadOwned
  <2>3. OneBuyerPerCredential'
    BY <1>2, <2>2 DEF IInv, GoodsInv, OneBuyerPerCredential, PayloadOwned
  <2> QED BY <2>1, <2>2, <2>3 DEF GoodsInv
<1> QED BY <1>2, <1>5, <1>6, <1>7, <1>8, <1>9, OthersKeep DEF IInv

\* What the rows of the transaction's order say once it has committed.
Committed(p) ==
  LET o == order(p)
      t == tx[p]
  IN  /\ status' = IF t.status # None THEN [status EXCEPT ![o] = t.status] ELSE status
      /\ paidAt' = [paidAt EXCEPT ![o] = @ \/ t.paid]
      /\ payload' = IF t.good # None THEN [payload EXCEPT ![o] = t.good] ELSE payload
      /\ owner' = IF t.bound THEN [owner EXCEPT ![t.item] = o] ELSE owner
      /\ ledger' = [ledger EXCEPT ![o] = @ \cup t.keys]
      /\ UNCHANGED terms

\* A transaction at its commit, without the operators that say so.
LEMMA AtCommit ==
  ASSUME IInv, NEW p \in Procs, Commit(p)
  PROVE  /\ pc[p] = "commit" /\ Good(p) /\ order(p) \in Orders /\ Committed(p)
         /\ tx[p] \in Transactions /\ (tx[p].bound => tx[p].item \in Items)
<1>1. pc[p] = "commit" /\ Good(p) /\ order(p) \in Orders /\ tx[p] \in Transactions
  BY DEF Commit, At, IInv, Good, Placed, TypeOK
<1>2. Committed(p)
  BY DEF Commit, Committed
<1>3. tx[p].bound => tx[p].item \in Items
  BY <1>1 DEF Good, ItemHeld, Transactions
<1> QED BY <1>1, <1>2, <1>3

\* A commit ends the transaction and touches nobody else's.
LEMMA CommitTypes ==
  ASSUME IInv, NEW p \in Procs, Commit(p)
  PROVE  /\ TypeOK' /\ tx'[p] = NoTx /\ (\A q \in Procs \ {p} : Same(q))
         /\ job'[p] = AfterCommit(p).job /\ pc'[p] = AfterCommit(p).label
<1> DEFINE o == order(p)
           t == tx[p]
<1>1. o \in Orders /\ Committed(p) /\ t \in Transactions /\ (t.bound => t.item \in Items)
  BY AtCommit
<1>2. NoTx \in Transactions /\ 0 \in 0 .. Attempts
  BY AttemptsAssumption DEF NoTx, Transactions
<1>3. AfterCommit(p).label \in Labels /\ AfterCommit(p).job \in Jobs
  BY DEF AfterCommit, IInv, TypeOK, Jobs, Labels, NoJob, Ops
<1>4. /\ tx' = [tx EXCEPT ![p] = NoTx] /\ job' = [job EXCEPT ![p] = AfterCommit(p).job]
      /\ tries' = [tries EXCEPT ![p] = 0] /\ pc' = [pc EXCEPT ![p] = AfterCommit(p).label]
  BY DEF Commit, Goto
<1>5. status' \in [Orders -> Statuses] /\ payload' \in [Orders -> Goods \cup {None}]
  BY <1>1 DEF Committed, IInv, TypeOK, Transactions
<1>6. paidAt' \in [Orders -> BOOLEAN] /\ owner' \in [Items -> Orders \cup {None}]
  BY <1>1 DEF Committed, IInv, TypeOK, Transactions
<1>7. ledger' \in [Orders -> SUBSET LedgerKeys] /\ terms' \in Catalogues
  BY <1>1 DEF Committed, IInv, TypeOK, Transactions
<1>8. /\ pc' \in [Procs -> Labels] /\ job' \in [Procs -> Jobs]
      /\ tries' \in [Procs -> 0 .. Attempts] /\ tx' \in [Procs -> Transactions]
  BY <1>2, <1>3, <1>4 DEF IInv, TypeOK
<1>9. TypeOK'
  BY <1>5, <1>6, <1>7, <1>8 DEF TypeOK
<1> QED BY <1>4, <1>9 DEF IInv, TypeOK, Same

\* Money: what the handler relied on is booked, or is booked by this commit.
LEMMA CommitKeepsMoney ==
  ASSUME IInv, NEW p \in Procs, Commit(p)
  PROVE  MoneyInv'
<1> DEFINE o == order(p)
           t == tx[p]
<1>1. /\ pc[p] = "commit" /\ Good(p) /\ o \in Orders /\ Committed(p) /\ t \in Transactions
  BY AtCommit
<1>2. /\ status'[o] = (IF t.status # None THEN t.status ELSE status[o])
      /\ paidAt'[o] = (paidAt[o] \/ t.paid) /\ ledger'[o] = ledger[o] \cup t.keys
      /\ payload'[o] = (IF t.good # None THEN t.good ELSE payload[o]) /\ terms' = terms
  BY <1>1 DEF Committed, IInv, TypeOK
<1>3. \A x \in Orders \ {o} :
        /\ status'[x] = status[x] /\ paidAt'[x] = paidAt[x]
        /\ ledger'[x] = ledger[x] /\ payload'[x] = payload[x]
  BY <1>1 DEF Committed, IInv, TypeOK
<1>4. t.paid <=> t.status = "PAID"
  BY <1>1 DEF Good, PaymentCovered
<1>5. t.status \in {"DELIVERING", "DELIVERED", "FAILED", "REFUNDED"} \/ t.good # None
        \/ t.keys \cap Refunds # {} => paidAt[o]
  BY <1>1 DEF Good, RefundCovered, Holding, PaidFirst
<1>6. "purchase" \in t.keys => terms[o].rail = "balance" /\ (t.paid \/ paidAt[o])
  BY <1>1 DEF Good, PaymentCovered, rail, order
<1>7. terms[o].rail = "balance" /\ t.paid => "purchase" \in ledger[o] \cup t.keys
  BY <1>1 DEF Good, PaymentCovered, Booked, rail, order
<1>8. t.status \in {"FAILED", "REFUNDED"} =>
        terms[o].rail = "free" \/ (ledger[o] \cup t.keys) \cap Refunds # {}
  BY <1>1 DEF Good, RefundCovered, BackCovered, Booked, rail, order
<1>9. t.status \in Statuses \cup {None} /\ None \notin Statuses
  BY <1>1, NoneAssumption DEF Transactions
<1> HIDE DEF o, t
<1>10. StatusPaid'
  BY <1>1, <1>2, <1>3, <1>4, <1>5, <1>9 DEF IInv, MoneyInv, StatusPaid, Statuses
<1>11. OnlyBalanceDebited'
  BY <1>2, <1>3, <1>6 DEF IInv, MoneyInv, OnlyBalanceDebited
<1>12. ChargedIffPaid'
  BY <1>1, <1>2, <1>3, <1>6, <1>7 DEF IInv, MoneyInv, ChargedIffPaid
<1>13. NothingForUnpaid'
  BY <1>1, <1>2, <1>3, <1>5 DEF IInv, MoneyInv, NothingForUnpaid, Refunded, Refunds
<1>14. FailedMeansRefunded'
  <2> SUFFICES ASSUME NEW x \in Orders, status'[x] \in {"FAILED", "REFUNDED"}, Charged(x)'
               PROVE  Refunded(x)'
    BY DEF FailedMeansRefunded
  <2>1. CASE x # o
    BY <1>2, <1>3, <2>1 DEF IInv, MoneyInv, FailedMeansRefunded, Charged, Refunded
  <2>2. CASE x = o /\ t.status # None
    <3>1. terms[o].rail # "free"
      BY <1>2, <1>11, <2>2 DEF Charged, OnlyBalanceDebited
    <3> QED BY <1>2, <1>8, <2>2, <3>1 DEF Refunded
  <2>3. CASE x = o /\ t.status = None
    <3>1. ~t.paid /\ status'[o] = status[o]
      BY <1>2, <1>4, <1>9, <2>3 DEF Statuses
    <3>2. Charged(o)
      BY <1>1, <1>2, <1>6, <2>3, <3>1 DEF Charged, IInv, MoneyInv, ChargedIffPaid
    <3>3. Refunded(o)
      BY <1>1, <2>3, <3>1, <3>2 DEF IInv, MoneyInv, FailedMeansRefunded
    <3> QED BY <1>2, <2>3, <3>3 DEF Refunded
  <2> QED BY <2>1, <2>2, <2>3
<1> QED BY <1>10, <1>11, <1>12, <1>13, <1>14 DEF MoneyInv

\* Goods: an item is bound by a transaction that also stores it on the order.
LEMMA CommitKeepsGoods ==
  ASSUME IInv, NEW p \in Procs, Commit(p)
  PROVE  GoodsInv'
<1> DEFINE o == order(p)
           t == tx[p]
<1>1. /\ pc[p] = "commit" /\ Good(p) /\ o \in Orders /\ Committed(p) /\ t \in Transactions
      /\ (t.bound => t.item \in Items) /\ None \notin Orders
  BY AtCommit, NoneAssumption
<1>2. /\ status'[o] = (IF t.status # None THEN t.status ELSE status[o])
      /\ payload'[o] = (IF t.good # None THEN t.good ELSE payload[o])
  BY <1>1 DEF Committed, IInv, TypeOK
<1>3. \A x \in Orders \ {o} : status'[x] = status[x] /\ payload'[x] = payload[x]
  BY <1>1 DEF Committed, IInv, TypeOK
<1>4. \A i \in Items : owner'[i] = IF t.bound /\ i = t.item THEN o ELSE owner[i]
  BY <1>1 DEF Committed, IInv, TypeOK
<1>5. t.status = "DELIVERED" => t.good # None
  BY <1>1 DEF Good, Holding
<1>6. t.bound => owner[t.item] = None /\ t.good # None /\ \A i \in Items : owner[i] # o
  BY <1>1 DEF Good, ItemHeld
<1>7. t.good \in Items => owner[t.good] = o \/ (t.bound /\ t.good = t.item)
  BY <1>1, NoneAssumption DEF Good, Holding, ItemHeld
<1> HIDE DEF o, t
<1>8. DeliveredHasPayload'
  BY <1>1, <1>2, <1>3, <1>5 DEF IInv, GoodsInv, DeliveredHasPayload
<1>9. BurnedItemIsStored'
  <2> SUFFICES ASSUME NEW i \in Items, owner'[i] # None PROVE payload'[owner'[i]] # None
    BY DEF BurnedItemIsStored
  <2>1. CASE t.bound /\ i = t.item
    BY <1>2, <1>4, <1>6, <2>1
  <2>2. CASE ~(t.bound /\ i = t.item)
    <3>1. owner'[i] = owner[i] /\ owner[i] \in Orders /\ payload[owner[i]] # None
      BY <1>4, <2>2 DEF IInv, TypeOK, GoodsInv, BurnedItemIsStored
    <3> QED BY <1>2, <1>3, <3>1
  <2> QED BY <2>1, <2>2
<1>10. PayloadOwned'
  <2> SUFFICES ASSUME NEW x \in Orders, payload'[x] \in Items PROVE owner'[payload'[x]] = x
    BY DEF PayloadOwned
  <2>1. CASE x = o /\ t.good # None
    BY <1>2, <1>4, <1>7, <2>1
  <2>2. CASE ~(x = o /\ t.good # None)
    <3>1. payload'[x] = payload[x] /\ owner[payload[x]] = x
      BY <1>2, <1>3, <2>2 DEF IInv, GoodsInv, PayloadOwned
    <3> QED BY <1>1, <1>4, <1>6, <3>1
  <2> QED BY <2>1, <2>2
<1>11. OneBuyerPerCredential'
  <2>1. \A i, j \in Items : owner'[i] = owner'[j] /\ owner'[i] # None => i = j
    BY <1>1, <1>4, <1>6 DEF IInv, GoodsInv, OneBuyerPerCredential
  <2> QED BY <1>10, <2>1 DEF OneBuyerPerCredential, PayloadOwned
<1> QED BY <1>8, <1>9, <1>10, <1>11 DEF GoodsInv

\* A payment goes on to the delivery, and a supplier's last failure to the
\* settlement, of an order that is paid.
LEMMA CommitKeepsOwn ==
  ASSUME IInv, NEW p \in Procs, Commit(p)
  PROVE  Good(p)'
<1>1. /\ pc[p] = "commit" /\ Good(p) /\ order(p) \in Orders /\ Committed(p)
  BY AtCommit
<1>2. /\ tx'[p] = NoTx /\ job'[p] = AfterCommit(p).job /\ pc'[p] = AfterCommit(p).label
      /\ job[p] \in Jobs
  BY CommitTypes DEF IInv, TypeOK
<1>3. paidAt'[order(p)] = (paidAt[order(p)] \/ tx[p].paid)
  BY <1>1 DEF Committed, IInv, TypeOK
<1>4. ~tx[p].bound => owner' = owner
  BY <1>1 DEF Committed
<1>5. CASE job[p].op = "pay"
  <2>1. pc'[p] = "read" /\ job'[p] = [job[p] EXCEPT !.op = "fulfil"]
    BY <1>2, <1>5 DEF AfterCommit
  <2>2. job'[p].op = "fulfil" /\ job'[p].order = order(p) /\ job'[p].good = job[p].good
    BY <1>2, <2>1 DEF Jobs, order
  <2>3. ~tx[p].bound /\ paidAt'[order(p)]
    BY <1>1, <1>3, <1>5 DEF Good, ItemHeld, PaymentCovered
  <2> QED BY <1>1, <1>2, <1>4, <2>1, <2>2, <2>3, NoneAssumption DEF NoTx, Statuses, LocalStep,
       Good, Placed, PaidFirst, PastPayment, PaymentCovered, RefundCovered, BackCovered, Booked,
       Refunds, Holding, ItemHeld, Unopened, order, rail, kind
<1>6. CASE job[p].op = "fulfil" /\ tx[p].status = "FAILED"
  <2>1. pc'[p] = "settle" /\ job'[p] = [job[p] EXCEPT !.op = "settle"]
    BY <1>2, <1>6 DEF AfterCommit
  <2>2. job'[p].op = "settle" /\ job'[p].order = order(p) /\ job'[p].good = job[p].good
    BY <1>2, <2>1 DEF Jobs, order
  <2>3. ~tx[p].bound /\ paidAt'[order(p)]
    BY <1>1, <1>3, <1>6 DEF Good, ItemHeld, Holding, PaidFirst, PastPayment
  <2> QED BY <1>1, <1>2, <1>4, <2>1, <2>2, <2>3, NoneAssumption DEF NoTx, Statuses, LocalStep,
       Good, Placed, PaidFirst, PastPayment, PaymentCovered, RefundCovered, BackCovered, Booked,
       Refunds, Holding, ItemHeld, Unopened, order, rail, kind
<1>7. CASE job[p].op # "pay" /\ ~(job[p].op = "fulfil" /\ tx[p].status = "FAILED")
  <2>1. pc'[p] = "idle" /\ job'[p] = NoJob
    BY <1>2, <1>7 DEF AfterCommit
  <2> QED BY <1>2, <2>1, NoneAssumption DEF NoJob, NoTx, Statuses, LocalStep, Good, Placed,
       PaidFirst, PastPayment, PaymentCovered, RefundCovered, BackCovered, Booked, Refunds,
       Holding, ItemHeld, Unopened, order, rail, kind
<1> QED BY <1>5, <1>6, <1>7

\* A commit adds to what the others rely on and takes nothing away.
LEMMA CommitKeeps ==
  ASSUME IInv, NEW p \in Procs, Commit(p)
  PROVE  IInv'
<1>1. /\ pc[p] = "commit" /\ Good(p) /\ order(p) \in Orders /\ Committed(p) /\ tx[p] \in Transactions
      /\ (tx[p].bound => tx[p].item \in Items)
  BY AtCommit
<1>2. TypeOK' /\ tx'[p] = NoTx /\ \A q \in Procs \ {p} : Same(q)
  BY CommitTypes
<1>3. ASSUME NEW q \in Procs \ {p} PROVE Good(q)'
  <2>1. TypeOK /\ Good(q) /\ Same(q) /\ p # q /\ UNCHANGED terms
    BY <1>1, <1>2 DEF IInv, Committed
  <2>2. /\ \A o \in Orders : paidAt[o] => paidAt'[o]
        /\ \A o \in Orders : ledger[o] \subseteq ledger'[o]
    BY <1>1 DEF Committed, IInv, TypeOK
  <2>3. \A i \in Items : owner'[i] = IF tx[p].bound /\ i = tx[p].item THEN order(p) ELSE owner[i]
    BY <1>1 DEF Committed, IInv, TypeOK
  <2>4. tx[p].bound => tx[p].item # None /\ owner[tx[p].item] = None
    BY <1>1 DEF Good, ItemHeld
  <2>5. \A i \in Items : owner[i] # None => owner'[i] = owner[i]
    BY <2>3, <2>4
  <2>6. /\ tx[p].bound => tx[q].item # tx[p].item
        /\ tx[p].bound /\ tx[q].bound => order(p) # order(q)
    BY <2>1, <2>4 DEF IInv, Apart
  <2>7. tx[q].item # None => tx[q].item \in Items /\ owner[tx[q].item] = None
    BY <2>1 DEF TypeOK, Transactions, Good, ItemHeld
  <2>8. tx[q].item # None => owner'[tx[q].item] = None
    BY <2>3, <2>6, <2>7
  <2>9. tx[q].bound => \A i \in Items : owner'[i] # order(q)
    BY <2>1, <2>3, <2>6 DEF Good, ItemHeld
  <2> QED BY <2>1, <2>2, <2>5, <2>8, <2>9, Frame
<1>4. Apart'
  <2>1. \A q \in Procs \ {p} : tx'[q] = tx[q] /\ order(q)' = order(q)
    BY <1>2 DEF Same, order
  <2> QED BY <1>2, <2>1 DEF IInv, Apart, NoTx
<1> QED BY <1>2, <1>3, <1>4, CommitKeepsOwn, CommitKeepsMoney, CommitKeepsGoods DEF IInv

-----------------------------------------------------------------------------
(* The invariant, and what follows from it.                                *)

\* At the start nothing is paid, sold or under way.
LEMMA InitIInv ==
  ASSUME Init
  PROVE  IInv /\ TriesLeft
<1>1. /\ NoJob \in Jobs /\ NoTx \in Transactions /\ "idle" \in Labels /\ 0 \in 0 .. Attempts
      /\ "PENDING" \in Statuses /\ 0 < Attempts
  BY AttemptsAssumption DEF NoJob, NoTx, Jobs, Transactions, Ops, Labels, Statuses
<1>2. TypeOK
  BY <1>1 DEF Init, TypeOK
<1>3. ASSUME NEW p \in Procs PROVE Good(p)
  BY NoneAssumption DEF Init, NoJob, NoTx, Good, Placed, PaidFirst, PastPayment, PaymentCovered,
     RefundCovered, Holding, ItemHeld, Unopened, Statuses
<1>4. Apart
  BY DEF Init, NoTx, Apart
<1>5. MoneyInv
  BY DEF Init, MoneyInv, StatusPaid, OnlyBalanceDebited, ChargedIffPaid, NothingForUnpaid,
     FailedMeansRefunded, Charged, Refunded
<1>6. GoodsInv
  BY NoneAssumption DEF Init, GoodsInv, DeliveredHasPayload, BurnedItemIsStored, PayloadOwned,
     OneBuyerPerCredential
<1>7. TriesLeft
  BY <1>1 DEF Init, TriesLeft
<1> QED BY <1>2, <1>3, <1>4, <1>5, <1>6, <1>7 DEF IInv

\* deliver() around its pool and supplier branches, statement by statement.
LEMMA DeliveryKeeps ==
  ASSUME IInv, NEW p \in Procs, DeliveryStep(p)
  PROVE  IInv'
<1> QED BY ReadOrderKeeps, MarkDeliveringKeeps, SetDeliveringKeeps, DispatchKeeps,
     MarkDeliveredKeeps, SetDeliveredInTransactionKeeps, SetDeliveredAloneKeeps,
     StatementFailsKeeps DEF DeliveryStep

\* Every step keeps the invariant.
LEMMA NextKeeps ==
  ASSUME IInv, TriesLeft, [Next]_vars
  PROVE  IInv'
<1>1. CASE Next
  <2>1. PICK p \in Procs :
          \/ \E o \in Orders : Begin(p, o)
          \/ PaymentStep(p) \/ DeliveryStep(p) \/ PoolStep(p) \/ SupplierStep(p)
          \/ SettleStep(p) \/ ExpiryStep(p) \/ RefundStep(p) \/ ReadManual(p)
          \/ Commit(p) \/ Crash(p)
    BY <1>1 DEF Next
  <2> QED BY <2>1, BeginKeeps, PaymentKeeps, DeliveryKeeps, PoolKeeps, SupplierKeeps,
       SettlementKeeps, ExpiryKeeps, RefundKeeps, ReadManualKeeps, CommitKeeps, CrashKeeps
<1>2. CASE UNCHANGED vars
  <2>1. UNCHANGED <<terms, status, paidAt, payload, owner, ledger, pc, job, tries, tx>>
    BY <1>2 DEF vars, rows
  <2>2. TypeOK' /\ Apart'
    BY <2>1 DEF IInv, TypeOK, Apart, order
  <2>3. ASSUME NEW p \in Procs PROVE Good(p)'
    BY <2>1, Frame DEF IInv, Same, Good, ItemHeld
  <2>4. MoneyInv'
    BY <2>1 DEF IInv, MoneyInv, StatusPaid, OnlyBalanceDebited, ChargedIffPaid, NothingForUnpaid,
       FailedMeansRefunded, Charged, Refunded
  <2>5. GoodsInv'
    BY <2>1 DEF IInv, GoodsInv, DeliveredHasPayload, BurnedItemIsStored, PayloadOwned,
       OneBuyerPerCredential
  <2> QED BY <2>2, <2>3, <2>4, <2>5 DEF IInv
<1> QED BY <1>1, <1>2

\* The count of failed attempts starts anew with every delivery.
LEMMA TriesKeep ==
  ASSUME IInv, TriesLeft, [Next]_vars
  PROVE  TriesLeft'
<1> DEFINE Kept(p) ==
      /\ \A q \in Procs \ {p} : pc'[q] = pc[q] /\ tries'[q] = tries[q]
      /\ pc'[p] \in {"markFailed", "setFailed", "creditBack", "commit"} \/ tries'[p] < Attempts
<1>1. TypeOK /\ 0 < Attempts
  BY AttemptsAssumption DEF IInv
<1>2. ASSUME NEW p \in Procs, Kept(p) PROVE TriesLeft'
  BY <1>2 DEF TriesLeft
<1> HIDE DEF Kept
<1>3. ASSUME NEW p \in Procs, Leave(p) \/ DeliveryFails(p) PROVE Kept(p)
  BY <1>1, <1>3 DEF Leave, DeliveryFails, Goto, TypeOK, Kept
<1>4. ASSUME NEW p \in Procs, NEW label,
             Goto(p, label), tries' = tries,
             pc[p] \in {"markFailed", "setFailed", "creditBack", "commit"} =>
               label \in {"markFailed", "setFailed", "creditBack", "commit"}
      PROVE  Kept(p)
  BY <1>1, <1>4 DEF Goto, TypeOK, TriesLeft, Kept
<1>5. ASSUME NEW p \in Procs, NEW o \in Orders, Begin(p, o) PROVE Kept(p)
  BY <1>1, <1>5 DEF Begin, Pay, Fulfil, Expire, Refund, Manual, Redeliver, Start, At, Goto,
     TypeOK, TriesLeft, Kept
<1>6. ASSUME NEW p \in Procs, PaymentStep(p) PROVE Kept(p)
  BY <1>1, <1>3, <1>6 DEF PaymentStep, DebitPurchase, DebitRefused, MarkPaid, SetPaid, Check,
     Proceed, Book, At, Goto, TypeOK, TriesLeft, Kept
<1>7. ASSUME NEW p \in Procs, DeliveryStep(p) PROVE Kept(p)
  <2>1. CASE ReadOrder(p) \/ MarkDelivering(p) \/ SetDelivering(p)
    BY <1>1, <1>3, <2>1 DEF ReadOrder, MarkDelivering, SetDelivering, Check, Proceed, Write, At,
       Goto, TypeOK, TriesLeft, Kept
  <2>2. CASE Dispatch(p) \/ MarkDelivered(p) \/ StatementFails(p)
    BY <1>1, <1>3, <2>2 DEF Dispatch, MarkDelivered, StatementFails, Check, Proceed, Hold, At,
       Goto, TypeOK, TriesLeft, Kept
  <2>3. CASE SetDelivered(p)
    BY <1>1, <2>3 DEF SetDelivered, At, Goto, TypeOK, TriesLeft, Kept
  <2> QED BY <1>7, <2>1, <2>2, <2>3 DEF DeliveryStep
<1>8. ASSUME NEW p \in Procs, PoolStep(p) PROVE Kept(p)
  BY <1>1, <1>3, <1>8 DEF PoolStep, FindItem, ClaimItem, BindItem, Proceed, Hold, At, Goto,
     TypeOK, TriesLeft, Kept
<1>9. ASSUME NEW p \in Procs, SupplierStep(p) PROVE Kept(p)
  <2>1. CASE SupplierAnswers(p) \/ SupplierMissing(p) \/ BreakerOpen(p)
    BY <1>1, <1>3, <2>1 DEF SupplierAnswers, SupplierMissing, BreakerOpen, Proceed, Hold, At,
       Goto, TypeOK, TriesLeft, Kept
  <2>2. CASE SupplierFails(p)
    <3>1. tries[p] \in 0 .. Attempts /\ tries[p] < Attempts
      BY <1>1, <2>2 DEF SupplierFails, Supplied, TypeOK, TriesLeft
    <3> QED BY <1>1, <2>2, <3>1, AttemptsAssumption DEF SupplierFails, Goto, TypeOK, Kept
  <2> QED BY <1>9, <2>1, <2>2 DEF SupplierStep
<1>10. ASSUME NEW p \in Procs, SettleStep(p) PROVE Kept(p)
  BY <1>1, <1>3, <1>10 DEF SettleStep, Settle, MarkFailed, SetFailed, CreditBack, Check, Proceed,
     Write, Book, At, Goto, TypeOK, TriesLeft, Kept
<1>11. ASSUME NEW p \in Procs, ExpiryStep(p) \/ ReadManual(p) PROVE Kept(p)
  BY <1>1, <1>3, <1>11 DEF ExpiryStep, MarkExpired, SetExpired, ReadManual, Check, Proceed, Write,
     Hold, At, Goto, TypeOK, TriesLeft, Kept
<1>12. ASSUME NEW p \in Procs, RefundStep(p) PROVE Kept(p)
  BY <1>1, <1>3, <1>12 DEF RefundStep, MarkRefunded, SumRefunds, CreditRefund, SetRefunded, Check,
     Proceed, Write, Book, At, Goto, TypeOK, TriesLeft, Kept
<1>13. ASSUME NEW p \in Procs, Commit(p) \/ Crash(p) PROVE Kept(p)
  BY <1>1, <1>3, <1>13 DEF Commit, Crash, Goto, TypeOK, Kept
<1>14. CASE UNCHANGED vars
  BY <1>14 DEF vars, TriesLeft
<1> QED BY <1>2, <1>5, <1>6, <1>7, <1>8, <1>9, <1>10, <1>11, <1>12, <1>13, <1>14 DEF Next

\* Everything below follows from this: whatever handlers run, overlap, fail, die
\* or are repeated, each of them relies only on what the rows still say.
THEOREM InductiveInvariant == Spec => [](IInv /\ TriesLeft)
<1>1. Init => IInv /\ TriesLeft
  BY InitIInv
<1>2. IInv /\ TriesLeft /\ [Next]_vars => (IInv /\ TriesLeft)'
  BY NextKeeps, TriesKeep
<1> QED BY <1>1, <1>2, PTL DEF Spec

\* The state keeps its shape; an attempt count never passes EXTERNAL_ATTEMPTS.
THEOREM TypeCorrect == Spec => []TypeOK
<1>1. IInv => TypeOK
  BY DEF IInv
<1> QED BY <1>1, InductiveInvariant, PTL

\* payOrderFromBalance: the debit and markPaid() commit together or not at all.
THEOREM PaymentIsAtomic == Spec => []ChargedIffPaid
<1>1. IInv => ChargedIffPaid
  BY DEF IInv, MoneyInv
<1> QED BY <1>1, InductiveInvariant, PTL

\* No handler delivers or refunds an order that was not paid, although each of
\* them decides on a status that may be stale when it writes.
THEOREM UnpaidGetsNothing == Spec => []NothingForUnpaid
<1>1. IInv => NothingForUnpaid
  BY DEF IInv, MoneyInv
<1> QED BY <1>1, InductiveInvariant, PTL

\* FAILED and REFUNDED are only ever committed with the refund, or after it.
THEOREM FailureIsRefunded == Spec => []FailedMeansRefunded
<1>1. IInv => FailedMeansRefunded
  BY DEF IInv, MoneyInv
<1> QED BY <1>1, InductiveInvariant, PTL

\* markDelivered() never shows an order as delivered without its payload.
THEOREM DeliveredIsShown == Spec => []DeliveredHasPayload
<1>1. IInv => DeliveredHasPayload
  BY DEF IInv, GoodsInv
<1> QED BY <1>1, InductiveInvariant, PTL

\* deliverFromPool: the sale of an item and the order's payload are one commit.
THEOREM BurnedIsStored == Spec => []BurnedItemIsStored
<1>1. IInv => BurnedItemIsStored
  BY DEF IInv, GoodsInv
<1> QED BY <1>1, InductiveInvariant, PTL

\* For any number of claims at once: SKIP LOCKED and the unique index keep a
\* credential with one order, and an order with one item.
THEOREM CredentialIsExclusive == Spec => []OneBuyerPerCredential
<1>1. IInv => OneBuyerPerCredential
  BY DEF IInv, GoodsInv
<1> QED BY <1>1, InductiveInvariant, PTL

\* Only a commit that sells touches StockItem.orderId.
LEMMA OnlyCommitsSell ==
  ASSUME [Next]_vars
  PROVE  owner' = owner \/ \E p \in Procs : Commit(p)
<1>1. ASSUME NEW p \in Procs, NEW o \in Orders, Begin(p, o) PROVE owner' = owner
  BY <1>1 DEF Begin, Pay, Fulfil, Expire, Refund, Manual, Redeliver, Start, rows
<1>2. ASSUME NEW p \in Procs, PaymentStep(p) PROVE owner' = owner
  BY <1>2 DEF PaymentStep, DebitPurchase, DebitRefused, MarkPaid, SetPaid, Check, Proceed, Leave,
     Book, rows
<1>3. ASSUME NEW p \in Procs, DeliveryStep(p) PROVE owner' = owner
  BY <1>3 DEF DeliveryStep, ReadOrder, MarkDelivering, SetDelivering, Dispatch, MarkDelivered,
     SetDelivered, StatementFails, DeliveryFails, Check, Proceed, Leave, Write, Hold, rows
<1>4. ASSUME NEW p \in Procs, PoolStep(p) PROVE owner' = owner
  BY <1>4 DEF PoolStep, FindItem, ClaimItem, BindItem, DeliveryFails, Proceed, Hold, rows
<1>5. ASSUME NEW p \in Procs, SupplierStep(p) PROVE owner' = owner
  BY <1>5 DEF SupplierStep, SupplierAnswers, SupplierFails, SupplierMissing, BreakerOpen,
     DeliveryFails, Proceed, Hold, rows
<1>6. ASSUME NEW p \in Procs, SettleStep(p) PROVE owner' = owner
  BY <1>6 DEF SettleStep, Settle, MarkFailed, SetFailed, CreditBack, Check, Proceed, Leave, Write,
     Book, rows
<1>7. ASSUME NEW p \in Procs, ExpiryStep(p) \/ ReadManual(p) \/ Crash(p) PROVE owner' = owner
  BY <1>7 DEF ExpiryStep, MarkExpired, SetExpired, ReadManual, Crash, Check, Proceed, Leave,
     Write, Hold, rows
<1>8. ASSUME NEW p \in Procs, RefundStep(p) PROVE owner' = owner
  BY <1>8 DEF RefundStep, MarkRefunded, SumRefunds, CreditRefund, SetRefunded, Check, Proceed,
     Leave, Write, Book, rows
<1>9. CASE UNCHANGED vars
  BY <1>9 DEF vars, rows
<1> QED BY <1>1, <1>2, <1>3, <1>4, <1>5, <1>6, <1>7, <1>8, <1>9 DEF Next

\* Nothing puts a sold credential back on sale or moves it to another order: a
\* commit sells only an item that has been nobody's ever since it was claimed.
THEOREM SoldStaysSold == Spec => SoldIsForever
<1>1. ASSUME IInv, [Next]_vars
      PROVE  \A i \in Items : owner[i] # None => owner'[i] = owner[i]
  <2>1. CASE owner' = owner
    BY <2>1
  <2>2. ASSUME NEW p \in Procs, Commit(p)
        PROVE  \A i \in Items : owner[i] # None => owner'[i] = owner[i]
    <3>1. /\ Good(p) /\ owner' = IF tx[p].bound THEN [owner EXCEPT ![tx[p].item] = order(p)] ELSE owner
      BY <2>2, AtCommit, <1>1 DEF Committed
    <3> QED BY <1>1, <3>1 DEF Good, ItemHeld, IInv, TypeOK
  <2> QED BY <1>1, <2>1, <2>2, OnlyCommitsSell
<1>2. IInv /\ [Next]_vars => [\A i \in Items : owner[i] # None => owner'[i] = owner[i]]_vars
  BY <1>1
<1> QED BY <1>2, InductiveInvariant, PTL DEF Spec, SoldIsForever

-----------------------------------------------------------------------------
(* One handler of an order at a time.  What a handler has read of its      *)
(* order is then still so when it writes: Fresh says, by the statement it  *)
(* is at and by what its transaction has written, which committed status   *)
(* it acts on, and Settled how the money, the goods and the status of an   *)
(* order agree between two transactions.                                   *)

\* Labels of deliver() after markDelivering().
Delivering(p) ==
  \/ pc[p] \in {"dispatch", "findItem", "claimItem", "bindItem", "supplier"}
  \/ job[p].op = "fulfil" /\ pc[p] \in {"markDelivered", "setDelivered"}

\* A transaction has no update of the order until the label that writes one.
WritesNothingYet(p) ==
  \/ pc[p] \notin {"idle", "markDelivered", "setDelivered", "creditBack", "commit"}
  \/ job[p].op = "fulfil" /\ pc[p] # "commit" /\ pc[p] # "creditBack"

\* What a handler has read of its order, and what it writes, go together.
Fresh(p) ==
  LET st == status[order(p)]  w == tx[p].status IN
  /\ WritesNothingYet(p) => w = None
  /\ pc[p] \in {"markDelivered", "setDelivered"} => w \in {None, "DELIVERING"}
  /\ w # "PENDING"
  /\ pc[p] = "creditBack" => w = "FAILED"
  /\ w = "PAID" \/ pc[p] = "setPaid" => st = "PENDING"
  /\ w = "EXPIRED" \/ pc[p] = "setExpired" => st = "PENDING"
  /\ w = "DELIVERING" \/ pc[p] = "setDelivering" => st = "PAID"
  /\ Delivering(p) => st = "DELIVERING"
  /\ pc[p] = "setDelivered" => w = "DELIVERING" \/ st = "DELIVERING"
  /\ w = "DELIVERED" => st \in InFlight
  /\ w = "FAILED" \/ pc[p] \in {"markFailed", "setFailed"} => st \in InFlight
  /\ w = "REFUNDED" \/ pc[p] \in {"sumRefunds", "creditRefund", "setRefunded"} => CanRefund(st)
  /\ pc[p] = "creditRefund" \/ "refund" \in tx[p].keys => ledger[order(p)] \cap Refunds = {}
  /\ "autoRefund" \in tx[p].keys => w = "FAILED"
  /\ "refund" \in tx[p].keys => pc[p] = "setRefunded" \/ w = "REFUNDED"

\* Between two transactions the status of an order says what became of its
\* payment, its payload and its refunds.
Settled(o) ==
  /\ paidAt[o] => status[o] \notin {"PENDING", "EXPIRED"}
  /\ payload[o] # None => status[o] \in {"DELIVERED", "REFUNDED"}
  /\ "refund" \in ledger[o] => status[o] = "REFUNDED"
  /\ "autoRefund" \in ledger[o] =>
       status[o] \in {"FAILED", "REFUNDED"} /\ payload[o] = None /\ "refund" \notin ledger[o]

\* The inductive invariant of SerialSpec.
SerialInv ==
  IInv /\ Serial /\ (\A p \in Procs : Fresh(p)) /\ (\A o \in Orders : Settled(o))

\* What a step may do to the orders.
GraphStep ==
  \A o \in Orders :
    \/ status'[o] = status[o]
    \/ Allowed(status[o], status'[o])
    \/ status[o] = "PAID" /\ status'[o] = "DELIVERED"
PayloadKept == \A o \in Orders : payload[o] # None => payload'[o] = payload[o]

\* A step of a schedule without overlap.
SerialStep == SerialInv' /\ GraphStep /\ PayloadKept

\* The edges of the graph, backwards.
LEMMA EdgesInto ==
  ASSUME NEW from \in Statuses
  PROVE  /\ Allowed(from, "PAID") <=> from = "PENDING"
         /\ Allowed(from, "EXPIRED") <=> from = "PENDING"
         /\ Allowed(from, "DELIVERING") <=> from = "PAID"
         /\ Allowed(from, "DELIVERED") <=> from = "DELIVERING"
         /\ Allowed(from, "FAILED") <=> from \in InFlight \cup {"PENDING"}
         /\ CanRefund(from) <=> from \in InFlight \cup {"DELIVERED", "FAILED"}
<1> QED BY DEF Allowed, AllowedTransitions, Statuses, CanRefund, InFlight

\* What Good says of a handler that is used here.
LEMMA Working ==
  ASSUME SerialInv, NEW p \in Procs, pc[p] # "idle"
  PROVE  /\ order(p) \in Orders /\ status[order(p)] \in Statuses
         /\ tx[p].status = None => Seen(p) = status[order(p)]
<1> QED BY DEF SerialInv, IInv, Good, Placed, TypeOK, Seen

\* The other handlers look at other orders.
LEMMA OthersFresh ==
  ASSUME SerialInv, NEW p \in Procs, NEW q \in Procs \ {p}, Same(q),
         \A o \in Orders \ {order(p)} : status'[o] = status[o] /\ ledger'[o] = ledger[o]
  PROVE  Fresh(q)'
<1>1. CASE pc[q] = "idle"
  <2>1. tx[q] = NoTx /\ job[q].op = "none"
    BY <1>1 DEF SerialInv, IInv, Good, Placed, NoJob
  <2> QED BY <1>1, <2>1, NoneAssumption DEF Same, NoTx, Fresh, WritesNothingYet, Delivering, Statuses
<1>2. CASE pc[q] # "idle"
  <2>1. order(q) \in Orders \ {order(p)} /\ order(q)' = order(q)
    BY <1>2, Working, NoneAssumption DEF SerialInv, Serial, Same, order
  <2> QED BY <2>1 DEF SerialInv, Same, Fresh, WritesNothingYet, Delivering, order
<1> QED BY <1>1, <1>2

\* A step of one handler owes only its own and its order's part.
LEMMA OneHandler ==
  ASSUME SerialInv, NEW p \in Procs, IInv', Serial', Fresh(p)',
         \A q \in Procs \ {p} : Same(q),
         \A o \in Orders \ {order(p)} :
           /\ status'[o] = status[o] /\ ledger'[o] = ledger[o]
           /\ paidAt'[o] = paidAt[o] /\ payload'[o] = payload[o],
         \A o \in Orders : o = order(p) => Settled(o)'
  PROVE  SerialInv'
<1>1. \A q \in Procs \ {p} : Fresh(q)'
  BY OthersFresh
<1>2. ASSUME NEW o \in Orders, o # order(p) PROVE Settled(o)'
  <2>1. status'[o] = status[o] /\ ledger'[o] = ledger[o] /\ paidAt'[o] = paidAt[o] /\ payload'[o] = payload[o]
    BY <1>2
  <2>2. Settled(o)
    BY DEF SerialInv
  <2> QED BY <2>1, <2>2 DEF Settled
<1> QED BY <1>1, <1>2 DEF SerialInv

\* A step that commits nothing owes only its own part.
LEMMA LocalSerial ==
  ASSUME SerialInv, NEW p \in Procs, IInv', Serial', LocalStep(p), Fresh(p)'
  PROVE  SerialStep
<1>1. UNCHANGED <<status, ledger, paidAt, payload>> /\ \A q \in Procs \ {p} : Same(q)
  BY DEF LocalStep
<1>2. \A o \in Orders : Settled(o)'
  BY <1>1 DEF SerialInv, Settled
<1>3. SerialInv'
  BY <1>1, <1>2, OneHandler
<1> QED BY <1>1, <1>3 DEF SerialStep, GraphStep, PayloadKept

\* Where a handler has decided and written nothing.
Quiet == {"idle", "debit", "markPaid", "read", "settle", "markExpired", "markRefunded",
          "readManual", "markDelivering"}

\* A handler there has nothing to be fresh about.
LEMMA QuietIsFresh ==
  ASSUME NEW p \in Procs, pc'[p] \in Quiet, tx'[p] = NoTx
  PROVE  Fresh(p)'
<1> QED BY NoneAssumption DEF Quiet, NoTx, Fresh, WritesNothingYet, Delivering, Statuses

\* Giving up, and the error that leads to the settlement, discard what was read.
LEMMA LeaveSerial ==
  ASSUME SerialInv, NEW p \in Procs, IInv', Serial', Leave(p) \/ DeliveryFails(p)
  PROVE  SerialStep
<1>1. LocalStep(p) /\ pc'[p] \in Quiet /\ tx'[p] = NoTx
  BY LeaveIs, DeliveryFailsIs DEF SerialInv, IInv, Quiet
<1> QED BY <1>1, QuietIsFresh, LocalSerial

\* A handler starts without having read anything.
LEMMA StartSerial ==
  ASSUME SerialInv, NEW p \in Procs, NEW o \in Orders, NEW op \in Ops,
         NEW good \in Goods \cup {None}, NEW label \in Labels, label \in Quiet,
         Start(p, o, op, good, label), IInv', Serial'
  PROVE  SerialStep
<1>1. TypeOK
  BY DEF SerialInv, IInv
<1>2. /\ LocalStep(p) /\ pc[p] = "idle" /\ pc'[p] = label /\ tx'[p] = tx[p]
      /\ job'[p] = [op |-> op, order |-> o, good |-> good]
  BY <1>1, StartIs
<1>3. tx[p] = NoTx
  BY <1>2 DEF SerialInv, IInv, Good, Placed
<1> QED BY <1>2, <1>3, QuietIsFresh, LocalSerial

\* Every operation starts at a statement that has yet to read the order.
LEMMA BeginSerial ==
  ASSUME SerialInv, NEW p \in Procs, NEW o \in Orders, IInv', Serial', Begin(p, o)
  PROVE  SerialStep
<1>1. /\ {"pay", "fulfil", "expire", "refund", "manual", "redeliver"} \subseteq Ops
      /\ Quiet \subseteq Labels
  BY DEF Ops, Labels, Quiet
<1>2. \E op \in Ops, good \in Goods \cup {None}, label \in Quiet : Start(p, o, op, good, label)
  BY <1>1 DEF Begin, Pay, Fulfil, Expire, Refund, Manual, Redeliver, Quiet
<1> QED BY <1>1, <1>2, StartSerial

-----------------------------------------------------------------------------
(* The steps that commit nothing.                                          *)

\* A read that only moves the handler on.
LEMMA ProceedSerial ==
  ASSUME SerialInv, NEW p \in Procs, NEW label \in Labels, Proceed(p, label), IInv', Serial',
         Moved(p, label) => Fresh(p)'
  PROVE  SerialStep
<1>1. Moved(p, label)
  BY ProceedIs DEF SerialInv, IInv, Moved
<1> QED BY <1>1, LocalSerial DEF Moved

\* A check that passes has read the edge it is about.
LEMMA CheckSerial ==
  ASSUME SerialInv, NEW p \in Procs, NEW to \in Statuses, NEW label \in Labels,
         Check(p, to, label), IInv', Serial',
         Allowed(Seen(p), to) /\ Moved(p, label) => Fresh(p)'
  PROVE  SerialStep
<1>1. CASE Allowed(Seen(p), to)
  BY <1>1, ProceedSerial DEF Check
<1>2. CASE ~Allowed(Seen(p), to)
  BY <1>2, LeaveSerial DEF Check
<1> QED BY <1>1, <1>2

\* A payload in hand changes nothing that has been read.
LEMMA HoldSerial ==
  ASSUME SerialInv, NEW p \in Procs, NEW good \in Goods, NEW label \in Labels,
         Hold(p, good, label), IInv', Serial', Held(p, good, label) => Fresh(p)'
  PROVE  SerialStep
<1>1. Held(p, good, label)
  BY HoldIs DEF SerialInv, IInv, Held
<1> QED BY <1>1, LocalSerial DEF Held

\* An update in a transaction, on the status its check has read.
LEMMA WriteSerial ==
  ASSUME SerialInv, NEW p \in Procs, NEW st \in Statuses, NEW label \in Labels,
         Write(p, st, label), IInv', Serial', Wrote(p, st, label) => Fresh(p)'
  PROVE  SerialStep
<1>1. /\ LocalStep(p) /\ pc'[p] = label /\ job'[p] = job[p]
      /\ tx'[p] = [tx[p] EXCEPT !.status = st]
  BY WriteIs DEF SerialInv, IInv
<1>2. Wrote(p, st, label)
  BY <1>1 DEF Wrote, SerialInv, IInv, TypeOK, Transactions
<1> QED BY <1>1, <1>2, LocalSerial

\* A ledger call in a transaction.
LEMMA BookSerial ==
  ASSUME SerialInv, NEW p \in Procs, NEW key \in LedgerKeys, NEW label \in Labels,
         Book(p, key, label), IInv', Serial', Entered(p, key, label) => Fresh(p)'
  PROVE  SerialStep
<1>1. PICK keys \in SUBSET LedgerKeys :
        /\ LocalStep(p) /\ pc'[p] = label /\ job'[p] = job[p]
        /\ tx'[p] = [tx[p] EXCEPT !.locked = TRUE, !.keys = keys]
        /\ tx[p].keys \subseteq keys /\ keys \subseteq tx[p].keys \cup {key}
        /\ key \in ledger[order(p)] \cup keys
  BY BookIs DEF SerialInv, IInv
<1>2. Entered(p, key, label)
  BY <1>1 DEF Entered, SerialInv, IInv, TypeOK, Transactions
<1> QED BY <1>1, <1>2, LocalSerial

\* Where a handler is, what it has read, and what it may rely on.
LEMMA AtWork ==
  ASSUME SerialInv, NEW p \in Procs
  PROVE  /\ Fresh(p) /\ Placed(p) /\ Unopened(p)
         /\ pc[p] # "idle" =>
              /\ order(p) \in Orders /\ status[order(p)] \in Statuses /\ Seen(p) \in Statuses
              /\ Settled(order(p))
         /\ tx[p].status = None => Seen(p) = status[order(p)]
<1> QED BY Working, SeenStatus DEF SerialInv, IInv, Good, Seen

\* Payment: the PAID update acts on the PENDING its check has read.
LEMMA PaymentSerial ==
  ASSUME SerialInv, NEW p \in Procs, IInv', Serial', PaymentStep(p)
  PROVE  SerialStep
<1>1. {"markPaid", "setPaid", "commit"} \subseteq Labels /\ "purchase" \in LedgerKeys /\ "PAID" \in Statuses
  BY DEF Labels, LedgerKeys, Statuses
<1>2. CASE DebitPurchase(p)
  <2>1. pc[p] = "debit" /\ Book(p, "purchase", "markPaid")
    BY <1>2 DEF DebitPurchase, At
  <2>2. Entered(p, "purchase", "markPaid") => Fresh(p)'
    BY <2>1, AtWork, NoneAssumption DEF Entered, LocalStep, Placed, Fresh, WritesNothingYet,
       Delivering, order,
       Statuses
  <2> QED BY <1>1, <2>1, <2>2, BookSerial
<1>3. CASE DebitRefused(p)
  BY <1>3, LeaveSerial DEF DebitRefused
<1>4. CASE MarkPaid(p) /\ Seen(p) \in PaidAlready
  <2>1. pc[p] = "markPaid" /\ Proceed(p, "commit")
    BY <1>4 DEF MarkPaid, At
  <2>2. Moved(p, "commit") => Fresh(p)'
    BY <2>1, AtWork, NoneAssumption DEF Moved, LocalStep, Placed, Fresh, WritesNothingYet,
       Delivering, order,
       Statuses
  <2> QED BY <1>1, <2>1, <2>2, ProceedSerial
<1>5. CASE MarkPaid(p) /\ Seen(p) \notin PaidAlready
  <2>1. pc[p] = "markPaid" /\ Check(p, "PAID", "setPaid")
    BY <1>5 DEF MarkPaid, At
  <2>2. Allowed(Seen(p), "PAID") => status[order(p)] = "PENDING"
    BY <2>1, AtWork, EdgesInto DEF Placed, Fresh, WritesNothingYet
  <2>3. Allowed(Seen(p), "PAID") /\ Moved(p, "setPaid") => Fresh(p)'
    BY <2>1, <2>2, AtWork, NoneAssumption DEF Moved, LocalStep, Placed, Fresh, WritesNothingYet,
       Delivering,
       order, Statuses
  <2> QED BY <1>1, <2>1, <2>3, CheckSerial
<1>6. CASE SetPaid(p)
  <2> DEFINE t == [tx[p] EXCEPT !.status = "PAID", !.paid = TRUE]
  <2>1. t \in Transactions /\ tx' = [tx EXCEPT ![p] = t] /\ TypeOK
    BY <1>6 DEF SetPaid, SerialInv, IInv, TypeOK, Transactions, Statuses
  <2>2. t.status = "PAID" /\ t.keys = tx[p].keys
    BY DEF SerialInv, IInv, TypeOK, Transactions
  <2> HIDE DEF t
  <2>3. LocalStep(p) /\ pc[p] = "setPaid" /\ pc'[p] = "commit" /\ job'[p] = job[p] /\ tx'[p] = t
    BY <1>6, <2>1 DEF SetPaid, At, Goto, LocalStep, TypeOK, Same, rows, Labels
  <2>4. Fresh(p)'
    BY <2>2, <2>3, AtWork, NoneAssumption DEF LocalStep, Placed, Fresh, WritesNothingYet,
       Delivering, order,
       Statuses
  <2> QED BY <2>3, <2>4, LocalSerial
<1> QED BY <1>2, <1>3, <1>4, <1>5, <1>6 DEF PaymentStep

\* deliver()'s reads and checks, and the dispatch of an order that is DELIVERING.
LEMMA ReadSerial ==
  ASSUME SerialInv, NEW p \in Procs, IInv', Serial',
         ReadOrder(p) \/ MarkDelivering(p) \/ Dispatch(p) \/ MarkDelivered(p) \/ StatementFails(p)
  PROVE  SerialStep
<1>1. /\ {"markDelivering", "dispatch", "markDelivered", "setDelivering", "findItem", "supplier",
          "setDelivered"} \subseteq Labels
      /\ {"DELIVERING", "DELIVERED"} \subseteq Statuses /\ Texts \subseteq Goods
  BY DEF Labels, Statuses, Goods
<1>2. CASE ReadOrder(p)
  <2>1. pc[p] = "read" /\ (Proceed(p, "markDelivering") \/ Leave(p))
    BY <1>2 DEF ReadOrder, At
  <2>2. Moved(p, "markDelivering") => Fresh(p)'
    BY <2>1, AtWork, NoneAssumption DEF Moved, LocalStep, Placed, Fresh, WritesNothingYet,
       Delivering, order,
       Statuses
  <2> QED BY <1>1, <2>1, <2>2, ProceedSerial, LeaveSerial
<1>3. CASE MarkDelivering(p)
  <2> DEFINE next == IF job[p].op = "fulfil" THEN "dispatch" ELSE "markDelivered"
  <2>1. pc[p] = "markDelivering" /\ tx[p].status = None /\ Seen(p) = status[order(p)] /\ next \in Labels
    BY <1>1, <1>3, AtWork DEF MarkDelivering, At, Placed, Fresh, WritesNothingYet
  <2>2. CASE Seen(p) = "DELIVERING" /\ Proceed(p, next)
    <3>1. Moved(p, next) => Fresh(p)'
      BY <2>1, <2>2, AtWork, NoneAssumption DEF Moved, LocalStep, Placed, Fresh, WritesNothingYet,
         Delivering,
         order, Statuses
    <3> QED BY <2>1, <2>2, <3>1, ProceedSerial
  <2>3. CASE Check(p, "DELIVERING", "setDelivering")
    <3>1. Allowed(Seen(p), "DELIVERING") => status[order(p)] = "PAID"
      BY <2>1, AtWork, EdgesInto
    <3>2. Allowed(Seen(p), "DELIVERING") /\ Moved(p, "setDelivering") => Fresh(p)'
      BY <2>1, <3>1, AtWork, NoneAssumption DEF Moved, LocalStep, Placed, Fresh, WritesNothingYet,
         Delivering,
         order, Statuses
    <3> QED BY <1>1, <2>3, <3>2, CheckSerial
  <2> QED BY <1>3, <2>2, <2>3 DEF MarkDelivering
<1>4. CASE Dispatch(p)
  <2>1. pc[p] = "dispatch"
    BY <1>4 DEF Dispatch, At
  <2>2. \A label \in {"findItem", "supplier"} : Moved(p, label) => Fresh(p)'
    BY <2>1, AtWork, NoneAssumption DEF Moved, LocalStep, Placed, Fresh, WritesNothingYet,
       Delivering, order,
       Statuses
  <2>3. \A t \in Texts : Held(p, t, "markDelivered") => Fresh(p)'
    BY <2>1, AtWork, NoneAssumption DEF Held, LocalStep, Placed, Fresh, WritesNothingYet,
       Delivering, order,
       Statuses
  <2>4. CASE Proceed(p, "findItem")
    BY <1>1, <2>2, <2>4, ProceedSerial
  <2>5. CASE Proceed(p, "supplier")
    BY <1>1, <2>2, <2>5, ProceedSerial
  <2>6. ASSUME NEW t \in Texts, Hold(p, t, "markDelivered") PROVE SerialStep
    BY <1>1, <2>3, <2>6, HoldSerial
  <2>7. CASE Leave(p)
    BY <2>7, LeaveSerial
  <2> QED BY <1>4, <2>4, <2>5, <2>6, <2>7 DEF Dispatch
<1>5. CASE MarkDelivered(p)
  <2>1. pc[p] = "markDelivered" /\ Check(p, "DELIVERED", "setDelivered")
    BY <1>5 DEF MarkDelivered, At
  <2>2. Allowed(Seen(p), "DELIVERED") => tx[p].status = "DELIVERING" \/ status[order(p)] = "DELIVERING"
    BY <2>1, AtWork, EdgesInto DEF Fresh
  <2>3. Allowed(Seen(p), "DELIVERED") /\ Moved(p, "setDelivered") => Fresh(p)'
    BY <2>1, <2>2, AtWork, NoneAssumption DEF Moved, LocalStep, Placed, Fresh, WritesNothingYet,
       Delivering,
       order, Statuses
  <2> QED BY <1>1, <2>1, <2>3, CheckSerial
<1>6. CASE StatementFails(p)
  BY <1>6, LeaveSerial DEF StatementFails
<1> QED BY <1>2, <1>3, <1>4, <1>5, <1>6

\* The pool: the order stays DELIVERING while an item is found, claimed and bound.
LEMMA PoolSerial ==
  ASSUME SerialInv, NEW p \in Procs, IInv', Serial', PoolStep(p)
  PROVE  SerialStep
<1>1. /\ {"markDelivered", "claimItem", "bindItem"} \subseteq Labels /\ Items \subseteq Goods /\ TypeOK
      /\ TypeOK'
  BY DEF Labels, Goods, SerialInv, IInv
<1>2. CASE FindItem(p)
  <2>1. pc[p] = "findItem"
    BY <1>2 DEF FindItem, At
  <2>2. Moved(p, "claimItem") => Fresh(p)'
    BY <2>1, AtWork, NoneAssumption DEF Moved, LocalStep, Placed, Fresh, WritesNothingYet,
       Delivering, order,
       Statuses
  <2>3. \A i \in Items : Held(p, i, "markDelivered") => Fresh(p)'
    BY <2>1, AtWork, NoneAssumption DEF Held, LocalStep, Placed, Fresh, WritesNothingYet,
       Delivering, order,
       Statuses
  <2>4. CASE Proceed(p, "claimItem")
    BY <1>1, <2>2, <2>4, ProceedSerial
  <2>5. ASSUME NEW i \in Items, Hold(p, i, "markDelivered") PROVE SerialStep
    BY <1>1, <2>3, <2>5, HoldSerial
  <2> QED BY <1>2, <2>4, <2>5 DEF FindItem
<1>3. CASE DeliveryFails(p)
  BY <1>3, LeaveSerial
<1>4. ASSUME NEW i \in Items, pc[p] = "claimItem", tx' = [tx EXCEPT ![p].item = i],
             Goto(p, "bindItem"), UNCHANGED <<terms, rows, job, tries>>
      PROVE  SerialStep
  <2>1. tx'[p] = [tx[p] EXCEPT !.item = i]
    BY <1>1, <1>4 DEF TypeOK
  <2>2. tx'[p].status = tx[p].status /\ tx'[p].keys = tx[p].keys
    BY <1>1, <2>1 DEF TypeOK, Transactions
  <2>3. LocalStep(p) /\ pc'[p] = "bindItem" /\ job'[p] = job[p]
    BY <1>1, <1>4 DEF Goto, LocalStep, TypeOK, Same, rows
  <2>4. Fresh(p)'
    BY <1>4, <2>2, <2>3, AtWork, NoneAssumption DEF LocalStep, Placed, Fresh, WritesNothingYet,
       Delivering,
       order, Statuses
  <2> QED BY <2>3, <2>4, LocalSerial
<1>5. ASSUME pc[p] = "bindItem", tx' = [tx EXCEPT ![p].bound = TRUE],
             job' = [job EXCEPT ![p].good = tx[p].item], Goto(p, "markDelivered"),
             UNCHANGED <<terms, rows, tries>>
      PROVE  SerialStep
  <2>1. tx'[p] = [tx[p] EXCEPT !.bound = TRUE] /\ job'[p] = [job[p] EXCEPT !.good = tx[p].item]
    BY <1>1, <1>5 DEF TypeOK
  <2>2. /\ tx'[p].status = tx[p].status /\ tx'[p].keys = tx[p].keys
        /\ job'[p].op = job[p].op /\ job'[p].order = job[p].order
    BY <1>1, <2>1 DEF TypeOK, Transactions, Jobs
  <2>3. LocalStep(p) /\ pc'[p] = "markDelivered"
    BY <1>1, <1>5 DEF Goto, LocalStep, TypeOK, Same, rows
  <2>4. Fresh(p)'
    BY <1>5, <2>2, <2>3, AtWork, NoneAssumption DEF LocalStep, Placed, Fresh, WritesNothingYet,
       Delivering,
       order, Statuses
  <2> QED BY <2>3, <2>4, LocalSerial
<1>6. ClaimItem(p) => SerialStep
  BY <1>3, <1>4 DEF ClaimItem, At
<1>7. BindItem(p) => SerialStep
  BY <1>3, <1>5 DEF BindItem, At
<1> QED BY <1>2, <1>6, <1>7 DEF PoolStep

\* The supplier: the order is DELIVERING when its last attempt fails.
LEMMA SupplierSerial ==
  ASSUME SerialInv, NEW p \in Procs, IInv', Serial', SupplierStep(p)
  PROVE  SerialStep
<1>1. /\ {"markDelivered", "markFailed", "supplier"} \subseteq Labels /\ Texts \subseteq Goods
      /\ TypeOK /\ TypeOK'
  BY DEF Labels, Goods, SerialInv, IInv
<1>2. CASE SupplierAnswers(p)
  <2>1. pc[p] = "supplier"
    BY <1>2 DEF SupplierAnswers, At
  <2>2. \A t \in Texts : Held(p, t, "markDelivered") => Fresh(p)'
    BY <2>1, AtWork, NoneAssumption DEF Held, LocalStep, Placed, Fresh, WritesNothingYet,
       Delivering, order,
       Statuses
  <2>3. ASSUME NEW t \in Texts, Hold(p, t, "markDelivered") PROVE SerialStep
    BY <1>1, <2>2, <2>3, HoldSerial
  <2> QED BY <1>2, <2>3 DEF SupplierAnswers
<1>3. CASE SupplierFails(p)
  <2>1. /\ job[p].op = "fulfil" /\ kind(p) # "pool"
        /\ pc[p] \in {"supplier", "markDelivered", "setDelivered"}
    BY <1>3 DEF SupplierFails, Supplied
  <2>2. tx[p] = NoTx
    BY <2>1, AtWork DEF Unopened
  <2>3. job'[p] = [job[p] EXCEPT !.good = None] /\ tx' = tx
    BY <1>1, <1>3 DEF SupplierFails, TypeOK
  <2>4. job'[p].op = "fulfil" /\ job'[p].order = job[p].order
    BY <1>1, <2>1, <2>3 DEF TypeOK, Jobs
  <2>5. LocalStep(p) /\ pc'[p] \in {"markFailed", "supplier"}
    BY <1>1, <1>3 DEF SupplierFails, Goto, LocalStep, TypeOK, Same, rows
  <2>6. Fresh(p)'
    BY <2>1, <2>2, <2>3, <2>4, <2>5, AtWork, NoneAssumption DEF LocalStep, NoTx, Placed, Fresh,
       WritesNothingYet, Delivering, order, Statuses, InFlight
  <2> QED BY <2>5, <2>6, LocalSerial
<1>4. CASE SupplierMissing(p)
  <2>1. pc[p] = "supplier" /\ Proceed(p, "markFailed")
    BY <1>4 DEF SupplierMissing, At
  <2>2. Moved(p, "markFailed") => Fresh(p)'
    BY <2>1, AtWork, NoneAssumption DEF Moved, LocalStep, Placed, Fresh, WritesNothingYet,
       Delivering, order,
       Statuses, InFlight
  <2> QED BY <1>1, <2>1, <2>2, ProceedSerial
<1>5. CASE BreakerOpen(p)
  BY <1>5, LeaveSerial DEF BreakerOpen
<1> QED BY <1>2, <1>3, <1>4, <1>5 DEF SupplierStep

\* The settlement: only an order still in flight is failed and paid back.
LEMMA SettleSerial ==
  ASSUME SerialInv, NEW p \in Procs, IInv', Serial', SettleStep(p)
  PROVE  SerialStep
<1>1. /\ {"markFailed", "setFailed", "creditBack", "commit"} \subseteq Labels /\ "FAILED" \in Statuses
      /\ "autoRefund" \in LedgerKeys
  BY DEF Labels, Statuses, LedgerKeys
<1>2. CASE Settle(p)
  <2>1. pc[p] = "settle"
    BY <1>2 DEF Settle, At
  <2>2. status[order(p)] \in InFlight /\ Moved(p, "markFailed") => Fresh(p)'
    BY <2>1, AtWork, NoneAssumption DEF Moved, LocalStep, Placed, Fresh, WritesNothingYet,
       Delivering, order,
       Statuses
  <2>3. CASE status[order(p)] \in InFlight /\ Proceed(p, "markFailed")
    BY <1>1, <2>2, <2>3, ProceedSerial
  <2>4. CASE Leave(p)
    BY <2>4, LeaveSerial
  <2> QED BY <1>2, <2>3, <2>4 DEF Settle
<1>3. CASE MarkFailed(p)
  <2>1. pc[p] = "markFailed" /\ Check(p, "FAILED", "setFailed")
    BY <1>3 DEF MarkFailed, At
  <2>2. Moved(p, "setFailed") => Fresh(p)'
    BY <2>1, AtWork, NoneAssumption DEF Moved, LocalStep, Placed, Fresh, WritesNothingYet,
       Delivering, order,
       Statuses
  <2> QED BY <1>1, <2>1, <2>2, CheckSerial
<1>4. CASE SetFailed(p)
  <2> DEFINE next == IF rail(p) = "free" THEN "commit" ELSE "creditBack"
  <2>1. pc[p] = "setFailed" /\ Write(p, "FAILED", next) /\ next \in {"commit", "creditBack"}
    BY <1>4 DEF SetFailed, At
  <2> HIDE DEF next
  <2>2. Wrote(p, "FAILED", next) => Fresh(p)'
    BY <2>1, AtWork, NoneAssumption DEF Wrote, LocalStep, Placed, Fresh, WritesNothingYet,
       Delivering, order,
       Statuses
  <2> QED BY <1>1, <2>1, <2>2, WriteSerial
<1>5. CASE CreditBack(p)
  <2>1. pc[p] = "creditBack" /\ Book(p, "autoRefund", "commit")
    BY <1>5 DEF CreditBack, At
  <2>2. Entered(p, "autoRefund", "commit") => Fresh(p)'
    BY <2>1, AtWork, NoneAssumption DEF Entered, LocalStep, Placed, Fresh, WritesNothingYet,
       Delivering, order,
       Statuses
  <2> QED BY <1>1, <2>1, <2>2, BookSerial
<1> QED BY <1>2, <1>3, <1>4, <1>5 DEF SettleStep

\* Expiry: the EXPIRED update acts on the PENDING its check has read.
LEMMA ExpirySerial ==
  ASSUME SerialInv, NEW p \in Procs, IInv', Serial', ExpiryStep(p)
  PROVE  SerialStep
<1>1. {"setExpired", "commit"} \subseteq Labels /\ "EXPIRED" \in Statuses
  BY DEF Labels, Statuses
<1>2. CASE MarkExpired(p)
  <2>1. pc[p] = "markExpired" /\ Check(p, "EXPIRED", "setExpired")
    BY <1>2 DEF MarkExpired, At
  <2>2. Allowed(Seen(p), "EXPIRED") => status[order(p)] = "PENDING"
    BY <2>1, AtWork, EdgesInto DEF Placed, Fresh, WritesNothingYet
  <2>3. Allowed(Seen(p), "EXPIRED") /\ Moved(p, "setExpired") => Fresh(p)'
    BY <2>1, <2>2, AtWork, NoneAssumption DEF Moved, LocalStep, Placed, Fresh, WritesNothingYet,
       Delivering,
       order, Statuses
  <2> QED BY <1>1, <2>1, <2>3, CheckSerial
<1>3. CASE SetExpired(p)
  <2>1. pc[p] = "setExpired" /\ Write(p, "EXPIRED", "commit")
    BY <1>3 DEF SetExpired, At
  <2>2. Wrote(p, "EXPIRED", "commit") => Fresh(p)'
    BY <2>1, AtWork, NoneAssumption DEF Wrote, LocalStep, Placed, Fresh, WritesNothingYet,
       Delivering, order,
       Statuses
  <2> QED BY <1>1, <2>1, <2>2, WriteSerial
<1> QED BY <1>2, <1>3 DEF ExpiryStep

\* The refund: the sum of earlier refunds is still what it was at the credit.
LEMMA RefundSerial ==
  ASSUME SerialInv, NEW p \in Procs, IInv', Serial', RefundStep(p)
  PROVE  SerialStep
<1>1. /\ {"sumRefunds", "creditRefund", "setRefunded", "commit"} \subseteq Labels
      /\ "REFUNDED" \in Statuses /\ "refund" \in LedgerKeys
  BY DEF Labels, Statuses, LedgerKeys
<1>2. CASE MarkRefunded(p)
  <2>1. pc[p] = "markRefunded" /\ Check(p, "REFUNDED", "sumRefunds")
    BY <1>2 DEF MarkRefunded, At
  <2>2. Allowed(Seen(p), "REFUNDED") => CanRefund(status[order(p)])
    BY <2>1, AtWork DEF Placed, Fresh, WritesNothingYet, CanRefund
  <2>3. Allowed(Seen(p), "REFUNDED") /\ Moved(p, "sumRefunds") => Fresh(p)'
    BY <2>1, <2>2, AtWork, NoneAssumption DEF Moved, LocalStep, Placed, Fresh, WritesNothingYet,
       Delivering,
       order, Statuses
  <2> QED BY <1>1, <2>1, <2>3, CheckSerial
<1>3. CASE SumRefunds(p)
  <2>1. /\ pc[p] = "sumRefunds"
        /\ \/ Proceed(p, "setRefunded")
           \/ ledger[order(p)] \cap Refunds = {} /\ Proceed(p, "creditRefund")
    BY <1>3 DEF SumRefunds, At
  <2>2. Moved(p, "setRefunded") => Fresh(p)'
    BY <2>1, AtWork, NoneAssumption DEF Moved, LocalStep, Placed, Fresh, WritesNothingYet,
       Delivering, order,
       Statuses
  <2>3. ledger[order(p)] \cap Refunds = {} /\ Moved(p, "creditRefund") => Fresh(p)'
    BY <2>1, AtWork, NoneAssumption DEF Moved, LocalStep, Placed, Fresh, WritesNothingYet,
       Delivering, order,
       Statuses
  <2>4. CASE Proceed(p, "setRefunded")
    BY <1>1, <2>2, <2>4, ProceedSerial
  <2>5. CASE ledger[order(p)] \cap Refunds = {} /\ Proceed(p, "creditRefund")
    BY <1>1, <2>3, <2>5, ProceedSerial
  <2> QED BY <2>1, <2>4, <2>5
<1>4. CASE CreditRefund(p)
  <2>1. pc[p] = "creditRefund" /\ Book(p, "refund", "setRefunded")
    BY <1>4 DEF CreditRefund, At
  <2>2. Entered(p, "refund", "setRefunded") => Fresh(p)'
    BY <2>1, AtWork, NoneAssumption DEF Entered, LocalStep, Placed, Fresh, WritesNothingYet,
       Delivering, order,
       Statuses
  <2> QED BY <1>1, <2>1, <2>2, BookSerial
<1>5. CASE SetRefunded(p)
  <2>1. pc[p] = "setRefunded" /\ Write(p, "REFUNDED", "commit")
    BY <1>5 DEF SetRefunded, At
  <2>2. Wrote(p, "REFUNDED", "commit") => Fresh(p)'
    BY <2>1, AtWork, NoneAssumption DEF Wrote, LocalStep, Placed, Fresh, WritesNothingYet,
       Delivering, order,
       Statuses
  <2> QED BY <1>1, <2>1, <2>2, WriteSerial
<1> QED BY <1>2, <1>3, <1>4, <1>5 DEF RefundStep

\* The operator's payload is in hand, nothing is written yet.
LEMMA ReadManualSerial ==
  ASSUME SerialInv, NEW p \in Procs, IInv', Serial', ReadManual(p)
  PROVE  SerialStep
<1>1. pc[p] = "readManual" /\ "markDelivering" \in Labels /\ Texts \subseteq Goods
  BY DEF ReadManual, At, Labels, Goods
<1>2. \A t \in Texts : Held(p, t, "markDelivering") => Fresh(p)'
  BY <1>1, AtWork, NoneAssumption DEF Held, LocalStep, Placed, Fresh, WritesNothingYet, Delivering,
     order,
     Statuses
<1>3. ASSUME NEW t \in Texts, Hold(p, t, "markDelivering") PROVE SerialStep
  BY <1>1, <1>2, <1>3, HoldSerial
<1>4. CASE Leave(p)
  BY <1>4, LeaveSerial
<1> QED BY <1>3, <1>4 DEF ReadManual

-----------------------------------------------------------------------------
(* The steps that commit.                                                  *)

\* A commit owes its handler's part, and what it makes of its order.
LEMMA CommittingSerial ==
  ASSUME SerialInv, NEW p \in Procs, IInv', Serial', Fresh(p)', order(p) \in Orders,
         \A q \in Procs \ {p} : Same(q),
         \A o \in Orders \ {order(p)} :
           /\ status'[o] = status[o] /\ ledger'[o] = ledger[o]
           /\ paidAt'[o] = paidAt[o] /\ payload'[o] = payload[o],
         NEW w, w = order(p), Settled(w)',
         \/ status'[w] = status[w]
         \/ Allowed(status[w], status'[w])
         \/ status[w] = "PAID" /\ status'[w] = "DELIVERED",
         payload[w] # None => payload'[w] = payload[w]
  PROVE  SerialStep
<1>1. \A o \in Orders : o = order(p) => Settled(o)'
  OBVIOUS
<1>2. SerialInv'
  BY <1>1, OneHandler
<1> QED BY <1>2 DEF SerialStep, GraphStep, PayloadKept

\* markDelivering(), on its own in deliver(): from PAID, so nothing was given or paid back.
LEMMA SetDeliveringSerial ==
  ASSUME SerialInv, NEW p \in Procs, IInv', Serial', SetDelivering(p)
  PROVE  SerialStep
<1>1. /\ pc[p] = "setDelivering" /\ order(p) \in Orders /\ status[order(p)] = "PAID" /\ TypeOK
      /\ "markDelivered" \in Labels /\ "DELIVERING" \in Statuses
  BY AtWork DEF SetDelivering, At, Fresh, SerialInv, IInv, Labels, Statuses
<1>2. CASE job[p].op = "fulfil"
  <2>1. /\ status' = [status EXCEPT ![order(p)] = "DELIVERING"]
        /\ pc' = [pc EXCEPT ![p] = "dispatch"]
        /\ UNCHANGED <<terms, paidAt, payload, owner, ledger, job, tries, tx>>
    BY <1>2 DEF SetDelivering, Goto
  <2>2. tx[p] = NoTx
    BY <1>1, <1>2, AtWork DEF Unopened
  <2>3. PICK o \in Orders : o = order(p)
    BY <1>1
  <2>4. /\ status'[o] = "DELIVERING" /\ pc'[p] = "dispatch"
        /\ \A q \in Procs \ {p} : Same(q)
        /\ \A r \in Orders \ {order(p)} : status'[r] = status[r]
    BY <1>1, <2>1, <2>3 DEF TypeOK, Same
  <2>5. Fresh(p)'
    BY <1>2, <2>1, <2>2, <2>3, <2>4, NoneAssumption DEF NoTx, Fresh, WritesNothingYet, Delivering,
       order,
       Statuses
  <2>6. Settled(o)'
    BY <1>1, <2>1, <2>3, <2>4, AtWork DEF Settled
  <2>7. Allowed(status[o], status'[o])
    BY <1>1, <2>3, <2>4 DEF Allowed, AllowedTransitions
  <2> QED BY <1>1, <2>1, <2>3, <2>4, <2>5, <2>6, <2>7, CommittingSerial
<1>3. CASE job[p].op # "fulfil"
  <2>1. Write(p, "DELIVERING", "markDelivered")
    BY <1>3 DEF SetDelivering
  <2>2. Wrote(p, "DELIVERING", "markDelivered") => Fresh(p)'
    BY <1>1, <1>3, AtWork, NoneAssumption DEF Wrote, LocalStep, Placed, Fresh, WritesNothingYet,
       Delivering,
       order, Statuses
  <2> QED BY <1>1, <2>1, <2>2, WriteSerial
<1> QED BY <1>2, <1>3

\* markDelivered() on its own: from DELIVERING, so there is no payload to replace.
LEMMA SetDeliveredSerial ==
  ASSUME SerialInv, NEW p \in Procs, IInv', Serial', SetDelivered(p)
  PROVE  SerialStep
<1>1. /\ pc[p] = "setDelivered" /\ order(p) \in Orders /\ TypeOK /\ TypeOK'
      /\ tx[p].status = "DELIVERING" \/ status[order(p)] = "DELIVERING"
      /\ tx[p].status = "DELIVERING" => status[order(p)] = "PAID"
  BY AtWork DEF SetDelivered, At, Fresh, SerialInv, IInv
<1>2. CASE InTransaction(p)
  <2>1. /\ tx' = [tx EXCEPT ![p].status = "DELIVERED", ![p].good = job[p].good]
        /\ Goto(p, "commit") /\ UNCHANGED <<terms, rows, job, tries>>
    BY <1>2 DEF SetDelivered
  <2>2. tx'[p] = [tx[p] EXCEPT !.status = "DELIVERED", !.good = job[p].good]
    BY <1>1, <2>1 DEF TypeOK
  <2>3. tx'[p].status = "DELIVERED" /\ tx'[p].keys = tx[p].keys
    BY <1>1, <2>2 DEF TypeOK, Transactions
  <2>4. LocalStep(p) /\ pc'[p] = "commit" /\ job'[p] = job[p]
    BY <1>1, <2>1 DEF Goto, LocalStep, TypeOK, Same, rows
  <2>5. Fresh(p)'
    BY <1>1, <2>3, <2>4, AtWork, NoneAssumption DEF LocalStep, Placed, Fresh, WritesNothingYet,
       Delivering,
       order, Statuses, InFlight
  <2> QED BY <2>4, <2>5, LocalSerial
<1>3. CASE ~InTransaction(p)
  <2>1. /\ status' = [status EXCEPT ![order(p)] = "DELIVERED"]
        /\ payload' = [payload EXCEPT ![order(p)] = job[p].good]
        /\ pc' = [pc EXCEPT ![p] = "idle"] /\ job' = [job EXCEPT ![p] = NoJob]
        /\ UNCHANGED <<terms, paidAt, owner, ledger, tx>>
    BY <1>3 DEF SetDelivered, Goto
  <2>2. tx[p] = NoTx /\ status[order(p)] = "DELIVERING"
    <3>1. tx[p] = NoTx
      BY <1>1, <1>3, AtWork DEF Unopened, InTransaction
    <3>2. tx[p].status # "DELIVERING"
      BY <3>1, NoneAssumption DEF NoTx, Statuses
    <3> QED BY <1>1, <3>1, <3>2
  <2>3. PICK o \in Orders : o = order(p)
    BY <1>1
  <2>4. /\ status'[o] = "DELIVERED" /\ pc'[p] = "idle" /\ tx'[p] = NoTx
        /\ \A q \in Procs \ {p} : Same(q)
        /\ \A r \in Orders \ {order(p)} : status'[r] = status[r] /\ payload'[r] = payload[r]
    BY <1>1, <2>1, <2>2, <2>3 DEF TypeOK, Same
  <2>5. Fresh(p)'
    BY <2>4, QuietIsFresh DEF Quiet
  <2>6. payload[o] = None /\ ledger[o] \cap Refunds = {}
    BY <1>1, <2>2, <2>3, AtWork DEF Settled, Refunds
  <2>7. Settled(o)'
    BY <2>1, <2>4, <2>6 DEF Settled, Refunds
  <2>8. Allowed(status[o], status'[o])
    BY <2>2, <2>3, <2>4 DEF Allowed, AllowedTransitions
  <2> QED BY <1>1, <2>1, <2>3, <2>4, <2>5, <2>6, <2>7, <2>8, CommittingSerial
<1> QED BY <1>2, <1>3

\* What a commit writes is decided on what its handler has read.
LEMMA CommitSerial ==
  ASSUME SerialInv, NEW p \in Procs, IInv', Serial', Commit(p)
  PROVE  SerialStep
<1>1. /\ pc[p] = "commit" /\ Good(p) /\ order(p) \in Orders /\ Committed(p) /\ tx[p] \in Transactions
      /\ TypeOK
  BY AtCommit DEF SerialInv, IInv
<1>2. \A q \in Procs \ {p} : Same(q)
  BY CommitTypes DEF SerialInv
<1>3. tx'[p] = NoTx /\ pc'[p] \in Quiet
  BY <1>1 DEF Commit, Goto, AfterCommit, TypeOK, Quiet
<1>4. Fresh(p)'
  BY <1>3, QuietIsFresh
<1>5. PICK o \in Orders : o = order(p)
  BY <1>1
<1>6. PICK w : w = tx[p].status
  OBVIOUS
<1>7. /\ status'[o] = IF w # None THEN w ELSE status[o]
      /\ paidAt'[o] = (paidAt[o] \/ tx[p].paid)
      /\ payload'[o] = IF tx[p].good # None THEN tx[p].good ELSE payload[o]
      /\ ledger'[o] = ledger[o] \cup tx[p].keys
      /\ \A r \in Orders \ {order(p)} :
           /\ status'[r] = status[r] /\ ledger'[r] = ledger[r]
           /\ paidAt'[r] = paidAt[r] /\ payload'[r] = payload[r]
  BY <1>1, <1>5, <1>6 DEF Committed, TypeOK
<1>8. /\ w \in Statuses \cup {None} /\ w # "PENDING" /\ status[o] \in Statuses
      /\ w \in {"PAID", "EXPIRED"} => status[o] = "PENDING"
      /\ w = "DELIVERING" => status[o] = "PAID"
      /\ w \in {"DELIVERED", "FAILED"} => status[o] \in InFlight
      /\ w = "REFUNDED" => CanRefund(status[o])
      /\ "refund" \in tx[p].keys => ledger[o] \cap Refunds = {} /\ w = "REFUNDED"
      /\ "autoRefund" \in tx[p].keys => w = "FAILED"
  BY <1>1, <1>5, <1>6, AtWork DEF Fresh, Transactions
<1>9. /\ tx[p].paid <=> w = "PAID"
      /\ tx[p].good # None => w = "DELIVERED"
  BY <1>1, <1>6 DEF Good, PaymentCovered, Holding
<1>10. Settled(o)
  BY DEF SerialInv
<1>11. \/ status'[o] = status[o]
       \/ Allowed(status[o], status'[o])
       \/ status[o] = "PAID" /\ status'[o] = "DELIVERED"
  BY <1>7, <1>8, EdgesInto DEF InFlight, CanRefund, Statuses
<1>12. payload[o] # None => payload'[o] = payload[o]
  BY <1>7, <1>8, <1>9, <1>10 DEF Settled, InFlight
<1>13. Settled(o)'
  <2>1. paidAt'[o] => status'[o] \notin {"PENDING", "EXPIRED"}
    BY <1>7, <1>8, <1>9, <1>10, NoneAssumption DEF Settled, Statuses
  <2>2. payload'[o] # None => status'[o] \in {"DELIVERED", "REFUNDED"}
    BY <1>7, <1>8, <1>9, <1>10, NoneAssumption DEF Settled, InFlight, Statuses
  <2>3. CanRefund(status[o]) => status[o] # "REFUNDED"
    BY <1>8, EdgesInto DEF InFlight
  <2>4. "refund" \in ledger'[o] => status'[o] = "REFUNDED"
    BY <1>7, <1>8, <1>10, <2>3, NoneAssumption DEF Settled, InFlight, Statuses
  <2>5. "autoRefund" \in ledger'[o] =>
          status'[o] \in {"FAILED", "REFUNDED"} /\ payload'[o] = None /\ "refund" \notin ledger'[o]
    <3>1. CASE "autoRefund" \in ledger[o]
      BY <1>7, <1>8, <1>9, <1>10, <3>1, NoneAssumption DEF Settled, InFlight, Statuses, Refunds
    <3>2. CASE "autoRefund" \notin ledger[o] /\ "autoRefund" \in tx[p].keys
      BY <1>7, <1>8, <1>9, <1>10, <3>2, NoneAssumption DEF Settled, InFlight, Statuses, Refunds
    <3> QED BY <1>7, <3>1, <3>2
  <2> QED BY <2>1, <2>2, <2>4, <2>5 DEF Settled
<1> QED BY <1>1, <1>2, <1>4, <1>5, <1>7, <1>11, <1>12, <1>13, CommittingSerial

-----------------------------------------------------------------------------
(* The invariant of a schedule without overlap, and what follows from it.  *)

\* Every step of a schedule without overlap.
LEMMA NextSerial ==
  ASSUME SerialInv, IInv', Serial', Next
  PROVE  SerialStep
<1>1. PICK p \in Procs :
        \/ \E o \in Orders : Begin(p, o)
        \/ PaymentStep(p) \/ DeliveryStep(p) \/ PoolStep(p) \/ SupplierStep(p)
        \/ SettleStep(p) \/ ExpiryStep(p) \/ RefundStep(p) \/ ReadManual(p)
        \/ Commit(p) \/ Crash(p)
  BY DEF Next
<1>2. CASE DeliveryStep(p)
  BY <1>2, ReadSerial, SetDeliveringSerial, SetDeliveredSerial DEF DeliveryStep
<1>3. CASE Crash(p)
  BY <1>3, LeaveSerial DEF Crash
<1> QED BY <1>1, <1>2, <1>3, BeginSerial, PaymentSerial, PoolSerial, SupplierSerial, SettleSerial,
     ExpirySerial, RefundSerial, ReadManualSerial, CommitSerial

\* At the start nobody works on any order.
LEMMA InitSerial ==
  ASSUME Init
  PROVE  SerialInv
<1>1. \A p \in Procs : pc[p] = "idle" /\ job[p] = NoJob /\ tx[p] = NoTx
  BY DEF Init
<1>2. Serial
  BY <1>1 DEF Serial, order, NoJob
<1>3. \A p \in Procs : Fresh(p)
  BY <1>1, NoneAssumption DEF NoJob, NoTx, Fresh, WritesNothingYet, Delivering, Statuses
<1>4. \A o \in Orders : Settled(o)
  BY DEF Init, Settled
<1> QED BY <1>2, <1>3, <1>4, InitIInv DEF SerialInv

\* A step keeps the invariant and takes only edges of the graph; so does a stutter.
LEMMA SerialKeeps ==
  ASSUME SerialInv, TriesLeft, [Next /\ Serial']_vars
  PROVE  SerialStep /\ TriesLeft'
<1>1. IInv /\ IInv' /\ TriesLeft'
  BY NextKeeps, TriesKeep DEF SerialInv
<1>2. CASE Next /\ Serial'
  BY <1>1, <1>2, NextSerial
<1>3. CASE UNCHANGED vars
  <2>1. UNCHANGED <<terms, status, paidAt, payload, owner, ledger, pc, job, tries, tx>>
    BY <1>3 DEF vars, rows
  <2>2. Serial' /\ \A p \in Procs : Fresh(p)'
    BY <2>1 DEF SerialInv, Serial, order, Fresh, WritesNothingYet, Delivering
  <2>3. \A o \in Orders : Settled(o)'
    BY <2>1 DEF SerialInv, Settled
  <2> QED BY <1>1, <2>1, <2>2, <2>3 DEF SerialInv, SerialStep, GraphStep, PayloadKept
<1> QED BY <1>1, <1>2, <1>3

\* While no two handlers work on one order, what a handler has read of its
\* order still holds when it writes, and between transactions the order's
\* status, money and goods agree, whatever fails and is repeated.
THEOREM SerialInvariant == SerialSpec => [](SerialInv /\ TriesLeft)
<1>1. Init => SerialInv /\ TriesLeft
  BY InitSerial, InitIInv
<1>2. SerialInv /\ TriesLeft /\ [Next /\ Serial']_vars => (SerialInv /\ TriesLeft)'
  BY SerialKeeps DEF SerialStep
<1> QED BY <1>1, <1>2, PTL DEF SerialSpec

\* The automatic refund of a failed delivery and an operator's refund are never
\* both booked for one order.
THEOREM MoneyBackOnce == SerialSpec => []RefundedAtMostOnce
<1>1. ASSUME SerialInv, NEW o \in Orders PROVE Cardinality(ledger[o] \cap Refunds) <= 1
  <2>1. ~({"autoRefund", "refund"} \subseteq ledger[o])
    BY <1>1 DEF SerialInv, Settled
  <2>2. ledger[o] \cap Refunds \in {{}, {"autoRefund"}, {"refund"}}
    BY <2>1 DEF Refunds
  <2>3. Cardinality({}) = 0 /\ \A key : Cardinality({key}) = 1
    BY FS_EmptySet, FS_Singleton
  <2>4. CASE ledger[o] \cap Refunds = {}
    <3>1. Cardinality(ledger[o] \cap Refunds) = 0
      BY <2>3, <2>4
    <3> QED BY <3>1
  <2>5. ASSUME NEW key, ledger[o] \cap Refunds = {key} PROVE Cardinality(ledger[o] \cap Refunds) <= 1
    <3>1. Cardinality(ledger[o] \cap Refunds) = 1
      BY <2>3, <2>5
    <3> QED BY <3>1
  <2> QED BY <2>2, <2>4, <2>5
<1>2. SerialInv => RefundedAtMostOnce
  BY <1>1 DEF RefundedAtMostOnce
<1> QED BY <1>2, SerialInvariant, PTL

\* An order whose failed delivery gave the money back has no goods and has
\* burned no item: a burned item is always on its order as the payload.
THEOREM GoodsOrMoney == SerialSpec => []GoodsOrMoneyBack
<1>1. ASSUME SerialInv, NEW o \in Orders, "autoRefund" \in ledger[o] PROVE ~HasPayload(o)
  <2>1. payload[o] = None
    BY <1>1 DEF SerialInv, Settled
  <2>2. \A i \in Items : owner[i] # o
    BY <1>1, <2>1, NoneAssumption DEF SerialInv, IInv, GoodsInv, BurnedItemIsStored
  <2> QED BY <2>1, <2>2 DEF HasPayload
<1>2. SerialInv => GoodsOrMoneyBack
  BY <1>1 DEF GoodsOrMoneyBack
<1> QED BY <1>2, SerialInvariant, PTL

\* An order that has taken the buyer's money is neither PENDING nor EXPIRED: the
\* charge and paidAt commit together, and the expiry only ends a PENDING order.
THEOREM ChargedIsLive == SerialSpec => []ChargedIsNotExpired
<1>1. ASSUME SerialInv, NEW o \in Orders, Charged(o) PROVE status[o] \notin {"PENDING", "EXPIRED"}
  <2>1. paidAt[o]
    BY <1>1 DEF SerialInv, IInv, MoneyInv, OnlyBalanceDebited, ChargedIffPaid, Charged
  <2> QED BY <1>1, <2>1 DEF SerialInv, Settled
<1>2. SerialInv => ChargedIsNotExpired
  BY <1>1 DEF ChargedIsNotExpired
<1> QED BY <1>2, SerialInvariant, PTL

\* Every committed change of status is an edge of ALLOWED_TRANSITIONS, or the two
\* edges an operator's delivery of a PAID order takes in one transaction.
THEOREM StatusTakesEdges == SerialSpec => StatusFollowsGraph
<1>1. SerialInv /\ TriesLeft /\ [Next /\ Serial']_vars => [GraphStep]_vars
  BY SerialKeeps DEF SerialStep
<1>2. SerialSpec => [][GraphStep]_vars
  BY <1>1, SerialInvariant, PTL DEF SerialSpec
<1> QED BY <1>2 DEF GraphStep, StatusFollowsGraph

\* What the buyer was given is never replaced, by no retry, second minted code
\* or operator's payload.
THEOREM PayloadStays == SerialSpec => PayloadIsFinal
<1>1. SerialInv /\ TriesLeft /\ [Next /\ Serial']_vars => [PayloadKept]_vars
  BY SerialKeeps DEF SerialStep
<1>2. SerialSpec => [][PayloadKept]_vars
  BY <1>1, SerialInvariant, PTL DEF SerialSpec
<1> QED BY <1>2 DEF PayloadKept, PayloadIsFinal
=============================================================================
