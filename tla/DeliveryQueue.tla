---------------------------- MODULE DeliveryQueue ----------------------------
(***************************************************************************)
(* Who takes up a paid order: the process that paid it, or a job of the    *)
(* delivery queue (apps/worker/src/queues/delivery.ts, delivery.worker.ts, *)
(* queue.ts), enqueued by the chain scan or by its reconciler.             *)
(*                                                                         *)
(* A job's id is made from the order's, so that there is one job an order, *)
(* finished ones included while they are retained.  The statements of a    *)
(* delivery are those of module Fulfillment; here it has three steps, each *)
(* of which may be the last of a process that dies.                        *)
(***************************************************************************)
EXTENDS Naturals, FiniteSets

CONSTANTS Buys,        \* orders
          Manual,      \* ... that an operator delivers
          Runners,     \* worker slots and handlers of the bot
          Attempts,    \* runs of a job before it is failed
          ShockBound,  \* deaths and errors
          NoBuy

\* What the constants are assumed to be.
Constants ==
  /\ Manual \subseteq Buys /\ NoBuy \notin Buys
  /\ Attempts \in Nat \ {0} /\ ShockBound \in Nat

VARIABLES
  sale,    \* Order.status
  ripe,    \* orders paid longer than two minutes ago
  queued,  \* the job of an order
  runner,  \* what a process is doing
  hit,     \* orders whose run was lost when they were DELIVERING
  shocks   \* deaths and errors so far

vars == <<sale, ripe, queued, runner, hit, shocks>>

NoJob == [is |-> "none", made |-> 0, stalls |-> 0]
Resting == [at |-> "idle", buy |-> NoBuy, job |-> FALSE]

TypeOK ==
  /\ sale \in [Buys -> {"PENDING", "PAID", "DELIVERING", "DELIVERED", "FAILED"}]
  /\ ripe \subseteq Buys /\ hit \subseteq Buys
  /\ queued \in [Buys -> [is : {"none", "waiting", "active", "completed", "failed"},
                          made : 0 .. Attempts, stalls : 0 .. 2]]
  /\ runner \in [Runners -> [at : {"idle", "enqueue", "mark", "deliver", "settle", "throw", "return"},
                             buy : Buys \cup {NoBuy}, job : BOOLEAN]]
  /\ shocks \in 0 .. ShockBound

Init ==
  /\ sale = [o \in Buys |-> "PENDING"] /\ ripe = {} /\ hit = {}
  /\ queued = [o \in Buys |-> NoJob]
  /\ runner = [w \in Runners |-> Resting] /\ shocks = 0

At(w, label) == runner[w].at = label
buy(w) == runner[w].buy
Goto(w, label) == runner' = [runner EXCEPT ![w].at = label]
Rest(w) == runner' = [runner EXCEPT ![w] = Resting]
Mark(w, st) == sale' = [sale EXCEPT ![buy(w)] = st]

\* enqueueDelivery(): adding a job whose id is taken is a no-op.
Enqueued(o) == IF queued[o].is = "none" THEN [queued EXCEPT ![o].is = "waiting"] ELSE queued

-----------------------------------------------------------------------------
\* A payment commits; the bot goes on to deliver, the chain scan to enqueue.
Pay(w, o) ==
  /\ sale[o] = "PENDING" /\ At(w, "idle")
  /\ sale' = [sale EXCEPT ![o] = "PAID"]
  /\ \E label \in {"mark", "enqueue"} :
       runner' = [runner EXCEPT ![w] = [Resting EXCEPT !.at = label, !.buy = o]]
  /\ UNCHANGED <<ripe, queued, hit, shocks>>

enqueueDelivery(w) ==
  /\ At(w, "enqueue") /\ queued' = Enqueued(buy(w)) /\ Rest(w)
  /\ UNCHANGED <<sale, ripe, hit, shocks>>

Ripen(o) ==
  /\ o \notin ripe /\ sale[o] = "PAID" /\ ripe' = ripe \cup {o}
  /\ UNCHANGED <<sale, queued, runner, hit, shocks>>

\* Variant: young orders only, as if the scan looked back two minutes.
StuckYoung(o) == sale[o] = "PAID" /\ o \notin ripe

Stuck(o) == sale[o] = "PAID" /\ o \in ripe

reconcileUndeliveredOrders ==
  /\ \E o \in Buys : Stuck(o) /\ queued[o].is = "none" /\ queued' = Enqueued(o)
  /\ UNCHANGED <<sale, ripe, runner, hit, shocks>>

\* A finished job is removed when its retention is over.
Retire(o) ==
  /\ queued[o].is \in {"completed", "failed"}
  /\ queued' = [queued EXCEPT ![o] = NoJob]
  /\ UNCHANGED <<sale, ripe, runner, hit, shocks>>

Take(w, o) ==
  /\ At(w, "idle") /\ queued[o].is = "waiting"
  /\ queued' = [queued EXCEPT ![o].is = "active"]
  /\ runner' = [runner EXCEPT ![w] = [at |-> "mark", buy |-> o, job |-> TRUE]]
  /\ UNCHANGED <<sale, ripe, hit, shocks>>

-----------------------------------------------------------------------------
(* fulfillOrder                                                            *)

\* deliver(): return what is delivered, refuse what is closed, commit DELIVERING.
markDelivering(w) ==
  /\ At(w, "mark")
  /\ \/ sale[buy(w)] = "DELIVERED" /\ Goto(w, "return") /\ UNCHANGED sale
     \/ sale[buy(w)] = "FAILED" /\ Goto(w, "throw") /\ UNCHANGED sale
     \/ sale[buy(w)] \in {"PAID", "DELIVERING"} /\ Mark(w, "DELIVERING") /\ Goto(w, "deliver")
  /\ UNCHANGED <<ripe, queued, hit, shocks>>

\* Goods, an error of the delivery, or, for a manual product, an operator's turn.
deliverGoods(w) ==
  /\ At(w, "deliver")
  /\ \/ buy(w) \in Manual /\ Goto(w, "return") /\ UNCHANGED sale
     \/ /\ buy(w) \notin Manual /\ sale[buy(w)] # "FAILED"
        /\ Mark(w, "DELIVERED") /\ Goto(w, "return")
     \/ buy(w) \notin Manual /\ sale[buy(w)] = "FAILED" /\ Goto(w, "throw") /\ UNCHANGED sale
     \/ buy(w) \notin Manual /\ Goto(w, "settle") /\ UNCHANGED sale
  /\ UNCHANGED <<ripe, queued, hit, shocks>>

\* An order in flight is FAILED, with its refund; the error is thrown anyway.
settleFailedDelivery(w) ==
  /\ At(w, "settle") /\ Goto(w, "throw")
  /\ IF sale[buy(w)] \in {"PAID", "DELIVERING"} THEN Mark(w, "FAILED") ELSE UNCHANGED sale
  /\ UNCHANGED <<ripe, queued, hit, shocks>>

\* BullMQ's accounting: wait for the next attempt, or fail for good.
Retried(o, used, stalls) ==
  [queued EXCEPT ![o] = [is |-> IF used = Attempts \/ stalls > 1 THEN "failed" ELSE "waiting",
                         made |-> used, stalls |-> stalls]]

Throw(w) ==
  /\ At(w, "throw") /\ Rest(w)
  /\ queued' = IF runner[w].job
               THEN Retried(buy(w), queued[buy(w)].made + 1, queued[buy(w)].stalls) ELSE queued
  /\ UNCHANGED <<sale, ripe, hit, shocks>>

Return(w) ==
  /\ At(w, "return") /\ Rest(w)
  /\ queued' = IF runner[w].job THEN [queued EXCEPT ![buy(w)].is = "completed"] ELSE queued
  /\ UNCHANGED <<sale, ripe, hit, shocks>>

-----------------------------------------------------------------------------
(* Faults                                                                  *)

Shock == shocks < ShockBound /\ shocks' = shocks + 1
Hit(o) == hit' = IF sale[o] = "DELIVERING" THEN hit \cup {o} ELSE hit

\* The database is gone: an attempt ends where it is, and so does its settlement,
\* whose error is only logged.
AttemptFails(w) ==
  /\ Shock /\ runner[w].at \in {"mark", "deliver", "settle"}
  /\ Goto(w, "throw") /\ Hit(buy(w))
  /\ UNCHANGED <<sale, ripe, queued>>

\* A process dies: its job is stalled, and is taken up once more.
Dies(w) ==
  /\ Shock /\ ~At(w, "idle") /\ Rest(w) /\ Hit(buy(w))
  /\ queued' = IF runner[w].job
               THEN Retried(buy(w), queued[buy(w)].made, queued[buy(w)].stalls + 1) ELSE queued
  /\ UNCHANGED <<sale, ripe>>

-----------------------------------------------------------------------------
Work(w) ==
  \/ enqueueDelivery(w) \/ markDelivering(w) \/ deliverGoods(w) \/ settleFailedDelivery(w)
  \/ Throw(w) \/ Return(w)

Next ==
  \/ \E o \in Buys : Ripen(o) \/ Retire(o)
  \/ reconcileUndeliveredOrders
  \/ \E w \in Runners : \/ Work(w) \/ AttemptFails(w) \/ Dies(w)
                        \/ \E o \in Buys : Pay(w, o) \/ Take(w, o)

Spec == Init /\ [][Next]_vars

-----------------------------------------------------------------------------
\* A paid order is delivered, refunded or left to an operator, whoever was to
\* deliver it died, failed or never enqueued it: by its job's attempts, or by
\* the reconciler.  Only a run that is lost in DELIVERING may be nobody's.
Served(o) == sale[o] \in {"DELIVERED", "FAILED"} \/ (o \in Manual /\ sale[o] = "DELIVERING")
PaidIsServed == \A o \in Buys : sale[o] = "PAID" ~> Served(o) \/ o \in hit

=============================================================================
