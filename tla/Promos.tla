------------------------------- MODULE Promos -------------------------------
(***************************************************************************)
(* One promo code and the orders that use it (createOrder, expireOrder and *)
(* refundOrder of packages/core/src/orders.ts).  A use is claimed when an  *)
(* order is created and given back when the order comes to nothing.        *)
(*                                                                         *)
(* Every handler is one transaction; the UPDATE of the promo's row keeps   *)
(* the row locked to its end.  Handlers that end one order do not overlap  *)
(* here: an unlocked read lets two of them release its use twice, as the   *)
(* run "refunds" of module Fulfillment shows for the money.                *)
(***************************************************************************)
EXTENDS Naturals, FiniteSets

CONSTANTS Shoppers,  \* handlers: of checkouts, of the expiry job, of refunds
          Requests,  \* idempotency keys of orders, and so the orders
          MaxUses,   \* Promo.maxUses
          NoRequest

NoShopper == "none"

\* What the constants are assumed to be.
Constants ==
  /\ MaxUses \in Nat /\ IsFiniteSet(Requests)
  /\ NoRequest \notin Requests /\ NoShopper \notin Shoppers

VARIABLES
  used,     \* Promo.usedCount, committed
  placed,   \* Order.status; "FAILED" is live too, its refund comes later
  holder,   \* the handler that has updated the promo's row, or none
  shopper   \* where a handler stands: its order, and what it has seen and changed

vars == <<used, placed, holder, shopper>>

Live == {"PENDING", "PAID"}
Away == [at |-> "idle", request |-> NoRequest, saw |-> 0, delta |-> 0]

TypeOK ==
  /\ used \in 0 .. Cardinality(Requests)
  /\ placed \in [Requests -> Live \cup {"none", "EXPIRED", "REFUNDED"}]
  /\ holder \in Shoppers \cup {NoShopper}
  /\ shopper \in [Shoppers -> [at : {"idle", "claim", "insert", "release", "close"},
                               request : Requests \cup {NoRequest},
                               saw : 0 .. Cardinality(Requests), delta : {0, 1}]]

Init ==
  /\ used = 0 /\ placed = [k \in Requests |-> "none"]
  /\ holder = NoShopper /\ shopper = [c \in Shoppers |-> Away]

At(c, label) == shopper[c].at = label
request(c) == shopper[c].request
\* The end of a transaction: its changes with it, or none.
Release(c) == holder' = IF holder = c THEN NoShopper ELSE holder
Leave(c) == shopper' = [shopper EXCEPT ![c] = Away] /\ Release(c)

Rollback(c) == ~At(c, "idle") /\ Leave(c) /\ UNCHANGED <<used, placed>>

\* createOrder(): no order of the key yet, and a promo that validates.
FindExisting(c, k) ==
  /\ At(c, "idle") /\ placed[k] = "none" /\ used < MaxUses
  /\ shopper' = [shopper EXCEPT ![c] = [at |-> "claim", request |-> k, saw |-> used, delta |-> 0]]
  /\ UNCHANGED <<used, placed, holder>>

\* Variant: the check of validatePromo() is relied on.
HasUsesAsSeen(c) == shopper[c].saw < MaxUses

\* The condition of the UPDATE, on the row as it is when the lock is had.
HasUses(c) == used < MaxUses

claimPromoUse(c) ==
  /\ At(c, "claim") /\ holder = NoShopper
  /\ IF HasUses(c)
     THEN /\ holder' = c
          /\ shopper' = [shopper EXCEPT ![c].at = "insert", ![c].delta = 1]
     ELSE Leave(c)
  /\ UNCHANGED <<used, placed>>

\* A key that is taken aborts the transaction, and with it the claim: the read
\* of the winner's row fails too.
InsertOrder(c) ==
  LET k == request(c) IN
  /\ At(c, "insert") /\ Leave(c)
  /\ IF placed[k] = "none"
     THEN placed' = [placed EXCEPT ![k] = "PENDING"] /\ used' = used + shopper[c].delta
     ELSE UNCHANGED <<used, placed>>

PayFor(k) ==
  /\ placed[k] = "PENDING" /\ \A c \in Shoppers : request(c) = k => At(c, "claim")
  /\ placed' = [placed EXCEPT ![k] = "PAID"]
  /\ UNCHANGED <<used, holder, shopper>>

\* expireOrder() of a PENDING order, refundOrder() of one that was paid.
FindLive(c, k) ==
  /\ At(c, "idle") /\ placed[k] \in Live
  /\ \A d \in Shoppers : request(d) = k => At(d, "claim") \/ At(d, "insert")
  /\ shopper' = [shopper EXCEPT ![c] = [Away EXCEPT !.at = "release", !.request = k]]
  /\ UNCHANGED <<used, placed, holder>>

releasePromoUse(c) ==
  /\ At(c, "release") /\ holder = NoShopper
  /\ holder' = c
  /\ shopper' = [shopper EXCEPT ![c].at = "close", ![c].delta = IF used > 0 THEN 1 ELSE 0]
  /\ UNCHANGED <<used, placed>>

CloseOrder(c) ==
  LET k == request(c) IN
  /\ At(c, "close") /\ Leave(c)
  /\ placed' = [placed EXCEPT ![k] = IF @ = "PENDING" THEN "EXPIRED" ELSE "REFUNDED"]
  /\ used' = used - shopper[c].delta

Next ==
  \/ \E k \in Requests : PayFor(k)
  \/ \E c \in Shoppers : \/ Rollback(c) \/ claimPromoUse(c) \/ InsertOrder(c)
                         \/ releasePromoUse(c) \/ CloseOrder(c)
                         \/ \E k \in Requests : FindExisting(c, k) \/ FindLive(c, k)

Spec == Init /\ [][Next]_vars

-----------------------------------------------------------------------------
\* The counter is the number of orders that have the discount, and no more of
\* them than the code allows: whoever races for its last use, repeats a key or
\* rolls back (claimPromoUse, releasePromoUse).
UsesAreLiveOrders ==
  /\ used = Cardinality({k \in Requests : placed[k] \in Live})
  /\ used <= MaxUses

=============================================================================
