------------------------------ MODULE Referral ------------------------------
(***************************************************************************)
(* The bonus for a referee's first paid order (packages/core/src/          *)
(* referrals.ts), credited by the bot after a delivery.  It is decided by  *)
(* two reads in one transaction that lock nothing, while other orders of   *)
(* the referee are paid, delivered and refunded.                           *)
(***************************************************************************)
EXTENDS FiniteSets

CONSTANTS Buyouts,    \* orders of one referee
          Creditors,  \* handlers of the bot after a delivery
          NoBuyout

\* What the constants are assumed to be.
Constants == NoBuyout \notin Buyouts

VARIABLES
  standing,  \* Order.status; "PAID" is DELIVERING too
  bonuses,   \* REFERRAL ledger rows, by their order
  creditor   \* the order a handler works for, and how far it is

vars == <<standing, bonuses, creditor>>

NoErrand == [at |-> "idle", order |-> NoBuyout]

TypeOK ==
  /\ standing \in [Buyouts -> {"PENDING", "PAID", "DELIVERED", "FAILED", "REFUNDED"}]
  /\ bonuses \subseteq Buyouts
  /\ creditor \in [Creditors -> [at : {"idle", "read", "count", "credit"},
                                 order : Buyouts \cup {NoBuyout}]]

Init ==
  /\ standing = [o \in Buyouts |-> "PENDING"] /\ bonuses = {}
  /\ creditor = [c \in Creditors |-> NoErrand]

\* Variant: only what was delivered counts.
PAID_STATUSES_DELIVERED == {"DELIVERED"}

PAID_STATUSES == {"PAID", "DELIVERED"}

\* The order of a referee: paid, delivered or failed, and given back.
Advance(o) ==
  /\ \E next \in {<<"PENDING", "PAID">>, <<"PAID", "DELIVERED">>, <<"PAID", "FAILED">>,
                  <<"DELIVERED", "REFUNDED">>, <<"FAILED", "REFUNDED">>} :
       standing[o] = next[1] /\ standing' = [standing EXCEPT ![o] = next[2]]
  /\ UNCHANGED <<bonuses, creditor>>

At(c, label) == creditor[c].at = label
theOrder(c) == creditor[c].order
Goto(c, label) == creditor' = [creditor EXCEPT ![c].at = label]
Drop(c) == creditor' = [creditor EXCEPT ![c] = NoErrand]

\* After a delivery, or one that an operator completes.
Begin(c, o) ==
  /\ At(c, "idle") /\ standing[o] \in {"PAID", "DELIVERED"}
  /\ creditor' = [creditor EXCEPT ![c] = [at |-> "read", order |-> o]]
  /\ UNCHANGED <<standing, bonuses>>

ReadOrder(c) ==
  /\ At(c, "read")
  /\ IF standing[theOrder(c)] \in {"PAID", "DELIVERED"} /\ theOrder(c) \notin bonuses
     THEN Goto(c, "count") ELSE Drop(c)
  /\ UNCHANGED <<standing, bonuses>>

priorPaidOrders(c) == {o \in Buyouts \ {theOrder(c)} : standing[o] \in PAID_STATUSES}

CountPrior(c) ==
  /\ At(c, "count")
  /\ IF priorPaidOrders(c) = {} THEN Goto(c, "credit") ELSE Drop(c)
  /\ UNCHANGED <<standing, bonuses>>

\* credit() of module Ledger: once per key.
CreditBonus(c) ==
  /\ At(c, "credit") /\ Drop(c)
  /\ bonuses' = bonuses \cup {theOrder(c)}
  /\ UNCHANGED standing

\* A process dies, or the transaction is rolled back.
GiveUp(c) == ~At(c, "idle") /\ Drop(c) /\ UNCHANGED <<standing, bonuses>>

Next ==
  \/ \E o \in Buyouts : Advance(o)
  \/ \E c \in Creditors : \/ ReadOrder(c) \/ CountPrior(c) \/ CreditBonus(c) \/ GiveUp(c)
                          \/ \E o \in Buyouts : Begin(c, o)

Spec == Init /\ [][Next]_vars

-----------------------------------------------------------------------------
\* One bonus for a referee, though nothing is locked: of two orders the one that
\* is paid last sees the other.  Only an order that was given back lets another
\* be the first (creditReferralBonus counts orders that are still paid).
OneBonus == \A o, p \in bonuses :
  o # p => standing[o] \in {"FAILED", "REFUNDED"} \/ standing[p] \in {"FAILED", "REFUNDED"}

=============================================================================
