---------------------------- MODULE Subscriptions ----------------------------
(***************************************************************************)
(* The subscriptions of one user to one plan (packages/core/src/           *)
(* subscriptions.ts): a row per paid order, stacked on the period before,  *)
(* renewed from the balance by the user's button or by the sweep of        *)
(* apps/worker/src/queues/subs-remind.worker.ts, and closed by the sweep.  *)
(*                                                                         *)
(* A call reads in one step and writes, in one transaction that the ledger *)
(* lock serialises, in another.  Time is counted in days.                  *)
(***************************************************************************)
EXTENDS Integers, FiniteSets, FiniteSetsExt

CONSTANTS Callers,       \* deliveries, presses and sweeps at work
          Checkouts,     \* orders of the plan
          Renewals,      \* orders that renewals create
          DurationDays,
          LastDay,       \* the clock stops there
          Purse,         \* renewals the balance pays for at first
          DropBound,     \* calls that die
          NoPeriod

\* What the constants are assumed to be.
Constants ==
  /\ DurationDays \in Nat \ {0} /\ LastDay \in Nat /\ DropBound \in Nat
  /\ IsFiniteSet(Checkouts) /\ IsFiniteSet(Renewals) /\ Purse \in 0 .. Cardinality(Renewals)
  /\ Checkouts \cap Renewals = {} /\ NoPeriod \notin Checkouts \cup Renewals

VARIABLES
  today,
  paidOn,   \* Order.paidAt of a checkout, -1 before it is paid
  subs,     \* Subscription rows, by the order they belong to
  charged,  \* ledger keys: rows whose period has been renewed for money
  purse,    \* the balance, in prices of the plan
  refunded, \* renewal orders whose delivery failed
  doing,    \* what a call has read, and what it does next
  drops     \* calls that died

vars == <<today, paidOn, subs, charged, purse, refunded, doing, drops>>

RowIds == Checkouts \cup Renewals
\* by: the row a renewal follows.
AbsentRow == [status |-> "absent", starts |-> 0, expires |-> 0, by |-> NoPeriod]
IdleCall == [at |-> "idle", row |-> NoPeriod, base |-> 0, sweep |-> FALSE]

TypeOK ==
  /\ today \in 0 .. LastDay
  /\ paidOn \in [Checkouts -> -1 .. LastDay]
  /\ subs \in [RowIds -> [status : {"absent", "ACTIVE", "EXPIRED"}, starts : Nat, expires : Nat,
                          by : RowIds \cup {NoPeriod}]]
  /\ charged \subseteq RowIds /\ refunded \subseteq Renewals
  /\ purse \in 0 .. Purse
  /\ doing \in [Callers -> [at : {"idle", "create", "renew", "transaction", "expire"},
                            row : RowIds \cup {NoPeriod}, base : Nat, sweep : BOOLEAN]]
  /\ drops \in 0 .. DropBound

Init ==
  /\ today = 0 /\ paidOn = [o \in Checkouts |-> -1]
  /\ subs = [r \in RowIds |-> AbsentRow]
  /\ charged = {} /\ purse = Purse /\ refunded = {}
  /\ doing = [c \in Callers |-> IdleCall] /\ drops = 0

Exists(r) == subs[r].status # "absent"
Active == {r \in RowIds : subs[r].status = "ACTIVE"}
Lapsed(r) == r \in Active /\ subs[r].expires <= today
At(c, label) == doing[c].at = label
row(c) == doing[c].row
Go(c, label) == doing' = [doing EXCEPT ![c].at = label]
Done(c) == doing' = [doing EXCEPT ![c] = IdleCall]

-----------------------------------------------------------------------------
Tick ==
  /\ today < LastDay /\ today' = today + 1
  /\ UNCHANGED <<paidOn, subs, charged, purse, refunded, doing, drops>>

PayOrder(o) ==
  /\ paidOn[o] = -1 /\ paidOn' = [paidOn EXCEPT ![o] = today]
  /\ UNCHANGED <<today, subs, charged, purse, refunded, doing, drops>>

\* createSubscriptionForOrder(), after a delivery: stack on the period that ends
\* last, if it is still running when the order is paid.
ReadCurrent(c, o) ==
  LET ends == {subs[r].expires : r \in Active} IN
  /\ At(c, "idle") /\ paidOn[o] # -1 /\ ~Exists(o)
  /\ doing' = [doing EXCEPT ![c] = [IdleCall EXCEPT !.at = "create", !.row = o,
                                      !.base = Max({paidOn[o]} \cup ends)]]
  /\ UNCHANGED <<today, paidOn, subs, charged, purse, refunded, drops>>

\* Subscription.orderId is unique: the second insert fails.
CreateRow(c) ==
  LET o == row(c) IN
  /\ At(c, "create") /\ Done(c)
  /\ IF Exists(o) THEN UNCHANGED subs
     ELSE subs' = [subs EXCEPT ![o] = [status |-> "ACTIVE", starts |-> paidOn[o],
                                       expires |-> doing[c].base + DurationDays, by |-> NoPeriod]]
  /\ UNCHANGED <<today, paidOn, charged, purse, refunded, drops>>

-----------------------------------------------------------------------------
(* renewFromBalance                                                        *)

\* The button, at any time before the period is closed ...
Press(c, r) ==
  /\ At(c, "idle") /\ Exists(r)
  /\ doing' = [doing EXCEPT ![c] = [IdleCall EXCEPT !.at = "renew", !.row = r]]
  /\ UNCHANGED <<today, paidOn, subs, charged, purse, refunded, drops>>

\* ... and the sweep, once the period is over: whether autoRenew is set no code
\* decides.
Sweep(c, r) ==
  /\ At(c, "idle") /\ Lapsed(r)
  /\ \E label \in {"renew", "expire"} :
       doing' = [doing EXCEPT ![c] = [IdleCall EXCEPT !.at = label, !.row = r, !.sweep = TRUE]]
  /\ UNCHANGED <<today, paidOn, subs, charged, purse, refunded, drops>>

\* Variant: the sweep leaves a period it could not renew as it is.
DeclineQuietly(c) == Done(c)

\* What a refusal or an error means: a sweep closes the period.
Decline(c) == IF doing[c].sweep THEN Go(c, "expire") ELSE Done(c)

ReadSubscription(c) ==
  /\ At(c, "renew")
  /\ IF row(c) \in Active /\ purse > 0 THEN Go(c, "transaction") ELSE Decline(c)
  /\ UNCHANGED <<today, paidOn, subs, charged, purse, refunded, drops>>

\* Variant: the order of a renewal has a key of its own.
KeyTakenNever(r) == FALSE

\* The order's idempotency key: the row, and the end of its period.
KeyTaken(r) == \E s \in Renewals : Exists(s) /\ subs[s].by = r

\* Variant: the balance as it was read before is relied on.
CanPayAsRead(r) == TRUE

\* The debit checks the balance, unless its key has been seen.
CanPay(r) == purse > 0 \/ r \in charged

\* The debit, a no-op for a key it has seen; the order, PAID; the old row closed
\* by id; the new one.  An error of any of them rolls the rest back.
Renew(c) ==
  LET r == row(c)
      start == Max({subs[r].expires, today})
  IN  /\ At(c, "transaction")
      /\ \/ (KeyTaken(r) \/ ~CanPay(r)) /\ Decline(c)
            /\ UNCHANGED <<subs, charged, purse>>
         \/ /\ ~KeyTaken(r) /\ CanPay(r) /\ Done(c)
            /\ charged' = charged \cup {r}
            /\ purse' = IF r \in charged THEN purse ELSE purse - 1
            /\ \E s \in Renewals :
                 /\ ~Exists(s)
                 /\ subs' = [subs EXCEPT ![r].status = "EXPIRED",
                              ![s] = [status |-> "ACTIVE", starts |-> start,
                                      expires |-> start + DurationDays, by |-> r]]
      /\ UNCHANGED <<today, paidOn, refunded, drops>>

\* expire(), by id.
ExpireRow(c) ==
  /\ At(c, "expire") /\ Done(c)
  /\ subs' = [subs EXCEPT ![row(c)].status = "EXPIRED"]
  /\ UNCHANGED <<today, paidOn, charged, purse, refunded, drops>>

\* The order of a renewal is PAID, so the reconciler has it delivered; a delivery
\* that fails refunds it and leaves the row alone.  (The bound: there is an order
\* left for every renewal the balance pays for.)
DeliveryFails(s) ==
  /\ s \in Renewals \ refunded /\ Exists(s)
  /\ Cardinality({t \in Renewals : Exists(t)}) + purse < Cardinality(Renewals)
  /\ refunded' = refunded \cup {s} /\ purse' = purse + 1
  /\ UNCHANGED <<today, paidOn, subs, charged, doing, drops>>

Dies(c) ==
  /\ ~At(c, "idle") /\ drops < DropBound /\ drops' = drops + 1
  /\ Done(c)
  /\ UNCHANGED <<today, paidOn, subs, charged, purse, refunded>>

-----------------------------------------------------------------------------
Work(c) == CreateRow(c) \/ ReadSubscription(c) \/ Renew(c) \/ ExpireRow(c)

Next ==
  \/ Tick
  \/ \E o \in Checkouts : PayOrder(o)
  \/ \E s \in Renewals : DeliveryFails(s)
  \/ \E c \in Callers : \/ Work(c) \/ Dies(c)
                        \/ \E o \in Checkouts : ReadCurrent(c, o)
                        \/ \E r \in RowIds : Press(c, r) \/ Sweep(c, r)

Spec == Init /\ [][Next]_vars

-----------------------------------------------------------------------------
(* What subscriptions promise.                                             *)

\* A period is renewed at most once, and charged exactly when it is: by a button
\* pressed twice, by a button and a sweep (the keys of renewFromBalance).
RenewalChargedOnce ==
  /\ \A s, t \in Renewals : Exists(s) /\ Exists(t) /\ subs[s].by = subs[t].by => s = t
  /\ charged = {subs[s].by : s \in {s \in Renewals : Exists(s)}}

\* "A subscription cannot stay ACTIVE past its expiry": however its renewal was
\* refused, failed or died (tryExpireOrRenew).
LapsedIsClosed == \A r \in RowIds : Lapsed(r) ~> r \notin Active

\* "A user who renews early never loses the days they already paid for": no day
\* is paid for twice.
PaidDaysAreKept == \A r, s \in RowIds :
  Exists(r) /\ Exists(s) /\ r # s =>
    \/ subs[r].expires + DurationDays <= subs[s].expires
    \/ subs[s].expires + DurationDays <= subs[r].expires

=============================================================================
