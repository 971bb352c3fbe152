------------------------------- MODULE MCShop -------------------------------
(***************************************************************************)
(* The components that are modelled on their own, side by side: a          *)
(* behaviour looks at one of them, the others stand still.  What happens   *)
(* in the rest of the system is in each module (an order is paid by        *)
(* another rail, the balance is spent elsewhere), so that the components   *)
(* need not run together.                                                  *)
(*                                                                         *)
(* A process is a handler, a job, an admin or a checkout, whatever the     *)
(* component has.                                                          *)
(*                                                                         *)
(* On the TRON rail a cent has three units and two tags, an order asks for *)
(* 7 and a top-up for 5: a transfer of 4 is short of the order by what a   *)
(* second one of 4 completes, 10 is a cent too much, 3 has lost its tag.   *)
(***************************************************************************)
EXTENDS TronSettlement, Sequences, TLC

CONSTANTS
  Components,  \* the components this run looks at
  Processes, OneProcess,
  \* Payments
  Payments, Rail, ForOrder, IssueBound, SlipBound, NoPayment,
  \* Subscriptions
  Checkouts, Renewals, DurationDays, LastDay, Purse, DropBound, NoPeriod,
  \* DeliveryQueue
  Buys, Manual, Attempts, ShockBound, NoBuy,
  \* Promos, Referral, SettingsCache, TronTags, Broadcast
  Requests, MaxUses, NoRequest, Buyouts, NoBuyout, Values, MissBound,
  Issuers, Tags, Hold, Patience, EndOfTime, NoTag, ClickBound, StumbleBound,
  \* Pricing
  Plans, Quantities, Codes, StarRates, AmountTags, Nothing

VARIABLES
  focus,
  pays, invoices, purchase, buyer, credited, anomalies, called, acked, hand, slips,
  today, paidOn, subs, charged, purse, refunded, doing, drops,
  sale, ripe, queued, runner, hit, shocks,
  used, placed, holder, shopper,
  standing, bonuses, creditor,
  stored, cached, reader, writer, misses,
  clock, issued, reserved, issuer,
  post, stale, task, admin, sender, sweeper, clicks, stumbles,
  plan, seen, bought, asked

payVars == <<pays, invoices, purchase, buyer, credited, anomalies, called, acked, hand, slips>>
subsVars == <<today, paidOn, subs, charged, purse, refunded, doing, drops>>
queueVars == <<sale, ripe, queued, runner, hit, shocks>>
promoVars == <<used, placed, holder, shopper>>
bonusVars == <<standing, bonuses, creditor>>
settingsVars == <<stored, cached, reader, writer, misses>>
tagVars == <<clock, issued, reserved, issuer>>
postVars == <<post, stale, task, admin, sender, sweeper, clicks, stumbles>>
priceVars == <<plan, seen, bought, asked>>
shopVars == <<focus, vars, payVars, subsVars, queueVars, promoVars, bonusVars, settingsVars,
              tagVars, postVars, priceVars>>

Pay       == INSTANCE Payments WITH Handlers <- Processes
Rivals    == INSTANCE Payments WITH Handlers <- OneProcess, IssueBound <- IssueBound + 1
Subs      == INSTANCE Subscriptions WITH Callers <- Processes
Queue     == INSTANCE DeliveryQueue WITH Runners <- OneProcess
Rerun     == INSTANCE DeliveryQueue WITH Runners <- Processes
Promo     == INSTANCE Promos WITH Shoppers <- Processes
Bonus     == INSTANCE Referral WITH Creditors <- Processes
Settings  == INSTANCE SettingsCache WITH Readers <- Processes, Writers <- Processes
Allocate  == INSTANCE TronTags
Posts     == INSTANCE Broadcast WITH Admins <- Processes, Senders <- Processes
Price     == INSTANCE Pricing

ASSUME ShopAssumption ==
  /\ Pay!Constants /\ Subs!Constants /\ Queue!Constants /\ Promo!Constants
  /\ Bonus!Constants /\ Settings!Constants /\ Allocate!Constants /\ Posts!Constants
  /\ Price!Constants

-----------------------------------------------------------------------------
ShopInit ==
  /\ focus \in Components
  /\ Init
  /\ IF focus = "rivals" THEN Rivals!Init ELSE Pay!Init
  /\ Subs!Init
  /\ IF focus = "rerun" THEN Rerun!Init ELSE Queue!Init
  /\ Promo!Init /\ Bonus!Init /\ Settings!Init /\ Allocate!Init /\ Posts!Init
  /\ Price!Init

\* A step of component c: the variables of the others do not change.
Only(c) ==
  /\ focus = c /\ UNCHANGED focus
  /\ IF c \in {"tron", "thirds"} THEN TRUE ELSE UNCHANGED vars
  /\ IF c \in {"payments", "rivals"} THEN TRUE ELSE UNCHANGED payVars
  /\ IF c = "subs" THEN TRUE ELSE UNCHANGED subsVars
  /\ IF c \in {"queue", "rerun"} THEN TRUE ELSE UNCHANGED queueVars
  /\ IF c = "promos" THEN TRUE ELSE UNCHANGED promoVars
  /\ IF c = "referral" THEN TRUE ELSE UNCHANGED bonusVars
  /\ IF c = "settings" THEN TRUE ELSE UNCHANGED settingsVars
  /\ IF c = "tags" THEN TRUE ELSE UNCHANGED tagVars
  /\ IF c = "posts" THEN TRUE ELSE UNCHANGED postVars
  /\ IF c = "prices" THEN TRUE ELSE UNCHANGED priceVars

\* Two processes at one order ("rerun"), one process at two orders ("queue"); two
\* transfers and sweeps that overlap ("tron"), three transfers, all of them short
\* of the order, and sweeps that do not ("thirds").
ShopNext ==
  \/ Only("tron") /\ Next /\ \A t \in Transfers : t > 2 => sent'[t] = 0
  \/ Only("thirds") /\ Next /\ \E s \in Sweeps : \A z \in Sweeps \ {s} : At(z, "idle")'
                    /\ \A t \in Transfers : sent'[t] \in {0, 4}
  \/ Only("payments") /\ Pay!Next
  \/ Only("rivals") /\ Rivals!Next
  \/ Only("subs") /\ Subs!Next
  \/ Only("queue") /\ Queue!Next
  \/ Only("rerun") /\ Rerun!Next /\ \A o \in Manual : sale'[o] = "PENDING"
  \/ Only("promos") /\ Promo!Next
  \/ Only("referral") /\ Bonus!Next
  \/ Only("settings") /\ Settings!Next
  \/ Only("tags") /\ Allocate!Next
  \/ Only("posts") /\ Posts!Next
  \/ Only("prices") /\ Price!Next

-----------------------------------------------------------------------------
(* Fairness.  One component runs, so that a disjunction over components    *)
(* says of each what it would say alone.                                   *)

\* What has been started goes on, until it dies.
SweepGoesOn(s) == Only("tron") /\ Work(s)

GoesOn(p) ==
  \/ Only("payments") /\ Pay!Work(p)
  \/ Only("rivals") /\ p \in OneProcess /\ Rivals!Work(p)
  \/ Only("subs") /\ Subs!Work(p)
  \/ Only("queue") /\ p \in OneProcess /\ Queue!Work(p)
  \/ Only("rerun") /\ Rerun!Work(p)
  \/ Only("settings") /\ Settings!FillCache(p)
  \/ Only("posts") /\ Posts!AdminWork(p)

SenderGoesOn(p) == Only("posts") /\ Posts!SendWork(p)

\* Time passes: a copy in the cache expires, a post gets stale.
TimePasses ==
  \/ Only("settings") /\ Settings!Expire
  \/ Only("posts") /\ Posts!GrowStale

RipensOrRetires(o) ==
  \/ Only("queue") /\ (Queue!Ripen(o) \/ Queue!Retire(o))
  \/ Only("rerun") /\ (Rerun!Ripen(o) \/ Rerun!Retire(o))

\* Repeatable jobs.
Reconciles ==
  \/ Only("queue") /\ Queue!reconcileUndeliveredOrders
  \/ Only("rerun") /\ Rerun!reconcileUndeliveredOrders
  \/ Only("posts") /\ (Posts!SweepRead \/ Posts!SweepWork)

\* A process that is free again and again takes up, at last, what is waiting.
TakesUp ==
  \/ Only("tron") /\ \E s \in Sweeps : Finish(s, PaidOrders)
  \/ Only("payments") /\ \E p \in Processes : Pay!pollBegin(p)
  \/ Only("rivals") /\ \E p \in OneProcess : Rivals!pollBegin(p)
  \/ Only("subs") /\ \E p \in Processes, r \in Subs!RowIds : Subs!Sweep(p, r)
  \/ Only("queue") /\ \E p \in OneProcess, o \in Buys : Queue!Take(p, o)
  \/ Only("rerun") /\ \E p \in Processes, o \in Buys : Rerun!Take(p, o)
  \/ Only("posts") /\ \E p \in Processes : Posts!Take(p)

Fairness ==
  /\ \A s \in Sweeps : WF_shopVars(SweepGoesOn(s))
  /\ \A p \in Processes : WF_shopVars(GoesOn(p)) /\ WF_shopVars(SenderGoesOn(p))
  /\ WF_shopVars(TimePasses) /\ WF_shopVars(Reconciles)
  /\ \A o \in Buys : WF_shopVars(RipensOrRetires(o))
  /\ SF_shopVars(TakesUp)

ShopSpec == ShopInit /\ [][ShopNext]_shopVars

FairShopSpec == ShopSpec /\ Fairness

-----------------------------------------------------------------------------
(* The properties, each of its component.                                  *)

\* Type correctness of every component: of the one that runs, the others are at
\* their beginning.  Pricing has no invariant of types.
ShopTypeOK ==
  /\ focus \in Components
  /\ CASE focus \in {"tron", "thirds"} -> TypeOK
       [] focus = "payments" -> Pay!TypeOK
       [] focus = "rivals" -> Rivals!TypeOK
       [] focus = "subs" -> Subs!TypeOK
       [] focus = "queue" -> Queue!TypeOK
       [] focus = "rerun" -> Rerun!TypeOK
       [] focus = "promos" -> Promo!TypeOK
       [] focus = "referral" -> Bonus!TypeOK
       [] focus = "settings" -> Settings!TypeOK
       [] focus = "tags" -> Allocate!TypeOK
       [] focus = "posts" -> Posts!TypeOK
       [] OTHER -> TRUE

\* Goods are sold for a payment in full whose row says PAID.
BuyerHasPaid == Pay!BuyerHasPaid

\* A top-up is credited if and only if its row is PAID, for money in full.
TopupsAreExact == Pay!TopupsAreExact

\* No payment that bought the order is flagged as money without a purchase.
FlagMeansNoPurchase == Pay!FlagMeansNoPurchase

\* The poll makes good for a webhook that never came.
MissedWebhookIsMadeGood == Pay!MissedWebhookIsMadeGood

\* A period is renewed, and charged, at most once.
RenewalChargedOnce == Subs!RenewalChargedOnce

\* A subscription does not stay ACTIVE past its expiry.
LapsedIsClosed == Subs!LapsedIsClosed

\* A paid order is delivered, refunded or left to an operator.
PaidIsServed == Queue!PaidIsServed

\* The uses of a promo code are the live orders that have it, within its limit.
UsesAreLiveOrders == Promo!UsesAreLiveOrders

\* One bonus for a referee, unless an order was given back.
OneBonus == Bonus!OneBonus

\* The cache holds the setting's value or nothing, once it is left alone.
SettlesOnRow == Settings!SettlesOnRow

\* No two open TRON invoices have one tag.
TagsAreUnique == Allocate!TagsAreUnique

\* A customer is asked for what the order costs, to the cent or to half a Star.
AskedIsOwed == Price!AskedIsOwed

\* A post does not stay armed, nor SENDING.
ArmedPostIsSettled == Posts!ArmedPostIsSettled

-----------------------------------------------------------------------------
CONSTANTS bill, order, stars, starsTopup

MCOrderOf == [i \in Invoices |-> IF i = bill THEN order ELSE NoOrder]
MCAsk == [i \in Invoices |-> IF i = bill THEN 7 ELSE 5]
TwoTransfers == 1 .. 2
ThreeTransfers == 1 .. 3
MCRail == [p \in Payments |-> IF p \in {stars, starsTopup} THEN "stars" ELSE "crypto"]
Symmetry == Permutations(Sweeps)

Percent(n) == [type |-> "PERCENT", value |-> n]
Fixed(n) == [type |-> "FIXED", value |-> n]
MCPlans == {[price |-> 99, off |-> 33, stars |-> 0], [price |-> 15, off |-> 50, stars |-> 4],
            [price |-> 10, off |-> 99, stars |-> 13], [price |-> 0, off |-> 10, stars |-> 5]}
MCCodes == {Fixed(0), Fixed(12), Percent(50), Percent(15), Percent(100)}
MCRates == {[usd |-> 13, scale |-> 1000], [usd |-> 2, scale |-> 1]}
OnePlan == {[price |-> 99, off |-> 33, stars |-> 0]}
OneCode == {Fixed(0)}
=============================================================================
