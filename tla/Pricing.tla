------------------------------ MODULE Pricing ------------------------------
(***************************************************************************)
(* What an order costs, and what a customer is asked for it on a rail that *)
(* does not count in cents: packages/core/src/pricing.ts and money.ts,     *)
(* apps/bot/src/payments/stars.ts, and the two handlers that create orders *)
(* (POST /api/orders and the bot's checkout).                              *)
(*                                                                         *)
(* A handler reads the plan, creates or finds the order, which is priced   *)
(* from a second read of the plan, and then issues the invoice from what   *)
(* it read first; an admin may edit the plan at any time.                  *)
(***************************************************************************)
EXTENDS Integers

CENTS_TO_USDT6 == 10000
TRON_TAG_UNIT_USDT6 == 100
TRON_TAG_MAX == 99

CONSTANTS Plans,       \* [price, off, stars]: cents, percent, Stars of one unit (0: not set)
          Quantities,
          Codes,       \* promo codes: [type, value]; FIXED and 0 is no code
          StarRates,   \* settings stars_usd_rate: a Star is usd \div scale dollars
          AmountTags,
          Nothing

\* What the schemas of apps/admin/src/lib/schemas.ts let through.
Constants ==
  /\ Plans \subseteq [price : Nat, off : 0 .. 100, stars : Nat]
  /\ Quantities \subseteq Nat \ {0}
  /\ Codes \subseteq [type : {"PERCENT"}, value : 0 .. 100] \cup [type : {"FIXED"}, value : Nat]
  /\ StarRates \subseteq [usd : Nat \ {0}, scale : Nat \ {0}]
  /\ AmountTags \subseteq 1 .. TRON_TAG_MAX
  /\ Nothing \notin Plans

VARIABLES
  plan,    \* the plan's row, or Nothing
  seen,    \* the plan a handler has read
  bought,  \* the order: what it was priced from, and its amountCents
  asked    \* the invoice: its amount, and the tag or the price of a cent it was made with

vars == <<plan, seen, bought, asked>>

NoPurchase == [amount |-> -1]
NoAsk == [rail |-> "none"]

-----------------------------------------------------------------------------
\* Half of d more than a multiple of d counts as one more.
roundHalfUp(n, d) == (2 * n + d) \div (2 * d)

applyPercentDiscount(cents, percent) == cents - roundHalfUp(cents * percent, 100)

applyFixedDiscount(cents, discount) == IF discount <= cents THEN cents - discount ELSE 0

subtotalCents(p, qty) == applyPercentDiscount(p.price, p.off) * qty

computeOrderTotal(p, qty, code) ==
  IF code.type = "PERCENT"
  THEN applyPercentDiscount(subtotalCents(p, qty), code.value)
  ELSE applyFixedDiscount(subtotalCents(p, qty), code.value)

tronTaggedAmountUsdt6(cents, tag) == cents * CENTS_TO_USDT6 + tag * TRON_TAG_UNIT_USDT6
usdt6ToUsdCents(amount) == amount \div CENTS_TO_USDT6
tronTagOfAmountUsdt6(amount) == (amount % CENTS_TO_USDT6) \div TRON_TAG_UNIT_USDT6

\* Variant: the Stars of one unit are taken for those of the order.
starsPerCentOfUnit(p, qty, rate) ==
  IF p.stars > 0 /\ p.price > 0
  THEN [stars |-> p.stars, cents |-> p.price]
  ELSE [stars |-> rate.scale, cents |-> rate.usd * 100]

\* A price in Stars as a fraction of Stars per cent: the plan's own, if it has one.
starsPerCent(p, qty, rate) ==
  IF p.stars > 0 /\ p.price > 0
  THEN [stars |-> p.stars, cents |-> p.price * qty]
  ELSE [stars |-> rate.scale, cents |-> rate.usd * 100]

\* Telegram takes no invoice of no Stars: a plan's own price asks for one at least.
amountStars(p, cents, per) ==
  LET whole == roundHalfUp(per.stars * cents, per.cents)
  IN  IF p.stars > 0 /\ p.price > 0 /\ whole = 0 THEN 1 ELSE whole

-----------------------------------------------------------------------------
Init == plan = Nothing /\ seen = Nothing /\ bought = NoPurchase /\ asked = NoAsk

upsertPlan(p) == plan' = p /\ UNCHANGED <<seen, bought, asked>>

\* A plan that has orders cannot be deleted (Order.plan).
deletePlan ==
  /\ plan # Nothing /\ bought = NoPurchase
  /\ plan' = Nothing /\ UNCHANGED <<seen, bought, asked>>

\* A press, or its repetition.
getPlanById == plan # Nothing /\ seen' = plan /\ UNCHANGED <<plan, bought, asked>>

createOrder(qty, code) ==
  /\ seen # Nothing /\ plan # Nothing /\ bought = NoPurchase
  /\ bought' = [qty |-> qty, code |-> code, of |-> plan, amount |-> computeOrderTotal(plan, qty, code)]
  /\ UNCHANGED <<plan, seen, asked>>

\* An open invoice is found and shown again; the first one decides.
createTronPayment(tag) ==
  /\ bought # NoPurchase /\ asked = NoAsk
  /\ asked' = [rail |-> "tron", tag |-> tag, amount |-> tronTaggedAmountUsdt6(bought.amount, tag)]
  /\ UNCHANGED <<plan, seen, bought>>

createStarsPayment(rate) ==
  /\ bought # NoPurchase /\ asked = NoAsk
  /\ LET per == starsPerCent(seen, bought.qty, rate)
         whole == amountStars(seen, bought.amount, per)
     IN  /\ whole > 0
         /\ asked' = [rail |-> "stars", of |-> seen, rate |-> rate, amount |-> whole]
  /\ UNCHANGED <<plan, seen, bought>>

Next ==
  \/ getPlanById \/ deletePlan
  \/ \E p \in Plans : upsertPlan(p)
  \/ \E qty \in Quantities, code \in Codes : createOrder(qty, code)
  \/ \E tag \in AmountTags : createTronPayment(tag)
  \/ \E rate \in StarRates : createStarsPayment(rate)

Spec == Init /\ [][Next]_vars

-----------------------------------------------------------------------------
(* What a price is, in exact fractions.                                    *)

Within(a, b, slack) == a - b <= slack /\ b - a <= slack

\* The total is the exact price after both discounts, but for half a cent per
\* unit and half a cent of the code, whatever order the code rounds in; it is
\* never negative and never more than the list price (computeOrderTotal).
TotalIsExact == bought # NoPurchase =>
  LET exact == bought.of.price * (100 - bought.of.off) * bought.qty  \* in 1/100 cent
      value == bought.code.value
  IN  /\ bought.amount \in 0 .. bought.of.price * bought.qty
      /\ IF bought.code.type = "PERCENT"
         THEN Within(10000 * bought.amount, exact * (100 - value),
                     50 * bought.qty * (100 - value) + 5000)
         ELSE Within(100 * bought.amount, IF exact >= 100 * value THEN exact - 100 * value ELSE 0,
                     50 * bought.qty)

\* A transfer of the amount asked for says which total and which tag it is of.
TagIsReadable == asked.rail = "tron" =>
  /\ usdt6ToUsdCents(asked.amount) = bought.amount
  /\ tronTagOfAmountUsdt6(asked.amount) = asked.tag

\* The Stars asked for are worth the order's total, not its list price and not one
\* unit's, within half a Star (or are the one Star that Telegram insists on).
StarsAreTheTotal == asked.rail = "stars" =>
  LET p == asked.of
      per == IF p.stars > 0 /\ p.price > 0
             THEN [stars |-> p.stars, cents |-> p.price * bought.qty]
             ELSE [stars |-> asked.rate.scale, cents |-> asked.rate.usd * 100]
  IN  asked.amount = 1 \/ Within(2 * asked.amount * per.cents, 2 * per.stars * bought.amount, per.cents)

\* The customer is asked for what the order costs: in cents to the exact price, in
\* USDT and Stars to those cents, whatever an admin does to the plan meanwhile.
AskedIsOwed == TotalIsExact /\ TagIsReadable /\ StarsAreTheTotal

=============================================================================
