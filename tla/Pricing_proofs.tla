--------------------------- MODULE Pricing_proofs ---------------------------
(***************************************************************************)
(* For any plans, quantities, promo codes, rates and tags: a customer is   *)
(* asked for what the order costs.                                         *)
(***************************************************************************)
EXTENDS Pricing, TLAPS

\* The conversion of a tagged amount and back (tron-match.ts reads the tag of a
\* transfer, the settlements read its cents).
LEMMA TagRoundTrip ==
  ASSUME NEW cents \in Nat, NEW tag \in 1 .. TRON_TAG_MAX
  PROVE  /\ usdt6ToUsdCents(tronTaggedAmountUsdt6(cents, tag)) = cents
         /\ tronTagOfAmountUsdt6(tronTaggedAmountUsdt6(cents, tag)) = tag
  BY DEF usdt6ToUsdCents, tronTaggedAmountUsdt6, tronTagOfAmountUsdt6,
         CENTS_TO_USDT6, TRON_TAG_UNIT_USDT6, TRON_TAG_MAX

\* What roundHalfUp returns is a half at most from the quotient.
LEMMA RoundedHundredth ==
  ASSUME NEW n \in Nat
  PROVE  /\ roundHalfUp(n, 100) \in Nat
         /\ Within(100 * roundHalfUp(n, 100), n, 50)
  BY DEF roundHalfUp, Within

LEMMA Rounded ==
  ASSUME NEW n \in Nat, NEW d \in Nat \ {0}
  PROVE  /\ roundHalfUp(n, d) \in Nat
         /\ Within(2 * roundHalfUp(n, d) * d, 2 * n, d)
<1> DEFINE q == (2 * n + d) \div (2 * d)
           r == (2 * n + d) % (2 * d)
<1>1. 2 * d \in Nat /\ 2 * d > 0 /\ 2 * n + d \in Nat
  OBVIOUS
<1>2. q \in Nat /\ r \in 0 .. 2 * d - 1 /\ 2 * n + d = 2 * d * q + r
  BY <1>1, SMTT(30)
<1> HIDE DEF q, r
<1>3. 2 * d * q = 2 * q * d
  BY <1>2, SMTT(30)
<1>4. q \in Nat /\ Within(2 * q * d, 2 * n, d)
  <2> DEFINE m == 2 * q * d
  <2>1. m \in Int
    BY <1>2
  <2>2. 2 * n + d = m + r
    BY <1>2, <1>3
  <2> HIDE DEF m
  <2>3. Within(m, 2 * n, d)
    BY <1>2, <2>1, <2>2 DEF Within
  <2> QED
    BY <1>2, <2>3 DEF m
<1> QED
  BY <1>4 DEF roundHalfUp, q

-----------------------------------------------------------------------------
(* The total of an order, by the steps of computeOrderTotal().             *)

LEMMA ScaleWithin ==
  ASSUME NEW a \in Int, NEW b \in Int, NEW s \in Int, NEW k \in Nat, Within(a, b, s)
  PROVE  Within(a * k, b * k, s * k)
<1>1. s - (a - b) \in Nat /\ s - (b - a) \in Nat
  BY DEF Within
<1>2. (s - (a - b)) * k >= 0 /\ (s - (b - a)) * k >= 0
  BY <1>1, SMTT(30)
<1>3. /\ (s - (a - b)) * k = s * k - (a * k - b * k)
      /\ (s - (b - a)) * k = s * k - (b * k - a * k)
  BY SMTT(30)
<1>4. a * k \in Int /\ b * k \in Int /\ s * k \in Int
  OBVIOUS
<1> QED
  BY <1>2, <1>3, <1>4 DEF Within

\* A percent discount is exact within half a cent and leaves 0 .. cents.
LEMMA PercentDiscount ==
  ASSUME NEW cents \in Nat, NEW percent \in 0 .. 100
  PROVE  /\ applyPercentDiscount(cents, percent) \in 0 .. cents
         /\ Within(100 * applyPercentDiscount(cents, percent), cents * (100 - percent), 50)
<1> DEFINE n == cents * percent
           r == roundHalfUp(n, 100)
<1>1. n \in Nat
  OBVIOUS
<1>2. cents * (100 - percent) >= 0 /\ cents * (100 - percent) = 100 * cents - n
  BY SMTT(30)
<1>3. r \in Nat /\ Within(100 * r, n, 50)
  BY <1>1, RoundedHundredth
<1>4. applyPercentDiscount(cents, percent) = cents - r
  BY DEF applyPercentDiscount
<1> HIDE DEF n, r
<1>5. r <= cents
  BY <1>1, <1>2, <1>3 DEF Within
<1> QED
  BY <1>1, <1>2, <1>3, <1>4, <1>5 DEF Within

\* The units of an order are rounded one by one.
LEMMA Subtotal ==
  ASSUME NEW p \in [price : Nat, off : 0 .. 100, stars : Nat], NEW qty \in Nat \ {0}
  PROVE  /\ subtotalCents(p, qty) \in 0 .. p.price * qty
         /\ Within(100 * subtotalCents(p, qty), p.price * (100 - p.off) * qty, 50 * qty)
<1> DEFINE u == applyPercentDiscount(p.price, p.off)
           e == p.price * (100 - p.off)
<1>1. p.price \in Nat /\ p.off \in 0 .. 100
  OBVIOUS
<1>2. u \in 0 .. p.price /\ Within(100 * u, e, 50)
  BY <1>1, PercentDiscount
<1>3. e \in Int /\ 100 * u \in Int
  BY <1>1, <1>2, SMTT(30)
<1>4. subtotalCents(p, qty) = u * qty
  BY DEF subtotalCents
<1> HIDE DEF u, e
<1>5. u * qty \in Nat /\ p.price * qty \in Nat
  BY <1>1, <1>2, SMTT(30)
<1>6. (p.price - u) * qty >= 0 /\ (p.price - u) * qty = p.price * qty - u * qty
  BY <1>1, <1>2, SMTT(30)
<1>7. Within(100 * u * qty, e * qty, 50 * qty)
  <2> DEFINE w == 100 * u
  <2>1. w \in Int /\ e \in Int /\ 50 \in Int /\ qty \in Nat /\ Within(w, e, 50)
    BY <1>2, <1>3
  <2> HIDE DEF w
  <2>2. Within(w * qty, e * qty, 50 * qty)
    BY <2>1, ScaleWithin
  <2> QED
    BY <2>2 DEF w
<1>8. 100 * u * qty = 100 * (u * qty)
  BY <1>2, SMTT(30)
<1> QED
  BY <1>4, <1>5, <1>6, <1>7, <1>8 DEF e

LEMMA Total ==
  ASSUME NEW p \in [price : Nat, off : 0 .. 100, stars : Nat], NEW qty \in Nat \ {0},
         NEW code \in [type : {"PERCENT"}, value : 0 .. 100] \cup [type : {"FIXED"}, value : Nat],
         NEW total, total = computeOrderTotal(p, qty, code),
         NEW exact, exact = p.price * (100 - p.off) * qty
  PROVE  /\ total \in 0 .. p.price * qty
         /\ code.type = "PERCENT" =>
              Within(10000 * total, exact * (100 - code.value), 50 * qty * (100 - code.value) + 5000)
         /\ code.type # "PERCENT" =>
              Within(100 * total, IF exact >= 100 * code.value THEN exact - 100 * code.value ELSE 0,
                     50 * qty)
<1> DEFINE s == subtotalCents(p, qty)
           v == code.value
<1>1. s \in 0 .. p.price * qty /\ Within(100 * s, exact, 50 * qty)
  BY Subtotal
<1>2. exact \in Int /\ p.price * qty \in Nat /\ s \in Nat /\ 50 * qty \in Int
  <2>1. p.price \in Nat /\ p.off \in 0 .. 100
    OBVIOUS
  <2>2. p.price * (100 - p.off) \in Int /\ p.price * qty \in Nat
    BY <2>1
  <2> QED
    BY <1>1, <2>2
<1>3. ASSUME code.type = "PERCENT"
      PROVE  /\ total \in 0 .. p.price * qty
             /\ Within(10000 * total, exact * (100 - v), 50 * qty * (100 - v) + 5000)
  <2> DEFINE k == 100 - v
             m == s * k
             x == exact * k
             y == 50 * qty * k
  <2>1. v \in 0 .. 100
    BY <1>3
  <2>2. total = applyPercentDiscount(s, v)
    BY <1>3 DEF computeOrderTotal
  <2> HIDE DEF s, v
  <2>3. total \in 0 .. s /\ Within(100 * total, s * (100 - v), 50)
    BY <1>2, <2>1, <2>2, PercentDiscount
  <2>4. k \in Nat /\ 100 * s \in Int
    BY <1>2, <2>1
  <2>5. Within(100 * total, m, 50)
    BY <2>3
  <2> HIDE DEF k
  <2>6. Within(100 * s * k, x, y)
    BY <1>1, <1>2, <2>4, ScaleWithin
  <2>7. m \in Int /\ x \in Int /\ y \in Int
    BY <1>2, <2>4
  <2>8. 100 * s * k = 100 * m
    BY <1>2, <2>4, SMTT(30)
  <2> HIDE DEF m, x, y
  <2>9. Within(10000 * total, x, y + 5000)
    BY <1>2, <2>3, <2>5, <2>6, <2>7, <2>8 DEF Within
  <2> QED
    BY <1>1, <1>2, <2>3, <2>9 DEF x, y, k
<1>4. ASSUME code.type # "PERCENT"
      PROVE  /\ total \in 0 .. p.price * qty
             /\ Within(100 * total, IF exact >= 100 * v THEN exact - 100 * v ELSE 0, 50 * qty)
  <2>1. v \in Nat
    BY <1>4
  <2>2. total = IF v <= s THEN s - v ELSE 0
    BY <1>4 DEF computeOrderTotal, applyFixedDiscount
  <2> HIDE DEF s, v
  <2> QED
    BY <1>1, <1>2, <2>1, <2>2 DEF Within
<1> QED
  BY <1>3, <1>4

-----------------------------------------------------------------------------
(* The fraction of a Star that a cent costs.                               *)

LEMMA Fraction ==
  ASSUME NEW p \in [price : Nat, off : 0 .. 100, stars : Nat], NEW qty \in Nat \ {0},
         NEW rate \in [usd : Nat \ {0}, scale : Nat \ {0}]
  PROVE  starsPerCent(p, qty, rate) \in [stars : Nat, cents : Nat \ {0}]
<1>1. p.price \in Nat /\ p.stars \in Nat /\ rate.usd * 100 \in Nat \ {0} /\ rate.scale \in Nat
  OBVIOUS
<1>2. p.price > 0 => p.price * qty \in Nat \ {0}
  BY <1>1, SMTT(30)
<1> QED
  BY <1>1, <1>2 DEF starsPerCent

LEMMA StarsAreExact ==
  ASSUME NEW p \in [price : Nat, off : 0 .. 100, stars : Nat], NEW cents \in Nat,
         NEW per \in [stars : Nat, cents : Nat \ {0}]
  PROVE  LET whole == amountStars(p, cents, per)
         IN  whole = 1 \/ Within(2 * whole * per.cents, 2 * per.stars * cents, per.cents)
<1> DEFINE n == per.stars * cents
           r == roundHalfUp(n, per.cents)
<1>1. n \in Nat /\ per.cents \in Nat \ {0}
  OBVIOUS
<1>2. 2 * n = 2 * per.stars * cents
  BY SMTT(30)
<1> HIDE DEF n
<1>3. Within(2 * r * per.cents, 2 * n, per.cents)
  BY <1>1, Rounded
<1> QED
  BY <1>2, <1>3 DEF amountStars, n

-----------------------------------------------------------------------------
(* The handlers and the admin.                                             *)

\* What is in the rows: an order's amount is that of one plan as it was when the
\* order was created, an invoice's that of the order.
Rows ==
  /\ plan \in Plans \cup {Nothing}
  /\ seen \in Plans \cup {Nothing}
  /\ bought = NoPurchase \/ \E p \in Plans, qty \in Quantities, code \in Codes :
       bought = [qty |-> qty, code |-> code, of |-> p, amount |-> computeOrderTotal(p, qty, code)]
  /\ \/ asked = NoAsk
     \/ /\ bought # NoPurchase
        /\ \E tag \in AmountTags :
             asked = [rail |-> "tron", tag |-> tag, amount |-> tronTaggedAmountUsdt6(bought.amount, tag)]
     \/ /\ bought # NoPurchase
        /\ \E p \in Plans, rate \in StarRates :
             asked = [rail |-> "stars", of |-> p, rate |-> rate,
                      amount |-> amountStars(p, bought.amount, starsPerCent(p, bought.qty, rate))]

\* A handler issues an invoice only after it has read the plan.
SeenFirst == bought # NoPurchase => seen # Nothing

LEMMA RowsInductive == Spec => [](Rows /\ SeenFirst)
<1>1. Init => Rows /\ SeenFirst
  BY DEF Init, Rows, SeenFirst
<1>2. Rows /\ SeenFirst /\ [Next]_vars => (Rows /\ SeenFirst)'
  <2> SUFFICES ASSUME Rows, SeenFirst, [Next]_vars PROVE (Rows /\ SeenFirst)'
    OBVIOUS
  <2>1. CASE getPlanById
    BY <2>1 DEF getPlanById, Rows, SeenFirst
  <2>2. ASSUME NEW p \in Plans, upsertPlan(p) PROVE (Rows /\ SeenFirst)'
    BY <2>2 DEF upsertPlan, Rows, SeenFirst
  <2>3. ASSUME NEW qty \in Quantities, NEW code \in Codes, createOrder(qty, code)
        PROVE  (Rows /\ SeenFirst)'
    <3>1. asked = NoAsk
      BY <2>3 DEF createOrder, Rows
    <3> QED
      BY <2>3, <3>1 DEF createOrder, Rows, SeenFirst
  <2>4. ASSUME NEW tag \in AmountTags, createTronPayment(tag) PROVE (Rows /\ SeenFirst)'
    BY <2>4 DEF createTronPayment, Rows, SeenFirst
  <2>5. ASSUME NEW rate \in StarRates, createStarsPayment(rate) PROVE (Rows /\ SeenFirst)'
    <3>1. seen \in Plans
      BY <2>5 DEF createStarsPayment, Rows, SeenFirst
    <3> QED
      BY <2>5, <3>1 DEF createStarsPayment, Rows, SeenFirst
  <2>6. CASE deletePlan
    BY <2>6 DEF deletePlan, Rows, SeenFirst
  <2>8. CASE UNCHANGED vars
    BY <2>8 DEF vars, Rows, SeenFirst
  <2>7. \A tag \in AmountTags : createTronPayment(tag) => (Rows /\ SeenFirst)'
    BY <2>4
  <2> QED
    BY <2>1, <2>2, <2>3, <2>5, <2>6, <2>7, <2>8 DEF Next
<1> QED
  BY <1>1, <1>2, PTL DEF Spec

\* Rows that are priced as the code prices them are priced exactly.
LEMMA RowsAreExact ==
  ASSUME Constants, Rows
  PROVE  AskedIsOwed
<1>1. ASSUME bought # NoPurchase
      PROVE  bought.amount \in Nat /\ bought.qty \in Nat \ {0} /\ TotalIsExact
  <2>1. PICK p \in Plans, qty \in Quantities, code \in Codes :
          bought = [qty |-> qty, code |-> code, of |-> p, amount |-> computeOrderTotal(p, qty, code)]
    BY <1>1 DEF Rows
  <2>2. /\ p \in [price : Nat, off : 0 .. 100, stars : Nat] /\ qty \in Nat \ {0}
        /\ code \in [type : {"PERCENT"}, value : 0 .. 100] \cup [type : {"FIXED"}, value : Nat]
    BY DEF Constants
  <2> DEFINE exact == p.price * (100 - p.off) * qty
             total == computeOrderTotal(p, qty, code)
  <2>3. /\ total \in 0 .. p.price * qty
        /\ code.type = "PERCENT" =>
             Within(10000 * total, exact * (100 - code.value), 50 * qty * (100 - code.value) + 5000)
        /\ code.type # "PERCENT" =>
             Within(100 * total, IF exact >= 100 * code.value THEN exact - 100 * code.value ELSE 0,
                    50 * qty)
    BY <2>2, Total
  <2>4. bought.amount = total /\ bought.qty = qty /\ bought.code = code /\ bought.of = p
    BY <2>1
  <2>5. TotalIsExact
    BY <2>3, <2>4 DEF TotalIsExact
  <2>6. p.price * qty \in Nat
    BY <2>2
  <2> QED
    BY <2>2, <2>3, <2>4, <2>5, <2>6
<1>2. bought = NoPurchase => TotalIsExact
  BY DEF TotalIsExact
<1>3. TagIsReadable
  <2> SUFFICES ASSUME asked.rail = "tron"
               PROVE  /\ usdt6ToUsdCents(asked.amount) = bought.amount
                      /\ tronTagOfAmountUsdt6(asked.amount) = asked.tag
    BY DEF TagIsReadable
  <2>1. bought # NoPurchase /\ bought.amount \in Nat
    BY <1>1 DEF Rows, NoAsk
  <2>2. PICK tag \in AmountTags :
          asked = [rail |-> "tron", tag |-> tag, amount |-> tronTaggedAmountUsdt6(bought.amount, tag)]
    BY DEF Rows, NoAsk
  <2>3. tag \in 1 .. TRON_TAG_MAX
    BY DEF Constants
  <2>4. asked.amount = tronTaggedAmountUsdt6(bought.amount, tag) /\ asked.tag = tag
    BY <2>2
  <2> QED
    BY <2>1, <2>3, <2>4, TagRoundTrip
<1>4. StarsAreTheTotal
  <2> SUFFICES ASSUME asked.rail = "stars"
               PROVE  LET per == starsPerCent(asked.of, bought.qty, asked.rate)
                      IN  \/ asked.amount = 1
                          \/ Within(2 * asked.amount * per.cents, 2 * per.stars * bought.amount, per.cents)
    BY DEF StarsAreTheTotal, starsPerCent
  <2>1. bought # NoPurchase /\ bought.amount \in Nat /\ bought.qty \in Nat \ {0}
    BY <1>1 DEF Rows, NoAsk
  <2>2. PICK p \in Plans, rate \in StarRates :
          asked = [rail |-> "stars", of |-> p, rate |-> rate,
                   amount |-> amountStars(p, bought.amount, starsPerCent(p, bought.qty, rate))]
    BY DEF Rows, NoAsk
  <2>3. /\ p \in [price : Nat, off : 0 .. 100, stars : Nat]
        /\ rate \in [usd : Nat \ {0}, scale : Nat \ {0}]
    BY DEF Constants
  <2> DEFINE per == starsPerCent(p, bought.qty, rate)
  <2>4. per \in [stars : Nat, cents : Nat \ {0}]
    BY <2>1, <2>3, Fraction
  <2>5. asked.amount = amountStars(p, bought.amount, per) /\ asked.of = p /\ asked.rate = rate
    BY <2>2
  <2> HIDE DEF per
  <2>6. \/ asked.amount = 1
        \/ Within(2 * asked.amount * per.cents, 2 * per.stars * bought.amount, per.cents)
    BY <2>1, <2>3, <2>4, <2>5, StarsAreExact
  <2> QED
    BY <2>5, <2>6 DEF per
<1> QED
  BY <1>1, <1>2, <1>3, <1>4 DEF AskedIsOwed

\* The customer is asked for what the order costs.
THEOREM ChargedExactly == ASSUME Constants PROVE Spec => []AskedIsOwed
<1>1. Rows => AskedIsOwed
  BY RowsAreExact
<1> QED
  BY <1>1, RowsInductive, PTL

=============================================================================
