---------------------------- MODULE Promos_proofs ----------------------------
(***************************************************************************)
(* What the counter of a promo code promises, for any number of orders,    *)
(* handlers and uses: the lock of the promo's row is held from the claim   *)
(* or the release of a use to the end of its transaction.                  *)
(***************************************************************************)
EXTENDS Promos, FiniteSetTheorems, TLAPS

LiveOrders == {k \in Requests : placed[k] \in Live}

\* A handler that ends an order.
Ends(c, k) == shopper[c].at \in {"release", "close"} /\ request(c) = k

\* What a handler relies on: the lock, with the use that it saw free or taken,
\* and, when it ends an order, that the order is live and its own to end.
Good(c) ==
  /\ holder = c <=> shopper[c].at \in {"insert", "close"}
  /\ ~At(c, "idle") => request(c) \in Requests
  /\ At(c, "insert") => shopper[c].delta = 1 /\ used < MaxUses
  /\ At(c, "close") => shopper[c].delta = 1
  /\ shopper[c].at \in {"release", "close"} => placed[request(c)] \in Live

IInv ==
  /\ TypeOK /\ UsesAreLiveOrders
  /\ \A c \in Shoppers : Good(c)
  /\ \A c, d \in Shoppers, k \in Requests : Ends(c, k) /\ Ends(d, k) => c = d

\* How many orders are live, when one order changes.
LEMMA CountLive ==
  ASSUME Constants, TypeOK, NEW k \in Requests, NEW status, status # placed[k],
         placed' = [placed EXCEPT ![k] = status]
  PROVE  /\ Cardinality(LiveOrders) \in 0 .. Cardinality(Requests)
         /\ placed[k] \notin Live /\ status \in Live
              => Cardinality(LiveOrders') = Cardinality(LiveOrders) + 1
         /\ placed[k] \in Live /\ status \notin Live
              => Cardinality(LiveOrders') = Cardinality(LiveOrders) - 1 /\ Cardinality(LiveOrders) # 0
         /\ placed[k] \in Live /\ status \in Live => LiveOrders' = LiveOrders
<1>1. IsFiniteSet(LiveOrders) /\ Cardinality(LiveOrders) \in 0 .. Cardinality(Requests)
  BY FS_Subset, FS_CardinalityType DEF Constants, LiveOrders
<1>2. ASSUME placed[k] \notin Live, status \in Live
      PROVE  Cardinality(LiveOrders') = Cardinality(LiveOrders) + 1
  <2>1. LiveOrders' = LiveOrders \cup {k} /\ k \notin LiveOrders
    BY <1>2 DEF LiveOrders, TypeOK
  <2> QED
    BY <1>1, <2>1, FS_AddElement
<1>3. ASSUME placed[k] \in Live, status \notin Live
      PROVE  Cardinality(LiveOrders') = Cardinality(LiveOrders) - 1 /\ Cardinality(LiveOrders) # 0
  <2>1. LiveOrders' = LiveOrders \ {k} /\ k \in LiveOrders
    BY <1>3 DEF LiveOrders, TypeOK
  <2> QED
    BY <1>1, <2>1, FS_RemoveElement, FS_EmptySet
<1>4. ASSUME placed[k] \in Live, status \in Live PROVE LiveOrders' = LiveOrders
  BY <1>4 DEF LiveOrders, TypeOK
<1> QED
  BY <1>1, <1>2, <1>3, <1>4

LEMMA AwayIsFree ==
  ASSUME Cardinality(Requests) \in Nat
  PROVE  /\ Away \in [at : {"idle", "claim", "insert", "release", "close"},
                      request : Requests \cup {NoRequest},
                      saw : 0 .. Cardinality(Requests), delta : {0, 1}]
         /\ Away.at = "idle" /\ Away.request = NoRequest
  BY DEF Away

LEMMA TakesLock ==
  ASSUME TypeOK, NEW c \in Shoppers, shopper' = [shopper EXCEPT ![c].at = "close", ![c].delta = 1]
  PROVE  shopper' \in [Shoppers -> [at : {"idle", "claim", "insert", "release", "close"},
                                    request : Requests \cup {NoRequest},
                                    saw : 0 .. Cardinality(Requests), delta : {0, 1}]]
<1> DEFINE new == [shopper[c] EXCEPT !.at = "close", !.delta = 1]
<1>1. new \in [at : {"idle", "claim", "insert", "release", "close"}, request : Requests \cup {NoRequest},
               saw : 0 .. Cardinality(Requests), delta : {0, 1}]
  BY DEF TypeOK
<1>2. shopper' = [shopper EXCEPT ![c] = new]
  BY DEF TypeOK
<1> QED
  BY <1>1, <1>2 DEF TypeOK

LEMMA Initially == ASSUME Constants PROVE Init => IInv
<1> SUFFICES ASSUME Init PROVE IInv
  OBVIOUS
<1>1. LiveOrders = {}
  BY DEF Init, LiveOrders, Live
<1>2. Cardinality(Requests) \in Nat /\ Cardinality({}) = 0
  BY FS_CardinalityType, FS_EmptySet DEF Constants
<1> QED
  BY <1>1, <1>2 DEF Constants, Init, IInv, TypeOK, Live, Away, NoShopper, UsesAreLiveOrders, LiveOrders,
                    Good, At, request, Ends

\* A step that leaves the counter and the orders alone.
LEMMA Handling ==
  ASSUME Constants, IInv, NEW c \in Shoppers,
         \/ Rollback(c) \/ claimPromoUse(c) \/ releasePromoUse(c)
         \/ \E k \in Requests : FindExisting(c, k) \/ FindLive(c, k)
  PROVE  IInv'
<1>1. used' = used /\ placed' = placed /\ \A d \in Shoppers \ {c} : shopper'[d] = shopper[d]
  BY DEF IInv, TypeOK, Rollback, Leave, claimPromoUse, releasePromoUse, FindExisting, FindLive
<1>2. UsesAreLiveOrders'
  BY <1>1 DEF IInv, UsesAreLiveOrders
<1>3. used # 0 \/ ~At(c, "release")
  <2>1. ASSUME At(c, "release") PROVE request(c) \in LiveOrders
    BY <2>1 DEF IInv, Good, At, LiveOrders
  <2>2. IsFiniteSet(LiveOrders)
    BY FS_Subset DEF Constants, LiveOrders
  <2> QED
    BY <2>1, <2>2, FS_EmptySet DEF IInv, UsesAreLiveOrders, LiveOrders
<1>4. TypeOK' /\ Good(c)' /\ (\A d \in Shoppers \ {c} : (holder' = d) <=> (holder = d))
      /\ \A k \in Requests : Ends(c, k)' => Ends(c, k) \/ \A d \in Shoppers : ~Ends(d, k)
  <2> DEFINE Goal == TypeOK' /\ Good(c)' /\ (\A d \in Shoppers \ {c} : (holder' = d) <=> (holder = d))
                     /\ \A k \in Requests : Ends(c, k)' => Ends(c, k) \/ \A d \in Shoppers : ~Ends(d, k)
  <2> USE <1>1, <1>3 DEF IInv, TypeOK, Good, Ends, At, request, Constants, Live, NoShopper
  <2>0. Cardinality(Requests) \in Nat
    BY FS_CardinalityType
  <2>1. CASE Rollback(c)
    BY <2>0, <2>1, AwayIsFree DEF Rollback, Leave, Release
  <2>2. CASE claimPromoUse(c)
    <3>1. CASE HasUses(c)
      BY <2>0, <2>2, <3>1 DEF claimPromoUse, HasUses
    <3>2. CASE ~HasUses(c)
      <4>1. shopper' = [shopper EXCEPT ![c] = Away] /\ holder = NoShopper /\ holder' = NoShopper
        BY <2>2, <3>2 DEF claimPromoUse, Leave, Release
      <4>2. TypeOK'
        BY <2>0, <4>1, AwayIsFree
      <4>3. Good(c)' /\ \A k \in Requests : ~Ends(c, k)'
        BY <2>0, <4>1, AwayIsFree
      <4> QED
        BY <4>1, <4>2, <4>3
    <3> QED
      BY <3>1, <3>2
  <2>3. CASE releasePromoUse(c)
    <3>1. used > 0
      BY <2>0, <2>3 DEF releasePromoUse
    <3>2. /\ shopper' = [shopper EXCEPT ![c].at = "close", ![c].delta = 1]
          /\ holder = NoShopper /\ holder' = c /\ At(c, "release")
      BY <2>3, <3>1 DEF releasePromoUse
    <3>3. Good(c)' /\ \A k \in Requests : Ends(c, k)' => Ends(c, k)
      BY <3>2
    <3>4. TypeOK'
      BY <3>2, TakesLock
    <3> QED
      BY <3>2, <3>3, <3>4
  <2>4. ASSUME NEW k \in Requests, FindExisting(c, k) PROVE Goal
    <3> DEFINE new == [at |-> "claim", request |-> k, saw |-> used, delta |-> 0]
    <3>1. new \in [at : {"idle", "claim", "insert", "release", "close"},
                   request : Requests \cup {NoRequest},
                   saw : 0 .. Cardinality(Requests), delta : {0, 1}]
      BY <2>0
    <3>2. new.at = "claim" /\ new.request = k
      OBVIOUS
    <3>3. shopper' = [shopper EXCEPT ![c] = new] /\ holder' = holder /\ At(c, "idle")
      BY <2>4 DEF FindExisting
    <3> HIDE DEF new
    <3> QED
      BY <2>0, <3>1, <3>2, <3>3
  <2>5. ASSUME NEW k \in Requests, FindLive(c, k) PROVE Goal
    <3>1. holder' = holder /\ holder # c /\ \A d \in Shoppers : ~Ends(d, k)
      BY <2>5 DEF FindLive
    <3>2. shopper' = [shopper EXCEPT ![c] = [Away EXCEPT !.at = "release", !.request = k]]
      BY <2>5 DEF FindLive
    <3>3. TypeOK'
      BY <2>0, <3>1, <3>2, AwayIsFree
    <3>4. shopper'[c].at = "release" /\ shopper'[c].request = k
      BY <2>0, <3>2, AwayIsFree
    <3>5. Good(c)'
      BY <2>5, <3>1, <3>4 DEF FindLive
    <3>6. \A l \in Requests : Ends(c, l)' => l = k
      BY <3>4
    <3> QED
      BY <3>1, <3>3, <3>5, <3>6
  <2> QED
    BY <2>1, <2>2, <2>3, <2>4, <2>5
<1>5. ASSUME NEW d \in Shoppers \ {c} PROVE Good(d)'
  BY <1>1, <1>4 DEF IInv, Good, At, request
<1>6. \A d, e \in Shoppers, k \in Requests : Ends(d, k)' /\ Ends(e, k)' => d = e
  <2>1. ASSUME NEW d \in Shoppers \ {c}, NEW k \in Requests PROVE Ends(d, k)' <=> Ends(d, k)
    BY <1>1 DEF Ends, request
  <2> QED
    BY <1>4, <2>1 DEF IInv
<1> QED
  BY <1>2, <1>4, <1>5, <1>6 DEF IInv

\* The end of a transaction that creates an order or ends one, and a payment.
LEMMA Committing ==
  ASSUME Constants, IInv,
         \/ \E c \in Shoppers : InsertOrder(c) \/ CloseOrder(c)
         \/ \E k \in Requests : PayFor(k)
  PROVE  IInv'
<1> USE DEF Constants, IInv, TypeOK, Good, Ends, At, request, Live, NoShopper
<1>1. ASSUME NEW c \in Shoppers, InsertOrder(c), placed[request(c)] = "none" PROVE IInv'
  <2> DEFINE k == request(c)
  <2>1. /\ k \in Requests /\ placed' = [placed EXCEPT ![k] = "PENDING"] /\ used' = used + 1
        /\ used < MaxUses /\ holder = c /\ holder' = NoShopper /\ shopper' = [shopper EXCEPT ![c] = Away]
    BY <1>1 DEF InsertOrder, Leave, Release
  <2>2. Cardinality(LiveOrders') = used + 1
    BY <1>1, <2>1, CountLive DEF UsesAreLiveOrders, LiveOrders
  <2>3. TypeOK' /\ UsesAreLiveOrders'
    <3>1. placed' \in [Requests -> Live \cup {"none", "EXPIRED", "REFUNDED"}]
      BY <2>1
    <3>2. IsFiniteSet(LiveOrders') /\ Cardinality(LiveOrders') <= Cardinality(Requests)
      BY FS_Subset DEF LiveOrders
    <3>3. used + 1 <= Cardinality(Requests) /\ Cardinality(Requests) \in Nat
      BY <2>2, <3>2, FS_CardinalityType
    <3> QED
      BY <2>1, <2>2, <3>1, <3>3 DEF UsesAreLiveOrders, LiveOrders, Away
  <2>4. \A d \in Shoppers : Good(d)'
    BY <2>1 DEF Away
  <2>5. \A d, e \in Shoppers, l \in Requests : Ends(d, l)' /\ Ends(e, l)' => d = e
    BY <2>1 DEF Away
  <2> QED
    BY <2>3, <2>4, <2>5
<1>2. ASSUME NEW c \in Shoppers, InsertOrder(c), placed[request(c)] # "none" PROVE IInv'
  <2>1. /\ placed' = placed /\ used' = used /\ holder = c /\ holder' = NoShopper
        /\ shopper' = [shopper EXCEPT ![c] = Away]
    BY <1>2 DEF InsertOrder, Leave, Release
  <2>2. TypeOK' /\ UsesAreLiveOrders'
    <3>1. Cardinality(Requests) \in Nat
      BY FS_CardinalityType
    <3> QED
      BY <2>1, <3>1 DEF UsesAreLiveOrders, Away
  <2> QED
    BY <2>1, <2>2 DEF Away
<1>3. ASSUME NEW c \in Shoppers, CloseOrder(c) PROVE IInv'
  <2> DEFINE k == request(c)
  <2>1. PICK status \in {"EXPIRED", "REFUNDED"} :
        /\ k \in Requests /\ placed[k] \in Live /\ placed' = [placed EXCEPT ![k] = status]
        /\ used' = used - 1 /\ holder = c /\ holder' = NoShopper
        /\ shopper' = [shopper EXCEPT ![c] = Away]
    BY <1>3 DEF CloseOrder, Leave, Release
  <2>2. Cardinality(LiveOrders') = used - 1 /\ used # 0
    <3>1. status \notin Live /\ status # placed[k]
      BY <2>1
    <3> QED
      BY <2>1, <3>1, CountLive DEF UsesAreLiveOrders, LiveOrders
  <2>3. TypeOK' /\ UsesAreLiveOrders'
    <3>1. Cardinality(Requests) \in Nat
      BY FS_CardinalityType
    <3> QED
      BY <2>1, <2>2, <3>1 DEF UsesAreLiveOrders, LiveOrders, Away
  <2>4. ASSUME NEW d \in Shoppers PROVE Good(d)'
    <3>1. CASE d = c
      BY <2>1, <3>1 DEF Away
    <3>2. CASE d # c
      <4>1. shopper'[d] = shopper[d] /\ holder # d /\ holder' # d
        BY <2>1, <3>2
      <4>2. shopper[d].at \in {"release", "close"} => request(d) # k
        BY <1>3, <3>2 DEF CloseOrder
      <4> QED
        BY <2>1, <4>1, <4>2
    <3> QED
      BY <3>1, <3>2
  <2> QED
    BY <2>1, <2>3, <2>4 DEF Away
<1>4. ASSUME NEW k \in Requests, PayFor(k) PROVE IInv'
  <2>1. LiveOrders' = LiveOrders
    BY <1>4, CountLive DEF PayFor
  <2>2. UsesAreLiveOrders'
    BY <1>4, <2>1 DEF UsesAreLiveOrders, LiveOrders, PayFor
  <2> QED
    BY <1>4, <2>2 DEF PayFor
<1> QED
  BY <1>1, <1>2, <1>3, <1>4

\* One step of anybody.
LEMMA Inductive == ASSUME Constants, IInv, [Next]_vars PROVE IInv'
<1>1. CASE UNCHANGED vars
  BY <1>1 DEF vars, IInv, TypeOK, UsesAreLiveOrders, Good, At, request, Ends
<1> QED
  BY <1>1, Handling, Committing DEF Next

\* Every behaviour keeps the invariant.
THEOREM InductiveInvariant == ASSUME Constants PROVE Spec => []IInv
<1>1. Init => IInv
  BY Initially
<1>2. IInv /\ [Next]_vars => IInv'
  BY Inductive
<1> QED
  BY <1>1, <1>2, PTL DEF Spec

\* The counter is the number of the live orders that use the code, and within its
\* limit: a claim sees the committed count, and nobody else commits before it does
\* (claimPromoUse, releasePromoUse).
THEOREM UsesAreCounted == ASSUME Constants PROVE Spec => []UsesAreLiveOrders
<1>1. IInv => UsesAreLiveOrders
  BY DEF IInv
<1> QED
  BY <1>1, InductiveInvariant, PTL

=============================================================================
