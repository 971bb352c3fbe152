---------------------------- MODULE MCFulfillment ----------------------------
(***************************************************************************)
(* Two orders for two items, and for one: kinds, rails and buyers chosen   *)
(* so that every handler meets every other one on the same order, and two  *)
(* orders meet over one stock.                                             *)
(***************************************************************************)
EXTENDS Fulfillment, TLC

CONSTANTS p1, p2, o1, o2, i1, i2, t1, t2, ann

AllTerms == {[o \in Orders |-> t] : t \in Terms}
\* Any first order beside a second one that is sold from the pool.
BesideAPool == {[o \in Orders |-> IF o = o1 THEN t ELSE [kind |-> "pool", rail |-> "balance"]] :
                t \in Terms}
Sold(how) == {[o \in Orders |-> [kind |-> how, rail |-> "balance"]]}
FromPool == Sold("pool")
ByHand == Sold("manual")
MCBuyer == [o \in Orders |-> ann]

Symmetry == Permutations(Procs)
StockSymmetry == Permutations(Procs) \cup Permutations(Orders) \cup Permutations(Items)
=============================================================================
