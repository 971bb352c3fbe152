------------------------------ MODULE MCLedger ------------------------------
(***************************************************************************)
(* Two processes, a buyer with three keys and a buyer with one: a top-up   *)
(* that covers one of two orders debited at the same time, a retry of one  *)
(* key, and two balances that do not mix.                                  *)
(***************************************************************************)
EXTENDS Ledger, TLC

CONSTANTS p1, p2, ann, bob, order, topup, second, bonus

MCKeyUser == [k \in Keys |-> IF k = bonus THEN bob ELSE ann]
=============================================================================
