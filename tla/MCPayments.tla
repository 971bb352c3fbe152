----------------------------- MODULE MCPayments -----------------------------
(***************************************************************************)
(* One CryptoBot invoice of one order, one webhook at a time, no faults.   *)
(***************************************************************************)
EXTENDS Payments, TLC

CONSTANTS invoice, hook

MCRail == [p \in Payments |-> "crypto"]
=============================================================================
