--------------------------- MODULE MCSubscriptions ---------------------------
(***************************************************************************)
(* A plan of two days that is bought twice and renewed.                    *)
(***************************************************************************)
EXTENDS Subscriptions, TLC

CONSTANTS first, second, third, buyer

=============================================================================
