------------------------------ MODULE Accounts ------------------------------
(***************************************************************************)
(* What packages/core/src/ledger.ts promises its callers, with every       *)
(* mechanism (advisory lock, idempotency records, statements) abstracted   *)
(* away: an account per user that never goes below zero, and a set of      *)
(* idempotency keys each of which moves money at most once.  One step      *)
(* posts everything one database transaction booked for one user.          *)
(***************************************************************************)
EXTENDS Integers

CONSTANTS Users,   \* buyers
          Keys,    \* idempotency keys
          KeyUser  \* the user whose money a key moves

VARIABLES balance, \* balance[u]: cents on the user's internal balance
          posted   \* keys already booked

vars == <<balance, posted>>

Init == /\ balance = [u \in Users |-> 0]
        /\ posted = {}

\* A transaction books the new keys ks for user u.
Post(u, ks) ==
    /\ ks # {}
    /\ ks \cap posted = {}
    /\ \A k \in ks : KeyUser[k] = u
    /\ posted' = posted \cup ks
    /\ balance' \in [Users -> Int]
    /\ balance'[u] >= 0
    /\ \A v \in Users \ {u} : balance'[v] = balance[v]

Next == \E u \in Users, ks \in SUBSET Keys : Post(u, ks)

Spec == Init /\ [][Next]_vars
=============================================================================
