------------------------------ MODULE TronTags ------------------------------
(***************************************************************************)
(* The sub-cent tag that tells open TRON invoices apart: allocateTronTag() *)
(* of apps/bot/src/payments/tron.ts and createTronPayment() of             *)
(* apps/bot/src/domain/payments.ts, against the rows in Postgres and the   *)
(* reservations in Redis.                                                  *)
(*                                                                         *)
(* Time is counted in ticks.  A row and a reservation both count for Hold  *)
(* ticks, but the reservation is older than the row.                       *)
(***************************************************************************)
EXTENDS Naturals

CONSTANTS Issuers,   \* checkouts that want a TRON invoice
          Tags,
          Hold,      \* window and grace
          Patience,  \* ticks between a checkout's read of the rows and its insert
          EndOfTime,
          NoTag

\* What the constants are assumed to be: a tag is held for much longer than two
\* requests take.
Constants ==
  /\ NoTag \notin Tags
  /\ Hold \in Nat /\ EndOfTime \in Nat /\ Patience \in Nat /\ 2 * Patience < Hold

VARIABLES
  clock,
  issued,    \* the invoice of a checkout: tag, createdAt, and whether it is open
  reserved,  \* when the reservation of a tag ends; 0 when there is none
  issuer     \* what a checkout has seen: the tags it may try, and when

vars == <<clock, issued, reserved, issuer>>

NoInvoice == [tag |-> NoTag, at |-> 0, open |-> FALSE]
Fresh == [at |-> "begin", free |-> {}, since |-> 0, tag |-> NoTag]

TypeOK ==
  /\ clock \in 0 .. EndOfTime
  /\ issued \in [Issuers -> [tag : Tags \cup {NoTag}, at : 0 .. EndOfTime, open : BOOLEAN]]
  /\ reserved \in [Tags -> 0 .. EndOfTime + Hold]
  /\ issuer \in [Issuers -> [at : {"begin", "reserve", "insert", "done"}, free : SUBSET Tags,
                             since : 0 .. EndOfTime, tag : Tags \cup {NoTag}]]

Init ==
  /\ clock = 0 /\ issued = [i \in Issuers |-> NoInvoice]
  /\ reserved = [t \in Tags |-> 0] /\ issuer = [i \in Issuers |-> Fresh]

\* An invoice of TRON_OPEN_STATUSES that is not older than window and grace.
Held(i) == issued[i].open /\ clock <= issued[i].at + Hold

\* A request does not outlive Patience.
Tick ==
  /\ clock < EndOfTime /\ clock' = clock + 1
  /\ \A i \in Issuers : issuer[i].at \in {"reserve", "insert"} => clock < issuer[i].since + Patience
  /\ UNCHANGED <<issued, reserved, issuer>>

\* Variant: only the reservations keep tags apart.
takenNone == {}

taken == {issued[i].tag : i \in {i \in Issuers : Held(i)}}

\* Without a free tag, a TronTagsExhaustedError.
ReadOpen(i) ==
  /\ issuer[i].at = "begin"
  /\ issuer' = [issuer EXCEPT ![i] =
       IF Tags \subseteq taken THEN [@ EXCEPT !.at = "done"]
       ELSE [at |-> "reserve", free |-> Tags \ taken, since |-> clock, tag |-> NoTag]]
  /\ UNCHANGED <<clock, issued, reserved>>

\* SET NX PX of the tags that were free, in any order; the last refusal is an error.
Reserve(i) ==
  /\ issuer[i].at = "reserve"
  /\ \E t \in issuer[i].free :
       IF reserved[t] <= clock
       THEN /\ reserved' = [reserved EXCEPT ![t] = clock + Hold]
            /\ issuer' = [issuer EXCEPT ![i].at = "insert", ![i].tag = t, ![i].free = {}]
       ELSE /\ issuer' = [issuer EXCEPT ![i].free = @ \ {t},
                            ![i].at = IF issuer[i].free = {t} THEN "done" ELSE "reserve"]
            /\ UNCHANGED reserved
  /\ UNCHANGED <<clock, issued>>

InsertInvoice(i) ==
  /\ issuer[i].at = "insert"
  /\ issued' = [issued EXCEPT ![i] = [tag |-> issuer[i].tag, at |-> clock, open |-> TRUE]]
  /\ issuer' = [issuer EXCEPT ![i].at = "done"]
  /\ UNCHANGED <<clock, reserved>>

\* Redis does not answer, or the request dies: no invoice.
Refuse(i) ==
  /\ issuer[i].at \in {"reserve", "insert"}
  /\ issuer' = [issuer EXCEPT ![i] = [Fresh EXCEPT !.at = "done"]]
  /\ UNCHANGED <<clock, issued, reserved>>

\* The invoice is settled.
Settle(i) ==
  /\ issued[i].open /\ issued' = [issued EXCEPT ![i].open = FALSE]
  /\ UNCHANGED <<clock, reserved, issuer>>

Next ==
  \/ Tick
  \/ \E i \in Issuers : ReadOpen(i) \/ Reserve(i) \/ InsertInvoice(i) \/ Refuse(i) \/ Settle(i)

Spec == Init /\ [][Next]_vars

-----------------------------------------------------------------------------
\* No two open invoices have one tag: two checkouts at once are kept apart by the
\* reservations, and when a reservation ends before its invoice, by the rows.
TagsAreUnique == \A i, j \in Issuers :
  i # j /\ Held(i) /\ Held(j) => issued[i].tag # issued[j].tag

=============================================================================
