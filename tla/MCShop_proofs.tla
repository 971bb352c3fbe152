---------------------------- MODULE MCShop_proofs ----------------------------
(***************************************************************************)
(* What the runs of module MCShop check on one small instance, for any     *)
(* sets of processes, payments, orders, codes, tags and plans.  What was   *)
(* proved of a component alone holds of it here; the referral bonus, the   *)
(* TRON tags, the delivery queue and the types are proved here.            *)
(***************************************************************************)
EXTENDS MCShop, TronSettlement_proofs, FiniteSetTheorems, TLAPS

-----------------------------------------------------------------------------
(* The referral bonus.  Dead orders stay dead, and of the orders that have *)
(* a bonus, or are about to get one, all but one are dead.                 *)

Dead(o) == standing[o] \in {"FAILED", "REFUNDED"}
Earning == bonuses \cup {creditor[c].order : c \in {c \in Processes : creditor[c].at = "credit"}}

BonusInv ==
  /\ Bonus!TypeOK
  /\ \A c \in Processes : creditor[c].at # "idle" =>
       creditor[c].order \in Buyouts /\ standing[creditor[c].order] # "PENDING"
  /\ \A o \in bonuses : standing[o] # "PENDING"
  /\ \A o, p \in Earning : o # p => Dead(o) \/ Dead(p)

LEMMA BonusInitially == Bonus!Init => BonusInv
  BY DEF Bonus!Init, BonusInv, Bonus!TypeOK, Bonus!NoErrand, Earning

LEMMA BonusAdvances ==
  ASSUME BonusInv, NEW o \in Buyouts, Bonus!Advance(o) PROVE BonusInv'
<1>0. PICK next \in {<<"PENDING", "PAID">>, <<"PAID", "DELIVERED">>, <<"PAID", "FAILED">>,
                    <<"DELIVERED", "REFUNDED">>, <<"FAILED", "REFUNDED">>} :
        standing[o] = next[1] /\ standing' = [standing EXCEPT ![o] = next[2]]
  BY DEF Bonus!Advance
<1>1. /\ next[2] \in {"PAID", "DELIVERED", "FAILED", "REFUNDED"}
      /\ next[1] \in {"FAILED", "REFUNDED"} => next[2] \in {"FAILED", "REFUNDED"}
  OBVIOUS
<1>2. UNCHANGED <<bonuses, creditor>>
  BY DEF Bonus!Advance
<1>3. /\ standing' \in [Buyouts -> {"PENDING", "PAID", "DELIVERED", "FAILED", "REFUNDED"}]
      /\ \A p \in Buyouts : (Dead(p) => Dead(p)') /\ (standing'[p] = "PENDING" => standing[p] = "PENDING")
  BY <1>0, <1>1 DEF BonusInv, Bonus!TypeOK, Dead
<1>4. Earning \subseteq Buyouts /\ Earning' = Earning
  BY <1>2 DEF BonusInv, Bonus!TypeOK, Earning
<1> QED
  BY <1>2, <1>3, <1>4 DEF BonusInv, Bonus!TypeOK

\* A handler is about to credit its order: the others that count are dead.
LEMMA BonusHandled ==
  ASSUME Bonus!Constants, BonusInv, NEW c \in Processes,
         \/ Bonus!ReadOrder(c) \/ Bonus!CountPrior(c) \/ Bonus!CreditBonus(c) \/ Bonus!GiveUp(c)
         \/ \E o \in Buyouts : Bonus!Begin(c, o)
  PROVE  BonusInv'
<1> DEFINE Errands == [at : {"idle", "read", "count", "credit"}, order : Buyouts \cup {NoBuyout}]
<1>1. Bonus!NoErrand \in Errands /\ Bonus!NoErrand.at = "idle"
  BY DEF Bonus!NoErrand
<1>2. /\ standing' = standing /\ creditor' \in [Processes -> Errands]
      /\ \A d \in Processes \ {c} : creditor'[d] = creditor[d]
      /\ creditor'[c].at # "idle" => creditor'[c].order \in Buyouts /\ standing[creditor'[c].order] # "PENDING"
  <2> USE <1>1 DEF BonusInv, Bonus!TypeOK, Bonus!Drop, Bonus!Goto, Bonus!At, Bonus!theOrder
  <2>1. CASE Bonus!ReadOrder(c)
    BY <2>1 DEF Bonus!ReadOrder
  <2>2. CASE Bonus!CountPrior(c)
    BY <2>2 DEF Bonus!CountPrior
  <2>3. CASE Bonus!CreditBonus(c)
    BY <2>3 DEF Bonus!CreditBonus
  <2>4. CASE Bonus!GiveUp(c)
    BY <2>4 DEF Bonus!GiveUp
  <2>5. ASSUME NEW o \in Buyouts, Bonus!Begin(c, o)
        PROVE  /\ standing' = standing /\ creditor' \in [Processes -> Errands]
               /\ \A d \in Processes \ {c} : creditor'[d] = creditor[d]
               /\ creditor'[c].at # "idle" =>
                    creditor'[c].order \in Buyouts /\ standing[creditor'[c].order] # "PENDING"
    BY <2>5 DEF Bonus!Begin
  <2> QED
    BY <2>1, <2>2, <2>3, <2>4, <2>5
<1>3. bonuses' \subseteq Buyouts /\ \A o \in bonuses' : standing[o] # "PENDING"
  BY DEF BonusInv, Bonus!TypeOK, Bonus!ReadOrder, Bonus!CountPrior, Bonus!CreditBonus, Bonus!GiveUp,
         Bonus!Begin, Bonus!At, Bonus!theOrder
<1>4. \/ Earning' \subseteq Earning
      \/ \A p \in Buyouts \ {creditor'[c].order} : standing[p] \in {"PENDING", "FAILED", "REFUNDED"}
  <2> USE <1>1, <1>2 DEF BonusInv, Bonus!TypeOK, Bonus!Drop, Bonus!Goto, Bonus!At, Bonus!theOrder, Earning
  <2>1. CASE Bonus!ReadOrder(c)
    BY <2>1 DEF Bonus!ReadOrder
  <2>2. CASE Bonus!CountPrior(c)
    <3>1. CASE Bonus!priorPaidOrders(c) = {}
      BY <2>2, <3>1 DEF Bonus!CountPrior, Bonus!priorPaidOrders, Bonus!PAID_STATUSES
    <3>2. CASE Bonus!priorPaidOrders(c) # {}
      BY <2>2, <3>2 DEF Bonus!CountPrior
    <3> QED
      BY <3>1, <3>2
  <2>3. CASE Bonus!CreditBonus(c)
    BY <2>3 DEF Bonus!CreditBonus
  <2>4. CASE Bonus!GiveUp(c)
    BY <2>4 DEF Bonus!GiveUp
  <2>5. ASSUME NEW o \in Buyouts, Bonus!Begin(c, o) PROVE Earning' \subseteq Earning
    BY <2>5 DEF Bonus!Begin
  <2> QED
    BY <2>1, <2>2, <2>3, <2>4, <2>5
<1>5. Earning' \subseteq {o \in Buyouts : standing[o] # "PENDING"} /\ \A o : Dead(o)' <=> Dead(o)
  BY <1>2, <1>3 DEF BonusInv, Earning, Dead
<1>6. \A o, p \in Earning' : o # p => Dead(o) \/ Dead(p)
  <2>1. CASE Earning' \subseteq Earning
    BY <2>1 DEF BonusInv
  <2>2. CASE \A p \in Buyouts \ {creditor'[c].order} : standing[p] \in {"PENDING", "FAILED", "REFUNDED"}
    BY <1>5, <2>2 DEF Dead
  <2> QED
    BY <1>4, <2>1, <2>2
<1> QED
  BY <1>2, <1>3, <1>5, <1>6 DEF BonusInv, Bonus!TypeOK

LEMMA BonusInductive == ASSUME Bonus!Constants, BonusInv, [Bonus!Next]_bonusVars PROVE BonusInv'
<1>1. CASE UNCHANGED bonusVars
  BY <1>1 DEF bonusVars, BonusInv, Bonus!TypeOK, Earning, Dead
<1> QED
  BY <1>1, BonusAdvances, BonusHandled DEF Bonus!Next

-----------------------------------------------------------------------------
(* The TRON tags.  A checkout that waits for its insert has its tag to     *)
(* itself: a reservation outlives it, and an open invoice that its read    *)
(* has missed is so recent that the reservation of that one still stands.  *)

Waiting(i) == issuer[i].at \in {"reserve", "insert"}

\* What a checkout knows of its own, whatever the others do.
Prudent(i) ==
  /\ issuer[i].at # "done" => ~issued[i].open
  /\ Waiting(i) => issuer[i].since <= clock /\ clock <= issuer[i].since + Patience
  /\ issuer[i].at = "insert" => /\ issuer[i].tag \in Tags
                               /\ reserved[issuer[i].tag] >= issuer[i].since + Hold
  /\ issued[i].open => /\ issued[i].tag \in Tags
                       /\ reserved[issued[i].tag] + Patience >= issued[i].at + Hold

\* Of two checkouts: what one is about to insert no other holds or inserts, and
\* what it takes for free no other has held since before it looked.
Apart(i, j) ==
  /\ issuer[i].at = "insert" /\ issuer[j].at = "insert" => issuer[i].tag # issuer[j].tag
  /\ issuer[i].at = "insert" /\ Allocate!Held(j) => issuer[i].tag # issued[j].tag
  /\ issuer[i].at = "reserve" /\ Allocate!Held(j) /\ issued[j].tag \in issuer[i].free
       => issued[j].at >= issuer[i].since
  /\ Allocate!Held(i) /\ Allocate!Held(j) => issued[i].tag # issued[j].tag

TagInv ==
  /\ Allocate!TypeOK
  /\ \A i \in Issuers : Prudent(i)
  /\ \A i, j \in Issuers : i # j => Apart(i, j)

\* The two things a SET NX can answer.
TagTaken(i, t) ==
  /\ reserved[t] <= clock /\ reserved' = [reserved EXCEPT ![t] = clock + Hold]
  /\ issuer' = [issuer EXCEPT ![i].at = "insert", ![i].tag = t, ![i].free = {}]
TagRefused(i, t) ==
  /\ UNCHANGED reserved
  /\ issuer' = [issuer EXCEPT ![i].free = @ \ {t},
                   ![i].at = IF issuer[i].free = {t} THEN "done" ELSE "reserve"]

LEMMA ClosedRow ==
  ASSUME NEW T, NEW A, NEW r \in [tag : T, at : A, open : BOOLEAN]
  PROVE  [r EXCEPT !.open = FALSE] \in [tag : T, at : A, open : BOOLEAN] /\ ~[r EXCEPT !.open = FALSE].open
  OBVIOUS

LEMMA TagInitially == Allocate!Constants /\ Allocate!Init => TagInv
  BY DEF Allocate!Constants, Allocate!Init, Allocate!NoInvoice, Allocate!Fresh, Allocate!TypeOK, TagInv,
         Prudent, Waiting, Apart, Allocate!Held

LEMMA TagTick == ASSUME Allocate!Constants, TagInv, Allocate!Tick PROVE TagInv'
<1> USE DEF Allocate!Constants, TagInv, Allocate!TypeOK, Allocate!Tick
<1>1. Allocate!TypeOK'
  OBVIOUS
<1>2. ASSUME NEW i \in Issuers PROVE Prudent(i)'
  BY DEF Prudent, Waiting
<1>3. ASSUME NEW i \in Issuers PROVE Allocate!Held(i)' => Allocate!Held(i)
  BY DEF Allocate!Held
<1>4. ASSUME NEW i \in Issuers, NEW j \in Issuers, i # j PROVE Apart(i, j)'
  BY <1>3, <1>4 DEF Apart
<1> QED
  BY <1>1, <1>2, <1>4

\* A step of checkout i leaves what the others are and have, and no reservation
\* ends before its time.
LEMMA TagMoves ==
  ASSUME Allocate!Constants, TagInv, NEW i \in Issuers,
         \/ Allocate!ReadOpen(i) \/ Allocate!Reserve(i) \/ Allocate!InsertInvoice(i)
         \/ Allocate!Refuse(i) \/ Allocate!Settle(i)
  PROVE  /\ Allocate!TypeOK' /\ clock' = clock
         /\ \A j \in Issuers \ {i} : issued'[j] = issued[j] /\ issuer'[j] = issuer[j]
         /\ \A t \in Tags : reserved'[t] >= reserved[t]
         /\ Prudent(i)'
<1> DEFINE Goal == /\ Allocate!TypeOK' /\ clock' = clock
                   /\ \A j \in Issuers \ {i} : issued'[j] = issued[j] /\ issuer'[j] = issuer[j]
                   /\ \A t \in Tags : reserved'[t] >= reserved[t]
                   /\ Prudent(i)'
           Callers == [at : {"begin", "reserve", "insert", "done"}, free : SUBSET Tags,
                       since : 0 .. EndOfTime, tag : Tags \cup {NoTag}]
           Invoiced == [tag : Tags \cup {NoTag}, at : 0 .. EndOfTime, open : BOOLEAN]
<1> USE DEF Allocate!Constants, TagInv, Allocate!TypeOK, Prudent, Waiting
<1>1. CASE Allocate!ReadOpen(i)
  <2> DEFINE new == [at |-> "reserve", free |-> Tags \ Allocate!taken, since |-> clock, tag |-> NoTag]
  <2>1. new \in Callers /\ new.at = "reserve" /\ new.since = clock
    OBVIOUS
  <2> HIDE DEF new
  <2>2. CASE Tags \subseteq Allocate!taken
    <3>1. issuer' = [issuer EXCEPT ![i] = [issuer[i] EXCEPT !.at = "done"]]
      BY <1>1, <2>2 DEF Allocate!ReadOpen
    <3> QED
      BY <1>1, <3>1 DEF Allocate!ReadOpen
  <2>3. CASE ~(Tags \subseteq Allocate!taken)
    <3>1. issuer' = [issuer EXCEPT ![i] = new]
      BY <1>1, <2>3 DEF Allocate!ReadOpen, new
    <3> QED
      BY <1>1, <2>1, <3>1 DEF Allocate!ReadOpen
  <2> QED
    BY <2>2, <2>3
<1>2. CASE Allocate!Reserve(i)
  <2>1. PICK t \in issuer[i].free : TagTaken(i, t) \/ TagRefused(i, t)
    BY <1>2 DEF Allocate!Reserve, TagTaken, TagRefused
  <2>2. issuer[i].at = "reserve" /\ UNCHANGED <<clock, issued>> /\ t \in Tags
    BY <1>2 DEF Allocate!Reserve
  <2>3. CASE TagTaken(i, t)
    <3> DEFINE new == [issuer[i] EXCEPT !.at = "insert", !.tag = t, !.free = {}]
    <3>1. new \in Callers /\ new.at = "insert" /\ new.tag = t /\ new.since = issuer[i].since
      BY <2>2
    <3>2. issuer' = [issuer EXCEPT ![i] = new]
      BY <2>3 DEF TagTaken
    <3> HIDE DEF new
    <3> QED
      BY <2>2, <2>3, <3>1, <3>2 DEF TagTaken
  <2>4. CASE TagRefused(i, t)
    <3> DEFINE label == IF issuer[i].free = {t} THEN "done" ELSE "reserve"
               new == [issuer[i] EXCEPT !.free = @ \ {t}, !.at = label]
    <3>1. new \in Callers /\ new.at \in {"reserve", "done"} /\ new.since = issuer[i].since
      BY <2>2
    <3>2. issuer' = [issuer EXCEPT ![i] = new] /\ reserved' = reserved
      BY <2>4 DEF TagRefused
    <3> HIDE DEF new
    <3> QED
      BY <2>2, <3>1, <3>2
  <2> QED
    BY <2>1, <2>3, <2>4
<1>3. CASE Allocate!InsertInvoice(i)
  BY <1>3 DEF Allocate!InsertInvoice
<1>4. CASE Allocate!Refuse(i)
  BY <1>4 DEF Allocate!Refuse, Allocate!Fresh
<1>5. CASE Allocate!Settle(i)
  <2> DEFINE new == [issued[i] EXCEPT !.open = FALSE]
  <2>1. new \in Invoiced /\ ~new.open
    BY ClosedRow
  <2>2. issued' = [issued EXCEPT ![i] = new] /\ UNCHANGED <<clock, reserved, issuer>>
    BY <1>5 DEF Allocate!Settle
  <2> HIDE DEF new
  <2> QED
    BY <2>1, <2>2
<1> QED
  BY <1>1, <1>2, <1>3, <1>4, <1>5

\* What the step of a checkout means for it and another one.
LEMMA TagApart ==
  ASSUME Allocate!Constants, TagInv, NEW i \in Issuers, NEW j \in Issuers \ {i},
         issuer'[j] = issuer[j], issued'[j] = issued[j], clock' = clock,
         \/ Allocate!ReadOpen(i) \/ Allocate!Reserve(i) \/ Allocate!InsertInvoice(i)
         \/ Allocate!Refuse(i) \/ Allocate!Settle(i)
  PROVE  Apart(i, j)' /\ Apart(j, i)'
<1>1. Prudent(i) /\ Prudent(j) /\ Apart(i, j) /\ Apart(j, i)
  BY DEF TagInv
<1>2. /\ clock \in Nat /\ Patience \in Nat /\ Hold \in Nat /\ 2 * Patience < Hold
      /\ issuer[i].since \in Nat /\ issuer[j].since \in Nat
      /\ issued[i].at \in Nat /\ issued[j].at \in Nat /\ reserved \in [Tags -> Nat]
  BY DEF TagInv, Allocate!TypeOK, Allocate!Constants
<1>3. /\ issued \in [Issuers -> [tag : Tags \cup {NoTag}, at : 0 .. EndOfTime, open : BOOLEAN]]
      /\ issuer \in [Issuers -> [at : {"begin", "reserve", "insert", "done"}, free : SUBSET Tags,
                                 since : 0 .. EndOfTime, tag : Tags \cup {NoTag}]]
  BY DEF TagInv, Allocate!TypeOK
<1>4. Allocate!Held(j)' <=> Allocate!Held(j)
  BY DEF Allocate!Held
<1>5. CASE Allocate!ReadOpen(i)
  <2>1. issued' = issued /\ ~issued[i].open
    BY <1>1, <1>5 DEF Allocate!ReadOpen, Prudent
  <2>2. \/ issuer'[i].at = "done"
        \/ issuer'[i].at = "reserve" /\ issuer'[i].free = Tags \ Allocate!taken
    BY <1>3, <1>5 DEF Allocate!ReadOpen
  <2>3. Allocate!Held(j) => issued[j].tag \in Allocate!taken
    BY DEF Allocate!taken
  <2> QED
    BY <1>1, <1>4, <2>1, <2>2, <2>3 DEF Apart, Allocate!Held
<1>6. CASE Allocate!Reserve(i)
  <2>1. PICK t \in issuer[i].free : TagTaken(i, t) \/ TagRefused(i, t)
    BY <1>6 DEF Allocate!Reserve, TagTaken, TagRefused
  <2>2. issuer[i].at = "reserve" /\ issued' = issued /\ t \in Tags /\ ~issued[i].open
    BY <1>1, <1>3, <1>6 DEF Allocate!Reserve, Prudent
  <2>3. CASE TagTaken(i, t)
    <3>1. issuer'[i].at = "insert" /\ issuer'[i].tag = t /\ reserved[t] <= clock
      BY <1>3, <2>3 DEF TagTaken
    <3>2. ~(issuer[j].at = "insert" /\ issuer[j].tag = t)
      BY <1>1, <1>2, <2>2, <3>1 DEF Prudent, Waiting
    <3>3. ~(Allocate!Held(j) /\ issued[j].tag = t)
      BY <1>1, <1>2, <2>1, <2>2, <3>1 DEF Prudent, Waiting, Apart, Allocate!Held
    <3> QED
      BY <1>1, <1>4, <2>2, <3>1, <3>2, <3>3 DEF Apart, Allocate!Held
  <2>4. CASE TagRefused(i, t)
    <3>1. /\ issuer'[i].at \in {"reserve", "done"} /\ issuer'[i].since = issuer[i].since
          /\ issuer'[i].free \subseteq issuer[i].free
      BY <1>3, <2>4 DEF TagRefused
    <3> QED
      BY <1>1, <1>4, <2>2, <3>1 DEF Apart, Allocate!Held
  <2> QED
    BY <2>1, <2>3, <2>4
<1>7. CASE Allocate!InsertInvoice(i)
  <2>1. /\ issuer[i].at = "insert" /\ issuer'[i].at = "done"
        /\ issued'[i].tag = issuer[i].tag /\ issued'[i].at = clock
    BY <1>3, <1>7 DEF Allocate!InsertInvoice
  <2>2. issuer[j].at = "reserve" => clock >= issuer[j].since
    BY <1>1 DEF Prudent, Waiting
  <2> QED
    BY <1>1, <1>4, <2>1, <2>2 DEF Apart
<1>8. CASE Allocate!Refuse(i)
  <2>1. issued' = issued /\ issuer'[i].at = "done"
    BY <1>3, <1>8 DEF Allocate!Refuse, Allocate!Fresh
  <2> QED
    BY <1>1, <1>4, <2>1 DEF Apart, Allocate!Held
<1>9. CASE Allocate!Settle(i)
  <2>1. issuer' = issuer /\ issued'[i].open = FALSE
    BY <1>3, <1>9 DEF Allocate!Settle
  <2>2. ~Allocate!Held(i)'
    BY <2>1 DEF Allocate!Held
  <2> QED
    BY <1>1, <1>4, <2>1, <2>2 DEF Apart
<1> QED
  BY <1>5, <1>6, <1>7, <1>8, <1>9

LEMMA TagInductive == ASSUME Allocate!Constants, TagInv, [Allocate!Next]_tagVars PROVE TagInv'
<1>1. CASE UNCHANGED tagVars
  BY <1>1 DEF tagVars, TagInv, Allocate!TypeOK, Prudent, Waiting, Apart, Allocate!Held
<1>2. ASSUME NEW i \in Issuers,
             \/ Allocate!ReadOpen(i) \/ Allocate!Reserve(i) \/ Allocate!InsertInvoice(i)
             \/ Allocate!Refuse(i) \/ Allocate!Settle(i)
      PROVE  TagInv'
  <2>1. /\ Allocate!TypeOK' /\ clock' = clock
        /\ \A j \in Issuers \ {i} : issued'[j] = issued[j] /\ issuer'[j] = issuer[j]
        /\ \A t \in Tags : reserved'[t] >= reserved[t]
        /\ Prudent(i)'
    BY <1>2, TagMoves
  <2>2. ASSUME NEW j \in Issuers \ {i} PROVE Prudent(j)'
    BY <2>1, <2>2 DEF TagInv, Prudent, Waiting, Allocate!TypeOK, Allocate!Constants
  <2>3. ASSUME NEW j \in Issuers, NEW k \in Issuers, j # k PROVE Apart(j, k)'
    <3>1. CASE j # i /\ k # i
      BY <2>1, <2>3, <3>1 DEF TagInv, Apart, Allocate!Held
    <3>2. CASE j = i \/ k = i
      BY <1>2, <2>1, <2>3, <3>2, TagApart
    <3> QED
      BY <3>1, <3>2
  <2> QED
    BY <2>1, <2>2, <2>3 DEF TagInv
<1> QED
  BY <1>1, <1>2, TagTick DEF Allocate!Next

-----------------------------------------------------------------------------
(* The delivery queue, with workers W: an order has one job, and the job   *)
(* one run.                                                                *)

JobStates == {"none", "waiting", "active", "completed", "failed"}
QueueTypes(W) ==
  /\ sale \in [Buys -> {"PENDING", "PAID", "DELIVERING", "DELIVERED", "FAILED"}]
  /\ ripe \subseteq Buys /\ hit \subseteq Buys
  /\ queued \in [Buys -> [is : JobStates, made : 0 .. Attempts, stalls : 0 .. 2]]
  /\ runner \in [W -> [at : {"idle", "enqueue", "mark", "deliver", "settle", "throw", "return"},
                       buy : Buys \cup {NoBuy}, job : BOOLEAN]]
  /\ shocks \in 0 .. ShockBound

\* A job that is not finished has an attempt left, and was not given up as stalled.
HasAttempts(o) == queued[o].is \in {"none", "waiting", "active"} =>
  queued[o].made < Attempts /\ queued[o].stalls < 2
Runs(w) ==
  /\ runner[w].at # "idle" => runner[w].buy \in Buys
  /\ runner[w].job => runner[w].at # "idle" /\ queued[runner[w].buy].is = "active"

QueueInv(W) ==
  /\ QueueTypes(W)
  /\ \A o \in Buys : HasAttempts(o)
  /\ \A w \in W : Runs(w)
  /\ \A v, w \in W : v # w /\ runner[v].job /\ runner[w].job => runner[v].buy # runner[w].buy

QueueStep(W) ==
  \/ \E o \in Buys : Queue!Ripen(o) \/ Queue!Retire(o)
  \/ Queue!reconcileUndeliveredOrders
  \/ \E w \in W : \/ Queue!Work(w) \/ Queue!AttemptFails(w) \/ Queue!Dies(w)
                  \/ \E o \in Buys : Queue!Pay(w, o) \/ Queue!Take(w, o)

LEMMA QueueInitially ==
  ASSUME NEW W, Queue!Constants, sale = [o \in Buys |-> "PENDING"], ripe = {}, hit = {}, shocks = 0,
         queued = [o \in Buys |-> Queue!NoJob], runner = [w \in W |-> Queue!Resting]
  PROVE  QueueInv(W)
  BY DEF Queue!Constants, Queue!NoJob, Queue!Resting, QueueInv, QueueTypes, JobStates, HasAttempts, Runs

LEMMA QueueInductive ==
  ASSUME NEW W, Queue!Constants, QueueInv(W), QueueStep(W) \/ UNCHANGED queueVars
  PROVE  QueueInv(W)'
<1> USE DEF Queue!Constants, QueueInv, QueueTypes, JobStates, HasAttempts, Runs, Queue!NoJob, Queue!Resting,
            Queue!At, Queue!buy, Queue!Goto, Queue!Rest, Queue!Mark, Queue!Enqueued, Queue!Shock, Queue!Hit
<1>1. ASSUME NEW o \in Buys, Queue!Ripen(o) \/ Queue!Retire(o) PROVE QueueInv(W)'
  BY <1>1 DEF Queue!Ripen, Queue!Retire
<1>2. CASE Queue!reconcileUndeliveredOrders
  BY <1>2 DEF Queue!reconcileUndeliveredOrders
<1>3. ASSUME NEW w \in W, NEW o \in Buys, Queue!Pay(w, o) PROVE QueueInv(W)'
  <2>1. PICK label \in {"mark", "enqueue"} :
          runner' = [runner EXCEPT ![w] = [Queue!Resting EXCEPT !.at = label, !.buy = o]]
    BY <1>3 DEF Queue!Pay
  <2> PICK x : x = [Queue!Resting EXCEPT !.at = label, !.buy = o]
    OBVIOUS
  <2>2. x = [at |-> label, buy |-> o, job |-> FALSE] /\ runner' = [runner EXCEPT ![w] = x]
    BY <2>1
  <2>3. sale' = [sale EXCEPT ![o] = "PAID"] /\ UNCHANGED <<ripe, queued, hit, shocks>>
    BY <1>3 DEF Queue!Pay
  <2> QED
    BY <2>2, <2>3
<1>4. ASSUME NEW w \in W, NEW o \in Buys, Queue!Take(w, o) PROVE QueueInv(W)'
  BY <1>4 DEF Queue!Take
<1>5. ASSUME NEW w \in W, Queue!enqueueDelivery(w) PROVE QueueInv(W)'
  BY <1>5 DEF Queue!enqueueDelivery
<1>6. ASSUME NEW w \in W, Queue!markDelivering(w) \/ Queue!deliverGoods(w) \/ Queue!settleFailedDelivery(w)
      PROVE  QueueInv(W)'
  BY <1>6 DEF Queue!markDelivering, Queue!deliverGoods, Queue!settleFailedDelivery
<1>7. ASSUME NEW w \in W, Queue!Throw(w) PROVE QueueInv(W)'
  <2>1. runner[w].buy \in Buys /\ runner' = [runner EXCEPT ![w] = Queue!Resting]
        /\ UNCHANGED <<sale, ripe, hit, shocks>>
    BY <1>7 DEF Queue!Throw
  <2>2. CASE ~runner[w].job
    BY <1>7, <2>1, <2>2 DEF Queue!Throw
  <2>3. CASE runner[w].job
    <3> PICK o, j : o = runner[w].buy /\ j = queued[o]
      OBVIOUS
    <3> PICK st : st = IF j.made + 1 = Attempts \/ j.stalls > 1 THEN "failed" ELSE "waiting"
      OBVIOUS
    <3> PICK k : k = [is |-> st, made |-> j.made + 1, stalls |-> j.stalls]
      OBVIOUS
    <3>1. queued' = [queued EXCEPT ![o] = k]
      BY <1>7, <2>3 DEF Queue!Throw, Queue!Retried
    <3>2. j.made \in Nat /\ j.made < Attempts /\ j.stalls \in 0 .. 1
      BY <2>1, <2>3
    <3>3. /\ k \in [is : JobStates, made : 0 .. Attempts, stalls : 0 .. 2] /\ k.is \in {"failed", "waiting"}
          /\ k.is = "waiting" => k.made < Attempts /\ k.stalls < 2
      <4>1. st \in {"failed", "waiting"} /\ (st = "waiting" => j.made + 1 # Attempts)
        OBVIOUS
      <4>2. k.is = st /\ k.made = j.made + 1 /\ k.stalls = j.stalls
        OBVIOUS
      <4>3. j.made + 1 \in 0 .. Attempts /\ (st = "waiting" => j.made + 1 < Attempts)
        <5> PICK n, m : n = j.made /\ m = Attempts
          OBVIOUS
        <5>1. n \in Nat /\ m \in Nat /\ n < m /\ (st = "waiting" => n + 1 # m)
          BY <3>2, <4>1
        <5> HIDE DEF Queue!Constants, QueueInv
        <5>2. n + 1 \in 0 .. m /\ (st = "waiting" => n + 1 < m)
          BY <5>1
        <5> QED
          BY <5>2
      <4> QED
        BY <3>2, <4>1, <4>2, <4>3
    <3> QED
      BY <2>1, <2>3, <3>1, <3>3
  <2> QED
    BY <2>2, <2>3
<1>8. ASSUME NEW w \in W, Queue!Return(w) PROVE QueueInv(W)'
  BY <1>8 DEF Queue!Return
<1>9. ASSUME NEW w \in W, Queue!AttemptFails(w) PROVE QueueInv(W)'
  BY <1>9 DEF Queue!AttemptFails
<1>10. ASSUME NEW w \in W, Queue!Dies(w) PROVE QueueInv(W)'
  BY <1>10 DEF Queue!Dies, Queue!Retried
<1>11. CASE UNCHANGED queueVars
  BY <1>11 DEF queueVars
<1> QED
  BY <1>1, <1>2, <1>3, <1>4, <1>5, <1>6, <1>7, <1>8, <1>9, <1>10, <1>11 DEF QueueStep, Queue!Work

-----------------------------------------------------------------------------
(* The settings cache and the broadcasts: their types are inductive.       *)

LEMMA SettingsTyped ==
  ASSUME Settings!Constants, Settings!TypeOK, [Settings!Next]_settingsVars PROVE Settings!TypeOK'
<1> USE DEF Settings!Constants, Settings!TypeOK, Settings!Empty
<1>1. CASE Settings!Next
  BY <1>1 DEF Settings!Next, Settings!Expire, Settings!ReadRow, Settings!FillCache, Settings!FillFails,
              Settings!WriteRow, Settings!DropCache, Settings!DropFails
<1>2. CASE UNCHANGED settingsVars
  BY <1>2 DEF settingsVars
<1> QED
  BY <1>1, <1>2

LEMMA PostsTyped ==
  ASSUME Posts!Constants, Posts!TypeOK, [Posts!Next]_postVars PROVE Posts!TypeOK'
<1> USE DEF Posts!Constants, Posts!TypeOK, Posts!Statuses, Posts!JobStates, Posts!NoTask, Posts!Become,
            Posts!Admin, Posts!Sender, Posts!Added
<1>1. ASSUME NEW a \in Processes, Posts!Click(a) PROVE Posts!TypeOK'
  BY <1>1 DEF Posts!Click
<1>2. ASSUME NEW a \in Processes, Posts!AdminWork(a) PROVE Posts!TypeOK'
  <2>1. ASSUME NEW from, NEW to \in {"save", "cancel", "add"}, Posts!removeQueuedJob(a, from, to)
        PROVE  Posts!TypeOK'
    <3>1. admin' \in [Processes -> {"idle", "saveRemove", "save", "cancelRemove", "cancel",
                                   "queue", "sendRemove", "add"}]
      BY <2>1 DEF Posts!removeQueuedJob
    <3>2. task' \in [is : Posts!JobStates, retried : BOOLEAN]
      <4>1. task' = task \/ task' = Posts!NoTask
        BY <2>1 DEF Posts!removeQueuedJob
      <4>2. Posts!NoTask \in [is : Posts!JobStates, retried : BOOLEAN]
        OBVIOUS
      <4> QED
        BY <4>1, <4>2
    <3>3. UNCHANGED <<post, stale, sender, sweeper, clicks, stumbles>>
      BY <2>1 DEF Posts!removeQueuedJob
    <3> QED
      BY <3>1, <3>2, <3>3
  <2>2. ASSUME NEW from, NEW to \in {"idle", "sendRemove"}, NEW st \in {"DRAFT", "CANCELLED", "QUEUED"},
               Posts!WriteStatus(a, from, to, st)
        PROVE  Posts!TypeOK'
    BY <2>2 DEF Posts!WriteStatus
  <2>3. CASE Posts!AddJob(a)
    BY <2>3 DEF Posts!AddJob
  <2> QED
    BY <1>2, <2>1, <2>2, <2>3 DEF Posts!AdminWork
<1>3. ASSUME NEW s \in Processes, Posts!Take(s) \/ Posts!SendWork(s) PROVE Posts!TypeOK'
  BY <1>3 DEF Posts!Take, Posts!SendWork, Posts!Claim, Posts!RefuseSegment, Posts!FanOut, Posts!Finish
<1>4. ASSUME NEW s \in Processes, Posts!Stumble(s) PROVE Posts!TypeOK'
  BY <1>4 DEF Posts!Stumble
<1>5. CASE Posts!GrowStale \/ Posts!SweepRead \/ Posts!SweepStumbles
  <2>1. CASE Posts!GrowStale
    BY <2>1 DEF Posts!GrowStale
  <2>2. CASE Posts!SweepRead
    BY <2>2 DEF Posts!SweepRead, Posts!Due
  <2>3. CASE Posts!SweepStumbles
    BY <2>3 DEF Posts!SweepStumbles
  <2> QED
    BY <1>5, <2>1, <2>2, <2>3
<1>6. CASE Posts!SweepWork
  <2>1. CASE Posts!SweepJob
    <3>1. sweeper' \in {"idle", "arm", "requeue"} /\ (task' = task \/ task' = Posts!NoTask)
      BY <2>1 DEF Posts!SweepJob
    <3>2. UNCHANGED <<post, stale, admin, sender, clicks, stumbles>>
      BY <2>1 DEF Posts!SweepJob
    <3>3. Posts!NoTask \in [is : Posts!JobStates, retried : BOOLEAN]
      OBVIOUS
    <3>4. task' \in [is : Posts!JobStates, retried : BOOLEAN]
      BY <3>1, <3>3
    <3> QED
      BY <3>1, <3>2, <3>4
  <2>2. CASE Posts!SweepRequeue
    BY <2>2 DEF Posts!SweepRequeue
  <2>3. CASE Posts!SweepArm
    BY <2>3 DEF Posts!SweepArm
  <2> QED
    BY <1>6, <2>1, <2>2, <2>3 DEF Posts!SweepWork
<1>7. CASE UNCHANGED postVars
  BY <1>7 DEF postVars
<1> QED
  BY <1>1, <1>2, <1>3, <1>4, <1>5, <1>6, <1>7 DEF Posts!Next

-----------------------------------------------------------------------------
(* One component at a time: to each of them a step of the shop is a step   *)
(* of its own or none.                                                     *)

PayThms    == INSTANCE Payments_proofs WITH Handlers <- Processes
RivalsThms == INSTANCE Payments_proofs WITH Handlers <- OneProcess, IssueBound <- IssueBound + 1
PriceThms  == INSTANCE Pricing_proofs
PromoThms  == INSTANCE Promos_proofs WITH Shoppers <- Processes
SubsThms   == INSTANCE Subscriptions_proofs WITH Callers <- Processes

LEMMA StepOfOne ==
  ASSUME [ShopNext]_shopVars
  PROVE  /\ focus' = focus /\ [Next]_vars
         /\ IF focus = "rivals" THEN [Rivals!Next]_payVars ELSE [Pay!Next]_payVars
         /\ [Subs!Next]_subsVars /\ [Promo!Next]_promoVars /\ [Bonus!Next]_bonusVars
         /\ [Allocate!Next]_tagVars /\ [Price!Next]_priceVars
         /\ IF focus = "rerun" THEN [Rerun!Next]_queueVars ELSE [Queue!Next]_queueVars
         /\ [Settings!Next]_settingsVars /\ [Posts!Next]_postVars
  BY DEF ShopNext, Only, shopVars

LEMMA StepOfQueue ==
  ASSUME IF focus = "rerun" THEN [Rerun!Next]_queueVars ELSE [Queue!Next]_queueVars
  PROVE  IF focus = "rerun" THEN QueueStep(Processes) \/ UNCHANGED queueVars
                            ELSE QueueStep(OneProcess) \/ UNCHANGED queueVars
  BY DEF QueueStep, Queue!Next, Rerun!Next, Queue!Ripen, Rerun!Ripen, Queue!Retire, Rerun!Retire,
         Queue!NoJob, Rerun!NoJob, Queue!reconcileUndeliveredOrders, Rerun!reconcileUndeliveredOrders,
         Queue!Stuck, Rerun!Stuck, Queue!Enqueued, Rerun!Enqueued, Queue!Work, Rerun!Work,
         Queue!enqueueDelivery, Rerun!enqueueDelivery, Queue!markDelivering, Rerun!markDelivering,
         Queue!deliverGoods, Rerun!deliverGoods, Queue!settleFailedDelivery, Rerun!settleFailedDelivery,
         Queue!Throw, Rerun!Throw, Queue!Return, Rerun!Return, Queue!Retried, Rerun!Retried,
         Queue!AttemptFails, Rerun!AttemptFails, Queue!Dies, Rerun!Dies, Queue!Shock, Rerun!Shock,
         Queue!Hit, Rerun!Hit, Queue!Pay, Rerun!Pay, Queue!Take, Rerun!Take, Queue!Resting, Rerun!Resting,
         Queue!At, Rerun!At, Queue!buy, Rerun!buy, Queue!Goto, Rerun!Goto, Queue!Rest, Rerun!Rest,
         Queue!Mark, Rerun!Mark

\* The same step, by the names that the proofs of a component have for it.
LEMMA StepOfPay == ASSUME [Pay!Next]_payVars PROVE [PayThms!Next]_(PayThms!vars)
  BY DEF payVars, Pay!vars, PayThms!vars, Pay!Statuses, PayThms!Statuses, Pay!Closed, PayThms!Closed,
         Pay!InFull, PayThms!InFull, Pay!IdleHand, PayThms!IdleHand, Pay!FindOpen,
         PayThms!FindOpen, Pay!CreateInvoice, PayThms!CreateInvoice, Pay!PreCheckout,
         PayThms!PreCheckout, Pay!Charge, PayThms!Charge, Pay!BalanceBuys,
         PayThms!BalanceBuys, Pay!ExpireOrder, PayThms!ExpireOrder, Pay!Fulfil,
         PayThms!Fulfil, Pay!At, PayThms!At, Pay!pay, PayThms!pay, Pay!Goto, PayThms!Goto,
         Pay!Row, PayThms!Row, Pay!Credit, PayThms!Credit, Pay!NoCredit, PayThms!NoCredit,
         Pay!Webhook, PayThms!Webhook, Pay!AmountMatches, PayThms!AmountMatches,
         Pay!settleOrderPayment, PayThms!settleOrderPayment, Pay!markOrderPaid,
         PayThms!markOrderPaid, Pay!settleCryptoBotTopup, PayThms!settleCryptoBotTopup,
         Pay!Acknowledge, PayThms!Acknowledge, Pay!SuccessfulPayment,
         PayThms!SuccessfulPayment, Pay!settleStars, PayThms!settleStars, Pay!PolledRow,
         PayThms!PolledRow, Pay!pollBegin, PayThms!pollBegin, Pay!Polled, PayThms!Polled,
         Pay!Step, PayThms!Step, Pay!pollExpired, PayThms!pollExpired,
         Pay!markAmountMismatch, PayThms!markAmountMismatch, Pay!auditMismatch,
         PayThms!auditMismatch, Pay!settleMissedTopup, PayThms!settleMissedTopup,
         Pay!settlePaidInvoice, PayThms!settlePaidInvoice, Pay!StillPending,
         PayThms!StillPending, Pay!resolveMismatchedPaidInvoice,
         PayThms!resolveMismatchedPaidInvoice, Pay!pollEnd, PayThms!pollEnd, Pay!Slip,
         PayThms!Slip, Pay!Work, PayThms!Work, Pay!Next, PayThms!Next, Pay!Cardinality,
         PayThms!Cardinality

LEMMA StepOfRivals == ASSUME [Rivals!Next]_payVars PROVE [RivalsThms!Next]_(RivalsThms!vars)
  BY DEF payVars, Rivals!vars, RivalsThms!vars, Rivals!Statuses, RivalsThms!Statuses, Rivals!Closed,
         RivalsThms!Closed, Rivals!InFull, RivalsThms!InFull, Rivals!IdleHand,
         RivalsThms!IdleHand, Rivals!FindOpen, RivalsThms!FindOpen, Rivals!CreateInvoice,
         RivalsThms!CreateInvoice, Rivals!PreCheckout, RivalsThms!PreCheckout,
         Rivals!Charge, RivalsThms!Charge, Rivals!BalanceBuys, RivalsThms!BalanceBuys,
         Rivals!ExpireOrder, RivalsThms!ExpireOrder, Rivals!Fulfil, RivalsThms!Fulfil,
         Rivals!At, RivalsThms!At, Rivals!pay, RivalsThms!pay, Rivals!Goto, RivalsThms!Goto,
         Rivals!Row, RivalsThms!Row, Rivals!Credit, RivalsThms!Credit, Rivals!NoCredit,
         RivalsThms!NoCredit, Rivals!Webhook, RivalsThms!Webhook, Rivals!AmountMatches,
         RivalsThms!AmountMatches, Rivals!settleOrderPayment, RivalsThms!settleOrderPayment,
         Rivals!markOrderPaid, RivalsThms!markOrderPaid, Rivals!settleCryptoBotTopup,
         RivalsThms!settleCryptoBotTopup, Rivals!Acknowledge, RivalsThms!Acknowledge,
         Rivals!SuccessfulPayment, RivalsThms!SuccessfulPayment, Rivals!settleStars,
         RivalsThms!settleStars, Rivals!PolledRow, RivalsThms!PolledRow, Rivals!pollBegin,
         RivalsThms!pollBegin, Rivals!Polled, RivalsThms!Polled, Rivals!Step,
         RivalsThms!Step, Rivals!pollExpired, RivalsThms!pollExpired,
         Rivals!markAmountMismatch, RivalsThms!markAmountMismatch, Rivals!auditMismatch,
         RivalsThms!auditMismatch, Rivals!settleMissedTopup, RivalsThms!settleMissedTopup,
         Rivals!settlePaidInvoice, RivalsThms!settlePaidInvoice, Rivals!StillPending,
         RivalsThms!StillPending, Rivals!resolveMismatchedPaidInvoice,
         RivalsThms!resolveMismatchedPaidInvoice, Rivals!pollEnd, RivalsThms!pollEnd,
         Rivals!Slip, RivalsThms!Slip, Rivals!Work, RivalsThms!Work, Rivals!Next,
         RivalsThms!Next, Rivals!Cardinality, RivalsThms!Cardinality

LEMMA StepOfPrice == ASSUME [Price!Next]_priceVars PROVE [PriceThms!Next]_(PriceThms!vars)
  BY DEF priceVars, Price!CENTS_TO_USDT6, PriceThms!CENTS_TO_USDT6, Price!TRON_TAG_UNIT_USDT6,
         PriceThms!TRON_TAG_UNIT_USDT6, Price!TRON_TAG_MAX, PriceThms!TRON_TAG_MAX,
         Price!vars, PriceThms!vars, Price!NoPurchase, PriceThms!NoPurchase, Price!NoAsk,
         PriceThms!NoAsk, Price!roundHalfUp, PriceThms!roundHalfUp,
         Price!applyPercentDiscount, PriceThms!applyPercentDiscount,
         Price!applyFixedDiscount, PriceThms!applyFixedDiscount, Price!subtotalCents,
         PriceThms!subtotalCents, Price!computeOrderTotal, PriceThms!computeOrderTotal,
         Price!tronTaggedAmountUsdt6, PriceThms!tronTaggedAmountUsdt6, Price!starsPerCent,
         PriceThms!starsPerCent, Price!amountStars, PriceThms!amountStars, Price!upsertPlan,
         PriceThms!upsertPlan, Price!deletePlan, PriceThms!deletePlan, Price!getPlanById,
         PriceThms!getPlanById, Price!createOrder, PriceThms!createOrder,
         Price!createTronPayment, PriceThms!createTronPayment, Price!createStarsPayment,
         PriceThms!createStarsPayment, Price!Next, PriceThms!Next

LEMMA StepOfPromo == ASSUME [Promo!Next]_promoVars PROVE [PromoThms!Next]_(PromoThms!vars)
  BY DEF promoVars, Promo!NoShopper, PromoThms!NoShopper, Promo!vars, PromoThms!vars, Promo!Live,
         PromoThms!Live, Promo!Away, PromoThms!Away, Promo!At, PromoThms!At, Promo!request,
         PromoThms!request, Promo!Release, PromoThms!Release, Promo!Leave, PromoThms!Leave,
         Promo!Rollback, PromoThms!Rollback, Promo!FindExisting, PromoThms!FindExisting,
         Promo!HasUses, PromoThms!HasUses, Promo!claimPromoUse, PromoThms!claimPromoUse,
         Promo!InsertOrder, PromoThms!InsertOrder, Promo!PayFor, PromoThms!PayFor,
         Promo!FindLive, PromoThms!FindLive, Promo!releasePromoUse,
         PromoThms!releasePromoUse, Promo!CloseOrder, PromoThms!CloseOrder, Promo!Next,
         PromoThms!Next

LEMMA StepOfSubs == ASSUME [Subs!Next]_subsVars PROVE [SubsThms!Next]_(SubsThms!vars)
  BY DEF subsVars, Subs!vars, SubsThms!vars, Subs!RowIds, SubsThms!RowIds, Subs!IdleCall,
         SubsThms!IdleCall, Subs!Exists, SubsThms!Exists, Subs!Active, SubsThms!Active,
         Subs!Lapsed, SubsThms!Lapsed, Subs!At, SubsThms!At, Subs!row, SubsThms!row,
         Subs!Go, SubsThms!Go, Subs!Done, SubsThms!Done, Subs!Tick, SubsThms!Tick,
         Subs!PayOrder, SubsThms!PayOrder, Subs!ReadCurrent, SubsThms!ReadCurrent,
         Subs!CreateRow, SubsThms!CreateRow, Subs!Press, SubsThms!Press, Subs!Sweep,
         SubsThms!Sweep, Subs!Decline, SubsThms!Decline, Subs!ReadSubscription,
         SubsThms!ReadSubscription, Subs!KeyTaken, SubsThms!KeyTaken, Subs!CanPay,
         SubsThms!CanPay, Subs!Renew, SubsThms!Renew, Subs!ExpireRow, SubsThms!ExpireRow,
         Subs!DeliveryFails, SubsThms!DeliveryFails, Subs!Dies, SubsThms!Dies, Subs!Work,
         SubsThms!Work, Subs!Next, SubsThms!Next, Subs!Cardinality, SubsThms!Cardinality,
         Subs!Max, SubsThms!Max

-----------------------------------------------------------------------------
\* The invariant of the payments, under whichever processes they run.
PayInv == IF focus = "rivals" THEN RivalsThms!IInv ELSE PayThms!IInv

LEMMA PayInvariant == ShopSpec => []PayInv
<1>1. Pay!Constants
  BY ShopAssumption
<1>2. PayThms!Constants /\ RivalsThms!Constants
  BY <1>1 DEF Pay!Constants, PayThms!Constants, RivalsThms!Constants
<1>3. ShopInit => PayInv
  <2>1. ASSUME Pay!Init PROVE PayThms!Init
    BY <2>1 DEF Pay!Init, PayThms!Init, Pay!IdleHand, PayThms!IdleHand
  <2>2. ASSUME Rivals!Init PROVE RivalsThms!Init
    BY <2>2 DEF Rivals!Init, RivalsThms!Init, Rivals!IdleHand, RivalsThms!IdleHand
  <2> QED
    BY <1>2, <2>1, <2>2, PayThms!Initially, RivalsThms!Initially DEF ShopInit, PayInv
<1>4. PayInv /\ [ShopNext]_shopVars => PayInv'
  <2> SUFFICES ASSUME PayInv, [ShopNext]_shopVars PROVE PayInv'
    OBVIOUS
  <2>1. CASE focus = "rivals"
    BY <1>2, <2>1, StepOfOne, StepOfRivals, RivalsThms!Inductive DEF PayInv
  <2>2. CASE focus # "rivals"
    BY <1>2, <2>2, StepOfOne, StepOfPay, PayThms!Inductive DEF PayInv
  <2> QED
    BY <2>1, <2>2
<1> QED
  BY <1>3, <1>4, PTL DEF ShopSpec

\* Goods are sold for a payment in full whose row says PAID, whoever of webhook,
\* update and poll was first (settleOrderPayment, settlePaidInvoice).
THEOREM ShopSellsForMoney == ShopSpec => []BuyerHasPaid
<1>1. PayInv => BuyerHasPaid
  BY DEF PayInv, BuyerHasPaid, Pay!BuyerHasPaid, Pay!InFull,
         PayThms!IInv, PayThms!Books, PayThms!BuyerHasPaid, PayThms!InFull,
         RivalsThms!IInv, RivalsThms!Books, RivalsThms!BuyerHasPaid, RivalsThms!InFull
<1> QED
  BY <1>1, PayInvariant, PTL

\* A top-up is credited if and only if its row is PAID, for money in full
\* (settleCryptoBotTopup, settleMissedTopup, settleStarsTopup).
THEOREM ShopCreditsExactly == ShopSpec => []TopupsAreExact
<1>1. PayInv => TopupsAreExact
  BY DEF PayInv, TopupsAreExact, Pay!TopupsAreExact, Pay!InFull,
         PayThms!IInv, PayThms!Books, PayThms!TopupsAreExact, PayThms!InFull,
         RivalsThms!IInv, RivalsThms!Books, RivalsThms!TopupsAreExact, RivalsThms!InFull
<1> QED
  BY <1>1, PayInvariant, PTL

\* No payment that bought the order is flagged as money without a purchase
\* (resolveMismatchedPaidInvoice).
THEOREM ShopFlagsRightly == ShopSpec => []FlagMeansNoPurchase
<1>1. PayInv => FlagMeansNoPurchase
  BY DEF PayInv, FlagMeansNoPurchase, Pay!FlagMeansNoPurchase,
         PayThms!IInv, PayThms!Books, PayThms!FlagMeansNoPurchase,
         RivalsThms!IInv, RivalsThms!Books, RivalsThms!FlagMeansNoPurchase
<1> QED
  BY <1>1, PayInvariant, PTL

\* The subscriptions and the promo codes of the shop are those of their modules.
LEMMA SubsRun == SubsThms!Constants /\ (ShopSpec => SubsThms!Spec)
<1>1. SubsThms!Constants
  BY ShopAssumption DEF Subs!Constants, SubsThms!Constants, Subs!IsFiniteSet, SubsThms!IsFiniteSet,
                        Subs!Cardinality, SubsThms!Cardinality
<1>2. ShopInit => SubsThms!Init
  BY DEF ShopInit, Subs!Init, SubsThms!Init, Subs!AbsentRow, SubsThms!AbsentRow, Subs!IdleCall, SubsThms!IdleCall,
         Subs!RowIds, SubsThms!RowIds
<1>3. [ShopNext]_shopVars => [SubsThms!Next]_(SubsThms!vars)
  BY StepOfOne, StepOfSubs
<1> QED
  BY <1>1, <1>2, <1>3, PTL DEF ShopSpec, SubsThms!Spec

LEMMA PromoRuns == PromoThms!Constants /\ (ShopSpec => PromoThms!Spec)
<1>1. PromoThms!Constants
  BY ShopAssumption DEF Promo!Constants, PromoThms!Constants, Promo!NoShopper, PromoThms!NoShopper,
                        Promo!IsFiniteSet, PromoThms!IsFiniteSet
<1>2. ShopInit => PromoThms!Init
  BY DEF ShopInit, Promo!Init, PromoThms!Init, Promo!Away, PromoThms!Away, Promo!NoShopper, PromoThms!NoShopper
<1>3. [ShopNext]_shopVars => [PromoThms!Next]_(PromoThms!vars)
  BY StepOfOne, StepOfPromo
<1> QED
  BY <1>1, <1>2, <1>3, PTL DEF ShopSpec, PromoThms!Spec

\* A period is renewed at most once, and charged exactly when it is
\* (renewFromBalance).
THEOREM ShopRenewsOnce == ShopSpec => []RenewalChargedOnce
<1>1. SubsThms!RenewalChargedOnce => RenewalChargedOnce
  BY DEF RenewalChargedOnce, Subs!RenewalChargedOnce, SubsThms!RenewalChargedOnce, Subs!Exists, SubsThms!Exists
<1>2. SubsThms!Spec => []SubsThms!RenewalChargedOnce
  BY SubsRun, SubsThms!RenewedOnce
<1> QED
  BY <1>1, <1>2, SubsRun, PTL

\* The counter of a promo code is the number of live orders that use it, within its
\* limit (claimPromoUse, releasePromoUse).
THEOREM ShopCountsUses == ShopSpec => []UsesAreLiveOrders
<1>1. PromoThms!UsesAreLiveOrders => UsesAreLiveOrders
  BY DEF UsesAreLiveOrders, Promo!UsesAreLiveOrders, PromoThms!UsesAreLiveOrders, Promo!Live, PromoThms!Live,
         Promo!Cardinality, PromoThms!Cardinality
<1>2. PromoThms!Spec => []PromoThms!UsesAreLiveOrders
  BY PromoRuns, PromoThms!UsesAreCounted
<1> QED
  BY <1>1, <1>2, PromoRuns, PTL

\* A customer is asked for what the order costs, to the cent or to half a Star
\* (computeOrderTotal, createTronPayment, createStarsPayment).
THEOREM ShopAsksWhatIsOwed == ShopSpec => []AskedIsOwed
<1>1. PriceThms!Constants
  BY ShopAssumption DEF Price!Constants, PriceThms!Constants, Price!TRON_TAG_MAX, PriceThms!TRON_TAG_MAX
<1>2. ShopInit => PriceThms!Init
  BY DEF ShopInit, Price!Init, PriceThms!Init, Price!NoPurchase, PriceThms!NoPurchase, Price!NoAsk, PriceThms!NoAsk
<1>3. [ShopNext]_shopVars => [PriceThms!Next]_(PriceThms!vars)
  BY StepOfOne, StepOfPrice
<1>4. ASSUME PriceThms!AskedIsOwed PROVE AskedIsOwed
  BY <1>4 DEF AskedIsOwed, Price!AskedIsOwed, PriceThms!AskedIsOwed, Price!TotalIsExact, PriceThms!TotalIsExact,
         Price!TagIsReadable, PriceThms!TagIsReadable, Price!StarsAreTheTotal, PriceThms!StarsAreTheTotal,
         Price!Within, PriceThms!Within, Price!NoPurchase, PriceThms!NoPurchase,
         Price!usdt6ToUsdCents, PriceThms!usdt6ToUsdCents, Price!tronTagOfAmountUsdt6, PriceThms!tronTagOfAmountUsdt6,
         Price!CENTS_TO_USDT6, PriceThms!CENTS_TO_USDT6, Price!TRON_TAG_UNIT_USDT6, PriceThms!TRON_TAG_UNIT_USDT6
<1>5. PriceThms!Spec => []PriceThms!AskedIsOwed
  BY <1>1, PriceThms!ChargedExactly
<1> QED
  BY <1>2, <1>3, <1>4, <1>5, PTL DEF ShopSpec, PriceThms!Spec

LEMMA BonusAlways == ShopSpec => []BonusInv
<1>1. Bonus!Constants
  BY ShopAssumption
<1>2. ShopInit => BonusInv
  BY BonusInitially DEF ShopInit
<1>3. BonusInv /\ [ShopNext]_shopVars => BonusInv'
  BY <1>1, StepOfOne, BonusInductive
<1> QED
  BY <1>2, <1>3, PTL DEF ShopSpec

\* One bonus for a referee, unless an order was given back: of two orders the one
\* that is paid last sees the other (creditReferralBonus).
THEOREM ShopPaysOneBonus == ShopSpec => []OneBonus
<1>1. BonusInv => OneBonus
  BY DEF BonusInv, OneBonus, Bonus!OneBonus, Earning, Dead
<1> QED
  BY <1>1, BonusAlways, PTL

LEMMA TagsAlways == ShopSpec => []TagInv
<1>1. Allocate!Constants
  BY ShopAssumption
<1>2. ShopInit => TagInv
  BY <1>1, TagInitially DEF ShopInit
<1>3. TagInv /\ [ShopNext]_shopVars => TagInv'
  BY <1>1, StepOfOne, TagInductive
<1> QED
  BY <1>2, <1>3, PTL DEF ShopSpec

\* No two open TRON invoices have one tag (allocateTronTag, createTronPayment).
THEOREM ShopKeepsTagsApart == ShopSpec => []TagsAreUnique
<1>1. TagInv => TagsAreUnique
  BY DEF TagInv, TagsAreUnique, Allocate!TagsAreUnique, Apart
<1> QED
  BY <1>1, TagsAlways, PTL

\* The queue's, under whichever workers it runs.
QueueInvariant == IF focus = "rerun" THEN QueueInv(Processes) ELSE QueueInv(OneProcess)

LEMMA QueueAlways == ShopSpec => []QueueInvariant
<1>1. Queue!Constants
  BY ShopAssumption
<1>2. ShopInit => QueueInvariant
  <2>1. ASSUME Queue!Init PROVE QueueInv(OneProcess)
    BY <1>1, <2>1, QueueInitially DEF Queue!Init
  <2>2. ASSUME Rerun!Init PROVE QueueInv(Processes)
    BY <1>1, <2>2, QueueInitially DEF Rerun!Init, Rerun!NoJob, Rerun!Resting, Queue!NoJob, Queue!Resting
  <2> QED
    BY <2>1, <2>2 DEF ShopInit, QueueInvariant
<1>3. QueueInvariant /\ [ShopNext]_shopVars => QueueInvariant'
  <2> SUFFICES ASSUME QueueInvariant, [ShopNext]_shopVars PROVE QueueInvariant'
    OBVIOUS
  <2>1. focus' = focus
    BY StepOfOne
  <2>2. CASE focus = "rerun"
    <3>1. QueueStep(Processes) \/ UNCHANGED queueVars
      BY <2>2, StepOfOne, StepOfQueue
    <3>2. QueueInv(Processes)'
      BY <1>1, <2>2, <3>1, QueueInductive DEF QueueInvariant
    <3> QED
      BY <2>1, <2>2, <3>2 DEF QueueInvariant
  <2>3. CASE focus # "rerun"
    <3>1. QueueStep(OneProcess) \/ UNCHANGED queueVars
      BY <2>3, StepOfOne, StepOfQueue
    <3>2. QueueInv(OneProcess)'
      BY <1>1, <2>3, <3>1, QueueInductive DEF QueueInvariant
    <3> QED
      BY <2>1, <2>3, <3>2 DEF QueueInvariant
  <2> QED
    BY <2>2, <2>3
<1> QED
  BY <1>2, <1>3, PTL DEF ShopSpec

LEMMA RestTyped == ShopSpec => [](focus \in Components /\ Settings!TypeOK /\ Posts!TypeOK)
<1> DEFINE Typed == focus \in Components /\ Settings!TypeOK /\ Posts!TypeOK
<1>1. Settings!Constants /\ Posts!Constants
  BY ShopAssumption
<1>2. ShopInit => Typed
  <2>1. ASSUME Settings!Init PROVE Settings!TypeOK
    BY <1>1, <2>1 DEF Settings!Constants, Settings!Init, Settings!TypeOK, Settings!Empty
  <2>2. ASSUME Posts!Init PROVE Posts!TypeOK
    <3>1. Posts!NoTask \in [is : Posts!JobStates, retried : BOOLEAN]
      BY DEF Posts!NoTask, Posts!JobStates
    <3>2. stale \in BOOLEAN /\ task \in [is : Posts!JobStates, retried : BOOLEAN]
      BY <2>2, <3>1, Zenon DEF Posts!Init
    <3>3. clicks \in 0 .. ClickBound /\ stumbles \in 0 .. StumbleBound
      BY <1>1, <2>2 DEF Posts!Constants, Posts!Init
    <3> QED
      BY <2>2, <3>2, <3>3 DEF Posts!Init, Posts!TypeOK, Posts!Statuses
  <2> QED
    BY <2>1, <2>2 DEF ShopInit
<1>3. Typed /\ [ShopNext]_shopVars => Typed'
  BY <1>1, StepOfOne, SettingsTyped, PostsTyped
<1> QED
  BY <1>2, <1>3, PTL DEF ShopSpec

\* Every variable of every component keeps its type.  An order has one job in the
\* delivery queue and the job one run, so that its attempts are counted once and
\* are never more than it was given (enqueueDelivery, defaultJobOptions).
THEOREM ShopTypes == ShopSpec => []ShopTypeOK
<1>1. ShopSpec => []TypeOK
  <2>1. ShopInit => Init
    BY DEF ShopInit
  <2>2. [ShopNext]_shopVars => [Next]_vars
    BY StepOfOne
  <2> QED
    BY <2>1, <2>2, TypeCorrect, PTL DEF ShopSpec, Spec
<1>2. PayInv => IF focus = "rivals" THEN Rivals!TypeOK ELSE Pay!TypeOK
  BY DEF PayInv, PayThms!IInv, RivalsThms!IInv, PayThms!TypeOK, RivalsThms!TypeOK, Pay!TypeOK, Rivals!TypeOK,
         PayThms!Statuses, RivalsThms!Statuses, Pay!Statuses, Rivals!Statuses, PayThms!Closed,
         RivalsThms!Closed, Pay!Closed, Rivals!Closed
<1>3. ShopSpec => []Subs!TypeOK
  <2>1. SubsThms!TypeOK => Subs!TypeOK
    BY DEF SubsThms!TypeOK, Subs!TypeOK, SubsThms!RowIds, Subs!RowIds
  <2>2. SubsThms!Spec => []SubsThms!TypeOK
    BY SubsRun, SubsThms!TypeCorrect
  <2> QED
    BY <2>1, <2>2, SubsRun, PTL
<1>4. ShopSpec => []Promo!TypeOK
  <2>1. PromoThms!IInv => Promo!TypeOK
    BY DEF PromoThms!IInv, PromoThms!TypeOK, Promo!TypeOK, PromoThms!Live, Promo!Live, PromoThms!NoShopper,
           Promo!NoShopper, PromoThms!Cardinality, Promo!Cardinality
  <2>2. PromoThms!Spec => []PromoThms!IInv
    BY PromoRuns, PromoThms!InductiveInvariant
  <2> QED
    BY <2>1, <2>2, PromoRuns, PTL
<1>5. QueueInvariant => IF focus = "rerun" THEN Rerun!TypeOK ELSE Queue!TypeOK
  BY DEF QueueInvariant, QueueInv, QueueTypes, JobStates, Rerun!TypeOK, Queue!TypeOK
<1>6. BonusInv /\ TagInv => Bonus!TypeOK /\ Allocate!TypeOK
  BY DEF BonusInv, TagInv
<1>7. /\ focus \in Components /\ Settings!TypeOK /\ Posts!TypeOK /\ TypeOK
      /\ IF focus = "rivals" THEN Rivals!TypeOK ELSE Pay!TypeOK
      /\ IF focus = "rerun" THEN Rerun!TypeOK ELSE Queue!TypeOK
      /\ Subs!TypeOK /\ Promo!TypeOK /\ Bonus!TypeOK /\ Allocate!TypeOK
      => ShopTypeOK
  BY DEF ShopTypeOK
<1> QED
  BY <1>1, <1>2, <1>3, <1>4, <1>5, <1>6, <1>7, PayInvariant, QueueAlways, BonusAlways, TagsAlways,
     RestTyped, PTL

=============================================================================
